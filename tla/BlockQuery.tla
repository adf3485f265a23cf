----------------------------- MODULE BlockQuery -----------------------------
(***************************************************************************)
(* The RPC block queries Blockchain and GetBlock (src/rpc/grpcserver.go)  *)
(* and the chain service reads they forward to (getBestBlock,             *)
(* getBlockByNo, getBlock in src/blockchain/chainhandle.go), on a store   *)
(* snapshot [stored, mainIdx, latest] (see SyncHelpers).                  *)
(*                                                                         *)
(* GetBlock takes a byte string: shorter than 32 bytes it is a block      *)
(* number as types.BlockNoToBytes writes it (eight little-endian bytes),  *)
(* otherwise a block hash.  A byte is modelled as a digit of base Base,   *)
(* with Base^8 = Word standing for 2^64, so the decoding keeps the width  *)
(* of a uint64.  HashOf[b] is block b's HashLen-byte hash.                *)
(*                                                                         *)
(* A handler's reply is a record [code, block, height]; code is "OK",     *)
(* a gRPC status code, "error" for an error passed through unchanged, or  *)
(* "panic" for a runtime panic of the handler goroutine.  Each handler    *)
(* yields the set of replies it can give: the chain service's future can  *)
(* always time out.                                                        *)
(***************************************************************************)
EXTENDS Naturals, Sequences, SequencesExt

CONSTANTS
    Nil,      \* no block
    Word,     \* 2^64: types.BlockNo
    Base,     \* 2^8: the values of a byte
    HashLen,  \* the length of a block hash (32)
    HashOf    \* HashOf[b]: the hash of block b, a sequence of HashLen bytes

ASSUME Base^8 = Word

\* types.BlockNoToBytes: binary.LittleEndian.PutUint64 into 8 bytes
BlockNoToBytes(bn) == [i \in 1..8 |-> (bn \div Base^(i - 1)) % Base]

\* binary.LittleEndian.Uint64 reads raw[7]: a shorter slice panics
Uint64Panics(raw) == Len(raw) < 8

\* Mutation of BlockNoFromBytes: the bytes are read most significant first.
BlockNoFromBytesBigEndian(raw) ==
    FoldLeft(LAMBDA acc, d : acc * Base + d, 0, SubSeq(raw, 1, 8))

\* types.BlockNoFromBytes / binary.LittleEndian.Uint64: the first eight
\* bytes, raw[0] the least significant; the rest are ignored
BlockNoFromBytes(raw) ==
    FoldRight(LAMBDA d, acc : d + Base * acc, SubSeq(raw, 1, 8), 0)

-----------------------------------------------------------------------------
(* The chain service's reads (cdb, spec 4.1: NotFound is an error)         *)

\* GetBlockRsp{Block, Err}
BlockRsp(b) == IF b = Nil THEN [block |-> Nil, err |-> TRUE] ELSE [block |-> b, err |-> FALSE]

\* getBlockByNo: the main index
GetBlockByNo(cdb, n) ==
    BlockRsp(IF n \in DOMAIN cdb.mainIdx THEN cdb.mainIdx[n] ELSE Nil)

\* getBlock: any stored block, main or branch, by its hash
GetBlockByHash(cdb, h) ==
    BlockRsp(IF \E b \in cdb.stored : HashOf[b] = h
               THEN CHOOSE b \in cdb.stored : HashOf[b] = h ELSE Nil)

\* getBestBlock: the main block at latest
GetBestBlock(cdb) == GetBlockByNo(cdb, cdb.latest)

-----------------------------------------------------------------------------
(* The RPC handlers                                                        *)

Reply(code, b, h) == [code |-> code, block |-> b, height |-> h]

\* RequestFuture(...).Result() failed: the error is returned as it is
TimedOut == Reply("error", Nil, 0)

\* msgHelper.ExtractBlockFromResponse: the response's Err, else its block
ExtractBlock(rsp) == IF rsp.err THEN [block |-> Nil, err |-> TRUE] ELSE rsp

\* Blockchain: GetBestBlock; a response error is returned, else the best
\* block's hash and number
Blockchain(cdb) ==
    LET rsp == GetBestBlock(cdb)
    IN  {TimedOut,
         IF rsp.err THEN Reply("error", Nil, 0)
         ELSE Reply("OK", rsp.block, cdb.latest)}

\* GetBlock: no bytes is InvalidArgument; fewer than 32 bytes are decoded
\* as a block number (panicking below 8), others are a hash; an error
\* extracted from the response is Internal, no block NotFound
GetBlock(cdb, value) ==
    IF value = <<>> THEN {Reply("InvalidArgument", Nil, 0)}
    ELSE IF Len(value) < HashLen /\ Uint64Panics(value) THEN {Reply("panic", Nil, 0)}
    ELSE LET rsp == IF Len(value) < HashLen
                      THEN GetBlockByNo(cdb, BlockNoFromBytes(value))
                      ELSE GetBlockByHash(cdb, value)
             found == ExtractBlock(rsp)
         IN  {TimedOut,
              IF found.err THEN Reply("Internal", Nil, 0)
              ELSE IF found.block = Nil THEN Reply("NotFound", Nil, 0)
              ELSE Reply("OK", found.block, 0)}

=============================================================================
