------------------------------ MODULE HeaderList ------------------------------
(***************************************************************************)
(* Block header listing: the RPC ListBlockHeaders (src/rpc/grpcserver.go) *)
(* and the p2p GetBlockHeadersRequest handler                             *)
(* (src/p2p/subprotocolblock.go), as operators on a store snapshot        *)
(* [stored, mainIdx, latest] (see SyncHelpers).  Both ask the chain       *)
(* service for one block per step; a lookup that fails or finds nothing   *)
(* ends the listing.                                                      *)
(*                                                                         *)
(* A request is [hash, height, size].  size is a uint32, the block        *)
(* numbers are uint64: maxFetchSize-1 is computed modulo Word32 and the   *)
(* end number and the loop's i-- modulo Word.                              *)
(***************************************************************************)
EXTENDS Naturals, Sequences

CONSTANTS
    Parent,     \* Parent[b]: the block b.Header.PrevBlockHash names, Nil for genesis
    Nil,        \* nil / empty hash
    Word,       \* 2^64: types.BlockNo
    Word32,     \* 2^32: the request's size
    MaxFetch    \* the cap on the number of headers (1000 in the code)

\* maxFetchSize: the request's size, capped
FetchSize(size) == IF size > MaxFetch THEN MaxFetch ELSE size

\* the hash loop: GetBlock(hash) while idx < maxFetchSize; a block not
\* found breaks, genesis (an empty PrevBlockHash) breaks after it is added
RECURSIVE ByHash(_, _, _)
ByHash(cdb, hash, n) ==
    IF n = 0 \/ hash \notin cdb.stored THEN <<>>
    ELSE <<hash>> \o (IF Parent[hash] = Nil THEN <<>> ELSE ByHash(cdb, Parent[hash], n - 1))

\* the height loop: GetBlockByNo(i) for i from height down while i >= end;
\* i-- after block 0 wraps, and the lookup of that number fails
RECURSIVE ByNo(_, _, _)
ByNo(cdb, i, end) ==
    IF i < end \/ i \notin DOMAIN cdb.mainIdx THEN <<>>
    ELSE <<cdb.mainIdx[i]>> \o ByNo(cdb, (i + Word - 1) % Word, end)

\* Mutation of EndNo: the end is height - maxFetchSize, one too low.
EndNoOffByOne(height, max) ==
    IF height >= max THEN (height + Word - max) % Word ELSE 0

\* end: height - (maxFetchSize-1) when height >= maxFetchSize, else 0
EndNo(height, max) ==
    IF height >= max THEN (height + Word - ((max + Word32 - 1) % Word32)) % Word ELSE 0

\* ListBlockHeaders: by hash when one is given, else by height
ListBlockHeaders(cdb, req) ==
    LET max == FetchSize(req.size)
    IN  IF req.hash # Nil THEN ByHash(cdb, req.hash, max)
        ELSE ByNo(cdb, req.height, EndNo(req.height, max))

\* listBlockHeadersRequestHandler.handle: the same listing; the slices are
\* made with capacity data.Size, the size the peer asked for, not the cap
HandleHeadersRequest(cdb, req) ==
    [alloc |-> req.size, headers |-> ListBlockHeaders(cdb, req)]

-----------------------------------------------------------------------------
(* Reference definition from spec section 6: ListBlockHeaders(hash|height,*)
(* size <= 1000) and GetBlockHeadersRequest (size capped at 1000).        *)

\* the chain from b down to genesis, b first
RECURSIVE Down(_)
Down(b) == IF Parent[b] = Nil THEN <<b>> ELSE <<b>> \o Down(Parent[b])

\* at most min(size, MaxFetch) headers: from the block with the hash down
\* its chain, or from the main block at the height down the main chain
SpecHeaders(cdb, req) ==
    LET n == FetchSize(req.size)
        from == IF req.hash # Nil THEN req.hash
                ELSE IF req.height \in DOMAIN cdb.mainIdx THEN cdb.mainIdx[req.height]
                ELSE Nil
        all == IF from = Nil \/ from \notin cdb.stored THEN <<>> ELSE Down(from)
    IN  SubSeq(all, 1, IF n < Len(all) THEN n ELSE Len(all))

=============================================================================
