----------------------------- MODULE RpcService -----------------------------
(***************************************************************************)
(* The transaction calls of the RPC service (src/rpc/grpcserver.go):      *)
(* CommitTX, which checks each transaction's hash and puts the list into  *)
(* the mempool in chunks, and SendTX, which fills the nonce from the      *)
(* chain's account state, has the transaction signed and puts it.  gRPC   *)
(* runs every call in a goroutine of its own, so calls interleave with    *)
(* each other and with the mempool's other clients; each RequestFuture is *)
(* one step of the actor it is sent to.                                   *)
(*                                                                         *)
(* A transaction is a record [id, acct, nonce, size, hashOk]: hashOk is   *)
(* whether tx.Hash equals CalculateTxHash().  The mempool is out of the   *)
(* sources (spec 1); it is modelled by its interface: a put answers an    *)
(* error or nil for each transaction and keeps the ones it accepts, in    *)
(* order; one whose account and nonce it holds already, or whose nonce is *)
(* not above its account's committed nonce, is refused.  A MemPoolGet      *)
(* answers the ready transactions: per account the run of nonces from the *)
(* committed nonce + 1, in nonce order.                                    *)
(* A GetStateRsp carrying an error makes SendTX format err.Error() with   *)
(* err nil (line 221), a panic gRPC does not recover; that branch is left  *)
(* out.                                                                    *)
(***************************************************************************)
EXTENDS Naturals, Sequences, SequencesExt

CONSTANTS
    Accounts,     \* the accounts transactions are sent from
    CommitLists,  \* the lists clients pass to CommitTX
    SendBodies,   \* the transactions clients pass to SendTX: [id, acct, size]
    Clients,      \* concurrent SendTX calls
    Chunk         \* chunk: the transactions per mempool put (100 in the code)

VARIABLES
    mempool,      \* the mempool's transactions, oldest first
    nonce,        \* the committed nonce of each account (GetState)
    cpc,          \* CommitTX: "idle", "loop" or "done"
    clist,        \* in.Txs
    ci,           \* i, 0-based
    cstart,       \* start
    ccnt,         \* cnt
    cres,         \* results.Results: a status per transaction
    cret,         \* what CommitTX returned: "results", "error" or "none"
    cputs,        \* the puts CommitTX made: [txs, verdicts] each (history)
    spc,          \* SendTX of each client: "idle", "state", "sign", "put", "done"
    stx           \* the transaction each SendTX call is building

rpcVars == <<mempool, nonce, cpc, clist, ci, cstart, ccnt, cres, cret, cputs,
             spc, stx>>

InMempool(tx) == \E i \in DOMAIN mempool : mempool[i] = tx

\* a transaction of the same account with the same nonce is in the mempool
NonceTaken(tx) == \E i \in DOMAIN mempool : mempool[i].acct = tx.acct /\ mempool[i].nonce = tx.nonce

\* A MemPoolPut of txs answers a verdict per transaction; the accepted ones
\* are appended.  One whose nonce the mempool holds already, or one whose
\* nonce is not above the account's committed nonce, is refused.
PutVerdicts(txs) ==
    {v \in [DOMAIN txs -> {"ok", "err"}] :
        \A j \in DOMAIN txs :
            NonceTaken(txs[j]) \/ txs[j].nonce <= nonce[txs[j].acct] => v[j] = "err"}

\* the nonces from the committed one + 1 up to tx's are all in the mempool
Ready(tx) == \A n \in nonce[tx.acct] + 1..tx.nonce :
                \E i \in DOMAIN mempool : mempool[i].acct = tx.acct /\ mempool[i].nonce = n

\* MemPoolGet's answer: the ready transactions in nonce order
ReadyTxs == SortSeq(SelectSeq(mempool, Ready), LAMBDA x, y : x.nonce < y.nonce)

Accept(txs, v) == mempool \o SelectSeq(txs, LAMBDA t : \E j \in DOMAIN txs : txs[j] = t /\ v[j] = "ok")

RpcInit ==
    /\ mempool = <<>> /\ nonce = [a \in Accounts |-> 0]
    /\ cpc = "idle" /\ clist = <<>> /\ ci = 0 /\ cstart = 0 /\ ccnt = 0
    /\ cres = <<>> /\ cret = "none" /\ cputs = <<>>
    /\ spc = [c \in Clients |-> "idle"] /\ stx = [c \in Clients |-> <<>>]

-----------------------------------------------------------------------------
(* CommitTX, lines 249-301                                                 *)

\* in.Txs is nil: InvalidArgument.  Otherwise results are made and the loop
\* starts.
CommitStart ==
    /\ cpc = "idle"
    /\ \E l \in CommitLists :
          /\ clist' = l
          /\ IF l = <<>>
               THEN cpc' = "done" /\ cret' = "error" /\ cres' = <<>>
               ELSE cpc' = "loop" /\ cres' = [j \in DOMAIN l |-> "none"] /\ UNCHANGED cret
    /\ ci' = 0 /\ cstart' = 0 /\ ccnt' = 0 /\ cputs' = <<>>
    /\ UNCHANGED <<mempool, nonce, spc, stx>>

\* (i > 0 && i%chunk == 0) || i == len(in.Txs)-1
ChunkEnds(i, len) == (i > 0 /\ i % Chunk = 0) \/ i = len - 1

\* the hash check of transaction i: TX_INVALID_HASH or no error
HashStatus(tx) == IF tx.hashOk THEN "ok" ELSE "invalidHash"

\* one iteration: results[i] is set and cnt counts the transaction; no put
CommitCheck ==
    /\ cpc = "loop"
    /\ ~ChunkEnds(ci, Len(clist))
    /\ cres' = [cres EXCEPT ![ci + 1] = HashStatus(clist[ci + 1])]
    /\ ccnt' = ccnt + 1 /\ ci' = ci + 1
    /\ UNCHANGED <<mempool, nonce, cpc, clist, cstart, cret, cputs, spc, stx>>

\* Mutation of CommitPut: start is not advanced after a put.
CommitPutNoAdvance(chunk, v) ==
    /\ mempool' = Accept(chunk, v)
    /\ cres' = [j \in DOMAIN cres |->
                  IF j \in cstart + 1..cstart + Len(chunk) THEN v[j - cstart] ELSE cres[j]]
    /\ cputs' = Append(cputs, [txs |-> chunk, verdicts |-> v])
    /\ UNCHANGED cstart /\ ccnt' = 0

\* the mempool answers the put of in.Txs[start:start+cnt]: each
\* results[start+j].Error becomes the mempool's verdict for transaction j,
\* overwriting the hash check's (results[i] included); start moves past the
\* chunk, cnt is reset
CommitPut(chunk, v) ==
    /\ mempool' = Accept(chunk, v)
    /\ cres' = [j \in DOMAIN cres |->
                  IF j \in cstart + 1..cstart + Len(chunk) THEN v[j - cstart] ELSE cres[j]]
    /\ cputs' = Append(cputs, [txs |-> chunk, verdicts |-> v])
    /\ cstart' = cstart + Len(chunk) /\ ccnt' = 0

\* an iteration that ends a chunk: the chunk is put, and the loop goes on or
\* CommitTX returns the results
CommitChunk ==
    /\ cpc = "loop"
    /\ ChunkEnds(ci, Len(clist))
    /\ LET chunk == SubSeq(clist, cstart + 1, cstart + ccnt + 1)
       IN  \E v \in PutVerdicts(chunk) : CommitPut(chunk, v)
    /\ IF ci = Len(clist) - 1
         THEN cpc' = "done" /\ cret' = "results" /\ UNCHANGED ci
         ELSE ci' = ci + 1 /\ UNCHANGED <<cpc, cret>>
    /\ UNCHANGED <<nonce, clist, spc, stx>>

\* the put's future fails (a timeout): CommitTX returns nil, err.  The
\* mempool actor may have taken the message before the timeout or not.
CommitChunkFails ==
    /\ cpc = "loop"
    /\ ChunkEnds(ci, Len(clist))
    /\ LET chunk == SubSeq(clist, cstart + 1, cstart + ccnt + 1)
       IN  \/ \E v \in PutVerdicts(chunk) : mempool' = Accept(chunk, v)
           \/ UNCHANGED mempool
    /\ cpc' = "done" /\ cret' = "error"
    /\ UNCHANGED <<nonce, clist, ci, cstart, ccnt, cres, cputs, spc, stx>>

\* the caller of CommitTX makes its next call; the handler's locals are gone
CommitReturn ==
    /\ cpc = "done"
    /\ cpc' = "idle" /\ cret' = "none"
    /\ clist' = <<>> /\ ci' = 0 /\ cstart' = 0 /\ ccnt' = 0 /\ cres' = <<>> /\ cputs' = <<>>
    /\ UNCHANGED <<mempool, nonce, spc, stx>>

-----------------------------------------------------------------------------
(* SendTX, lines 210-247                                                   *)

\* a client calls SendTX
SendStart(c) ==
    /\ spc[c] = "idle"
    /\ \E b \in SendBodies : stx' = [stx EXCEPT ![c] = b]
    /\ spc' = [spc EXCEPT ![c] = "state"]
    /\ UNCHANGED <<mempool, nonce, cpc, clist, ci, cstart, ccnt, cres, cret, cputs>>

\* GetState from the chain service: the nonce is the committed one plus 1
SendGetState(c) ==
    /\ spc[c] = "state"
    /\ stx' = [stx EXCEPT ![c] = [id |-> @.id, acct |-> @.acct, size |-> @.size,
                                    nonce |-> nonce[@.acct] + 1, hashOk |-> TRUE]]
    /\ spc' = [spc EXCEPT ![c] = "sign"]
    /\ UNCHANGED <<mempool, nonce, cpc, clist, ci, cstart, ccnt, cres, cret, cputs>>

\* the GetState future fails: SendTX returns the error
SendStateFails(c) ==
    /\ spc[c] = "state"
    /\ spc' = [spc EXCEPT ![c] = "done"]
    /\ UNCHANGED <<mempool, nonce, cpc, clist, ci, cstart, ccnt, cres, cret, cputs, stx>>

\* the accounts service signs the transaction (the hash is recomputed), or
\* its future or its response fails and SendTX returns the error
SendSign(c) ==
    /\ spc[c] = "sign"
    /\ spc' = [spc EXCEPT ![c] = "put"] \/ spc' = [spc EXCEPT ![c] = "done"]
    /\ UNCHANGED <<mempool, nonce, cpc, clist, ci, cstart, ccnt, cres, cret, cputs, stx>>

\* MemPoolPut of the one transaction: the verdict is returned; a failed
\* future is returned as an internal error, the put taken or not
SendPut(c) ==
    /\ spc[c] = "put"
    /\ \/ \E v \in PutVerdicts(<<stx[c]>>) : mempool' = Accept(<<stx[c]>>, v)
       \/ UNCHANGED mempool
    /\ spc' = [spc EXCEPT ![c] = "done"]
    /\ UNCHANGED <<nonce, cpc, clist, ci, cstart, ccnt, cres, cret, cputs, stx>>

\* the client makes its next call
SendReturn(c) ==
    /\ spc[c] = "done"
    /\ spc' = [spc EXCEPT ![c] = "idle"] /\ stx' = [stx EXCEPT ![c] = <<>>]
    /\ UNCHANGED <<mempool, nonce, cpc, clist, ci, cstart, ccnt, cres, cret, cputs>>

RpcStep ==
    \/ CommitStart \/ CommitCheck \/ CommitChunk \/ CommitChunkFails \/ CommitReturn
    \/ \E c \in Clients :
          \/ SendStart(c) \/ SendGetState(c) \/ SendStateFails(c)
          \/ SendSign(c) \/ SendPut(c) \/ SendReturn(c)

=============================================================================
