----------------------------- MODULE TxPipeline -----------------------------
(***************************************************************************)
(* The life of a transaction: RPC clients put it into the mempool          *)
(* (RpcService), the block factory gathers a body from the mempool and     *)
(* executes it into a BlockState (GatherTxs), and the chain service adds   *)
(* the factory's block: it applies the BlockState without executing the    *)
(* body again (newExecutor with bState != nil), asks the mempool to delete *)
(* the body's transactions and only then sets latest and notifies the      *)
(* factory (chainhandle.go addBlock, 109-140).                             *)
(*                                                                         *)
(* The mempool is an actor: the MemPoolDel requests the chain service      *)
(* sends wait in its mailbox, and the factory's MemPoolGet, sent after the *)
(* notification, is served after them.                                     *)
(***************************************************************************)
EXTENDS RpcService

CONSTANTS
    MaxBlockBodySize,  \* maxBlockBodySize
    Outcomes,          \* the factory's txOp results
    MaxBlocks,         \* bound on the blocks the factory makes
    Nil

VARIABLES
    pc, txIn, last, size, applied, blockState, result,  \* GatherTXs
    pending,    \* the factory's block sent to the chain service, or Nil
    mbox,       \* the mempool's mailbox: bodies of MemPoolDel requests
    blocks      \* the blocks the chain service added: [body, executed]

GT == INSTANCE GatherTxs WITH TxSize <- LAMBDA tx : tx.size

vars == <<rpcVars, pc, txIn, last, size, applied, blockState, result,
          pending, mbox, blocks>>

gatherVars == <<pc, txIn, last, size, applied, blockState, result>>

Init == RpcInit /\ GT!GatherInit /\ pending = Nil /\ mbox = <<>> /\ blocks = <<>>

-----------------------------------------------------------------------------
(* The mempool and the block factory                                       *)

\* MemPoolGet: served after every MemPoolDel queued before it; the mempool
\* answers its ready transactions
MemPoolGet ==
    /\ mbox = <<>>
    /\ GT!Fetch(ReadyTxs)
    /\ UNCHANGED <<rpcVars, pending, mbox, blocks>>

\* the mempool handles the MemPoolDel at the head of its mailbox
MemPoolDel ==
    /\ mbox # <<>>
    /\ mempool' = SelectSeq(mempool, LAMBDA t : t \notin Range(Head(mbox)))
    /\ mbox' = Tail(mbox)
    /\ UNCHANGED <<nonce, cpc, clist, ci, cstart, ccnt, cres, cret, cputs, spc, stx,
                   gatherVars, pending, blocks>>

\* GatherTXs' steps; the MemPoolGet future failing is FetchFails
Gather ==
    /\ GT!FetchFails \/ GT!SizeLimit \/ GT!TxApplied \/ GT!TxTimeout \/ GT!TxFails
    /\ UNCHANGED <<rpcVars, pending, mbox, blocks>>

\* the factory makes a block of the body and BlockState GatherTXs returned
\* and sends it to the chain service
Seal ==
    /\ pc = "done" /\ ~result.err /\ Len(blocks) < MaxBlocks
    /\ pending' = result /\ pc' = "wait" /\ result' = Nil
    /\ UNCHANGED <<rpcVars, txIn, last, size, applied, blockState, mbox, blocks>>

\* the factory calls GatherTXs again: its locals start afresh
NewGather ==
    /\ pc' = "fetch" /\ txIn' = <<>> /\ last' = 0 /\ size' = 0
    /\ applied' = {} /\ blockState' = Nil /\ result' = Nil

\* GatherTXs failed: the factory gives up this slot and gathers again
Discard ==
    /\ pc = "done" /\ result.err
    /\ NewGather
    /\ UNCHANGED <<rpcVars, pending, mbox, blocks>>

-----------------------------------------------------------------------------
(* The chain service adds the factory's block                              *)

\* sdb.Apply(bstate): executeTx set each executed sender's nonce to the
\* transaction's, in body order
ApplyNonces(n, blk) ==
    FoldLeft(LAMBDA acc, i : IF blk.state # Nil /\ i \in blk.state
                             THEN [acc EXCEPT ![blk.txs[i].acct] = blk.txs[i].nonce]
                             ELSE acc,
             n, [i \in 1..Len(blk.txs) |-> i])

\* Mutation of RequestDel: the MemPoolDel request is not sent.
RequestDelSkipped(blk) == mbox' = mbox

\* cs.RequestTo(MemPoolSvc, MemPoolDel{Txs: block's txs})
RequestDel(blk) == mbox' = Append(mbox, blk.txs)

\* addBlock with usedBstate: the block is on the main chain, its BlockState
\* is applied with no transaction executed, the store commits it, the
\* MemPoolDel is requested, latest is set and the factory notified; the
\* factory starts GatherTXs afresh
AddBlock ==
    /\ pending # Nil
    /\ nonce' = ApplyNonces(nonce, pending)
    /\ blocks' = Append(blocks, [body |-> pending.txs,
                                  executed |-> {pending.txs[i] : i \in IF pending.state = Nil THEN {} ELSE pending.state}])
    /\ RequestDel(pending)
    /\ pending' = Nil /\ NewGather
    /\ UNCHANGED <<mempool, cpc, clist, ci, cstart, ccnt, cres, cret, cputs, spc, stx>>

Rpc == RpcStep /\ UNCHANGED <<gatherVars, pending, mbox, blocks>>

Next ==
    \/ Rpc
    \/ MemPoolGet \/ MemPoolDel \/ Gather \/ Seal \/ Discard
    \/ AddBlock

Spec == Init /\ [][Next]_vars

-----------------------------------------------------------------------------
(* Properties                                                              *)

TypeOK ==
    /\ pc \in {"fetch", "loop", "done", "wait"}
    /\ pc = "loop" => last \in 1..Len(txIn)
    /\ cpc \in {"idle", "loop", "done"} /\ cret \in {"none", "results", "error"}
    /\ cstart + ccnt <= Len(clist) /\ DOMAIN cres = DOMAIN clist
    /\ \A c \in Clients : spc[c] \in {"idle", "state", "sign", "put", "done"}
    /\ pending = Nil <=> pc # "wait"
    /\ Len(blocks) <= MaxBlocks

\* The BlockState GatherTXs returns holds no transaction outside the body
\* it returns, whichever way the loop ended.
StateWithinBody == GT!StateWithinBody

\* When CommitTX returns results, its chunked puts (start, cnt and the
\* i%chunk test) have put every transaction of the list exactly once and in
\* order, and each result is the mempool's verdict for that transaction.
CommitResultsAligned ==
    cret = "results" =>
        /\ FlattenSeq([k \in DOMAIN cputs |-> cputs[k].txs]) = clist
        /\ cres = FlattenSeq([k \in DOMAIN cputs |-> cputs[k].verdicts])

\* No transaction is executed in two blocks: the MemPoolDel addBlock sends
\* before setLatest reaches the mempool before the factory's next
\* MemPoolGet, and a transaction put again afterwards is refused.
NoDoubleExecution ==
    \A i, j \in DOMAIN blocks : i # j => blocks[i].executed \cap blocks[j].executed = {}

\* A transaction that entered a block either was executed in it or is still
\* in the mempool: MemPoolDel removes only what the chain has executed.
TxNeverLost ==
    \A i \in DOMAIN blocks : \A t \in Range(blocks[i].body) :
        t \in blocks[i].executed \/ InMempool(t)

\* When CommitTX returns an error, none of the list's transactions was
\* taken into the mempool (spec 5: a timed-out handler leaves no partial
\* state behind).
CommitAtomic ==
    cret = "error" =>
        \A k \in DOMAIN cputs : \A j \in DOMAIN cputs[k].verdicts : cputs[k].verdicts[j] # "ok"


=============================================================================
