------------------------------ MODULE GatherTxs ------------------------------
(***************************************************************************)
(* GatherTXs (src/consensus/chain/tx.go): the block factory fetches the    *)
(* mempool's transactions and applies to each, in order, the composite op *)
(* of newBlockLimitOp (the body size bound) and the factory's txOp (which *)
(* executes the transaction into the block's BlockState).  The result is  *)
(* the block body and the BlockState the factory seals into a block.      *)
(*                                                                         *)
(* A transaction's encoded size (proto.Size) is TxSize(tx); txOp's        *)
(* outcome is a choice among Outcomes.  The BlockState is shared by every *)
(* txOp call, so it is the set of positions executed into it; nil until   *)
(* one is.  Sizes stay far below 2^32, where uint32(size) would wrap.     *)
(* The fetch takes the mempool's answer as its argument: the module is    *)
(* composed with the mempool and the chain service in TxPipeline.         *)
(***************************************************************************)
EXTENDS Naturals, Sequences, SequencesExt

CONSTANTS
    TxSize(_),        \* proto.Size(tx)
    MaxBlockBodySize, \* maxBlockBodySize
    Outcomes,         \* txOp results: SUBSET {"ok", "timeout", "error"}
    Nil

VARIABLES
    pc,          \* "fetch", "loop" (in the for loop) or "done"
    txIn,        \* the mempool's transactions
    last,        \* last: the position being applied
    size,        \* the size newBlockLimitOp's closure has counted
    applied,     \* positions executed into the shared BlockState
    blockState,  \* GatherTXs' blockState: the last non-nil curState
    result       \* what GatherTXs returned

gatherVars == <<pc, txIn, last, size, applied, blockState, result>>

\* newBlockLimitOp: size += proto.Size(tx); over the limit is
\* errBlockSizeLimit, counted size included
LimitExceeded(sz, tx) == sz + TxSize(tx) > MaxBlockBodySize

\* Mutation of MoreTxs: the range loop runs one position past the end.
MoreTxsOffByOne(i) == i <= Len(txIn)

\* the range loop over txIn continues after position i
MoreTxs(i) == i < Len(txIn)

\* Mutation of Collected: the failing transaction is cut off by returning
\* txIn[0:last], also when the loop ran to the end.
CollectedDropLast(i) == SubSeq(txIn, 1, i - 1)

\* nCollected = last + 1; txIn[0 : last+1]
Collected(i) == SubSeq(txIn, 1, i)

Return(txs, bs) == [txs |-> txs, state |-> bs, err |-> FALSE]

GatherInit ==
    /\ pc = "fetch" /\ txIn = <<>> /\ last = 0 /\ size = 0
    /\ applied = {} /\ blockState = Nil /\ result = Nil

\* FetchTXs: the MemPoolGet future fails or times out and an empty slice
\* is used; with no candidates GatherTXs returns at once.
FetchFails ==
    /\ pc = "fetch"
    /\ pc' = "done" /\ result' = Return(<<>>, Nil)
    /\ UNCHANGED <<txIn, last, size, applied, blockState>>

\* FetchTXs returns txs, the mempool's transactions
Fetch(txs) ==
    /\ pc = "fetch"
    /\ txIn' = txs
    /\ IF txs = <<>>
         THEN pc' = "done" /\ result' = Return(<<>>, Nil)
         ELSE pc' = "loop" /\ UNCHANGED result
    /\ last' = 1 /\ size' = 0 /\ applied' = {} /\ blockState' = Nil

\* newBlockLimitOp fails first: the composite op returns (nil,
\* errBlockSizeLimit), txOp is not called, and the loop breaks.
SizeLimit ==
    /\ pc = "loop"
    /\ LimitExceeded(size, txIn[last])
    /\ size' = size + TxSize(txIn[last])
    /\ pc' = "done" /\ result' = Return(Collected(last), blockState)
    /\ UNCHANGED <<txIn, last, applied, blockState>>

\* txOp executes the transaction; the loop goes on, or returns after the
\* last one.
TxApplied ==
    /\ pc = "loop" /\ "ok" \in Outcomes
    /\ ~LimitExceeded(size, txIn[last])
    /\ size' = size + TxSize(txIn[last])
    /\ applied' = applied \cup {last}
    /\ blockState' = applied \cup {last}
    /\ IF MoreTxs(last)
         THEN last' = last + 1 /\ UNCHANGED <<pc, result>>
         ELSE /\ pc' = "done" /\ UNCHANGED last
              /\ result' = Return(Collected(last), applied \cup {last})
    /\ UNCHANGED txIn

\* txOp returns ErrTimeout with a nil state: the loop breaks.
TxTimeout ==
    /\ pc = "loop" /\ "timeout" \in Outcomes
    /\ ~LimitExceeded(size, txIn[last])
    /\ size' = size + TxSize(txIn[last])
    /\ pc' = "done" /\ result' = Return(Collected(last), blockState)
    /\ UNCHANGED <<txIn, last, applied, blockState>>

\* txOp returns any other error: GatherTXs returns (nil, nil, err).
TxFails ==
    /\ pc = "loop" /\ "error" \in Outcomes
    /\ ~LimitExceeded(size, txIn[last])
    /\ size' = size + TxSize(txIn[last])
    /\ pc' = "done" /\ result' = [txs |-> <<>>, state |-> Nil, err |-> TRUE]
    /\ UNCHANGED <<txIn, last, applied, blockState>>

-----------------------------------------------------------------------------
(* Properties                                                              *)

\* what the factory seals: the body GatherTXs returned and its BlockState
Sealed == pc = "done" /\ ~result.err

\* The BlockState holds no transaction that is not in the returned body:
\* everything txOp executed is inside txIn[0:last+1], also when the loop
\* breaks on the size limit or a timeout.
StateWithinBody ==
    Sealed /\ result.state # Nil => result.state \subseteq 1..Len(result.txs)

=============================================================================
