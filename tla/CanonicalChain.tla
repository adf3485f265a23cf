--------------------------- MODULE CanonicalChain ---------------------------
(***************************************************************************)
(* What the chain service promises its callers about the main chain and   *)
(* the committed account state, without blocks in flight, store           *)
(* transactions, orphans or undo logs (spec sections 3 and 4.5):          *)
(*   - the main chain is a chain of blocks linked by parent hash from     *)
(*     genesis;                                                            *)
(*   - it is only ever replaced by the chain to a strictly higher block:  *)
(*     extending the tip by one block is the common case, a reorganisation *)
(*     onto a higher branch the other;                                     *)
(*   - the committed state is the state reached by executing the main     *)
(*     chain from genesis.                                                 *)
(* ChainService is shown to implement it in MC_ChainService.              *)
(***************************************************************************)
EXTENDS Naturals, Sequences

CONSTANTS
    Blocks,       \* the blocks there are
    Genesis,      \* the genesis block
    Parent,       \* Parent[b]: b's parent, for every block but genesis
    BlockNo,      \* BlockNo[b]: b's height
    StateOf(_)    \* StateOf(b): the state after executing genesis .. b

VARIABLES
    main,         \* the main chain, genesis first
    state         \* the committed state

vars == <<main, state>>

\* the chain from genesis to b
RECURSIVE ChainTo(_)
ChainTo(b) == IF b = Genesis THEN <<Genesis>> ELSE Append(ChainTo(Parent[b]), b)

Init == main = <<Genesis>> /\ state = StateOf(Genesis)

\* the main chain becomes the chain to a block higher than its tip, and the
\* state that chain's execution yields is committed with it
Adopt(b) ==
    /\ BlockNo[b] > BlockNo[main[Len(main)]]
    /\ main' = ChainTo(b)
    /\ state' = StateOf(b)

Next == \E b \in Blocks : Adopt(b)

Spec == Init /\ [][Next]_vars

=============================================================================
