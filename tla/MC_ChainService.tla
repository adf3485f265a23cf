-------------------------- MODULE MC_ChainService --------------------------
(***************************************************************************)
(* Model for ChainService: genesis G, a main chain G-A1-A2 and a heavier   *)
(* branch G-B1-B2-B3 (the reorganisation scenario of spec 8), and three    *)
(* accounts.  A1 and B1 spend twice from account a (the undo image must be *)
(* the first pre-image), A1 also pays c, which no B block touches (a       *)
(* rollback must restore it), B2 touches b twice, once by a               *)
(* self-transfer, and B3 overspends (the zero-balance branch of           *)
(* executeTx).  The fault variants add a contract call of B3 that fails    *)
(* (on top of A2 it is a branch block a reorganisation must execute) and a *)
(* block X that names A1 as parent but carries number 3.                   *)
(***************************************************************************)
EXTENDS ChainService

CONSTANTS acctA, acctB, acctC, G, A1, A2, B1, B2, B3, X

MCAccounts == {acctA, acctB, acctC}

MCParent == (A1 :> G) @@ (A2 :> A1) @@ (B1 :> G) @@ (B2 :> B1) @@ (B3 :> B2)

MCBlockNo == (G :> 0) @@ (A1 :> 1) @@ (A2 :> 2) @@ (B1 :> 1) @@ (B2 :> 2) @@ (B3 :> 3)

\* with the misnumbered block X, child of A1
MCParentX == (X :> A1) @@ MCParent
MCBlockNoX == (X :> 3) @@ MCBlockNo

T(from, to, amount, nonce, fails) ==
    [account |-> from, recipient |-> to, amount |-> amount, nonce |-> nonce,
     callFails |-> fails]

MCTxs ==
    (G  :> <<>>) @@
    (A1 :> <<T(acctA, acctB, 1, 1, FALSE), T(acctA, acctC, 1, 2, FALSE)>>) @@
    (A2 :> <<T(acctB, acctA, 1, 1, FALSE)>>) @@
    (B1 :> <<T(acctA, acctB, 1, 1, FALSE), T(acctA, acctB, 1, 2, FALSE)>>) @@
    (B2 :> <<T(acctB, acctA, 1, 1, FALSE), T(acctB, acctB, 0, 2, FALSE)>>) @@
    (B3 :> <<T(acctA, acctB, 3, 3, FALSE)>>)

\* B3's transaction calls a contract that returns an error; X is empty
MCTxsCallFails == (X :> <<>>) @@ [MCTxs EXCEPT ![B3] = <<T(acctA, acctB, 3, 3, TRUE)>>]

MCGenesisAlloc == (acctA :> [nonce |-> 0, balance |-> 2]) @@
                  (acctB :> [nonce |-> 0, balance |-> 0]) @@
                  (acctC :> [nonce |-> 0, balance |-> 0])

\* G is in the store from the start; A1 is sent twice, every other block once
MCSent == [b \in Blocks |-> IF b = G THEN 0 ELSE IF b = A1 THEN 2 ELSE 1]

=============================================================================
