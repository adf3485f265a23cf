------------------------------ MODULE Executor ------------------------------
(***************************************************************************)
(* The block executor of the chain service and the BlockState it fills:   *)
(* executeTx (src/blockchain/chainhandle.go) run over a block's           *)
(* transactions, BlockState.PutAccount / GetAccount (src/types/state.go)  *)
(* and ChainStateDB.getBlockAccount (src/state/statedb.go).               *)
(*                                                                         *)
(* An account state keeps only nonce and balance: CodeHash and            *)
(* StorageRoot are written by the contract VM, which is outside the       *)
(* model.  A transaction is a record                                      *)
(*   [account, recipient, amount, nonce, callFails]                       *)
(* where callFails says whether the contract call its payload makes       *)
(* returns an error (a tx without payload, or whose call succeeds, has    *)
(* callFails = FALSE).  Only NORMAL transactions with a recipient are     *)
(* modelled; contract creation and GOVERNANCE are not.                    *)
(***************************************************************************)
EXTENDS Naturals, Sequences, SequencesExt, TLC

CONSTANTS
    Accounts,   \* account ids (types.AccountID), model values
    Nil         \* a nil pointer / empty hash

\* types.NewState(): nonce 0, balance 0.  An account that the committed map
\* does not hold reads as this state (ChainStateDB.getAccountState creates it).
NewState == [nonce |-> 0, balance |-> 0]

\* types.NewBlockState(info): no changed accounts, no undo images and an
\* empty undo state root.
NewBlockState(info) ==
    [info |-> info, accounts |-> <<>>, undo |-> <<>>, undoRoot |-> Nil]

\* Mutation of PutAccount: every write replaces the recorded pre-image.
PutAccountOverwritesUndo(bs, aid, before, changed) ==
    [bs EXCEPT !.undo = (aid :> before) @@ @, !.accounts = (aid :> changed) @@ @]

\* BlockState.PutAccount: the pre-image is recorded on the first write of the
\* account only; the post-image is always replaced.
PutAccount(bs, aid, before, changed) ==
    [bs EXCEPT !.undo     = IF aid \in DOMAIN @ THEN @ ELSE (aid :> before) @@ @,
               !.accounts = (aid :> changed) @@ @]

\* ChainStateDB.getBlockAccount / GetBlockAccountClone: the block's own
\* post-image when the block already changed the account, else the
\* committed state (a clone: records are values here).
GetBlockAccount(bs, committed, aid) ==
    IF aid \in DOMAIN bs.accounts THEN bs.accounts[aid] ELSE committed[aid]

\* Mutation of ExecuteTx: the sender is debited without the funds check.
ExecuteTxNoFundsCheck(bs, committed, tx) ==
    LET s   == tx.account
        r   == tx.recipient
        sSt == GetBlockAccount(bs, committed, s)
        rSt == GetBlockAccount(bs, committed, r)
        sCh == [sSt EXCEPT !.balance = IF s = r THEN @ ELSE @ - tx.amount,
                           !.nonce   = tx.nonce]
        rCh == [rSt EXCEPT !.balance = IF s = r THEN @ ELSE @ + tx.amount]
        bs1 == PutAccount(bs, s, sSt, sCh)
    IN  IF tx.callFails
          THEN [err |-> TRUE, bs |-> bs]
          ELSE [err |-> FALSE,
                bs  |-> IF s = r THEN bs1 ELSE PutAccount(bs1, r, rSt, rCh)]

\* executeTx for a NORMAL tx.  A sender short of funds is set to balance 0
\* while the receiver still gets the whole amount (the FIXME at line 284);
\* the nonce is taken from the tx without any check.  A failing contract
\* call returns before PutAccount, so the BlockState is left as it was.
ExecuteTx(bs, committed, tx) ==
    LET s   == tx.account
        r   == tx.recipient
        sSt == GetBlockAccount(bs, committed, s)
        rSt == GetBlockAccount(bs, committed, r)
        sCh == [sSt EXCEPT !.balance = IF s = r THEN @
                                       ELSE IF @ < tx.amount THEN 0
                                       ELSE @ - tx.amount,
                           !.nonce   = tx.nonce]
        rCh == [rSt EXCEPT !.balance = IF s = r THEN @ ELSE @ + tx.amount]
        bs1 == PutAccount(bs, s, sSt, sCh)
    IN  IF tx.callFails
          THEN [err |-> TRUE, bs |-> bs]
          ELSE [err |-> FALSE,
                bs  |-> IF s = r THEN bs1 ELSE PutAccount(bs1, r, rSt, rCh)]

\* executor.execute, the loop over the block's transactions: the first
\* error stops it and is returned.
ExecTxs(bs, committed, txs) ==
    LET step(res, tx) == IF res.err THEN res ELSE ExecuteTx(res.bs, committed, tx)
    IN  FoldLeft(step, [err |-> FALSE, bs |-> bs], txs)

=============================================================================
