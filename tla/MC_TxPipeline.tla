---------------------------- MODULE MC_TxPipeline ----------------------------
(***************************************************************************)
(* TxPipeline for TLC: one account, a CommitTX list of three transactions  *)
(* (one with a wrong hash) put with Chunk = 1, so the first put holds two  *)
(* and the second one, a SendTX client, a body limit of two transactions   *)
(* and MaxBlocks blocks.                                                   *)
(***************************************************************************)
EXTENDS TxPipeline

\* a transaction of account "a" with nonce n, size 1
Tx(n, ok) == [id |-> n, acct |-> "a", nonce |-> n, size |-> 1, hashOk |-> ok]

MCCommitLists == {<<>>, <<Tx(1, TRUE), Tx(2, FALSE), Tx(3, TRUE)>>}

MCSendBodies == {[id |-> 4, acct |-> "a", size |-> 1]}

=============================================================================
