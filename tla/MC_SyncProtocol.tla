--------------------------- MODULE MC_SyncProtocol ---------------------------
(***************************************************************************)
(* The blocks, transactions and accounts of MC_ChainService; the peer's    *)
(* chain is G -> B1 -> B2 -> B3 and the requester starts at genesis with   *)
(* an empty mailbox: every block it gets comes through the sync messages.  *)
(***************************************************************************)
EXTENDS SyncProtocol, MC_ChainService

MCPeerChain == <<B1, B2, B3>>

NoneSent == [b \in Blocks |-> 0]

=============================================================================
