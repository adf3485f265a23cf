---------------------------- MODULE SyncProtocol ----------------------------
(***************************************************************************)
(* Block sync between two nodes.  The requester is a chain service        *)
(* (ChainService, whose variables this module extends); the peer is a     *)
(* node whose main chain grows block by block along PeerChain, and whose  *)
(* chain service answers the requester's calls.  The two talk over one    *)
(* connection, each side handling the other's messages in order:          *)
(*   toPeer  GetBlockRequest and GetMissingRequest from the requester     *)
(*   toReq   NewBlockNotice and GetBlockResponse from the peer            *)
(* A message is lost where the peer's handlers drop it: a GetMissing      *)
(* CallRequest to its chain service that fails or times out is answered   *)
(* by nothing, and a GetBlock call that fails leaves the block out of the *)
(* response.  At most MaxLoss such failures happen.                       *)
(***************************************************************************)
EXTENDS ChainService

CONSTANTS
    PeerChain,  \* the peer's main chain after genesis: block n is PeerChain[n]
    Word,       \* 2^w for types.BlockNo, see SyncHelpers
    MaxInbox,   \* bound on the AddBlock messages for one block in the mailbox
    MaxLoss     \* bound on the messages the network loses

ASSUME \A n \in 1..Len(PeerChain) : BlockNo[PeerChain[n]] = n

SH == INSTANCE SyncHelpers

VARIABLES
    peerLatest,   \* the peer's latest block number
    toPeer,       \* messages from the requester, oldest first
    toReq,        \* messages from the peer, oldest first
    lost,         \* messages dropped so far
    peerDown      \* the peer's chain service panicked

netVars == <<peerLatest, toPeer, toReq, lost, peerDown>>
allVars == <<vars, netVars>>

Notice(b)       == [type |-> "notice", block |-> b]
BlockRequest(h) == [type |-> "getBlock", hashes |-> h]
MissingRequest(h) == [type |-> "getMissing", hashes |-> h]
BlockResponse(s) == [type |-> "blocks", blocks |-> s]

\* the peer's block store: its main chain up to peerLatest
PeerCdb ==
    [stored  |-> {Genesis} \cup {PeerChain[n] : n \in 1..peerLatest},
     mainIdx |-> [n \in 0..peerLatest |-> IF n = 0 THEN Genesis ELSE PeerChain[n]],
     latest  |-> peerLatest]

\* the requester's block store
RequesterCdb == [stored |-> stored, mainIdx |-> mainIdx, latest |-> cdbLatest]

SyncInit ==
    /\ Init
    /\ peerLatest = 0 /\ toPeer = <<>> /\ toReq = <<>> /\ lost = 0 /\ peerDown = FALSE

\* The peer's chain service adds its next block and broadcasts a notice.
PeerAddsBlock ==
    /\ peerLatest < Len(PeerChain)
    /\ peerLatest' = peerLatest + 1
    /\ toReq' = Append(toReq, Notice(PeerChain[peerLatest + 1]))
    /\ UNCHANGED <<vars, toPeer, lost, peerDown>>

\* The requester handles a notice: newBlockNoticeHandler.handle passes it
\* to RemotePeer.handleNewBlockNotice, which asks the peer for the block.
RecvNotice ==
    /\ toReq # <<>> /\ Head(toReq).type = "notice"
    /\ toReq' = Tail(toReq)
    /\ toPeer' = Append(toPeer, BlockRequest(<<Head(toReq).block>>))
    /\ UNCHANGED <<vars, peerLatest, lost, peerDown>>

\* blockRequestHandler.handle: every hash is looked up with a GetBlock call
\* to the peer's chain service; the blocks found are sent back in one
\* response (status NOT_FOUND when there are none).
Found(hashes) == SelectSeq(hashes, LAMBDA h : h \in PeerCdb.stored)

PeerServesBlocks ==
    /\ toPeer # <<>> /\ Head(toPeer).type = "getBlock" /\ ~peerDown
    /\ toPeer' = Tail(toPeer)
    /\ toReq' = Append(toReq, BlockResponse(Found(Head(toPeer).hashes)))
    /\ UNCHANGED <<vars, peerLatest, lost, peerDown>>

\* the same, when the GetBlock call fails: `continue`, the block is left out
PeerLookupFails ==
    /\ toPeer # <<>> /\ Head(toPeer).type = "getBlock" /\ ~peerDown
    /\ lost < MaxLoss
    /\ lost' = lost + 1
    /\ toPeer' = Tail(toPeer)
    /\ toReq' = Append(toReq, BlockResponse(<<>>))
    /\ UNCHANGED <<vars, peerLatest, peerDown>>

\* getMissingRequestHandler.handle: a GetMissing call to the peer's chain
\* service runs handleMissing with no stop hash; sendMissingResp fetches
\* each hash with GetBlock and replies.  A panic in handleMissing takes the
\* peer's chain service down.
PeerServesMissing ==
    /\ toPeer # <<>> /\ Head(toPeer).type = "getMissing" /\ ~peerDown
    /\ toPeer' = Tail(toPeer)
    /\ LET res == SH!HandleMissing(PeerCdb, Nil, Head(toPeer).hashes)
       IN  IF res.panic
             THEN peerDown' = TRUE /\ UNCHANGED toReq
             ELSE toReq' = Append(toReq, BlockResponse(res.hashes)) /\ UNCHANGED peerDown
    /\ UNCHANGED <<vars, peerLatest, lost>>

\* the same, when the CallRequest fails or times out: the handler returns
\* and nothing is sent back
PeerMissingFails ==
    /\ toPeer # <<>> /\ Head(toPeer).type = "getMissing" /\ ~peerDown
    /\ lost < MaxLoss
    /\ lost' = lost + 1
    /\ toPeer' = Tail(toPeer)
    /\ UNCHANGED <<vars, peerLatest, toReq, peerDown>>

\* blockResponseHandler.handle: each block of the response is sent to the
\* requester's chain service as an AddBlock message.
RecvResponse ==
    /\ toReq # <<>> /\ Head(toReq).type = "blocks"
    /\ LET s == Head(toReq).blocks
       IN  /\ \A i \in DOMAIN s : inbox[s[i]] < MaxInbox
           /\ inbox' = [b \in Blocks |-> inbox[b] + Cardinality({i \in DOMAIN s : s[i] = b})]
    /\ toReq' = Tail(toReq)
    /\ UNCHANGED <<phase, cur, isMain, lastBlock, stored, mainIdx, txIdx, cdbLatest,
                   orphans, sdb, openTxs, halted>>
    /\ UNCHANGED <<peerLatest, toPeer, lost, peerDown>>

\* addBlock with a missing parent: handleOrphan parks the block and sends
\* the anchors seeded with its hash as a GetMissingRequest to the peer that
\* sent it.
SyncReceiveOrphan(b) ==
    /\ ReceiveOrphan(b)
    /\ LET anchors == SH!GetAnchorsFromHash(RequesterCdb, b)
       IN  toPeer' = Append(toPeer, MissingRequest(IF anchors = Nil THEN <<>> ELSE anchors))
    /\ UNCHANGED <<peerLatest, toReq, lost, peerDown>>

\* any other step of the requester's chain service
RequesterStep == Ingest /\ UNCHANGED netVars

Requester == RequesterStep \/ \E b \in Blocks : SyncReceiveOrphan(b)

\* the requester's chain service takes an AddBlock message for b
HandleAddBlock(b) == (ReceiveBlock(b) /\ UNCHANGED netVars) \/ SyncReceiveOrphan(b)

\* nothing is left to do: the peer has added its chain, no message is in
\* flight and the requester is quiescent (or a chain service has panicked)
Settled ==
    /\ peerLatest = Len(PeerChain)
    /\ toReq = <<>> /\ (toPeer = <<>> \/ peerDown)
    /\ (Quiescent \/ halted)

SyncNext ==
    \/ Requester
    \/ PeerAddsBlock \/ RecvNotice \/ RecvResponse
    \/ PeerServesBlocks \/ PeerLookupFails
    \/ PeerServesMissing \/ PeerMissingFails
    \/ Settled /\ UNCHANGED allVars

\* The requester's chain service is fair as in ChainService (its Busy
\* stands for the enabledness of its steps), and its mailbox is FIFO: an
\* AddBlock message waiting in it is handled eventually, though the actor
\* is between messages only now and then (strong fairness).  The peer
\* keeps adding blocks until its chain is complete, and each side's
\* handler eventually takes the oldest message of the connection.  A
\* failing call is not fair: it need never happen.
SyncFairness ==
    /\ <>[]Busy => []<><<Requester>>_allVars
    /\ \A b \in Blocks : SF_allVars(HandleAddBlock(b))
    /\ WF_allVars(PeerAddsBlock)
    /\ WF_allVars(RecvNotice) /\ WF_allVars(RecvResponse)
    /\ WF_allVars(PeerServesBlocks) /\ WF_allVars(PeerServesMissing)

SyncSpec == SyncInit /\ [][SyncNext]_allVars /\ SyncFairness

-----------------------------------------------------------------------------
(* Properties                                                              *)

SyncTypeOK ==
    /\ TypeOK
    /\ peerLatest \in 0..Len(PeerChain)
    /\ \A i \in DOMAIN toReq :
          \/ toReq[i].type = "notice" /\ toReq[i].block \in Blocks
          \/ toReq[i].type = "blocks" /\ toReq[i].blocks \in Seq(Blocks)
    /\ \A i \in DOMAIN toPeer :
          toPeer[i].type \in {"getBlock", "getMissing"} /\ toPeer[i].hashes \in Seq(Blocks)
    /\ lost \in 0..MaxLoss

\* Every block the peer adds reaches the requester's main chain: in every
\* behaviour in which no call fails, the notice and GetBlock exchanges
\* (with GetMissing for any orphan) bring the requester to the peer's tip
\* and it stays there.
Synced == [](lost = 0) => <>[](cdbLatest = Len(PeerChain))

\* An orphan is not left waiting: the GetMissing request handleOrphan sends
\* for it brings its missing parent (spec 4.4: the node requests the
\* missing history from the peer using the anchor protocol of 4.6).
OrphansResolved ==
    \A b \in Blocks \ {Genesis} :
        (\E p \in DOMAIN orphans : orphans[p] = b) ~> (Parent[b] \in stored)

=============================================================================
