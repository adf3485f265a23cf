--------------------------- MODULE MC_SyncHelpers ---------------------------
(***************************************************************************)
(* The two sync helpers checked on their inputs.  A behaviour checks one  *)
(* of them, chosen by `check':                                             *)
(*  "anchors"  getAnchorsFromHash on a main chain of every height up to   *)
(*             MaxLatest; block n has hash n and the seed is the orphan   *)
(*             n+1.  MaxLatest is past the height (about 1033) at which   *)
(*             the exponential loop runs out of its 10 steps before       *)
(*             genesis.                                                    *)
(*  "missing"  handleMissing, as the chain service answers a GetMissing   *)
(*             request, on every store a node can be in between messages: *)
(*             a main chain to a tip t plus side branches that start no   *)
(*             higher than t, including blocks above t that addBlock's    *)
(*             orphan loop stored before an error skipped the             *)
(*             reorganisation, over the blocks of MC_ChainService:        *)
(*             G, A1 -> A2, B1 -> B2 -> B3.                               *)
(*  "headers"  ListBlockHeaders and the GetBlockHeaders handler on the    *)
(*             same stores, for every hash, every height up to one above  *)
(*             the highest block, and sizes 0, 1 .. MaxFetch+1 and the    *)
(*             largest uint32.                                             *)
(*  "query"    the RPC's Blockchain and GetBlock on the same stores, for   *)
(*             every block number up to one above the highest block and  *)
(*             the largest uint64, every block's hash and an unknown one, *)
(*             each encoded the way a client builds it: BlockNoToBytes or *)
(*             the 32-byte hash.                                           *)
(* Honest requests are what handleOrphan sends: the anchors of the        *)
(* requester's own store seeded with a block, and no stop hash.  Any      *)
(* request a peer can send is a stop hash (or none) and up to two         *)
(* candidate hashes; any value a client can pass to GetBlock includes     *)
(* byte strings of every length up to 8.                                   *)
(***************************************************************************)
EXTENDS SyncHelpers, FiniteSets

CONSTANTS G, A1, A2, B1, B2, B3, MaxLatest, Honest, Word32, MaxFetch, Base

VARIABLES check, latest, anchors, cdb, req, reply

vars == <<check, latest, anchors, cdb, req, reply>>

Blocks == {G, A1, A2, B1, B2, B3}
MCParent == [b \in Blocks |-> CASE b \in {A1, B1} -> G
                                [] b = A2 -> A1 [] b = B2 -> B1 [] b = B3 -> B2
                                [] b = G  -> Nil]
\* the numbers of the six blocks, and of the numbered chain's blocks
MCBlockNo == [b \in Blocks \cup 0..MaxLatest + 1 |->
                 CASE b = G -> 0 [] b \in {A1, B1} -> 1
                   [] b \in {A2, B2} -> 2 [] b = B3 -> 3
                   [] OTHER -> b]

\* the chain store of a node whose main chain is 0..L
Linear(L) == [stored |-> 0..L, mainIdx |-> [n \in 0..L |-> n], latest |-> L]

RECURSIVE Ancestors(_)
Ancestors(b) == IF b = G THEN {G} ELSE {b} \cup Ancestors(MCParent[b])

\* the store of a node whose tip is t and which holds the blocks in side
Snapshot(t, side) ==
    [stored  |-> UNION {Ancestors(b) : b \in side \cup {t}},
     mainIdx |-> [n \in 0..MCBlockNo[t] |-> CHOOSE b \in Ancestors(t) : MCBlockNo[b] = n],
     latest  |-> MCBlockNo[t]]

\* the first block of b's branch off the chain of t
ForkBlock(b, t) == CHOOSE a \in Ancestors(b) \ Ancestors(t) : MCParent[a] \in Ancestors(t)

\* a side block is stored with tip t when its branch starts no higher than
\* t: addBlock stores such a block as a branch block, and the orphans its
\* loop connects after it too, even above t when an error return skips the
\* reorganisation (chainhandle.go 160, the skipped_reorg run)
Storable(b, t) == b \in Ancestors(t) \/ MCBlockNo[ForkBlock(b, t)] <= MCBlockNo[t]

Snapshots ==
    UNION {{Snapshot(t, side) : side \in SUBSET {b \in Blocks : Storable(b, t)}} : t \in Blocks}

HonestRequests ==
    {[stop |-> Nil, hashes |-> GetAnchorsFromHash(r, seed)] : r \in Snapshots, seed \in Blocks}

AnyRequests ==
    {[stop |-> s, hashes |-> h] :
        s \in Blocks \cup {Nil},
        h \in UNION {[1..k -> Blocks] : k \in 1..2}}

Requests == IF Honest THEN HonestRequests ELSE AnyRequests

NoReply == [none |-> TRUE]

HL == INSTANCE HeaderList WITH Parent <- MCParent

HeaderRequests ==
    [hash : Blocks \cup {Nil}, height : 0..4, size : 0..MaxFetch + 1 \cup {Word32 - 1}]

\* a 32-byte hash holding k in its first two bytes
HashBytes(k) == [i \in 1..32 |-> CASE i = 1 -> k % Base [] i = 2 -> k \div Base [] OTHER -> 0]

\* the hash of each block, and one no block has
MCHashOf == [b \in Blocks |-> HashBytes(CASE b = G -> 1 [] b = A1 -> 2 [] b = A2 -> 3
                                                [] b = B1 -> 4 [] b = B2 -> 5 [] OTHER -> 6)]
UnknownHash == HashBytes(7)

BQ == INSTANCE BlockQuery WITH HashLen <- 32, HashOf <- MCHashOf

\* a client's query: the best block, a block number or a block hash (Nil
\* for the unknown one)
QueryRequests ==
    {[kind |-> "blockchain"]}
    \cup [kind : {"no"}, no : 0..4 \cup {Word - 1}]
    \cup [kind : {"hash"}, hash : Blocks \cup {Nil}]
    \cup IF Honest THEN {} ELSE [kind : {"raw"}, value : {[i \in 1..k |-> 0] : k \in 0..8}]

\* GetBlock's argument as the client encodes the query
Encoded(r) == CASE r.kind = "no"  -> BQ!BlockNoToBytes(r.no)
               [] r.kind = "raw" -> r.value
               [] OTHER          -> IF r.hash = Nil THEN UnknownHash ELSE MCHashOf[r.hash]

Init ==
    /\ req = NoReply /\ reply = NoReply
    /\ \/ /\ check = "anchors" /\ cdb = Nil
          /\ latest = 0 /\ anchors = GetAnchorsFromHash(Linear(0), 1)
       \/ /\ check \in {"missing", "headers", "query"} /\ cdb \in Snapshots
          /\ latest = 0 /\ anchors = <<>>

\* the node's chain grows by one block (back to genesis after MaxLatest)
\* and an orphan arrives: handleOrphan computes its anchors
ComputeAnchors ==
    /\ check = "anchors"
    /\ LET L == (latest + 1) % (MaxLatest + 1)
       IN  /\ latest' = L
           /\ anchors' = GetAnchorsFromHash(Linear(L), L + 1)
    /\ UNCHANGED <<check, cdb, req, reply>>

\* the chain service actor takes a GetMissing message and answers it
Serve ==
    /\ check = "missing"
    /\ \E r \in Requests :
          /\ req' = r
          /\ reply' = HandleMissing(cdb, r.stop, r.hashes)
    /\ UNCHANGED <<check, latest, anchors, cdb>>

\* the RPC service or a peer's handler lists headers from the chain service
ListHeaders ==
    /\ check = "headers"
    /\ \E r \in HeaderRequests :
          /\ req' = r
          /\ reply' = HL!HandleHeadersRequest(cdb, r)
    /\ UNCHANGED <<check, latest, anchors, cdb>>

\* the RPC service answers a client's Blockchain or GetBlock call
Query ==
    /\ check = "query"
    /\ \E r \in QueryRequests :
          /\ req' = r
          /\ reply' \in IF r.kind = "blockchain" THEN BQ!Blockchain(cdb)
                         ELSE BQ!GetBlock(cdb, Encoded(r))
    /\ UNCHANGED <<check, latest, anchors, cdb>>

Spec == Init /\ [][ComputeAnchors \/ Serve \/ ListHeaders \/ Query]_vars

TypeOK ==
    /\ check \in {"anchors", "missing", "headers", "query"}
    /\ check = "anchors" => latest \in 0..MaxLatest /\ anchors \in Seq(0..MaxLatest + 1)
    /\ check = "missing" => cdb \in Snapshots /\ (reply = NoReply \/ reply.panic \in BOOLEAN)
    /\ check = "headers" => cdb \in Snapshots /\ (reply = NoReply \/ reply.headers \in Seq(Blocks))
    /\ check = "query" => cdb \in Snapshots /\ (reply = NoReply \/ reply.block \in Blocks \cup {Nil})

\* The anchors handleOrphan sends are the seed followed by the hashes spec
\* 4.6 lists: the 10 latest, then up to 10 exponentially spaced ones down
\* to genesis (getAnchorsFromHash's two loops).
AnchorsAsSpecified == check = "anchors" => anchors = <<latest + 1>> \o SpecAnchorNos(latest)

\* No request a peer or an RPC client sends panics the node: handleMissing's
\* uint64 loop bound and unchecked getBlockByNo (chainhandle.go 427-434)
\* stay in range, and GetBlock's length tests (grpcserver.go 150-154) keep
\* binary.LittleEndian.Uint64 from reading past a short value.
NoPanic ==
    reply # NoReply =>
        /\ check = "missing" => ~reply.panic
        /\ check = "query" => reply.code # "panic"

\* What handleMissing answers is what spec 4.6 says: the main hashes from
\* the first candidate that is on the main chain up to the stop block,
\* numbered consecutively (spec 8, missing-range correctness).
MissingAsSpecified ==
    (check = "missing" /\ reply # NoReply /\ ~reply.panic) =>
        /\ reply.hashes = SpecMissing(cdb, req.stop, req.hashes)
        /\ \A i \in DOMAIN reply.nos : MCBlockNo[reply.hashes[i]] = reply.nos[i]


\* The headers listed are the ones spec 6 promises: at most min(size,
\* 1000), from the block named by hash down its chain or from the main
\* block at the height down the main chain, through the uint32
\* maxFetchSize-1 (wrapping for size 0), the uint64 end number and the
\* unsigned loop counter that wraps below block 0.
HeadersAsSpecified ==
    (check = "headers" /\ reply # NoReply) => reply.headers = HL!SpecHeaders(cdb, req)

\* the block spec 6 promises for a query: the main block with that number,
\* or the stored block with that hash
SpecBlock(r) ==
    IF r.kind = "no"
      THEN IF r.no \in DOMAIN cdb.mainIdx THEN cdb.mainIdx[r.no] ELSE Nil
      ELSE IF r.hash \in cdb.stored THEN r.hash ELSE Nil

\* GetBlock, on the eight little-endian bytes BlockNoToBytes makes of a
\* number or on a 32-byte hash, answers the block spec 6 promises (the
\* main block at that height, or the block with that hash, main or
\* branch) and an error when there is none, unless the chain service's
\* future timed out: the length test and the uint64 decoding agree with
\* the encoding.
GetBlockAsSpecified ==
    (check = "query" /\ reply # NoReply /\ req.kind \in {"no", "hash"} /\ reply # BQ!TimedOut) =>
        /\ reply.block = SpecBlock(req)
        /\ reply.code = "OK" <=> SpecBlock(req) # Nil
        /\ reply.code # "panic"

=============================================================================
