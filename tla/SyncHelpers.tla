----------------------------- MODULE SyncHelpers -----------------------------
(***************************************************************************)
(* The sync protocol helpers of the chain service, as operators on a      *)
(* snapshot of the block store: getAnchorsFromHash                        *)
(* (src/blockchain/chainanchor.go) and handleMissing                      *)
(* (src/blockchain/chainhandle.go).  Both run inside the chain service    *)
(* actor, so the store does not change while they run.                    *)
(*                                                                         *)
(* A store snapshot is a record [stored, mainIdx, latest]: the blocks     *)
(* under block/<hash>, the index blockno/<n> -> hash (a function on the   *)
(* numbers it holds) and latest.  A block is a model value; BlockNo gives *)
(* its header's number.                                                   *)
(***************************************************************************)
EXTENDS Naturals, Sequences

CONSTANTS
    BlockNo,    \* BlockNo[b]: the header number of block b
    Nil,        \* nil / empty hash
    Word        \* 2^64: types.BlockNo is a uint64

\* cs.getHashByNo: blockno/<n>, or nothing (an error) if not indexed
HashByNo(cdb, n) == IF n \in DOMAIN cdb.mainIdx THEN cdb.mainIdx[n] ELSE Nil

-----------------------------------------------------------------------------
(* getAnchorsFromHash.  The result is the anchor sequence, or Nil when a  *)
(* lookup fails ("assertion - hash get failed": return nil).              *)

\* Mutation of ExpAnchors: latestNo is not clamped to 0 when it is not
\* above dec, so the next lookup is of a number below genesis.
RECURSIVE ExpAnchorsNoClamp(_, _, _, _, _)
ExpAnchorsNoClamp(cdb, anchors, no, dec, i) ==
    IF i = 10 THEN anchors
    ELSE IF HashByNo(cdb, no) = Nil THEN Nil
    ELSE LET next == Append(anchors, HashByNo(cdb, no))
         IN  IF no = 0 THEN next
             ELSE ExpAnchorsNoClamp(cdb, next, no - dec, 2 * dec, i + 1)

\* the second loop: up to 10 exponentially spaced hashes, dec doubling
\* after each one; a number not above dec is followed by genesis, and
\* genesis ends the loop.
RECURSIVE ExpAnchors(_, _, _, _, _)
ExpAnchors(cdb, anchors, no, dec, i) ==
    IF i = 10 THEN anchors
    ELSE IF HashByNo(cdb, no) = Nil THEN Nil
    ELSE LET next == Append(anchors, HashByNo(cdb, no))
         IN  IF no <= dec
               THEN IF no = 0 THEN next ELSE ExpAnchors(cdb, next, 0, dec, i + 1)
               ELSE ExpAnchors(cdb, next, no - dec, 2 * dec, i + 1)

\* Mutation of RecentAnchors: the exponential loop starts at the last
\* recent number again (the repetition spec 9 describes).
RECURSIVE RecentAnchorsRepeatLast(_, _, _, _)
RecentAnchorsRepeatLast(cdb, anchors, no, i) ==
    IF i = 10 THEN ExpAnchors(cdb, anchors, no + 1, 1, 0)
    ELSE IF HashByNo(cdb, no) = Nil THEN Nil
    ELSE IF no = 0 THEN Append(anchors, HashByNo(cdb, no))
    ELSE RecentAnchorsRepeatLast(cdb, Append(anchors, HashByNo(cdb, no)), no - 1, i + 1)

\* the first loop: the 10 latest hashes, latestNo decremented after each;
\* genesis returns at once.
RECURSIVE RecentAnchors(_, _, _, _)
RecentAnchors(cdb, anchors, no, i) ==
    IF i = 10 THEN ExpAnchors(cdb, anchors, no, 1, 0)
    ELSE IF HashByNo(cdb, no) = Nil THEN Nil
    ELSE IF no = 0 THEN Append(anchors, HashByNo(cdb, no))
    ELSE RecentAnchors(cdb, Append(anchors, HashByNo(cdb, no)), no - 1, i + 1)

GetAnchorsFromHash(cdb, blockHash) ==
    RecentAnchors(cdb, <<blockHash>>, cdb.latest, 0)

-----------------------------------------------------------------------------
(* handleMissing(stopHash, Hashes).  The result is a record            *)
(*   [panic |-> FALSE, hashes |-> s, nos |-> t]   the reply               *)
(*   [panic |-> TRUE]                              the goroutine panics    *)

\* Mutation of FindMainBlock: the first known candidate is taken, without
\* comparing it with the main hash of its height.
RECURSIVE FindMainBlockFirstKnown(_, _, _, _)
FindMainBlockFirstKnown(cdb, hashes, i, mainblock) ==
    IF i > Len(hashes) THEN mainblock
    ELSE IF hashes[i] \in cdb.stored THEN hashes[i]
    ELSE FindMainBlockFirstKnown(cdb, hashes, i + 1, Nil)

\* the candidate loop: mainblock is set by every getBlock (nil when the
\* block is unknown), kept when getHashByNo fails, reset to nil when the
\* candidate is not the main block of its height, and the loop breaks on
\* the first candidate that is.
RECURSIVE FindMainBlock(_, _, _, _)
FindMainBlock(cdb, hashes, i, mainblock) ==
    IF i > Len(hashes) THEN mainblock
    ELSE LET h == hashes[i]
         IN  IF h \notin cdb.stored THEN FindMainBlock(cdb, hashes, i + 1, Nil)
             ELSE IF HashByNo(cdb, BlockNo[h]) = Nil
                    THEN FindMainBlock(cdb, hashes, i + 1, h)
             ELSE IF HashByNo(cdb, BlockNo[h]) = h THEN h
             ELSE FindMainBlock(cdb, hashes, i + 1, Nil)

\* make([]..., 0, loop) panics when loop exceeds what can be allocated;
\* a wrapped difference is always that large.
MaxAlloc == Word \div 2

\* Mutation of HandleMissing: the loop bound is computed as
\* mainBlockNo - stopBlockNo.
HandleMissingSwapped(cdb, stopHash, hashes) ==
    LET stopBlock == IF stopHash = Nil THEN HashByNo(cdb, cdb.latest)
                     ELSE IF stopHash \in cdb.stored THEN stopHash ELSE Nil
        mainblock == FindMainBlock(cdb, hashes, 1, Nil)
        loop      == (BlockNo[mainblock] - BlockNo[stopBlock]) % Word
        nos       == [i \in 1..loop |-> BlockNo[mainblock] + i - 1]
    IN  IF stopBlock = Nil \/ mainblock = Nil
          THEN [panic |-> FALSE, hashes |-> <<>>, nos |-> <<>>]
        ELSE IF loop > MaxAlloc THEN [panic |-> TRUE]
        ELSE IF \E i \in 1..loop : HashByNo(cdb, nos[i]) = Nil THEN [panic |-> TRUE]
        ELSE [panic |-> FALSE, hashes |-> [i \in 1..loop |-> cdb.mainIdx[nos[i]]],
              nos |-> nos]

HandleMissing(cdb, stopHash, hashes) ==
    LET stopBlock == IF stopHash = Nil THEN HashByNo(cdb, cdb.latest)
                     ELSE IF stopHash \in cdb.stored THEN stopHash ELSE Nil
        mainblock == FindMainBlock(cdb, hashes, 1, Nil)
        loop      == (BlockNo[stopBlock] - BlockNo[mainblock]) % Word
        nos       == [i \in 1..loop |-> BlockNo[mainblock] + i - 1]
    IN  IF stopBlock = Nil \/ mainblock = Nil
          THEN [panic |-> FALSE, hashes |-> <<>>, nos |-> <<>>]
        ELSE IF loop > MaxAlloc
          THEN [panic |-> TRUE]
        \* getBlockByNo's error is ignored: tBlock.Hash on nil panics
        ELSE IF \E i \in 1..loop : HashByNo(cdb, nos[i]) = Nil
          THEN [panic |-> TRUE]
        ELSE [panic |-> FALSE, hashes |-> [i \in 1..loop |-> cdb.mainIdx[nos[i]]],
              nos |-> nos]

-----------------------------------------------------------------------------
(* Reference definitions from spec section 4.6                            *)

\* the anchor numbers the spec describes for a chain whose latest is L:
\* L, L-1, ... L-9 (stopping at 0), then up to 10 more with a step that
\* starts at 1 and doubles, genesis when the next one would be <= 0.
RECURSIVE SpecExpNos(_, _, _)
SpecExpNos(no, step, k) ==
    IF k = 0 THEN <<>>
    ELSE IF no <= step THEN <<no>> \o (IF no = 0 \/ k = 1 THEN <<>> ELSE <<0>>)
    ELSE <<no>> \o SpecExpNos(no - step, 2 * step, k - 1)

SpecAnchorNos(L) ==
    IF L < 10 THEN [i \in 1..L + 1 |-> L - i + 1]
    ELSE [i \in 1..10 |-> L - i + 1] \o SpecExpNos(L - 10, 1, 10)

\* handle_missing as spec 4.6 states it, for a stop block at or above the
\* ancestor: the first candidate that is the main block of its height,
\* then the main hashes from the ancestor's number up to the stop's.
SpecMissing(cdb, stopHash, hashes) ==
    LET stop   == IF stopHash = Nil THEN cdb.mainIdx[cdb.latest] ELSE stopHash
        onMain == {i \in 1..Len(hashes) :
                      /\ hashes[i] \in cdb.stored
                      /\ HashByNo(cdb, BlockNo[hashes[i]]) = hashes[i]}
        first  == CHOOSE i \in onMain : \A j \in onMain : i <= j
        anc    == BlockNo[hashes[first]]
    IN  IF stop \notin cdb.stored \/ onMain = {} THEN <<>>
        ELSE [i \in 1..(BlockNo[stop] - anc) |-> cdb.mainIdx[anc + i - 1]]

=============================================================================
