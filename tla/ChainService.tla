---------------------------- MODULE ChainService ----------------------------
(***************************************************************************)
(* The block-ingestion handler of the chain service: addBlock,            *)
(* isOrphan/handleOrphan and connectOrphan (src/blockchain/chainhandle.go)*)
(* over the block store (cdb), the orphan pool and the state db.          *)
(*                                                                         *)
(* The chain service is a single actor: one AddBlock message is handled   *)
(* to completion before the next is taken from its mailbox.  The handler  *)
(* is split into the steps of its loop (phase "loop", one iteration per   *)
(* block of the orphan chain being connected) and the reorganisation      *)
(* check after the loop (phase "post"); no other message interleaves      *)
(* with them, so properties about quiescent states are stated for phase   *)
(* "idle".                                                                 *)
(*                                                                         *)
(* The block store, the orphan pool's addOrphan and the reorganisation    *)
(* (cs.reorg, cs.needReorg) are not part of the sources and are modelled  *)
(* from the spec (sections 4.1, 4.4, 4.5).                                *)
(***************************************************************************)
EXTENDS StateDB, FiniteSets

CONSTANTS
    Genesis,      \* the genesis block
    Parent,       \* Parent[b]: the block b.Header.PrevBlockHash names
    BlockNo,      \* BlockNo[b]: b.Header.BlockNo
    Txs,          \* Txs[b]: the transactions of b's body, a sequence
    GenesisAlloc, \* the genesis allocation, Accounts -> State
    Invalid,      \* blocks that verifier.VerifyBlock rejects
    Faults,       \* store failures that may happen: SUBSET {"store"}
    Sent          \* Sent[b]: AddBlock messages for b that peers send

Blocks == DOMAIN BlockNo

ASSUME /\ Genesis \in Blocks /\ BlockNo[Genesis] = 0
       /\ DOMAIN Parent = Blocks \ {Genesis} /\ Invalid \subseteq Blocks
       /\ Faults \subseteq {"store"} /\ Sent \in [Blocks -> Nat]

VARIABLES
    inbox,      \* AddBlock messages from peers not yet handled, Blocks -> Nat
    phase,      \* "idle", "loop" (the orphan-connecting loop) or "post"
    cur,        \* tblock: the block the loop is about to process, or Nil
    isMain,     \* isMainChain, computed once for the received block
    lastBlock,  \* lastBlock: the last block the loop added
    stored,     \* cdb: blocks under block/<hash>
    mainIdx,    \* cdb: blockno/<n> -> hash, the main-chain index
    txIdx,      \* cdb: tx/<hash> -> TxIdx [block, idx]
    cdbLatest,  \* cdb: latest
    orphans,    \* orphan pool: parent hash -> orphan block
    sdb,        \* ChainStateDB, see StateDB
    openTxs,    \* store transactions opened and neither committed nor discarded
    halted      \* the process panicked (failed reorganisation)

vars == <<inbox, phase, cur, isMain, lastBlock, stored, mainIdx, txIdx, cdbLatest,
          orphans, sdb, openTxs, halted>>

\* types.NewBlockInfo(block.Header.BlockNo, block.BlockID(), block.PrevBlockID())
Info(b) == [no |-> BlockNo[b], hash |-> b,
            prev |-> IF b = Genesis THEN Nil ELSE Parent[b]]

-----------------------------------------------------------------------------
(* Block store (cdb), modelled from spec section 4.1                       *)

\* cdb.isMainChain: the block extends the block indexed at latest
IsMainChain(b) == Parent[b] = mainIdx[cdbLatest]

\* the tx/<hash> entries addBlock writes for b's body: one per transaction
\* in body order, so a transaction twice in the body keeps its last index
TxIndex(b) ==
    [t \in Range(Txs[b]) |->
        [block |-> b, idx |-> Max({i \in DOMAIN Txs[b] : Txs[b][i] = t})]]

\* Mutation of StoreBlock: branch blocks are indexed by number too.
StoreBlockIndexAll(b, main) ==
    /\ stored'  = stored \cup {b}
    /\ mainIdx' = (BlockNo[b] :> b) @@ mainIdx
    /\ txIdx'   = TxIndex(b) @@ txIdx

\* cdb.addBlock(dbtx, block, isMainChain, true): block/<hash> always,
\* blockno/<n> and the tx index only on the main chain (spec 4.1)
StoreBlock(b, main) ==
    /\ stored'  = stored \cup {b}
    /\ mainIdx' = IF main THEN (BlockNo[b] :> b) @@ mainIdx ELSE mainIdx
    /\ txIdx'   = IF main THEN TxIndex(b) @@ txIdx ELSE txIdx

\* Mutation of SetLatest: latest is set for branch blocks as well.
SetLatestAlways(b, main) == cdbLatest' = BlockNo[b]

\* cdb.setLatest after the store transaction commits
SetLatest(b, main) == cdbLatest' = IF main THEN BlockNo[b] ELSE cdbLatest

-----------------------------------------------------------------------------
(* Transaction lookup: the GetTx message (chainhandle.go 50-62) and the    *)
(* RPC's GetBlockTX that sends it (grpcserver.go 194-205)                  *)

\* cs.getTx: cdb.getTx's index entry, then the block it names and the main
\* block at that block's number.  The errors of both block reads are
\* ignored: a block missing from the store, or a number the main index
\* does not hold, dereferences a nil block and panics.  A block off the
\* main chain answers the transaction with no index and an error.
GetTx(t) ==
    IF t \notin DOMAIN txIdx THEN [code |-> "NotFound", idx |-> Nil]
    ELSE LET b == txIdx[t].block
         IN  IF b \notin stored \/ BlockNo[b] \notin DOMAIN mainIdx
               THEN [code |-> "panic", idx |-> Nil]
             ELSE IF mainIdx[BlockNo[b]] # b
               THEN [code |-> "notMain", idx |-> Nil]
             ELSE [code |-> "OK", idx |-> txIdx[t]]

\* GetBlockTX: the GetTx future can time out; otherwise the response's tx,
\* TxIdx and error are returned as they are
GetBlockTX(t) == {[code |-> "timeout", idx |-> Nil], GetTx(t)}

-----------------------------------------------------------------------------
(* Orphan pool, modelled from spec section 4.4 and connectOrphan           *)

\* Mutation of IsOrphan: the block's own hash is looked up.
IsOrphanSelf(b) == b \notin stored

\* cs.isOrphan: the parent block is not in the store
IsOrphan(b) == Parent[b] \notin stored

\* Mutation of AddOrphan: the orphan is parked under its own hash.
AddOrphanByOwnHash(pool, b) == (b :> b) @@ pool

\* op.addOrphan: connectOrphan finds an orphan under its parent's hash
AddOrphan(pool, b) == (Parent[b] :> b) @@ pool

\* Mutation of ExecuteBlock: a failing transaction does not stop Apply.
ExecuteBlockIgnoresTxErr(s, b) ==
    LET ex == ExecTxs(NewBlockState(Info(b)), s.accounts, Txs[b])
    IN  IF ~ApplyGuard(s, ex.bs)
          THEN [err |-> TRUE, sdb |-> s]
          ELSE [err |-> FALSE, sdb |-> ApplyFull(s, ex.bs)]

-----------------------------------------------------------------------------
(* Executor.execute: execute the block's txs on a fresh BlockState, then    *)
(* ChainStateDB.Apply.  err is TRUE when a tx or Apply's check fails.       *)
ExecuteBlock(s, b) ==
    LET ex == ExecTxs(NewBlockState(Info(b)), s.accounts, Txs[b])
    IN  IF ex.err \/ ~ApplyGuard(s, ex.bs)
          THEN [err |-> TRUE, sdb |-> s]
          ELSE [err |-> FALSE, sdb |-> ApplyFull(s, ex.bs)]

-----------------------------------------------------------------------------
(* Reorganisation, modelled from spec section 4.5 (cs.reorg is not in the *)
(* sources); the state db side uses ChainStateDB.Rollback.                 *)

\* Mutation of NeedReorg: a branch must be two blocks higher.
NeedReorgOffByOne(b) == BlockNo[b] > cdbLatest + 1

\* cs.needReorg: the added block makes a branch higher than the main chain
NeedReorg(b) == BlockNo[b] > cdbLatest

\* the common ancestor: walk back from the branch tip to the main chain
RECURSIVE Ancestor(_)
Ancestor(b) ==
    IF BlockNo[b] \in DOMAIN mainIdx /\ mainIdx[BlockNo[b]] = b
      THEN b ELSE Ancestor(Parent[b])

\* the branch blocks above the ancestor anc up to tip, parent first
RECURSIVE BranchSeq(_, _)
BranchSeq(tip, anc) ==
    IF tip = anc THEN <<>> ELSE Append(BranchSeq(Parent[tip], anc), tip)

\* re-execute the branch blocks in order on the rolled-back state db
ReExecute(s, chain) ==
    LET step(res, b) == IF res.err THEN res ELSE ExecuteBlock(res.sdb, b)
    IN  FoldLeft(step, [err |-> FALSE, sdb |-> s], chain)

-----------------------------------------------------------------------------
Init ==
    /\ inbox = Sent
    /\ phase = "idle"
    /\ cur = Nil
    /\ isMain = FALSE
    /\ lastBlock = Nil
    /\ stored = {Genesis}
    /\ mainIdx = (0 :> Genesis)
    /\ txIdx = <<>>
    /\ cdbLatest = 0
    /\ orphans = <<>>
    /\ sdb = SetGenesis(Info(Genesis), GenesisAlloc)
    /\ openTxs = 0
    /\ halted = FALSE

\* addBlock, lines 71-87: the received block's parent is missing, so it is
\* parked in the orphan pool (handleOrphan) and the handler returns.
ReceiveOrphan(b) ==
    /\ phase = "idle" /\ ~halted /\ inbox[b] > 0
    /\ IsOrphan(b)
    /\ inbox' = [inbox EXCEPT ![b] = @ - 1]
    /\ orphans' = AddOrphan(orphans, b)
    /\ UNCHANGED <<phase, cur, isMain, lastBlock, stored, mainIdx, txIdx, cdbLatest,
                   sdb, openTxs, halted>>

\* addBlock, lines 71-104: the parent is present; isMainChain is decided
\* once and the loop starts with tblock = nblock.
ReceiveBlock(b) ==
    /\ phase = "idle" /\ ~halted /\ inbox[b] > 0
    /\ ~IsOrphan(b)
    /\ inbox' = [inbox EXCEPT ![b] = @ - 1]
    /\ phase' = "loop"
    /\ cur' = b
    /\ isMain' = IsMainChain(b)
    /\ UNCHANGED <<lastBlock, stored, mainIdx, txIdx, cdbLatest, orphans, sdb,
                   openTxs, halted>>

\* The loop body returns an error: the store transaction opened at line 108
\* shadows the one the deferred Discard at lines 95-99 looks at, so it is
\* left open; the reorganisation check after the loop is skipped.
ReturnErr ==
    /\ phase' = "idle"
    /\ cur' = Nil
    /\ openTxs' = openTxs + 1

\* lines 110-115: VerifyBlock rejects the block
LoopVerifyFails ==
    /\ phase = "loop" /\ cur \in Invalid
    /\ ReturnErr
    /\ UNCHANGED <<inbox, isMain, lastBlock, stored, mainIdx, txIdx, cdbLatest,
                   orphans, sdb, halted>>

\* lines 117-120: executing a main-chain block fails (a tx's contract call
\* errs, or ChainStateDB.Apply refuses the block); nothing is stored.
LoopExecFails ==
    /\ phase = "loop" /\ cur \notin Invalid /\ isMain
    /\ ExecuteBlock(sdb, cur).err
    /\ ReturnErr
    /\ UNCHANGED <<inbox, isMain, lastBlock, stored, mainIdx, txIdx, cdbLatest,
                   orphans, sdb, halted>>

\* line 117, executeBlock: the transactions run, Apply's checks pass, and
\* apply saves the BlockState and merges its accounts, but updateTrie (the
\* trie batch update) fails; apply returns before latest advances.  A
\* block that touches no account never reaches the trie update.
LoopTrieFails ==
    /\ phase = "loop" /\ cur \notin Invalid /\ isMain
    /\ LET ex == ExecTxs(NewBlockState(Info(cur)), sdb.accounts, Txs[cur])
       IN  /\ ~ex.err /\ ApplyGuard(sdb, ex.bs) /\ DOMAIN ex.bs.accounts # {}
           /\ sdb' = ApplyAccounts(sdb, ex.bs)
    /\ ReturnErr
    /\ UNCHANGED <<inbox, isMain, lastBlock, stored, mainIdx, txIdx, cdbLatest,
                   orphans, halted>>

\* Mutation of Executed: the state db is not advanced by the block.
ExecutedStale == sdb

\* the state db after line 117-122 for a block that got past them
Executed == IF isMain THEN ExecuteBlock(sdb, cur).sdb ELSE sdb

\* line 124: cdb.addBlock fails after the state db already applied the block
LoopStoreFails ==
    /\ phase = "loop" /\ cur \notin Invalid /\ "store" \in Faults
    /\ ~(isMain /\ ExecuteBlock(sdb, cur).err)
    /\ sdb' = Executed
    /\ ReturnErr
    /\ UNCHANGED <<inbox, isMain, lastBlock, stored, mainIdx, txIdx, cdbLatest,
                   orphans, halted>>

\* connectOrphan: the orphan parked under b's hash, "none" if there is
\* none, or "badNo" (an error) if its number does not follow b's; the
\* caller removes it from the pool
ConnectOrphan(b) ==
    IF b \notin DOMAIN orphans THEN "none"
    ELSE IF BlockNo[b] + 1 # BlockNo[orphans[b]] THEN "badNo"
    ELSE orphans[b]

\* lines 117-164: the block is executed (main chain), added to the store and
\* committed; on the main chain latest is set.  Then connectOrphan: an orphan
\* waiting under this block's hash becomes the next tblock if its number is
\* one more (removeOrphan); a wrong number is an error; no orphan ends the
\* loop.
LoopAdd ==
    /\ phase = "loop" /\ cur \notin Invalid
    /\ ~(isMain /\ ExecuteBlock(sdb, cur).err)
    /\ sdb' = Executed
    /\ StoreBlock(cur, isMain)
    /\ SetLatest(cur, isMain)
    /\ lastBlock' = cur
    /\ LET next == ConnectOrphan(cur)
       IN  \/ /\ next = "none"
              /\ phase' = "post" /\ cur' = Nil
              /\ UNCHANGED <<orphans, openTxs>>
           \/ /\ next \in Blocks
              /\ cur' = next
              /\ orphans' = [p \in DOMAIN orphans \ {cur} |-> orphans[p]]
              /\ UNCHANGED <<phase, openTxs>>
           \/ /\ next = "badNo"
              /\ phase' = "idle" /\ cur' = Nil
              /\ UNCHANGED <<orphans, openTxs>>
    /\ UNCHANGED <<inbox, isMain, halted>>

\* lines 173-180 with cs.reorg (spec 4.5): roll the state db back to the
\* common ancestor, index the branch as the main chain and re-execute it;
\* any failure panics.
Reorg ==
    /\ phase = "post" /\ NeedReorg(lastBlock)
    /\ LET anc   == Ancestor(lastBlock)
           chain == BranchSeq(lastBlock, anc)
           re    == ReExecute(Rollback(sdb, BlockNo[anc]), chain)
       IN  IF ~RollbackGuard(sdb, BlockNo[anc]) \/ re.err
             THEN /\ halted' = TRUE
                  /\ UNCHANGED <<sdb, mainIdx, cdbLatest>>
             ELSE /\ sdb' = re.sdb
                  /\ mainIdx' = [n \in 0..BlockNo[lastBlock] |->
                                   IF n > BlockNo[anc] THEN chain[n - BlockNo[anc]]
                                   ELSE mainIdx[n]]
                  /\ cdbLatest' = BlockNo[lastBlock]
                  /\ UNCHANGED halted
    /\ phase' = "idle"
    /\ UNCHANGED <<inbox, cur, isMain, lastBlock, stored, txIdx, orphans, openTxs>>

\* lines 173-180: no reorganisation needed; the handler returns
NoReorg ==
    /\ phase = "post" /\ ~NeedReorg(lastBlock)
    /\ phase' = "idle"
    /\ UNCHANGED <<inbox, cur, isMain, lastBlock, stored, mainIdx, txIdx, cdbLatest,
                   orphans, sdb, openTxs, halted>>

\* the mailbox is empty, or the process has panicked: nothing more happens
Quiescent == phase = "idle" /\ \A b \in Blocks : inbox[b] = 0

Wait == (Quiescent \/ halted) /\ UNCHANGED vars

\* a step of the chain service actor other than parking an orphan
Ingest ==
    \/ \E b \in Blocks : ReceiveBlock(b)
    \/ LoopVerifyFails \/ LoopExecFails \/ LoopStoreFails \/ LoopAdd
    \/ Reorg \/ NoReorg

\* one step of the chain service actor
Step == Ingest \/ \E b \in Blocks : ReceiveOrphan(b)

Next == Step \/ Wait

\* The actor is busy while it has not panicked and a message waits in its
\* mailbox or a handler is unfinished; then some Step is enabled: a
\* message in the mailbox is either an orphan or not, and in phase "loop"
\* and "post" one of the loop's or the check's cases always applies.
Busy == ~halted /\ ~Quiescent

\* The actor keeps taking steps while it is busy: weak fairness on Step,
\* written as its definition  <>[]ENABLED <<Step>>_vars => []<><<Step>>_vars
\* with Busy for the enabledness of Step.
Fairness == <>[]Busy => []<><<Step>>_vars

Spec == Init /\ [][Next]_vars /\ Fairness

\* The chain service when apply's trie update can fail as well.  Every
\* property of the state db fails under it, so it is a next-state relation
\* of its own rather than a member of Faults.
TrieFaultSpec == Init /\ [][Next \/ LoopTrieFails]_vars

-----------------------------------------------------------------------------
(* Reference definitions the properties compare the model with             *)

\* A NORMAL transfer applied directly to an account map (no BlockState, no
\* undo log): what executing tx on top of accts must yield.
RefTx(accts, tx) ==
    LET s == tx.account  r == tx.recipient
        paid == IF accts[s].balance < tx.amount THEN 0 ELSE accts[s].balance - tx.amount
    IN  IF s = r
          THEN [accts EXCEPT ![s].nonce = tx.nonce]
          ELSE [accts EXCEPT ![s] = [nonce |-> tx.nonce, balance |-> paid],
                             ![r].balance = @ + tx.amount]

\* the account map after replaying the chain ending in b from genesis
RECURSIVE RefState(_)
RefState(b) ==
    IF b = Genesis THEN GenesisAlloc ELSE FoldLeft(RefTx, RefState(Parent[b]), Txs[b])

\* blocks the node can make part of its main chain: valid, executable, and
\* so are their ancestors
RECURSIVE Acceptable(_)
Acceptable(b) ==
    IF b = Genesis THEN TRUE
    ELSE /\ b \notin Invalid
         /\ \A i \in DOMAIN Txs[b] : ~Txs[b][i].callFails
         /\ Acceptable(Parent[b])

\* the height of the highest chain of acceptable blocks
BestHeight == Max({BlockNo[b] : b \in {c \in Blocks : Acceptable(c)}})

State == [nonce : Nat, balance : Nat]

-----------------------------------------------------------------------------
(* Properties                                                              *)

\* Type invariant.
TypeOK ==
    /\ inbox \in [Blocks -> Nat]
    /\ phase \in {"idle", "loop", "post"}
    /\ cur \in Blocks \cup {Nil} /\ lastBlock \in Blocks \cup {Nil}
    /\ isMain \in BOOLEAN /\ halted \in BOOLEAN
    /\ stored \subseteq Blocks /\ cdbLatest \in Nat /\ openTxs \in Nat
    /\ mainIdx \in [0..cdbLatest -> Blocks]
    /\ \A t \in DOMAIN txIdx : txIdx[t].block \in Blocks /\ txIdx[t].idx \in Nat
    /\ DOMAIN orphans \subseteq Blocks /\ \A p \in DOMAIN orphans : orphans[p] \in Blocks
    /\ sdb.accounts \in [Accounts -> State] /\ sdb.trie \in [Accounts -> State]
    /\ sdb.latest.hash \in Blocks /\ DOMAIN sdb.saved \subseteq Blocks

\* The main index is one chain from genesis: blockno/<n> names a block
\* numbered n whose parent is blockno/<n-1>, for every n up to latest
\* (spec 3, extension consistency), through addBlock's loop, orphan
\* connection and reorganisation.
MainChainLinked ==
    \A n \in DOMAIN mainIdx :
        /\ mainIdx[n] \in stored
        /\ BlockNo[mainIdx[n]] = n
        /\ n > 0 => Parent[mainIdx[n]] = mainIdx[n - 1]

\* Between messages, the state db's committed accounts are exactly the
\* result of replaying, from genesis, the chain that ends in its latest
\* block: the BlockState/undo machinery of executeTx, apply and Rollback
\* (reorganisation) loses or repeats no change.
StateReplaysChain ==
    (phase = "idle" /\ ~halted) => sdb.accounts = RefState(sdb.latest.hash)

\* Between messages, the trie root authenticates the committed account map:
\* apply's updateTrie and Rollback's revertTrie keep the two in step.
TrieMatchesAccounts ==
    (phase = "idle" /\ ~halted) => sdb.trie = sdb.accounts

\* Between messages, no stored block is higher than the main chain's tip:
\* a branch that became heavier has been made the main chain (spec 4.5).
HeaviestIsMain ==
    (phase = "idle" /\ ~halted) => \A b \in stored : BlockNo[b] <= cdbLatest

\* Between messages, the state db's latest block is the block store's tip,
\* or a block the store does not hold that extends the tip: executeBlock
\* applies a block before cdb.addBlock (line 124), so a store failure leaves
\* the state db ahead by that one block, and no later message (a retry of
\* the block, its successors, a reorganisation's Rollback) takes it further
\* away from the store or leaves it behind.
StateDbAtStoreTip ==
    (phase = "idle" /\ ~halted) =>
        \/ sdb.latest.hash = mainIdx[cdbLatest]
        \/ /\ sdb.latest.hash \notin stored
           /\ sdb.latest.prev = mainIdx[cdbLatest]

\* The chain service panics (the failed reorganisation of line 176) only
\* when the branch it switches to holds a block that cannot be executed.
\* Branch blocks are stored without being executed, so such a branch can
\* become the highest; but rolling the state db back to the common
\* ancestor (Rollback) and re-executing a branch of good blocks block by
\* block (Apply's number and parent checks) never fails.
HaltsOnlyOnBadBranch == halted => ~Acceptable(lastBlock)

\* addBlock leaves no store transaction open once it returns (spec 5:
\* in-progress store transactions are discarded by a deferred release).
NoLeakedStoreTx == phase = "idle" => openTxs = 0

\* Every block peers send is eventually dealt with, and the main chain
\* ends as high as the highest chain of acceptable blocks, whatever the
\* order they arrive in: orphans are reconnected and branches adopted.
Converges ==
    <>[](/\ Quiescent
         /\ cdbLatest = BestHeight)


\* the main index read as a sequence, genesis first, up to latest (Nil at a
\* number the index does not hold)
MainSeq == [i \in 1..cdbLatest + 1 |->
              IF i - 1 \in DOMAIN mainIdx THEN mainIdx[i - 1] ELSE Nil]

Canonical == INSTANCE CanonicalChain
                 WITH main <- MainSeq, state <- sdb.accounts, StateOf <- RefState

\* Refinement: seen through its main index and the state db's committed
\* accounts, the chain service is a canonical chain.  Every step of
\* addBlock and of the reorganisation either leaves both alone or moves
\* the main chain, in the same step as the state db, to the chain of a
\* strictly higher block whose execution the state db holds; the main
\* chain never shrinks, never switches to a branch of equal height, and
\* is never linked wrongly.
ImplementsCanonicalChain == Canonical!Spec

========================================================================
