# TLA+ models of the aergo chain core

This directory holds TLA+ models of the chain core of aergo: block ingestion,
the executor, the state database, the sync helpers and the peer and RPC code
around them. TLC checks them. Every definition is translated from the Go
sources under `src/`. Some parts are not in the sources, so they are modelled
from `spec.md` and marked `spec_modelled` in `PROJECT.json`:
- the block store (chaindb);
- the orphan pool;
- the reorganisation (`cs.reorg`);
- the mempool;
- the block factory that seals gathered bodies.

## 1. The system (inventory)

| Part | Source | State it keeps | Operations that change state |
|------|--------|----------------|------------------------------|
| Chain service actor | `blockchain/chainhandle.go` | none of its own beyond the stores; a mailbox of requests | `addBlock` (orphan check, loop over the block and the orphans it connects, needReorg/reorg), `handleOrphan`, `connectOrphan`, `handleMissing`, `checkBlockHandshake` |
| Executor / BlockState | `blockchain/chainhandle.go`, `types/state.go` | per block: changed accounts (post-images), undo pre-images, undo state root | `executeTx`, `executor.execute`, `BlockState.PutAccount` |
| State DB | `state/statedb.go` | committed account map, trie, `latest` BlockInfo, saved BlockStates by hash | `SetGenesis`, `Apply`/`apply` (+`updateTrie`), `Rollback` (+`revertTrie`), lazy `getAccountState` |
| Block store (cdb) | spec 4.1 (not in sources) | `block/<hash>`, `blockno/<n>`, `latest`, tx index | `addBlock` in a store transaction, `setLatest` |
| Orphan pool | spec 4.4 and `connectOrphan` | orphans keyed by parent hash | `addOrphan`, `removeOrphan` |
| Sync helpers | `blockchain/chainanchor.go`, `handleMissing` | none (reads the store) | `getAnchorsFromHash`, `handleMissing` |
| P2P block handlers | `p2p/subprotocolblock.go` | outstanding requests per peer | GetBlock, GetBlockHeaders, GetMissing request handlers; GetBlock response handler (feeds AddBlock) |
| Consensus tx gathering | `consensus/chain/tx.go` | running body size | `GatherTXs`, `newBlockLimitOp`, `NewCompTxOp` |
| RPC facade | `rpc/grpcserver.go` | none | `CommitTX` (chunked mempool puts), `SendTX` (nonce fill, sign, put), `ListBlockHeaders`, `Blockchain`, `GetBlock` (number or hash by length), `GetBlockTX` (the chain service's `getTx`) |
| Block number encoding | `types/blockchain.go` | none | `BlockNoToBytes`, `BlockNoFromBytes` (8 little-endian bytes) |
| CLI, message types, block hashing | `cmd/`, `message/`, `types/blockchain.go` | none | none that matter to the chain's state (I/O, declarations, hashing, signing) |

**How the parts interact.** Peers and the local block producer send
`AddBlock` messages to the chain service. It handles one message at a time.
For each received block, `addBlock` does the following:

1. It checks whether the parent is stored.
2. If the parent is missing, it parks the block in the orphan pool. It then
   asks the peer for the missing part, sending anchors computed by
   `getAnchorsFromHash`.
3. Otherwise it decides once whether the block extends the main chain, and
   then loops. Each iteration does these steps:
   - verify the block;
   - on the main chain, execute it (`executeTx` into a BlockState, then
     `ChainStateDB.Apply`);
   - store it in a store transaction and commit;
   - on the main chain, set `latest`;
   - take the orphan waiting on this block as the next one.
4. After the loop it reorganises if the last block added is higher than
   `latest`. A failed reorganisation panics.

A peer's `GetMissingRequest` is answered by `handleMissing` on the
responder's chain. The blocks in the reply come back as `AddBlock` messages.

**Hard behaviours** (each is a hazard in `PROJECT.json`):
- error returns in the middle of the loop, after some blocks were committed;
- the state db applied before the block store commits, so that a store
  failure leaves it one block ahead;
- a store transaction that the deferred release cannot see;
- orphans arriving in any order, and redelivered blocks;
- undo images of accounts that a block touches several times;
- rollback across several blocks, with the trie reverted in step;
- unexecuted branch blocks that a reorganisation must later execute;
- a tx index written for main blocks only, which a reorganisation leaves
  naming blocks off the main chain, read with unchecked errors;
- unsigned arithmetic at the edges of `handleMissing` and of the header
  listing;
- anchors that start with the orphan's own hash;
- a chain-service call from the p2p handler that times out;
- the block size limit in `GatherTXs`, and the transaction it lets into the
  body unexecuted;
- the 101-transaction first chunk of `CommitTX`, and a later chunk failing
  after earlier ones were taken;
- a `SendTX` nonce read before another call puts that nonce;
- `MemPoolDel` ordered before the factory's next `MemPoolGet`;
- a trie update failing after the accounts were merged;
- `GetBlock` telling a block number from a hash by length alone, and
  decoding the number as a little-endian uint64.

**Properties each part needs.**
- **Block store:** the main index is one linked chain.
- **State db:** its accounts are the replay of its chain, its trie
  authenticates them, and it is never more than one unstored block ahead
  of the block store.
- **Chain service:**
  - the highest good branch becomes the main chain, and ingestion
    converges;
  - no store transaction leaks.
- **Sync helpers:**
  - anchors are strictly decreasing;
  - missing ranges are consecutive and lie in `[ancestor, stop)`;
  - no request makes the responder panic;
  - an orphan's parents eventually arrive.
- **Consensus:** a gathered body matches its block state, and no
  transaction is lost between the mempool and the chain or executed twice.
- **RPC:** `CommitTX` puts each transaction once, reports the mempool's
  verdicts, and leaves nothing behind when it fails. The header listings
  return the headers spec 6 describes, and `GetBlock` returns the block
  that the client's encoded number or hash names.

## 2. Plan

Modules, in order of construction (each EXTENDS the previous one where
noted):

1. `Executor`: executeTx, the executor loop and BlockState as operators.
   **Done.**
2. `StateDB` (EXTENDS Executor): apply, updateTrie, Rollback, revertTrie and
   SetGenesis as operators on a state-db record. **Done.**
3. `ChainService` (EXTENDS StateDB): the actor. It has one action per step
   of `addBlock`, with the block store, the orphan pool and the
   reorganisation. `MC_ChainService` instantiates it. **Done.**
4. `SyncHelpers`: `getAnchorsFromHash` and `handleMissing` as operators,
   checked against the definitions of spec 4.6 over all chains up to a
   bound. `MC_SyncHelpers` holds the check. **Done.**
5. `SyncProtocol` (EXTENDS ChainService): the requester is the chain
   service. The peer serves `handleMissing` and GetBlock, and the p2p
   handlers sit between the two. The network loses what the peer's handlers
   drop (a failed or timed-out call). It checks that the requester reaches
   the peer's tip, and that an orphan's parents eventually arrive.
   **Done.** The peer is a growing main chain, not a second ChainService.
6. `GatherTxs`: the consensus body gathering. **Done.**
7. `CanonicalChain`: the abstract chain service (a main chain that only
   moves to the chain of a higher block, with that chain's state).
   `ChainService` is shown to implement it. **Done.**
8. The trie fault: `LoopTrieFails`, a failing `updateTrie` after the merge,
   under its own `TrieFaultSpec`. **Done.**
9. `HeaderList`: `ListBlockHeaders` and the p2p GetBlockHeaders handler,
   with the uint32/uint64 wrap at the edges, against spec 6. **Done.**
10. `RpcService` (CommitTX, SendTX) and `TxPipeline`: the RPC calls, the
    mempool, `GatherTxs` and the block-producer path of `addBlock`
    composed. **Done.**
11. `BlockQuery`: the RPC's `Blockchain` and `GetBlock`, the chain
    service reads they forward to, and the block-number encoding of
    `types/blockchain.go`, checked against spec 6 in `MC_SyncHelpers`.
    **Done.**
12. The tx index, `getTx` and `GetBlockTX` in `ChainService`, and the
    failed reorganisation's cause (`HaltsOnlyOnBadBranch`). **Done.**
13. **Not done:**
    - `revertTrie` failures in the middle of `Rollback`.
    - A peer that is itself a `ChainService`, holding branches, so that
      `handleMissing` with a stop hash is exercised in the protocol.
    - Two concurrent `SendTX` clients (3.9 minutes with the present bounds).

Bounds: two or three accounts, and chains of at most six blocks, including a
branch one block higher than the main chain. That is the smallest set that
exercises a reorganisation past more than one block, the undo of a
twice-touched account, and a rollback that has to restore an account the new
branch does not touch. Pure algorithms are checked over every chain height up
to a bound large enough to leave the ten-block window and reach genesis
through the doubling steps.

## 3. Modules and how they correspond to the code

### Executor (`Executor.tla`)

Operators only, no variables.
- An account state is `[nonce, balance]`.
- A BlockState is `[info, accounts, undo, undoRoot]`. `accounts` and `undo`
  are partial functions, like the Go maps.
- `PutAccount` keeps the first pre-image (`state.go` 164-169).
- `GetBlockAccount` reads the block's post-image first, and the committed
  state otherwise (`statedb.go` 116-152). A missing committed account reads
  as `NewState`, as `getAccountState` makes it.
- `ExecuteTx` is `executeTx` (`chainhandle.go` 250-325) for a NORMAL
  transaction with a recipient:
  - a sender short of funds is set to balance 0, and the receiver is still
    credited (the FIXME);
  - the nonce is copied from the transaction;
  - a failing contract call returns before any `PutAccount`.
- The contract VM is reduced to the tx field `callFails`.
- `ExecTxs` is the loop of `executor.execute`, which stops at the first
  error.

### StateDB (`StateDB.tla`)

Operators on a record `[accounts, trie, latest, saved]`. The trie is content
addressed, so a trie root is modelled by the account content it
authenticates.
- `ApplyGuard` is `Apply`'s two checks.
- `ApplyFull` is `apply`:
  1. take the undo root if it is empty;
  2. save the BlockState;
  3. merge the accounts;
  4. `updateTrie`;
  5. set `latest`.
- `RollbackLoop` is the loop of `Rollback`. It includes the early exit when
  a BlockState is missing, the `break` at the target block, the restore of
  the pre-images, `revertTrie`, and the step to the parent.
- `SetGenesis` applies a BlockState with nil pre-images.

### ChainService (`ChainService.tla`)

Variables:

| Variable | What it models |
|----------|----------------|
| `inbox` | `AddBlock` messages not yet handled, as a count per block |
| `phase` | `"idle"`, `"loop"` or `"post"` |
| `cur` | the loop's `tblock` |
| `isMain` | `isMainChain` |
| `lastBlock` | `lastBlock` |
| `stored`, `mainIdx`, `cdbLatest` | the block store |
| `txIdx` | the store's tx index, `tx/<hash>` → block and position |
| `orphans` | the pool, keyed by parent hash |
| `sdb` | the state db |
| `openTxs` | store transactions neither committed nor discarded |
| `halted` | the panic |

The actor handles a message to completion. One `addBlock` call is therefore
several steps of the model with no other message in between:
- `ReceiveOrphan` or `ReceiveBlock` starts it;
- `LoopVerifyFails`, `LoopExecFails`, `LoopStoreFails` and `LoopAdd` are one
  iteration of the loop each;
- `Reorg` or `NoReorg` is the check after the loop.

`LoopAdd` includes the three outcomes of `connectOrphan` (the operator
`ConnectOrphan`): no child, the child, and a child with the wrong number. Each error return goes through
`ReturnErr`. It counts the leaked store transaction and skips the
reorganisation check, as the code does.

`Reorg` is modelled from spec 4.5:
1. roll the state db back to the common ancestor (`Rollback`);
2. re-execute the branch;
3. re-index it;
4. on any failure, halt.

Properties are stated for the states between messages (`phase = "idle"`).

**The tx index and GetTx.** `StoreBlock` writes the `tx/<hash>` entries of
a main-chain block (`TxIndex`). Spec 4.1 says `add_block` writes them only
for a main-chain block. Spec 4.5 says a reorganisation re-indexes only
`blockno/`, so `Reorg` leaves `txIdx` alone. `GetTx` is `getTx`
(`chainhandle.go` 50-62):
- it reads the index entry and the block it names;
- it compares that block with the main block at its number;
- it ignores the errors of both block reads, so a nil block there would
  panic.

`GetBlockTX` is the RPC that sends the GetTx message (`grpcserver.go`
194-205): a timeout, or the chain service's answer as it is.
No property checks these lookups. The panic cannot happen in the model:
`StoreBlock` writes a block, its `blockno/` entry and its `tx/` entries in
one store transaction, and only for a main block. The main index only
grows, because a reorganisation moves to a higher branch. So an entry
never names an unstored block or a number above `latest`. Whether an
answer is "in the main chain" is `getTx`'s own comparison. A
reorganisation can move the main chain off the block an entry names, as it
does for A1's payment to `c`. `getTx` then answers "not in the main
chain". A transaction of a branch block that a reorganisation makes main
has no `tx/` entry, so it is answered "not found". That follows from spec
4.5's reorganisation, which re-indexes only `blockno/`, and that code is
not in the sources.

**Halting.** `Reorg` halts when the rollback or the re-execution of the
branch fails. Branch blocks are stored unexecuted, so a higher branch
holding a failing transaction does halt the node. In the `faults` run this
is B3 on top of A2. `HaltsOnlyOnBadBranch` says that this is the only
cause. It requires that the state db's `Rollback` to the common ancestor,
followed by `Apply`'s number and parent checks, lets every block of a good
branch through.

The constant `Sent` gives the number of `AddBlock` messages that peers send
for each block, so `Init` has `inbox = Sent`. `Ingest` is every step except
`ReceiveOrphan`. `SyncProtocol` replaces that one step, because there an
orphan also sends a request.

`LoopTrieFails` is the main-chain iteration in which `apply` saves the
BlockState and merges its accounts, and then `updateTrie` fails
(`statedb.go` 222-235). The error returns through `ReturnErr`, with `latest`
unchanged. After that step the state db is no longer the replay of its
chain. So the step has its own next-state relation, `TrieFaultSpec`, and its
own run, and the passing runs do not fire it.

`LoopStoreFails` (line 124) comes after `executeBlock` has applied the
block to the state db, and nothing rolls it back (the FIXME at line 127).
`StateDbAtStoreTip` says how far the two stores can then disagree: between
messages the state db's latest block is the store's tip or one unstored
block extending it. A retry of the block, or its successor, fails `Apply`'s
number check on the advanced state db. A reorganisation's `Rollback` starts
from the advanced block, whose BlockState `apply` saved, and brings the two
stores back together.

**Refinement.** `CanonicalChain.tla` is what the chain service promises its
callers:
- the main chain is the chain from genesis to some block;
- it is only ever replaced by the chain to a strictly higher block;
- the committed state is that chain's replayed state.

It has no orphans, no store transactions, no undo logs and no blocks in
flight. `Canonical` instantiates it with these substitutions:
- `main` is the main index, read as a sequence (`MainSeq`);
- `state` is `sdb.accounts`;
- `StateOf` is the replay.

The core run checks `ImplementsCanonicalChain` (`Canonical!Spec`) as a
PROPERTY. A reorganisation and the extension of the tip are both one
`Adopt` step. The steps between messages and a branch block being stored
are stuttering steps.

### SyncHelpers (`SyncHelpers.tla`, `MC_SyncHelpers.tla`)

Operators on a store snapshot `[stored, mainIdx, latest]`. The chain
service is an actor, so the store does not change while a helper runs.
- `HashByNo` is `getHashByNo`. A number that is not indexed gives `Nil`.
- `RecentAnchors` and `ExpAnchors` are the two loops of
  `getAnchorsFromHash`:
  - the 10 latest hashes;
  - then up to 10 hashes with a doubling step, with the clamp to genesis.

  `GetAnchorsFromHash` seeds them with the block hash it is given.
- `FindMainBlock` is the candidate loop of `handleMissing`, including the
  `mainblock` value that a failed `getHashByNo` leaves behind.
- `HandleMissing` is the rest of `handleMissing`:
  - the loop bound is computed modulo `Word`, because it is a uint64;
  - `make` panics on a wrapped bound (more than `MaxAlloc`);
  - the unchecked `getBlockByNo` panics on a number that is not indexed.
- `SpecAnchorNos` and `SpecMissing` are the reference definitions of
  spec 4.6.

`MC_SyncHelpers` enumerates the stores a node can be in between messages:
- a linear chain of any height up to `MaxLatest`;
- small stores with a side branch that starts no higher than the tip
  (`Storable`). Its blocks may rise above the tip: `addBlock`'s orphan
  loop stores them as branch blocks, and an error return then skips the
  reorganisation (line 160, the `skipped_reorg` run). In such a store
  `getHashByNo` fails for the branch block above `latest`, and the
  `continue` at line 410 keeps it as `mainblock`. Honest anchors end in
  genesis, which is always main, so the stale value is never the answer.
  Were it the answer, its number is above `latest` and the loop bound
  wraps, so `NoPanic` and `MissingAsSpecified` both check this case.

One variable, `check`, says which helper a behaviour examines. The
`ComputeAnchors` action moves `latest` through every height. `Serve` answers
one request with `HandleMissing`. The requests are either the ones a
requester can build (anchors of a consistent store, seeded with one of its
blocks) or, with `Honest = FALSE`, any short sequence of hashes; with
`Honest = FALSE` GetBlock is also queried with raw values of 0 to 8 bytes.

### SyncProtocol (`SyncProtocol.tla`, `MC_SyncProtocol.tla`)

SyncProtocol EXTENDS `ChainService`, and the requester is that chain
service. The peer is a node whose main chain grows along `PeerChain`. Its
store is `PeerCdb`, a function of `peerLatest`. The two nodes share one
connection, modelled as two FIFO sequences: `toPeer` carries requests and
`toReq` carries notices and responses.

| Action | Code |
|--------|------|
| `PeerAddsBlock` | the peer's chain service adds a block and broadcasts a notice |
| `RecvNotice` | the notice handler asks for the block (GetBlockRequest) |
| `PeerServesBlocks` / `PeerLookupFails` | `blockRequestHandler.handle`: a GetBlock call per hash. A failed call is `continue`, so the block is left out. |
| `PeerServesMissing` / `PeerMissingFails` | `getMissingRequestHandler.handle`: the CallRequest to `handleMissing` (stop `Nil`), then `sendMissingResp`. A failed call sends nothing. A panic sets `peerDown`. |
| `RecvResponse` | `blockResponseHandler.handle`: one AddBlock message per block |
| `SyncReceiveOrphan` | `ReceiveOrphan` plus `handleOrphan`'s GetMissingRequest with `getAnchorsFromHash(orphan)` |
| `RequesterStep` | every other chain-service step (`Ingest`) |

`lost` counts failed calls and is bounded by `MaxLoss`. `Settled` is the
stutter of a finished system.

### GatherTxs (`GatherTxs.tla`)

`GatherTXs` (`consensus/chain/tx.go`) as a small program:
- `pc` is `"fetch"`, `"loop"` or `"done"`;
- a transaction's encoded size is `TxSize(tx)`;
- the shared BlockState is the set of positions `txOp` has executed into
  it.

The actions are:
- `FetchFails` and `Fetch(txs)`: `FetchTXs`, where `txs` is the mempool's
  answer;
- `SizeLimit`: `newBlockLimitOp` refusing the transaction;
- `TxApplied`, `TxTimeout` and `TxFails`: the three outcomes of `txOp`.

The result is the body, `txIn[0:last+1]`, and the BlockState. The module has
no `Next` of its own: `TxPipeline` composes it.

### HeaderList (`HeaderList.tla`)

This module holds operators on a store snapshot, as in `SyncHelpers`:
- `ByHash` is the hash loop of `ListBlockHeaders` (`grpcserver.go` 80-96).
- `ByNo` is the height loop (98-112). Its `i--` wraps modulo `Word`.
- `EndNo` computes `height - (maxFetchSize-1)`. The `-1` wraps modulo
  `Word32`, because `maxFetchSize` is a uint32.
- `HandleHeadersRequest` is the p2p handler. It gives the same listing,
  plus the capacity it allocates, which is `data.Size`.
- `SpecHeaders` is spec 6's definition.

`MC_SyncHelpers` checks the operators with `check = "headers"`.

### BlockQuery (`BlockQuery.tla`)

This module holds the RPC's block queries as operators on a store snapshot.
Each handler gives the set of replies it can make. The chain service's
future can always time out, and the error is then returned unchanged
(`TimedOut`).
- `BlockNoToBytes` and `BlockNoFromBytes` are `types/blockchain.go` 62-73:
  eight little-endian bytes. A byte is a digit of base `Base`, and
  `Base^8 = Word` stands for 2^64, so the decoding keeps the uint64's width.
- `GetBlockByNo`, `GetBlockByHash` and `GetBestBlock` are the chain
  service's reads (`chainhandle.go` 28-44). They answer `BlockRsp`. A
  missing block is an error, as spec 4.1 says of the store's reads.
- `Blockchain` is `grpcserver.go` 46-66.
- `GetBlock` is 146-172, with these branches:
  - an empty value is InvalidArgument;
  - a value shorter than 32 bytes is a block number, and a value shorter
    than 8 bytes panics in `Uint64` (`Uint64Panics`);
  - any other value is a hash;
  - an error extracted from the response is Internal.

  Because the store reports a missing block as an error, an unknown
  number or hash gives Internal, never the NotFound branch.

`MC_SyncHelpers` checks it with `check = "query"`, on the same stores as
the other helpers. The queries are every block number from 0 to 4, the
largest uint64 and every hash, each encoded as a client builds it, plus an
unknown hash.

### RpcService (`RpcService.tla`)

This module models the transaction calls of `grpcserver.go`.

**CommitTX** (249-301) keeps its locals as variables: `clist`, `ci`,
`cstart`, `ccnt`, `cres` and `cputs`. `cputs` is the history of its puts.
Its actions are:
- `CommitStart`, which includes the nil-list error;
- `CommitCheck`, an iteration without a put;
- `CommitChunk`, an iteration that puts `in.Txs[start:start+cnt]`. Each
  result becomes the mempool's verdict, which overwrites the hash check.
- `CommitChunkFails`, where the put's future fails. The mempool may have
  taken the chunk or not.

**SendTX** (210-247) is a per-client program: GetState, SignTx, then
MemPoolPut. Each future can fail. The branch that panics on a `GetStateRsp`
error (line 221) is left out.

**The mempool** is outside the sources and is modelled by its interface:
- a put refuses a transaction whose account and nonce the mempool already
  holds, or whose nonce is not above the committed one;
- `MemPoolGet` answers the ready run of nonces, in nonce order.

### TxPipeline (`TxPipeline.tla`, `MC_TxPipeline.tla`)

TxPipeline EXTENDS `RpcService` and instantiates `GatherTxs` as `GT`. The
mempool is an actor, and `mbox` holds the `MemPoolDel` requests waiting in
its mailbox.

| Action | Code |
|--------|------|
| `Rpc` | a CommitTX or SendTX step |
| `MemPoolGet` | `FetchTXs` answered. It is served only after the queued deletes, because the factory sends it after the chain's notification. |
| `MemPoolDel` | the mempool removes a block's transactions |
| `Gather` | a `GatherTXs` step |
| `Seal` / `Discard` | the factory (outside the sources) sends the block to the chain service, or gives up after an error |
| `AddBlock` | `addBlock` with `usedBstate` (`chainhandle.go` 106-147): the BlockState is applied without executing the body (`newExecutor`), `MemPoolDel` is requested, and `latest` is set and the factory notified |

`blocks` records each added block's body and the transactions it executed.

## 4. Runs

The ChainService runs use `MC_ChainService.tla`:
- genesis `G`;
- a main chain `G-A1-A2`;
- a higher branch `G-B1-B2-B3` (the reorganisation scenario of spec 8);
- accounts `a`, `b` and `c`.

A1 and B1 spend twice from `a`, A1 pays `c`, which no B block touches, B2
contains a self-transfer, and B3 overspends. `Sent` delivers A1 twice.
A1 and B1 share their first transaction, and A2 and B2 theirs. In the
`faults` variant B3's transaction is a contract call that fails.

| Run | cfg | Expect | What it shows |
|-----|-----|--------|---------------|
| core | `MC_ChainService_core.cfg` | pass | In every delivery order, these hold: `MainChainLinked` (the main index is a chain), `StateReplaysChain` (the state db equals a replay of its chain from genesis, through reorganisation and rollback), `TrieMatchesAccounts`, `HeaviestIsMain` (no stored block is above the tip between messages), `Converges` (ingestion ends quiescent at the best height), and `ImplementsCanonicalChain` (the refinement). |
| faults | `MC_ChainService_faults.cfg` | pass | Store failures after execution, a failing contract call (B3, either on the main chain or on a branch above A2), a block rejected by the verifier that is also misnumbered (X), and redelivery. The main index stays linked, and the state db stays a faithful replay of the chain its `latest` names. The state db is never more than the one unstored block ahead of the store's tip (`StateDbAtStoreTip`). The node panics only on a branch holding B3 (`HaltsOnlyOnBadBranch`). 3,935 states. |
| trie_retry | `MC_ChainService_trie_retry.cfg` | violation | `StateReplaysChain` under `TrieFaultSpec`. At depth 3 A1 is received and its trie update fails after apply merged its accounts into the state db (statedb.go 222-235); `latest` stays at G, so the committed accounts hold A1's post-image while `latest` names G, and the state db is no longer the replay of its chain. The trace ends there; what a redelivery or a later block does on those accounts is not part of it. |
| leaked_tx | `MC_ChainService_leaked_tx.cfg` | violation | `NoLeakedStoreTx`: the `dbtx :=` at line 108 shadows the variable the deferred Discard checks. |
| skipped_reorg | `MC_ChainService_skipped_reorg.cfg` | violation | `HeaviestIsMain`: B3 is rejected after B1 and B2 were committed as a branch, the handler returns before `needReorg`, and branch height 2 stays above main height 1. |
| helpers | `MC_SyncHelpers.cfg` | pass | For every main-chain height from 0 to 1040, `getAnchorsFromHash` gives exactly the anchor numbers of spec 4.6 (`AnchorsAsSpecified`). For every request a requester can build, on every store including those with a branch above the tip, `handleMissing` does not panic (`NoPanic`) and replies with the range of spec 4.6 (`MissingAsSpecified`). For every request of size 0 to 4, or 255 (the uint32 maximum), by hash or by height, both header listings give exactly spec 6's headers (`HeadersAsSpecified`). `GetBlock` on a block number encoded by `BlockNoToBytes` (0 to 4 and 2^64-1), or on a 32-byte hash, answers the main block at that height or the block with that hash, and an error when there is none (`GetBlockAsSpecified`). About 6,000 states. |
| missing_any | `MC_SyncHelpers_any.cfg` | violation | `NoPanic`, over any request a peer or an RPC client may send: the GetMissing request (stop `G`, candidates `<<A1>>`) wraps `loop` at line 427 and the responder panics; the GetBlock value `<<0>>` (1 byte) passes the capacity test at grpcserver.go:149 and `binary.LittleEndian.Uint64` panics at line 154. TLC reports whichever it reaches first. |
| sync | `MC_SyncProtocol.cfg` | pass | With a peer chain `G-B1-B2-B3` and at most one failed call, in every behaviour in which no call fails the requester reaches the peer's tip and stays there (`Synced`). This holds through notices processed out of step with the peer and orphans that arrive first. 575 states. |
| sync_orphan | `MC_SyncProtocol_lossy.cfg` | violation | `OrphansResolved`: B1's GetBlock call fails, and B2 and B3 arrive as orphans. The GetMissing request for B3 is seeded with B3 itself, so the peer takes B3 as the common ancestor and answers with nothing. B1 never arrives. |
| pipeline | `MC_TxPipeline.cfg` | pass | One account. A CommitTX list of three transactions (the second with a wrong hash), put with `Chunk = 1` so the chunks hold 2 and 1. One SendTX client, whose nonce collides with the list's first transaction. A body limit of two, every `txOp` outcome, and two blocks. These hold: `StateWithinBody`; `CommitResultsAligned` (the uneven chunks put each transaction once and in order, and each result is the mempool's verdict); and `NoDoubleExecution` (no transaction is executed in two blocks). 717,696 states, about 30 s. |
| lost_tx | `MC_TxPipeline_lost.cfg` | violation | `TxNeverLost`, with three ready transactions, limit 2, and `txOp` always succeeding. `GatherTXs` returns the third transaction in the body unexecuted (tx.go 121). `AddBlock` applies the BlockState without executing the body, and `MemPoolDel` removes the transaction. It is found at depth 12. |
| commit_partial | `MC_TxPipeline_partial.cfg` | violation | `CommitAtomic`: the first chunk is accepted, the second put's future fails, and CommitTX returns an error with the first chunk left in the mempool (grpcserver.go 281). |

Every property of a passing run has a mutant in `PROJECT.json`: a changed
copy of one mapped definition, such as undo images overwritten, a trie
revert inverted, orphans keyed by their own hash, a missing clamp to
genesis, an off-by-one in the gather loop, latest set for a branch block, the
end height one too low, `start` not advanced after a put, the
`MemPoolDel` never sent, the state db not advanced by an executed block,
the number bytes read most significant first, `getTx` without its
main-chain comparison, or `Rollback` refused one block too early. TLC finds the property
violated under that run's configuration.

**Spec 9 and the anchors.** Spec 9 says that `getAnchorsFromHash` repeats
the last recent anchor when the exponential loop starts. The code does not:
after the first loop, `latestNo` has already been decremented, and the
`helpers` run finds the anchor numbers equal to spec 4.6's list. The mutant
`RecentAnchorsRepeatLast` is the behaviour spec 9 describes, and TLC kills
it under `AnchorsAsSpecified`. Spec 9 is therefore wrong about the code.

**Bounds.**
- `MaxLatest = 1040` takes the anchor check past height 1033. That is the
  first height at which all ten doubling steps are taken without reaching
  genesis, so both exits of the second loop are reached.
- `Word = 2^16` stands for 2^64. A wrapped difference is above
  `Word / 2` in both cases, and the chain heights are far below it.
- `MaxLoss = 1` and `MaxInbox = 2` are enough for a lost block to create
  orphans, and for a block to be delivered both by a notice and by a
  GetMissing reply.
- Header requests cover sizes 0 to `MaxFetch + 1` and 255. `MaxFetch = 3`
  stands for 1000 and `Word32 = 256` stands for 2^32. The heights cover
  0 to 4, with and without a hash. That reaches the cap, the wrap of
  `maxFetchSize-1` at size 0, and an `end` above 0.
- `Base = 4` makes eight bytes a `Word`. The numbers 1 to 4 and `Word - 1`
  tell little-endian from big-endian and use every byte.
- Pipeline: the transactions have size 1 and the limit is 2, so with
  three ready transactions a body fits exactly and the size limit cuts at
  the third. `Chunk = 1` stands for 100: `ChunkEnds` is the same test, and
  a list of three gives the uneven split the code makes of 101 and 100.
  `MaxBlocks = 2` is the least number of blocks that can show a
  transaction executed twice. With 3 blocks the run takes
  2 min 20 s and finds nothing more.

## 5. Fairness

The chain service is an actor. While its mailbox holds a message or a
handler is unfinished, it keeps taking steps, and nothing else can stop it
except a panic (`halted`). `Fairness` is weak fairness on `Step`. It is
written out as its definition,
`<>[]ENABLED <<Step>>_vars => []<><<Step>>_vars`, with the state predicate
`Busy` standing for `ENABLED <<Step>>_vars`:
- In phase `"idle"`, a pending message is always either an orphan or not.
- In `"loop"`, one of the verify, execute, store and add cases always
  applies.
- In `"post"`, `Reorg` or `NoReorg` applies.

This form keeps TLC from evaluating `ENABLED` of the reorganisation, which
re-executes the branch. The equivalence `Busy = ENABLED Step` was checked as
an invariant on the core configuration. No fairness is assumed for the
order of messages: every order is explored.


**SyncProtocol.** The requester's chain service has the same fairness,
written for `Requester`. Its mailbox is FIFO, and the actor handles every
message in it. But a given `AddBlock` is only handleable between messages,
which happens only now and then. So each block gets strong fairness on
`HandleAddBlock(b)`, and this is what makes a queued block eventually be
taken. The p2p handlers run in their own goroutines, one connection per
peer, and they handle that connection's messages in order. So there is
weak fairness on `RecvNotice`, `RecvResponse`, `PeerServesBlocks` and
`PeerServesMissing`, each of which takes the head of its sequence. The
peer's chain grows to the end under weak fairness on `PeerAddsBlock`. The
failure actions (`PeerLookupFails`, `PeerMissingFails`) have no fairness:
a call need never fail. `Synced` is stated for behaviours in which none
fails.

`TxPipeline` and `GatherTxs` have only safety properties and no fairness.

## 6. Not modelled, and why

- **The block producer path in `ChainService`.** `TxPipeline` models it
  without the store, the orphans and reorganisation, which a block the
  factory built on the tip does not meet.
- **The mempool's own code.** It is outside the sources and is modelled by
  its interface. Consensus notifications have no effect on chain state.
- **`IsBlockValid`.** The consensus header check is outside the sources.
  Its rejection is subsumed by `Invalid`.
- **GOVERNANCE transactions, contract creation and contract storage**
  (`CommitContractState`). The VM is opaque.
- **`revertTrie` and persistence failures.** A failed reorganisation
  panics anyway, and a half-reverted state db is never saved. The failing
  `updateTrie` is modelled. A failing `revertTrie` would halt the node on a
  good branch. `HaltsOnlyOnBadBranch` excludes that, so the fault would
  need a violation run of its own.
- **`checkBlockHandshake`.** It calls into the ChainSync component, which
  is not in the sources.
- **The other RPC methods, and SendTX's panic on a `GetStateRsp` error.**
  The methods forward one request and convert the reply. The ones that
  reach the chain service's store (`Blockchain`, `GetBlock`,
  `ListBlockHeaders`, `GetBlockTX`) are modelled. The others reach the accounts service,
  the mempool's lookup, the VM or the p2p service, none of which is in the
  sources. The panic is a single step on one call's error path.
- **Persistence and restart of the state db** (`Init`, `Close`,
  `saveStateDB`, `loadStateDB`). The store is I/O, and the loaders are not
  in the sources. Every state-db change in the passing runs is followed by
  `saveStateDB`, so a restart would reload the state the model already
  holds.
- **The p2p peer manager, handshakes and stream I/O.** The sync model
  assumes one connection that delivers in order and loses only what the
  handlers drop.
- **The CLI, hashing, signing and header serialisation.** These are I/O
  and digests, with no bearing on the properties. A hash is a model value,
  or an opaque 32-byte string in `BlockQuery`.
