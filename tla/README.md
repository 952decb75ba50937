# TLA+ models of FISCO-BCOS transaction execution

This directory holds TLA+ specifications of parts of the FISCO-BCOS source
under `src/`, and the TLC configurations that check them. `PROJECT.json` holds:

- every component of the repository, with its status;
- the runs and the mutants that show each property can fail;
- the map from each TLA+ definition to the source lines it translates;
- the findings and the hazards.

## The system

The source tree mixes two generations of FISCO-BCOS.

**3.x execution core** (`transaction-scheduler`, `transaction-executor`,
`bcos-framework/storage2`, `bcos-executor`)

- A *scheduler* runs a block's transactions through an *executor* over a
  layered state store.
- `SchedulerParallelImpl` cuts the block into chunks of `m_chunkSize`
  transactions. It runs a `tbb::parallel_pipeline` with at most `m_maxThreads`
  live tokens and three stages:
  - split (serial);
  - execute (parallel): each chunk gets a private mutable layer and a
    `ReadWriteSetStorage` recording its reads and writes;
  - merge (serial, in order): the chunk's read set is compared with the
    rw set of the last merged chunk (`hasRAWIntersection`).
- On a conflict the merge raises `abortToken`, and the outer loop restarts at
  the first unmerged chunk. Otherwise the merge copies the private layer into
  the global one and appends the chunk's receipts.
- The executor wraps its storage in `Rollbackable`. Before each write or remove
  it journals `(key, old value)`, and a revert replays the journal back to a
  savepoint.

**3.x precompiled contracts** (`bcos-executor`)

- `SystemConfigPrecompiled` and `AccountPrecompiled` write their rows with
  `setRow` on the executive's storage, which is the `Rollbackable` journal.
  A revert of the calling frame undoes them with the contract's own writes.

**2.x components** (`libstorage`, `libblockverifier`, `libp2p`)

- `MemoryTable` is a table cache with a change log. Every update, insert and
  remove hands a change to a recorder, and a revert rolls the changes back.
- `AuthorityPrecompiled` and `SystemConfigPrecompiled` write their system
  tables through `MemoryTable`.
- `AuthorityPrecompiled` also lists grants (`queryByName`). It maps a user
  table to its `_user_` name with `addPrefixToUserTable`, and leaves system
  tables unchanged.
- `BlockVerifier::executeBlock` runs a block through `TxDAG`. DAG transfers
  that share a critical field are ordered by edges, and `executeUnit` pops
  ready vertices and consumes them.

- A `P2PSession` keeps each peer's AMOP topic list in sync. A's heartbeat
  sends its topic sequence number, and B asks for the list when the number
  differs. Topics that need a certificate stay VERIFYING until a
  sign/check-sign round through the AMOP handlers completes. `signForAmop`
  hands each message of that round to the local AMOP handler.

**RPC** (`bcos-rpc`)

- The Web3 JSON-RPC decodes a raw Ethereum transaction (legacy, EIP-2930,
  EIP-1559, EIP-4844).
- `toTarsTransaction` then hashes its re-encoding and keeps its signing
  payload.

## Modules

| Module | Models | State and actions ↔ code |
|---|---|---|
| `BlockExecution` | The abstract specification: serial execution of a growing prefix of the block (spec 4.8, P1). | `state`, `receipts`, `executed`. Transaction *i* writes the value *i*, and its receipt records what it read, so two schedules give equal receipts exactly when every transaction saw the same state. |
| `ReadWriteSet` | `ReadWriteSetStorage.h` as pure operators. | A rw set is a function from keys to `[read, write]`. It has `PutSet`, `PutAll`, `MergeWriteSet` and `HasRAWIntersection`. |
| `SchedulerParallel` | `SchedulerParallelImpl::execute`, `chunkExecute`, `mergeStorage`. | See below. Refines `BlockExecution`. |
| `Rollbackable` | `RollbackableStorage.h` over a front layer with tombstones and fixed lower layers. | `front`, `records` (`m_records`), `sps` (nested savepoints). `WriteOne`, `WriteSome`, `RemoveSome`, `Rollback`. |
| `MemoryTable` | `MemoryTable.h`, `Table.h`. | `cache` (`m_cache`), `changes` (the recorder's log), `sps`. `Select`, `Update`, `Insert`, `RemoveRows` with authority, field check and conditions; `RollbackChange` is `MemoryTable::rollback`. |
| `Precompiled2x` | 2.x `SystemConfigPrecompiled::call`, `AuthorityPrecompiled::call`. | Two `MemoryTable` instances (`_sys_config_`, `_sys_table_access_`) sharing the executive's savepoints. `SetValueByKey`, `Grant`, `Revoke`. Grants are keyed by `AddPrefixToUserTable`, and `QueryByName` is the listing `queryByName` returns. |
| `TransactionExecutor` | One 3.x transaction: the VM's frames over `Rollbackable`, with the 3.x `SystemConfigPrecompiled` and `AccountPrecompiled`. | `front`, `records`, `sps` of the journal. `CallContract` enters a frame. `VmStep` covers the VM's own writes and its return or revert. `SetValueByKey` implements `checkValueValid` with `m_sysValueCmp`, and `SetAccountStatus` writes the status row and then the last-update row. |
| `TxDAG` | `TxDAG.cpp`, `DAG.h`, `BlockVerifier::executeBlock` and `execute`. | `topLevel` (`m_topLevel`), `inDegree`, `exeCnt` (`m_exeCnt`), `running` (per thread), `receipts`. `Init` is `executeBlock` up to its loop: `clearAllReceipts` and then `DagInit` (`txDag.init`). `Pop` and `Consume` are the two locked halves of `executeUnit`. `Receipt` is `execute`'s receipt. |
| `P2PTopicSync` | `P2PSession::start`, `stop`, `heartBeat`, `onTopicMessage`, `parseTopicList`, `requestRandValue`, `signForAmop`. | A's `seqA`/`topicsA` (the service), B's `bSeq`/`bView` (`m_topicSeq`/`m_topics`), `net` (messages in flight), `reading` and `cb` (handlers between their two steps), `randReq`, `amopA`/`amopB` (what each AMOP handler was handed). |
| `Web3Codec` | `Web3Transaction.cpp`, `Web3Transaction.h`. | `wire`, `dec`, `tars`. `Decode` is `codec::rlp::decode`, and `ToTarsTransaction` is `toTarsTransaction` with `hash()` and `encode()`. `Header`, `HeaderTxBase` and `HeaderForSign` are the code's length functions. |
| `MC*` | Instantiate the modules above for TLC. | Blocks, wires and storage contents to enumerate. |

`SchedulerParallel` state ↔ code:

| Model | Code |
|---|---|
| `store`, `receipts` | the global mutable layer, `receipts` |
| `chunkSize` | `m_chunkSize`, chosen at start (`setChunkSize`) |
| `chunkIt`, `nextSplit` | `chunkIt`, `currentChunk` |
| `lastRW` | `lastExecutedStorages` |
| `tok` | the live pipeline tokens: stage, transactions done, private layer, rw set, receipts |
| `StartRound`/`EndRound` | one iteration of the `while` loop / `parallel_pipeline` returning |
| `SplitChunk`, `StopSplit` | the split filter |
| `StartChunk`, `SkipChunk`, `ExecuteTx`, `EndChunk` | the execute filter and `chunkExecute`'s loop with its `abortToken` check |
| `DropResult`, `AbortOnConflict`, `MergeChunk` | the merge filter's three outcomes |

### Abstractions

- **Steps.** One transaction and one merge are each atomic. Different chunks
  interleave freely.
- **Multi-layer storage.** `MultiLayerStorage` is not under `src/`. The
  constant `SharedMutable` says whether a chunk reads the global layer as
  merges change it (`TRUE`, used by the runs) or the state at pipeline start
  (`FALSE`, spec O3).
- **`Entries::removeEntry`.** Its body is not in the repository (`Table.h`
  only declares it). The model reads its index from 0, as `Entries::get` and
  the indexes `update` and `remove` record do. `insert` records `size() + 1`,
  one past the entry it appended (`MemoryTable.h:224`), so under this reading
  the rollback of an insert erases nothing: an index at or past the end is
  taken to erase nothing, because an unchecked erase there would be undefined
  behaviour. Rows that existed at a savepoint are still restored, because
  every other change is undone in place. This reading is what the
  `authority_regrant_revert` finding rests on.
- **Values.** A MemoryTable entry is its one field's value and its status. A
  config value is a decimal. The enable number is the same for every call of a
  block, so it is dropped.
- **TxDAG.** A transaction is `[para, crit]`: is it a DAG transfer, and its
  critical fields. `DAG.cpp`, `CriticalField` and `hasFinished` are not under
  `src/` and are modelled from their declarations. The top level is a FIFO
  queue, and `hasFinished` is `m_exeCnt >= m_totalParaTxs`. The lambda's
  receipt append is taken together with `consume`.
- **Executor.** A storage key is `[table, key]`. A config row is
  `(value, enableNumber)`, and an account row holds its one field. The VM is
  opaque: inside a frame it may write or remove any contract key, call on,
  return or revert. `ToLower` is `boost::to_lower` on the names enumerated.
- **P2P.** A message is a record of its packet type and contents. Handlers
  run on the network's thread pool, so `net` is a set. Handlers that read
  two things are split into two actions. These are A's `RequestTopics`
  handler (seq, then topics) and B's response callback (read `m_topics`,
  then `setTopics`). A's service and the AMOP handlers are not under `src/`,
  so they are environment actions.
- **Web3.** A wire is a type byte, a list header and RLP items. An item is an
  integer, a byte string of some length, or a list of some payload length.
  - The lengths follow the RLP definition, because the rlp library is not
    under `src/`.
  - Fields are 16 bits wide in the runs rather than 64. `getSignatureV`'s
    wrap and decode's split of V are computed `% 2^Width`.
  - `to` is an item `A(z)`, a 20-byte address that is or is not zero;
    `encode(to.ref())` always writes 21 bytes. Access-list entries have no
    storage keys.

## Runs

There are 12 runs. That is the cap: each new question has to replace a run.

| Run | Checks | Result |
|---|---|---|
| `scheduler_two_tokens` | `TypeOK`; `SerialEquivalence` (refinement of `BlockExecution`, with `executed` ← merged transactions); `AllMerged` (`execute` returns with everything merged, under weak fairness). 2 keys, every 3-transaction block of ≤1 read and ≤1 write each, chunk size 1 or 2, 2 tokens: 90k states. | pass |
| `scheduler_three_tokens` | `SerialEquivalence` with 3 tokens. | **violation** |
| `executor_precompiles` | `TypeOK`; `RollbackRestores` (rolling back to any live frame gives what reads saw on entering it, with precompile rows included); 2 contract keys, config names in both cases plus an unknown one, values at and around the minimums, 4 records, 2 frames, empty lower layers: 492k states. | pass |
| `rollback_lower` | `RollbackRestores` with rows committed by earlier blocks below the journal. | **violation** |
| `memtable_serial` | `TypeOK`; `RevertRestoresExisting`: reverting to a savepoint gives back every entry that existed at the savepoint, with its value and status, in its place. One key, two values, a committed row, authorized and unauthorized origins, every condition except the empty one, 3 entries per key (so that a revert erases past a real entry), 4 changes and 2 savepoints: 1.5M states. | pass |
| `authority_regrant_revert` | `UniqueGrant`: an address has at most one live grant per table. Grant, then a call that revokes and grants again and reverts. | **violation** |
| `authority_lists_revoked` | `ListsLiveGrantsOnly`: `queryByName` lists exactly the live grants, each once. | **violation** |
| `txdag_workers` | `TypeOK`; `ConflictOrder` (a transfer starts only after every earlier transfer sharing a field is consumed); `Terminates` (the loop returns). Every block of ≤4 transactions over 3 fields, 3 threads: 254k states. | pass |
| `txdag_receipt_order` | `BlockReceipts`: receipts in block order (spec O1). DAG transfers only. | **violation** |
| `p2p_topic_sync` | `InSync` (when B's seq equals A's, B holds A's list); `Converges` (B ends up with A's seq and list, every topic verified). A plain topic and a certificate topic, one update, two losses, two connections: 50k states. | pass |
| `web3_roundtrip` | `HashedIsWire` (spec R1: an accepted wire re-encodes to the bytes received); `SigningPayload` (the extra bytes are the EIP-155/2718 signing payload with a correct header); `TarsFeesFromWire` (the node's transaction carries the gas price, or the two EIP-1559 fees, that the wire states for its type). The wires are every legacy and typed wire to a non-zero address over small values, V ∈ {0, 27, 28, 34, 35, 38, 2^16−1}, non-list headers and empty input: 2.7k states. | pass |
| `web3_header_length` | `HashedIsWire` with wires to the zero address and under type byte 4. | **violation** |

Each property of a passing run has a mutant in `PROJECT.json`. A mutant is a
plausible bug in the mapped code, and TLC finds the property violated under
the run's own configuration.

### Findings

- **Stale read merged with three or more live chunks** (code bug,
  `SchedulerParallelImpl.h:150`).
  - The default `m_maxThreads` is 16.
  - Merge compares a chunk only with the chunk merged just before it. Take
    tx1 writing `x`, tx2 touching nothing, and tx3 reading `x`. Chunk 3
    executes before chunk 1 merges, and it merges after the empty chunk 2.
  - `mergeWriteSet` is never called.
  - With two tokens the scheme is serializable.
- **Rollback with a committed value below the front layer** (divergence from
  spec 4.4/P2, `RollbackableStorage.h:109`, `:123`).
  - `writeOne` journals the old value with `READ_FRONT`, so its rollback
    leaves a tombstone.
  - `removeSome` does not journal such a key at all.
  - Through the precompiles this deletes committed state. A
    `setValueByKey` of a key set in an earlier block, made in a frame that
    then reverts, leaves the key with no row. `getValueByKey` then returns
    `("", -1)`.
- **queryByName lists revoked grants** (code bug,
  `AuthorityPrecompiled.cpp:176`).
  - `queryByName` selects with an empty condition, and `processEntries`
    (`MemoryTable.h:389`) skips the DELETED check for an empty condition.
  - A grant revoked earlier in the block is still listed, and an address
    granted, revoked and granted again is listed twice. The JSON carries no
    status to tell them apart.
- **A reverted re-grant leaves two live grants** (code bug, read from
  `MemoryTable.h:224`).
  - `insert` records the index `size() + 1` for the entry it appended at
    `size()`. Under the 0-based reading of `Entries::removeEntry` (see
    Abstractions), its rollback erases nothing.
  - TLC's trace for `authority_regrant_revert`: grant (t, a); savepoint;
    revoke a; grant a; revert. The revoke is undone and the new grant
    stays, so the table holds two NORMAL entries for a.
  - `AuthorityPrecompiled::call` selects before inserting and returns -33
    when the address is present, to keep one grant per address.
- **Receipts follow DAG order, not block order** (code bug,
  `BlockVerifier.cpp:73`).
  - In the block [transfer on a, transfer on a, transfer on b], the third
    transaction's receipt is second.
  - Spec O1 says receipts come in block order.
- **A transaction to the zero address re-encodes under a short header**
  (code bug, `Web3Transaction.cpp:157`).
  - `headerTxBase` counts `to` as one byte when it is zero (`tx.to ?` is
    false), but both encoders write all 20 bytes of `to.ref()`.
  - Any well-formed transaction sent to the zero address is hashed over a
    malformed list, so its hash is not the sender's. This contradicts R1.
  - This is the trace TLC reports for `web3_header_length`.
- **Unknown transaction types re-encode under a wrong header** (code bug,
  `Web3Transaction.cpp:151`).
  - `decode` takes any first byte in 1..0x7f as a type and reads unknown
    types with the EIP-1559 layout.
  - `encode` writes `maxPriorityFeePerGas` for every type but 2930, but
    `headerTxBase` counts it only for types 2 and 3.
  - `hash()` therefore runs over a malformed list. This contradicts R1.
  - `web3_header_length` with `ToZero = {FALSE}` reports this trace.

Three checks are not among the runs because of the 12-run cap. Each is a
hazard in `PROJECT.json`:

- With `SharedMutable = FALSE` (spec O3), `SerialEquivalence` fails even with
  two tokens.
- With `Mode = "Parallel"`, `RevertRestoresExisting` fails at once.
- With `Conds <- AnyCond` (the empty condition too), `RevertRestoresExisting` fails:
  a remove with an empty condition records entries already deleted, and its
  rollback revives them (delete, savepoint, delete-all, revert). No caller
  under `src/` removes with an empty condition, so `memtable_serial` draws
  from `SomeCond`.

## Bounds

- **Scheduler.** Three transactions with chunk size 1 give the smallest block
  where a chunk depends on one two places back. Chunk size 2 adds reads within
  a chunk and a partial last chunk. Two keys let a read hit or miss a write.
- **Rollbackable and MemoryTable.** 4 journal records or changes and 2 nested
  savepoints cover three cases:
  - two writes of one row inside a savepoint;
  - an inner revert followed by an outer one;
  - delete, savepoint, delete again, revert.
- **MemoryTable entries.** Up to 3 entries per key, so a row loaded from
  storage plus two inserts can be followed by a revert whose erase lands on a
  real entry.
- **Precompiled2x.** Three changes allow grant, revoke and grant of one
  address. Only an authorized origin calls: an unauthorized call returns
  before touching the cache, which adds no state (`memtable_serial` checks
  that path). Values 0
  and 1 around a minimum of 1 cover valid and invalid config values.
- **Executor.** Two frames and four journal records cover a precompile write
  inside an inner frame that reverts while the outer frame keeps. They also
  hold both of `setAccountStatus`'s rows in one frame.
  `"TX_GAS_LIMIT"` lowers onto a known key, and `"foo"` is unknown.
- **P2P.** One update of A's list, and a loss of two messages, which can be
  both halves of a `RequestTopics` exchange or a sign message. Two
  connections, so a drop and reconnect happens with handlers still running.
  With one certificate topic, the callback's read-then-set race with a
  verification already occurs. A second certificate topic adds no new case,
  and with the sign round it takes the run past 2M states.
- **TxDAG.** Four transactions over three fields give chains, two-field
  (duplicate) edges and independent transfers overtaking blocked ones. They
  also give transfers that share a field only through a third one, as in
  {a,b}, {b,c}, {c}. Three threads let two units run while a third pops. Five
  transactions do not finish within the run's time limit.
- **Web3.** The field values are 0 (encoded 0x80) and 300 (two bytes). V
  takes every branch of decode: 27/28, below 35, 35, above it, and the top
  value. Data of 0 and 56 bytes crosses the long-string header. There are 0
  or 1 access-list entries and blob hashes.

## Fairness

- **`SchedulerParallel`.** It has weak fairness on `Next`. `parallel_pipeline`
  runs every ready filter on TBB threads, and `execute` waits (`syncWait`)
  for the pipeline.
- **`TxDAG`.** It has weak fairness per thread on `Pop \/ Consume`. Each
  thread runs its loop without blocking except on `x_dag`.
- **`P2PTopicSync`.** Weak fairness holds for the timer (`HeartBeat`), for
  reconnecting (`Start`), per message for its handler, per pending read and
  callback, and per topic for the AMOP handlers' steps. The network's thread
  pool handles every message delivered, and the timer re-arms on every
  beat. A's updates, losses and disconnects are unfair, and each is bounded.
  `AmopRequestSign` is the one assumption about code outside `src/`: the
  AMOP handler resends a sign request that was lost, because the session
  itself never retries.
- **Deadlock checking.**
  - The runs that set `CHECK_DEADLOCK FALSE` model code that returns: the
    scheduler once every chunk is merged, the DAG loop once `hasFinished`
    holds, and the codec once a wire is decoded and converted or rejected.
  - `MemoryTable` and `Precompiled2x` check deadlock: a savepoint or a select
    is always possible.

## Not modelled, and why

- **Gateway routing** (`PeersRouterTable`, `GatewayNodeManager`). The
  header and the `.cpp` disagree. The `.cpp` uses `m_peersStatus`,
  `x_peersStatus` and `GatewayNodeStatus`, which `PeersRouterTable.h` does
  not declare, so it cannot be built, and nothing under `src/` calls it.
  `LocalRouterTable.h` and `GatewayNodeManager.h` are declarations only.
- **AMOP.** The AMOP handler that answers `requestRandValue` and
  `signForAmop`, the SDK side and the channel-message codec are outside
  `src/`. They appear only as environment actions of `P2PTopicSync`.
- **`P2PMessageFactory::newSeq`.** This is a 32-bit atomic counter with no
  reader in the modelled handlers; topic callbacks are matched by closure.
- **`GlobalConfigure::setVersion`.** Its second `if` has no `else`, so
  `"2.0.0-rc1"` itself falls through to LATEST_VERSION. Its only caller,
  `GlobalConfigureInitializer::initConfig`, passes a `VERSION` enum to the
  `std::string` parameter, which does not compile. `initConfig` is a one-shot
  parse into a global. No reachable state machine is left to check.
- **`DistributedRateLimiter` and the light-node transaction pool.** The
  rate limiter is a header whose bodies and Lua script are not in the
  repository. The pool's `submitTransaction` is one `co_await` on the remote
  pool's callback, which is not under `src/`. The callback sets
  `m_withReceipt`, and nothing reads it. A result with no error and no
  receipt therefore returns success and leaves the caller's receipt as it
  was. This is listed as a hazard with no property. `LightNodeRPC` stubs
  most methods, and its constructor drops the ledger it is given.
- **`executeBlock`'s epilogue.** The receipt and state roots and their
  comparison with the header are not modelled: the model does not hash
  receipts. A context-initialisation failure throws before any state
  changes, so `Init` starts after it.

Left out for good:

- `SecureInitializer` and `RocksDBStorage2`: pure I/O.
- WeDPR: crypto library calls.
- Logging and Tars hashing.
- Benchmarks, samples and tests.
- `SystemContract.h`, `TableManagerPrecompiled.h` and the `storage2`
  interfaces: declarations whose behaviour is not under `src/`.
