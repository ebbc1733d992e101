# TLA+ models of the Lido council daemon

These modules model the guardian daemon of the Lido Deposit Security Module
(DSM): the process that watches the chain and the Keys API (KAPI), signs
deposit messages for staking modules whose keys are safe, and pauses
deposits or unvets keys when they are not. Each model is written from the
TypeScript under `src/`. Code that the repository names but does not ship
under `src/` is modelled from `spec.md` and marked `spec_modelled` in
`PROJECT.json`.

## 1. The system

| Part (spec id) | Code | State | Operations |
|---|---|---|---|
| Decision cycle (C10) | `GuardianService` in `.../deposit-tree/deposit-tree.spec.ts` lines 179-497 | the `@OneAtTime` flag | cron tick, `handleNewBlock` |
| Block guard (C9) | `BlockGuardService`, not under src | `lastProcessedStateMeta` | `isNeedToProcessNewState`, `setLastProcessedStateMeta` |
| Module guard (C8, C11) | `StakingModuleGuardService`, `unnamed/part_005` | `lastContractsStateByModuleId` | `getHistoricalFrontRun`, `getFrontRunAttempts`, `handleKeysIntersections` (v2 pause), `handleCorrectKeys`, `isSameContractsStates`, `getInvalidKeys` |
| Staking router | `registry/registry.module.ts` | none | `getStakingModulesData`, `isEqualLastChangedBlockHash`, `getKeysByPubkeys` |
| Keys API client (C2) | `keys-api/keys-api.service.ts` | `cachedKeys` | `fetch` with timeout, `getKeys` cache, `getOperatorListWithModule`, `verifyMetaDataConsistency` |
| Deposit events cache (C3, C4) | `DepositRegistryService`, `unnamed/part_004` | store: cached events, `lastValidEvent`; in-memory deposit tree | `updateEventsCache`, `getAllDepositedEvents` |
| Wallet (C5) | `WalletService`, `unnamed/part_003` lines 1-234 | balance metric | `updateBalance` (`@OneAtTime`), `sign*` |
| Security contract client | `SecurityService`, not under src | pending pause tx | `pauseDeposits` (`@OneAtTime` per method), `unvetSigningKeys`, `version` |
| Message broker | `GuardianMessageService`, not under src | published messages | `sendDepositMessage`, `sendPauseMessage`, `pingMessageBroker` |
| BLS key validation (C6) | `KeysValidationService`, only its test under src | signature cache | `getInvalidKeys` |
| Deposit tree / sanity checker | only its test under src | incremental Merkle tree | `addEventGroupToIndex`, `verifyUpdatedEvents` |
| Config, metrics, wiring | `part_001`, `config.module.ts`, `guardian.module.ts` | none | none |

**How the parts interact.** Every `GUARDIAN_DEPOSIT_JOB_DURATION`, the cron
job calls `handleNewBlock`. `@OneAtTime` drops the call while an earlier one
is still running. One cycle goes through these steps:

1. It reads the operators from KAPI, pinned to KAPI's block snapshot.
2. It stops if the block guard has already seen that block.
3. It reads the keys in a second KAPI request, and throws if KAPI's
   `lastChangedBlockHash` moved between the two requests.
4. It updates the deposit cache and reads the block data at the pinned hash:
   deposit root, deposit events, DSM version, paused state and historical
   theft.
5. If theft happened, it runs the pause paths. Version 3 sends one global
   pause. Version 2 runs one `handleKeysIntersections` per module.
6. Under `Promise.all`, it runs one branch per module. The branch finds bad
   keys, unvets them, then either soft-pauses the module or calls
   `handleCorrectKeys`. That call signs and publishes a deposit message
   unless the contract state is unchanged within the re-signing window.
7. It pings the broker and records the processed block.

Any rejection goes to the catch. The flag is released, and the next tick
tries again.

**Hard behaviours.** The main ones are these:

- **Overlapping cycles.** Awaits interleave between cycles because an
  aborted `Promise.all` leaves branches running.
- **The KAPI snapshot can shift.** It may move between two requests, lag
  behind the chain, or go back to an older snapshot.
- **Steps can fail partway.** A step may fail after the state was written,
  as in `handleCorrectKeys`.
- **Pause calls are not awaited.** The v2 path makes them against a
  per-method reentrancy guard.
- **Deposit-cache chunks are written twice.** Each one goes to the
  in-memory tree and then to the store.
- **Time-outs.** A KAPI request is aborted after `FETCH_REQUEST_TIMEOUT`.

## 2. Modules

### `GuardianCycle` (with `MCGuardianCycle`)

This module models the decision cycle and the parts of
`StakingModuleGuardService` that it drives.

- **Environment.**
  - `chain` is a sequence of block records. A block holds the deposit
    root (as a count), the last-changed block of the key registry, a
    nonce per module, a per-module `bad` flag, `theft` and `paused`.
  - The `bad` flag stands for a vetted unused key that is duplicated,
    front-run or badly signed.
  - `theft` stands for a historical front-run.
  - `NewBlock` mines the guardian's pending transactions and then adds a
    deposit, a front-run or a keys operation.
  - `kapiHead` is KAPI's snapshot. `KapiSync` moves it forward, and
    `KapiRegress` moves it back at most `MaxKapiRegress` times.
- **Cycle.** `Ticks` are activations of `handleNewBlock`. `pc[t]` is the
  await that activation `t` is at. `br[t][m]` is where the `Promise.all`
  branch of module `m` is.
- **Actions.** There is one action per stretch of code between two awaits:
  - `CronTick` is the cron job together with `@OneAtTime`.
  - `GetOperatorListWithModule` includes `initCachedContracts` and the
    block guard.
  - `GetKeys` includes `isEqualLastChangedBlockHash`.
  - `CollectBlockData` covers `depositService.handleNewBlock` through the
    choice of pause path. It builds the `BlockData` record of
    `block.interface.ts` at the pinned block (block number, DSM version,
    `alreadyPausedDeposits`, `theftHappened`; hashes, addresses and the
    event group are left out). `CollectBlockDataAt` takes the pause path
    from it: `PauseV3Needed` for `pauseDepositsV3`, `PauseV2Needed` for
    `pauseDepositsV2`.
  - The pause actions are `PauseDepositsV3`, `SignPauseData`,
    `SendPauseMessage` and `PauseDepositsDone`.
  - `CheckModule` covers the front-run, invalid and duplicate filters,
    `handleUnvetting`, `canDeposit`, and `handleCorrectKeys` up to its
    first await.
  - `SignDepositData`, `SendDepositMessage` and `PingMessageBroker` (with
    `setLastProcessedStateMeta`) follow.
  - `FailAwait` is a rejection in the main flow. `FailBranch` is a
    rejection in a branch, which ends the cycle while the other branches
    keep running.
- **Abstractions.**
  - Block hashes are block numbers, so no reorganisations are modelled.
  - Key lists are the `bad` flag.
  - Signatures are a signing step.
  - Each module keeps the global `lastChangedBlockHash`.
  - On a version 2 DSM, `alreadyPausedDeposits` is false. Its body is not
    under src.

### `HistoricalFrontRun` (with `MCHistoricalFrontRun`)

This module models `getHistoricalFrontRun` and `isFirstEventEarlier` as
operators, following the code's `forEach` map through
`FoldLeft`/`SelectSeq`. `FrontRunReference` states theft directly.

- The deposit history grows in chain order, as the cache returns it.
- The set of keys that KAPI reports as Lido's changes freely.

### `KeysSnapshot` and `KeysApiClient` (with `MCKeysApiClient`)

`KeysSnapshot` is the abstract specification of what the guardian needs
from KAPI.

- `blocks[n]` is the key registry at block `n`: the module nonces, the
  used keys and the vetted keys. `NewBlock` adds a block in which nothing
  changes, a vetted key is deposited, or a key is vetted or unvetted.
- `LastChanged(n)` is KAPI's `lastChangedBlockHash`: the last block at or
  before `n` that changed the registry. It is a `RECURSIVE` operator.
- `ReadSnapshot` sets `moduleData`, the staking module data handed to the
  guardian, to the registry of one indexed block. The block may be any
  indexed block, old or new.

`KeysApiClient` is `KeysApiService` and `StakingRouterService` as
`handleNewBlock` drives them.

- **Requests.** `Fetch` arms the abort timer and `Resolved` clears it.
  `TimerFires` is `controller.abort()`, and `RequestFails` is any other
  rejection. Both end the cycle in its catch. `GetOperatorListWithModule`
  and `GetKeysByPubkeys` are fetches.
- **Cycle.** `StartCycle` sends `/v1/operators`. `OperatorsAnswered`
  takes the answer of any indexed block `n` (replicas lag and regress) and
  runs `GetKeys(n)`.
- **`GetKeys`.** It serves `cachedKeys` when the cached
  `lastChangedBlockHash` is the requested one. Otherwise it sends
  `/v1/keys`.
- **`KeysAnswered`.** This is `UpdateCachedKeys`: the answer of block `j`
  passes `VerifyMetaDataConsistency` or the cycle ends, and the cache is
  replaced only after the check.
- **`UseKeys`.** This is the rest of `handleNewBlock`:
  `isEqualLastChangedBlockHash`, then the `/v1/keys/find` lookup of
  `getHistoricalFrontRun` when there are front-run candidates, then
  `GetStakingModulesData`. The nonce and vetting in the module data come
  from the operators answer, and which keys are used comes from the keys
  answer.
- **Refinement.** The module instantiates `KeysSnapshot` with the same
  `blocks` and `moduleData`. The refinement mapping is the identity on
  those two variables; the client variables are hidden.
- **Version skew.** The `GuardianService` under `src/` still calls
  `getKeys()` with no argument. The model follows the `KeysApiService`
  signature, `getKeys(elBlockSnapshot)`, and the caller passes
  `meta.elBlockSnapshot`.

### `DepositEventsCache` (with `MCDepositEventsCache`)

This module models `DepositRegistryService` in `part_004`, together with
its store and the sanity checker's deposit tree.

- **Environment.** Which blocks hold a deposit is chosen in `Init`.
  `NewHead` and `Finalize` grow the chain. A deposit event is its block
  number, and a tree root is its sequence of leaves.
- **Update steps.**
  - `StartUpdate` covers the start of `updateEventsCache`. The finalized
    block comes from a provider that may lag, and `verifyCacheBlock`
    returns early when the cache is ahead of it.
  - `FetchChunk` is one pass of the chunk loop. It fetches the chunk, adds
    it to the tree, and then writes it with `insertEventsCacheBatch`. When
    the write fails, it throws with the chunk already in the tree.
  - `FetchFails` is `fetchEventsFallOver` rejecting.
  - `UpdateDone` is `verifyUpdatedEvents` followed by
    `insertLastValidEvent`.
- **Reads and restarts.**
  - `GetAllDepositedEvents` returns the cached events plus the fresh ones
    up to a block the guardian's provider reports. Its `isValid` is the
    root check of the tree with the fresh events added.
  - `Restart` is a daemon restart. `initialize` rebuilds the tree from the
    store.
- **Spec-modelled operations.** The sanity checker's operations
  (`AddEventGroupToIndex`, `VerifyCacheBlock`, `VerifyUpdatedEvents`,
  `VerifyFreshEvents`) follow spec section 4.4, because their code is not
  under `src/`.
- **Deployment block.** `GetCachedEvents` is `getCachedEvents`. It raises
  the cache's `endBlock` to the deployment block (the constant
  `DeploymentBlock`, which is `getDeploymentBlockByNetwork` of
  `DEPLOYMENT_BLOCK_NETWORK`). `StartUpdate` and `GetAllDepositedEvents`
  read the cache through it, as the code does. An empty store therefore
  reads as covering every block up to the deployment block, and the first
  block fetched is the one after it. `Init` puts deposits only after the
  deployment block. The contract's creation transaction emits no deposit
  event, but a deposit in a later transaction of that same block would
  never be fetched. This is listed as a hazard.
- **Left out.** Reorganisations of unfinalized blocks are left out.

### `GuardianAbstract` (checked through `MCGuardianCycle`)

This module is the abstract specification of what a guardian's broadcast
decisions promise. It has no cycles, requests or branches. One step
extends the chain or takes one decision about a block of the chain:

- `Attest(m, b)` is allowed only when deposits to `m` are safe at `b`
  (no bad key, no theft, not paused on a version 3 DSM);
- `Pause(b)` is allowed only when theft had happened at `b`;
- `Unvet(m, b)` is allowed only when `m` had a bad key at `b`;
- `Process(b)` moves the processed block forward.

`GuardianCycle` defines `Abstract == INSTANCE GuardianAbstract WITH ...`.
The mapping sends `attested`, `pausedAt` and `unvetted` to the module and
block of the published deposit, pause and unvet messages, and `processed`
to `lastProcessed`. `chain`, `Modules` and `DSMVersion` are substituted
by name. `RefinesGuardianAbstract == Abstract!Spec` is the property.

### `WalletBalance` (with `MCWalletBalance`)

This module models `WalletService` in `part_003` (lines 39-74): the
balance gauge and how it is refreshed.

- `OnModuleInit` starts `onModuleInit`: the first `updateBalance` is
  awaited.
- `BalanceAnswered` is `getBalance` answering: the gauge is set and the
  `@OneAtTime` flag released. During `onModuleInit`,
  `subscribeToEthereumUpdates` then installs the block listener.
- `BalanceFails` is `getBalance` rejecting. The flag is released. During
  `onModuleInit`, the catch also skips `subscribeToEthereumUpdates`, which
  sits in the same `try`.
- `NewBlock` is a new block. Once the listener is installed, every block
  whose number is a multiple of `WALLET_BALANCE_UPDATE_BLOCK_RATE` calls
  `updateBalance` without awaiting it. `UpdateBalance` is the
  `@OneAtTime` test: a call while one is in flight does nothing.
- `BalanceChange` is the environment: the balance (a version number)
  changes when the guardian pays for a transaction or is topped up.

The `sign*` methods change no state and are left out. Only the block
number modulo the rate matters to the listener, so the chain is a counter
modulo the rate.

### `DepositTree` (with `MCDepositTree`)

This module models the sanity checker's incremental deposit Merkle tree.
Its code (`deposit-tree.ts`) is not under `src/`, so the operators follow
spec section 4.1.

- `ZeroHashes`, `InsertNode` and `GetRoot` are `RECURSIVE` operators. A
  tree is a record of its `branch` (one node per level) and its
  `nodeCount`.
  - `InsertNode` increments the count, then climbs while the size is even.
  - `GetRoot` folds the branch with the zero hashes by the bits of the
    count, then mixes in the count.
- sha256 of two nodes is the free pair `Hash(a, b)`, so two hashes are
  equal only when their inputs are. Leaves are positive numbers, and the
  zero node is 0.
- `ReferenceRoot` is the reference: a full tree over the leaves, padded
  with zero nodes, built by the `RECURSIVE` operator `MerkleRoot`.
- The state is the index tree fed by `addEventGroupToIndex`
  (`AddToIndex`), plus the clone that `verifyFreshEvents` makes
  (`CloneTree`) and inserts fresh events into (`InsertFresh`). Each tree
  has a history variable with its leaves.
- TLA+ values are immutable, so the clone aliasing that the spec warns
  about cannot be expressed here. `formDepositNode` is hashing only and is
  left out.

## 3. Runs

| Run | Checks | Result |
|---|---|---|
| `cycle_v3` (`MCGuardianCycle_v3.cfg`) | `TypeOK`, `RefinesGuardianAbstract` | pass, 2.5M states |
| `cycle_v2` (`MCGuardianCycle_v2.cfg`) | `NoDepositOverUnsafeState`, `EventuallyProcessesHead`, `TheftLeadsToPauseMessage` on a v2 DSM | pass, 168k states |
| `deposit_order` | `DepositMessagesInBlockOrder` | violated |
| `record_before_sign` (`MCGuardianCycle_SkippedStateWasAttested.cfg`) | `SkippedStateWasAttested` | violated |
| `v2_pause_dropped` | `PauseSubmittedForEveryModule` | violated |
| `historical_front_run` (`MCHistoricalFrontRun.cfg`) | `FrontRunMatchesReference` | pass, 13k states |
| `keys_api_client` (`MCKeysApiClient.cfg`) | `GetKeysAnswersRequestedSnapshot`, `RefinesKeysSnapshot` | pass, 179k states |
| `deposit_cache` (`MCDepositEventsCache.cfg`) | `StoreIsChainPrefix` | pass, 1.8M states |
| `deposit_cache_recovery` (`MCDepositEventsCache_recovery.cfg`) | `DepositsVerifiableAgain` | violated |
| `wallet_balance` (`MCWalletBalance.cfg`) | `MetricNeverRegresses`, `MetricTracksBalance` | pass, 312 states |
| `deposit_tree` (`MCDepositTree.cfg`) | `RootMatchesReference` | pass, 65k states |
| `wallet_init_failure` (`MCWalletBalance_init_failure.cfg`) | `MetricTracksBalance` | violated |

**What the passing runs show.**

- **`NoDepositOverUnsafeState`.** Every published deposit message attests a
  block at which its module had no bad key, no theft had happened and
  deposits were not paused. This holds even though the keys and the
  operators come from two requests and the answers may lag or regress.
  It is checked in `cycle_v2`, where the per-module pause branches are
  reachable. In `cycle_v3` the refinement below already implies it.
- **`EventuallyProcessesHead`** and **`TheftLeadsToPauseMessage`.** These
  hold despite a failed await and a stuck-looking orphan branch.
- **`FrontRunMatchesReference`.** The code's first-Lido-deposit map and
  filters decide theft exactly as the direct definition does.
- **`GetKeysAnswersRequestedSnapshot`.** `getKeys` never returns keys of
  another `lastChangedBlockHash` than the one requested. This holds when
  the cache was filled in an earlier cycle by a replica that has since
  lagged or regressed.
- **`RefinesKeysSnapshot`.** The staking module data built from the two
  KAPI answers is always the registry of a single block, as
  `KeysSnapshot` promises. Two checks protect this: the `getKeys` cache
  test (with `verifyMetaDataConsistency`) and the caller's
  `isEqualLastChangedBlockHash`. We ran the model with each check
  removed in turn, and the refinement still held. Each check alone is
  enough, so the code has defence in depth. Dropping the `!key.used`
  filter of `getStakingModulesData` breaks the refinement.
- **`StoreIsChainPrefix`.** The store always holds exactly the chain's
  deposit events up to its `endBlock`, and that block is finalized. This
  holds across chunk boundaries, providers that lag, a failed fetch, a
  failed write and a restart, with the cache clamped to the deployment
  block.

- **`RefinesGuardianAbstract`.** Every deposit, pause and unvet message
  that `handleNewBlock` broadcasts is a decision `GuardianAbstract` allows
  at the message's block, and the processed block only moves forward (the
  abstract `Process` step). It therefore implies that deposit messages
  attest safe blocks, and that the block guard never moves the processed
  block back when a KAPI replica answers from an older snapshot. It also
  covers unvet messages and pauses. It holds although an unvet is
  decided on the keys answer while the message carries the operators'
  block: the `lastChangedBlockHash` check makes the two agree. The run
  uses a version 3 DSM. On a version 2 DSM with two modules and one KAPI
  regression, the same property held in a single check (3.7M states,
  3.4 minutes). That is too slow for a standing run.
- **`RootMatchesReference`.** For every sequence of up to seven leaves, in
  the index tree and in a clone, the incremental root is the full tree's
  root. This includes the counts 2 and 4, which fill a subtree.
  Because `Hash` is a free pair, equal roots then mean equal leaves,
  which is why `DepositEventsCache` may abstract a root to its leaves.
- **`MetricNeverRegresses`.** The balance gauge never goes back to an
  older balance, although the block listener does not await
  `updateBalance` and `getBalance` may reject. `@OneAtTime` keeps at most
  one call in flight.
- **`MetricTracksBalance`.** If start-up succeeds, the gauge eventually
  shows the balance once it stops changing, even after rejected refreshes.

**What the violations show** (see `findings` in `PROJECT.json`):

- **Messages out of block order.** Once a branch rejects, `@OneAtTime` no
  longer keeps cycles apart. An orphaned branch of cycle *n* publishes a
  deposit message after cycle *n+1* has published one for a newer block.
- **A skipped state that was never attested.** `SkippedStateWasAttested`
  is stated on the step itself: a `CheckModule` that leaves a branch by the
  `isSameContractsStates` return (with `canDeposit` true) needs a published
  deposit message for that state. TLC's trace shows the following.
  - In cycle 1, `handleCorrectKeys` records module m1's state and its
    signing rejects.
  - In cycle 2, at the same block, the branch finds the same state and
    skips m1.
  - No deposit message for that state was ever sent.
- **The deposit tree never recovers from a failed write.** Suppose
  `insertEventsCacheBatch` throws after `addEventGroupToIndex` has
  already added the chunk to the tree.
  - The next update resumes from the stored `endBlock` and adds the same
    chunk a second time.
  - From then on, every root check fails, and every read reports
    `isValid` false until the daemon restarts.
  - The same run with no write failure passes.

  This rests on the spec's description of `addEventGroupToIndex`, which
  inserts the events as leaves, because its code is not under `src/`. A
  failure during start-up is different: it ends in `process.exit(1)`, and
  the restart rebuilds the tree. The problem is limited to the cron cycle,
  whose catch only logs the error.
- **Only one module paused.** On a v2 DSM, the per-module pauses run
  concurrently without being awaited. The per-method `@OneAtTime` of
  `SecurityService.pauseDeposits` then submits only one module's pause
  transaction.

- **A stale balance gauge after a failed start.** `onModuleInit` awaits
  `updateBalance` and then subscribes to blocks in one `try`. If that
  first `getBalance` rejects, the catch only logs, the listener is never
  installed, and `council_daemon_account_balance` is never refreshed
  again. The spec (section 4.11) says the gauge is refreshed every
  `WALLET_BALANCE_UPDATE_BLOCK_RATE` blocks.

**Bounds.**

- **Modules and activations.** There are two modules and two activations
  of `handleNewBlock`. Two modules are enough for a sibling branch and for
  per-module pauses. The exception is `cycle_v2`, which uses one module:
  it checks liveness without symmetry, and with two modules it does not
  finish in time. `cycle_v3` covers sibling branches, and
  `v2_pause_dropped` covers two concurrent v2 pauses. Two activations are enough for one orphaned cycle to
  overlap the next.
- **`MaxBlock = 3`.** This allows a block after a change (bad key, theft or
  deposit) and a further block to re-process.
- **`ResigningBlocks = 2`.** This puts blocks 2 and 3 in the same
  re-signing window and block 1 in another, so both sides of the window
  test happen.
- **`MaxFailures = 1`.** One rejected await is enough to abort a cycle at
  any of its steps.
- **`MaxKapiRegress = 1`.** A single KAPI regression is allowed (0 in
  `cycle_v2` and the violation runs).
- **Symmetry.** The safety runs use symmetry over modules and over
  activations. `cycle_v2`, which checks liveness, does not.
- **KAPI client.** The client runs with two modules and one key each, and
  five blocks. That allows a deposit and a
  vetting change, each followed by an unchanged block, so that cache hits,
  cache misses, lagging answers and regressions all happen. One request
  failure is allowed.
- **Deposit cache.** The safety run has six blocks and the contract
  deployed at block 1, in chunks of two. A catch-up therefore starts at
  block 2 and walks up to three chunks (2-3, 4-5, 6), and a finalized block
  between chunk bounds cuts the last one short. It allows one failed
  fetch, one failed write and one restart. The recovery run has four
  blocks, the contract deployed at block 0 (as on Holesky), one failed
  write and no restart.
- **Front-run history.** `HistoricalFrontRun` uses two keys, and two blocks
  with two log indexes each. That covers every order of a foreign deposit
  before, between and after Lido deposits, in the same block and across
  blocks.

- **Deposit tree.** The tree has depth 3 (eight leaves) and holds up to
  seven leaves, which is the deposit contract's limit of 2^DEPTH - 1. Two
  leaf values are enough to make different sequences of equal length.
- **Wallet.** The pass run refreshes every third block, allows three
  balance changes and two rejected refreshes, and lets start-up succeed.
  With three changes, a slow answer could carry an older balance than a
  later call reads. The violation run allows one rejection at start-up.

**Fairness.** Weak fairness is assumed on three things:

- The cron tick, because the `CronJob` fires forever.
- Every step that completes an await, because KAPI requests are aborted on
  a timeout and RPC calls settle.
- `KapiSync`, because KAPI keeps indexing.

No fairness is assumed on the chain, on failures or on regressions: they
may stop at any time.

`KeysApiClient` assumes weak fairness only on `TimerFires`, because the
`setTimeout` callback runs once its delay has passed. KAPI answers get no
fairness, since KAPI may never answer. No liveness property of
`KeysApiClient` is checked: that every request settles would only restate
that `fetch` arms the timer, and `GuardianCycle` assumes each await settles
rather than checking it, so a request hanging for good is not examined.
`DepositEventsCache` assumes weak
fairness on the update steps: the cron job starts an update every block,
and its awaits complete or fail. Restarts get no fairness.
`WalletBalance` assumes weak fairness on `OnModuleInit` (Nest runs it),
`NewBlock` (the chain keeps producing blocks) and `BalanceAnswered` (the
node answers). Rejections get none. `GuardianAbstract` has no fairness:
the refinement is a safety property.

**Mutants.** Each property of a passing run is broken by a plausible bug in
the code it depends on:

- a branch that ignores `canDeposit`;
- a cycle end without `setLastProcessedStateMeta`;
- a version 2 pause path gated by the version 3 test;
- a first-deposit map in which the last deposit wins;
- an off-by-one in the processed block;
- a `getKeys` that always serves the cache;
- `getStakingModulesData` without the `!key.used` filter;
- a chunk end one block too late;
- theft and the pause state read at the latest block, not the pinned one;
- an `insertNode` that tests the count before the increment;
- `updateBalance` without `@OneAtTime`;
- a rejected `getBalance` that leaves the `@OneAtTime` flag set.

## 4. Not modelled, and why

Done so far:

- the KAPI cache (`KeysApiClient`), refining `KeysSnapshot`;
- the deposit events cache (`DepositEventsCache`);
- `GuardianAbstract`, which `GuardianCycle` refines;
- the wallet balance gauge (`WalletBalance`);
- the incremental deposit tree (`DepositTree`).

Start-up is not modelled. `GuardianService.onModuleInit` runs one
sequential chain: `initOrWaitCachedContracts`, the deposit and security
`initialize` calls, the chain id, `getKeysApiStatus` with its version
check, and `updateEventsCache` (of `contracts/deposit`'s
`DepositService`, whose code is not under `src/`). Only then does it call
`subscribeToModulesUpdates`. The configuration factory of
`config.module.ts` validates the environment in the same way. Any failure
in either ends in `process.exit(1)`. Neither touches state that another
component reads before it finishes. A property of them would only restate
the order of their statements. The part that does matter, rebuilding the
tree from the store before the first update, is the `Restart` step of
`DepositEventsCache`.

Left out on purpose:

- cryptography (signatures, BLS, hashing);
- the BLS validity cache of `KeysValidationService`. Its code is not under
  `src/`, and in spec section 4.6 each cached verdict is keyed by the
  exact signature and withdrawal credentials it was computed for. No
  interleaving can make a verdict stale, so a model would only restate
  that key;
- message formats and the broker transport;
- Prometheus metrics;
- configuration parsing;
- dependency-injection wiring;
- `getKeysApiStatus` and `getModules`, which only the start-up checks use;
- the environment interface, which is a type only (`BlockData` is the
  record `CollectBlockData` builds);
- reorganisations (hashes are block numbers);
- the e2e tests and their helpers.
