# TLA+ models of the Parallel USDp HyperEVM indexer

The repository indexes the logs of the Parallel USDp and sUSDp contracts into
PostgreSQL and derives public numbers (flows, yield, holders, supply) from them.
What it publishes rests on two claims: *a block range that has coverage rows was
really scanned, and what it held is stored*, and *"partial data is never presented
as complete"* (README.md:20). This project models the code that makes the first
claim (the ingestion of logs), the code that derives numbers behind it (flows,
yield, holders, snapshots) and the readers that make the second (verification,
dashboard, payload), together with the processes that run all that beside one
another. TLC checks the models on small instances, and TLAPS proves the central
properties for every instance.

Paths are relative to the repository root; the application lies under `src/`.

## 1. Inventory

| part | code | state it keeps | operations |
|---|---|---|---|
| range planning, error policy | `src/indexer/planner.ts` | none | `planBlockRange`, `reduceChunkSize`, `classifyRpcError`, `shouldRetryRpcError`, `mergeCoverage`, `coverageGaps` |
| coverage gate | `src/indexer/status.ts` | reads `indexer_coverage` | `verifyCoverage` |
| log ingestion | `src/indexer/service.ts` | `blocks`, `raw_logs`, `protocol_events`, `indexer_coverage`, `indexer_checkpoints`, `indexer_runs`; in memory: next block, chunk size, batch in flight | `ingestLogs`, `fetchLogsWithPolicy`, `persistChunk`, `insertBlocks`, `updateRun` |
| seven-day worker | `src/indexer/worker.ts` | advisory lock 999700001, retry loop | `runSevenDayWorker` |
| CLI | `src/cli.ts` | none of its own | `backfill`, `seven-day-backfill`, `sync`; `derive-flows`, `lifetime-backfill`, `holders-replay`, `verify`, `snapshot-all` and others |
| provider failover | `src/rpc/provider-failover.ts` | index of the provider | `runWithProviderFailover` |
| savings history lane | `src/analytics/savings-history.ts`, `src/workers/hyperevm-history.ts` | lock per chain and scope, copied coverage rows | `runSavingsHistoryRange`, `reuseSavingsHistoryCoverage`, `deriveSavingsHistoryFromCompleteCoverage` |
| flow analytics | `src/analytics/service.ts`, `economic-events.ts` | `economic_events`, `flow_aggregates` | `rebuildFlowAnalytics` |
| yield, reconciliation | `multichain-yield.ts`, `yield-reconciliation.ts`, `savings-math.ts` | `savings_yield_aggregates` | `calculateSavingsYieldForRange`, `reconcileSavingsYield`, `aggregateSavingsYieldComponents` |
| lifetime lane, holders | `src/analytics/lifetime-activity.ts`, `holders.ts` | `holder_balances`, `asset_activity_aggregates` | `runLifetimeActivityRange`, `rebuildHolderLedger` |
| range analytics | `range-analytics.ts` | none | `aggregateContiguousYieldIntervals`, `latestCoverage` |
| snapshots | `multichain-snapshots.ts`, `usdp-supply.ts`, `multichain-worker.ts` | snapshot tables, advisory lock 999700002 | capture, aggregate, publish |
| verification, readiness | `src/verification`, `dashboard-readiness.ts`, `chain-detail.ts` | verification rows | `runVerificationSuite`, publication status |
| read side | `src/integration/stablewatch.ts`, `*-queries.ts`, `src/app` | none | SQL reads, payload, pages |
| registry, discovery, configuration | `src/protocol`, `src/config`, `src/db` | static addresses, schema | lookups, one-off checks |

**How they interact.** The web process starts the seven-day worker
(`src/instrumentation.ts`); workers and the CLI call `ingestLogs`, which talks to an
RPC provider and to PostgreSQL and takes no lock. Analytics never talk to the
ingesters: they read the tables, after `verifyCoverage` said that the range has no
gap. Readers look at whatever rows are there. All interaction between processes
therefore goes through the tables, the advisory locks and the chain, which moves
meanwhile.

**What is hard.** (a) Any number of processes may ingest one scope, die between any
two statements and start again. (b) The requests of a batch run concurrently and
shrink on their own, so answers can leave holes. (c) The chain reorganises between a
log request, the header request of the same block, and the anchor. (d) A commit may
take effect although its caller never hears so. (e) A dead process keeps its lock for
a while. (f) Rate limits, quotas, ranges that are too long and plain failures are
treated differently, some of them for ever. (g) Gate, read and transaction of every
derivation are statements of their own, beside lanes that go on writing. (h) Rows of
several ranges, manifests and cycles lie side by side, and readers pick among them
by age or by reach. (i) Snapshots of chains succeed, fail and grow old one by one.

The list of `hazards` in `PROJECT.json` names each danger at its line, with the
properties that would catch it, or the reason why none does.

## 2. Modules

| module | models | role |
|---|---|---|
| `BlockRanges` | the pure part of `planner.ts` | operators |
| `CoverageGaps` | `verifyCoverage` with `mergeCoverage`, `coverageGaps` | one step per loop iteration |
| `FinalizedChain` | the chain, as the indexer sees it (external) | `Mine`, `Finalize`, `Reorg` |
| `Ingestion` | `ingestLogs` by any number of processes | extends the two above |
| `EvidenceLog` | what ingestion promises to its readers | abstract: one action, `Commit` |
| `SevenDayWorker` | `runSevenDayWorker` and the ingesting commands around `Ingestion` | extends `Ingestion` |
| `FlowAnalytics` | `economic-events.ts`: meaning and buckets of events | operators |
| `SavingsHistory` | the savings-history lanes, `derive-flows`, `history-reconcile` | extends `FlowAnalytics` |
| `ExactIntervals` | what the derivation of intervals promises | abstract |
| `SavingsMath` | `savings-math.ts` | operators |
| `RateWindow` | derivation, integration and verdict of one interval | one step per event |
| `Transfers` | transfers and what they add up to | operators |
| `HolderReplay` | `replayHolderTransfers` | one step per transfer |
| `HolderLedger` | `rebuildHolderLedger`, the lifetime lane, `holders-replay`, `latestCoverage` | extends `Transfers` |
| `Verification` | the command `verify` beside the ledger | extends `HolderLedger` |
| `Publication` | a page of the dashboard, its statements beside the ledger | extends `HolderLedger` |
| `RangeYield` | `aggregateContiguousYieldIntervals` | one step per interval |
| `ChainComponents` | rows that sum components of chains, and their age | operators |
| `SnapshotWorker` | the savings cycle, its worker and `snapshot-all` | extends `ChainComponents` |
| `SupplySnapshot` | `captureGlobalUsdpSupply` | extends `ChainComponents` |
| `AssetPayload` | `stablewatch.ts`: what the payload calls available | extends the two above |
| `MC*` | instances for TLC | |
| `*Proofs` | theorems and proofs | |
| `SumTheorems` | sums over finite sets | lemmas for the proofs |

Three abstractions tie the parts together. `Ingestion` implements `EvidenceLog`
(`covered <- BlocksIn(coverage)`, `recorded <- RecordedLogs`): the modules of the
derivations use of ingestion only that, a covered block has its evidence, and
evidence stays. `SavingsHistory` implements `ExactIntervals`: who reads derived
intervals needs to know nothing of lanes. `HolderReplay` shows that the loop of a
replay computes the net of its transfers, `RateWindow` that a verdict "verified"
means the true yield; `HolderLedger` and `SavingsHistory` use these results for the
loops.

An operator or definition whose comment says *Fault* is the form that a plausible
mistake would give to its neighbour. No action uses one; `PROJECT.json` lists them
(`mutants`), and with any of them in place of its neighbour TLC finds the property
violated, so that no property holds for lack of content.

### Ingestion and SevenDayWorker

| code | model |
|---|---|
| lines 572-626 of `service.ts`: finalised head, checkpoint, anchor check, no-op | `Refuse`, `NoOp`, and the guard of `Start` |
| 628-634: the run row | `Start` |
| 649-688: plan a batch, start all requests | `Plan` (`Batch`, `NewSlot`) |
| `fetchLogsWithPolicy` | `FetchAnswers`, `FetchShrinks`, `FetchRetries`, `FetchGivesUp`, `FetchInterrupted`, for each slot on its own |
| 690-733: await the next slot, headers, anchor | `ReadHeaders`, `ReadAnchor`, `BatchError`, `HeaderError` |
| `persistChunk` | `Persist`, `PersistUnacknowledged` (committed, answer lost), `PersistError` |
| 755-758: run row, next slot, or leave the batch | `NextSlot`, `EndBatch`, `UpdateError` |
| 760-771 | `Complete`, `Interrupt`, `Throw` |
| SIGTERM; death of the process | `Abort`; `Crash` |
| `worker.ts`: lock loop, sweep of stale run rows, window | `Acquire`, `RetryLock`, `GiveUpLock`; `Sweep`; `ResolveWindow`, `Call` |
| catch or return, signal, finally | `Recover`, `LeaveLoop`; `StopRetrying`; `Unlock` |
| death; PostgreSQL ends the dead session; a command beside it | `WorkerCrash`; `SessionEnds`; `CLIStep` |

Each action is a stretch of code between two awaits whose result other processes
can influence, or one transaction. A block holds at most one tracked log, so a log is
named by its block; a hash is 0 or 1 (the block, or its replacement); a run row is
the status of the latest row of each ingester, and `orphaned` says that an older row
still says running.

### SavingsHistory

| code | model |
|---|---|
| `runSavingsHistoryRange`: advisory lock of chain and scope; its statement throws | `Lock`, `Busy`; `LockFails` |
| `captureSavingsChainSnapshot` at both ends | `StartSnapshot`, `EndSnapshot`, `CaptureFails` |
| `ingestLogs` under `runWithProviderFailover` | `IngestChunk`, `Ingested`, `QuotaExhausted`, `IngestFails` |
| `reuseSavingsHistoryCoverage`: gate, copy, gate | `SourceGate`, `CopyCoverage`, `TargetGate` |
| `rebuildFlowAnalytics`: gate, read, transaction | `FlowGate`, `FlowRead`, `FlowStore`, `FlowRollback` |
| `calculateSavingsYieldForRange`: gate, sum, insert | `YieldGate`, `ReadAccrued`, `InsertYield` |
| finally; a failing unlock | `Unlock`; `UnlockFails` |
| `reconcileSavingsYield` behind the lane, or as a command | `Reconcile` |
| the seven-day worker and the lifetime lane on their scopes | `Background` |

Five commands (`backfill`, `worker`, `align`, `lifetime`, `flows`) and `reconcile` are
one process type; a command decides which actions it takes. A lock or unlock statement
that throws leaves the process waiting in `pool.end()` (`pc = "hung"`), since the
client was never released.

### Holders, verification, publication

| code | model |
|---|---|
| `replayHolderTransfers` | `HolderReplay`: `Replay`, `Reject` |
| `backfillLifetimeActivity`: goals resolved and capped | `Resolve` (`Goal`) |
| `runLifetimeActivityRange`: lock, ingestion and flows, unlock | `Lock`, `Busy`, `Ingest`, `IngestPartly`, `Unlock` |
| `holders-replay` | `StartReplay` |
| `rebuildHolderLedger`: gate; transfers read and replayed; transaction | `Gate`; `Read`, `Refuse`; `Store`, `Rollback` |
| `latestCoverage` | `Latest`, `CurrentHolders` |
| `runVerificationSuite`: the suite of queries, on connections of their own | `StartVerify`, `Query` (one for each statement) |
| `readEventTotals`, `readDirectUnderlyingNet` | `Declared`, `Direct`, `DirectNet` |
| `evaluators.ts` | `Checks`, `Findings`, `Status` |
| `persistVerification`; an error | `Persist`; `VerifyFails` |
| `readLifetimeDashboard`: statements sent at once | `ReadCheckpoint`, `ReadActivity` (`NextBlock`, `Furthest`) |
| the same, behind `Promise.all` | `PublicationStatus`, `PublishedAssets`, `Progress` |
| `readChainHolders`, awaited later | `ShowHolders` (`HoldersListed`), `ShowUnavailable` |
| a page is requested, left, or fails | `OpenPage`, `ClosePage` |

A page decides from what its first two statements found, each at a moment of its own,
and asks for the holders afterwards, while lanes and commands go on writing
(`page.found`).

A verification adds up what the vault's own events say it gained (`VaultEvents`:
`Deposit`, `Withdraw`, `Accrued`) and those transfers to and from the vault whose
transaction holds no event of the vault (`Transaction` gives each transfer's hash), and
compares the sum with the vault's balances at both ends. `Circumstances` are what the
tables and RPCs that are not modelled say to it: snapshots at the ends,
`convertToAssets` of the whole supply, rate and yield, price, decoding, implementation
(the same, unknown, upgraded), age, failed and retried runs.

### Snapshots and payload

| code | model |
|---|---|
| `multichain-worker.ts`: lock, loop, finally | `TryLock`, `Interrupted`, `Leave`, `EndOfCycle`, `CycleFails` |
| `captureConfiguredSavingsSnapshots` | `SyncRegistry`, `Capture`, `CaptureFails` |
| history lane inserting an older or newer block | `CaptureBoundary` |
| `aggregateSavingsComponents`, insert | `Aggregate` (`SavingsRow`), `StoreSavings` |
| `captureGlobalUsdpSupply`, `runWithSupplyRpcFailover` | `StartSupply`, `CaptureSupply`, `CaptureSupplyFails`, `AggregateSupply`, `StoreSupply`, `SupplyFails` |
| the clock | `Tick`, `SupplyTick` |
| `readLatestGlobal…` (last `as_of`, freshness) | `Latest`, `Shown` |
| `stablewatch.ts` | `TvlUsdp`, `TvlUsdEstimate`, `EstimatedApy`, `GlobalUsdpSupply`, `YpoSevenDay`, `YpoAllTime`, `PayloadStatus` |

A block is known by its age and time passes by everything growing older; ages of
`Horizon` and more are too old for every purpose and are not told apart, so that
neither the time nor the number of cycles needs a bound.

## 3. Runs

| run | question | instance |
|---|---|---|
| `algorithms` | are the sequential algorithms right on every small input? | gate: every set of up to 4 rows on 5 blocks, every query; replay: every history of up to 4 transfers, 2 holders and the zero address, amounts 0 and 1; yield interval: every behaviour of the vault in 2 blocks and up to 6 events, rate unit 4, one lost event, shared timestamps; choice: every set of up to 3 intervals on times 0-5, every window, tolerance 1 |
| `ingestion_finality` | can a fork's hash get into the tables? | 1 ingester, head 3 then 4, reorganisations of 2 blocks, finalised tag, chunks of 3 shrinking to 2 and 1, every error class, signal |
| `worker_locked` | does the lock do its work? | 2 web processes, 2 crashes, 2 attempts, a window that slides by one block between restarts |
| `worker_liveness` | does a worker return? | 1 worker, 1 crash, signal, rate limits retried for ever, quota errors, short chunks, reorganisations |
| `worker_mixed` | what survives without the lock? | a worker and a command that may be signalled, different windows, short chunks, lost commit answers |
| `savings_history` | are derived intervals exact, and do lanes end? | 3 blocks with 7 events, a scanning worker or `derive-flows` beside `align` or `lifetime`, ranges 1-2 and 1-3, two providers with chunks of 2 and 1, 2 commands started |
| `holder_ledger` | what do the ledger and its readers guarantee? | 4 blocks with 8 transfers (mint, all of it withdrawn, a deposit with a plain payment in its transaction and a mint, then a payment beside no event, interest and a burn); either 2 lanes, a cap and `holders-replay` of any range, or one lane and a verification whose statements fall anywhere, or a lane and `holders-replay` in turn and a page whose statements fall anywhere |
| `snapshots` | is what readers see complete, current and monotone, and does a worker go on? | 2 processes (2 workers, or a worker and a command), 2 chains, `MaxAge` 1, `Horizon` 2, skew 0, 2 URLs, 2 lock attempts; the savings cycle or the supply cycle, which share no table |
| `worker_cli`, `range_yield_overhang`, `dashboard_flows`, `dashboard_published` | statements of the repository that do not hold | below |

Why the bounds are enough. Chunks are contiguous, and a batch of two slots already
has a slot behind a short one. Two processes interleave in every way the shared rows
can tell, since rows do not name their writers. Three intervals are the least of which
two overlap and one leaves a gap; four transfers let a holder leave and return. Two
chains are one that succeeds and one that does not; a `MaxAge` of one tick
separates young, old and too old. `MaxStarts` bounds the commands of `savings_history`, since
a third adds no table that two do not share; `verify` gives one verdict per
behaviour, since a second overwrites the first. Beside a page one process works at a time:
a page reads what was committed, so that it can tell only the order of the commits. Of the three
ranges `verify` is asked for, one holds the payment in a deposit's transaction, which no
statement counts.

What the properties say:

* `GateIsExact`, `GapsAreMaximal`: the gaps `verifyCoverage` returns are the
  uncovered blocks, in as few pieces as possible, whatever the overlap of the rows.
* `BalancesAreNets`, `HoldersCountedOnce`, `RefusedIfOverdrawn`: the replay agrees with
  definitions that know no order, transfers to oneself and of nothing included.
* `VerifiedMeansEarned`: no interval is verified with a wrong yield, although the
  verdict compares state and sums, not the yield, and although blocks of one second
  are integrated out of order. `TrueHistoryVerified`: with all evidence and distinct
  times the verdict is "verified". `TrueHistoryHasNoDelta`: and the integration then
  arrives at the stored yield itself.
* `NothingCountedTwice`, `CompleteMeansCovered`: the greedy choice of intervals
  reports a yield of the window only if the chosen ones account for it, once.
* `EvidenceBehindCoverage`: each log in a covered range is stored with the final
  hash, next to its block, decoded if it can be. In `savings_history` it says the same of
  every scope, the coverage that was copied and cut included.
* `CheckpointBacked`: the checkpoint follows a committed chunk and its anchor is a
  final block's; hence `Checkpoint hash drift` is never raised by honest providers.
* `ImplementsEvidenceLog`: evidence grows by whole ranges and never shrinks.
* `AtMostOneScanner`, `InterruptedMeansStopped`, `NoBlockScannedTwice`,
  `CheckpointAdvances`, `FinishedMeansCovered`: what the lock buys. The last three fail
  without it (two unlocked ingesters may move the checkpoint back, or past blocks that
  nobody scanned), which is why `worker_locked` checks them.
* `ImplementsExactIntervals`, `EconomicMatchesFlows`, `ScansGoForward`: a derived range has
  no numbers or the final chain's; the two tables of a rebuild agree although the last
  rebuild owns an event; no restart or provider change makes a lane scan backwards.
* `RowsAreHonest`: whoever writes, a row is the net of all transfers in the range it
  names. `LedgerIsOneReplay`, `CurrentHoldersAtCoverageEnd`: as long as stored ranges start at
  the deployment and do not go back, the ledger is one replay and counts the right
  holders.
* `FailuresExplained`, `PassMeansCovered`: a verification of true data fails only for a
  reason (a gap, a checkpoint that is not at the end of the range, other evidence that is
  bad by itself, a ledger out of order, tables written between its statements,
  or a transaction whose vault events do not say what the vault gained), and
  a verdict that is no failure is one on covered blocks.
* `PublishedMeansCovered`: a chain that a page shows as published is covered to the goal,
  its number of holders is the true one at the goal, and its list of holders is the
  true one at the end of a stored range that reaches the goal. This range may be a later
  one than that of the number, for the list is read last.
* `OneWorkerCycles`, `SumsComplete`, `SupplyChainsNamed`, `SupplyAligned`, `SumsGoForward`,
  `AvailableMeansWhole`: one worker in its loop; a sum shown as complete has a valid and
  recent component of every chain; no chain vanishes from the supply; its blocks lie
  within twice the skew; later sums replace earlier ones whoever inserts last; and
  a headline number that the payload calls available (TVL, its estimate, APY, supply
  and both YPO) stands on all that it asks for, although components grow old
  without a write.
* `WorkerReturns`, `LanesReturn`, `KeepsPublishing`: see fairness.

The runs of systems that never stop (`ingestion_finality`, `worker_mixed`, `worker_cli`,
`holder_ledger`, `snapshots`) check for deadlock as well. The others switch that check off
because the system really ends: every loop has finished, every worker has returned,
or all commands of the bound have run.

### Statements that do not hold

* `worker_cli`. README.md:116-118 says that an advisory lock keeps the web process, the
  CLI and the dedicated worker from scanning one scope together. `backfill`,
  `seven-day-backfill` and `sync` call `ingestLogs` with no lock (`src/cli.ts:249`).
  `worker_mixed` and the proofs show that the evidence is unharmed.
* `range_yield_overhang`. docs/methodology.md:44-45 says that YPO spans intervals "only when
  they tile the full requested window". The last interval may go on behind the window
  and is summed whole.
* `dashboard_flows`. The dashboard sums the daily rows of a chain's interval grouped by
  chain and range only, and both `derive-flows` and a history lane store rows of one
  range, under different manifests: each deposit then counts twice.
* `dashboard_published`. The dashboard takes of each asset the one activity row that
  reaches furthest and drops it unless it ends at the goal. Once a lane without
  `--to-block` has stored a later range, a published chain is "deriving" for good, which
  is not what docs/reviewer-runbook.md:38-41 says the words mean.

Two more disagreements have no run.

* docs/stablewatch-integration-handoff.md:30 calls TVL the sum over the five official
  chains, and the payload calls it available when the row of the sum exists, partial or
  not (`src/integration/stablewatch.ts:211`).
* docs/metric-contract.md:52-54 wants "zero unexplained reconciliation delta" before a
  result is displayed, and the verdict looks at the state at the end only
  (`src/analytics/yield-reconciliation.ts:330`; `ypoExact` picks the reason). Since the
  events are sorted by time and log index (lines 66-70), three blocks are enough for a
  difference: two of one second, each of which updates the rate, are integrated out of
  order, the state at the end is right, and the integrated yield is not the stored one.
  The yield that is published is right all the same (`VerdictIsEarned`), and with
  distinct timestamps there is no delta (`TrueHistoryNoDelta`).

### Premises worth knowing

* A page that calls a chain published may show the holders of a later block than its
  number of holders, when a lane stores a range behind the goal between the statements
  (`src/analytics/chain-detail.ts:35` runs after `readLifetimeDashboard` was awaited), and
  its checkpoint may be older than its activity rows.
* A transfer to the vault in a transaction that also has an event of the vault is in no
  sum of `verify`: `readDirectUnderlyingNet` leaves the transaction out
  (`src/verification/service.ts:203-209`) and the events do not mention it. The check of
  the underlying then fails on true data (`Undeclared`).
* `ingestion_finality` has one ingester. What two of them do to one another is the
  subject of `worker_mixed` and of the proofs, which allow any number. `worker_locked` has no
  command, so its sweep meets the rows of dead processes only.
* `InterruptedMeansStopped` with workers alone. The sweep takes every running row of
  the chain, so beside a command it writes "Previous worker stopped ..."
  (`src/indexer/worker.ts:59`) over the row of a live call.
* The properties of the ledger as one replay hold while the history variable `ordered`
  is true: every stored range started at the deployment and reached as far as those
  before. A capped goal, a second lane whose goal was resolved earlier, and
  `holders-replay --from-block` make it false, and then rows of two replays stand side
  by side. README.md:152 asks for one lane at a time; theorem `OneLaneInOrder` shows
  that this is enough.
* Nothing is promised when a yield is withheld: of the intervals that start together the
  longest is taken and never given back, so `contiguous_yield_intervals_missing` may be
  reported of a window that two stored intervals tile.
* `ImplementsExactIntervals` promises the savings flows, not those of the Parallelizer: a
  savings scope does not ask for its logs.

## 4. Fairness

`WorkerReturns` is checked under `FairWorkerSpec`. Weak fairness of the worker's own
steps, of the steps inside a call and of `SessionEnds` says that timers fire, that the
event loop runs callbacks that are ready, and that PostgreSQL ends the session of a
dead client (TCP keepalive). Strong fairness of the successful outcomes (an answer, a
shrunk request, headers, the anchor, the commit, a call let in) says that what is
retried for ever succeeds now and then; without it a provider that always answers
"429" keeps the worker for ever, as the code intends. It is asked of the first slot
only, since the slots behind it move up.

`LanesReturn` is checked under `FairSpec` of `SavingsHistory`: weak fairness of a lane's
steps, successes and failures alike (requests have timeouts, statements return or
throw), and of `SessionEnds`. No success is assumed: a lane ends because nothing it
does is repeated for ever. The exception, a lock or unlock statement that throws, is
part of the property ("hung").

`KeepsPublishing` is checked under weak fairness of the steps of a cycle and of
`SessionEnds`. It says of a worker that stays in its loop that it publishes again and
again, or that the cycle as a whole fails again and again (the database); chains
that never answer cannot stop it.

Nothing is assumed of mining, reorganisations, signals, crashes, time and commands.

## 5. Proofs

TLAPS checks the proofs for every value of the constants, under the assumptions named
in the modules (`ChainAssumption`, `IngestionAssumption`, `WorkerAssumption`,
`LedgerAssumption`, `AgeAssumption`, `CycleAssumption`, `SupplyAssumption`,
`PayloadAssumption` and others). The one that carries weight: a chain read by a
confirmation lag reorganises no deeper than the lag; a chain read by the finalised tag
needs nothing.

`CoverageGapsProofs`: `TypeCorrect`, `CoverageGateExact`, `GapsMaximal`. The
invariant says of the merge loop that the merged ranges are increasing, do not
touch, and together with the rows still to come cover what the selected rows cover;
and of the scan loop that the gaps so far are the uncovered blocks below the cursor.

`IngestionProofs`: `TypeCorrect`, `EvidenceSound`, `CheckpointSound`, `Refinement`.
`EvidenceBehindCoverage` is not inductive: that a coverage row is backed when it is
written depends on what the call read earlier. `IInv` adds

* `CallsOK`: all a call plans to touch lies at or below the finalised block; the
  logs in a slot carry the hashes the chain has now, and the headers read for a
  chunk are those of its logs. This is the idea of the whole proof: below the
  finalised block hashes do not change, so logs read now and headers read later agree;
* `StoredOK`: a stored hash is final, and a stored log has its block row and its
  event. It makes "do nothing on conflict" harmless: the row that is there already is
  the row that would have been written;
* `CoveredOK`: the logs of a covered range are stored.

The step proof has one lemma per group of actions; `OnlyCommits` and
`CommitRefines` show that the two committing actions are `Commit` steps of `EvidenceLog`
and everything else a stutter.

For the workers the same module proves `WorkerTypeCorrect`, `WorkerEvidenceSound`,
`WorkersRefine`, `LockExcludes`, `SweepTakesOnlyTheDead`, `LockScansOnce`,
`CheckpointOnlyAdvances` and `FinishedIsCovered`. The first three hold with commands that
take no lock beside the workers. `LockInv` says that at most one session holds the lock,
that a worker between lock and unlock has a held session, and that a worker is inside
`ingestLogs` only then; from it follow the next two. The last three need `ScanInv`,
which relates the window, the checkpoint and the coverage rows of all windows so far:

* `Behind`: no coverage row reaches the checkpoint, so a chunk that starts there touches
  no row;
* `Scan`: from where a window resolved now would start up to the checkpoint nothing is
  missing. The window only slides forward (`WindowSlides`), so this stays true while the
  chain grows;
* `Chained`: the slots of a batch join one another and start at the next block to store;
* `WindowOK`: a worker's window starts no later than one resolved now would, what its call
  went over is covered, and its next block is not before the checkpoint.

It survives a commit whose answer is lost, because the next call starts from the
checkpoint that was stored with the chunk. The theorems from `LockExcludes` on assume `CLI = {}`:
nobody but workers ingests. `worker_cli` shows that the first of them needs it, and TLC
refutes `NoBlockScannedTwice`, `CheckpointAdvances` and `FinishedMeansCovered` without it.

`HolderLedgerProofs`: `TypeCorrect`, `HonestRows`, `OneReplay`, `HoldersAtCoverageEnd`,
`OneLaneInOrder`. For `HonestRows` the invariant `Inv` follows each job: behind the gate its
range is covered, so what it reads is all there is, and what it is about to store is
the replay of the final chain; it makes no use of the lock. `OrderInv` adds that an
ordered ledger is the replay that reaches furthest (`LastReplay`): a longer replay names
everyone whom a shorter one names, hence replaces all its rows. `LaneInv` adds that
nothing stored reaches further than the goal of a job that may still store, which
makes one uncapped lane ordered. That the loop computes the nets is the business of
`HolderReplayProofs`.

Of the readers the same module proves `PublishedIsCovered`, `VerdictIsBacked` and
`FailuresHaveReasons`. Readers rely on tables that
only grow (`Backed`: what is stored lies within what is covered, and a row of the
ledger goes back to a stored range). For a page the invariant (`PageInv`, of it
`FoundOK`) says of each statement what its answer still means afterwards: a checkpoint
that was found is not ahead of what is covered, an activity row that was found is
stored, and a row at the goal counts the holders at the goal (`GoalRowIsTrue`), however old the
answers are; the holders that were found are those at the end of some stored range
behind the row (`ListedAreHolders`), as long as replays did not go back. For a
verification (`SeenOK`, `ReportOK`) it says that what a statement saw of the coverage
and of the ledger's reach is still true when the verdict is given, in whichever order the
statements ran.

`FailuresHaveReasons` (`FailuresExplained`) is about all checks of a verification at once:
on true data no check fails without a reason. `Fresh` says that what was read while
nothing was written is what the tables still say. What remains is arithmetic. A sum of
transfers up to the end of a range is the sum before it and the sum in it, and the balances
of all holders add up to what was minted and not burned (`BalancesAreSupply`: summed by
receiver or by sender, the transfers add up to the same, but for the zero address).
The vault's balance is accounted for transaction by transaction: what the events of the
range declare is the sum over their transactions (`DeclaredAddsUp`,
`TransactionsAddUp`), each of which declares what its transfers bring unless it is a reason
(`Undeclared`); a transaction of the range has all its events and transfers in the range
(`TransactionsOfRange`, from the assumption that a transaction is part of one block); and
the transfers of all others are the direct ones, which add up to their net unless the vault
pays itself (`DirectIsNet`); together they are the change of the balance (`UnderlyingMatches`).
TLC reaches the first reason, the second only the proof. It needs finite sets of transfers
and events and queried ranges that are not empty (`LedgerAssumption`,
`VerificationAssumption`): for an empty one `coverageGaps` throws
(`src/indexer/planner.ts:118`), so that it gets no verdict.

`HolderReplayProofs`: `BalancesAlwaysNets`, `RefusesExactlyOverdrawn`,
`HoldersAlwaysCountedOnce`, for every set of finite histories (`HistoriesAssumption`). The
invariant says that the transfers replayed precede the others, that each address named
so far has a row (`Settled`) whose balance is its net, whose first block is the least in
which its net was above zero, and that nobody replayed so far was short of funds. The
step is about one transfer entering the sums (`NetAdd`), with the cases of a transfer
to oneself and of nothing, for which the receiver's row has to be read after the
sender's was written.

`SumTheorems` is what all these sums rest on: a finite set has a sum, one more element
adds its value, a sum splits over a partition and is monotone. A theorem by induction that
takes an operator cannot be used, so each of them is shown by a smallest
counterexample (`WFMin` over the strict subsets of a finite set): were there a set
without the property, there would be a least one, and an element less would be a smaller
one.

`SnapshotProofs`: `LockExcludes`, `TypeCorrect`, `CompleteSums`, `ChainsNamed`,
`SupplyIsAligned`, `WholePayload`, `ForwardSums`. The invariant of a row (`SumOK`) says
that it includes valid components of the expected chains and that "complete" means all
of them; growing older keeps it. `CallOK` adds of a supply call that a chain is waited
for, or was read, or has failed, and no two of these, and `Aligned` that what is included
lies within twice the skew as long as its age is known. `WorkerInv` says that a worker
in its loop holds the lock.

`SavingsHistoryProofs`: `EvidenceSound`, `ScansForward`, `Refinement`. `EvidenceBehindCoverage`
is inductive: a chunk brings its logs, and a copied row is a part of one of the lifetime
scope, which asks for more. The refinement of `ExactIntervals` is not, since what a lane
stores it has read earlier; `Inv` adds `JobOK`, which follows a lane from gate to write:

* behind a gate all events of the vault in its range are stored, of whichever scope the
  coverage is, because every scope asks for the vault's logs (`VaultInRoles`). Events are
  never deleted, so this stays true whatever the other lanes do;
* what it has read contains the vault's events of the final chain, and the savings rows
  of a set of events depend on these alone (`RowsOfVaults`); the interest it has read
  gives the vault's yield (`AccruedIsEarned`);
* a lane that goes on to reconcile its own range has stored the yield of it.

It makes no use of the lock: that several lanes may derive one range at a time is why
`InsertYield` and `FlowStore` have to be harmless when repeated.

`TablesAgree` (`EconomicMatchesFlows`) has an invariant of its own, `RowsOK`: an economic row
says what its event means, and the savings rows of a range are those of the final
chain's events in it, each of which has its economic row. A later rebuild may take an
event over but not change what it means. That rows of an hour or a day add up to the
events they bucket is a sum by groups (`SumOfGroups`).

`YieldProofs`: `ChoiceTypeCorrect`, `CountedOnce`, `ReportedIsCovered`; `VerdictIsEarned`,
`TrueHistoryIsVerified`, `TrueHistoryNoDelta`. The invariant of the choice among intervals
says that the cursor is the end of the last selected interval, that all of them lie between
the window's start and the cursor, and that up to the cursor nothing is left out.

For one interval `WindowInv` relates the vault, its events and what was derived: what
the vault holds is what it held at the start, with the interest and deposits of the events and
without the withdrawals, and a fold over the events seen keeps the balance as the sum of what
it has taken. If balance and interest agree at the end, the events that are missing have
no effect on the yield; it does not matter in which order the others came.
`VerdictIsEarned` assumes `MaxLost <= 1`, which cannot be weakened: of two lost events,
an accrual and a withdrawal of the same value, nothing shows. `History` is the
stronger invariant of a true history: behind each event the locals of the loop are the
vault's state behind that event, hence each predicted interest is the emitted one, no
withdrawal is refused, and the integrated yield is the stored one.

Every invariant and every action property of the passing runs is stated by a theorem.
Only model-checked are

* `WorkerReturns`, `LanesReturn`, `KeepsPublishing`: liveness under fairness is out of the
  prover's reach;
* the counterexamples of the statements that do not hold, which need no proof.

## 6. Not modelled

* One chain and one scope in `Ingestion`. The scopes of a chain share `blocks` and
  `raw_logs` but track different addresses; that is part of `SavingsHistory`.
* The provider is honest: it answers a range with all its logs, and its answers are of
  the chain at that moment. `ingestLogs` never compares the block hash of a log with
  the header it reads, so nothing in the code would notice a provider that lags.
* The reads on entry of `ingestLogs` (head, checkpoint, anchor) are one step. What they
  return is used later, when it may be stale; between one another they are not
  interleaved.
* After a short chunk, and after an error, requests of the batch that are still in
  flight are dropped; the code lets them run and ignores what they return.
* `insertBlocks` looks before it inserts; the two statements are one step. Two
  transactions that insert the same header conflict on the primary key, which the
  code meets with a failed transaction (`PersistError`).
* A commit of a process whose session has ended does not arrive later, and a lock
  session does not vanish under a process that is alive.
* `SavingsHistory` has one chain whose blocks are all final, ingests a chunk at a time
  and sees a verdict through what `RateWindow` guarantees.
* Several chains in one lifetime command, and ledger rows of two assets: no key mixes
  them. `verify` is modelled on the scope of the lifetime lane, with one history for
  both tokens.
* Captures: what a chain answers is a component, chosen among a few; the calls that make
  it up, hash comparisons and metadata are in the outcome "fails" or "not valid".
* The race of two upserts of one global yield (`multichain-yield.ts:214`): the next
  derivation repairs it. Which of several derived intervals a reconciliation picks
  (`yield-reconciliation.ts:215`).
* The payload's details: the supply held on savings chains
  (`src/integration/stablewatch.ts:445-454`) and the breakdown by chain (line 494) stay
  available when the savings row is stale; `AvailableMeansWhole` is about the headlines.
* The statements of a page on flows and lifetime yield: they show further numbers and
  decide nothing about the publication.
* `analytics/snapshots.ts` (the older snapshot of one chain), `yield.ts` and the queries of
  history and supply that select and format rows; the sums over event windows in
  range analytics.
* Registry, discovery, preflight, configuration and migrations: static data and one-off
  checks. ABI decoding is whether a log is understood. Pages are layout.
* Delays, counters, progress reports, provenance columns and the wording of errors.

## 7. Plan

Done: all modules of section 2. What is left, in this order:

1. Proofs: the premises under which the statements of section 3 that do not hold do hold
   (stored intervals that end with the window; one manifest per range).
2. `snapshots.ts` with its reorganisation check, as a further writer of snapshot rows.
3. Two chains of one lifetime command, whose goals are resolved together, and the
   aggregate of yields over chains with its unprotected read.
4. Providers that lag behind one another under failover, for which the honest chain of
   `FinalizedChain` has to become one view per provider.
