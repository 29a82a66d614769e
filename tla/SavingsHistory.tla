---------------------------- MODULE SavingsHistory ----------------------------
(***************************************************************************)
(* The savings-history lanes of one chain (src/analytics/savings-history,  *)
(* service and multichain-yield): a lane takes the advisory lock of its    *)
(* scope, captures the two boundary snapshots, makes the scope's coverage  *)
(* complete, rebuilds the flow rows and derives the yield of its range.    *)
(*   backfill, worker   ingest the range themselves; the worker may change *)
(*                      its log provider and reconciles at the end         *)
(*   align, lifetime    copy the coverage of a wider scope and reconcile   *)
(*   flows, reconcile   only that part, without a lock                     *)
(* Beside them the seven-day worker and the lifetime lane fill their own   *)
(* scopes.  All scopes share the stored logs and the derived tables.       *)
(* Ingestion is seen from outside (EvidenceLog, Ingestion), the gate       *)
(* through its answer (CoverageGaps), the verdict through what it          *)
(* guarantees (RateWindow!VerifiedMeansEarned).                            *)
(***************************************************************************)
EXTENDS FlowAnalytics, Sequences

CONSTANTS
  MaxBlock,    \* the last block; all of them are final
  History,     \* the decoded events of the chain
  Pending,     \* block -> pending yield of the vault
  Broken,      \* blocks at which the vault's state does not add up
  Windows,     \* ranges the lanes are asked for
  Lanes,       \* processes
  Requests,    \* lane -> the commands and ranges it may be started with
  MaxStarts,   \* bound: commands started
  OwnChunk,    \* the chunk size of the worker and the lifetime lane
  ChunkSizes,  \* the chunk size of each log provider, in their order
  Free, Ghost  \* a lock nobody holds, and one a dead session still holds

Blocks == 1 .. MaxBlock
Whole  == [from |-> 1, to |-> MaxBlock]
Ranges == {r \in [from : Blocks, to : Blocks] : r.from <= r.to}

Commands == {"backfill", "worker", "align", "lifetime", "flows", "reconcile"}

\* A range ends behind its start; a yield needs two boundaries.
ASSUME HistoryAssumption ==
  /\ MaxBlock \in Nat \ {0}
  /\ \A e \in History : e.at \in Blocks /\ e.amount \in Nat
  /\ IsFiniteSet(History)
  /\ Windows \subseteq {r \in Ranges : r.from < r.to}
  /\ Pending \in [Blocks -> Nat]
  /\ MaxStarts \in Nat /\ OwnChunk \in Nat \ {0}
  /\ ChunkSizes \in Seq(Nat \ {0}) /\ ChunkSizes # <<>>
  /\ \A l \in Lanes : \A q \in Requests[l] : q.command \in Commands /\ q.range \in Windows
  /\ Free # Ghost /\ {Free, Ghost} \cap Lanes = {}

\* The scopes of the coverage rows.
Scope(kind, r) == [kind |-> kind, range |-> r]
Recent   == Scope("recent", Whole)      \* of the seven-day worker
Lifetime == Scope("lifetime", Whole)    \* of the lifetime lane
Scopes   == {Recent, Lifetime} \cup {Scope(k, r) : k \in {"savings", "all-time"}, r \in Windows}

\* The contracts whose logs a scope asks for.  Fault: the lifetime lane leaves
\* the vault out.
TokenRoles(scope) ==
  IF scope.kind = "lifetime" THEN {"usdp-token"} ELSE {"susdp-savings"}
Roles(scope) ==
  CASE scope.kind = "recent"   -> {"susdp-savings", "usdp-token", "usdp-parallelizer"}
    [] scope.kind = "lifetime" -> {"susdp-savings", "usdp-token"}
    [] OTHER                   -> {"susdp-savings"}

VARIABLES
  stored,       \* protocol_events
  coverage,     \* indexer_coverage: scope -> set of ranges
  checkpoint,   \* indexer_checkpoints: scope -> next block
  snapshots,    \* blocks with a savings_chain_snapshots row
  flows,        \* flow_aggregates: <<range, manifest>> -> its rows
  economic,     \* economic_events: event -> [meaning, source]
  yields,       \* savings_yield_aggregates: range -> [yield, verdict]
  lock,         \* advisory locks: scope -> lane, Free or Ghost
  starts,       \* commands started so far
  job           \* each lane: where it is and its locals

tables == <<stored, coverage, checkpoint, snapshots, flows, economic, yields>>
vars   == <<tables, lock, starts, job>>

NoWindow == [from |-> 0, to |-> 0]
Idle ==
  [pc |-> "idle", command |-> "none", range |-> NoWindow, provider |-> 1,
   read |-> {}, accrued |-> 0, flowed |-> FALSE, derived |-> FALSE]

Init ==
  /\ stored = {}
  /\ coverage = [s \in Scopes |-> {}]
  /\ checkpoint = [s \in Scopes |-> 1]
  /\ snapshots = {}
  /\ flows = <<>>
  /\ economic = <<>>
  /\ yields = <<>>
  /\ lock = [s \in Scopes |-> Free]
  /\ starts = 0
  /\ job = [l \in Lanes |-> Idle]

-------------------------------------------------------------------------------
Put(f, x, v) == [y \in DOMAIN f \cup {x} |-> IF y = x THEN v ELSE f[y]]

Within(es, r) == {e \in es : e.at \in BlocksOf(r)}

\* The logs of a scope in some blocks, and what storing a chunk of it does.
Logs(scope, r) == {e \in Within(History, r) : e.role \in Roles(scope)}

Commit(scope, r) ==
  /\ stored' = stored \cup Logs(scope, r)
  /\ coverage' = [coverage EXCEPT ![scope] = @ \cup {r}]
  /\ checkpoint' = [checkpoint EXCEPT ![scope] = r.to + 1]

\* verifyCoverage.  Fault: any row that meets the range stands for all of it.
SomeCovered(scope, r) == BlocksOf(r) \cap BlocksIn(coverage[scope]) # {}
Covered(scope, r) == BlocksOf(r) \subseteq BlocksIn(coverage[scope])

At(l, pc) == job[l].pc = pc
Goto(l, pc) == job' = [job EXCEPT ![l].pc = pc]

\* savingsHistoryScope; derive-flows works on the scope it is told.
TargetScope(l) ==
  CASE job[l].command = "lifetime" -> Scope("all-time", job[l].range)
    [] job[l].command = "flows"    -> Recent
    [] OTHER                       -> Scope("savings", job[l].range)

Ingests(l)    == job[l].command \in {"backfill", "worker"}
Reconciles(l) == job[l].command \in {"worker", "align", "lifetime", "reconcile"}
Providers(l)  == IF job[l].command = "worker" THEN Len(ChunkSizes) ELSE 1

\* The lane ends; what it had read is gone.
Finished(l) == job' = [job EXCEPT ![l] = Idle]

\* The `finally` block, with the result of the lane.
LeaveWith(l, derived) ==
  job' = [job EXCEPT ![l].pc = IF job[l].command = "flows" THEN "idle" ELSE "unlock",
                     ![l].read = {}, ![l].accrued = 0, ![l].flowed = FALSE,
                     ![l].derived = derived]

Throw(l) == IF job[l].command = "flows" THEN Finished(l) ELSE LeaveWith(l, FALSE)

-------------------------------------------------------------------------------
Start(l) ==
  /\ At(l, "idle")
  /\ starts < MaxStarts
  /\ starts' = starts + 1
  /\ \E q \in Requests[l] :
       job' = [job EXCEPT ![l] =
                 [Idle EXCEPT !.command = q.command, !.range = q.range,
                              !.pc = CASE q.command = "flows"     -> "flow-gate"
                                       [] q.command = "reconcile" -> "reconcile"
                                       [] OTHER                   -> "lock"]]
  /\ UNCHANGED <<tables, lock>>

\* pg_try_advisory_lock on the chain and the target scope, once.
Lock(l) ==
  /\ At(l, "lock")
  /\ lock[TargetScope(l)] = Free
  /\ lock' = [lock EXCEPT ![TargetScope(l)] = l]
  /\ Goto(l, "start")
  /\ UNCHANGED tables

Busy(l) ==
  /\ At(l, "lock")
  /\ lock[TargetScope(l)] # Free
  /\ Finished(l)
  /\ UNCHANGED <<tables, lock>>

\* The statement throws, in front of `try`: the client is never released, and
\* pool.end waits for it, as behind UnlockFails.  The lock may have been granted.
LockFails(l) ==
  /\ At(l, "lock")
  /\ \/ UNCHANGED lock
     \/ /\ lock[TargetScope(l)] = Free
        /\ lock' = [lock EXCEPT ![TargetScope(l)] = Ghost]
  /\ Goto(l, "hung")
  /\ UNCHANGED tables

\* captureSavingsChainSnapshot at the two boundaries: a row is inserted once.
Capture(block) ==
  /\ snapshots' = snapshots \cup {block}
  /\ UNCHANGED <<stored, coverage, checkpoint, flows, economic, yields, lock>>

StartSnapshot(l) ==
  /\ At(l, "start")
  /\ Goto(l, "end")
  /\ Capture(job[l].range.from)

\* With the second one, an invalid boundary makes the interval unavailable.
EndSnapshot(l) ==
  /\ At(l, "end")
  /\ IF {job[l].range.from, job[l].range.to} \cap Broken # {}
     THEN LeaveWith(l, FALSE)
     ELSE Goto(l, IF Ingests(l) THEN "ingest" ELSE "source")
  /\ Capture(job[l].range.to)

\* An RPC or database error, before anything is written.
CaptureFails(l) ==
  /\ At(l, "start") \/ At(l, "end")
  /\ Throw(l)
  /\ UNCHANGED <<tables, lock>>

-------------------------------------------------------------------------------
(***************************************************************************)
(* ingestLogs under runWithProviderFailover.  It resumes behind the scope's*)
(* checkpoint, whoever set it.  Fault: at the start of the range.          *)
(***************************************************************************)
ResumeAtStart(l) == job[l].range.from
ResumeAt(l) == Greater(job[l].range.from, checkpoint[TargetScope(l)])

IngestChunk(l) ==
  /\ At(l, "ingest")
  /\ ResumeAt(l) <= job[l].range.to
  /\ LET size == ChunkSizes[job[l].provider]
     IN  Commit(TargetScope(l),
                [from |-> ResumeAt(l), to |-> PlannedTo(ResumeAt(l), job[l].range.to, size)])
  /\ UNCHANGED <<snapshots, flows, economic, yields, lock, job>>

Ingested(l) ==
  /\ At(l, "ingest")
  /\ ResumeAt(l) > job[l].range.to
  /\ Goto(l, "flow-gate")
  /\ UNCHANGED <<tables, lock>>

\* The daily quota of a provider is used up: the next one goes on, if there is
\* one.  Fault: behind the last one comes the first.
CircularProvider(l) == (job[l].provider % Providers(l)) + 1
NextProvider(l) == job[l].provider + 1

QuotaExhausted(l) ==
  /\ At(l, "ingest")
  /\ IF NextProvider(l) <= Providers(l)
     THEN job' = [job EXCEPT ![l].provider = NextProvider(l)]
     ELSE Throw(l)
  /\ UNCHANGED <<tables, lock>>

\* Any other error of ingestLogs is thrown; a signal makes it return "interrupted".
IngestFails(l) ==
  /\ At(l, "ingest")
  /\ LeaveWith(l, FALSE)
  /\ UNCHANGED <<tables, lock>>

-------------------------------------------------------------------------------
(***************************************************************************)
(* reuseSavingsHistoryCoverage: the gate on the source scope, the copy of  *)
(* the rows that meet the range, cut to it, and the gate on the target.    *)
(***************************************************************************)
SourceGate(l) ==
  /\ At(l, "source")
  /\ IF Covered(Lifetime, job[l].range) THEN Goto(l, "copy") ELSE LeaveWith(l, FALSE)
  /\ UNCHANGED <<tables, lock>>

Meets(r, q) == r.to >= q.from /\ r.from <= q.to
Clamped(rs, q) ==
  {[from |-> Greater(r.from, q.from), to |-> Lesser(r.to, q.to)] : r \in {s \in rs : Meets(s, q)}}

CopyCoverage(l) ==
  /\ At(l, "copy")
  /\ coverage' = [coverage EXCEPT ![TargetScope(l)] =
                    @ \cup Clamped(coverage[Lifetime], job[l].range)]
  /\ Goto(l, "target")
  /\ UNCHANGED <<stored, checkpoint, snapshots, flows, economic, yields, lock>>

TargetGate(l) ==
  /\ At(l, "target")
  /\ IF Covered(TargetScope(l), job[l].range) THEN Goto(l, "flow-gate") ELSE Throw(l)
  /\ UNCHANGED <<tables, lock>>

-------------------------------------------------------------------------------
(***************************************************************************)
(* rebuildFlowAnalytics: the gate, the read of all stored events of the    *)
(* range, whatever their scope, and one transaction that replaces the rows *)
(* of the range and the caller's manifest and upserts the events.          *)
(***************************************************************************)
Manifests   == {"state", "lifetime"}
Manifest(l) == IF job[l].command = "flows" THEN "lifetime" ELSE "state"

FlowGate(l) ==
  /\ At(l, "flow-gate")
  /\ IF Covered(TargetScope(l), job[l].range) THEN Goto(l, "flow-read")
     ELSE IF job[l].command = "flows" THEN Finished(l)
     ELSE Goto(l, "yield-gate")
  /\ UNCHANGED <<tables, lock>>

FlowRead(l) ==
  /\ At(l, "flow-read")
  /\ job' = [job EXCEPT ![l].pc = "flow-store", ![l].read = Within(stored, job[l].range)]
  /\ UNCHANGED <<tables, lock>>

FlowStore(l) ==
  /\ At(l, "flow-store")
  /\ flows' = Put(flows, <<job[l].range, Manifest(l)>>, Flows(job[l].read))
  /\ economic' = [e \in DOMAIN economic \cup Classified(job[l].read) |->
                    IF e \in job[l].read
                    THEN [meaning |-> Meaning(e), source |-> job[l].range] ELSE economic[e]]
  /\ IF job[l].command = "flows" THEN Finished(l)
     ELSE job' = [job EXCEPT ![l].pc = "yield-gate", ![l].read = {}, ![l].flowed = TRUE]
  /\ UNCHANGED <<stored, coverage, checkpoint, snapshots, yields, lock>>

\* The transaction is rolled back, as when another rebuild inserts the same rows.
FlowRollback(l) ==
  /\ At(l, "flow-store")
  /\ Throw(l)
  /\ UNCHANGED <<tables, lock>>

-------------------------------------------------------------------------------
(***************************************************************************)
(* calculateSavingsYieldForRange: the gate, the boundary rows, the sum of  *)
(* the interest in (from, to], and an insert that leaves an earlier row of *)
(* the range alone.                                                        *)
(***************************************************************************)
YieldGate(l) ==
  /\ At(l, "yield-gate")
  /\ IF Covered(TargetScope(l), job[l].range) THEN Goto(l, "accrued") ELSE LeaveWith(l, FALSE)
  /\ UNCHANGED <<tables, lock>>

\* Interest behind the start block, up to the end block.
Accrued(es, r) == Total({e \in Within(es, r) : Meaning(e) = "susdp_accrued" /\ e.at > r.from})

ReadAccrued(l) ==
  /\ At(l, "accrued")
  /\ IF {job[l].range.from, job[l].range.to} \subseteq snapshots
     THEN job' = [job EXCEPT ![l].pc = "insert", ![l].accrued = Accrued(stored, job[l].range)]
     ELSE LeaveWith(l, FALSE)
  /\ UNCHANGED <<tables, lock>>

\* Accrued interest and native yield of a range.
Yield(accrued, r) == [accrued |-> accrued, native |-> accrued + Pending[r.to] - Pending[r.from]]

\* What the vault of the final chain earned, of which pending yield is a part.
VaultYield(r) ==
  Yield(Total({e \in History : Meaning(e) = "susdp_accrued" /\ r.from < e.at /\ e.at <= r.to}), r)

InsertYield(l) ==
  /\ At(l, "insert")
  /\ LET y == Yield(job[l].accrued, job[l].range)
     IN  IF y.native < 0
         THEN Throw(l) /\ UNCHANGED yields
         ELSE /\ yields' = IF job[l].range \in DOMAIN yields THEN yields
                           ELSE Put(yields, job[l].range, [yield |-> y, verdict |-> "candidate"])
              /\ LeaveWith(l, job[l].flowed)
  /\ UNCHANGED <<stored, coverage, checkpoint, snapshots, flows, economic, lock>>

-------------------------------------------------------------------------------
\* The `finally` block; a lane that derived its range may go on to reconcile.
Unlock(l) ==
  /\ At(l, "unlock")
  /\ lock' = [lock EXCEPT ![TargetScope(l)] = Free]
  /\ IF job[l].derived /\ Reconciles(l) THEN Goto(l, "reconcile") ELSE Finished(l)
  /\ UNCHANGED tables

\* The connection breaks instead: the client is never released, and pool.end,
\* which the command awaits, waits for it for ever.
UnlockFails(l) ==
  /\ At(l, "unlock")
  /\ lock' = [lock EXCEPT ![TargetScope(l)] = Ghost]
  /\ Goto(l, "hung")
  /\ UNCHANGED tables

\* The interval a reconciliation takes: lifetime-yield names it, the others take
\* the one that ends last.
Latest(rs) == {r \in rs : \A q \in rs : q.to <= r.to}
Reconciled(l) ==
  IF job[l].command = "lifetime" THEN {job[l].range} ELSE Latest(DOMAIN yields)

\* reconcileSavingsYield: an exact row is verified or, for events that share a
\* timestamp, refused or left alone; a row that is not exact is never verified.
Verdicts(r) ==
  IF yields[r].yield = VaultYield(r) THEN {"verified", "invalid"} ELSE {"invalid"}

Reconcile(l) ==
  /\ At(l, "reconcile")
  /\ \/ \E r \in Reconciled(l) : \E v \in Verdicts(r) :
          yields' = Put(yields, r, [yield |-> yields[r].yield, verdict |-> v])
     \/ UNCHANGED yields
  /\ Finished(l)
  /\ UNCHANGED <<stored, coverage, checkpoint, snapshots, flows, economic, lock>>

-------------------------------------------------------------------------------
\* The process dies; its session holds the lock until PostgreSQL notices.
Crash(l) ==
  /\ job[l].pc # "idle"
  /\ Finished(l)
  /\ lock' = [s \in Scopes |-> IF lock[s] = l THEN Ghost ELSE lock[s]]
  /\ UNCHANGED <<tables, starts>>

SessionEnds(s) ==
  /\ lock[s] = Ghost
  /\ lock' = [lock EXCEPT ![s] = Free]
  /\ UNCHANGED <<tables, starts, job>>

\* The seven-day worker and the lifetime lane commit the next chunk of theirs.
Background(s) ==
  /\ checkpoint[s] <= MaxBlock
  /\ Commit(s, [from |-> checkpoint[s], to |-> PlannedTo(checkpoint[s], MaxBlock, OwnChunk)])
  /\ UNCHANGED <<snapshots, flows, economic, yields, lock, starts, job>>

LaneStep(l) ==
  /\ \/ Lock(l) \/ Busy(l) \/ LockFails(l)
     \/ StartSnapshot(l) \/ EndSnapshot(l) \/ CaptureFails(l)
     \/ IngestChunk(l) \/ Ingested(l) \/ QuotaExhausted(l) \/ IngestFails(l)
     \/ SourceGate(l) \/ CopyCoverage(l) \/ TargetGate(l)
     \/ FlowGate(l) \/ FlowRead(l) \/ FlowStore(l) \/ FlowRollback(l)
     \/ YieldGate(l) \/ ReadAccrued(l) \/ InsertYield(l)
     \/ Unlock(l) \/ UnlockFails(l) \/ Reconcile(l)
  /\ UNCHANGED starts

Next ==
  \/ \E l \in Lanes : Start(l) \/ LaneStep(l) \/ Crash(l)
  \/ \E s \in Scopes : SessionEnds(s)
  \/ \E s \in {Recent, Lifetime} : Background(s)

Spec == Init /\ [][Next]_vars

\* Requests are answered or fail, and PostgreSQL notices a dead session.
Fairness ==
  /\ \A l \in Lanes : WF_vars(LaneStep(l))
  /\ \A s \in Scopes : WF_vars(SessionEnds(s))

FairSpec == Spec /\ Fairness
-------------------------------------------------------------------------------
(***************************************************************************)
(* Every coverage row of every scope is backed by the logs its scope asks  *)
(* for, rows that were copied from another scope and cut included.         *)
(***************************************************************************)
EvidenceBehindCoverage ==
  \A s \in Scopes : \A r \in coverage[s] : Logs(s, r) \subseteq stored

(***************************************************************************)
(* Derived intervals are exact (ExactIntervals): whatever lanes ran beside *)
(* one another, failed, were killed or shared tables, a range has no flow  *)
(* rows, or those of all its deposits and withdrawals; no yield, or the    *)
(* one of the final chain, written once.  Flows of the Parallelizer are    *)
(* not promised: a savings scope does not ask for its logs.                *)
(***************************************************************************)
SavingsRows(rows) == {row \in rows : row.metric \in SavingsMetrics}

FinalFlows == [r \in Windows |-> SavingsRows(Flows(Within(History, r)))]
FinalYield == [r \in Windows |-> VaultYield(r)]

Exact == INSTANCE ExactIntervals
           WITH Intervals <- Windows, TrueFlows <- FinalFlows, TrueYield <- FinalYield,
                published <- [k \in DOMAIN flows |-> SavingsRows(flows[k])], earned <- yields

ImplementsExactIntervals == Exact!ExactSpec

(***************************************************************************)
(* The two tables a rebuild writes agree for good: although another range  *)
(* may take its events over in economic_events, the amounts these say were *)
(* deposited and withdrawn in a range are the sums of its hourly rows, and *)
(* of its daily rows.                                                      *)
(***************************************************************************)
RowTotal(rows) == SumFunction([row \in rows |-> row.amount])

EconomicMatchesFlows ==
  \A k \in DOMAIN flows : \A m \in SavingsMetrics : \A granularity \in {"hour", "day"} :
    RowTotal({row \in flows[k] : row.granularity = granularity /\ row.metric = m}) =
      Total({e \in Within(DOMAIN economic, k[1]) : economic[e].meaning = m})

(***************************************************************************)
(* readLifetimeDashboard shows the deposits of a range as the sum of its   *)
(* daily rows (docs/metric-contract.md: "USDp base units", from the chain's*)
(* Deposit events).  It does not hold: the query groups by chain and range *)
(* only, and the rows of two manifests are added up.                       *)
(***************************************************************************)
DashboardDeposits(r) ==
  LET Daily(k) == RowTotal({row \in flows[k] : row.granularity = "day" /\ row.metric = "susdp_deposited"})
  IN  SumFunction([k \in {k \in DOMAIN flows : k[1] = r} |-> Daily(k)])

DashboardFlowsExact ==
  \A k \in DOMAIN flows :
    DashboardDeposits(k[1]) =
      Total({e \in Within(History, k[1]) : Meaning(e) = "susdp_deposited"})

(***************************************************************************)
(* No scan of a scope goes back: a lane that is started again, or changes  *)
(* its provider in the middle of the range, goes on behind the last        *)
(* commit, and no other lane scans the scope beside it.                    *)
(***************************************************************************)
ScansGoForward == [][\A s \in Scopes : checkpoint'[s] >= checkpoint[s]]_vars

(***************************************************************************)
(* Every lane comes to an end: it is not kept by a lock, by a provider     *)
(* without quota or by a range that others scan.  It hangs only where the  *)
(* code gives it no way out: when the lock or the unlock statement itself  *)
(* fails, the client is never released, and pool.end waits for it.         *)
(***************************************************************************)
LanesReturn == \A l \in Lanes : job[l].pc # "idle" ~> job[l].pc \in {"idle", "hung"}
===============================================================================
