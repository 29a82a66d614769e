---------------------------- MODULE SnapshotProofs ----------------------------
(***************************************************************************)
(* Proofs about the snapshots: the lock of the snapshot worker, and what a *)
(* published sum is made of.  The worker's tables and the supply call are  *)
(* two specifications on variables of their own; a theorem on both sums    *)
(* assumes both.                                                           *)
(***************************************************************************)
EXTENDS AssetPayload, FiniteSetTheorems, SequenceTheorems, TLAPS

-------------------------------------------------------------------------------
(* Components and rows. *)

LEMMA OlderAge == \A age \in Ages : Older(age) \in Ages
BY AgeAssumption DEF Older, Ages

LEMMA ComponentsElements ==
  ASSUME NEW S, NEW f
  PROVE  f \in Components(S) <=>
           /\ DOMAIN f \in SUBSET S
           /\ f = [c \in DOMAIN f |-> f[c]]
           /\ \A c \in DOMAIN f : f[c] \in Component
BY DEF Components

LEMMA OlderComponentsType ==
  ASSUME NEW S, NEW f \in Components(S)
  PROVE  /\ OlderComponents(f) \in Components(S)
         /\ DOMAIN OlderComponents(f) = DOMAIN f
         /\ \A c \in DOMAIN f :
              /\ OlderComponents(f)[c].age = Older(f[c].age)
              /\ OlderComponents(f)[c].valid = f[c].valid
<1>1. \A c \in DOMAIN f : f[c] \in Component
  BY ComponentsElements
<1>2. \A c \in DOMAIN f :
        /\ [f[c] EXCEPT !.age = Older(f[c].age)] \in Component
        /\ [f[c] EXCEPT !.age = Older(f[c].age)].age = Older(f[c].age)
        /\ [f[c] EXCEPT !.age = Older(f[c].age)].valid = f[c].valid
  BY <1>1, OlderAge DEF Component
<1>3. DOMAIN f \in SUBSET S
  BY ComponentsElements
<1>4. OlderComponents(f) \in [DOMAIN f -> Component]
  BY <1>2 DEF OlderComponents
<1>5. OlderComponents(f) \in Components(S)
  BY <1>3, <1>4 DEF Components
<1> QED
  BY <1>2, <1>5 DEF OlderComponents

LEMMA OlderRowType ==
  ASSUME NEW row \in Row
  PROVE  /\ OlderRow(row) \in Row
         /\ OlderRow(row).asOf = Older(row.asOf)
         /\ OlderRow(row).included = OlderComponents(row.included)
         /\ OlderRow(row).stale = row.stale
         /\ OlderRow(row).missing = row.missing
         /\ OlderRow(row).failed = row.failed
         /\ OlderRow(row).status = row.status
<1>1. row.asOf \in Ages /\ row.included \in Components(Chains)
  BY DEF Row
<1>2. Older(row.asOf) \in Ages /\ OlderComponents(row.included) \in Components(Chains)
  BY <1>1, OlderAge, OlderComponentsType
<1> QED
  BY <1>2 DEF Row, OlderRow

LEMMA WithType ==
  ASSUME NEW S, NEW f \in Components(S), NEW c \in S, NEW k \in Component
  PROVE  With(f, c, k) \in Components(S)
<1>1. DOMAIN f \in SUBSET S /\ \A d \in DOMAIN f : f[d] \in Component
  BY ComponentsElements
<1> QED
  BY <1>1, ComponentsElements DEF With

LEMMA AmongType ==
  ASSUME NEW S, NEW f \in Components(S), NEW T \in SUBSET DOMAIN f
  PROVE  /\ Among(f, T) \in Components(S)
         /\ DOMAIN Among(f, T) = T
         /\ \A c \in T : Among(f, T)[c] = f[c]
<1>1. DOMAIN f \in SUBSET S /\ \A d \in DOMAIN f : f[d] \in Component
  BY ComponentsElements
<1> QED
  BY <1>1, ComponentsElements DEF Among

LEMMA MoreChains ==
  ASSUME NEW S, NEW T, S \subseteq T
  PROVE  Components(S) \subseteq Components(T)
BY DEF Components

\* A status that is complete counts every expected chain.
LEMMA CompleteCountsAll ==
  ASSUME NEW S, NEW T \in SUBSET S, S \subseteq Chains, Status(T, S) = "complete"
  PROVE  T = S
<1>1. IsFiniteSet(S)
  BY AgeAssumption, FS_Subset
<1>2. Cardinality(T) = Cardinality(S)
  BY DEF Status
<1> QED
  BY <1>1, <1>2, FS_Subset

LEMMA NothingType == \A S : <<>> \in Components(S) /\ DOMAIN <<>> = {}
<1>1. <<>> \in Seq(Component) /\ Len(<<>>) = 0
  BY EmptySeq
<1>2. <<>> \in [1 .. 0 -> Component]
  BY <1>1, LenProperties
<1>3. 1 .. 0 = {}
  OBVIOUS
<1> QED
  BY <1>2, <1>3 DEF Components

LEMMA NoRowType == NoRow \in Row
<1>1. <<>> \in Components(Chains)
  BY NothingType
<1> QED
  BY <1>1, AgeAssumption DEF NoRow, Row, Ages

LEMMA LatestType ==
  ASSUME NEW old \in Row, NEW new \in Row
  PROVE  Latest(old, new) \in Row /\ Latest(old, new).asOf <= old.asOf
BY DEF Latest, Row, Ages

\* What a row of a sum over some chains says of itself.
SumOK(row, expected) ==
  /\ DOMAIN row.included \subseteq expected
  /\ \A c \in DOMAIN row.included : row.included[c].valid
  /\ row.status = "complete" => DOMAIN row.included = expected
  /\ row.status = "none" => DOMAIN row.included = {}

LEMMA OlderSum ==
  ASSUME NEW row \in Row, NEW expected, SumOK(row, expected)
  PROVE  SumOK(OlderRow(row), expected)
<1>1. row.included \in Components(Chains)
  BY DEF Row
<1>2. /\ DOMAIN OlderComponents(row.included) = DOMAIN row.included
      /\ \A c \in DOMAIN row.included :
           OlderComponents(row.included)[c].valid = row.included[c].valid
  BY <1>1, OlderComponentsType
<1> QED
  BY <1>2, OlderRowType DEF SumOK

LEMMA NoRowSum == \A expected : SumOK(NoRow, expected)
<1>1. DOMAIN <<>> = {}
  BY NothingType
<1> QED
  BY <1>1 DEF SumOK, NoRow

\* A sum that is shown as complete is.
LEMMA SumIsComplete ==
  ASSUME NEW row \in Row, NEW expected, SumOK(row, expected)
  PROVE  CompleteAndCurrent(row, expected)
<1>1. SUFFICES ASSUME Shown(row) = "complete"
               PROVE  /\ DOMAIN row.included = expected
                      /\ \A c \in expected : row.included[c].valid /\ row.included[c].age <= MaxAge
  BY DEF CompleteAndCurrent
<1>2. row.status = "complete" /\ ~ Outdated(row)
  BY <1>1 DEF Shown
<1>3. row.included \in Components(Chains)
  BY DEF Row
<1>4. \A c \in DOMAIN row.included : row.included[c].age \in Nat
  BY <1>3, ComponentsElements DEF Component, Ages
<1> QED
  BY <1>2, <1>4, AgeAssumption DEF SumOK, Outdated

-------------------------------------------------------------------------------
(* The savings worker. *)

Job ==
  [pc : {"off", "lock", "leave", "cycle", "capture", "store", "supply"},
   role : {"none", "worker", "snapshot-all"}, attempts : 0 .. LockAttempts,
   waiting : SUBSET SavingsChains, row : Row]

Loops(j) == j.role = "worker" /\ j.pc \notin {"off", "lock", "leave"}

\* A process that asks for the lock has attempts left.
JobOK(j) ==
  /\ j \in Job
  /\ j.pc = "lock" => j.attempts < LockAttempts
  /\ SumOK(j.row, SavingsChains)

TablesOK ==
  /\ newest \in Components(SavingsChains)
  /\ savings \in Row /\ SumOK(savings, SavingsChains)
  /\ lock \in Processes \cup {Free, Ghost}

WorkerInv ==
  /\ TablesOK
  /\ job \in [Processes -> Job]
  /\ \A p \in Processes : JobOK(job[p])
  /\ \A p \in Processes : Loops(job[p]) => lock = p

LEMMA OffOK == JobOK(Off) /\ ~ Loops(Off)
BY NoRowType, NoRowSum, CycleAssumption DEF JobOK, Job, Off, Loops

\* One process takes a step, and what it does to the lock concerns nobody else.
LEMMA JobStep ==
  ASSUME WorkerInv, TablesOK', NEW p \in Processes, NEW j, JobOK(j),
         job' = [job EXCEPT ![p] = j],
         lock' = lock \/ lock \in {p, Free},
         Loops(j) => lock' = p
  PROVE  WorkerInv'
<1>1. job' \in [Processes -> Job]
  BY DEF WorkerInv, JobOK
<1>2. job'[p] = j /\ \A q \in Processes \ {p} : job'[q] = job[q]
  BY DEF WorkerInv
<1>3. \A q \in Processes : JobOK(job'[q])
  BY <1>2 DEF WorkerInv
<1>4. \A q \in Processes : Loops(job'[q]) => lock' = q
  BY <1>2, CycleAssumption DEF WorkerInv
<1> QED
  BY <1>1, <1>3, <1>4 DEF WorkerInv

LEMMA WorkerInitInv == Init => WorkerInv
<1> SUFFICES ASSUME Init PROVE WorkerInv
  OBVIOUS
<1>1. TablesOK
  BY NothingType, NoRowType, NoRowSum DEF Init, TablesOK
<1>2. \A p \in Processes : job[p] = Off
  BY DEF Init
<1>3. job \in [Processes -> Job]
  BY OffOK DEF Init, JobOK
<1> QED
  BY <1>1, <1>2, <1>3, OffOK DEF WorkerInv

LEMMA TickInv == WorkerInv /\ Tick => WorkerInv'
<1> SUFFICES ASSUME WorkerInv, Tick PROVE WorkerInv'
  OBVIOUS
<1>1. TablesOK'
  <2>1. newest' \in Components(SavingsChains)
    BY OlderComponentsType DEF Tick, WorkerInv, TablesOK
  <2>2. savings' \in Row /\ SumOK(savings', SavingsChains)
    BY OlderRowType, OlderSum DEF Tick, WorkerInv, TablesOK
  <2> QED
    BY <2>1, <2>2 DEF Tick, WorkerInv, TablesOK
<1>2. \A p \in Processes : /\ job[p] \in Job /\ JobOK(job[p])
                           /\ OlderRow(job[p].row) \in Row
                           /\ SumOK(OlderRow(job[p].row), SavingsChains)
  BY OlderRowType, OlderSum DEF WorkerInv, JobOK, Job
<1>3. \A p \in Processes : /\ job'[p] = [job[p] EXCEPT !.row = OlderRow(job[p].row)]
                           /\ job'[p].pc = job[p].pc /\ job'[p].role = job[p].role
                           /\ job'[p].attempts = job[p].attempts
                           /\ job'[p].row = OlderRow(job[p].row)
                           /\ job'[p] \in Job
  BY <1>2 DEF Tick, Job
<1>4. job' \in [Processes -> Job]
  BY <1>3 DEF Tick
<1>5. \A p \in Processes : JobOK(job'[p])
  BY <1>2, <1>3 DEF JobOK
<1>6. \A p \in Processes : Loops(job'[p]) => lock' = p
  BY <1>3 DEF WorkerInv, Loops, Tick
<1> QED
  BY <1>1, <1>4, <1>5, <1>6 DEF WorkerInv

\* The sum over the newest rows is what it says.
LEMMA SavingsRowOK ==
  ASSUME NEW f \in Components(SavingsChains)
  PROVE  SavingsRow(f) \in Row /\ SumOK(SavingsRow(f), SavingsChains)
<1> DEFINE included == DOMAIN f \ Stale(f)
<1>1. DOMAIN f \in SUBSET SavingsChains /\ \A c \in DOMAIN f : f[c] \in Component
  BY ComponentsElements
<1>2. /\ Among(f, included) \in Components(SavingsChains)
      /\ DOMAIN Among(f, included) = included
      /\ \A c \in included : Among(f, included)[c] = f[c]
  BY AmongType
<1>3. Among(f, included) \in Components(Chains)
  BY <1>2, MoreChains, CycleAssumption
<1>4. Status(included, SavingsChains) \in {"complete", "partial", "unavailable"}
  BY DEF Status
<1>5. Status(included, SavingsChains) = "complete" => included = SavingsChains
  BY <1>1, CompleteCountsAll, CycleAssumption
<1>6. \A c \in included : f[c].valid
  BY <1>1 DEF Stale, Component
<1>7. 0 \in Ages /\ Stale(f) \in SUBSET Chains /\ Missing(f) \in SUBSET Chains
  BY <1>1, AgeAssumption, CycleAssumption DEF Ages, Stale, Missing
<1>8. SavingsRow(f) \in Row
  BY <1>3, <1>4, <1>7 DEF SavingsRow, Row
<1>9. SumOK(SavingsRow(f), SavingsChains)
  BY <1>1, <1>2, <1>4, <1>5, <1>6 DEF SavingsRow, SumOK
<1> QED
  BY <1>8, <1>9

\* A step that leaves the tables and the lock alone.
LEMMA QuietStep ==
  ASSUME WorkerInv, NEW p \in Processes, NEW j, JobOK(j), job' = [job EXCEPT ![p] = j],
         UNCHANGED <<newest, savings, lock>>,
         Loops(j) => Loops(job[p])
  PROVE  WorkerInv'
<1>1. TablesOK' /\ (Loops(j) => lock' = p)
  BY DEF WorkerInv, TablesOK
<1> QED
  BY <1>1, JobStep

\* A cycle ends: a worker begins the next, a command is gone.
NextJob(p) ==
  IF job[p].role = "worker" THEN [Off EXCEPT !.role = "worker", !.pc = "cycle"] ELSE Off

LEMMA NextCycle ==
  ASSUME WorkerInv, NEW p \in Processes,
         job[p].pc \in {"cycle", "capture", "store", "supply"}
  PROVE  JobOK(NextJob(p)) /\ (Loops(NextJob(p)) => Loops(job[p]))
<1>1. JobOK([Off EXCEPT !.role = "worker", !.pc = "cycle"])
  BY OffOK DEF JobOK, Job, Off
<1> QED
  BY <1>1, OffOK DEF NextJob, Loops

LEMMA InsertedType ==
  ASSUME newest \in Components(SavingsChains), NEW c \in SavingsChains, NEW k \in Component,
         Inserted(c, k)
  PROVE  newest' \in Components(SavingsChains)
BY WithType DEF Inserted

LEMMA LockSteps ==
  ASSUME WorkerInv, NEW p \in Processes,
         Start(p) \/ TryLock(p) \/ Interrupted(p) \/ Leave(p) \/ Crash(p)
  PROVE  WorkerInv'
<1>0. JobOK(job[p]) /\ job[p] \in Job /\ TablesOK
  BY DEF WorkerInv, JobOK
<1>1. CASE Start(p)
  <2>1. PICK role \in Roles[p] :
          job' = [job EXCEPT ![p] =
                    [Off EXCEPT !.role = role, !.pc = IF role = "worker" THEN "lock" ELSE "cycle"]]
    BY <1>1 DEF Start
  <2> DEFINE j == [Off EXCEPT !.role = role, !.pc = IF role = "worker" THEN "lock" ELSE "cycle"]
  <2>2. role \in {"worker", "snapshot-all"}
    BY CycleAssumption
  <2>3. j \in Job /\ j.row = Off.row /\ j.attempts = 0 /\ j.pc \in {"lock", "cycle"}
    BY <2>2, OffOK, CycleAssumption DEF JobOK, Job, Off
  <2>4. j.pc = "lock" \/ j.role # "worker"
    BY DEF Off
  <2>5. JobOK(j) /\ ~ Loops(j)
    BY <2>3, <2>4, OffOK, CycleAssumption DEF JobOK, Loops
  <2> QED
    BY <1>1, <2>1, <2>5, QuietStep DEF Start
<1>2. CASE TryLock(p) /\ lock = Free
  <2> DEFINE j == [job[p] EXCEPT !.attempts = 0, !.pc = "cycle"]
  <2>1. j.row = job[p].row /\ j.pc = "cycle" /\ j.attempts = 0
    BY <1>0 DEF Job
  <2>2. 0 \in 0 .. LockAttempts
    BY CycleAssumption
  <2>3. j \in Job
    BY <1>0, <2>2 DEF Job
  <2>4. job' = [job EXCEPT ![p] = j] /\ lock' = p
    BY <1>2 DEF TryLock, Acquire, WorkerInv
  <2> HIDE DEF j
  <2>5. JobOK(j)
    BY <1>0, <2>1, <2>3 DEF JobOK
  <2>6. TablesOK'
    BY <1>0, <1>2, <2>4 DEF TablesOK, TryLock
  <2> QED
    BY <1>2, <2>5, <2>4, <2>6, JobStep
<1>3. CASE TryLock(p) /\ lock # Free
  <2> DEFINE j == [job[p] EXCEPT !.attempts = @ + 1,
                                 !.pc = IF TriesAgain(job[p].attempts + 1) THEN "lock" ELSE "leave"]
  <2>1. job[p].pc = "lock" /\ job[p].attempts + 1 \in 0 .. LockAttempts
    BY <1>0, <1>3, CycleAssumption DEF TryLock, At, JobOK, Job
  <2>2. JobOK(j) /\ ~ Loops(j)
    BY <1>0, <2>1, CycleAssumption DEF JobOK, Job, Loops, TriesAgain
  <2>3. job' = [job EXCEPT ![p] = j] /\ UNCHANGED <<newest, savings, lock>>
    BY <1>3 DEF TryLock, WorkerInv
  <2> QED
    BY <2>2, <2>3, QuietStep
<1>4. CASE Interrupted(p)
  <2> DEFINE j == [job[p] EXCEPT !.pc = "leave"]
  <2>1. JobOK(j) /\ ~ Loops(j)
    BY <1>0 DEF JobOK, Job, Loops
  <2>2. job' = [job EXCEPT ![p] = j] /\ UNCHANGED <<newest, savings, lock>>
    BY <1>4 DEF Interrupted, Goto, WorkerInv
  <2> QED
    BY <2>1, <2>2, QuietStep
<1>5. CASE Leave(p) \/ Crash(p)
  <2>1. /\ job' = [job EXCEPT ![p] = Off]
        /\ lock' \in {lock, Free, Ghost} /\ (lock' = lock \/ lock = p)
        /\ UNCHANGED <<newest, savings>>
    BY <1>5 DEF Leave, Crash
  <2>2. TablesOK'
    BY <1>0, <2>1 DEF TablesOK
  <2> QED
    BY <2>1, <2>2, OffOK, JobStep
<1> QED
  BY <1>1, <1>2, <1>3, <1>4, <1>5

LEMMA CycleSteps ==
  ASSUME WorkerInv, NEW p \in Processes,
         \/ CycleFails(p) \/ SyncRegistry(p) \/ Aggregate(p) \/ StoreSavings(p) \/ SupplyStored(p)
         \/ \E c \in SavingsChains : Capture(p, c) \/ CaptureFails(p, c)
  PROVE  WorkerInv'
<1>0. JobOK(job[p]) /\ job[p] \in Job /\ TablesOK
  BY DEF WorkerInv, JobOK
<1>1. CASE CycleFails(p) \/ SupplyStored(p)
  <2>1. /\ job[p].pc \in {"cycle", "capture", "store", "supply"}
        /\ job' = [job EXCEPT ![p] = NextJob(p)]
        /\ UNCHANGED <<newest, savings, lock>>
    BY <1>1 DEF CycleFails, SupplyStored, EndOfCycle, NextJob, At
  <2> QED
    BY <2>1, NextCycle, QuietStep
<1>2. CASE SyncRegistry(p)
  <2> DEFINE j == [job[p] EXCEPT !.pc = "capture", !.waiting = SavingsChains]
  <2>1. JobOK(j) /\ (Loops(j) => Loops(job[p]))
    BY <1>0, <1>2 DEF JobOK, Job, Loops, SyncRegistry, At
  <2>2. job' = [job EXCEPT ![p] = j] /\ UNCHANGED <<newest, savings, lock>>
    BY <1>2 DEF SyncRegistry, WorkerInv
  <2> QED
    BY <2>1, <2>2, QuietStep
<1>3. CASE Aggregate(p)
  <2> DEFINE j == [job[p] EXCEPT !.pc = "store", !.row = SavingsRow(newest)]
  <2>1. SavingsRow(newest) \in Row /\ SumOK(SavingsRow(newest), SavingsChains)
    BY <1>0, SavingsRowOK DEF TablesOK
  <2>2. JobOK(j) /\ (Loops(j) => Loops(job[p]))
    BY <1>0, <1>3, <2>1 DEF JobOK, Job, Loops, Aggregate, At
  <2>3. job' = [job EXCEPT ![p] = j] /\ UNCHANGED <<newest, savings, lock>>
    BY <1>3 DEF Aggregate, WorkerInv
  <2> QED
    BY <2>2, <2>3, QuietStep
<1>4. CASE StoreSavings(p)
  <2> DEFINE j == [job[p] EXCEPT !.pc = "supply", !.row = NoRow]
  <2>1. JobOK(j) /\ (Loops(j) => Loops(job[p]))
    BY <1>0, <1>4, NoRowType, NoRowSum DEF JobOK, Job, Loops, StoreSavings, At
  <2>2. job' = [job EXCEPT ![p] = j] /\ UNCHANGED <<newest, lock>>
    BY <1>4 DEF StoreSavings, WorkerInv
  <2>3. savings' = savings \/ savings' = job[p].row
    BY <1>4 DEF StoreSavings, Latest
  <2>4. TablesOK'
    BY <1>0, <2>2, <2>3 DEF TablesOK, JobOK, Job
  <2>5. Loops(j) => lock' = p
    BY <2>1, <2>2 DEF WorkerInv
  <2> QED
    BY <2>1, <2>2, <2>4, <2>5, JobStep
<1>5. CASE \E c \in SavingsChains : Capture(p, c) \/ CaptureFails(p, c)
  <2>1. PICK c \in SavingsChains : Capture(p, c) \/ CaptureFails(p, c)
    BY <1>5
  <2> DEFINE j == [job[p] EXCEPT !.waiting = @ \ {c}]
  <2>2. JobOK(j) /\ (Loops(j) => Loops(job[p]))
    BY <1>0 DEF JobOK, Job, Loops
  <2>3. job' = [job EXCEPT ![p] = j] /\ UNCHANGED <<savings, lock>>
    BY <2>1 DEF Capture, CaptureFails, Answered, CatchCapture, WorkerInv
  <2>4. newest' \in Components(SavingsChains)
    BY <1>0, <2>1, InsertedType, CycleAssumption DEF Capture, CaptureFails, TablesOK
  <2>5. TablesOK'
    BY <1>0, <2>3, <2>4 DEF TablesOK
  <2>6. Loops(j) => lock' = p
    BY <2>2, <2>3 DEF WorkerInv
  <2> QED
    BY <2>2, <2>3, <2>5, <2>6, JobStep
<1> QED
  BY <1>1, <1>2, <1>3, <1>4, <1>5

LEMMA WorkerNextInv == WorkerInv /\ [Next]_vars => WorkerInv'
<1> SUFFICES ASSUME WorkerInv, [Next]_vars PROVE WorkerInv'
  OBVIOUS
<1>1. CASE \E p \in Processes : Start(p) \/ CycleStep(p) \/ Interrupted(p) \/ Crash(p)
  BY <1>1, LockSteps, CycleSteps DEF CycleStep
<1>2. CASE \E c \in SavingsChains : CaptureBoundary(c)
  <2>1. newest' \in Components(SavingsChains) /\ UNCHANGED <<savings, lock, job>>
    BY <1>2, InsertedType, CycleAssumption DEF CaptureBoundary, WorkerInv, TablesOK
  <2> QED
    BY <2>1 DEF WorkerInv, TablesOK
<1>3. CASE SessionEnds
  <2>1. lock = Ghost /\ lock' = Free /\ UNCHANGED <<newest, savings, job>>
    BY <1>3 DEF SessionEnds
  <2>2. \A p \in Processes : ~ Loops(job[p])
    BY <2>1, CycleAssumption DEF WorkerInv
  <2> QED
    BY <2>1, <2>2 DEF WorkerInv, TablesOK
<1>4. CASE Tick
  BY <1>4, TickInv
<1>5. CASE UNCHANGED vars
  BY <1>5 DEF vars, WorkerInv, TablesOK
<1> QED
  BY <1>1, <1>2, <1>3, <1>4, <1>5 DEF Next

LEMMA WorkerInvariance == Spec => []WorkerInv
BY WorkerInitInv, WorkerNextInv, PTL DEF Spec

\* Whatever processes come, crash and are replaced, at most one worker is in its
\* loop (OneWorkerCycles; multichain-worker.ts, the advisory lock).
THEOREM LockExcludes == Spec => []OneWorkerCycles
<1>1. WorkerInv => OneWorkerCycles
  BY DEF WorkerInv, OneWorkerCycles, Looping, Loops
<1> QED
  BY <1>1, WorkerInvariance, PTL

-------------------------------------------------------------------------------
(* The supply snapshot. *)

Named(row) ==
  row.status # "none" =>
    /\ DOMAIN row.included \cup (row.stale \cup row.missing \cup row.failed) = SupplyChains
    /\ DOMAIN row.included \cap (row.stale \cup row.missing \cup row.failed) = {}

\* No two components that are younger than Horizon are too far apart.
Aligned(row) ==
  \A c, d \in DOMAIN row.included :
    Horizon \notin {row.included[c].age, row.included[d].age} =>
      Distance(row.included[c].age, row.included[d].age) <= 2 * Skew

SupplySumOK(row) ==
  /\ row \in Row
  /\ SumOK(row, SupplyChains)
  /\ Named(row)
  /\ Aligned(row)

Call ==
  [pc : {"off", "capture", "store"}, asOf : Ages, waiting : SUBSET SupplyChains,
   tries : [SupplyChains -> Nat], read : Components(SupplyChains),
   failed : SUBSET SupplyChains, row : Row]

\* A chain is waited for, or was read, or failed, and no two of these.
CallOK(k) ==
  /\ k \in Call
  /\ \A c \in SupplyChains : k.tries[c] < Urls[c]
  /\ k.waiting \cap (DOMAIN k.read \cup k.failed) = {}
  /\ DOMAIN k.read \cap k.failed = {}
  /\ SupplySumOK(k.row)

SupplyInv ==
  /\ SupplySumOK(supply)
  /\ call \in [Callers -> Call]
  /\ \A p \in Callers : CallOK(call[p])

LEMMA NoRowSupplySum == SupplySumOK(NoRow)
<1>1. DOMAIN <<>> = {}
  BY NothingType
<1>2. Aligned(NoRow) /\ Named(NoRow)
  BY <1>1 DEF Aligned, Named, NoRow
<1> QED
  BY <1>2, NoRowType, NoRowSum DEF SupplySumOK

LEMMA NoCallOK == CallOK(NoCall)
<1>1. <<>> \in Components(SupplyChains) /\ DOMAIN <<>> = {}
  BY NothingType
<1>2. NoCall \in Call
  BY <1>1, NoRowType, AgeAssumption DEF NoCall, Call, Ages
<1>3. \A c \in SupplyChains : NoCall.tries[c] < Urls[c]
  BY SupplyAssumption DEF NoCall
<1>4. /\ NoCall.waiting \cap (DOMAIN NoCall.read \cup NoCall.failed) = {}
      /\ DOMAIN NoCall.read \cap NoCall.failed = {}
      /\ NoCall.row = NoRow
  BY <1>1 DEF NoCall
<1> QED
  BY <1>2, <1>3, <1>4, NoRowSupplySum DEF CallOK

\* Time does not change what a row says of its chains, nor how far apart they are.
LEMMA OlderSupplySum ==
  ASSUME NEW row, SupplySumOK(row)
  PROVE  SupplySumOK(OlderRow(row))
<1>1. row \in Row /\ row.included \in Components(Chains)
  BY DEF SupplySumOK, Row
<1> DEFINE old == row.included
           new == OlderRow(row).included
<1>2. /\ new = OlderComponents(old)
      /\ DOMAIN new = DOMAIN old
      /\ \A c \in DOMAIN old : new[c].age = Older(old[c].age)
  BY <1>1, OlderRowType, OlderComponentsType
<1>3. \A c \in DOMAIN old : old[c].age \in Ages
  BY <1>1, ComponentsElements DEF Component
<1>4. ASSUME NEW c \in DOMAIN new, NEW d \in DOMAIN new, Horizon \notin {new[c].age, new[d].age}
      PROVE  Distance(new[c].age, new[d].age) <= 2 * Skew
  <2>1. new[c].age = Older(old[c].age) /\ new[d].age = Older(old[d].age)
    BY <1>2
  <2>2. old[c].age \in Ages /\ old[d].age \in Ages
    BY <1>2, <1>3
  <2>3. old[c].age # Horizon /\ old[d].age # Horizon
    BY <1>4, <2>1 DEF Older
  <2>4. Distance(old[c].age, old[d].age) <= 2 * Skew
    BY <1>2, <2>3 DEF SupplySumOK, Aligned
  <2>5. new[c].age = old[c].age + 1 /\ new[d].age = old[d].age + 1
    BY <2>1, <2>3 DEF Older
  <2>6. Distance(old[c].age + 1, old[d].age + 1) = Distance(old[c].age, old[d].age)
    BY <2>2, AgeAssumption DEF Distance, Ages
  <2> QED
    BY <2>4, <2>5, <2>6
<1>5. Aligned(OlderRow(row))
  BY <1>4 DEF Aligned
<1>6. Named(OlderRow(row))
  BY <1>1, <1>2, OlderRowType DEF Named, SupplySumOK
<1> QED
  BY <1>1, <1>5, <1>6, OlderSum, OlderRowType DEF SupplySumOK

\* The sum over what a call has read is what it says.
LEMMA SupplyRowOK ==
  ASSUME NEW k, CallOK(k)
  PROVE  SupplySumOK(SupplyRow(k.read, k.failed, k.asOf))
<1> DEFINE f == k.read
           stale == SupplyStale(f, k.asOf)
           included == Verified(f) \ stale
           row == SupplyRow(f, k.failed, k.asOf)
<1>0. /\ k.asOf \in Ages /\ f \in Components(SupplyChains)
      /\ k.failed \in SUBSET SupplyChains /\ DOMAIN f \cap k.failed = {}
  BY DEF CallOK, Call
<1>1. DOMAIN f \in SUBSET SupplyChains /\ \A c \in DOMAIN f : f[c] \in Component
  BY <1>0, ComponentsElements
<1>2. included \in SUBSET DOMAIN f
  BY DEF Verified
<1>3. /\ Among(f, included) \in Components(SupplyChains)
      /\ DOMAIN Among(f, included) = included
      /\ \A c \in included : Among(f, included)[c] = f[c]
  BY <1>0, <1>2, AmongType
<1>4. Among(f, included) \in Components(Chains)
  BY <1>3, MoreChains, SupplyAssumption
<1>5. Status(included, SupplyChains) \in {"complete", "partial", "unavailable"}
  BY DEF Status
<1>6. Status(included, SupplyChains) = "complete" => included = SupplyChains
  BY <1>1, <1>2, CompleteCountsAll, SupplyAssumption
<1>7. /\ stale \in SUBSET Chains /\ Failed(f, k.failed) \in SUBSET Chains
      /\ SupplyChains \ (DOMAIN f \cup Failed(f, k.failed)) \in SUBSET Chains
  BY <1>0, <1>1, SupplyAssumption DEF SupplyStale, Failed
<1>8. /\ row.asOf = k.asOf /\ row.included = Among(f, included) /\ row.stale = stale
      /\ row.missing = SupplyChains \ (DOMAIN f \cup Failed(f, k.failed))
      /\ row.failed = Failed(f, k.failed) /\ row.status = Status(included, SupplyChains)
  BY DEF SupplyRow
<1>9. row \in Row
  BY <1>0, <1>4, <1>5, <1>7 DEF SupplyRow, Row
<1> HIDE DEF row
<1>10. SumOK(row, SupplyChains)
  <2>1. \A c \in included : f[c].valid
    BY DEF Verified
  <2> QED
    BY <1>1, <1>2, <1>3, <1>5, <1>6, <1>8, <2>1 DEF SumOK
<1>11. Named(row)
  <2>1. DOMAIN row.included = included
    BY <1>3, <1>8
  <2>2. stale \subseteq DOMAIN f
    BY DEF SupplyStale
  <2>3. Failed(f, k.failed) = k.failed \cup (DOMAIN f \ Verified(f))
    BY <1>1 DEF Failed, Verified, Component
  <2> HIDE DEF f, stale
  <2> QED
    BY <1>0, <1>1, <1>8, <2>1, <2>2, <2>3 DEF Named, Verified
<1>12. Aligned(row)
  <2>1. \A c \in included : f[c].age \in Ages /\ Distance(f[c].age, k.asOf) <= Skew
    BY <1>0, <1>1, SupplyAssumption, AgeAssumption
    DEF SupplyStale, Verified, Misaligned, Component, Ages, Distance
  <2>2. \A i, j, t \in Ages :
          Distance(i, t) <= Skew /\ Distance(j, t) <= Skew => Distance(i, j) <= 2 * Skew
    BY SupplyAssumption, AgeAssumption DEF Distance, Ages
  <2> QED
    BY <1>0, <1>3, <1>8, <2>1, <2>2 DEF Aligned
<1> QED
  BY <1>9, <1>10, <1>11, <1>12 DEF SupplySumOK, row

LEMMA CallStep ==
  ASSUME SupplyInv, SupplySumOK(supply'), NEW p \in Callers, NEW k, CallOK(k),
         call' = [call EXCEPT ![p] = k]
  PROVE  SupplyInv'
<1>1. call' \in [Callers -> Call]
  BY DEF SupplyInv, CallOK
<1>2. call'[p] = k /\ \A q \in Callers \ {p} : call'[q] = call[q]
  BY DEF SupplyInv
<1>3. \A q \in Callers : CallOK(call'[q])
  BY <1>2 DEF SupplyInv
<1> QED
  BY <1>1, <1>3 DEF SupplyInv

LEMMA SupplyTickInv == SupplyInv /\ SupplyTick => SupplyInv'
<1> SUFFICES ASSUME SupplyInv, SupplyTick PROVE SupplyInv'
  OBVIOUS
<1>1. SupplySumOK(supply')
  BY OlderSupplySum DEF SupplyInv, SupplyTick
<1>2. ASSUME NEW p \in Callers
      PROVE  CallOK(call'[p]) /\ call'[p] \in Call
  <2> DEFINE k == call[p]
  <2>1. PICK age : age = IF k.pc = "capture" THEN Older(k.asOf) ELSE k.asOf
    OBVIOUS
  <2> DEFINE j == [k EXCEPT !.asOf = age, !.read = OlderComponents(k.read), !.row = OlderRow(k.row)]
  <2>2. k \in Call /\ CallOK(k)
    BY DEF SupplyInv
  <2>3. call'[p] = j
    BY <2>1 DEF SupplyTick
  <2>4. age \in Ages
    BY <2>1, <2>2, OlderAge DEF Call
  <2>5. /\ OlderComponents(k.read) \in Components(SupplyChains)
        /\ DOMAIN OlderComponents(k.read) = DOMAIN k.read
    BY <2>2, OlderComponentsType DEF Call
  <2>6. SupplySumOK(OlderRow(k.row)) /\ OlderRow(k.row) \in Row
    BY <2>2, OlderSupplySum DEF CallOK, SupplySumOK
  <2>7. j \in Call
    BY <2>2, <2>4, <2>5, <2>6 DEF Call
  <2>8. /\ j.waiting = k.waiting /\ j.tries = k.tries /\ j.failed = k.failed
        /\ j.read = OlderComponents(k.read) /\ j.row = OlderRow(k.row)
    BY <2>2 DEF Call
  <2> HIDE DEF j, k
  <2>9. CallOK(j)
    BY <2>2, <2>5, <2>6, <2>7, <2>8 DEF CallOK
  <2> QED
    BY <2>3, <2>7, <2>9
<1>3. call' \in [Callers -> Call]
  BY <1>2 DEF SupplyTick
<1> QED
  BY <1>1, <1>2, <1>3 DEF SupplyInv

LEMMA CaptureInv ==
  ASSUME SupplyInv, NEW p \in Callers, NEW c \in SupplyChains,
         CaptureSupply(p, c) \/ CaptureSupplyFails(p, c)
  PROVE  SupplyInv'
<1> DEFINE k == call[p]
<1>0. k \in Call /\ CallOK(k) /\ SupplySumOK(supply') /\ c \in k.waiting
  BY DEF SupplyInv, CaptureSupply, CaptureSupplyFails
<1>1. ASSUME CaptureSupply(p, c) PROVE SupplyInv'
  <2>1. PICK component \in Readable(c, k.asOf) :
          call' = [call EXCEPT ![p].waiting = @ \ {c}, ![p].tries[c] = 0,
                               ![p].read = With(@, c, component)]
    BY <1>1 DEF CaptureSupply
  <2>2. component \in Component
    BY SupplyAssumption DEF Readable
  <2> DEFINE j == [k EXCEPT !.waiting = @ \ {c}, !.tries[c] = 0, !.read = With(@, c, component)]
  <2>3. call' = [call EXCEPT ![p] = j]
    BY <2>1 DEF SupplyInv
  <2>4. /\ With(k.read, c, component) \in Components(SupplyChains)
        /\ DOMAIN With(k.read, c, component) = DOMAIN k.read \cup {c}
    <3>1. k.read \in Components(SupplyChains)
      BY <1>0 DEF Call
    <3> HIDE DEF k
    <3> QED
      BY <2>2, <3>1, WithType DEF With
  <2>5. /\ j \in Call /\ j.waiting = k.waiting \ {c} /\ j.tries = [k.tries EXCEPT ![c] = 0]
        /\ j.read = With(k.read, c, component) /\ j.failed = k.failed /\ j.row = k.row
    BY <1>0, <2>4 DEF Call
  <2>6. \A d \in SupplyChains : [k.tries EXCEPT ![c] = 0][d] < Urls[d]
    BY <1>0, SupplyAssumption DEF CallOK, Call
  <2> HIDE DEF j, k
  <2>7. CallOK(j)
    BY <1>0, <2>4, <2>5, <2>6 DEF CallOK
  <2> QED
    BY <1>0, <2>3, <2>7, CallStep
<1>2. ASSUME CaptureSupplyFails(p, c), HasUrl(c, k.tries[c] + 1) PROVE SupplyInv'
  <2> DEFINE j == [k EXCEPT !.tries[c] = @ + 1]
  <2>1. call' = [call EXCEPT ![p] = j]
    BY <1>2 DEF CaptureSupplyFails, SupplyInv
  <2>2. /\ j \in Call /\ j.waiting = k.waiting /\ j.tries = [k.tries EXCEPT ![c] = @ + 1]
        /\ j.read = k.read /\ j.failed = k.failed /\ j.row = k.row
    BY <1>0 DEF Call
  <2>3. \A d \in SupplyChains : [k.tries EXCEPT ![c] = @ + 1][d] < Urls[d]
    BY <1>0, <1>2 DEF CallOK, Call, HasUrl
  <2> HIDE DEF j, k
  <2>4. CallOK(j)
    BY <1>0, <2>2, <2>3 DEF CallOK
  <2> QED
    BY <1>0, <2>1, <2>4, CallStep
<1>3. ASSUME CaptureSupplyFails(p, c), ~ HasUrl(c, k.tries[c] + 1) PROVE SupplyInv'
  <2> DEFINE j == [k EXCEPT !.waiting = @ \ {c}, !.tries[c] = 0, !.failed = @ \cup {c}]
  <2>1. call' = [call EXCEPT ![p] = j]
    BY <1>3 DEF CaptureSupplyFails, SupplyInv
  <2>2. /\ j \in Call /\ j.waiting = k.waiting \ {c} /\ j.tries = [k.tries EXCEPT ![c] = 0]
        /\ j.read = k.read /\ j.failed = k.failed \cup {c} /\ j.row = k.row
    BY <1>0 DEF Call
  <2>3. \A d \in SupplyChains : [k.tries EXCEPT ![c] = 0][d] < Urls[d]
    BY <1>0, SupplyAssumption DEF CallOK, Call
  <2> HIDE DEF j, k
  <2>4. CallOK(j)
    BY <1>0, <2>2, <2>3 DEF CallOK
  <2> QED
    BY <1>0, <2>1, <2>4, CallStep
<1> QED
  BY <1>1, <1>2, <1>3

LEMMA SupplyNextInv == SupplyInv /\ [SupplyNext]_supplyVars => SupplyInv'
<1> SUFFICES ASSUME SupplyInv, [SupplyNext]_supplyVars PROVE SupplyInv'
  OBVIOUS
<1>1. ASSUME NEW p \in Callers, StartSupply(p) PROVE SupplyInv'
  <2> DEFINE j == [NoCall EXCEPT !.pc = "capture", !.waiting = SupplyChains]
  <2>1. /\ j \in Call /\ j.waiting = SupplyChains /\ j.tries = NoCall.tries
        /\ DOMAIN j.read = {} /\ j.failed = {} /\ j.row = NoCall.row
    BY NoCallOK, NothingType DEF CallOK, Call, NoCall
  <2>2. call' = [call EXCEPT ![p] = j] /\ supply' = supply
    BY <1>1 DEF StartSupply
  <2> HIDE DEF j
  <2>3. CallOK(j)
    BY <2>1, NoCallOK DEF CallOK
  <2> QED
    BY <2>2, <2>3, CallStep DEF SupplyInv
<1>2. ASSUME NEW p \in Callers, AggregateSupply(p) PROVE SupplyInv'
  <2> DEFINE row == SupplyRow(call[p].read, call[p].failed, call[p].asOf)
             j == [NoCall EXCEPT !.pc = "store", !.row = row]
  <2>1. SupplySumOK(row) /\ row \in Row
    BY SupplyRowOK DEF SupplyInv, SupplySumOK
  <2>2. call' = [call EXCEPT ![p] = j] /\ supply' = supply
    BY <1>2 DEF AggregateSupply
  <2> HIDE DEF row
  <2>3. /\ j \in Call /\ j.waiting = NoCall.waiting /\ j.tries = NoCall.tries
        /\ j.read = NoCall.read /\ j.failed = NoCall.failed /\ j.row = row
    BY <2>1, NoCallOK DEF CallOK, Call
  <2> HIDE DEF j
  <2>4. CallOK(j)
    BY <2>1, <2>3, NoCallOK DEF CallOK
  <2> QED
    BY <2>2, <2>4, CallStep DEF SupplyInv
<1>3. ASSUME NEW p \in Callers, StoreSupply(p) \/ SupplyFails(p) PROVE SupplyInv'
  <2>1. call' = [call EXCEPT ![p] = NoCall] /\ supply' \in {supply, call[p].row}
    BY <1>3 DEF StoreSupply, SupplyFails, Latest
  <2> QED
    BY <2>1, NoCallOK, CallStep DEF SupplyInv, CallOK
<1>4. CASE SupplyTick
  BY <1>4, SupplyTickInv
<1>5. CASE UNCHANGED supplyVars
  BY <1>5 DEF supplyVars, SupplyInv
<1> QED
  BY <1>1, <1>2, <1>3, <1>4, <1>5, CaptureInv DEF SupplyNext

LEMMA SupplyInvariance == SupplySpec => []SupplyInv
<1>1. SupplyInit => SupplyInv
  BY NoCallOK, NoRowSupplySum DEF SupplyInit, SupplyInv, CallOK
<1> QED
  BY <1>1, SupplyNextInv, PTL DEF SupplySpec

-------------------------------------------------------------------------------
(* What readers see. *)

LEMMA Types == WorkerInv /\ SupplyInv => TypeOK
<1> SUFFICES ASSUME WorkerInv, SupplyInv PROVE TypeOK
  OBVIOUS
<1>1. SavingsTypeOK
  BY DEF WorkerInv, TablesOK, SavingsTypeOK, Job
<1>2. SupplyTypeOK
  BY DEF SupplyInv, SupplySumOK, CallOK, SupplyTypeOK, Call
<1> QED
  BY <1>1, <1>2 DEF TypeOK

\* The tables and the locals of both cycles have their types (TypeOK).
THEOREM TypeCorrect == Spec /\ SupplySpec => []TypeOK
BY Types, WorkerInvariance, SupplyInvariance, PTL

\* Both global sums are complete if they are shown as complete (SumsComplete):
\* rows of failed chains, of earlier cycles and of the history lane included.
THEOREM CompleteSums == Spec /\ SupplySpec => []SumsComplete
<1>1. WorkerInv /\ SupplyInv => SumsComplete
  BY SumIsComplete DEF WorkerInv, TablesOK, SupplyInv, SupplySumOK, SumsComplete
<1> QED
  BY <1>1, WorkerInvariance, SupplyInvariance, PTL

\* No chain vanishes from the supply sum (SupplyChainsNamed; usdp-supply.ts,
\* aggregateUsdpSupplyComponents).
THEOREM ChainsNamed == SupplySpec => []SupplyChainsNamed
<1>1. SupplyInv => SupplyChainsNamed
  BY DEF SupplyInv, SupplySumOK, Named, SupplyChainsNamed
<1> QED
  BY <1>1, SupplyInvariance, PTL

\* The blocks of a supply sum are no further apart than twice the skew
\* (SupplyAligned), for every skew, lag and delay.
THEOREM SupplyIsAligned == SupplySpec => []SupplyAligned
<1>1. SupplyInv => SupplyAligned
  BY DEF SupplyInv, SupplySumOK, Aligned, SupplyAligned
<1> QED
  BY <1>1, SupplyInvariance, PTL

\* What is available is whole and recent (AvailableMeansWhole; stablewatch.ts).
THEOREM WholePayload == Spec /\ SupplySpec => []AvailableMeansWhole
<1>1. ASSUME WorkerInv, SupplyInv PROVE AvailableMeansWhole
  <2>0. /\ savings \in Row /\ SumOK(savings, SavingsChains)
        /\ supply \in Row /\ SumOK(supply, SupplyChains)
    BY <1>1 DEF WorkerInv, TablesOK, SupplyInv, SupplySumOK
  <2>1. IsFiniteSet(SupplyChains) /\ IsFiniteSet(SavingsChains) /\ IsFiniteSet(LifetimeChains)
    BY AgeAssumption, CycleAssumption, SupplyAssumption, PayloadAssumption, FS_Subset
  <2>2. SupplyCovered(supply) => DOMAIN supply.included = SupplyChains
    BY <2>0, <2>1, FS_Subset DEF SupplyCovered, SumOK
  <2>3. ASSUME NEW f \in Verdicts, PayloadStatus(YieldRow(f)) = "candidate"
        PROVE  /\ DOMAIN supply.included = SupplyChains
               /\ \A c \in SavingsChains : c \in DOMAIN f /\ f[c] = "verified"
    <3> DEFINE verified == {c \in DOMAIN f : f[c] = "verified"}
    <3>1. DOMAIN f \subseteq SavingsChains
      BY DEF Verdicts
    <3>2. SupplyCovered(supply) /\ Status(verified, SavingsChains) = "complete"
      BY <2>3 DEF PayloadStatus, YpoSevenDay, If, YieldRow
    <3>3. verified = SavingsChains
      BY <3>1, <3>2, CompleteCountsAll, CycleAssumption
    <3> QED
      BY <2>2, <3>2, <3>3
  <2>4. ASSUME NEW f \in Verdicts, DOMAIN f \subseteq LifetimeChains, YpoAllTime(f) = "available"
        PROVE  \A c \in LifetimeChains : c \in DOMAIN f /\ f[c] = "verified"
    <3> DEFINE verified == {c \in DOMAIN f : f[c] = "verified"}
    <3>1. Cardinality(verified) = Cardinality(LifetimeChains)
      BY <2>4, PayloadAssumption DEF YpoAllTime, If
    <3>2. verified = LifetimeChains
      BY <2>1, <2>4, <3>1, FS_Subset
    <3> QED
      BY <3>2
  <2>5. ASSUME GlobalUsdpSupply = "available"
        PROVE  /\ DOMAIN supply.included = SupplyChains
               /\ \A c \in SupplyChains : supply.included[c].age <= MaxAge
    <3>1. SupplyCovered(supply) /\ Shown(supply) # "stale"
      BY <2>5 DEF GlobalUsdpSupply, StaleIf, If
    <3>2. DOMAIN supply.included = SupplyChains
      BY <2>2, <3>1
    <3>3. \A c \in SupplyChains : supply.included[c].age \in Nat
      BY <2>0, <3>2, ComponentsElements DEF Row, Component, Ages
    <3>4. supply.status = "none" => SupplyChains = {}
      BY <2>0, <3>2 DEF SumOK
    <3>5. supply.status # "none" => ~ Outdated(supply)
      BY <3>1 DEF Shown
    <3> QED
      BY <3>2, <3>3, <3>4, <3>5, AgeAssumption DEF Outdated
  <2>6. ASSUME NEW c \in DOMAIN savings.included, savings.included[c].age > MaxAge,
               NEW price \in Prices
        PROVE  "available" \notin {TvlUsdp, TvlUsdEstimate(price), EstimatedApy}
    <3>1. savings.status # "none"
      BY <2>0 DEF SumOK
    <3>2. Shown(savings) = "stale"
      BY <2>6, <3>1 DEF Shown, Outdated
    <3> QED
      BY <3>2 DEF TvlUsdp, TvlUsdEstimate, EstimatedApy, StaleIf, If
  <2> QED
    BY <2>3, <2>4, <2>5, <2>6 DEF AvailableMeansWhole
<1> QED
  BY <1>1, WorkerInvariance, SupplyInvariance, PTL

LEMMA OlderOrLater ==
  ASSUME NEW old \in Row, NEW new \in Row
  PROVE  Forward(old, old) /\ Forward(old, Latest(old, new))
BY LatestType DEF Forward, Row, Ages

\* The sums that readers see do not go back (SumsGoForward), whoever inserts last.
THEOREM ForwardSums == Spec /\ SupplySpec => SumsGoForward
<1>1. WorkerInv /\ [Next]_vars => Forward(savings, savings')
  <2> SUFFICES ASSUME WorkerInv, [Next]_vars PROVE Forward(savings, savings')
    OBVIOUS
  <2>1. savings \in Row /\ \A p \in Processes : job[p].row \in Row
    BY DEF WorkerInv, TablesOK, Job
  <2>2. CASE Tick
    BY <2>2 DEF Tick, Forward
  <2>3. CASE \E p \in Processes : StoreSavings(p)
    BY <2>1, <2>3, OlderOrLater DEF StoreSavings
  <2>4. CASE savings' = savings
    BY <2>1, <2>4, OlderOrLater
  <2>5. Tick \/ (\E p \in Processes : StoreSavings(p)) \/ savings' = savings
    BY DEF Next, CycleStep, Start, TryLock, Leave, Interrupted, Crash, CycleFails, SyncRegistry,
           Capture, CaptureFails, Aggregate, SupplyStored, CaptureBoundary, SessionEnds, vars
  <2> QED
    BY <2>2, <2>3, <2>4, <2>5
<1>2. SupplyInv /\ [SupplyNext]_supplyVars => Forward(supply, supply')
  <2> SUFFICES ASSUME SupplyInv, [SupplyNext]_supplyVars PROVE Forward(supply, supply')
    OBVIOUS
  <2>1. supply \in Row /\ \A p \in Callers : call[p].row \in Row
    BY DEF SupplyInv, SupplySumOK, CallOK
  <2>2. CASE SupplyTick
    BY <2>2 DEF SupplyTick, Forward
  <2>3. CASE \E p \in Callers : StoreSupply(p)
    BY <2>1, <2>3, OlderOrLater DEF StoreSupply
  <2>4. CASE supply' = supply
    BY <2>1, <2>4, OlderOrLater
  <2>5. SupplyTick \/ (\E p \in Callers : StoreSupply(p)) \/ supply' = supply
    BY DEF SupplyNext, StartSupply, AggregateSupply, SupplyFails, CaptureSupply,
           CaptureSupplyFails, supplyVars
  <2> QED
    BY <2>2, <2>3, <2>4, <2>5
<1> QED
  BY <1>1, <1>2, WorkerInvariance, SupplyInvariance, PTL DEF Spec, SupplySpec, SumsGoForward

===============================================================================
