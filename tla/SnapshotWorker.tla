---------------------------- MODULE SnapshotWorker ----------------------------
(***************************************************************************)
(* The savings snapshots of all chains (src/analytics/multichain-snapshots *)
(* and multichain-worker): a worker, which holds an advisory lock and      *)
(* repeats the cycle, and the command snapshot-all, which takes none and   *)
(* runs it once.  A cycle captures the chains beside one another, reads    *)
(* the newest row of each and publishes their sum; the USDp supply, which  *)
(* comes last, is seen from outside (SupplySnapshot).                      *)
(***************************************************************************)
EXTENDS ChainComponents

CONSTANTS
  SavingsChains,  \* savingsChainAdapters
  Answers,        \* chain -> the components its provider may answer with
  Boundaries,     \* the same, of the history lane's reads of older blocks
  Processes,      \* operating-system processes
  Roles,          \* process -> what it may be started as
  LockAttempts,   \* LOCK_RETRY_ATTEMPTS
  Free, Ghost     \* a lock nobody holds, and one a dead session still holds

ASSUME CycleAssumption ==
  /\ SavingsChains \subseteq Chains
  /\ \A f \in {Answers, Boundaries} : f \in [SavingsChains -> SUBSET Component]
  /\ \A p \in Processes : Roles[p] \subseteq {"worker", "snapshot-all"}
  /\ LockAttempts \in Nat \ {0}
  /\ Free # Ghost /\ {Free, Ghost} \cap Processes = {}

VARIABLES
  newest,    \* savings_chain_snapshots: the newest row of each chain that has one
  savings,   \* global_savings_snapshots: the row with the last as_of
  lock,      \* advisory lock 999700002
  job        \* each process: where it is and its locals

vars == <<newest, savings, lock, job>>

Off == [pc |-> "off", role |-> "none", attempts |-> 0, waiting |-> {}, row |-> NoRow]

Init ==
  /\ newest = <<>>
  /\ savings = NoRow
  /\ lock = Free
  /\ job = [p \in Processes |-> Off]

At(p, pc) == job[p].pc = pc
Goto(p, pc) == job' = [job EXCEPT ![p].pc = pc]

Tick ==
  /\ newest' = OlderComponents(newest)
  /\ savings' = OlderRow(savings)
  /\ job' = [p \in Processes |-> [job[p] EXCEPT !.row = OlderRow(job[p].row)]]
  /\ UNCHANGED lock

-------------------------------------------------------------------------------
Start(p) ==
  /\ At(p, "off")
  /\ \E role \in Roles[p] :
       job' = [job EXCEPT ![p] =
                 [Off EXCEPT !.role = role, !.pc = IF role = "worker" THEN "lock" ELSE "cycle"]]
  /\ UNCHANGED <<newest, savings, lock>>

\* pg_try_advisory_lock, LOCK_RETRY_ATTEMPTS times.  Faults: a lock of the
\* transaction, which is gone with the statement; one attempt too many.
AcquireForStatement(p) == lock' = lock
Acquire(p) == lock' = p

OneMore(attempts) == attempts <= LockAttempts
TriesAgain(attempts) == attempts < LockAttempts

TryLock(p) ==
  /\ At(p, "lock")
  /\ IF lock = Free
     THEN /\ Acquire(p)
          /\ job' = [job EXCEPT ![p].attempts = 0, ![p].pc = "cycle"]
     ELSE /\ UNCHANGED lock
          /\ job' = [job EXCEPT ![p].attempts = @ + 1,
                                ![p].pc = IF TriesAgain(job[p].attempts + 1) THEN "lock" ELSE "leave"]
  /\ UNCHANGED <<newest, savings>>

\* A signal that came in the meantime is looked at between two cycles only.
Interrupted(p) ==
  /\ At(p, "cycle") /\ job[p].role = "worker"
  /\ Goto(p, "leave")
  /\ UNCHANGED <<newest, savings, lock>>

\* The `finally` block: to unlock what one does not hold is only a warning.
Leave(p) ==
  /\ At(p, "leave")
  /\ lock' = IF lock = p THEN Free ELSE lock
  /\ job' = [job EXCEPT ![p] = Off]
  /\ UNCHANGED <<newest, savings>>

\* The worker goes on with the next cycle; a command ends.
EndOfCycle(p) ==
  job' = [job EXCEPT ![p] =
            IF job[p].role = "worker" THEN [Off EXCEPT !.role = "worker", !.pc = "cycle"] ELSE Off]

\* Any error that is not one of the capture of a chain.
CycleFails(p) ==
  /\ job[p].pc \in {"cycle", "capture", "store", "supply"}
  /\ job[p].waiting = {}
  /\ EndOfCycle(p)
  /\ UNCHANGED <<newest, savings, lock>>

-------------------------------------------------------------------------------
\* captureConfiguredSavingsSnapshots: all chains at once, each of which may fail.
SyncRegistry(p) ==
  /\ At(p, "cycle")
  /\ job' = [job EXCEPT ![p].pc = "capture", ![p].waiting = SavingsChains]
  /\ UNCHANGED <<newest, savings, lock>>

\* The row of a block is inserted once, and readers order by block time.
Inserted(c, component) ==
  newest' = IF c \notin DOMAIN newest \/ component.age < newest[c].age
            THEN With(newest, c, component) ELSE newest

Answered(p, c) == job' = [job EXCEPT ![p].waiting = @ \ {c}]

Capture(p, c) ==
  /\ At(p, "capture") /\ c \in job[p].waiting
  /\ \E component \in Answers[c] : Inserted(c, component)
  /\ Answered(p, c)
  /\ UNCHANGED <<savings, lock>>

\* No RPC URL, an RPC or database error, another hash than the stored one, or
\* more assets than the vault accounts for.  Fault: the error is not caught.
ThrowCapture(p, c) == EndOfCycle(p)
CatchCapture(p, c) == Answered(p, c)

CaptureFails(p, c) ==
  /\ At(p, "capture") /\ c \in job[p].waiting
  /\ CatchCapture(p, c)
  /\ UNCHANGED <<newest, savings, lock>>

\* runSavingsHistoryRange captures the boundaries of an interval, old or recent.
CaptureBoundary(c) ==
  /\ \E component \in Boundaries[c] : Inserted(c, component)
  /\ UNCHANGED <<savings, lock, job>>

\* aggregateSavingsComponents.  Fault: an invalid component that is recent is
\* not excluded.
TooOld(f) == {c \in DOMAIN f : f[c].age > MaxAge}
Stale(f)  == {c \in DOMAIN f : f[c].age > MaxAge \/ ~ f[c].valid}

Missing(f) == SavingsChains \ DOMAIN f

SavingsRow(f) ==
  LET included == DOMAIN f \ Stale(f)
  IN  [asOf |-> 0, included |-> Among(f, included), stale |-> Stale(f), missing |-> Missing(f),
       failed |-> {}, status |-> Status(included, SavingsChains)]

\* createGlobalSavingsSnapshot reads the newest rows; as_of is when they came.
Aggregate(p) ==
  /\ At(p, "capture") /\ job[p].waiting = {}
  /\ job' = [job EXCEPT ![p].pc = "store", ![p].row = SavingsRow(newest)]
  /\ UNCHANGED <<newest, savings, lock>>

StoreSavings(p) ==
  /\ At(p, "store")
  /\ savings' = Latest(savings, job[p].row)
  /\ job' = [job EXCEPT ![p].pc = "supply", ![p].row = NoRow]
  /\ UNCHANGED <<newest, lock>>

\* captureGlobalUsdpSupply returns; see SupplySnapshot.
SupplyStored(p) ==
  /\ At(p, "supply")
  /\ EndOfCycle(p)
  /\ UNCHANGED <<newest, savings, lock>>

-------------------------------------------------------------------------------
Crash(p) ==
  /\ job[p].pc # "off"
  /\ lock' = IF lock = p THEN Ghost ELSE lock
  /\ job' = [job EXCEPT ![p] = Off]
  /\ UNCHANGED <<newest, savings>>

SessionEnds ==
  /\ lock = Ghost
  /\ lock' = Free
  /\ UNCHANGED <<newest, savings, job>>

CycleStep(p) ==
  \/ TryLock(p) \/ Leave(p) \/ CycleFails(p) \/ SyncRegistry(p)
  \/ \E c \in SavingsChains : Capture(p, c) \/ CaptureFails(p, c)
  \/ Aggregate(p) \/ StoreSavings(p) \/ SupplyStored(p)

Next ==
  \/ \E p \in Processes : Start(p) \/ CycleStep(p) \/ Interrupted(p) \/ Crash(p)
  \/ \E c \in SavingsChains : CaptureBoundary(c)
  \/ SessionEnds
  \/ Tick

Spec == Init /\ [][Next]_vars

\* RPC requests have timeouts, and a statement returns or fails.
Fairness == (\A p \in Processes : WF_vars(CycleStep(p))) /\ WF_vars(SessionEnds)
FairSpec == Spec /\ Fairness

-------------------------------------------------------------------------------
\* The tables and the locals of the processes have their types.
SavingsTypeOK ==
  /\ newest \in Components(SavingsChains)
  /\ savings \in Row
  /\ lock \in Processes \cup {Free, Ghost}
  /\ job \in [Processes ->
       [pc : {"off", "lock", "leave", "cycle", "capture", "store", "supply"},
        role : {"none", "worker", "snapshot-all"}, attempts : 0 .. LockAttempts,
        waiting : SUBSET SavingsChains, row : Row]]

(***************************************************************************)
(* At most one worker is in its loop, whoever crashed, was replaced or is  *)
(* still waiting: two deployments do not read the chains beside one        *)
(* another.                                                                *)
(***************************************************************************)
Looping(p) == job[p].role = "worker" /\ job[p].pc \notin {"off", "lock", "leave"}
OneWorkerCycles == \A p, q \in Processes : Looping(p) /\ Looping(q) => p = q

(***************************************************************************)
(* A worker that keeps running publishes again and again, unless the       *)
(* database fails again and again.  Chains that never answer cannot stop   *)
(* it (README.md: it "records missing or failed RPCs as partial            *)
(* coverage").                                                             *)
(***************************************************************************)
KeepsPublishing ==
  \A p \in Processes :
    <>[]Looping(p) => []<><<StoreSavings(p)>>_vars \/ []<><<CycleFails(p)>>_vars
================================================================================
