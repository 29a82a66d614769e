----------------------------- MODULE HolderLedger -----------------------------
(***************************************************************************)
(* The holder ledger of one chain: holder_balances and                     *)
(* asset_activity_aggregates, as rebuildHolderLedger writes them and their *)
(* readers read them.  It is rebuilt by lifetime lanes (lifetime-backfill: *)
(* resolve a goal, take the lock, ingest, rebuild) and by holders-replay,  *)
(* a command that takes no lock and any range.  That the replay of a range *)
(* computes the net of its transfers is shown in HolderReplay; that the    *)
(* evidence of a covered range is complete and stays, in EvidenceLog.      *)
(***************************************************************************)
EXTENDS Transfers

CONSTANTS
  History,     \* the transfers of the final chain
  Deploy,      \* the deployment block, where the lane starts
  MaxBlock,    \* bound on the finalised head
  Lanes,       \* processes that run lifetime-backfill
  Replayers,   \* processes that run holders-replay
  Caps         \* the values of --to-block; MaxBlock stands for none

Blocks    == Deploy .. MaxBlock
Processes == Lanes \cup Replayers
Free      == "free"

ASSUME LedgerAssumption ==
  /\ Deploy \in Nat /\ MaxBlock \in Nat /\ Deploy <= MaxBlock
  /\ Free \notin Lanes /\ Lanes \cap Replayers = {}
  /\ Caps \subseteq Blocks
  /\ IsFiniteSet(History) /\ History \subseteq Transfer(Blocks, Nat)
  /\ Ordered(History) /\ Solvent(History)

VARIABLES
  head,       \* the finalised head
  covered,    \* the last block of the scope's gapless coverage
  lock,       \* the lane that holds the advisory lock, or Free
  job,        \* each process: where it is, on which range, the rows it computed
  ledger,     \* holder_balances: holder -> [balance, from, to]
  activity,   \* asset_activity_aggregates: set of [from, to, active]
  ordered     \* history: every replay stored so far started at the deployment
              \* and reached at least as far as those stored before it

vars == <<head, covered, lock, job, ledger, activity, ordered>>

Within(es, r) == {e \in es : r.from <= e.at /\ e.at <= r.to}

\* The evidence that is there: what coverage vouches for.
Evidence == {e \in History : e.at <= covered}

\* The rows a replay of some transfers over a range gives.
Rows(es, r) ==
  [h \in Touched(es) |-> [balance |-> Net(es, h), from |-> r.from, to |-> r.to]]

\* Fault: rows that have come down to zero are counted.
AllRows(rows) == Cardinality(DOMAIN rows)
Active(rows)  == Cardinality({h \in DOMAIN rows : rows[h].balance # 0})

NoRange == [from |-> Deploy, to |-> Deploy]
Idle    == [pc |-> "idle", range |-> NoRange, rows |-> <<>>]

Init ==
  /\ head \in Blocks
  /\ covered = Deploy - 1
  /\ lock = Free
  /\ job = [p \in Processes |-> Idle]
  /\ ledger = <<>>
  /\ activity = {}
  /\ ordered = TRUE

-------------------------------------------------------------------------------
At(p, here)  == job[p].pc = here
Becomes(p, j) == job' = [job EXCEPT ![p] = j]
Goto(p, pc)   == Becomes(p, [pc |-> pc, range |-> job[p].range, rows |-> <<>>])

\* A rebuild ends, and what it knew is gone; a lane has to give its lock back.
Leave(p) == Becomes(p, [Idle EXCEPT !.pc = IF p \in Lanes THEN "unlock" ELSE "idle"])

Finalize ==
  /\ head < MaxBlock
  /\ head' = head + 1
  /\ UNCHANGED <<covered, lock, job, ledger, activity, ordered>>

\* capLifetimeActivityRange.  Fault: a goal behind the last block of the range.
OpenGoal(cap) == IF cap < head THEN cap ELSE head + 1
Goal(cap)     == IF cap < head THEN cap ELSE head

\* The goal is fixed before the lock is asked for, for all chains of a command.
Resolve(l) ==
  /\ At(l, "idle")
  /\ \E cap \in Caps \cup {MaxBlock} :
       Becomes(l, [Idle EXCEPT !.pc = "resolved", !.range = [from |-> Deploy, to |-> Goal(cap)]])
  /\ UNCHANGED <<head, covered, lock, ledger, activity, ordered>>

\* pg_try_advisory_lock; a lane that does not get it throws.
Lock(l) ==
  /\ At(l, "resolved")
  /\ lock = Free
  /\ lock' = l
  /\ Goto(l, "ingest")
  /\ UNCHANGED <<head, covered, ledger, activity, ordered>>

Busy(l) ==
  /\ At(l, "resolved")
  /\ lock # Free
  /\ Becomes(l, Idle)
  /\ UNCHANGED <<head, covered, lock, ledger, activity, ordered>>

\* ingestLogs, and rebuildFlowAnalytics behind it.  A goal that is covered
\* already is a no-op.
Ingest(l) ==
  /\ At(l, "ingest")
  /\ covered' = IF covered < job[l].range.to THEN job[l].range.to ELSE covered
  /\ Goto(l, "gate")
  /\ UNCHANGED <<head, lock, ledger, activity, ordered>>

\* Interrupted, or thrown out of, on the way or behind it.
IngestPartly(l) ==
  /\ At(l, "ingest")
  /\ covered' \in {covered} \cup (covered .. job[l].range.to)
  /\ Leave(l)
  /\ UNCHANGED <<head, lock, ledger, activity, ordered>>

Unlock(l) ==
  /\ At(l, "unlock")
  /\ lock' = Free
  /\ Becomes(l, Idle)
  /\ UNCHANGED <<head, covered, ledger, activity, ordered>>

\* holders-replay: the arguments say what is replayed.
StartReplay(p) ==
  /\ At(p, "idle")
  /\ \E from, to \in Blocks :
       /\ from <= to
       /\ Becomes(p, [Idle EXCEPT !.pc = "gate", !.range = [from |-> from, to |-> to]])
  /\ UNCHANGED <<head, covered, lock, ledger, activity, ordered>>

-------------------------------------------------------------------------------
\* rebuildHolderLedger: verifyCoverage, a statement of its own.  Fault: the gate
\* is not asked.
AlwaysCovered(r) == TRUE
Covered(r) == Deploy <= r.from /\ r.to <= covered

Gate(p) ==
  /\ At(p, "gate")
  /\ IF Covered(job[p].range) THEN Goto(p, "read") ELSE Leave(p)
  /\ UNCHANGED <<head, covered, lock, ledger, activity, ordered>>

\* The transfers are read and replayed.
Read(p) ==
  /\ At(p, "read")
  /\ LET r  == job[p].range
         es == Within(Evidence, r)
     IN  /\ Solvent(es)
         /\ Becomes(p, [pc |-> "store", range |-> r, rows |-> Rows(es, r)])
  /\ UNCHANGED <<head, covered, lock, ledger, activity, ordered>>

\* A holder would become negative: the replay throws.
Refuse(p) ==
  /\ At(p, "read")
  /\ ~ Solvent(Within(Evidence, job[p].range))
  /\ Leave(p)
  /\ UNCHANGED <<head, covered, lock, ledger, activity, ordered>>

\* The upsert of the balances: a row that the replay does not name stays.
\* Fault: a conflict leaves the older row alone.
Over(rows, others) ==
  [h \in DOMAIN rows \cup DOMAIN others |-> IF h \in DOMAIN rows THEN rows[h] ELSE others[h]]
FirstRowWins(old, new) == Over(old, new)
Upserted(old, new)     == Over(new, old)

\* One transaction for both tables; the activity row of a range is replaced.  The
\* answer of the commit does not matter: nothing of the process depends on it.
Store(p) ==
  /\ At(p, "store")
  /\ LET r == job[p].range
     IN  /\ ledger' = Upserted(ledger, job[p].rows)
         /\ activity' = {a \in activity : a.from # r.from \/ a.to # r.to}
              \cup {[from |-> r.from, to |-> r.to, active |-> Active(job[p].rows)]}
         /\ ordered' = (ordered /\ r.from = Deploy /\ \A a \in activity : a.to <= r.to)
  /\ Leave(p)
  /\ UNCHANGED <<head, covered, lock>>

Rollback(p) ==
  /\ At(p, "store")
  /\ Leave(p)
  /\ UNCHANGED <<head, covered, lock, ledger, activity, ordered>>

\* A process dies; its session, and the lock with it, end.
Crash(p) ==
  /\ ~ At(p, "idle")
  /\ Becomes(p, Idle)
  /\ lock' = IF lock = p THEN Free ELSE lock
  /\ UNCHANGED <<head, covered, ledger, activity, ordered>>

Rebuild(p) == Gate(p) \/ Read(p) \/ Refuse(p) \/ Store(p) \/ Rollback(p)
Lane(l)    == Resolve(l) \/ Lock(l) \/ Busy(l) \/ Ingest(l) \/ IngestPartly(l) \/ Unlock(l)

Next ==
  \/ Finalize
  \/ \E l \in Lanes : Lane(l)
  \/ \E p \in Replayers : StartReplay(p)
  \/ \E p \in Processes : Rebuild(p) \/ Crash(p)

Spec == Init /\ [][Next]_vars

-------------------------------------------------------------------------------
\* latestCoverage (range-analytics.ts): the activity row that reaches furthest,
\* and the number of balances that are not zero, whatever range they come from.
Latest == CHOOSE a \in activity : \A b \in activity : b.to <= a.to
CurrentHolders == Active(ledger)

\* Who holds the token at the end of a block.
HoldersAt(b) ==
  LET es == Within(History, [from |-> Deploy, to |-> b])
  IN  {h \in Touched(es) : Net(es, h) # 0}

-------------------------------------------------------------------------------
Places == {"idle", "resolved", "ingest", "gate", "read", "store", "unlock"}

IsLedger(rows) ==
  /\ DOMAIN rows \subseteq Holders
  /\ \A h \in DOMAIN rows : rows[h].from \in Blocks /\ rows[h].to \in Blocks

TypeOK ==
  /\ head \in Blocks
  /\ covered \in Deploy - 1 .. MaxBlock
  /\ lock \in Lanes \cup {Free}
  /\ DOMAIN job = Processes
  /\ \A p \in Processes : /\ job[p].pc \in Places
                          /\ job[p].range \in [from : Blocks, to : Blocks]
                          /\ IsLedger(job[p].rows)
  /\ IsLedger(ledger)
  /\ ordered \in BOOLEAN

\* A row is what its range says: the net of all transfers of the final chain in
\* it, not of those that happened to be stored, although lanes and commands read
\* and write in any order and the gate, the read and the commit are apart.
RowsAreHonest ==
  /\ \A h \in DOMAIN ledger :
       ledger[h].balance = Net(Within(History, [from |-> ledger[h].from, to |-> ledger[h].to]), h)
  /\ \A a \in activity : a.active = Active(Rows(Within(History, a), a))

(***************************************************************************)
(* Replays that started at the deployment and whose ends did not go back,  *)
(* whichever lanes and commands stored them, leave the rows of one replay: *)
(* none of an earlier one is left over.                                    *)
(***************************************************************************)
LedgerIsOneReplay ==
  ordered /\ activity # {} =>
    LET r == [from |-> Deploy, to |-> Latest.to]
    IN  ledger = Rows(Within(History, r), r)

\* What the range API calls currentHoldersAtCoverageEnd: those who hold the token
\* at the end of the coverage it reports.
CurrentHoldersAtCoverageEnd ==
  ordered /\ activity # {} => CurrentHolders = Cardinality(HoldersAt(Latest.to))

===============================================================================
