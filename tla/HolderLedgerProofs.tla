-------------------------- MODULE HolderLedgerProofs --------------------------
(***************************************************************************)
(* What the holder ledger says, proved for every history, every number of  *)
(* lanes and commands, and every goal.                                     *)
(***************************************************************************)
EXTENDS Verification, Publication, SumTheorems, TLAPS

\* A job is well formed; behind the gate its range is covered, and what it has
\* computed is the replay of all transfers in its range.
JobOK(j) ==
  /\ j.pc \in Places
  /\ j.range \in [from : Blocks, to : Blocks]
  /\ IsLedger(j.rows)
  /\ j.pc \in {"read", "store"} => j.range.to <= covered
  /\ j.pc = "store" => j.rows = Rows(Within(History, j.range), j.range)

\* Everything but the jobs.
TablesOK ==
  /\ head \in Blocks
  /\ covered \in Deploy - 1 .. MaxBlock
  /\ lock \in Lanes \cup {Free}
  /\ IsLedger(ledger)
  /\ \A a \in activity : a.from \in Blocks /\ a.to \in Blocks
  /\ ordered \in BOOLEAN

Inv ==
  /\ DOMAIN job = Processes
  /\ \A p \in Processes : JobOK(job[p])
  /\ TablesOK
  /\ RowsAreHonest

-------------------------------------------------------------------------------
\* A process takes a step: its job is the new one, the others keep theirs.
LEMMA BecomesFacts ==
  ASSUME DOMAIN job = Processes, NEW p \in Processes, NEW j, Becomes(p, j)
  PROVE  /\ DOMAIN job' = Processes
         /\ job'[p] = j
         /\ \A q \in Processes : q # p => job'[q] = job[q]
  BY DEF Becomes

\* The blocks are integers.
LEMMA BlocksAreIntegers ==
  /\ Deploy \in Int /\ MaxBlock \in Int /\ Deploy <= MaxBlock
  /\ Blocks \subseteq Int
  /\ \A b \in Blocks : Deploy <= b /\ b <= MaxBlock
  /\ \A b \in Deploy - 1 .. MaxBlock : b \in Int /\ Deploy - 1 <= b /\ b <= MaxBlock
  BY LedgerAssumption DEF Blocks

\* An idle job, and one that only has to give its lock back, promise nothing.
LEMMA IdleJobOK ==
  /\ JobOK(Idle)
  /\ \A pc \in Places \ {"read", "store"} : JobOK([Idle EXCEPT !.pc = pc])
  /\ \A pc \in Places \ {"read", "store"}, r \in [from : Blocks, to : Blocks] :
       JobOK([Idle EXCEPT !.pc = pc, !.range = r])
<1>1. Deploy \in Blocks  BY LedgerAssumption DEF Blocks
<1>2. IsLedger(<<>>)  BY DEF IsLedger
<1>3. NoRange \in [from : Blocks, to : Blocks]  BY <1>1 DEF NoRange
<1> QED  BY <1>2, <1>3 DEF JobOK, Idle, Places

\* What coverage vouches for is all there is.
LEMMA CoveredEvidence ==
  ASSUME NEW r \in [from : Blocks, to : Blocks], covered \in Int, r.to <= covered
  PROVE  Within(Evidence, r) = Within(History, r)
<1>1. \A e \in History : e.at \in Int
  BY LedgerAssumption, BlocksAreIntegers DEF Transfer
<1>2. r.to \in Int /\ r.from \in Int  BY BlocksAreIntegers
<1> QED  BY <1>1, <1>2 DEF Within, Evidence

\* Coverage grows, as far as the goal.
LEMMA CoverageStep ==
  ASSUME covered \in Deploy - 1 .. MaxBlock, NEW to \in Blocks, NEW b,
         b = covered \/ (covered < to /\ b = to) \/ b \in covered .. to
  PROVE  b \in covered .. MaxBlock
  BY BlocksAreIntegers

\* A replay gives rows of its range to holders.
LEMMA RowsAreLedger ==
  ASSUME NEW es, NEW r \in [from : Blocks, to : Blocks]
  PROVE  IsLedger(Rows(es, r))
  BY DEF IsLedger, Rows, Touched

-------------------------------------------------------------------------------
LEMMA InitInv == Init => Inv
<1> SUFFICES ASSUME Init PROVE Inv  OBVIOUS
<1>1. DOMAIN job = Processes /\ \A p \in Processes : JobOK(job[p])
  BY IdleJobOK DEF Init
<1>2. IsLedger(ledger) /\ RowsAreHonest
  BY DEF Init, IsLedger, RowsAreHonest
<1>3. TablesOK
  BY <1>2, LedgerAssumption DEF Init, TablesOK, Blocks
<1> QED  BY <1>1, <1>2, <1>3 DEF Inv

\* A step that leaves the tables alone and gives one process a sound job.
LEMMA JobStep ==
  ASSUME Inv, NEW p \in Processes, NEW j, Becomes(p, j), JobOK(j),
         head' \in Blocks, covered' \in covered .. MaxBlock, lock' \in Lanes \cup {Free},
         UNCHANGED <<ledger, activity, ordered>>
  PROVE  Inv'
<1>1. covered \in Int /\ covered' \in Int /\ covered <= covered'
      /\ covered' \in Deploy - 1 .. MaxBlock
  BY BlocksAreIntegers DEF Inv, TablesOK
<1>2. ASSUME NEW i, JobOK(i) PROVE JobOK(i)'
  <2>1. i.range.to \in Int  BY <1>2, BlocksAreIntegers DEF JobOK
  <2> QED  BY <1>1, <1>2, <2>1 DEF JobOK
<1>3. DOMAIN job' = Processes /\ \A q \in Processes : JobOK(job[q])'
  <2>1. ASSUME NEW q \in Processes PROVE JobOK(job[q])'
    <3>1. PICK i : i = job'[q]  OBVIOUS
    <3>2. JobOK(i)
      <4>1. DOMAIN job = Processes /\ JobOK(job[q])  BY DEF Inv
      <4>2. i = j \/ i = job[q]  BY <3>1, <4>1, BecomesFacts
      <4> QED  BY <4>1, <4>2
    <3>3. JobOK(i)'  BY <3>2, <1>2
    <3> QED  BY <3>1, <3>3
  <2>2. DOMAIN job = Processes  BY DEF Inv
  <2> QED  BY <2>1, <2>2, BecomesFacts
<1>4. TablesOK'  BY <1>1 DEF Inv, TablesOK
<1>5. RowsAreHonest'  BY DEF Inv, RowsAreHonest
<1> QED  BY <1>3, <1>4, <1>5 DEF Inv

\* The commit: rows of a covered range, and the activity row they give.
LEMMA StoreStep ==
  ASSUME Inv, NEW p \in Processes, Store(p)
  PROVE  Inv'
<1>1. PICK i : i = job[p]  OBVIOUS
<1> DEFINE r == i.range
           new == [from |-> r.from, to |-> r.to, active |-> Active(i.rows)]
<1>2. /\ JobOK(i) /\ DOMAIN job = Processes /\ i.pc = "store"
      /\ r \in [from : Blocks, to : Blocks]
      /\ i.rows = Rows(Within(History, r), r)
  BY <1>1 DEF Inv, JobOK, Store, At
<1>3. /\ ledger' = Over(i.rows, ledger)
      /\ activity' \subseteq activity \cup {new}
      /\ UNCHANGED <<head, covered, lock>>
  BY <1>1 DEF Store, Upserted
<1>4. PICK l : l = [Idle EXCEPT !.pc = IF p \in Lanes THEN "unlock" ELSE "idle"]  OBVIOUS
<1>5. JobOK(l)
  BY <1>4, IdleJobOK DEF Places
<1>6. DOMAIN job' = Processes /\ \A q \in Processes : JobOK(job[q])'
  <2>1. Becomes(p, l)  BY <1>4 DEF Store, Leave
  <2>2. ASSUME NEW q \in Processes PROVE JobOK(job[q])'
    <3>1. PICK k : k = job'[q]  OBVIOUS
    <3>2. k = l \/ k = job[q]  BY <1>2, <2>1, <3>1, BecomesFacts
    <3>3. JobOK(k)  BY <1>5, <3>2 DEF Inv
    <3>4. JobOK(k)'  BY <3>3, <1>3 DEF JobOK
    <3> QED  BY <3>1, <3>4
  <2> QED  BY <1>2, <2>1, <2>2, BecomesFacts
<1>7. /\ DOMAIN ledger' = DOMAIN i.rows \cup DOMAIN ledger
      /\ \A h \in DOMAIN ledger' :
           ledger'[h] = IF h \in DOMAIN i.rows THEN i.rows[h] ELSE ledger[h]
  BY <1>3 DEF Over
<1>8. TablesOK'
  <2>1. IsLedger(ledger')
    BY <1>2, <1>7 DEF Inv, TablesOK, JobOK, IsLedger
  <2>2. \A a \in activity' : a.from \in Blocks /\ a.to \in Blocks
    BY <1>2, <1>3 DEF Inv, TablesOK
  <2>3. ordered' \in BOOLEAN  BY DEF Store, Inv, TablesOK
  <2> QED  BY <1>3, <2>1, <2>2, <2>3 DEF Inv, TablesOK, IsLedger
<1>9. RowsAreHonest'
  <2>1. ASSUME NEW h \in DOMAIN ledger'
        PROVE  ledger'[h].balance
                 = Net(Within(History, [from |-> ledger'[h].from, to |-> ledger'[h].to]), h)
    <3>1. CASE h \in DOMAIN i.rows
      <4>1. /\ ledger'[h].balance = Net(Within(History, r), h)
            /\ ledger'[h].from = r.from /\ ledger'[h].to = r.to
        BY <1>2, <1>7, <3>1 DEF Rows
      <4>2. Within(History, r) = Within(History, [from |-> r.from, to |-> r.to])
        BY DEF Within
      <4> QED  BY <4>1, <4>2
    <3>2. CASE h \notin DOMAIN i.rows
      BY <1>7, <3>2 DEF Inv, RowsAreHonest
    <3> QED  BY <3>1, <3>2
  <2>2. ASSUME NEW a \in activity'
        PROVE  a.active = Active(Rows(Within(History, a), a))
    <3>1. CASE a = new
      <4>1. Rows(Within(History, a), a) = i.rows
        BY <1>2, <3>1 DEF Rows, Within
      <4> QED  BY <3>1, <4>1
    <3>2. CASE a \in activity
      BY <3>2 DEF Inv, RowsAreHonest
    <3> QED  BY <1>3, <3>1, <3>2
  <2> QED  BY <2>1, <2>2 DEF RowsAreHonest
<1> QED  BY <1>6, <1>8, <1>9 DEF Inv

\* The actions of lifetime-backfill around the rebuild.
LEMMA LaneStep ==
  ASSUME Inv, NEW l \in Lanes, Lane(l)
  PROVE  Inv'
<1>1. PICK i : i = job[l]  OBVIOUS
<1>2. l \in Processes /\ JobOK(i) /\ TablesOK /\ i.range \in [from : Blocks, to : Blocks]
      /\ i.range.to \in Blocks
  BY <1>1 DEF Inv, Processes, JobOK
<1>3. covered \in covered .. MaxBlock /\ head \in Blocks /\ lock \in Lanes \cup {Free}
  BY <1>2, BlocksAreIntegers DEF TablesOK
<1>4. CASE Resolve(l)
  <2>1. PICK cap \in Caps \cup {MaxBlock} :
          Becomes(l, [Idle EXCEPT !.pc = "resolved", !.range = [from |-> Deploy, to |-> Goal(cap)]])
    BY <1>4 DEF Resolve
  <2>2. PICK g : g = Goal(cap)  OBVIOUS
  <2>3. g \in Blocks /\ Deploy \in Blocks
    BY <1>3, <2>2, LedgerAssumption DEF Goal, Blocks
  <2>4. PICK j : j = [Idle EXCEPT !.pc = "resolved", !.range = [from |-> Deploy, to |-> g]]
    OBVIOUS
  <2>5. JobOK(j)  BY <2>3, <2>4, IdleJobOK DEF Places
  <2> QED  BY <1>2, <1>3, <1>4, <2>1, <2>2, <2>4, <2>5, JobStep DEF Resolve
<1>5. CASE Lock(l) \/ Ingest(l)
  <2>1. PICK pc \in {"ingest", "gate"} : Goto(l, pc)
    BY <1>5 DEF Lock, Ingest
  <2>2. PICK j : j = [pc |-> pc, range |-> i.range, rows |-> <<>>]  OBVIOUS
  <2>3. JobOK(j)  BY <1>2, <2>2 DEF JobOK, Places, IsLedger
  <2>4. Becomes(l, j)  BY <1>1, <2>1, <2>2 DEF Goto
  <2>5. covered' = covered \/ (covered < i.range.to /\ covered' = i.range.to)
    BY <1>1, <1>5 DEF Lock, Ingest
  <2>6. covered' \in covered .. MaxBlock
    BY <1>2, <1>3, <2>5, CoverageStep DEF TablesOK
  <2>7. lock' \in Lanes \cup {Free} /\ UNCHANGED <<head, ledger, activity, ordered>>
    BY <1>3, <1>5 DEF Lock, Ingest
  <2> QED  BY <1>2, <1>3, <2>3, <2>4, <2>6, <2>7, JobStep
<1>6. CASE Busy(l) \/ Unlock(l)
  <2>1. PICK j : j = Idle  OBVIOUS
  <2> QED  BY <1>2, <1>3, <1>6, <2>1, IdleJobOK, JobStep DEF Busy, Unlock
<1>7. CASE IngestPartly(l)
  <2>1. PICK j : j = [Idle EXCEPT !.pc = "unlock"]  OBVIOUS
  <2>2. JobOK(j) /\ Becomes(l, j)
    BY <1>7, <2>1, IdleJobOK DEF IngestPartly, Leave, Places
  <2>3. covered' \in covered .. MaxBlock
    <3>1. covered' = covered \/ covered' \in covered .. i.range.to
      BY <1>1, <1>7 DEF IngestPartly
    <3> QED  BY <1>2, <1>3, <3>1, CoverageStep DEF TablesOK
  <2> QED  BY <1>2, <1>3, <1>7, <2>2, <2>3, JobStep DEF IngestPartly
<1> QED  BY <1>4, <1>5, <1>6, <1>7 DEF Lane

\* rebuildHolderLedger.
LEMMA RebuildStep ==
  ASSUME Inv, NEW p \in Processes, Rebuild(p)
  PROVE  Inv'
<1>1. PICK i : i = job[p]  OBVIOUS
<1>2. JobOK(i) /\ TablesOK /\ i.range \in [from : Blocks, to : Blocks]
  BY <1>1 DEF Inv, JobOK
<1>3. covered \in covered .. MaxBlock /\ head \in Blocks /\ lock \in Lanes \cup {Free}
      /\ covered \in Int
  BY <1>2, BlocksAreIntegers DEF TablesOK
<1>4. ASSUME Leave(p), UNCHANGED <<head, covered, lock, ledger, activity, ordered>>
      PROVE  Inv'
  <2>1. PICK j : j = [Idle EXCEPT !.pc = IF p \in Lanes THEN "unlock" ELSE "idle"]  OBVIOUS
  <2>2. JobOK(j)  BY <2>1, IdleJobOK DEF Places
  <2> QED  BY <1>3, <1>4, <2>1, <2>2, JobStep DEF Leave
<1>5. CASE Gate(p) /\ Covered(i.range)
  <2>1. PICK j : j = [pc |-> "read", range |-> i.range, rows |-> <<>>]  OBVIOUS
  <2>2. JobOK(j)  BY <1>2, <1>5, <2>1 DEF JobOK, Places, IsLedger, Covered
  <2>3. Becomes(p, j)  BY <1>1, <1>5, <2>1 DEF Gate, Goto
  <2> QED  BY <1>3, <1>5, <2>2, <2>3, JobStep DEF Gate
<1>6. CASE Read(p)
  <2> DEFINE es == Within(Evidence, i.range)
  <2>1. PICK j : j = [pc |-> "store", range |-> i.range, rows |-> Rows(es, i.range)]
    OBVIOUS
  <2>2. es = Within(History, i.range) /\ i.range.to <= covered
    BY <1>1, <1>2, <1>3, <1>6, CoveredEvidence DEF JobOK, Read, At
  <2>3. JobOK(j)
    <3>1. IsLedger(j.rows)  BY <1>2, <2>1, RowsAreLedger
    <3> QED  BY <1>2, <2>1, <2>2, <3>1 DEF JobOK, Places
  <2>4. Becomes(p, j)  BY <1>1, <1>6, <2>1 DEF Read
  <2> QED  BY <1>3, <1>6, <2>3, <2>4, JobStep DEF Read
<1>7. CASE Gate(p) /\ ~ Covered(i.range)
  BY <1>1, <1>4, <1>7 DEF Gate
<1>8. CASE Refuse(p) \/ Rollback(p)
  BY <1>4, <1>8 DEF Refuse, Rollback
<1>9. CASE Store(p)
  BY <1>9, StoreStep
<1> QED  BY <1>5, <1>6, <1>7, <1>8, <1>9 DEF Rebuild

LEMMA NextInv == Inv /\ [Next]_vars => Inv'
<1> SUFFICES ASSUME Inv, [Next]_vars PROVE Inv'  OBVIOUS
<1>0. TablesOK /\ covered \in covered .. MaxBlock
  BY BlocksAreIntegers DEF Inv, TablesOK
<1>1. CASE UNCHANGED vars \/ Finalize
  <2>1. UNCHANGED <<covered, lock, job, ledger, activity, ordered>> /\ head' \in Blocks
    BY <1>1, <1>0, BlocksAreIntegers DEF vars, Finalize, TablesOK, Blocks
  <2> QED  BY <2>1 DEF Inv, JobOK, TablesOK, RowsAreHonest
<1>2. ASSUME NEW l \in Lanes, Lane(l) PROVE Inv'
  BY <1>2, LaneStep
<1>3. ASSUME NEW p \in Replayers, StartReplay(p) PROVE Inv'
  <2>1. PICK from \in Blocks, to \in Blocks :
          Becomes(p, [Idle EXCEPT !.pc = "gate", !.range = [from |-> from, to |-> to]])
    BY <1>3 DEF StartReplay
  <2>2. PICK j : j = [Idle EXCEPT !.pc = "gate", !.range = [from |-> from, to |-> to]]
    OBVIOUS
  <2>3. JobOK(j)  BY <2>2, IdleJobOK DEF Places
  <2>4. p \in Processes  BY DEF Processes
  <2> QED  BY <1>0, <1>3, <2>1, <2>2, <2>3, <2>4, JobStep DEF StartReplay, TablesOK
<1>4. ASSUME NEW p \in Processes, Rebuild(p) PROVE Inv'
  BY <1>4, RebuildStep
<1>5. ASSUME NEW p \in Processes, Crash(p) PROVE Inv'
  <2>1. PICK j : j = Idle  OBVIOUS
  <2> QED  BY <1>0, <1>5, <2>1, IdleJobOK, JobStep DEF Crash, TablesOK
<1> QED  BY <1>1, <1>2, <1>3, <1>4, <1>5 DEF Next

LEMMA Invariance == Spec => []Inv
  BY InitInv, NextInv, PTL DEF Spec

\* The variables keep their types, for any number of processes.
THEOREM TypeCorrect == Spec => []TypeOK
<1>1. Inv => TypeOK  BY DEF Inv, TablesOK, JobOK, TypeOK
<1> QED  BY <1>1, Invariance, PTL

\* Every balance and every activity row is what the final chain says of its
\* range, whoever wrote it and in whatever order.
THEOREM HonestRows == Spec => []RowsAreHonest
<1>1. Inv => RowsAreHonest  BY DEF Inv
<1> QED  BY <1>1, Invariance, PTL
-------------------------------------------------------------------------------
\* From the deployment up to a block.
UpTo(b) == [from |-> Deploy, to |-> b]

\* The ledger is the replay that reaches furthest.
LastReplay ==
  /\ activity = {} => DOMAIN ledger = {}
  /\ activity # {} =>
       \E a \in activity : /\ \A b \in activity : b.to <= a.to
                           /\ ledger = Rows(Within(History, UpTo(a.to)), UpTo(a.to))

OrderInv == Inv /\ (ordered => LastReplay)

\* A replay that reaches further names everyone whom a shorter one names.
LEMMA LongerReplay ==
  ASSUME NEW b \in Blocks, NEW c \in Blocks, b <= c
  PROVE  Touched(Within(History, UpTo(b))) \subseteq Touched(Within(History, UpTo(c)))
<1>1. \A e \in History : e.at \in Int
  BY LedgerAssumption, BlocksAreIntegers DEF Transfer
<1>2. b \in Int /\ c \in Int  BY BlocksAreIntegers
<1>3. Within(History, UpTo(b)) \subseteq Within(History, UpTo(c))
  BY <1>1, <1>2 DEF Within, UpTo
<1> QED  BY <1>3 DEF Touched

\* A commit in order replaces the whole ledger.
LEMMA StoreInOrder ==
  ASSUME OrderInv, NEW p \in Processes, Store(p), ordered'
  PROVE  LastReplay'
<1>1. PICK i : i = job[p]  OBVIOUS
<1> DEFINE r == i.range
           new == [from |-> r.from, to |-> r.to, active |-> Active(i.rows)]
<1>2. /\ JobOK(i) /\ i.pc = "store" /\ r.from = Deploy /\ r.to \in Blocks
      /\ r.from \in Blocks
      /\ \A a \in activity : a.to <= r.to
      /\ i.rows = Rows(Within(History, r), r)
      /\ LastReplay
  BY <1>1 DEF OrderInv, Inv, Store, At, JobOK
<1>3. /\ ledger' = Over(i.rows, ledger)
      /\ new \in activity' /\ activity' \subseteq activity \cup {new}
  BY <1>1 DEF Store, Upserted
<1>4. r = UpTo(r.to)
  BY <1>2 DEF UpTo, JobOK
<1>5. \A a \in activity : a.to \in Blocks
  BY DEF OrderInv, Inv, TablesOK
<1>6. DOMAIN ledger \subseteq DOMAIN i.rows
  <2>1. CASE activity = {}
    BY <1>2, <2>1 DEF LastReplay
  <2>2. CASE activity # {}
    <3>1. PICK a \in activity : ledger = Rows(Within(History, UpTo(a.to)), UpTo(a.to))
      BY <1>2, <2>2 DEF LastReplay
    <3>2. Touched(Within(History, UpTo(a.to))) \subseteq Touched(Within(History, UpTo(r.to)))
      BY <1>2, <1>5, LongerReplay
    <3> QED  BY <1>2, <1>4, <3>1, <3>2 DEF Rows
  <2> QED  BY <2>1, <2>2
<1>7. ledger' = i.rows
  <2>1. i.rows = [h \in DOMAIN i.rows |-> i.rows[h]]
    BY <1>2 DEF Rows
  <2>2. DOMAIN i.rows \cup DOMAIN ledger = DOMAIN i.rows
    BY <1>6
  <2> QED  BY <1>3, <2>1, <2>2 DEF Over
<1> QED
  <2>1. r.to <= r.to
    <3>1. r.to \in Int  BY <1>2, BlocksAreIntegers
    <3> QED  BY <3>1
  <2>2. \A b \in activity' : b.to <= new.to
    BY <1>2, <1>3, <2>1
  <2>3. ledger' = Rows(Within(History, UpTo(new.to)), UpTo(new.to))
    BY <1>2, <1>4, <1>7
  <2>4. activity' # {}  BY <1>3
  <2> QED  BY <1>3, <2>2, <2>3, <2>4 DEF LastReplay

LEMMA OrderInvariance == Spec => []OrderInv
<1>1. Init => OrderInv  BY InitInv DEF OrderInv, LastReplay, Init
<1>2. ASSUME OrderInv, [Next]_vars PROVE OrderInv'
  <2>1. Inv'  BY <1>2, NextInv DEF OrderInv
  <2>2. CASE \E p \in Processes : Store(p)
    BY <1>2, <2>1, <2>2, StoreInOrder DEF OrderInv
  <2>3. CASE ~ \E p \in Processes : Store(p)
    <3>1. UNCHANGED <<ledger, activity, ordered>>
      BY <1>2, <2>3 DEF Next, vars, Finalize, Lane, Resolve, Lock, Busy, Ingest, IngestPartly,
                        Unlock, StartReplay, Rebuild, Gate, Read, Refuse, Rollback, Crash
    <3> QED  BY <1>2, <2>1, <3>1 DEF OrderInv, LastReplay
  <2> QED  BY <2>2, <2>3
<1> QED  BY <1>1, <1>2, PTL DEF Spec

\* The activity row that readers choose is the one the ledger belongs to.
LEMMA LatestIsLast ==
  ASSUME OrderInv, ordered, activity # {}
  PROVE  ledger = Rows(Within(History, UpTo(Latest.to)), UpTo(Latest.to))
<1>1. PICK a \in activity : /\ \A b \in activity : b.to <= a.to
                            /\ ledger = Rows(Within(History, UpTo(a.to)), UpTo(a.to))
  BY DEF OrderInv, LastReplay
<1>2. Latest \in activity /\ \A b \in activity : b.to <= Latest.to
  BY <1>1 DEF Latest
<1>3. a.to \in Int /\ Latest.to \in Int
  BY <1>1, <1>2, BlocksAreIntegers DEF OrderInv, Inv, TablesOK
<1>4. a.to = Latest.to  BY <1>1, <1>2, <1>3
<1> QED  BY <1>1, <1>4

\* Replays in order, by whomever, leave exactly the rows of the last one.
THEOREM OneReplay == Spec => []LedgerIsOneReplay
<1>1. OrderInv => LedgerIsOneReplay
  BY LatestIsLast DEF LedgerIsOneReplay, UpTo
<1> QED  BY <1>1, OrderInvariance, PTL

\* Replays in order: the holder count belongs to the coverage end beside it.
THEOREM HoldersAtCoverageEnd == Spec => []CurrentHoldersAtCoverageEnd
<1>1. OrderInv => CurrentHoldersAtCoverageEnd
  <2> SUFFICES ASSUME OrderInv, ordered, activity # {}
               PROVE  CurrentHolders = Cardinality(HoldersAt(Latest.to))
    BY DEF CurrentHoldersAtCoverageEnd
  <2> DEFINE es == Within(History, UpTo(Latest.to))
  <2>1. ledger = Rows(es, UpTo(Latest.to))  BY LatestIsLast
  <2>2. {h \in DOMAIN ledger : ledger[h].balance # 0} = {h \in Touched(es) : Net(es, h) # 0}
    <3> HIDE DEF es
    <3> QED  BY <2>1 DEF Rows
  <2> QED  BY <2>2 DEF CurrentHolders, Active, HoldersAt, UpTo
<1> QED  BY <1>1, OrderInvariance, PTL

-------------------------------------------------------------------------------
\* What README.md asks for: one lane at a time, no cap, no holders-replay.
OneLane == Replayers = {} /\ Caps = {} /\ \A k, l \in Lanes : k = l

\* A job starts at the deployment and ends at a block that was final once; as long
\* as it may still store, nothing that was stored before reaches further.
GoalsAscend ==
  /\ \A p \in Processes :
       /\ job[p].range.from = Deploy /\ job[p].range.to <= head
       /\ job[p].pc \notin {"idle", "unlock"} => \A a \in activity : a.to <= job[p].range.to
  /\ \A a \in activity : a.to <= head

LaneInv == Inv /\ GoalsAscend /\ ordered

\* A step that stores nothing and gives one process a job with an ascending goal.
LEMMA LaneJobStep ==
  ASSUME LaneInv, Inv', NEW p \in Processes, NEW j, Becomes(p, j),
         UNCHANGED <<head, ledger, activity, ordered>>,
         j.range.from = Deploy, j.range.to <= head,
         j.pc \notin {"idle", "unlock"} => \A a \in activity : a.to <= j.range.to
  PROVE  LaneInv'
<1>1. DOMAIN job = Processes /\ GoalsAscend /\ ordered  BY DEF LaneInv, Inv
<1>2. \A q \in Processes : job'[q] = j \/ job'[q] = job[q]
  BY <1>1, BecomesFacts
<1>3. GoalsAscend'  BY <1>1, <1>2 DEF GoalsAscend
<1> QED  BY <1>1, <1>3 DEF LaneInv

\* The commit of the only lane is in order.
LEMMA LaneStoreStep ==
  ASSUME OneLane, LaneInv, Inv', NEW p \in Processes, Store(p)
  PROVE  LaneInv'
<1>1. PICK i : i = job[p]  OBVIOUS
<1> DEFINE r == i.range
<1>2. /\ r.from = Deploy /\ r.to <= head
      /\ \A a \in activity : a.to <= r.to
  BY <1>1 DEF LaneInv, GoalsAscend, Store, At
<1>3. /\ UNCHANGED head
      /\ \A a \in activity' : a \in activity \/ a.to = r.to
      /\ ordered' = (ordered /\ r.from = Deploy /\ \A a \in activity : a.to <= r.to)
  BY <1>1 DEF Store
<1>4. ordered'  BY <1>2, <1>3 DEF LaneInv
<1>5. PICK l : l = [Idle EXCEPT !.pc = IF p \in Lanes THEN "unlock" ELSE "idle"]  OBVIOUS
<1>6. DOMAIN job = Processes /\ job'[p] = l
  BY <1>5, BecomesFacts DEF LaneInv, Inv, Store, Leave
<1>7. Processes = {p}  BY DEF OneLane, Processes
<1>8. l.range.from = Deploy /\ l.range.to = Deploy /\ l.pc \in {"idle", "unlock"}
  BY <1>5 DEF Idle, NoRange
<1>9. Deploy <= head
  BY BlocksAreIntegers DEF LaneInv, Inv, TablesOK
<1>10. \A a \in activity' : a.to <= head
  BY <1>2, <1>3 DEF LaneInv, GoalsAscend
<1> QED  BY <1>3, <1>4, <1>6, <1>7, <1>8, <1>9, <1>10 DEF LaneInv, GoalsAscend

LEMMA LaneInitInv == Init => LaneInv
<1> SUFFICES ASSUME Init PROVE LaneInv  OBVIOUS
<1>1. Inv  BY InitInv
<1>2. GoalsAscend
  <2>1. \A p \in Processes : job[p] = Idle  BY DEF Init
  <2>2. activity = {} /\ Deploy <= head  BY BlocksAreIntegers DEF Init
  <2> QED  BY <2>1, <2>2 DEF GoalsAscend, Idle, NoRange
<1>3. ordered  BY DEF Init
<1> QED  BY <1>1, <1>2, <1>3 DEF LaneInv

LEMMA LaneNextInv ==
  ASSUME OneLane, LaneInv, [Next]_vars
  PROVE  LaneInv'
<1>0. Inv /\ Inv' /\ TablesOK  BY NextInv DEF LaneInv, Inv
<1>1. head \in Int /\ Deploy <= head /\ head <= MaxBlock /\ Deploy \in Int /\ MaxBlock \in Int
  BY <1>0, BlocksAreIntegers DEF TablesOK
<1>2. CASE UNCHANGED vars \/ Finalize
  <2>1. /\ UNCHANGED <<job, ledger, activity, ordered>> /\ head' \in Int /\ head <= head'
    BY <1>1, <1>2 DEF vars, Finalize
  <2>2. /\ \A p \in Processes : job[p].range.to \in Int
        /\ \A a \in activity : a.to \in Int
    BY <1>0, BlocksAreIntegers DEF Inv, JobOK, TablesOK
  <2>3. GoalsAscend'
    BY <1>1, <2>1, <2>2 DEF LaneInv, GoalsAscend
  <2>4. ordered'  BY <2>1 DEF LaneInv
  <2> QED  BY <1>0, <2>3, <2>4 DEF LaneInv
<1>3. ASSUME NEW p \in Processes, NEW pc, pc \in {"idle", "unlock"},
             Becomes(p, [Idle EXCEPT !.pc = pc]), UNCHANGED <<head, ledger, activity, ordered>>
      PROVE  LaneInv'
  <2>1. PICK j : j = [Idle EXCEPT !.pc = pc]  OBVIOUS
  <2>2. j.pc \in {"idle", "unlock"} /\ j.range.from = Deploy /\ j.range.to = Deploy
    BY <1>3, <2>1 DEF Idle, NoRange
  <2> QED  BY <1>0, <1>1, <1>3, <2>1, <2>2, LaneJobStep
<1>4. ASSUME NEW p \in Processes, NEW pc, NEW rows, job[p].pc \notin {"idle", "unlock"},
             Becomes(p, [pc |-> pc, range |-> job[p].range, rows |-> rows]),
             UNCHANGED <<head, ledger, activity, ordered>>
      PROVE  LaneInv'
  <2>1. PICK j : j = [pc |-> pc, range |-> job[p].range, rows |-> rows]  OBVIOUS
  <2>2. /\ j.range.from = Deploy /\ j.range.to <= head
        /\ \A a \in activity : a.to <= j.range.to
    BY <1>4, <2>1 DEF LaneInv, GoalsAscend
  <2> QED  BY <1>0, <1>4, <2>1, <2>2, LaneJobStep
<1>5. ASSUME NEW p \in Processes, Leave(p), UNCHANGED <<head, ledger, activity, ordered>>
      PROVE  LaneInv'
  BY <1>3, <1>5 DEF Leave
<1>6. ASSUME NEW p \in Processes, NEW pc, Goto(p, pc), job[p].pc \notin {"idle", "unlock"},
             UNCHANGED <<head, ledger, activity, ordered>>
      PROVE  LaneInv'
  BY <1>4, <1>6 DEF Goto
<1>7. ASSUME NEW p \in Processes, Becomes(p, Idle), UNCHANGED <<head, ledger, activity, ordered>>
      PROVE  LaneInv'
  <2>1. Idle = [Idle EXCEPT !.pc = "idle"]  BY DEF Idle
  <2> QED  BY <1>3, <1>7, <2>1
<1>8. ASSUME NEW l \in Lanes, Lane(l) PROVE LaneInv'
  <2>1. l \in Processes  BY DEF Processes
  <2>2. CASE Resolve(l)
    <3>1. PICK cap \in {MaxBlock} :
            Becomes(l, [Idle EXCEPT !.pc = "resolved",
                                    !.range = [from |-> Deploy, to |-> Goal(cap)]])
      BY <2>2 DEF Resolve, OneLane
    <3>2. Goal(cap) = head  BY <1>1, <3>1 DEF Goal
    <3>3. PICK g : g = head  OBVIOUS
    <3>4. PICK j : j = [Idle EXCEPT !.pc = "resolved", !.range = [from |-> Deploy, to |-> g]]
      OBVIOUS
    <3>5. Becomes(l, j)  BY <3>1, <3>2, <3>3, <3>4
    <3>6. j.range.from = Deploy /\ j.range.to = head
      BY <3>3, <3>4 DEF Idle
    <3>7. j.range.to <= head /\ \A a \in activity : a.to <= j.range.to
      BY <1>1, <3>6 DEF LaneInv, GoalsAscend
    <3>8. UNCHANGED <<head, ledger, activity, ordered>>  BY <2>2 DEF Resolve
    <3> QED  BY <1>0, <2>1, <3>5, <3>6, <3>7, <3>8, LaneJobStep
  <2>3. CASE Lock(l) \/ Ingest(l)
    BY <1>6, <2>1, <2>3 DEF Lock, Ingest, At
  <2>4. CASE Busy(l) \/ Unlock(l)
    BY <1>7, <2>1, <2>4 DEF Busy, Unlock
  <2>5. CASE IngestPartly(l)
    BY <1>5, <2>1, <2>5 DEF IngestPartly
  <2> QED  BY <1>8, <2>2, <2>3, <2>4, <2>5 DEF Lane
<1>9. ASSUME NEW p \in Processes, Rebuild(p) PROVE LaneInv'
  <2>1. CASE Gate(p)
    BY <1>5, <1>6, <2>1 DEF Gate, At
  <2>2. CASE Read(p)
    BY <1>4, <2>2 DEF Read, At
  <2>3. CASE Refuse(p) \/ Rollback(p)
    BY <1>5, <2>3 DEF Refuse, Rollback
  <2>4. CASE Store(p)
    BY <1>0, <2>4, LaneStoreStep
  <2> QED  BY <1>9, <2>1, <2>2, <2>3, <2>4 DEF Rebuild
<1>10. ASSUME NEW p \in Processes, Crash(p) PROVE LaneInv'
  BY <1>7, <1>10 DEF Crash
<1> QED  BY <1>2, <1>8, <1>9, <1>10 DEF Next, OneLane

LEMMA LaneInvariance ==
  ASSUME OneLane
  PROVE  Spec => []LaneInv
<1>1. LaneInv /\ [Next]_vars => LaneInv'  BY LaneNextInv
<1> QED  BY <1>1, LaneInitInv, PTL DEF Spec

\* One lane at a time, without a cap, stores in order: what is said above of
\* replays in order is said of it.
THEOREM OneLaneInOrder ==
  ASSUME OneLane
  PROVE  Spec => []ordered
<1>1. LaneInv => ordered  BY DEF LaneInv
<1> QED  BY <1>1, LaneInvariance, PTL

-------------------------------------------------------------------------------
(***************************************************************************)
(* What the readers of the holder ledger may rely on: a stored verdict of  *)
(* verify, whose statements fall between those of lanes and commands, and  *)
(* a published chain.  Both rest on tables that only grow: coverage never  *)
(* shrinks, and a row of a range is only replaced by one of its range.     *)
(***************************************************************************)
\* A range that was stored reaches b.
Reached(b) == \E a \in activity : a.to >= b

\* What is stored lies within what is covered, and a row of the ledger goes back
\* to a replay that is still there.
Backed ==
  /\ \A a \in activity : a.to <= covered
  /\ \A h \in DOMAIN ledger : Reached(ledger[h].to)

ReaderInv == OrderInv /\ Backed

LEMMA CoverageGrows ==
  ASSUME Inv, [Next]_vars
  PROVE  covered' \in Int /\ covered <= covered'
<1>1. /\ covered \in Int
      /\ \A p \in Processes : job[p].range.to \in Int
  BY BlocksAreIntegers DEF Inv, TablesOK, JobOK
<1>2. CASE \E l \in Lanes : Ingest(l) \/ IngestPartly(l)
  <2>1. PICK l \in Lanes : Ingest(l) \/ IngestPartly(l)
    BY <1>2
  <2>2. job[l].range.to \in Int
    BY <1>1 DEF Processes
  <2> QED
    BY <1>1, <2>1, <2>2 DEF Ingest, IngestPartly
<1>3. CASE ~ \E l \in Lanes : Ingest(l) \/ IngestPartly(l)
  <2>1. covered' = covered
    BY <1>3 DEF Next, vars, Finalize, Lane, Resolve, Lock, Busy, Unlock, StartReplay, Rebuild,
                Gate, Read, Refuse, Store, Rollback, Crash
  <2> QED
    BY <1>1, <2>1
<1> QED
  BY <1>2, <1>3

\* Only a commit writes to the tables that are read.
LEMMA OnlyStoreWrites ==
  ASSUME [Next]_vars, ~ \E p \in Processes : Store(p)
  PROVE  UNCHANGED <<ledger, activity>>
BY DEF Next, vars, Finalize, Lane, Resolve, Lock, Busy, Ingest, IngestPartly, Unlock,
       StartReplay, Rebuild, Gate, Read, Refuse, Rollback, Crash

LEMMA ReachedStays ==
  ASSUME Inv, [Next]_vars, NEW b \in Int, Reached(b)
  PROVE  Reached(b)'
<1>1. CASE \E p \in Processes : Store(p)
  <2>1. PICK p \in Processes : Store(p)
    BY <1>1
  <2>2. PICK a \in activity : a.to >= b
    BY DEF Reached
  <2> DEFINE r == job[p].range
             new == [from |-> r.from, to |-> r.to, active |-> Active(job[p].rows)]
  <2>3. activity' = {c \in activity : c.from # r.from \/ c.to # r.to} \cup {new}
    BY <2>1 DEF Store
  <2>4. a \in activity' \/ a.to = new.to
    BY <2>3
  <2> QED
    BY <2>2, <2>3, <2>4 DEF Reached
<1>2. CASE ~ \E p \in Processes : Store(p)
  BY <1>2, OnlyStoreWrites DEF Reached
<1> QED
  BY <1>1, <1>2

LEMMA BackedStep ==
  ASSUME Inv, Backed, [Next]_vars
  PROVE  Backed'
<1>0. /\ covered \in Int /\ covered' \in Int /\ covered <= covered'
      /\ \A a \in activity : a.to \in Int
      /\ \A h \in DOMAIN ledger : ledger[h].to \in Int
  BY CoverageGrows, BlocksAreIntegers DEF Inv, TablesOK, IsLedger
<1>1. CASE \E p \in Processes : Store(p)
  <2>1. PICK p \in Processes : Store(p)
    BY <1>1
  <2>2. PICK i : i = job[p]
    OBVIOUS
  <2> DEFINE r == i.range
             new == [from |-> r.from, to |-> r.to, active |-> Active(i.rows)]
  <2>3. /\ JobOK(i) /\ i.pc = "store" /\ r.to \in Int /\ r.to <= covered
        /\ i.rows = Rows(Within(History, r), r)
    BY <2>1, <2>2, BlocksAreIntegers DEF Inv, JobOK, Store, At
  <2>4. /\ ledger' = Over(i.rows, ledger)
        /\ new \in activity' /\ activity' \subseteq activity \cup {new}
    BY <2>1, <2>2 DEF Store, Upserted
  <2>5. \A a \in activity' : a.to <= covered'
    BY <1>0, <2>3, <2>4 DEF Backed
  <2>6. ASSUME NEW h \in DOMAIN ledger'
        PROVE  \E a \in activity' : a.to >= ledger'[h].to
    <3>1. CASE h \in DOMAIN i.rows
      <4>1. ledger'[h].to = r.to /\ new.to = r.to
        BY <2>3, <2>4, <3>1 DEF Over, Rows
      <4> QED
        BY <2>3, <2>4, <4>1 DEF Reached
    <3>2. CASE h \notin DOMAIN i.rows
      <4>1. h \in DOMAIN ledger /\ ledger'[h] = ledger[h]
        BY <2>4, <3>2 DEF Over
      <4>2. PICK b : b = ledger[h].to
        OBVIOUS
      <4>3. Reached(b)'
        BY <1>0, <4>1, <4>2, ReachedStays DEF Backed
      <4> QED
        BY <4>1, <4>2, <4>3 DEF Reached
    <3> QED
      BY <3>1, <3>2
  <2> QED
    BY <2>5, <2>6 DEF Backed, Reached
<1>2. CASE ~ \E p \in Processes : Store(p)
  BY <1>0, <1>2, OnlyStoreWrites DEF Backed, Reached
<1> QED
  BY <1>1, <1>2

LEMMA ReaderInvariance == Spec => []ReaderInv
<1>1. Init => Backed
  BY DEF Init, Backed
<1>2. OrderInv => Inv
  BY DEF OrderInv
<1>3. Inv /\ Backed /\ [Next]_vars => Backed'
  BY BackedStep
<1> QED
  BY <1>1, <1>2, <1>3, OrderInvariance, PTL DEF Spec, ReaderInv

-------------------------------------------------------------------------------
(* A published chain. *)

\* What a page has found stays true while others write: what was covered is, and a
\* range that was stored is only replaced by its like.  The list of holders is that
\* of a stored range that reaches the goal.
FoundOK(v) ==
  /\ v = [pc |-> v.pc, found |-> v.found]
  /\ "next" \in DOMAIN v.found => \A n \in v.found.next : n \in Int /\ n <= covered + 1
  /\ "row" \in DOMAIN v.found =>
       \A a \in v.found.row : /\ a.to \in Int /\ a.to <= covered /\ Reached(a.to)
                              /\ a.active = Active(Rows(Within(History, a), a))
  /\ "holders" \in DOMAIN v.found /\ ordered =>
       \E a \in activity : GoalBlock <= a.to /\ v.found.holders = HoldersAt(a.to)
  /\ v.pc = "shown" =>
       /\ {"next", "row"} \subseteq DOMAIN v.found
       /\ PublicationStatus(v.found.next, v.found.row) = "published" => "holders" \in DOMAIN v.found

PageInv == ReaderInv /\ FoundOK(page)

LEMMA ClosedOK == FoundOK(Closed)
BY DEF FoundOK, Closed

\* Replays that were out of order once stay so.
LEMMA OrderIsLost ==
  ASSUME [Next]_vars, ordered'
  PROVE  ordered
<1>1. CASE \E p \in Processes : Store(p)
  BY <1>1 DEF Store
<1>2. CASE ~ \E p \in Processes : Store(p)
  BY <1>2 DEF Next, vars, Finalize, Lane, Resolve, Lock, Busy, Ingest, IngestPartly, Unlock,
              StartReplay, Rebuild, Gate, Read, Refuse, Rollback, Crash
<1> QED
  BY <1>1, <1>2

\* A stored range keeps a row that ends where it did.
LEMMA EndStays ==
  ASSUME [Next]_vars, NEW a \in activity
  PROVE  \E c \in activity' : c.to = a.to
<1>1. CASE \E p \in Processes : Store(p)
  <2>1. PICK p \in Processes : Store(p)
    BY <1>1
  <2> DEFINE r == job[p].range
             new == [from |-> r.from, to |-> r.to, active |-> Active(job[p].rows)]
  <2>2. activity' = {c \in activity : c.from # r.from \/ c.to # r.to} \cup {new}
    BY <2>1 DEF Store
  <2>3. new \in activity' /\ new.to = r.to
    BY <2>2
  <2>4. CASE a.to = r.to
    BY <2>3, <2>4
  <2>5. CASE a.to # r.to
    BY <2>2, <2>5
  <2> QED
    BY <2>4, <2>5
<1>2. CASE ~ \E p \in Processes : Store(p)
  BY <1>2, OnlyStoreWrites
<1> QED
  BY <1>1, <1>2

LEMMA FoundStays ==
  ASSUME Inv, [Next]_vars, NEW v, FoundOK(v)
  PROVE  FoundOK(v)'
<1>1. covered \in Int /\ covered' \in Int /\ covered <= covered'
  BY CoverageGrows, BlocksAreIntegers DEF Inv, TablesOK
<1>2. "next" \in DOMAIN v.found => \A n \in v.found.next : n \in Int /\ n <= covered' + 1
  BY <1>1 DEF FoundOK
<1>3. ASSUME "row" \in DOMAIN v.found, NEW a \in v.found.row
      PROVE  /\ a.to \in Int /\ a.to <= covered' /\ Reached(a.to)'
             /\ a.active = Active(Rows(Within(History, a), a))
  <2>1. PICK b : b = a.to
    OBVIOUS
  <2>2. /\ b \in Int /\ b <= covered /\ Reached(b)
        /\ a.active = Active(Rows(Within(History, a), a))
    BY <1>3, <2>1 DEF FoundOK
  <2>3. Reached(b)'
    BY <2>2, ReachedStays
  <2> QED
    BY <1>1, <2>1, <2>2, <2>3
<1>4. ASSUME "holders" \in DOMAIN v.found, ordered'
      PROVE  \E a \in activity' : GoalBlock <= a.to /\ v.found.holders = HoldersAt(a.to)
  <2>1. PICK a \in activity : GoalBlock <= a.to /\ v.found.holders = HoldersAt(a.to)
    BY <1>4, OrderIsLost DEF FoundOK
  <2>2. PICK c \in activity' : c.to = a.to
    BY EndStays
  <2> QED
    BY <2>1, <2>2
<1>5. HoldersAt(0)' = HoldersAt(0)
  BY DEF HoldersAt
<1> QED
  BY <1>2, <1>3, <1>4 DEF FoundOK, Reached, HoldersAt

\* The list of holders, read while a row of the goal is stored and replays are in
\* order, is that of the range that reaches furthest.
LEMMA ListedAreHolders ==
  ASSUME ReaderInv, ordered, Reached(GoalBlock)
  PROVE  \E a \in activity : GoalBlock <= a.to /\ HoldersListed = HoldersAt(a.to)
<1>1. PICK g \in activity : g.to >= GoalBlock
  BY DEF Reached
<1>2. Latest \in activity /\ \A b \in activity : b.to <= Latest.to
  <2>1. PICK a \in activity : \A b \in activity : b.to <= a.to
    BY <1>1 DEF ReaderInv, OrderInv, LastReplay
  <2> QED
    BY <2>1 DEF Latest
<1>3. GoalBlock <= Latest.to
  <2>1. Latest.to \in Int /\ g.to \in Int /\ GoalBlock \in Int
    BY <1>2, BlocksAreIntegers, PublicationAssumption DEF ReaderInv, OrderInv, Inv, TablesOK
  <2> QED
    BY <1>1, <1>2, <2>1
<1> DEFINE es == Within(History, UpTo(Latest.to))
<1>4. ledger = Rows(es, UpTo(Latest.to))
  BY <1>1, LatestIsLast DEF ReaderInv
<1>5. HoldersAt(Latest.to) = {h \in Touched(es) : Net(es, h) # 0}
  BY DEF HoldersAt, UpTo
<1> HIDE DEF es
<1>6. HoldersListed = {h \in Touched(es) : Net(es, h) # 0}
  BY <1>4 DEF HoldersListed, Rows
<1> QED
  BY <1>2, <1>3, <1>5, <1>6

\* A statement of the page finds what the tables say.
LEMMA FindsOK ==
  ASSUME FoundOK(page), NEW name, NEW value, NEW pc, Finds(name, value, pc), NEW v, v = page'
  PROVE  /\ v.pc = pc /\ v = [pc |-> v.pc, found |-> v.found]
         /\ DOMAIN v.found = DOMAIN page.found \cup {name}
         /\ v.found[name] = value
         /\ \A n \in DOMAIN page.found \ {name} : v.found[n] = page.found[n]
<1>1. PICK found : found = Over([n \in {name} |-> value], page.found)
  OBVIOUS
<1>2. /\ DOMAIN found = DOMAIN page.found \cup {name}
      /\ found[name] = value
      /\ \A n \in DOMAIN page.found \ {name} : found[n] = page.found[n]
  BY <1>1 DEF Over
<1>3. v = [pc |-> pc, found |-> found]
  BY <1>1 DEF Finds
<1> QED
  BY <1>2, <1>3

LEMMA PageStepOK ==
  ASSUME ReaderInv, FoundOK(page), PageStep
  PROVE  FoundOK(page)'
<1>0. UNCHANGED <<covered, activity, ledger, ordered>>
  BY DEF PageStep, vars
<1>1. PICK v : v = page'
  OBVIOUS
<1>2. ASSUME FoundOK(v) PROVE FoundOK(page)'
  BY <1>0, <1>1, <1>2 DEF FoundOK, Reached, HoldersAt
<1>3. CASE OpenPage
  <2>1. v = [pc |-> "loading", found |-> <<>>]
    BY <1>1, <1>3 DEF OpenPage, Closed
  <2>2. v.pc = "loading" /\ DOMAIN v.found = {} /\ v = [pc |-> v.pc, found |-> v.found]
    BY <2>1
  <2> QED
    BY <1>2, <2>2 DEF FoundOK
<1>4. CASE ReadCheckpoint
  <2>1. Finds("next", NextBlock, "loading")
    BY <1>4 DEF ReadCheckpoint
  <2>2. \A n \in NextBlock : n \in Int /\ n <= covered + 1
    BY BlocksAreIntegers DEF NextBlock, ReaderInv, OrderInv, Inv, TablesOK
  <2>3. FoundOK(v)
    BY <1>1, <2>1, <2>2, FindsOK DEF FoundOK
  <2> QED
    BY <1>2, <2>3
<1>5. CASE ReadActivity
  <2>1. PICK row : Finds("row", row, "loading") /\ row \subseteq Furthest
    BY <1>5 DEF ReadActivity
  <2>2. ASSUME NEW a \in row
        PROVE  /\ a.to \in Int /\ a.to <= covered /\ Reached(a.to)
               /\ a.active = Active(Rows(Within(History, a), a))
    <3>1. a \in activity
      BY <2>1 DEF Furthest
    <3>2. a.to \in Int
      BY <3>1, BlocksAreIntegers DEF ReaderInv, OrderInv, Inv, TablesOK
    <3> QED
      BY <3>1, <3>2 DEF ReaderInv, OrderInv, Inv, Backed, Reached, RowsAreHonest
  <2>3. FoundOK(v)
    BY <1>1, <2>1, <2>2, FindsOK DEF FoundOK
  <2> QED
    BY <1>2, <2>3
<1>6. CASE ShowHolders
  <2>1. /\ Finds("holders", HoldersListed, "shown") /\ {"next", "row"} \subseteq DOMAIN page.found
        /\ PublicationStatus(page.found.next, page.found.row) = "published"
    BY <1>6 DEF ShowHolders, Has, StatusFound
  <2>2. PICK a \in page.found.row : IsGoal(a)
    BY <2>1 DEF PublicationStatus, PublishedAssets
  <2>3. Reached(GoalBlock)
    BY <2>1, <2>2 DEF FoundOK, IsGoal
  <2>4. ordered => \E c \in activity : GoalBlock <= c.to /\ HoldersListed = HoldersAt(c.to)
    BY <2>3, ListedAreHolders
  <2>5. FoundOK(v)
    BY <1>1, <2>1, <2>4, FindsOK DEF FoundOK
  <2> QED
    BY <1>2, <2>5
<1>7. CASE ShowUnavailable
  <2>1. v.pc = "shown" /\ v.found = page.found /\ v = [pc |-> v.pc, found |-> v.found]
    BY <1>1, <1>7 DEF ShowUnavailable, FoundOK
  <2>2. FoundOK(v)
    BY <1>7, <2>1 DEF ShowUnavailable, Has, StatusFound, FoundOK
  <2> QED
    BY <1>2, <2>2
<1>8. CASE ClosePage
  BY <1>1, <1>2, <1>8, ClosedOK DEF ClosePage
<1> QED
  BY <1>3, <1>4, <1>5, <1>6, <1>7, <1>8 DEF PageStep

LEMMA PageInvariance == PublishSpec => []PageInv
<1>1. PageInit => FoundOK(page)
  BY ClosedOK DEF PageInit
<1>2. [PublishNext]_<<vars, page>> => [Next]_vars
  BY DEF PublishNext, PageStep
<1>3. ReaderInv /\ FoundOK(page) /\ [PublishNext]_<<vars, page>> => FoundOK(page)'
  <2> SUFFICES ASSUME ReaderInv, FoundOK(page), [PublishNext]_<<vars, page>>
               PROVE  FoundOK(page)'
    OBVIOUS
  <2>1. CASE PageStep
    BY <2>1, PageStepOK
  <2>2. CASE ~ PageStep
    <3>1. PICK v : v = page
      OBVIOUS
    <3>2. page' = v
      BY <2>2, <3>1 DEF PublishNext
    <3>3. FoundOK(v)'
      BY <1>2, <3>1, FoundStays DEF ReaderInv, OrderInv
    <3> QED
      BY <3>2, <3>3 DEF FoundOK
  <2> QED
    BY <2>1, <2>2
<1> QED
  BY <1>1, <1>2, <1>3, ReaderInvariance, PTL DEF Spec, PublishSpec, PageInv

\* The number of holders in the goal's row is the true one.
LEMMA GoalRowIsTrue ==
  ASSUME NEW a, IsGoal(a), a.active = Active(Rows(Within(History, a), a))
  PROVE  a.active = Cardinality(HoldersAt(GoalBlock))
<1> DEFINE es == Within(History, UpTo(GoalBlock))
<1>1. Within(History, a) = es
  BY DEF Within, UpTo, IsGoal
<1>2. HoldersAt(GoalBlock) = {h \in Touched(es) : Net(es, h) # 0}
  BY DEF HoldersAt, UpTo
<1> HIDE DEF es
<1>3. {h \in DOMAIN Rows(es, a) : Rows(es, a)[h].balance # 0}
        = {h \in Touched(es) : Net(es, h) # 0}
  BY DEF Rows
<1> QED
  BY <1>1, <1>2, <1>3 DEF Active

\* A percentage of a hundred means that the goal is passed.
LEMMA WholePercent ==
  ASSUME NEW d \in Int, NEW t \in Int, 0 < d, d < t
  PROVE  (d * 10000) \div t # 10000
BY SMTT(30)

LEMMA WholeProgress ==
  ASSUME NEW n \in Int, Progress(n) = 10000
  PROVE  n > GoalBlock
<1>1. GoalBlock \in Int /\ Deploy \in Int
  BY BlocksAreIntegers, PublicationAssumption
<1>2. SUFFICES ASSUME Deploy < n, n <= GoalBlock
               PROVE  FALSE
  BY <1>1 DEF Progress
<1>3. PICK d \in Int, t \in Int : d = n - Deploy /\ t = GoalBlock - Deploy + 1
  BY <1>1
<1>4. 0 < d /\ d < t
  BY <1>1, <1>2, <1>3
<1>5. Progress(n) = (d * 10000) \div t
  BY <1>1, <1>2, <1>3 DEF Progress
<1> QED
  BY <1>4, <1>5, WholePercent

\* Whatever a page says of a chain that it shows as covered is true, although its
\* statements ran at moments of their own (PublishedMeansCovered;
\* dashboard-readiness.ts, chain-detail.ts): the blocks up to the goal are covered,
\* the number of holders is the one at the goal, and the list is the one at the end
\* of a stored range that reaches it.
THEOREM PublishedIsCovered == PublishSpec => []PublishedMeansCovered
<1>1. ASSUME PageInv, page.pc = "shown" PROVE
        /\ ClaimsCoverage => GoalBlock <= covered
        /\ StatusFound = "published" =>
             /\ \A a \in page.found.row :
                  IsGoal(a) => a.active = Cardinality(HoldersAt(GoalBlock))
             /\ ordered => \E a \in activity : /\ GoalBlock <= a.to
                                               /\ page.found.holders = HoldersAt(a.to)
  <2>1. /\ \A n \in page.found.next : n \in Int /\ n <= covered + 1
        /\ \A a \in page.found.row : a.to <= covered /\ a.active = Active(Rows(Within(History, a), a))
        /\ StatusFound = "published" => "holders" \in DOMAIN page.found
    BY <1>1 DEF PageInv, FoundOK, StatusFound
  <2>2. covered \in Int /\ GoalBlock \in Int
    BY <1>1, BlocksAreIntegers, PublicationAssumption DEF PageInv, ReaderInv, OrderInv, Inv, TablesOK
  <2>3. GoalPassed(page.found.next) => GoalBlock <= covered
    BY <2>1, <2>2 DEF GoalPassed
  <2>4. ASSUME StatusFound = "published" PROVE GoalBlock <= covered
    <3>1. PICK a \in page.found.row : IsGoal(a)
      BY <2>4 DEF StatusFound, PublicationStatus, PublishedAssets
    <3> QED
      BY <2>1, <3>1 DEF IsGoal
  <2>5. ASSUME StatusFound \in {"deriving", "window_only"} PROVE GoalBlock <= covered
    BY <2>3, <2>5 DEF StatusFound, PublicationStatus
  <2>6. ASSUME NEW n \in page.found.next, Progress(n) = 10000 PROVE GoalBlock <= covered
    BY <2>1, <2>3, <2>6, WholeProgress DEF GoalPassed
  <2>7. ClaimsCoverage => GoalBlock <= covered
    BY <2>4, <2>5, <2>6 DEF ClaimsCoverage
  <2>8. \A a \in page.found.row : IsGoal(a) => a.active = Cardinality(HoldersAt(GoalBlock))
    BY <2>1, GoalRowIsTrue
  <2>9. ASSUME StatusFound = "published", ordered
        PROVE  \E a \in activity : GoalBlock <= a.to /\ page.found.holders = HoldersAt(a.to)
    BY <1>1, <2>1, <2>9 DEF PageInv, FoundOK
  <2> QED
    BY <2>7, <2>8, <2>9
<1>2. PageInv => PublishedMeansCovered
  BY <1>1 DEF PublishedMeansCovered
<1> QED
  BY <1>2, PageInvariance, PTL

-------------------------------------------------------------------------------
(* A stored verdict. *)

\* What a verification has read stays true until it stores its verdict: a range
\* that was covered is, and a replay that was stored is replaced by its like.
SeenOK(v) ==
  /\ v = [pc |-> v.pc, range |-> v.range, seen |-> v.seen, still |-> v.still]
  /\ v.range \in [from : Blocks, to : Blocks]
  /\ "coverage" \in DOMAIN v.seen /\ v.seen.coverage => v.range.to <= covered
  /\ "holders" \in DOMAIN v.seen => \A b \in v.seen.holders.to : b \in Int /\ Reached(b)

ReportOK ==
  /\ report.range \in [from : Blocks, to : Blocks]
  /\ report.status \in {"pass", "warn"} => report.range.to <= covered
  /\ report.status = "pass" => Reached(report.range.to)

VerdictInv == ReaderInv /\ SeenOK(verify) /\ ReportOK

LEMMA AtRestOK == SeenOK(AtRest)
<1>1. Deploy \in Blocks
  BY LedgerAssumption DEF Blocks
<1> QED
  BY <1>1 DEF SeenOK, AtRest, NoRange

\* A verdict that is no failure found no gap, and one without a warning found the
\* rows of a replay that reaches the end of the range.
LEMMA VerdictsHaveGrounds ==
  ASSUME NEW v, NEW e
  PROVE  /\ Status(v, e) \in {"pass", "warn"} => v.seen.coverage
         /\ Status(v, e) = "pass" => \E b \in v.seen.holders.to : b >= v.range.to
<1> DEFINE findings == Findings(v, e)
<1>1. /\ findings.coverage = IF v.seen.coverage THEN "pass" ELSE "fail"
      /\ findings.holders = IF HolderHistory(v) THEN "pass" ELSE "warn"
      /\ DOMAIN findings = {"checkpoint", "coverage", "decoding", "rpc", "price", "code", "holders"}
  BY DEF Findings
<1> DEFINE critical == {findings[f] : f \in Critical}
           health   == {findings[f] : f \in DOMAIN findings}
           outcomes == {Checks(v, e)[c] : c \in DOMAIN Checks(v, e)}
<1>2. Status(v, e) = IF "fail" \in outcomes \cup critical THEN "fail"
                     ELSE IF {"warn", "fail"} \cap (outcomes \cup health) # {} THEN "warn"
                     ELSE "pass"
  BY DEF Status
<1>3. findings.coverage \in critical /\ findings.holders \in health
  BY <1>1 DEF Critical
<1> HIDE DEF findings, critical, health, outcomes
<1>4. Status(v, e) \in {"pass", "warn"} => findings.coverage # "fail"
  BY <1>2, <1>3
<1>5. Status(v, e) = "pass" => findings.holders # "warn"
  BY <1>2, <1>3
<1>6. findings.coverage # "fail" => v.seen.coverage
  BY <1>1
<1>7. findings.holders # "warn" => \E b \in v.seen.holders.to : b >= v.range.to
  BY <1>1 DEF HolderHistory
<1> QED
  BY <1>4, <1>5, <1>6, <1>7

\* The lanes and commands go on, and what was read or stored stays true.
LEMMA ReadingStays ==
  ASSUME Inv, [Next]_vars, NEW v, SeenOK(v), ReportOK, UNCHANGED report
  PROVE  SeenOK(v)' /\ ReportOK'
<1>1. covered \in Int /\ covered' \in Int /\ covered <= covered'
  BY CoverageGrows, BlocksAreIntegers DEF Inv, TablesOK
<1>2. v.range.to \in Int /\ report.range.to \in Int
  BY BlocksAreIntegers DEF SeenOK, ReportOK
<1>3. \A b \in Int : Reached(b) => Reached(b)'
  BY ReachedStays
<1>4. SeenOK(v)'
  BY <1>1, <1>2, <1>3 DEF SeenOK
<1>5. ReportOK'
  <2>1. PICK b : b = report.range.to
    OBVIOUS
  <2>2. Reached(b) => Reached(b)'
    BY <1>2, <1>3, <2>1
  <2> QED
    BY <1>1, <1>2, <2>1, <2>2 DEF ReportOK, Reached
<1> QED
  BY <1>4, <1>5

LEMMA VerifyStepInv ==
  ASSUME Inv, Backed, SeenOK(verify), ReportOK, VerifyStep
  PROVE  SeenOK(verify)' /\ ReportOK'
<1>0. UNCHANGED <<covered, activity, ledger>>
  BY DEF VerifyStep, vars
<1>1. PICK w : w = verify'
  OBVIOUS
<1>2. ASSUME SeenOK(w) PROVE SeenOK(verify)'
  BY <1>0, <1>1, <1>2 DEF SeenOK, Reached
<1>3. ASSUME UNCHANGED report PROVE ReportOK'
  BY <1>0, <1>3 DEF ReportOK, Reached
<1>4. CASE StartVerify
  <2>1. PICK r \in Asked : w = [AtRest EXCEPT !.pc = "reading", !.range = r]
    BY <1>1, <1>4 DEF StartVerify
  <2>2. r \in [from : Blocks, to : Blocks]
    BY VerificationAssumption
  <2>3. w = [pc |-> "reading", range |-> r, seen |-> <<>>, still |-> TRUE]
    BY <2>1 DEF AtRest
  <2>4. w.range = r /\ DOMAIN w.seen = {}
    BY <2>3
  <2>5. SeenOK(w)
    BY <2>2, <2>3, <2>4 DEF SeenOK
  <2> QED
    BY <1>2, <1>3, <1>4, <2>5 DEF StartVerify
<1>5. CASE \E s \in Statements : Query(s)
  <2>1. PICK s \in Statements : Query(s)
    BY <1>5
  <2>2. PICK seen : seen = Over([t \in {s} |-> Tables(verify.range)[t]], verify.seen)
    OBVIOUS
  <2>3. w = [verify EXCEPT !.seen = seen] /\ UNCHANGED report
    BY <1>1, <2>1, <2>2 DEF Query
  <2>4. /\ DOMAIN seen = DOMAIN verify.seen \cup {s}
        /\ \A t \in DOMAIN seen :
             seen[t] = IF t = s THEN Tables(verify.range)[t] ELSE verify.seen[t]
    BY <2>2 DEF Over
  <2>5. /\ w.pc = verify.pc /\ w.range = verify.range /\ w.still = verify.still
        /\ w.seen = seen
        /\ w = [pc |-> w.pc, range |-> w.range, seen |-> w.seen, still |-> w.still]
    BY <2>3 DEF SeenOK
  <2>6. /\ Tables(verify.range)["coverage"] = Covered(verify.range)
        /\ Tables(verify.range)["holders"].to = {ledger[h].to : h \in DOMAIN ledger}
    BY DEF Tables, HolderSums
  <2>7. "coverage" \in DOMAIN seen /\ seen.coverage => verify.range.to <= covered
    BY <2>4, <2>6 DEF SeenOK, Covered
  <2>8. ASSUME "holders" \in DOMAIN seen, NEW b \in seen.holders.to
        PROVE  b \in Int /\ Reached(b)
    <3>1. CASE s = "holders"
      <4>1. PICK h \in DOMAIN ledger : b = ledger[h].to
        BY <2>4, <2>6, <2>8, <3>1
      <4> QED
        BY <4>1, BlocksAreIntegers DEF Inv, TablesOK, IsLedger, Backed
    <3>2. CASE s # "holders"
      BY <2>4, <2>8, <3>2 DEF SeenOK
    <3> QED
      BY <3>1, <3>2
  <2>9. SeenOK(w)
    BY <2>5, <2>7, <2>8 DEF SeenOK
  <2> QED
    BY <1>2, <1>3, <2>3, <2>9
<1>6. CASE Persist
  <2>1. PICK e \in Circumstances :
          report' = [range |-> verify.range, status |-> Status(verify, e)]
    BY <1>6 DEF Persist
  <2>2. {"coverage", "holders"} \subseteq DOMAIN verify.seen
    BY <1>6 DEF Persist, Statements, Tables
  <2>3. /\ report'.range = verify.range
        /\ report'.status \in {"pass", "warn"} => verify.range.to <= covered
        /\ report'.status = "pass" => \E b \in verify.seen.holders.to : b >= verify.range.to
    BY <2>1, <2>2, VerdictsHaveGrounds DEF SeenOK
  <2>4. ASSUME NEW b \in verify.seen.holders.to, b >= verify.range.to
        PROVE  Reached(verify.range.to)
    <3>1. b \in Int /\ Reached(b) /\ verify.range.to \in Int
      BY <2>2, BlocksAreIntegers DEF SeenOK
    <3>2. \A a \in activity : a.to \in Int
      BY BlocksAreIntegers DEF Inv, TablesOK
    <3> QED
      BY <2>4, <3>1, <3>2 DEF Reached
  <2>5. ReportOK'
    BY <1>0, <2>3, <2>4 DEF ReportOK, Reached, SeenOK
  <2> QED
    BY <1>1, <1>2, <1>6, <2>5, AtRestOK DEF Persist
<1>7. CASE VerifyFails
  BY <1>1, <1>2, <1>3, <1>7, AtRestOK DEF VerifyFails
<1> QED
  BY <1>4, <1>5, <1>6, <1>7 DEF VerifyStep

LEMMA VerdictInvariance == VerifySpec => []VerdictInv
<1>1. Init /\ VerifyInit => SeenOK(verify) /\ ReportOK
  BY AtRestOK, LedgerAssumption DEF VerifyInit, Unverified, NoRange, ReportOK, Blocks
<1>2. [VerifyNext]_<<vars, verifyVars>> => [Next]_vars
  BY DEF VerifyNext, LedgerStep, VerifyStep
<1>3. ReaderInv /\ SeenOK(verify) /\ ReportOK /\ [VerifyNext]_<<vars, verifyVars>>
        => SeenOK(verify)' /\ ReportOK'
  <2> SUFFICES ASSUME ReaderInv, SeenOK(verify), ReportOK, [VerifyNext]_<<vars, verifyVars>>
               PROVE  SeenOK(verify)' /\ ReportOK'
    OBVIOUS
  <2>0. Inv /\ Backed
    BY DEF ReaderInv, OrderInv
  <2>1. CASE VerifyStep
    BY <2>0, <2>1, VerifyStepInv
  <2>2. CASE LedgerStep
    <3>1. PICK w : w = verify'
      OBVIOUS
    <3>2. w = [verify EXCEPT !.still = w.still]
      BY <2>2, <3>1 DEF LedgerStep, SeenOK
    <3>3. SeenOK(w)
      BY <3>2 DEF SeenOK
    <3>4. SeenOK(w)' /\ ReportOK'
      BY <2>0, <2>2, <3>3, ReadingStays DEF LedgerStep
    <3> QED
      BY <3>1, <3>4 DEF SeenOK
  <2>3. CASE UNCHANGED <<vars, verifyVars>>
    BY <2>3 DEF vars, verifyVars, SeenOK, ReportOK, Reached
  <2> QED
    BY <2>1, <2>2, <2>3 DEF VerifyNext
<1> QED
  BY <1>1, <1>2, <1>3, ReaderInvariance, PTL DEF Spec, VerifySpec, VerdictInv

\* A verdict that is no failure is one on covered blocks, and one without a
\* warning on a stored replay (PassMeansCovered; verification/service.ts).
THEOREM VerdictIsBacked == VerifySpec => []PassMeansCovered
<1>1. VerdictInv => PassMeansCovered
  BY DEF VerdictInv, ReportOK, Reached, PassMeansCovered
<1> QED
  BY <1>1, VerdictInvariance, PTL
-------------------------------------------------------------------------------
(***************************************************************************)
(* Why a verification fails.  The checks of evaluators.ts compare numbers  *)
(* that are counted along different ways: supplies at two boundaries with  *)
(* the mints and burns between them, and the balances of all holders with  *)
(* a supply.  That they agree on true tables is a matter of sums.          *)
(***************************************************************************)
LEMMA AmountIsValueSum == \A es : Amount(es) = ValueSum(es)
BY DEF Amount, ValueSum

\* A history is finite, and its amounts are numbers.
LEMMA FiniteHistory ==
  ASSUME NEW es \in SUBSET History
  PROVE  /\ IsFiniteSet(es)
         /\ \A e \in es : /\ e.value \in Int /\ e.at \in Int
                          /\ e.from \in Addresses /\ e.to \in Addresses
<1>1. IsFiniteSet(es)
  BY LedgerAssumption, FS_Subset
<1>2. \A e \in es : e \in Transfer(Blocks, Nat)
  BY LedgerAssumption
<1>3. \A e \in es : e.value \in Nat /\ e.at \in Blocks /\ e.from \in Addresses /\ e.to \in Addresses
  BY <1>2 DEF Transfer
<1>4. \A e \in es : e.value \in Int
  BY <1>3
<1>5. \A e \in es : e.at \in Int
  BY LedgerAssumption, BlocksAreIntegers DEF Transfer
<1> QED
  BY <1>1, <1>3, <1>4, <1>5

LEMMA AmountInt == \A es \in SUBSET History : Amount(es) \in Int
BY FiniteHistory, ValueSumInt, AmountIsValueSum

\* The two parts of a set of transfers have its amount.
LEMMA AmountOfParts ==
  ASSUME NEW A \in SUBSET History, NEW B \in SUBSET History, A \cap B = {}
  PROVE  Amount(A \cup B) = Amount(A) + Amount(B)
<1>1. IsFiniteSet(A) /\ IsFiniteSet(B) /\ \A e \in A \cup B : e.value \in Int
  BY FiniteHistory
<1> QED
  BY <1>1, ValueSumUnion, AmountIsValueSum

LEMMA NumbersAreInt ==
  ASSUME NEW es \in SUBSET History
  PROVE  /\ Minted(es) \in Int /\ Burned(es) \in Int
         /\ \A h : Net(es, h) \in Int
<1>1. {e \in es : e.from = Zero} \in SUBSET History /\ {e \in es : e.to = Zero} \in SUBSET History
  OBVIOUS
<1>2. ASSUME NEW h PROVE Net(es, h) \in Int
  <2>1. {e \in es : e.from = h} \in SUBSET History /\ {e \in es : e.to = h} \in SUBSET History
    OBVIOUS
  <2> QED
    BY <2>1, AmountInt DEF Net
<1> QED
  BY <1>1, <1>2, AmountInt DEF Minted, Burned

\* What is minted, burned and gained in two parts adds up.
LEMMA PartsAddUp ==
  ASSUME NEW A \in SUBSET History, NEW B \in SUBSET History, A \cap B = {}
  PROVE  /\ Minted(A \cup B) = Minted(A) + Minted(B)
         /\ Burned(A \cup B) = Burned(A) + Burned(B)
         /\ \A h : Net(A \cup B, h) = Net(A, h) + Net(B, h)
<1> DEFINE Sent(es, h) == {e \in es : e.from = h}
           Got(es, h)  == {e \in es : e.to = h}
<1>1. ASSUME NEW h
      PROVE  /\ Amount(Sent(A \cup B, h)) = Amount(Sent(A, h)) + Amount(Sent(B, h))
             /\ Amount(Got(A \cup B, h)) = Amount(Got(A, h)) + Amount(Got(B, h))
             /\ Amount(Sent(A, h)) \in Int /\ Amount(Sent(B, h)) \in Int
             /\ Amount(Got(A, h)) \in Int /\ Amount(Got(B, h)) \in Int
  <2>1. Sent(A \cup B, h) = Sent(A, h) \cup Sent(B, h) /\ Sent(A, h) \cap Sent(B, h) = {}
    OBVIOUS
  <2>2. Got(A \cup B, h) = Got(A, h) \cup Got(B, h) /\ Got(A, h) \cap Got(B, h) = {}
    OBVIOUS
  <2>3. /\ Sent(A, h) \in SUBSET History /\ Sent(B, h) \in SUBSET History
        /\ Got(A, h) \in SUBSET History /\ Got(B, h) \in SUBSET History
    OBVIOUS
  <2> HIDE DEF Sent, Got
  <2> QED
    BY <2>1, <2>2, <2>3, AmountOfParts, AmountInt
<1>2. ASSUME NEW h PROVE Net(A \cup B, h) = Net(A, h) + Net(B, h)
  <2>1. /\ Net(A \cup B, h) = Amount(Got(A \cup B, h)) - Amount(Sent(A \cup B, h))
        /\ Net(A, h) = Amount(Got(A, h)) - Amount(Sent(A, h))
        /\ Net(B, h) = Amount(Got(B, h)) - Amount(Sent(B, h))
    BY DEF Net
  <2>2. /\ Amount(Sent(A \cup B, h)) = Amount(Sent(A, h)) + Amount(Sent(B, h))
        /\ Amount(Got(A \cup B, h)) = Amount(Got(A, h)) + Amount(Got(B, h))
        /\ Amount(Sent(A, h)) \in Int /\ Amount(Sent(B, h)) \in Int
        /\ Amount(Got(A, h)) \in Int /\ Amount(Got(B, h)) \in Int
    BY <1>1
  <2> HIDE DEF Sent, Got
  <2> QED
    BY <2>1, <2>2
<1>3. /\ Minted(A) = Amount(Sent(A, Zero)) /\ Burned(A) = Amount(Got(A, Zero))
      /\ Minted(B) = Amount(Sent(B, Zero)) /\ Burned(B) = Amount(Got(B, Zero))
      /\ Minted(A \cup B) = Amount(Sent(A \cup B, Zero))
      /\ Burned(A \cup B) = Amount(Got(A \cup B, Zero))
  BY DEF Minted, Burned
<1> HIDE DEF Sent, Got
<1> QED
  BY <1>1, <1>2, <1>3

LEMMA NetAddsUp ==
  ASSUME NEW A \in SUBSET History, NEW B \in SUBSET History, A \cap B = {}, NEW h
  PROVE  /\ Net(A, h) \in Int /\ Net(B, h) \in Int
         /\ Net(A \cup B, h) = Net(A, h) + Net(B, h)
<1>1. \A k : Net(A, k) \in Int
  BY NumbersAreInt
<1>2. \A k : Net(B, k) \in Int
  BY NumbersAreInt
<1>3. \A k : Net(A \cup B, k) = Net(A, k) + Net(B, k)
  BY PartsAddUp
<1> QED
  BY <1>1, <1>2, <1>3

-------------------------------------------------------------------------------
SentBy(es, h) == {e \in es : e.from = h}
GotBy(es, h)  == {e \in es : e.to = h}
Sending(es)   == [h \in Touched(es) |-> Amount(SentBy(es, h))]
Getting(es)   == [h \in Touched(es) |-> Amount(GotBy(es, h))]

\* What holders send, added up holder by holder.
LEMMA AddedBySender ==
  ASSUME NEW es \in SUBSET History
  PROVE  SumFunctionOnSet(Sending(es), Touched(es))
           = Amount(es) - Minted(es)
<1> DEFINE K == Touched(es)
           part == [h \in K |-> SentBy(es, h)]
           g == Sending(es)
<1>1. IsFiniteSet(K)
  BY HoldersAssumption, FS_Subset DEF Touched
<1>2. \A h \in K : SentBy(es, h) \in SUBSET es
  BY DEF SentBy
<1>3. ASSUME NEW h \in K
      PROVE  /\ IsFiniteSet(part[h]) /\ g[h] = SumFunctionOnSet(ValueOf(es), part[h])
             /\ \A x \in part[h] : ValueOf(es)[x] \in Int
  <2>1. part[h] = SentBy(es, h) /\ part[h] \in SUBSET es /\ part[h] \in SUBSET History
    BY <1>2
  <2>2. IsFiniteSet(part[h]) /\ \A e \in part[h] : e.value \in Int
    BY <2>1, FiniteHistory
  <2>3. ValueSum(part[h]) = SumFunctionOnSet(ValueOf(es), part[h])
    BY <2>1, <2>2, ValueSumOn
  <2>4. g[h] = ValueSum(part[h])
    BY <2>1, AmountIsValueSum DEF Sending, Getting
  <2> QED
    BY <2>1, <2>2, <2>3, <2>4 DEF ValueOf
<1>4. \A j, k \in K : j # k => part[j] \cap part[k] = {}
  BY DEF SentBy
<1>5. UNION {part[k] : k \in K} = {e \in es : e.from # Zero}
  <2>1. \A e \in es : e.from # Zero <=> e.from \in Holders
    BY FiniteHistory, HoldersAssumption DEF Addresses
  <2>2. \A e \in es : e.from \in Holders => e.from \in K
    BY DEF Touched
  <2>3. \A k \in K : k \in Holders /\ part[k] = {e \in es : e.from = k}
    BY DEF Touched, SentBy
  <2> HIDE DEF K, part
  <2> QED
    BY <2>1, <2>2, <2>3
<1>6. SumFunctionOnSet(g, K) = SumFunctionOnSet(ValueOf(es), UNION {part[k] : k \in K})
  <2> HIDE DEF K, part, g
  <2> QED
    BY <1>1, <1>3, <1>4, SumOfGroups
<1> DEFINE rest == {e \in es : e.from # Zero}
           mint == {e \in es : e.from = Zero}
<1>7. rest \in SUBSET es /\ rest \in SUBSET History /\ mint \in SUBSET History
      /\ rest \cap mint = {} /\ rest \cup mint = es
  OBVIOUS
<1>8. Minted(es) = Amount(mint)
  BY DEF Minted
<1> HIDE DEF rest, mint, K, part, g
<1>9. SumFunctionOnSet(ValueOf(es), rest) = Amount(rest)
  BY <1>7, FiniteHistory, ValueSumOn, AmountIsValueSum
<1>10. Amount(es) = Amount(rest) + Amount(mint) /\ Amount(rest) \in Int /\ Amount(mint) \in Int
  BY <1>7, AmountOfParts, AmountInt
<1>11. SumFunctionOnSet(g, K) = SumFunctionOnSet(ValueOf(es), rest)
  BY <1>5, <1>6 DEF rest
<1>12. SumFunctionOnSet(g, K) = Amount(es) - Minted(es)
  BY <1>8, <1>9, <1>10, <1>11
<1> QED
  BY <1>12 DEF g, K

LEMMA AddedByReceiver ==
  ASSUME NEW es \in SUBSET History
  PROVE  SumFunctionOnSet(Getting(es), Touched(es))
           = Amount(es) - Burned(es)
<1> DEFINE K == Touched(es)
           part == [h \in K |-> GotBy(es, h)]
           g == Getting(es)
<1>1. IsFiniteSet(K)
  BY HoldersAssumption, FS_Subset DEF Touched
<1>2. \A h \in K : GotBy(es, h) \in SUBSET es
  BY DEF GotBy
<1>3. ASSUME NEW h \in K
      PROVE  /\ IsFiniteSet(part[h]) /\ g[h] = SumFunctionOnSet(ValueOf(es), part[h])
             /\ \A x \in part[h] : ValueOf(es)[x] \in Int
  <2>1. part[h] = GotBy(es, h) /\ part[h] \in SUBSET es /\ part[h] \in SUBSET History
    BY <1>2
  <2>2. IsFiniteSet(part[h]) /\ \A e \in part[h] : e.value \in Int
    BY <2>1, FiniteHistory
  <2>3. ValueSum(part[h]) = SumFunctionOnSet(ValueOf(es), part[h])
    BY <2>1, <2>2, ValueSumOn
  <2>4. g[h] = ValueSum(part[h])
    BY <2>1, AmountIsValueSum DEF Sending, Getting
  <2> QED
    BY <2>1, <2>2, <2>3, <2>4 DEF ValueOf
<1>4. \A j, k \in K : j # k => part[j] \cap part[k] = {}
  BY DEF GotBy
<1>5. UNION {part[k] : k \in K} = {e \in es : e.to # Zero}
  <2>1. \A e \in es : e.to # Zero <=> e.to \in Holders
    BY FiniteHistory, HoldersAssumption DEF Addresses
  <2>2. \A e \in es : e.to \in Holders => e.to \in K
    BY DEF Touched
  <2>3. \A k \in K : k \in Holders /\ part[k] = {e \in es : e.to = k}
    BY DEF Touched, GotBy
  <2> HIDE DEF K, part
  <2> QED
    BY <2>1, <2>2, <2>3
<1>6. SumFunctionOnSet(g, K) = SumFunctionOnSet(ValueOf(es), UNION {part[k] : k \in K})
  <2> HIDE DEF K, part, g
  <2> QED
    BY <1>1, <1>3, <1>4, SumOfGroups
<1> DEFINE rest == {e \in es : e.to # Zero}
           burn == {e \in es : e.to = Zero}
<1>7. rest \in SUBSET es /\ rest \in SUBSET History /\ burn \in SUBSET History
      /\ rest \cap burn = {} /\ rest \cup burn = es
  OBVIOUS
<1>8. Burned(es) = Amount(burn)
  BY DEF Burned
<1> HIDE DEF rest, burn, K, part, g
<1>9. SumFunctionOnSet(ValueOf(es), rest) = Amount(rest)
  BY <1>7, FiniteHistory, ValueSumOn, AmountIsValueSum
<1>10. Amount(es) = Amount(rest) + Amount(burn) /\ Amount(rest) \in Int /\ Amount(burn) \in Int
  BY <1>7, AmountOfParts, AmountInt
<1>11. SumFunctionOnSet(g, K) = SumFunctionOnSet(ValueOf(es), rest)
  BY <1>5, <1>6 DEF rest
<1>12. SumFunctionOnSet(g, K) = Amount(es) - Burned(es)
  BY <1>8, <1>9, <1>10, <1>11
<1> QED
  BY <1>12 DEF g, K

\* The balances of a replay add up to what was minted and not burned.
LEMMA BalancesAreSupply ==
  ASSUME NEW es \in SUBSET History, NEW r
  PROVE  SumFunction([h \in DOMAIN Rows(es, r) |-> Rows(es, r)[h].balance])
           = Minted(es) - Burned(es)
<1> DEFINE K == Touched(es)
           f == Getting(es)
           g == Sending(es)
           d == [h \in DOMAIN Rows(es, r) |-> Rows(es, r)[h].balance]
<1>1. d = [h \in K |-> Net(es, h)]
  BY DEF Rows
<1>2. \A h \in K : GotBy(es, h) \in SUBSET History /\ SentBy(es, h) \in SUBSET History
  BY DEF GotBy, SentBy
<1>3. \A h \in K : f[h] \in Int /\ g[h] \in Int /\ d[h] = f[h] - g[h]
  BY <1>1, <1>2, AmountInt DEF Net, GotBy, SentBy, Sending, Getting
<1>4. IsFiniteSet(K)
  BY HoldersAssumption, FS_Subset DEF Touched
<1>5. SumFunctionOnSet(f, K) = Amount(es) - Burned(es)
  BY AddedByReceiver
<1>6. SumFunctionOnSet(g, K) = Amount(es) - Minted(es)
  BY AddedBySender
<1>7. SumFunction(d) = SumFunctionOnSet(d, K)
  BY <1>1 DEF SumFunction
<1> HIDE DEF f, g, d, K
<1>8. SumFunctionOnSet(d, K) = SumFunctionOnSet(f, K) - SumFunctionOnSet(g, K)
  BY <1>3, <1>4, SumDifference
<1>9. Amount(es) \in Int /\ Minted(es) \in Int /\ Burned(es) \in Int
  BY AmountInt, NumbersAreInt
<1> QED
  BY <1>5, <1>6, <1>7, <1>8, <1>9 DEF d

-------------------------------------------------------------------------------
\* A boundary is the one before it and what lies in between.
LEMMA UntilSplits ==
  ASSUME NEW r \in [from : Blocks, to : Blocks], r.from <= r.to
  PROVE  /\ Until(r.from) \in SUBSET History /\ Within(History, After(r)) \in SUBSET History
         /\ Until(r.from) \cap Within(History, After(r)) = {}
         /\ Until(r.to) = Until(r.from) \cup Within(History, After(r))
<1>1. r.from \in Int /\ r.to \in Int /\ Deploy \in Int /\ Deploy <= r.from
  BY BlocksAreIntegers
<1>2. \A e \in History : e.at \in Int /\ Deploy <= e.at
  BY LedgerAssumption, BlocksAreIntegers DEF Transfer
<1>3. \A b : Until(b) = {e \in History : Deploy <= e.at /\ e.at <= b}
  BY DEF Until, Within
<1>4. Within(History, After(r)) = {e \in History : r.from + 1 <= e.at /\ e.at <= r.to}
  BY DEF After, Within
<1>5. \A e \in History : e.at <= r.to <=> e.at <= r.from \/ (r.from + 1 <= e.at /\ e.at <= r.to)
  BY <1>1, <1>2
<1>6. \A e \in History : ~ (e.at <= r.from /\ r.from + 1 <= e.at)
  BY <1>1, <1>2
<1> QED
  BY <1>2, <1>3, <1>4, <1>5, <1>6

LEMMA CompareMatches ==
  ASSUME NEW E, NEW A, NEW t, \A x \in E, y \in A : y - x \in -t .. t
  PROVE  Compare(E, A, t) \in {"pass", "warn"}
<1>1. CASE E = {} \/ A = {}
  BY <1>1 DEF Compare
<1>2. CASE ~ (E = {} \/ A = {})
  <2>1. \E x \in E, y \in A : y - x \in -t .. t
    BY <1>2
  <2> QED
    BY <1>2, <2>1 DEF Compare
<1> QED
  BY <1>1, <1>2

LEMMA DeltaMatches ==
  ASSUME NEW S, NEW N, NEW E, NEW t \in Nat, NEW s \in Int, NEW n \in Int,
         S \subseteq {s}, N \subseteq {n}, E \subseteq {s + n}
  PROVE  Delta(S, N, E, t) \in {"pass", "warn"}
<1> DEFINE X == {x + y : x \in S, y \in N}
<1>1. X \subseteq {s + n}
  OBVIOUS
<1>2. \A x \in X, y \in E : y - x \in -t .. t
  BY <1>1
<1> HIDE DEF X
<1>3. Compare(X, E, t) \in {"pass", "warn"}
  BY <1>2, CompareMatches
<1> QED
  BY <1>3 DEF Delta, X

LEMMA KnownIn == \A c, x : Known(c, x) \subseteq {x}
BY DEF Known

\* An event of the vault has a number and a block, that of its transaction.
LEMMA EventFacts ==
  /\ \A v \in VaultEvents : v.value \in Int /\ v.at \in Int
  /\ \A v, w \in VaultEvents : v.tx = w.tx => v.at = w.at
  /\ \A v \in VaultEvents, e \in History : v.tx = Transaction[e] => v.at = e.at
<1>1. \A v \in VaultEvents : v.value \in Nat /\ v.at \in Blocks
  BY VerificationAssumption DEF VaultEvent
<1>2. \A v \in VaultEvents : v.value \in Int /\ v.at \in Int
  <2>1. \A at \in Blocks : at \in Int
    BY BlocksAreIntegers
  <2> QED
    BY <1>1, <2>1
<1>3. \A v, w \in VaultEvents : v.tx = w.tx => v.at = w.at
  BY VerificationAssumption
<1>4. \A v \in VaultEvents, e \in History : v.tx = Transaction[e] => v.at = e.at
  BY VerificationAssumption
<1> QED
  BY <1>2, <1>3, <1>4

\* A verification that has seen the tables as they are.
SeesTruth(v) ==
  /\ v.range \in [from : Blocks, to : Blocks] /\ v.range.from <= v.range.to
  /\ \A s \in Statements : v.seen[s] = Tables(v.range)[s]

LEMMA WhatIsSeen ==
  ASSUME NEW v, SeesTruth(v), covered \in Int, covered = v.range.to
  PROVE  /\ v.seen.coverage /\ v.seen.lifetime
         /\ v.seen.checkpoint = {v.range.to}
         /\ v.seen.holders = HolderSums
         /\ v.seen.totals.transfers = Within(History, After(v.range))
         /\ v.seen.totals.events = Within(VaultEvents, After(v.range))
         /\ v.seen.direct = Direct(Within(History, After(v.range)), VaultEvents)
<1>1. Statements = {"totals", "direct", "coverage", "lifetime", "checkpoint", "holders"}
  BY DEF Statements, Tables
<1>2. /\ v.seen["totals"] = [transfers |-> Within(Evidence, After(v.range)),
                             events |-> Within(VaultEvidence, After(v.range))]
      /\ v.seen["direct"] = Direct(Within(Evidence, After(v.range)), VaultEvidence)
      /\ v.seen["coverage"] = Covered(v.range)
      /\ v.seen["lifetime"] = Covered(v.range)
      /\ v.seen["checkpoint"] = {covered} \cap Blocks
      /\ v.seen["holders"] = HolderSums
  BY <1>1 DEF SeesTruth, Tables
<1>3. v.range.from \in Blocks /\ v.range.to \in Blocks
  BY DEF SeesTruth
<1>4. Covered(v.range)
  <2>1. Deploy <= v.range.from
    BY <1>3, BlocksAreIntegers
  <2>2. v.range.to <= covered
    OBVIOUS
  <2> QED
    BY <2>1, <2>2 DEF Covered
<1>5. Within(Evidence, After(v.range)) = Within(History, After(v.range))
  <2>1. \A e \in History : e.at \in Int
    BY LedgerAssumption, BlocksAreIntegers DEF Transfer
  <2> QED
    BY <2>1 DEF Within, Evidence, After
<1>6. Within(VaultEvidence, After(v.range)) = Within(VaultEvents, After(v.range))
  <2>1. \A w \in VaultEvents : w.at \in Int
    BY EventFacts
  <2> QED
    BY <2>1 DEF Within, VaultEvidence, After
<1>7. Direct(Within(History, After(v.range)), VaultEvidence)
        = Direct(Within(History, After(v.range)), VaultEvents)
  <2>1. \A e \in Within(History, After(v.range)) : e \in History /\ e.at <= covered
    BY DEF Within, After
  <2>2. \A e \in Within(History, After(v.range)), w \in VaultEvents :
          w.tx = Transaction[e] => w \in VaultEvidence
    BY <2>1, EventFacts DEF VaultEvidence
  <2> QED
    BY <2>2 DEF Direct, VaultEvidence
<1>8. covered \in Blocks
  BY <1>3
<1>9. /\ v.seen.totals.transfers = Within(History, After(v.range))
      /\ v.seen.totals.events = Within(VaultEvents, After(v.range))
  BY <1>2, <1>5, <1>6
<1>10. v.seen.direct = Direct(Within(History, After(v.range)), VaultEvents)
  BY <1>2, <1>5, <1>7
<1> QED
  BY <1>2, <1>4, <1>8, <1>9, <1>10

\* The checks on the two supplies.
LEMMA SuppliesMatch ==
  ASSUME NEW v, SeesTruth(v), covered \in Int, covered = v.range.to, NEW e, NEW c
  PROVE  SupplyCheck(v, e, c) \in {"pass", "warn"}
<1> DEFINE A == Until(v.range.from)
           B == Within(History, After(v.range))
<1>1. v.seen.totals.transfers = B
  BY WhatIsSeen
<1>2. A \in SUBSET History /\ B \in SUBSET History /\ A \cap B = {} /\ Until(v.range.to) = A \cup B
  BY UntilSplits DEF SeesTruth
<1>3. SupplyCheck(v, e, c) = Delta(Boundary(e, Supply(v.range.from)), Known(c, Minted(B) - Burned(B)),
                                   Boundary(e, Supply(v.range.to)), 0)
  BY <1>1 DEF SupplyCheck
<1>4. Supply(v.range.from) = Minted(A) - Burned(A)
  BY DEF Supply
<1>5. Supply(v.range.to) = Minted(A \cup B) - Burned(A \cup B)
  BY <1>2 DEF Supply
<1> HIDE DEF A, B
<1>6. /\ Minted(A) \in Int /\ Burned(A) \in Int /\ Minted(B) \in Int /\ Burned(B) \in Int
      /\ Minted(A \cup B) = Minted(A) + Minted(B) /\ Burned(A \cup B) = Burned(A) + Burned(B)
  BY <1>2, NumbersAreInt, PartsAddUp
<1>7. PICK s \in Int, n \in Int : /\ s = Supply(v.range.from) /\ n = Minted(B) - Burned(B)
                                  /\ Supply(v.range.to) = s + n
  BY <1>4, <1>5, <1>6
<1>8. /\ Boundary(e, Supply(v.range.from)) \subseteq {s} /\ Known(c, Minted(B) - Burned(B)) \subseteq {n}
      /\ Boundary(e, Supply(v.range.to)) \subseteq {s + n}
  BY <1>7, KnownIn DEF Boundary
<1> QED
  BY <1>3, <1>8, DeltaMatches

-------------------------------------------------------------------------------
\* What a transaction is to the vault: its events, and its transfers.
EventsOf(k)    == {v \in VaultEvents : v.tx \in k}
TransfersOf(k) == {e \in History : Transaction[e] \in k}

LEMMA NamedAddsUp ==
  ASSUME NEW A \in SUBSET VaultEvents, NEW B \in SUBSET VaultEvents, A \cap B = {}, NEW name
  PROVE  /\ Named(A, name) \in Int /\ Named(B, name) \in Int
         /\ Named(A \cup B, name) = Named(A, name) + Named(B, name)
<1> DEFINE a == {v \in A : v.name = name}
           b == {v \in B : v.name = name}
<1>1. IsFiniteSet(A) /\ IsFiniteSet(B)
  BY VerificationAssumption, FS_Subset
<1>2. IsFiniteSet(a) /\ IsFiniteSet(b) /\ a \cap b = {} /\ \A v \in a \cup b : v.value \in Int
  BY <1>1, EventFacts, FS_Subset
<1>3. {v \in A \cup B : v.name = name} = a \cup b
  OBVIOUS
<1>4. Named(A, name) = ValueSum(a) /\ Named(B, name) = ValueSum(b)
      /\ Named(A \cup B, name) = ValueSum(a \cup b)
  BY <1>3, AmountIsValueSum DEF Named
<1> HIDE DEF a, b
<1> QED
  BY <1>2, <1>4, ValueSumUnion, ValueSumInt

LEMMA DeclaredAddsUp ==
  ASSUME NEW A \in SUBSET VaultEvents, NEW B \in SUBSET VaultEvents, A \cap B = {}
  PROVE  /\ Declared(A) \in Int /\ Declared(B) \in Int
         /\ Declared(A \cup B) = Declared(A) + Declared(B)
<1> DEFINE D(S) == Named(S, "Deposit")
           W(S) == Named(S, "Withdraw")
           I(S) == Named(S, "Accrued")
<1>1. /\ D(A) \in Int /\ D(B) \in Int /\ D(A \cup B) = D(A) + D(B)
      /\ W(A) \in Int /\ W(B) \in Int /\ W(A \cup B) = W(A) + W(B)
      /\ I(A) \in Int /\ I(B) \in Int /\ I(A \cup B) = I(A) + I(B)
  <2>1. \A name : /\ Named(A, name) \in Int /\ Named(B, name) \in Int
                  /\ Named(A \cup B, name) = Named(A, name) + Named(B, name)
    BY NamedAddsUp
  <2> QED
    BY <2>1
<1>2. \A S : Declared(S) = D(S) - W(S) + I(S)
  BY DEF Declared
<1> HIDE DEF D, W, I
<1>3. PICK dA \in Int, dB \in Int, wA \in Int, wB \in Int, iA \in Int, iB \in Int :
        /\ D(A) = dA /\ D(B) = dB /\ W(A) = wA /\ W(B) = wB /\ I(A) = iA /\ I(B) = iB
        /\ D(A \cup B) = dA + dB /\ W(A \cup B) = wA + wB /\ I(A \cup B) = iA + iB
  BY <1>1
<1>4. Declared(A) = dA - wA + iA /\ Declared(B) = dB - wB + iB
      /\ Declared(A \cup B) = (dA + dB) - (wA + wB) + (iA + iB)
  BY <1>2, <1>3
<1> QED
  BY <1>4

LEMMA NothingHappened == Declared({}) = 0 /\ \A h : Net({}, h) = 0
<1>1. Amount({}) = 0
  BY ValueSumNone, AmountIsValueSum
<1>2. \A name : Named({}, name) = 0
  BY <1>1 DEF Named
<1>3. \A h : Net({}, h) = 0
  BY <1>1 DEF Net
<1> QED
  BY <1>2, <1>3 DEF Declared

\* Transactions that are each declared are declared together.
LEMMA TransactionsAddUp ==
  ASSUME NEW K, IsFiniteSet(K),
         \A x \in K : Declared(EventsOf({x})) = Net(TransfersOf({x}), Vault)
  PROVE  Declared(EventsOf(K)) = Net(TransfersOf(K), Vault)
<1> DEFINE Bad == {k \in SUBSET K : Declared(EventsOf(k)) # Net(TransfersOf(k), Vault)}
<1>1. SUFFICES ASSUME Bad # {}
               PROVE  FALSE
  OBVIOUS
<1>2. PICK k \in Bad : \A t \in Bad : ~ (t \subseteq k /\ t # k)
  <2>1. Bad \in SUBSET (SUBSET K)
    OBVIOUS
  <2> HIDE DEF Bad
  <2> QED
    BY <1>1, <2>1, SmallestSubset
<1>3. k # {}
  <2>1. EventsOf({}) = {} /\ TransfersOf({}) = {}
    BY DEF EventsOf, TransfersOf
  <2> QED
    BY <2>1, NothingHappened
<1>4. PICK x \in k : TRUE
  BY <1>3
<1> DEFINE l == k \ {x}
<1>5. Declared(EventsOf(l)) = Net(TransfersOf(l), Vault)
  BY <1>2, <1>4
<1>6. Declared(EventsOf({x})) = Net(TransfersOf({x}), Vault)
  BY <1>4
<1>7. /\ EventsOf(l) \in SUBSET VaultEvents /\ EventsOf({x}) \in SUBSET VaultEvents
      /\ EventsOf(l) \cap EventsOf({x}) = {} /\ EventsOf(k) = EventsOf(l) \cup EventsOf({x})
  BY <1>4 DEF EventsOf
<1>8. /\ TransfersOf(l) \in SUBSET History /\ TransfersOf({x}) \in SUBSET History
      /\ TransfersOf(l) \cap TransfersOf({x}) = {}
      /\ TransfersOf(k) = TransfersOf(l) \cup TransfersOf({x})
  BY <1>4 DEF TransfersOf
<1>9. Declared(EventsOf(k)) # Net(TransfersOf(k), Vault)
  OBVIOUS
<1> HIDE DEF Bad, l
<1>10. Declared(EventsOf(k)) = Declared(EventsOf(l)) + Declared(EventsOf({x}))
  BY <1>7, DeclaredAddsUp
<1>11. Net(TransfersOf(k), Vault) = Net(TransfersOf(l), Vault) + Net(TransfersOf({x}), Vault)
  <2>1. PICK A \in SUBSET History, B \in SUBSET History :
          A = TransfersOf(l) /\ B = TransfersOf({x}) /\ A \cap B = {}
    BY <1>8
  <2>2. \A h : Net(A \cup B, h) = Net(A, h) + Net(B, h)
    BY <2>1, PartsAddUp
  <2> QED
    BY <1>8, <2>1, <2>2
<1> QED
  BY <1>5, <1>6, <1>9, <1>10, <1>11

\* The transfers of a range are those of transactions in which the vault says
\* something, all of which lie in the range, and the direct ones.
LEMMA TransactionsOfRange ==
  ASSUME NEW r
  PROVE  LET S == Within(VaultEvents, r)
             B == Within(History, r)
             K == {w.tx : w \in S}
             D == Direct(B, VaultEvents)
         IN  /\ IsFiniteSet(K) /\ EventsOf(K) = S
             /\ TransfersOf(K) \in SUBSET History /\ D \in SUBSET History
             /\ TransfersOf(K) \cap D = {} /\ TransfersOf(K) \cup D = B
<1> DEFINE S == Within(VaultEvents, r)
           B == Within(History, r)
           K == {w.tx : w \in S}
           D == Direct(B, VaultEvents)
<1>1. S \in SUBSET VaultEvents /\ B \in SUBSET History
  BY DEF Within
<1>2. IsFiniteSet(K)
  <2>1. IsFiniteSet(S)
    BY <1>1, VerificationAssumption, FS_Subset
  <2>2. PICK f : f = [w \in S |-> w.tx]
    OBVIOUS
  <2>3. f \in Surjection(S, K)
    BY <2>2 DEF Surjection
  <2> HIDE DEF S, K
  <2> QED
    BY <2>1, <2>3, FS_Surjection
<1>3. \A v \in VaultEvents, w \in S : v.tx = w.tx => v \in S
  BY EventFacts DEF Within
<1>4. EventsOf(K) = S
  BY <1>1, <1>3 DEF EventsOf
<1>5. ASSUME NEW e \in History
      PROVE  Transaction[e] \in K <=> e \in B /\ \E v \in VaultEvents : v.tx = Transaction[e]
  <2>1. ASSUME Transaction[e] \in K PROVE e \in B /\ \E v \in VaultEvents : v.tx = Transaction[e]
    <3>1. PICK w \in S : w.tx = Transaction[e]
      BY <2>1
    <3>2. w \in VaultEvents /\ w.at = e.at
      BY <1>1, <3>1, EventFacts
    <3> QED
      BY <3>1, <3>2 DEF Within
  <2>2. ASSUME e \in B, NEW v \in VaultEvents, v.tx = Transaction[e] PROVE Transaction[e] \in K
    <3>1. v.at = e.at
      BY <2>2, EventFacts
    <3>2. v \in S
      BY <2>2, <3>1 DEF Within
    <3> QED
      BY <2>2, <3>2
  <2> QED
    BY <2>1, <2>2
<1>6. \A e \in B : e \in D <=> ~ \E v \in VaultEvents : v.tx = Transaction[e]
  BY DEF Direct
<1>7. D \subseteq B
  BY DEF Direct
<1> HIDE DEF K, S, B, D
<1>8. TransfersOf(K) \in SUBSET History /\ D \in SUBSET History
      /\ TransfersOf(K) \cap D = {} /\ TransfersOf(K) \cup D = B
  BY <1>1, <1>5, <1>6, <1>7 DEF TransfersOf
<1> QED
  BY <1>2, <1>4, <1>8 DEF K, S, B, D

\* Where the vault does not pay itself, direct transfers are worth their net.
LEMMA DirectIsNet ==
  ASSUME NEW es, \A e \in es : ~ (e.from = Vault /\ e.to = Vault)
  PROVE  DirectNet(es) = Net(es, Vault)
<1>1. {e \in es : e.from = Vault /\ e.to # Vault} = {e \in es : e.from = Vault}
  OBVIOUS
<1> QED
  BY <1>1 DEF DirectNet, Net

\* The check on the underlying of the savings.
LEMMA UnderlyingMatches ==
  ASSUME NEW v, SeesTruth(v), covered \in Int, covered = v.range.to, NEW e,
         ~ Undeclared(v.range), ~ PaysItself(v.range)
  PROVE  UnderlyingCheck(v, e) \in {"pass", "warn"}
<1> DEFINE A == Until(v.range.from)
           B == Within(History, After(v.range))
           S == Within(VaultEvents, After(v.range))
           K == {w.tx : w \in S}
           C == TransfersOf(K)
           D == Direct(B, VaultEvents)
<1>1. v.seen.totals.events = S /\ v.seen.direct = D
  BY WhatIsSeen
<1>2. A \in SUBSET History /\ B \in SUBSET History /\ A \cap B = {} /\ Until(v.range.to) = A \cup B
  BY UntilSplits DEF SeesTruth
<1>3. /\ IsFiniteSet(K) /\ EventsOf(K) = S
      /\ C \in SUBSET History /\ D \in SUBSET History /\ C \cap D = {} /\ C \cup D = B
  BY TransactionsOfRange
<1>4. UnderlyingCheck(v, e) = Delta(Boundary(e, Underlying(v.range.from)),
                                    Known(v.seen.coverage, Declared(S) + DirectNet(D)),
                                    Boundary(e, Underlying(v.range.to)), Rounding)
  BY <1>1 DEF UnderlyingCheck
<1>5. Underlying(v.range.from) = Net(A, Vault) /\ Underlying(v.range.to) = Net(A \cup B, Vault)
  BY <1>2 DEF Underlying
<1>6. Declared(S) = Net(C, Vault)
  <2>1. ASSUME NEW x \in K PROVE Declared(EventsOf({x})) = Net(TransfersOf({x}), Vault)
    <3>1. PICK w \in S : x = w.tx
      OBVIOUS
    <3>2. /\ EventsOf({x}) = {u \in VaultEvents : u.tx = w.tx}
          /\ TransfersOf({x}) = {t \in History : Transaction[t] = w.tx}
      BY <3>1 DEF EventsOf, TransfersOf
    <3> QED
      BY <3>2 DEF Undeclared
  <2> HIDE DEF K, S
  <2>2. Declared(EventsOf(K)) = Net(TransfersOf(K), Vault)
    BY <1>3, <2>1, TransactionsAddUp
  <2> QED
    BY <1>3, <2>2
<1>7. DirectNet(D) = Net(D, Vault)
  <2>1. \A t \in D : ~ (t.from = Vault /\ t.to = Vault)
    BY DEF PaysItself
  <2> HIDE DEF D
  <2> QED
    BY <2>1, DirectIsNet
<1> HIDE DEF A, B, C, D, S, K
<1>8. PICK c \in Int, d \in Int : /\ c = Net(C, Vault) /\ d = Net(D, Vault)
                                  /\ Net(B, Vault) = c + d
  <2>1. /\ Net(C, Vault) \in Int /\ Net(D, Vault) \in Int
        /\ Net(C \cup D, Vault) = Net(C, Vault) + Net(D, Vault)
    BY <1>3, NetAddsUp
  <2> QED
    BY <1>3, <2>1
<1>9. PICK s \in Int : s = Net(A, Vault) /\ Net(A \cup B, Vault) = s + Net(B, Vault)
  <2>1. A \in SUBSET History /\ B \in SUBSET History /\ A \cap B = {}
    BY <1>2
  <2>2. \A h : Net(A, h) \in Int
    BY <2>1, NumbersAreInt
  <2>3. \A h : Net(A \cup B, h) = Net(A, h) + Net(B, h)
    BY <2>1, PartsAddUp
  <2> QED
    BY <2>2, <2>3
<1>10. PICK n \in Int : n = Declared(S) + DirectNet(D) /\ n = Net(B, Vault)
  BY <1>6, <1>7, <1>8
<1>11. s = Underlying(v.range.from) /\ s + n = Underlying(v.range.to)
  BY <1>5, <1>9, <1>10
<1>12. /\ Boundary(e, Underlying(v.range.from)) \subseteq {s}
       /\ Known(v.seen.coverage, Declared(S) + DirectNet(D)) \subseteq {n}
       /\ Boundary(e, Underlying(v.range.to)) \subseteq {s + n}
  BY <1>10, <1>11, KnownIn DEF Boundary
<1> QED
  BY <1>4, <1>12, DeltaMatches, VerificationAssumption

\* The check on the sum of the balances: as long as replays do not go back, a
\* ledger that reaches the end of a covered range ends there.
LEMMA HoldersMatch ==
  ASSUME ReaderInv, ordered, NEW v, SeesTruth(v), covered = v.range.to, NEW e
  PROVE  HolderCheck(v, e) \in {"pass", "warn"}
<1>0. covered \in Int
  BY BlocksAreIntegers DEF ReaderInv, OrderInv, Inv, TablesOK
<1>1. v.seen.holders = HolderSums
  BY <1>0, WhatIsSeen
<1>2. CASE ~ HolderHistory(v)
  BY <1>2, CompareMatches DEF HolderCheck, Known
<1>3. CASE HolderHistory(v)
  <2>1. PICK h \in DOMAIN ledger : ledger[h].to >= v.range.to
    BY <1>1, <1>3 DEF HolderHistory, HolderSums
  <2>2. PICK a \in activity : /\ a.to <= covered
                              /\ ledger = Rows(Within(History, UpTo(a.to)), UpTo(a.to))
    BY <2>1 DEF ReaderInv, OrderInv, LastReplay, Backed
  <2> DEFINE es == Within(History, UpTo(a.to))
  <2>3. ledger[h].to = a.to
    BY <2>1, <2>2 DEF Rows, UpTo
  <2>4. a.to = v.range.to
    <3>1. a.to \in Int /\ v.range.to \in Int
      BY BlocksAreIntegers DEF ReaderInv, OrderInv, Inv, TablesOK, SeesTruth
    <3> QED
      BY <2>1, <2>2, <2>3, <3>1
  <2>5. es \in SUBSET History /\ es = Until(v.range.to)
    BY <2>4 DEF Within, Until, UpTo
  <2> HIDE DEF es
  <2>6. HolderSums.sum = SumFunction([k \in DOMAIN Rows(es, UpTo(a.to)) |->
                                        Rows(es, UpTo(a.to))[k].balance])
    BY <2>2 DEF HolderSums, es
  <2>7. HolderSums.sum = Minted(es) - Burned(es)
    BY <2>5, <2>6, BalancesAreSupply
  <2>8. HolderSums.sum = Supply(v.range.to) /\ HolderSums.sum \in Int
    BY <2>5, <2>7, NumbersAreInt DEF Supply
  <2>9. PICK x \in Int : x = HolderSums.sum
    BY <2>8
  <2>10. HolderCheck(v, e) = Compare(Boundary(e, x), {x}, 0)
    BY <1>1, <1>3, <2>8, <2>9 DEF HolderCheck, Known
  <2>11. \A y \in Boundary(e, x), z \in {x} : z - y \in -0 .. 0
    BY DEF Boundary, Known
  <2> QED
    BY <2>10, <2>11, CompareMatches
<1> QED
  BY <1>2, <1>3

\* True tables, and nothing else to object to: the verdict is no failure.
LEMMA TruthPasses ==
  ASSUME ReaderInv, ordered, NEW v, SeesTruth(v), covered = v.range.to,
         ~ Undeclared(v.range), ~ PaysItself(v.range),
         NEW e \in Circumstances, e.ypo # "fail", e.decoding # "fail",
         ~ (e.boundaries /\ e.implementation = "upgraded"),
         ~ (e.boundaries /\ e.state /\ ~ e.whole)
  PROVE  Status(v, e) # "fail"
<1>0. covered \in Int /\ v.range.to \in Int
  BY BlocksAreIntegers DEF ReaderInv, OrderInv, Inv, TablesOK, SeesTruth
<1>1. v.seen.coverage /\ v.seen.checkpoint = {v.range.to}
  BY <1>0, WhatIsSeen
<1>2. Indexed(v)
  BY <1>0, <1>1 DEF Indexed
<1> DEFINE findings == Findings(v, e)
           checks   == Checks(v, e)
<1>3. \A f \in Critical : findings[f] # "fail"
  BY <1>1, <1>2 DEF Findings, Critical
<1>4. DOMAIN checks = {"usdp", "susdp", "assets", "convert", "holders", "ypo", "head"}
  BY DEF Checks
<1>5. checks["usdp"] # "fail" /\ checks["susdp"] # "fail"
  <2>1. /\ checks["usdp"] = SupplyCheck(v, e, v.seen.lifetime)
        /\ checks["susdp"] = SupplyCheck(v, e, v.seen.coverage)
    BY DEF Checks
  <2> HIDE DEF checks
  <2> QED
    BY <1>0, <2>1, SuppliesMatch
<1>6. checks["assets"] # "fail"
  <2>1. checks["assets"] = UnderlyingCheck(v, e)
    BY DEF Checks
  <2> HIDE DEF checks
  <2> QED
    BY <1>0, <2>1, UnderlyingMatches
<1>7. checks["holders"] # "fail"
  <2>1. checks["holders"] = HolderCheck(v, e)
    BY DEF Checks
  <2> HIDE DEF checks
  <2> QED
    BY <2>1, HoldersMatch
<1>8. checks["convert"] # "fail" /\ checks["ypo"] # "fail"
  BY DEF Checks, ConvertCheck
<1>9. checks["head"] # "fail"
  <2>1. checks["head"] = Compare({v.range.to}, {v.range.to}, 0)
    BY <1>1 DEF Checks
  <2>2. \A x \in {v.range.to}, y \in {v.range.to} : y - x \in -0 .. 0
    BY <1>0
  <2> HIDE DEF checks
  <2> QED
    BY <2>1, <2>2, CompareMatches
<1> DEFINE critical == {findings[f] : f \in Critical}
           health   == {findings[f] : f \in DOMAIN findings}
           outcomes == {checks[c] : c \in DOMAIN checks}
<1>10. Status(v, e) = IF "fail" \in outcomes \cup critical THEN "fail"
                      ELSE IF {"warn", "fail"} \cap (outcomes \cup health) # {} THEN "warn"
                      ELSE "pass"
  BY DEF Status
<1> HIDE DEF findings, checks
<1>11. "fail" \notin outcomes
  BY <1>4, <1>5, <1>6, <1>7, <1>8, <1>9
<1>12. "fail" \notin critical
  BY <1>3
<1> HIDE DEF critical, health, outcomes
<1> QED
  BY <1>10, <1>11, <1>12

-------------------------------------------------------------------------------
\* What a verification has read while nothing was written is what the tables say.
Fresh(v) ==
  /\ v.pc \in {"idle", "reading"}
  /\ v.pc = "idle" => DOMAIN v.seen = {}
  /\ v.pc = "reading" => v.range \in Asked
  /\ v.pc = "reading" /\ v.still =>
       \A s \in DOMAIN v.seen : s \in Statements /\ v.seen[s] = Tables(v.range)[s]

LEMMA AtRestFresh == Fresh(AtRest)
BY DEF Fresh, AtRest

LEMMA FreshRead ==
  ASSUME SeenOK(verify), Fresh(verify), NEW s \in Statements, Query(s), UNCHANGED vars
  PROVE  Fresh(verify')
<1>1. PICK w : w = verify'
  OBVIOUS
<1>2. PICK seen : seen = Over([t \in {s} |-> Tables(verify.range)[t]], verify.seen)
  OBVIOUS
<1>3. w = [verify EXCEPT !.seen = seen]
  BY <1>1, <1>2 DEF Query
<1>4. /\ DOMAIN seen = DOMAIN verify.seen \cup {s}
      /\ \A t \in DOMAIN seen :
           seen[t] = IF t = s THEN Tables(verify.range)[t] ELSE verify.seen[t]
  BY <1>2 DEF Over
<1>5. w.pc = verify.pc /\ w.range = verify.range /\ w.still = verify.still /\ w.seen = seen
  BY <1>3 DEF SeenOK
<1>6. verify.pc = "reading"
  BY DEF Query
<1>7. Fresh(w)
  BY <1>4, <1>5, <1>6 DEF Fresh
<1> QED
  BY <1>1, <1>7

\* Tables that are not written say what they said.
LEMMA TablesStay ==
  ASSUME covered' = covered, ledger' = ledger, NEW r
  PROVE  Tables(r)' = Tables(r)
<1>1. Evidence' = Evidence /\ VaultEvidence' = VaultEvidence
  BY DEF Evidence, VaultEvidence
<1>2. Covered(r)' = Covered(r)
  BY DEF Covered
<1>3. HolderSums' = HolderSums
  BY DEF HolderSums
<1> QED
  BY <1>1, <1>2, <1>3 DEF Tables, Within, Direct

LEMMA FreshStays ==
  ASSUME NEW v, Fresh(v), v.still => covered' = covered /\ ledger' = ledger
  PROVE  Fresh(v)'
<1>1. ASSUME v.still, NEW r PROVE Tables(r)' = Tables(r)
  BY <1>1, TablesStay
<1>2. PICK r : r = v.range
  OBVIOUS
<1>3. v.still => Tables(r)' = Tables(r)
  BY <1>1
<1>4. Statements' = Statements
  BY DEF Statements, Tables
<1> QED
  BY <1>2, <1>3, <1>4 DEF Fresh

LEMMA FreshLedger ==
  ASSUME SeenOK(verify), Fresh(verify), LedgerStep
  PROVE  Fresh(verify)'
<1>1. PICK w : w = verify'
  OBVIOUS
<1>2. /\ w.pc = verify.pc /\ w.range = verify.range /\ w.seen = verify.seen
      /\ w.still => verify.still
      /\ w.still /\ verify.pc = "reading" => covered' = covered /\ ledger' = ledger
  BY <1>1 DEF LedgerStep, SeenOK
<1>3. CASE verify.pc = "reading"
  <2>1. Fresh(w)
    BY <1>2, <1>3 DEF Fresh
  <2>2. Fresh(w)'
    BY <1>2, <1>3, <2>1, FreshStays
  <2> QED
    BY <1>1, <2>2 DEF Fresh
<1>4. CASE verify.pc # "reading"
  BY <1>1, <1>2, <1>4 DEF Fresh
<1> QED
  BY <1>3, <1>4

LEMMA FreshVerify ==
  ASSUME SeenOK(verify), Fresh(verify), VerifyStep
  PROVE  Fresh(verify)'
<1>1. UNCHANGED <<covered, ledger>> /\ UNCHANGED vars
  BY DEF VerifyStep, vars
<1>2. PICK w : w = verify'
  OBVIOUS
<1>3. Fresh(w)
  <2>1. CASE StartVerify
    <3>1. PICK r \in Asked : w = [AtRest EXCEPT !.pc = "reading", !.range = r]
      BY <1>2, <2>1 DEF StartVerify
    <3>2. w.pc = "reading" /\ w.range = r /\ DOMAIN w.seen = {}
      BY <3>1 DEF AtRest
    <3> QED
      BY <3>2 DEF Fresh
  <2>2. CASE \E s \in Statements : Query(s)
    BY <1>1, <1>2, <2>2, FreshRead
  <2>3. CASE Persist \/ VerifyFails
    BY <1>2, <2>3, AtRestFresh DEF Persist, VerifyFails
  <2> QED
    BY <2>1, <2>2, <2>3 DEF VerifyStep
<1>4. Fresh(w)'
  BY <1>1, <1>3, FreshStays
<1> QED
  BY <1>2, <1>4 DEF Fresh

LEMMA FreshInvariance == VerifySpec => []Fresh(verify)
<1>1. VerifyInit => Fresh(verify)
  BY AtRestFresh DEF VerifyInit
<1>2. VerdictInv /\ Fresh(verify) /\ [VerifyNext]_<<vars, verifyVars>> => Fresh(verify)'
  <2> SUFFICES ASSUME VerdictInv, Fresh(verify), [VerifyNext]_<<vars, verifyVars>>
               PROVE  Fresh(verify)'
    OBVIOUS
  <2>0. SeenOK(verify)
    BY DEF VerdictInv
  <2>1. CASE UNCHANGED <<vars, verifyVars>>
    <3>1. verify' = verify /\ covered' = covered /\ ledger' = ledger
      BY <2>1 DEF vars, verifyVars
    <3>2. PICK w : w = verify
      OBVIOUS
    <3>3. Fresh(w)'
      BY <3>1, <3>2, FreshStays
    <3> QED
      BY <3>1, <3>2, <3>3 DEF Fresh
  <2> QED
    BY <2>0, <2>1, FreshLedger, FreshVerify DEF VerifyNext
<1> QED
  BY <1>1, <1>2, VerdictInvariance, PTL DEF VerifySpec

\* A verification fails for a reason only (FailuresExplained): with all blocks of
\* its range covered and the checkpoint at its end, replays in order, no bad
\* finding beside, tables that stand still and transactions in which the vault
\* says what it gained, true data never fail a check of verification/evaluators.ts,
\* however the transfers of the chain fall.  The vault's events of the range and
\* the transfers beside which it says nothing (service.ts) are, transaction by
\* transaction, all that moved its balance.
THEOREM FailuresHaveReasons == VerifySpec => []FailuresExplained
<1>1. VerdictInv /\ Fresh(verify) => FailuresExplained
  <2> SUFFICES ASSUME VerdictInv, Fresh(verify), DOMAIN verify.seen = Statements,
                      NEW e \in Circumstances, covered = verify.range.to, ordered, verify.still,
                      ~ Undeclared(verify.range), ~ PaysItself(verify.range),
                      e.ypo # "fail", e.decoding # "fail",
                      ~ (e.boundaries /\ e.implementation = "upgraded"),
                      ~ (e.boundaries /\ e.state /\ ~ e.whole)
               PROVE  Status(verify, e) # "fail"
    BY DEF FailuresExplained, ReasonToFail
  <2>1. "coverage" \in Statements
    BY DEF Statements, Tables
  <2>2. verify.pc = "reading"
    BY <2>1 DEF Fresh
  <2>3. SeesTruth(verify)
    BY <2>2, VerificationAssumption DEF Fresh, SeesTruth
  <2>4. ReaderInv
    BY DEF VerdictInv
  <2> QED
    BY <2>3, <2>4, TruthPasses
<1> QED
  BY <1>1, VerdictInvariance, FreshInvariance, PTL
===============================================================================
