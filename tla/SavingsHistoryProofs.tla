------------------------- MODULE SavingsHistoryProofs -------------------------
(***************************************************************************)
(* What the savings-history lanes store is exact, proved for every history,*)
(* all windows, any number of lanes and commands, and every split into     *)
(* chunks and providers.                                                   *)
(***************************************************************************)
EXTENDS SavingsHistory, SumTheorems

\* The events of the vault, for which every scope asks.
Vaults(es) == {e \in es : e.role = "susdp-savings"}

\* All of them in a range are among some stored events.
VaultsStored(r, st) == Vaults(Within(History, r)) \subseteq st

Fields == {"pc", "command", "range", "provider", "read", "accrued", "flowed", "derived"}

FlowPlaces == {"flow-gate", "flow-read", "flow-store"}

\* A job on some stored events, when some ranges have a yield: behind a gate the
\* events of its range are stored, what it has read of them is all there is, and
\* a lane that says it derived its range has stored its yield.
JobOK(j, st, done) ==
  /\ DOMAIN j = Fields
  /\ j.pc # "idle" =>
       /\ j.command \in Commands /\ j.range \in Windows
       /\ j.provider \in 1 .. (IF j.command = "worker" THEN Len(ChunkSizes) ELSE 1)
       /\ j.command = "flows" => j.pc \in FlowPlaces
  /\ j.pc \in {"flow-read", "accrued"} => VaultsStored(j.range, st)
  /\ j.pc = "flow-store" => Vaults(j.read) = Vaults(Within(History, j.range))
  /\ j.pc = "insert" => Yield(j.accrued, j.range) = VaultYield(j.range)
  /\ j.pc = "reconcile" => j.derived \/ j.command = "reconcile"
  /\ j.pc \in {"unlock", "reconcile"} /\ j.derived => j.range \in done

TablesOK ==
  /\ stored \subseteq History
  /\ DOMAIN coverage = Scopes
  /\ \A s \in Scopes : coverage[s] \subseteq [from : Nat, to : Nat]
  /\ EvidenceBehindCoverage
  /\ checkpoint \in [Scopes -> Nat]
  /\ DOMAIN yields \subseteq Windows

Inv ==
  /\ TablesOK
  /\ DOMAIN job = Lanes
  /\ \A l \in Lanes : JobOK(job[l], stored, DOMAIN yields)

-------------------------------------------------------------------------------
(* Events, scopes and gates. *)

\* Deposits, withdrawals and interest are events of the vault.
LEMMA VaultMeanings ==
  ASSUME NEW e, Meaning(e) \in SavingsMetrics \cup {"susdp_accrued"}
  PROVE  e.role = "susdp-savings"
<1>1. Meaning(e) = IF e.role = "susdp-savings" THEN SavingsMeaning(e.name)
                   ELSE IF e.role = "usdp-token" /\ e.name = "Transfer" THEN "usdp_transfer"
                   ELSE IF e.role = "usdp-parallelizer" /\ e.name = "Swap" THEN SwapMeaning(e.usdp)
                   ELSE IF e.role = "usdp-parallelizer" /\ e.name = "Redeemed" THEN "usdp_redeemed"
                   ELSE "none"
  BY DEF Meaning
<1>2. SwapMeaning(e.usdp) \in {"usdp_issued", "usdp_burned_for_collateral", "parallelizer_swap_other"}
  BY DEF SwapMeaning
<1> QED
  BY <1>1, <1>2 DEF SavingsMetrics

\* Hence the savings rows of a set of events depend on those only.
LEMMA RowsOfVaults ==
  ASSUME NEW es, NEW fs, Vaults(es) = Vaults(fs)
  PROVE  SavingsRows(Flows(es)) \subseteq SavingsRows(Flows(fs))
<1>1. SUFFICES ASSUME NEW row \in SavingsRows(Flows(es))
               PROVE  row \in SavingsRows(Flows(fs))
  OBVIOUS
<1>2. PICK g \in {"hour", "day"}, e \in es : row = FlowRow(es, g, e)
  BY <1>1 DEF SavingsRows, Flows, NativeFlows
<1>3. row.metric = Meaning(e) /\ Meaning(e) \in SavingsMetrics
  BY <1>1, <1>2 DEF SavingsRows, FlowRow
<1>4. e \in fs
  BY <1>3, VaultMeanings DEF Vaults
<1>5. {f \in es : SameBucket(e, f, g)} = {f \in fs : SameBucket(e, f, g)}
  <2>1. \A f : SameBucket(e, f, g) => f.role = "susdp-savings"
    BY <1>3, VaultMeanings DEF SameBucket
  <2> QED
    BY <2>1 DEF Vaults
<1>6. FlowRow(fs, g, e) = row
  BY <1>2, <1>5 DEF FlowRow
<1>7. row \in Flows(fs)
  BY <1>3, <1>4, <1>6, g \in {"hour", "day"} DEF Flows, NativeFlows, NativeFlowMetrics
<1> QED
  BY <1>3, <1>7 DEF SavingsRows

\* The interest in a range, as far as its events are stored, is the vault's.
LEMMA AccruedIsEarned ==
  ASSUME NEW st, st \subseteq History, NEW r \in Windows, VaultsStored(r, st)
  PROVE  Yield(Accrued(st, r), r) = VaultYield(r)
<1>1. r.from \in Int /\ r.to \in Int
  BY HistoryAssumption DEF Ranges, Blocks
<1>2. \A e \in History : e.at \in Int
  BY HistoryAssumption DEF Blocks
<1>3. {e \in Within(st, r) : Meaning(e) = "susdp_accrued" /\ e.at > r.from}
        = {e \in History : Meaning(e) = "susdp_accrued" /\ r.from < e.at /\ e.at <= r.to}
  BY <1>1, <1>2, VaultMeanings DEF VaultsStored, Vaults, Within, BlocksOf
<1> QED
  BY <1>3 DEF Accrued, VaultYield

\* Every scope asks for the vault's logs.
LEMMA VaultInRoles == \A s \in Scopes : "susdp-savings" \in Roles(s)
BY DEF Scopes, Scope, Roles, Recent, Lifetime

\* The gate of any scope: the vault's events are stored.
LEMMA GateMeansStored ==
  ASSUME TablesOK, NEW s \in Scopes, NEW r, Covered(s, r)
  PROVE  VaultsStored(r, stored)
<1>1. SUFFICES ASSUME NEW e \in Vaults(Within(History, r))
               PROVE  e \in stored
  BY DEF VaultsStored
<1>2. e \in History /\ e.at \in BlocksOf(r) /\ e.role \in Roles(s)
  BY <1>1, VaultInRoles DEF Vaults, Within
<1>3. PICK q \in coverage[s] : e.at \in BlocksOf(q)
  BY <1>2 DEF Covered, BlocksIn
<1>4. e \in Logs(s, q)
  BY <1>2, <1>3 DEF Logs, Within
<1> QED
  BY <1>4 DEF TablesOK, EvidenceBehindCoverage

LEMMA TargetIsScope ==
  ASSUME Inv, NEW l \in Lanes, job[l].pc # "idle"
  PROVE  /\ TargetScope(l) \in Scopes
         /\ job[l].command # "flows" =>
              Roles(TargetScope(l)) = {"susdp-savings"}
<1>1. job[l].range \in Windows
  BY DEF Inv, JobOK
<1> QED
  BY <1>1 DEF TargetScope, Scopes, Scope, Recent, Roles

-------------------------------------------------------------------------------
(* Steps of a job. *)

\* What a job knows stays true while events and yields are added.
LEMMA JobStays ==
  ASSUME NEW j, NEW st, NEW done, JobOK(j, st, done),
         NEW st2, NEW done2, st \subseteq st2, done \subseteq done2
  PROVE  JobOK(j, st2, done2)
BY DEF JobOK, VaultsStored

LEMMA IdleOK == ASSUME NEW st, NEW done PROVE JobOK(Idle, st, done)
BY DEF JobOK, Idle, Fields

\* One lane takes a step, and what is stored stays.
LEMMA LaneMoves ==
  ASSUME Inv, TablesOK', NEW l \in Lanes, DOMAIN job' = Lanes,
         \A k \in Lanes \ {l} : job'[k] = job[k],
         JobOK(job'[l], stored', DOMAIN yields'),
         stored \subseteq stored', DOMAIN yields \subseteq DOMAIN yields'
  PROVE  Inv'
<1>1. \A k \in Lanes \ {l} : JobOK(job'[k], stored', DOMAIN yields')
  BY JobStays DEF Inv
<1> QED
  BY <1>1 DEF Inv

\* Nobody does.
LEMMA NobodyMoves ==
  ASSUME Inv, TablesOK', UNCHANGED job,
         stored \subseteq stored', DOMAIN yields \subseteq DOMAIN yields'
  PROVE  Inv'
BY JobStays DEF Inv

\* The tables are the same, and so is what is said of them.
LEMMA TablesStay ==
  ASSUME TablesOK, UNCHANGED <<stored, coverage, checkpoint, yields>>
  PROVE  TablesOK'
BY DEF TablesOK, EvidenceBehindCoverage

LEMMA GotoFacts ==
  ASSUME Inv, NEW l \in Lanes, NEW pc, Goto(l, pc)
  PROVE  /\ DOMAIN job' = Lanes
         /\ \A k \in Lanes \ {l} : job'[k] = job[k]
         /\ DOMAIN job'[l] = Fields /\ job'[l].pc = pc
         /\ job'[l].command = job[l].command /\ job'[l].range = job[l].range
         /\ job'[l].provider = job[l].provider /\ job'[l].derived = job[l].derived
<1>1. DOMAIN job = Lanes /\ DOMAIN job[l] = Fields
  BY DEF Inv, JobOK
<1>2. /\ DOMAIN job' = Lanes
      /\ \A k \in Lanes \ {l} : job'[k] = job[k]
      /\ job'[l] = [job[l] EXCEPT !.pc = pc]
  BY <1>1 DEF Goto
<1> QED
  BY <1>1, <1>2 DEF Fields

\* A job goes to a place where nothing more is promised of it.
Plain == {"lock", "start", "end", "ingest", "source", "copy", "target", "flow-gate",
          "yield-gate", "hung"}

LEMMA GotoPlain ==
  ASSUME Inv, TablesOK', NEW l \in Lanes, NEW pc \in Plain, Goto(l, pc),
         job[l].pc # "idle", job[l].command = "flows" => pc = "flow-gate",
         stored \subseteq stored', DOMAIN yields \subseteq DOMAIN yields'
  PROVE  Inv'
<1>1. JobOK(job[l], stored, DOMAIN yields)
  BY DEF Inv
<1>2. /\ DOMAIN job' = Lanes
      /\ \A k \in Lanes \ {l} : job'[k] = job[k]
      /\ DOMAIN job'[l] = Fields /\ job'[l].pc = pc
      /\ job'[l].command = job[l].command /\ job'[l].range = job[l].range
      /\ job'[l].provider = job[l].provider
  BY GotoFacts
<1>3. JobOK(job'[l], stored', DOMAIN yields')
  BY <1>1, <1>2 DEF JobOK, Plain, FlowPlaces
<1> QED
  BY <1>2, <1>3, LaneMoves

LEMMA FinishedMoves ==
  ASSUME Inv, TablesOK', NEW l \in Lanes, Finished(l),
         stored \subseteq stored', DOMAIN yields \subseteq DOMAIN yields'
  PROVE  Inv'
<1>1. DOMAIN job' = Lanes /\ job'[l] = Idle /\ \A k \in Lanes \ {l} : job'[k] = job[k]
  BY DEF Finished, Inv
<1> QED
  BY <1>1, IdleOK, LaneMoves

\* The lane leaves; if it says it derived its range, the yield is stored.
LEMMA LeaveMoves ==
  ASSUME Inv, TablesOK', NEW l \in Lanes, NEW d, LeaveWith(l, d), job[l].pc # "idle",
         job[l].command # "flows",
         d => job[l].range \in DOMAIN yields',
         stored \subseteq stored', DOMAIN yields \subseteq DOMAIN yields'
  PROVE  Inv'
<1>1. JobOK(job[l], stored, DOMAIN yields)
  BY DEF Inv
<1>2. /\ DOMAIN job' = Lanes
      /\ \A k \in Lanes \ {l} : job'[k] = job[k]
      /\ DOMAIN job'[l] = Fields
      /\ job'[l].pc = "unlock" /\ job'[l].derived = d
      /\ job'[l].command = job[l].command /\ job'[l].range = job[l].range
      /\ job'[l].provider = job[l].provider
  BY <1>1 DEF LeaveWith, Inv, JobOK, Fields
<1>3. JobOK(job'[l], stored', DOMAIN yields')
  BY <1>1, <1>2 DEF JobOK, Fields
<1> QED
  BY <1>2, <1>3, LaneMoves

LEMMA ThrowMoves ==
  ASSUME Inv, TablesOK', NEW l \in Lanes, Throw(l), job[l].pc # "idle",
         stored \subseteq stored', DOMAIN yields \subseteq DOMAIN yields'
  PROVE  Inv'
BY LeaveMoves, FinishedMoves DEF Throw

-------------------------------------------------------------------------------
(* Coverage grows: by chunks, and by copies. *)

LEMMA CommitTables ==
  ASSUME TablesOK, NEW s \in Scopes, NEW r \in [from : Nat, to : Nat], Commit(s, r),
         UNCHANGED yields
  PROVE  /\ TablesOK' /\ stored \subseteq stored'
         /\ r.to + 1 >= checkpoint[s] => \A t \in Scopes : checkpoint'[t] >= checkpoint[t]
<1>1. /\ stored' = stored \cup Logs(s, r)
      /\ coverage' = [coverage EXCEPT ![s] = @ \cup {r}]
      /\ checkpoint' = [checkpoint EXCEPT ![s] = r.to + 1]
  BY DEF Commit
<1>2. Logs(s, r) \subseteq History
  BY DEF Logs, Within
<1>5. \A t \in Scopes : coverage'[t] = IF t = s THEN coverage[t] \cup {r} ELSE coverage[t]
  BY <1>1 DEF TablesOK
<1>3. EvidenceBehindCoverage'
  <2> SUFFICES ASSUME NEW t \in Scopes, NEW q \in coverage'[t]
               PROVE  Logs(t, q) \subseteq stored'
    BY DEF EvidenceBehindCoverage, Logs, Within
  <2>1. q \in coverage[t] \/ (t = s /\ q = r)
    BY <1>5
  <2>2. CASE q \in coverage[t]
    BY <1>1, <2>2 DEF TablesOK, EvidenceBehindCoverage
  <2>3. CASE t = s /\ q = r
    BY <1>1, <2>3
  <2> QED
    BY <2>1, <2>2, <2>3
<1>4. \A t \in Scopes : checkpoint[t] \in Nat /\ coverage[t] \subseteq [from : Nat, to : Nat]
  BY DEF TablesOK
<1> QED
  BY <1>1, <1>2, <1>3, <1>4, <1>5 DEF TablesOK

\* The end of a chunk.
LEMMA ChunkEnd ==
  ASSUME NEW from \in Nat, NEW to \in Nat, NEW size \in Nat \ {0}, from <= to
  PROVE  PlannedTo(from, to, size) \in Nat /\ PlannedTo(from, to, size) >= from
BY DEF PlannedTo, Lesser

\* A chunk of a lane starts at the checkpoint or behind it.
LEMMA ChunkTables ==
  ASSUME Inv, NEW l \in Lanes, IngestChunk(l)
  PROVE  /\ TablesOK' /\ stored \subseteq stored'
         /\ \A t \in Scopes : checkpoint'[t] >= checkpoint[t]
<1>1. /\ job[l].range \in Windows /\ TargetScope(l) \in Scopes
      /\ job[l].provider \in 1 .. Len(ChunkSizes)
  <2>1. job[l].pc = "ingest" /\ JobOK(job[l], stored, DOMAIN yields)
    BY DEF IngestChunk, At, Inv
  <2>2. Len(ChunkSizes) \in Nat \ {0}
    BY HistoryAssumption
  <2> QED
    BY <2>1, <2>2, TargetIsScope DEF JobOK
<1>2. /\ job[l].range.from \in Nat /\ job[l].range.to \in Nat
      /\ checkpoint[TargetScope(l)] \in Nat
      /\ ChunkSizes[job[l].provider] \in Nat \ {0}
  BY <1>1, HistoryAssumption DEF Ranges, Blocks, Inv, TablesOK
<1>3. /\ ResumeAt(l) \in Nat /\ ResumeAt(l) >= checkpoint[TargetScope(l)]
      /\ ResumeAt(l) <= job[l].range.to
  BY <1>2 DEF ResumeAt, Greater, IngestChunk
<1> DEFINE to == PlannedTo(ResumeAt(l), job[l].range.to, ChunkSizes[job[l].provider])
<1>4. to \in Nat /\ to >= ResumeAt(l)
  BY <1>2, <1>3, ChunkEnd
<1> HIDE DEF to
<1>5. Commit(TargetScope(l), [from |-> ResumeAt(l), to |-> to]) /\ UNCHANGED yields
  BY DEF IngestChunk, to
<1>6. to + 1 >= checkpoint[TargetScope(l)]
  BY <1>2, <1>3, <1>4
<1> QED
  <2> DEFINE chunk == [from |-> ResumeAt(l), to |-> to]
  <2>1. chunk \in [from : Nat, to : Nat] /\ chunk.to = to
    BY <1>3, <1>4
  <2> HIDE DEF chunk
  <2>2. Commit(TargetScope(l), chunk)
    BY <1>5 DEF chunk
  <2> QED
    BY <1>1, <1>5, <1>6, <2>1, <2>2, CommitTables DEF Inv

LEMMA BackgroundTables ==
  ASSUME Inv, NEW s \in {Recent, Lifetime}, Background(s)
  PROVE  /\ TablesOK' /\ stored \subseteq stored'
         /\ \A t \in Scopes : checkpoint'[t] >= checkpoint[t]
<1>1. s \in Scopes /\ checkpoint[s] \in Nat
  BY DEF Scopes, Inv, TablesOK
<1> DEFINE to == PlannedTo(checkpoint[s], MaxBlock, OwnChunk)
<1>2. to \in Nat /\ to >= checkpoint[s]
  BY <1>1, ChunkEnd, HistoryAssumption DEF Background
<1> HIDE DEF to
<1>3. Commit(s, [from |-> checkpoint[s], to |-> to]) /\ UNCHANGED yields
  BY DEF Background, to
<1> QED
  BY <1>1, <1>2, <1>3, CommitTables DEF Inv

\* A copied row is a part of one of the lifetime scope, which asks for more.
LEMMA CopyTables ==
  ASSUME Inv, NEW l \in Lanes, CopyCoverage(l)
  PROVE  TablesOK'
<1>1. job[l].pc = "copy" /\ JobOK(job[l], stored, DOMAIN yields)
  BY DEF CopyCoverage, At, Inv
<1>2. job[l].command # "flows" /\ job[l].range \in Windows
  BY <1>1 DEF JobOK, FlowPlaces
<1>3. TargetScope(l) \in Scopes /\ Roles(TargetScope(l)) = {"susdp-savings"}
  BY <1>1, <1>2, TargetIsScope
<1>4. Lifetime \in Scopes /\ "susdp-savings" \in Roles(Lifetime)
  BY VaultInRoles DEF Scopes
<1>5. job[l].range.from \in Nat /\ job[l].range.to \in Nat
  BY <1>2, HistoryAssumption DEF Ranges, Blocks
<1> DEFINE copies == Clamped(coverage[Lifetime], job[l].range)
<1>6. ASSUME NEW q \in copies
      PROVE  q \in [from : Nat, to : Nat] /\ Logs(TargetScope(l), q) \subseteq stored
  <2>1. PICK r \in coverage[Lifetime] :
          q = [from |-> Greater(r.from, job[l].range.from), to |-> Lesser(r.to, job[l].range.to)]
    BY <1>6 DEF Clamped
  <2>2. r.from \in Nat /\ r.to \in Nat
    BY <1>4 DEF Inv, TablesOK
  <2>3. q \in [from : Nat, to : Nat]
    BY <1>5, <2>1, <2>2 DEF Greater, Lesser
  <2>4. ASSUME NEW e \in Logs(TargetScope(l), q)
        PROVE  e \in stored
    <3>1. e \in History /\ e.at \in q.from .. q.to /\ e.role = "susdp-savings" /\ e.at \in Int
      BY <1>3, HistoryAssumption DEF Logs, Within, BlocksOf, Blocks
    <3>2. e.at \in BlocksOf(r)
      BY <1>5, <2>1, <2>2, <3>1 DEF BlocksOf, Greater, Lesser
    <3>3. e \in Logs(Lifetime, r)
      BY <1>4, <3>1, <3>2 DEF Logs, Within
    <3> QED
      BY <1>4, <3>3 DEF Inv, TablesOK, EvidenceBehindCoverage
  <2> QED
    BY <2>3, <2>4
<1> HIDE DEF copies
<1>7. coverage' = [coverage EXCEPT ![TargetScope(l)] = @ \cup copies]
      /\ UNCHANGED <<stored, checkpoint, yields>>
  BY DEF CopyCoverage, copies
<1>10. \A t \in Scopes :
         coverage'[t] = IF t = TargetScope(l) THEN coverage[t] \cup copies ELSE coverage[t]
  BY <1>7 DEF Inv, TablesOK
<1>8. EvidenceBehindCoverage'
  <2> SUFFICES ASSUME NEW t \in Scopes, NEW q \in coverage'[t]
               PROVE  Logs(t, q) \subseteq stored
    BY <1>7 DEF EvidenceBehindCoverage, Logs, Within
  <2>1. q \in coverage[t] \/ (t = TargetScope(l) /\ q \in copies)
    BY <1>10
  <2>2. CASE q \in coverage[t]
    BY <2>2 DEF Inv, TablesOK, EvidenceBehindCoverage
  <2>3. CASE t = TargetScope(l) /\ q \in copies
    BY <1>6, <2>3
  <2> QED
    BY <2>1, <2>2, <2>3
<1>9. \A t \in Scopes : coverage[t] \subseteq [from : Nat, to : Nat]
  BY DEF Inv, TablesOK
<1> QED
  BY <1>3, <1>6, <1>7, <1>8, <1>9, <1>10 DEF Inv, TablesOK

-------------------------------------------------------------------------------
(* Every step keeps the invariant. *)

\* Outside the rebuild of flows, the command is not derive-flows.
LEMMA NotFlows ==
  ASSUME Inv, NEW l \in Lanes, job[l].pc \notin FlowPlaces \cup {"idle"}
  PROVE  job[l].command # "flows" /\ job[l].range \in Windows
BY DEF Inv, JobOK

LEMMA SameTables ==
  ASSUME Inv, UNCHANGED <<stored, coverage, checkpoint, yields>>
  PROVE  TablesOK' /\ stored \subseteq stored' /\ DOMAIN yields \subseteq DOMAIN yields'
BY TablesStay DEF Inv

LEMMA StartInv ==
  ASSUME Inv, NEW l \in Lanes, Start(l)
  PROVE  Inv'
<1>1. PICK q \in Requests[l] :
        job' = [job EXCEPT ![l] =
                  [Idle EXCEPT !.command = q.command, !.range = q.range,
                               !.pc = CASE q.command = "flows"     -> "flow-gate"
                                        [] q.command = "reconcile" -> "reconcile"
                                        [] OTHER                   -> "lock"]]
  BY DEF Start
<1>2. q.command \in Commands /\ q.range \in Windows
  BY <1>1, HistoryAssumption
<1>3. /\ DOMAIN job' = Lanes
      /\ \A k \in Lanes \ {l} : job'[k] = job[k]
      /\ DOMAIN job'[l] = Fields
      /\ job'[l].command = q.command /\ job'[l].range = q.range
      /\ job'[l].provider = 1 /\ job'[l].derived = FALSE
      /\ job'[l].pc = IF q.command = "flows" THEN "flow-gate"
                      ELSE IF q.command = "reconcile" THEN "reconcile" ELSE "lock"
  BY <1>1 DEF Inv, Idle, Fields
<1>4. 1 \in 1 .. 1 /\ 1 \in 1 .. Len(ChunkSizes)
  BY HistoryAssumption
<1>5. JobOK(job'[l], stored', DOMAIN yields')
  BY <1>2, <1>3, <1>4 DEF JobOK, FlowPlaces
<1> QED
  BY <1>3, <1>5, SameTables, LaneMoves DEF Start, tables

\* The lock, the boundaries and the way to complete coverage.
LEMMA CoverageStepsInv ==
  ASSUME Inv, NEW l \in Lanes,
         \/ Lock(l) \/ Busy(l) \/ LockFails(l)
         \/ StartSnapshot(l) \/ EndSnapshot(l) \/ CaptureFails(l)
         \/ IngestChunk(l) \/ Ingested(l) \/ QuotaExhausted(l) \/ IngestFails(l)
         \/ SourceGate(l) \/ CopyCoverage(l) \/ TargetGate(l)
  PROVE  Inv'
<1>1. CASE Lock(l)
  BY <1>1, SameTables, NotFlows, GotoPlain DEF Lock, At, tables, Plain, FlowPlaces
<1>2. CASE Busy(l)
  BY <1>2, SameTables, FinishedMoves DEF Busy, tables
<1>3. CASE StartSnapshot(l)
  BY <1>3, SameTables, NotFlows, GotoPlain DEF StartSnapshot, Capture, At, Plain, FlowPlaces
<1>4. CASE EndSnapshot(l)
  <2>1. job[l].pc = "end" /\ job[l].command # "flows" /\ UNCHANGED <<stored, coverage, checkpoint, yields>>
    BY <1>4, NotFlows DEF EndSnapshot, Capture, At, FlowPlaces
  <2>2. LeaveWith(l, FALSE) \/ (\E pc \in Plain : Goto(l, pc))
    BY <1>4 DEF EndSnapshot, Plain
  <2> QED
    BY <2>1, <2>2, SameTables, GotoPlain, LeaveMoves
<1>5. CASE CaptureFails(l)
  BY <1>5, SameTables, ThrowMoves DEF CaptureFails, At, tables
<1>6. CASE IngestChunk(l)
  BY <1>6, ChunkTables, NobodyMoves DEF IngestChunk
<1>7. CASE Ingested(l)
  BY <1>7, SameTables, GotoPlain DEF Ingested, At, tables, Plain
<1>8. CASE QuotaExhausted(l)
  <2>1. CASE NextProvider(l) <= Providers(l)
    <3>1. JobOK(job[l], stored, DOMAIN yields) /\ job[l].pc = "ingest"
      BY <1>8 DEF Inv, QuotaExhausted, At
    <3>2. /\ DOMAIN job' = Lanes
          /\ \A k \in Lanes \ {l} : job'[k] = job[k]
          /\ DOMAIN job'[l] = Fields /\ job'[l].pc = "ingest"
          /\ job'[l].command = job[l].command /\ job'[l].range = job[l].range
          /\ job'[l].provider = job[l].provider + 1
      BY <1>8, <2>1, <3>1 DEF QuotaExhausted, Inv, JobOK, Fields, NextProvider
    <3>3. job[l].provider + 1 \in 1 .. (IF job[l].command = "worker" THEN Len(ChunkSizes) ELSE 1)
      <4>1. Len(ChunkSizes) \in Nat
        BY HistoryAssumption
      <4> QED
        BY <2>1, <3>1, <4>1 DEF JobOK, NextProvider, Providers
    <3>4. JobOK(job'[l], stored', DOMAIN yields')
      BY <3>1, <3>2, <3>3 DEF JobOK, FlowPlaces
    <3> QED
      BY <1>8, <3>2, <3>4, SameTables, LaneMoves DEF QuotaExhausted, tables
  <2>2. CASE ~ (NextProvider(l) <= Providers(l))
    BY <1>8, <2>2, SameTables, ThrowMoves DEF QuotaExhausted, At, tables
  <2> QED
    BY <2>1, <2>2
<1>9. CASE IngestFails(l)
  <2>1. /\ job[l].pc = "ingest" /\ job[l].command # "flows"
        /\ UNCHANGED <<stored, coverage, checkpoint, yields>>
    BY <1>9, NotFlows DEF IngestFails, At, tables, FlowPlaces
  <2> QED
    BY <1>9, <2>1, SameTables, LeaveMoves DEF IngestFails
<1>10. CASE SourceGate(l)
  <2>1. /\ job[l].pc = "source" /\ job[l].command # "flows"
        /\ UNCHANGED <<stored, coverage, checkpoint, yields>>
    BY <1>10, NotFlows DEF SourceGate, At, tables, FlowPlaces
  <2>2. LeaveWith(l, FALSE) \/ (\E pc \in Plain : Goto(l, pc))
    BY <1>10 DEF SourceGate, Plain
  <2> QED
    BY <2>1, <2>2, SameTables, GotoPlain, LeaveMoves
<1>11. CASE CopyCoverage(l)
  BY <1>11, CopyTables, NotFlows, GotoPlain DEF CopyCoverage, At, Plain, FlowPlaces
<1>12. CASE TargetGate(l)
  BY <1>12, SameTables, GotoPlain, ThrowMoves DEF TargetGate, At, tables, Plain
<1>13. CASE LockFails(l)
  BY <1>13, SameTables, NotFlows, GotoPlain DEF LockFails, At, tables, Plain, FlowPlaces
<1> QED
  BY <1>1, <1>2, <1>3, <1>4, <1>5, <1>6, <1>7, <1>8, <1>9, <1>10, <1>11, <1>12, <1>13

\* Behind a gate the vault's events of the range are stored.
LEMMA GateInv ==
  ASSUME Inv, NEW l \in Lanes, job[l].pc # "idle", Covered(TargetScope(l), job[l].range),
         NEW pc, pc = "flow-read" \/ (pc = "accrued" /\ job[l].command # "flows"), Goto(l, pc),
         UNCHANGED <<stored, coverage, checkpoint, yields>>
  PROVE  Inv'
<1>1. JobOK(job[l], stored, DOMAIN yields)
  BY DEF Inv
<1>2. VaultsStored(job[l].range, stored)
  BY TargetIsScope, GateMeansStored DEF Inv
<1>3. /\ DOMAIN job' = Lanes
      /\ \A k \in Lanes \ {l} : job'[k] = job[k]
      /\ DOMAIN job'[l] = Fields /\ job'[l].pc = pc
      /\ job'[l].command = job[l].command /\ job'[l].range = job[l].range
      /\ job'[l].provider = job[l].provider
  BY GotoFacts
<1>4. JobOK(job'[l], stored, DOMAIN yields)
  BY <1>1, <1>2, <1>3 DEF JobOK, FlowPlaces
<1> QED
  BY <1>3, <1>4, SameTables, LaneMoves

LEMMA FlowStepsInv ==
  ASSUME Inv, NEW l \in Lanes,
         FlowGate(l) \/ FlowRead(l) \/ FlowStore(l) \/ FlowRollback(l)
  PROVE  Inv'
<1>1. JobOK(job[l], stored, DOMAIN yields) /\ stored \subseteq History
  BY DEF Inv, TablesOK
<1>2. CASE FlowGate(l)
  <2>1. job[l].pc = "flow-gate" /\ UNCHANGED <<stored, coverage, checkpoint, yields>>
    BY <1>2 DEF FlowGate, At, tables
  <2>2. CASE Covered(TargetScope(l), job[l].range)
    BY <1>2, <2>1, <2>2, GateInv DEF FlowGate
  <2>3. CASE ~ Covered(TargetScope(l), job[l].range) /\ job[l].command = "flows"
    BY <1>2, <2>1, <2>3, SameTables, FinishedMoves DEF FlowGate
  <2>4. CASE ~ Covered(TargetScope(l), job[l].range) /\ job[l].command # "flows"
    BY <1>2, <2>1, <2>4, SameTables, GotoPlain DEF FlowGate, Plain
  <2> QED
    BY <2>2, <2>3, <2>4
<1>3. CASE FlowRead(l)
  <2>1. job[l].pc = "flow-read" /\ UNCHANGED <<stored, coverage, checkpoint, yields>>
    BY <1>3 DEF FlowRead, At, tables
  <2>2. /\ DOMAIN job' = Lanes
        /\ \A k \in Lanes \ {l} : job'[k] = job[k]
        /\ DOMAIN job'[l] = Fields /\ job'[l].pc = "flow-store"
        /\ job'[l].read = Within(stored, job[l].range)
        /\ job'[l].command = job[l].command /\ job'[l].range = job[l].range
        /\ job'[l].provider = job[l].provider
    BY <1>1, <1>3 DEF FlowRead, Inv, JobOK, Fields
  <2>3. Vaults(Within(stored, job[l].range)) = Vaults(Within(History, job[l].range))
    <3>1. VaultsStored(job[l].range, stored)
      BY <1>1, <2>1 DEF JobOK
    <3> QED
      BY <1>1, <3>1 DEF VaultsStored, Vaults, Within
  <2>4. JobOK(job'[l], stored, DOMAIN yields)
    BY <1>1, <2>1, <2>2, <2>3 DEF JobOK, FlowPlaces
  <2> QED
    BY <2>1, <2>2, <2>4, SameTables, LaneMoves
<1>4. CASE FlowStore(l)
  <2>1. job[l].pc = "flow-store" /\ UNCHANGED <<stored, coverage, checkpoint, yields>>
    BY <1>4 DEF FlowStore, At
  <2>2. CASE job[l].command = "flows"
    BY <1>4, <2>1, <2>2, SameTables, FinishedMoves DEF FlowStore
  <2>3. CASE job[l].command # "flows"
    <3>1. /\ DOMAIN job' = Lanes
          /\ \A k \in Lanes \ {l} : job'[k] = job[k]
          /\ DOMAIN job'[l] = Fields /\ job'[l].pc = "yield-gate"
          /\ job'[l].command = job[l].command /\ job'[l].range = job[l].range
          /\ job'[l].provider = job[l].provider
      BY <1>1, <1>4, <2>3 DEF FlowStore, Inv, JobOK, Fields
    <3>2. JobOK(job'[l], stored, DOMAIN yields)
      BY <1>1, <2>1, <2>3, <3>1 DEF JobOK
    <3> QED
      BY <2>1, <3>1, <3>2, SameTables, LaneMoves
  <2> QED
    BY <2>2, <2>3
<1>5. CASE FlowRollback(l)
  BY <1>5, SameTables, ThrowMoves DEF FlowRollback, At, tables
<1> QED
  BY <1>2, <1>3, <1>4, <1>5

LEMMA YieldStepsInv ==
  ASSUME Inv, NEW l \in Lanes,
         \/ YieldGate(l) \/ ReadAccrued(l) \/ InsertYield(l)
         \/ Unlock(l) \/ UnlockFails(l) \/ Reconcile(l)
  PROVE  /\ Inv' /\ DOMAIN yields' \subseteq DOMAIN yields \cup Windows
         /\ Reconcile(l) => Reconciled(l) \subseteq DOMAIN yields
<1>1. JobOK(job[l], stored, DOMAIN yields) /\ stored \subseteq History
  BY DEF Inv, TablesOK
<1>2. /\ job[l].pc \notin FlowPlaces \cup {"idle"}
      /\ UNCHANGED <<stored, coverage, checkpoint>>
  BY DEF YieldGate, ReadAccrued, InsertYield, Unlock, UnlockFails, Reconcile, At, tables, FlowPlaces
<1>3. job[l].command # "flows" /\ job[l].range \in Windows
  BY <1>2, NotFlows
<1>4. CASE YieldGate(l)
  <2>1. UNCHANGED <<stored, coverage, checkpoint, yields>> /\ ~ Reconcile(l)
    BY <1>4 DEF YieldGate, tables, Reconcile, At
  <2>2. CASE Covered(TargetScope(l), job[l].range)
    <3>1. Goto(l, "accrued")
      BY <1>4, <2>2 DEF YieldGate
    <3> QED
      BY <1>2, <1>3, <2>1, <2>2, <3>1, GateInv
  <2>3. CASE ~ Covered(TargetScope(l), job[l].range)
    <3>1. LeaveWith(l, FALSE)
      BY <1>4, <2>3 DEF YieldGate
    <3> QED
      BY <1>2, <1>3, <2>1, <3>1, SameTables, LeaveMoves
  <2> QED
    BY <2>2, <2>3
<1>5. CASE ReadAccrued(l)
  <2>1. UNCHANGED <<stored, coverage, checkpoint, yields>> /\ ~ Reconcile(l) /\ job[l].pc = "accrued"
    BY <1>5 DEF ReadAccrued, tables, Reconcile, At
  <2>2. CASE {job[l].range.from, job[l].range.to} \subseteq snapshots
    <3>1. /\ DOMAIN job' = Lanes
          /\ \A k \in Lanes \ {l} : job'[k] = job[k]
          /\ DOMAIN job'[l] = Fields /\ job'[l].pc = "insert"
          /\ job'[l].accrued = Accrued(stored, job[l].range)
          /\ job'[l].command = job[l].command /\ job'[l].range = job[l].range
          /\ job'[l].provider = job[l].provider
      BY <1>1, <1>5, <2>2 DEF ReadAccrued, Inv, JobOK, Fields
    <3>2. Yield(Accrued(stored, job[l].range), job[l].range) = VaultYield(job[l].range)
      <4>1. VaultsStored(job[l].range, stored)
        BY <1>1, <2>1 DEF JobOK
      <4> QED
        BY <1>1, <1>3, <4>1, AccruedIsEarned
    <3>3. JobOK(job'[l], stored, DOMAIN yields)
      BY <1>1, <1>3, <2>1, <3>1, <3>2 DEF JobOK
    <3> QED
      BY <2>1, <3>1, <3>3, SameTables, LaneMoves
  <2>3. CASE ~ ({job[l].range.from, job[l].range.to} \subseteq snapshots)
    <3>1. LeaveWith(l, FALSE)
      BY <1>5, <2>3 DEF ReadAccrued
    <3> QED
      BY <1>2, <1>3, <2>1, <3>1, SameTables, LeaveMoves
  <2> QED
    BY <2>2, <2>3
<1>6. CASE InsertYield(l)
  <2> DEFINE y == Yield(job[l].accrued, job[l].range)
             row == [yield |-> y, verdict |-> "candidate"]
  <2>1. ~ Reconcile(l)
    BY <1>6 DEF InsertYield, Reconcile, At
  <2>2. CASE y.native < 0
    <3>1. Throw(l) /\ UNCHANGED yields
      BY <1>6, <2>2 DEF InsertYield
    <3> QED
      BY <1>2, <2>1, <3>1, SameTables, ThrowMoves
  <2>3. CASE ~ (y.native < 0)
    <3>1. /\ yields' = IF job[l].range \in DOMAIN yields THEN yields
                       ELSE Put(yields, job[l].range, row)
          /\ LeaveWith(l, job[l].flowed)
      BY <1>6, <2>3 DEF InsertYield
    <3>2. DOMAIN yields' = DOMAIN yields \cup {job[l].range}
      BY <3>1 DEF Put
    <3>3. TablesOK'
      BY <1>2, <1>3, <3>2 DEF Inv, TablesOK, EvidenceBehindCoverage
    <3>4. Inv'
      BY <1>2, <1>3, <3>1, <3>2, <3>3, LeaveMoves
    <3> QED
      BY <1>3, <2>1, <3>2, <3>4
  <2> QED
    BY <2>2, <2>3
<1>7. CASE Unlock(l)
  <2>1. UNCHANGED <<stored, coverage, checkpoint, yields>> /\ ~ Reconcile(l) /\ job[l].pc = "unlock"
    BY <1>7 DEF Unlock, tables, Reconcile, At
  <2>2. CASE job[l].derived /\ Reconciles(l)
    <3>1. Goto(l, "reconcile")
      BY <1>7, <2>2 DEF Unlock
    <3>2. /\ DOMAIN job' = Lanes
          /\ \A k \in Lanes \ {l} : job'[k] = job[k]
          /\ DOMAIN job'[l] = Fields /\ job'[l].pc = "reconcile"
          /\ job'[l].derived = job[l].derived
          /\ job'[l].command = job[l].command /\ job'[l].range = job[l].range
          /\ job'[l].provider = job[l].provider
      BY <3>1, GotoFacts
    <3>3. JobOK(job'[l], stored, DOMAIN yields)
      BY <1>1, <1>3, <2>1, <2>2, <3>2 DEF JobOK
    <3> QED
      BY <2>1, <3>2, <3>3, SameTables, LaneMoves
  <2>3. CASE ~ (job[l].derived /\ Reconciles(l))
    <3>1. Finished(l)
      BY <1>7, <2>3 DEF Unlock
    <3> QED
      BY <2>1, <3>1, SameTables, FinishedMoves
  <2> QED
    BY <2>2, <2>3
<1>8. CASE UnlockFails(l)
  <2>1. UNCHANGED <<stored, coverage, checkpoint, yields>> /\ ~ Reconcile(l) /\ Goto(l, "hung")
    BY <1>8 DEF UnlockFails, tables, Reconcile, At
  <2>2. "hung" \in Plain
    BY DEF Plain
  <2> QED
    BY <1>2, <1>3, <2>1, <2>2, SameTables, GotoPlain
<1>9. CASE Reconcile(l)
  <2>1. Reconciled(l) \subseteq DOMAIN yields
    BY <1>1, <1>9 DEF Reconciled, Latest, Reconcile, At, JobOK
  <2>2. DOMAIN yields' = DOMAIN yields
    BY <1>9, <2>1 DEF Reconcile, Put
  <2>3. TablesOK'
    BY <1>2, <2>2 DEF Inv, TablesOK, EvidenceBehindCoverage
  <2>4. Finished(l)
    BY <1>9 DEF Reconcile
  <2>5. Inv'
    BY <1>2, <2>2, <2>3, <2>4, FinishedMoves
  <2> QED
    BY <2>1, <2>2, <2>5
<1> QED
  BY <1>4, <1>5, <1>6, <1>7, <1>8, <1>9

LEMMA InitInv == Init => Inv
<1> SUFFICES ASSUME Init
             PROVE  Inv
  OBVIOUS
<1>1. TablesOK
  <2>1. checkpoint \in [Scopes -> Nat]
    BY DEF Init
  <2> QED
    BY <2>1 DEF Init, TablesOK, EvidenceBehindCoverage
<1>2. DOMAIN job = Lanes /\ \A l \in Lanes : job[l] = Idle
  BY DEF Init
<1> QED
  BY <1>1, <1>2, IdleOK DEF Inv

LEMMA NextInv == Inv /\ [Next]_vars => Inv'
<1> SUFFICES ASSUME Inv, [Next]_vars
             PROVE  Inv'
  OBVIOUS
<1>1. ASSUME NEW l \in Lanes, Start(l)
      PROVE  Inv'
  BY <1>1, StartInv
<1>2. ASSUME NEW l \in Lanes, LaneStep(l)
      PROVE  Inv'
  BY <1>2, CoverageStepsInv, FlowStepsInv, YieldStepsInv DEF LaneStep
<1>3. ASSUME NEW l \in Lanes, Crash(l)
      PROVE  Inv'
  <2>1. UNCHANGED <<stored, coverage, checkpoint, yields>> /\ Finished(l)
    BY <1>3 DEF Crash, tables
  <2> QED
    BY <2>1, SameTables, FinishedMoves
<1>4. ASSUME NEW s \in Scopes, SessionEnds(s)
      PROVE  Inv'
  <2>1. UNCHANGED <<stored, coverage, checkpoint, yields>> /\ UNCHANGED job
    BY <1>4 DEF SessionEnds, tables
  <2> QED
    BY <2>1, SameTables, NobodyMoves
<1>5. ASSUME NEW s \in {Recent, Lifetime}, Background(s)
      PROVE  Inv'
  <2>1. UNCHANGED yields /\ UNCHANGED job
    BY <1>5 DEF Background
  <2> QED
    BY <1>5, <2>1, BackgroundTables, NobodyMoves
<1>6. CASE UNCHANGED vars
  <2>1. UNCHANGED <<stored, coverage, checkpoint, yields>> /\ UNCHANGED job
    BY <1>6 DEF vars, tables
  <2> QED
    BY <2>1, SameTables, NobodyMoves
<1> QED
  BY <1>1, <1>2, <1>3, <1>4, <1>5, <1>6 DEF Next

(***************************************************************************)
(* The invariant the lanes keep: behind every gate they passed, and in     *)
(* what they read behind it, are all the vault's events of their range.    *)
(***************************************************************************)
THEOREM Invariance == Spec => []Inv
BY InitInv, NextInv, PTL DEF Spec

-------------------------------------------------------------------------------
(* The properties. *)

(***************************************************************************)
(* Every coverage row is backed by the logs its scope asks for: the chunks *)
(* ingestLogs commits, and the rows reuseSavingsHistoryCoverage copies and *)
(* cuts from the wider lifetime scope.                                     *)
(***************************************************************************)
THEOREM EvidenceSound == Spec => []EvidenceBehindCoverage
<1>1. Inv => EvidenceBehindCoverage
  BY DEF Inv, TablesOK
<1> QED
  BY Invariance, <1>1, PTL

LEMMA StepForward ==
  ASSUME Inv, [Next]_vars
  PROVE  \A s \in Scopes : checkpoint'[s] >= checkpoint[s]
<1>1. \A s \in Scopes : checkpoint[s] \in Nat
  BY DEF Inv, TablesOK
<1>2. CASE \E l \in Lanes : IngestChunk(l)
  BY <1>2, ChunkTables
<1>3. CASE \E s \in {Recent, Lifetime} : Background(s)
  BY <1>3, BackgroundTables
<1>4. CASE ~ (\E l \in Lanes : IngestChunk(l)) /\ ~ (\E s \in {Recent, Lifetime} : Background(s))
  <2>1. UNCHANGED checkpoint
    <3>1. ASSUME NEW l \in Lanes, Start(l) \/ Crash(l)
          PROVE  UNCHANGED checkpoint
      BY <3>1 DEF Start, Crash, tables
    <3>2. ASSUME NEW l \in Lanes, LaneStep(l)
          PROVE  UNCHANGED checkpoint
      <4>1. CASE \/ Lock(l) \/ Busy(l) \/ LockFails(l)
                 \/ StartSnapshot(l) \/ EndSnapshot(l) \/ CaptureFails(l)
                 \/ Ingested(l) \/ QuotaExhausted(l) \/ IngestFails(l)
                 \/ SourceGate(l) \/ CopyCoverage(l) \/ TargetGate(l)
        BY <4>1 DEF Lock, Busy, LockFails, StartSnapshot, EndSnapshot, Capture, CaptureFails, Ingested,
                    QuotaExhausted, IngestFails, SourceGate, CopyCoverage, TargetGate, tables
      <4>2. CASE FlowGate(l) \/ FlowRead(l) \/ FlowStore(l) \/ FlowRollback(l)
        BY <4>2 DEF FlowGate, FlowRead, FlowStore, FlowRollback, tables
      <4>3. CASE \/ YieldGate(l) \/ ReadAccrued(l) \/ InsertYield(l)
                 \/ Unlock(l) \/ UnlockFails(l) \/ Reconcile(l)
        BY <4>3 DEF YieldGate, ReadAccrued, InsertYield, Unlock, UnlockFails, Reconcile, tables
      <4> QED
        BY <1>4, <3>2, <4>1, <4>2, <4>3 DEF LaneStep
    <3>3. ASSUME NEW s \in Scopes, SessionEnds(s)
          PROVE  UNCHANGED checkpoint
      BY <3>3 DEF SessionEnds, tables
    <3>4. CASE UNCHANGED vars
      BY <3>4 DEF vars, tables
    <3> QED
      BY <1>4, <3>1, <3>2, <3>3, <3>4 DEF Next
  <2> QED
    BY <1>1, <2>1
<1> QED
  BY <1>2, <1>3, <1>4

(***************************************************************************)
(* No scan goes back: a chunk of ingestLogs starts at its scope's          *)
(* checkpoint or behind it, whichever lane runs it, for whichever provider *)
(* and after whatever crash.                                               *)
(***************************************************************************)
THEOREM ScansForward == Spec => ScansGoForward
<1>1. Inv /\ [Next]_vars => [\A s \in Scopes : checkpoint'[s] >= checkpoint[s]]_vars
  BY StepForward
<1> QED
  BY Invariance, <1>1, PTL DEF Spec, ScansGoForward

-------------------------------------------------------------------------------
(* The refinement. *)

\* The flow rows the abstract specification sees.
Published == [k \in DOMAIN flows |-> SavingsRows(flows[k])]

LEMMA InitExact == Init => Exact!ExactInit
BY DEF Init, Exact!ExactInit

\* A rebuild publishes all savings rows of its range.
LEMMA StorePublishes ==
  ASSUME Inv, NEW l \in Lanes, FlowStore(l)
  PROVE  Exact!ExactNext
<1>1. job[l].pc = "flow-store" /\ JobOK(job[l], stored, DOMAIN yields)
  BY DEF FlowStore, At, Inv
<1>2. job[l].range \in Windows /\ Vaults(job[l].read) = Vaults(Within(History, job[l].range))
  BY <1>1 DEF JobOK
<1>3. SavingsRows(Flows(job[l].read)) = FinalFlows[job[l].range]
  <2> DEFINE read  == job[l].read
             final == Within(History, job[l].range)
  <2>1. FinalFlows[job[l].range] = SavingsRows(Flows(final))
    BY <1>2 DEF FinalFlows
  <2>2. Vaults(read) = Vaults(final) /\ Vaults(final) = Vaults(read)
    BY <1>2
  <2> HIDE DEF read, final
  <2>3. SavingsRows(Flows(read)) \subseteq SavingsRows(Flows(final))
    BY <2>2, RowsOfVaults
  <2>4. SavingsRows(Flows(final)) \subseteq SavingsRows(Flows(read))
    BY <2>2, RowsOfVaults
  <2>5. SavingsRows(Flows(read)) = SavingsRows(Flows(final))
    BY <2>3, <2>4
  <2> QED
    BY <2>1, <2>5 DEF read, final
<1>4. flows' = Put(flows, <<job[l].range, Manifest(l)>>, Flows(job[l].read)) /\ UNCHANGED yields
  BY DEF FlowStore
<1>5. Published' = Exact!Put(Published, <<job[l].range, Manifest(l)>>, FinalFlows[job[l].range])
  BY <1>3, <1>4 DEF Published, Put, Exact!Put
<1>6. Manifest(l) \in Manifests
  BY DEF Manifest, Manifests
<1>7. Exact!PublishFlows(job[l].range, Manifest(l))
  BY <1>4, <1>5 DEF Exact!PublishFlows, Published
<1> QED
  BY <1>2, <1>6, <1>7 DEF Exact!ExactNext

\* An insert earns the vault's yield of a range, or finds a row.
LEMMA InsertEarns ==
  ASSUME Inv, NEW l \in Lanes, InsertYield(l)
  PROVE  [Exact!ExactNext]_(Exact!exactVars)
<1> DEFINE y == Yield(job[l].accrued, job[l].range)
<1>1. job[l].pc = "insert" /\ JobOK(job[l], stored, DOMAIN yields)
  BY DEF InsertYield, At, Inv
<1>2. job[l].command # "flows" /\ job[l].range \in Windows /\ y = VaultYield(job[l].range)
  BY <1>1, NotFlows DEF JobOK, FlowPlaces
<1>3. UNCHANGED flows
  BY DEF InsertYield
<1>4. CASE UNCHANGED yields
  BY <1>3, <1>4 DEF Exact!exactVars
<1>5. CASE ~ UNCHANGED yields
  <2>1. /\ job[l].range \notin DOMAIN yields
        /\ yields' = Put(yields, job[l].range, [yield |-> y, verdict |-> "candidate"])
    BY <1>5 DEF InsertYield
  <2>2. y = FinalYield[job[l].range]
    BY <1>2 DEF FinalYield
  <2>3. Exact!PublishYield(job[l].range)
    BY <1>3, <2>1, <2>2 DEF Exact!PublishYield, Put, Exact!Put
  <2> QED
    BY <1>2, <2>3 DEF Exact!ExactNext
<1> QED
  BY <1>4, <1>5

\* A reconciliation changes the verdict of a row.
LEMMA ReconcileJudges ==
  ASSUME Inv, NEW l \in Lanes, Reconcile(l)
  PROVE  [Exact!ExactNext]_(Exact!exactVars)
<1>1. UNCHANGED flows
  BY DEF Reconcile
<1>2. CASE UNCHANGED yields
  BY <1>1, <1>2 DEF Exact!exactVars
<1>3. CASE ~ UNCHANGED yields
  <2>1. PICK r \in Reconciled(l) : \E v \in Verdicts(r) :
          yields' = Put(yields, r, [yield |-> yields[r].yield, verdict |-> v])
    BY <1>3 DEF Reconcile
  <2>2. r \in DOMAIN yields /\ r \in Windows
    BY YieldStepsInv DEF Inv, TablesOK
  <2>3. PICK v \in {"verified", "invalid"} :
          yields' = Put(yields, r, [yield |-> yields[r].yield, verdict |-> v])
    BY <2>1 DEF Verdicts
  <2>4. Exact!Judge(r)
    BY <1>1, <2>1, <2>2, <2>3 DEF Exact!Judge, Put, Exact!Put
  <2> QED
    BY <2>2, <2>4 DEF Exact!ExactNext
<1> QED
  BY <1>2, <1>3

\* No other step changes what is derived.
LEMMA OtherStepsKeep ==
  ASSUME NEW l \in Lanes,
         \/ Start(l) \/ Crash(l)
         \/ Lock(l) \/ Busy(l) \/ LockFails(l)
         \/ StartSnapshot(l) \/ EndSnapshot(l) \/ CaptureFails(l)
         \/ IngestChunk(l) \/ Ingested(l) \/ QuotaExhausted(l) \/ IngestFails(l)
         \/ SourceGate(l) \/ CopyCoverage(l) \/ TargetGate(l)
         \/ FlowGate(l) \/ FlowRead(l) \/ FlowRollback(l)
         \/ YieldGate(l) \/ ReadAccrued(l) \/ Unlock(l) \/ UnlockFails(l)
  PROVE  UNCHANGED <<flows, yields>>
<1>1. CASE \/ Start(l) \/ Crash(l) \/ Lock(l) \/ Busy(l) \/ LockFails(l)
           \/ StartSnapshot(l) \/ EndSnapshot(l) \/ CaptureFails(l)
  BY <1>1 DEF Start, Crash, Lock, Busy, LockFails, StartSnapshot, EndSnapshot, Capture, CaptureFails, tables
<1>2. CASE \/ IngestChunk(l) \/ Ingested(l) \/ QuotaExhausted(l) \/ IngestFails(l)
           \/ SourceGate(l) \/ CopyCoverage(l) \/ TargetGate(l)
  BY <1>2 DEF IngestChunk, Ingested, QuotaExhausted, IngestFails, SourceGate, CopyCoverage,
              TargetGate, tables
<1>3. CASE \/ FlowGate(l) \/ FlowRead(l) \/ FlowRollback(l)
           \/ YieldGate(l) \/ ReadAccrued(l) \/ Unlock(l) \/ UnlockFails(l)
  BY <1>3 DEF FlowGate, FlowRead, FlowRollback, YieldGate, ReadAccrued, Unlock, UnlockFails, tables
<1> QED
  BY <1>1, <1>2, <1>3

LEMMA StepExact ==
  ASSUME Inv, [Next]_vars
  PROVE  [Exact!ExactNext]_(Exact!exactVars)
<1>1. UNCHANGED <<flows, yields>> => UNCHANGED Exact!exactVars
  BY DEF Exact!exactVars
<1>2. ASSUME NEW l \in Lanes, Start(l) \/ LaneStep(l) \/ Crash(l)
      PROVE  [Exact!ExactNext]_(Exact!exactVars)
  BY <1>1, <1>2, StorePublishes, InsertEarns, ReconcileJudges, OtherStepsKeep DEF LaneStep
<1>3. ASSUME NEW s \in Scopes, SessionEnds(s)
      PROVE  UNCHANGED <<flows, yields>>
  BY <1>3 DEF SessionEnds, tables
<1>4. ASSUME NEW s \in {Recent, Lifetime}, Background(s)
      PROVE  UNCHANGED <<flows, yields>>
  BY <1>4 DEF Background
<1>5. CASE UNCHANGED vars
  BY <1>1, <1>5 DEF vars, tables
<1> QED
  BY <1>1, <1>2, <1>3, <1>4, <1>5 DEF Next

(***************************************************************************)
(* The lanes implement ExactIntervals: the flow rows that                  *)
(* rebuildFlowAnalytics replaces, and the yields that                      *)
(* calculateSavingsYieldForRange inserts and reconcileSavingsYield judges, *)
(* are those of the final chain, or none.                                  *)
(***************************************************************************)
THEOREM Refinement == Spec => ImplementsExactIntervals
BY InitExact, StepExact, Invariance, PTL DEF Spec, ImplementsExactIntervals, Exact!ExactSpec

-------------------------------------------------------------------------------
(* Events and rows agree. *)

AmountOf(es) == [e \in es |-> e.amount]

\* The amounts of a part, summed over the whole.
LEMMA TotalOn ==
  ASSUME NEW U, NEW es \in SUBSET U, IsFiniteSet(es), \A e \in es : e.amount \in Int
  PROVE  Total(es) = SumFunctionOnSet(AmountOf(U), es)
<1>1. Total(es) = SumFunctionOnSet(AmountOf(es), es)
  BY DEF Total, SumFunction, AmountOf
<1>2. \A e \in es : AmountOf(es)[e] \in Int /\ AmountOf(es)[e] = AmountOf(U)[e]
  BY DEF AmountOf
<1>3. SumFunctionOnSet(AmountOf(es), es) = SumFunctionOnSet(AmountOf(U), es)
  BY <1>2, SumSame
<1> QED
  BY <1>1, <1>3

\* The rows of one metric and granularity, and the events of one of them.
RowsOf(rows, g, m) == {row \in rows : row.granularity = g /\ row.metric = m}
Meant(es, m)       == {e \in es : Meaning(e) = m}
Behind(es, g, row) == {e \in es : Meaning(e) = row.metric /\ BucketStart(e, g) = row.bucket}

\* Every row of a metric is a bucket of some event, and its amount is theirs.
LEMMA RowIsBucket ==
  ASSUME NEW es, NEW g \in {"hour", "day"}, NEW m \in SavingsMetrics,
         NEW row \in RowsOf(Flows(es), g, m)
  PROVE  \E e \in Meant(es, m) : /\ row = FlowRow(es, g, e) /\ e \in Behind(es, g, row)
                                 /\ row.amount = Total(Behind(es, g, row))
<1>1. row.granularity = g /\ row.metric = m
  BY DEF RowsOf
<1>2. PICK k \in {"hour", "day"}, e \in es : row = FlowRow(es, k, e) /\ Meaning(e) \in NativeFlowMetrics
  BY DEF RowsOf, Flows, NativeFlows
<1>3. row.granularity = k /\ row.metric = Meaning(e) /\ row.bucket = BucketStart(e, k)
      /\ row.amount = Total({f \in es : SameBucket(e, f, k)})
  BY <1>2 DEF FlowRow
<1>4. {f \in es : SameBucket(e, f, k)} = Behind(es, g, row)
  BY <1>1, <1>3 DEF SameBucket, Behind
<1>5. row.amount = Total(Behind(es, g, row))
  BY <1>3, <1>4
<1> QED
  BY <1>1, <1>2, <1>3, <1>5 DEF Meant, Behind

\* Rows of different buckets share no event.
LEMMA RowsApart ==
  ASSUME NEW es, NEW g \in {"hour", "day"}, NEW m \in SavingsMetrics,
         NEW r \in RowsOf(Flows(es), g, m), NEW s \in RowsOf(Flows(es), g, m),
         Behind(es, g, r) \cap Behind(es, g, s) # {}
  PROVE  r = s
<1>1. PICK e \in Meant(es, m) : r = FlowRow(es, g, e)
  BY RowIsBucket
<1>2. PICK f \in Meant(es, m) : s = FlowRow(es, g, f)
  BY RowIsBucket
<1>3. /\ r.metric = Meaning(e) /\ r.bucket = BucketStart(e, g)
      /\ s.metric = Meaning(f) /\ s.bucket = BucketStart(f, g)
  BY <1>1, <1>2 DEF FlowRow
<1>4. Meaning(e) = Meaning(f) /\ BucketStart(e, g) = BucketStart(f, g)
  BY <1>3 DEF Behind
<1>5. {h \in es : SameBucket(e, h, g)} = {h \in es : SameBucket(f, h, g)}
  BY <1>4 DEF SameBucket
<1> QED
  BY <1>1, <1>2, <1>4, <1>5 DEF FlowRow

\* The hourly rows of a metric, or its daily rows, add up to its events.
LEMMA RowsAddUp ==
  ASSUME NEW es, IsFiniteSet(es), \A e \in es : e.amount \in Nat,
         NEW g \in {"hour", "day"}, NEW m \in SavingsMetrics
  PROVE  RowTotal(RowsOf(Flows(es), g, m)) = Total(Meant(es, m))
<1> DEFINE R    == RowsOf(Flows(es), g, m)
           of   == [row \in R |-> Behind(es, g, row)]
           f    == AmountOf(es)
           sum  == [row \in R |-> row.amount]
<1>1. \A row \in R : IsFiniteSet(Behind(es, g, row)) /\ Behind(es, g, row) \in SUBSET es
  BY FS_Subset DEF Behind
<1>2. \A e \in es : f[e] = e.amount /\ f[e] \in Int /\ e.amount \in Int
  BY DEF AmountOf
<1>3. IsFiniteSet(R)
  <2> DEFINE h == [e \in Meant(es, m) |-> FlowRow(es, g, e)]
             I == {FlowRow(es, g, e) : e \in Meant(es, m)}
  <2>1. h \in Surjection(Meant(es, m), I)
    BY DEF Surjection
  <2>2. IsFiniteSet(Meant(es, m))
    BY FS_Subset DEF Meant
  <2>3. IsFiniteSet(I)
    BY <2>1, <2>2, FS_Surjection
  <2>4. R \subseteq I
    BY RowIsBucket
  <2> HIDE DEF I, R
  <2> QED
    BY <2>3, <2>4, FS_Subset
<1>4. \A row \in R : /\ IsFiniteSet(of[row]) /\ sum[row] = SumFunctionOnSet(f, of[row])
                     /\ \A x \in of[row] : f[x] \in Int
  <2> SUFFICES ASSUME NEW row \in R
               PROVE  /\ IsFiniteSet(of[row]) /\ sum[row] = SumFunctionOnSet(f, of[row])
                      /\ \A x \in of[row] : f[x] \in Int
    OBVIOUS
  <2>1. of[row] = Behind(es, g, row) /\ sum[row] = Total(Behind(es, g, row))
    BY RowIsBucket
  <2>2. Total(Behind(es, g, row)) = SumFunctionOnSet(AmountOf(es), Behind(es, g, row))
    <3>1. \A e \in Behind(es, g, row) : e.amount \in Int
      BY <1>1, <1>2
    <3> QED
      BY <1>1, <3>1, TotalOn
  <2> QED
    BY <1>1, <1>2, <2>1, <2>2
<1>5. \A r, s \in R : r # s => of[r] \cap of[s] = {}
  BY RowsApart
<1>6. UNION {of[row] : row \in R} = Meant(es, m)
  <2>1. ASSUME NEW e \in Meant(es, m) PROVE \E row \in R : e \in of[row]
    <3>1. FlowRow(es, g, e) \in R
      <4>1. FlowRow(es, g, e).granularity = g /\ FlowRow(es, g, e).metric = m
        BY DEF FlowRow, Meant
      <4> QED
        BY <4>1 DEF RowsOf, Flows, NativeFlows, NativeFlowMetrics, Meant
    <3>2. e \in Behind(es, g, FlowRow(es, g, e))
      BY DEF Behind, FlowRow, Meant
    <3> QED
      BY <3>1, <3>2
  <2>2. \A row \in R : of[row] \subseteq Meant(es, m)
    BY DEF RowsOf, Behind, Meant
  <2> QED
    BY <2>1, <2>2
<1>7. RowTotal(R) = SumFunctionOnSet(sum, R)
  BY DEF RowTotal, SumFunction
<1> HIDE DEF of, sum, f, R
<1>8. SumFunctionOnSet(sum, R) = SumFunctionOnSet(f, UNION {of[row] : row \in R})
  BY <1>3, <1>4, <1>5, SumOfGroups
<1>9. Total(Meant(es, m)) = SumFunctionOnSet(f, Meant(es, m))
  <2>1. Meant(es, m) \in SUBSET es /\ IsFiniteSet(Meant(es, m))
    BY FS_Subset DEF Meant
  <2> QED
    BY <1>2, <2>1, TotalOn DEF f
<1>10. SumFunctionOnSet(f, UNION {of[row] : row \in R}) = SumFunctionOnSet(f, Meant(es, m))
  BY <1>6
<1> QED
  BY <1>7, <1>8, <1>9, <1>10 DEF R

\* What a rebuild has read are events of the chain; an economic row says what
\* its event means; and the range of a flow row has all its vault events in
\* both tables.
RowsOK ==
  /\ \A l \in Lanes : job[l].read \subseteq History
  /\ \A e \in DOMAIN economic : e \in History /\ economic[e].meaning = Meaning(e)
  /\ \A k \in DOMAIN flows :
       /\ SavingsRows(flows[k]) = SavingsRows(Flows(Within(History, k[1])))
       /\ \A e \in Within(History, k[1]) : Meaning(e) \in SavingsMetrics => e \in DOMAIN economic

\* Hence the tables agree.
LEMMA RowsAgree == RowsOK => EconomicMatchesFlows
<1> SUFFICES ASSUME RowsOK, NEW k \in DOMAIN flows, NEW m \in SavingsMetrics, NEW g \in {"hour", "day"}
             PROVE  RowTotal({row \in flows[k] : row.granularity = g /\ row.metric = m}) =
                      Total({e \in Within(DOMAIN economic, k[1]) : economic[e].meaning = m})
  BY DEF EconomicMatchesFlows
<1> DEFINE es == Within(History, k[1])
<1>1. IsFiniteSet(es) /\ \A e \in es : e.amount \in Nat
  BY HistoryAssumption, FS_Subset DEF Within
<1>2. {e \in Within(DOMAIN economic, k[1]) : economic[e].meaning = m} = Meant(es, m)
  BY DEF RowsOK, Within, Meant
<1>3. {row \in flows[k] : row.granularity = g /\ row.metric = m} = RowsOf(Flows(es), g, m)
  <2>1. \A rows : RowsOf(rows, g, m) = RowsOf(SavingsRows(rows), g, m)
    BY DEF RowsOf, SavingsRows
  <2>2. RowsOf(flows[k], g, m) = RowsOf(Flows(es), g, m)
    BY <2>1 DEF RowsOK
  <2> QED
    BY <2>2 DEF RowsOf
<1> HIDE DEF es
<1>4. RowTotal(RowsOf(Flows(es), g, m)) = Total(Meant(es, m))
  BY <1>1, RowsAddUp
<1> QED
  BY <1>2, <1>3, <1>4

\* No other step touches the two tables, and a rebuild reads stored events.
LEMMA ReadsAndWrites ==
  ASSUME Inv, RowsOK, [Next]_vars
  PROVE  /\ \A l \in Lanes : job'[l].read \subseteq History
         /\ UNCHANGED <<flows, economic>> \/ \E l \in Lanes : FlowStore(l)
<1>1. DOMAIN job = Lanes /\ \A l \in Lanes : DOMAIN job[l] = Fields
  BY DEF Inv, JobOK
<1>2. \A l \in Lanes : job[l].read \subseteq History
  BY DEF RowsOK
<1>3. stored \subseteq History
  BY DEF Inv, TablesOK
<1> DEFINE Reads == \A l \in Lanes : job'[l].read \subseteq History
\* Steps that read no events.
<1>4. ASSUME NEW l \in Lanes, NEW pc, Goto(l, pc) PROVE Reads
  BY <1>1, <1>2, <1>4 DEF Goto, Fields
<1>5. ASSUME NEW l \in Lanes, Finished(l) PROVE Reads
  BY <1>1, <1>2, <1>5 DEF Finished, Idle
<1>6. ASSUME NEW l \in Lanes, NEW d, LeaveWith(l, d) PROVE Reads
  BY <1>1, <1>2, <1>6 DEF LeaveWith, Fields
<1>7. ASSUME NEW l \in Lanes, Throw(l) PROVE Reads
  BY <1>5, <1>6, <1>7 DEF Throw
<1>8. ASSUME UNCHANGED job PROVE Reads
  BY <1>2, <1>8
<1>9. ASSUME NEW l \in Lanes, LaneStep(l)
      PROVE  Reads /\ (UNCHANGED <<flows, economic>> \/ FlowStore(l))
  <2>1. CASE \/ Lock(l) \/ Busy(l) \/ LockFails(l)
             \/ StartSnapshot(l) \/ EndSnapshot(l) \/ CaptureFails(l)
    BY <1>4, <1>5, <1>6, <1>7, <2>1
       DEF Lock, Busy, LockFails, StartSnapshot, EndSnapshot, Capture, CaptureFails, tables
  <2>2. CASE \/ IngestChunk(l) \/ Ingested(l) \/ IngestFails(l)
             \/ SourceGate(l) \/ CopyCoverage(l) \/ TargetGate(l)
    BY <1>4, <1>6, <1>7, <1>8, <2>2 DEF IngestChunk, Ingested, IngestFails, SourceGate,
       CopyCoverage, TargetGate, tables
  <2>3. CASE QuotaExhausted(l)
    <3>1. CASE job' = [job EXCEPT ![l].provider = NextProvider(l)]
      BY <1>1, <1>2, <2>3, <3>1 DEF QuotaExhausted, Fields, tables
    <3> QED
      BY <1>7, <2>3, <3>1 DEF QuotaExhausted, tables
  <2>4. CASE FlowGate(l) \/ FlowRollback(l)
    BY <1>4, <1>5, <1>7, <2>4 DEF FlowGate, FlowRollback, tables
  <2>5. CASE FlowRead(l)
    <3>1. job'[l].read = Within(stored, job[l].range) /\ \A k \in Lanes \ {l} : job'[k] = job[k]
      BY <1>1, <2>5 DEF FlowRead, Fields
    <3> QED
      BY <1>2, <1>3, <2>5, <3>1 DEF FlowRead, Within, tables
  <2>6. CASE FlowStore(l)
    <3>1. CASE Finished(l)
      BY <1>5, <2>6, <3>1
    <3>2. CASE job' = [job EXCEPT ![l].pc = "yield-gate", ![l].read = {}, ![l].flowed = TRUE]
      BY <1>1, <1>2, <2>6, <3>2 DEF Fields
    <3> QED
      BY <2>6, <3>1, <3>2 DEF FlowStore
  <2>7. CASE YieldGate(l)
    BY <1>4, <1>6, <2>7 DEF YieldGate, tables
  <2>8. CASE ReadAccrued(l)
    <3>1. CASE job' = [job EXCEPT ![l].pc = "insert", ![l].accrued = Accrued(stored, job[l].range)]
      BY <1>1, <1>2, <2>8, <3>1 DEF ReadAccrued, Fields, tables
    <3> QED
      BY <1>6, <2>8, <3>1 DEF ReadAccrued, tables
  <2>9. CASE InsertYield(l) \/ Unlock(l) \/ UnlockFails(l) \/ Reconcile(l)
    BY <1>4, <1>5, <1>6, <1>7, <2>9 DEF InsertYield, Unlock, UnlockFails, Reconcile, tables
  <2> QED
    BY <1>9, <2>1, <2>2, <2>3, <2>4, <2>5, <2>6, <2>7, <2>8, <2>9 DEF LaneStep
<1>10. ASSUME NEW l \in Lanes, Start(l)
       PROVE  Reads /\ UNCHANGED <<flows, economic>>
  <2>1. PICK q \in Requests[l] : \E pc :
          job' = [job EXCEPT ![l] = [Idle EXCEPT !.command = q.command, !.range = q.range, !.pc = pc]]
    BY <1>10 DEF Start
  <2>2. job'[l].read = {} /\ \A k \in Lanes \ {l} : job'[k] = job[k]
    <3>1. PICK pc :
            job' = [job EXCEPT ![l] = [Idle EXCEPT !.command = q.command, !.range = q.range, !.pc = pc]]
      BY <2>1
    <3> QED
      BY <1>1, <3>1 DEF Idle
  <2> QED
    BY <1>2, <1>10, <2>2 DEF Start, tables
<1>11. ASSUME NEW l \in Lanes, Crash(l)
       PROVE  Reads /\ UNCHANGED <<flows, economic>>
  BY <1>5, <1>11 DEF Crash, tables
<1>12. ASSUME NEW s \in Scopes, SessionEnds(s) \/ Background(s)
       PROVE  Reads /\ UNCHANGED <<flows, economic>>
  BY <1>8, <1>12 DEF SessionEnds, Background, tables
<1>13. CASE UNCHANGED vars
  BY <1>8, <1>13 DEF vars, tables
<1>14. {Recent, Lifetime} \subseteq Scopes
  BY DEF Scopes
<1> QED
  BY <1>9, <1>10, <1>11, <1>12, <1>13, <1>14 DEF Next

\* A rebuild writes both tables from the same events.
LEMMA StoreRows ==
  ASSUME Inv, RowsOK, NEW l \in Lanes, FlowStore(l)
  PROVE  /\ \A e \in DOMAIN economic' : e \in History /\ economic'[e].meaning = Meaning(e)
         /\ \A k \in DOMAIN flows' :
              /\ SavingsRows(flows'[k]) = SavingsRows(Flows(Within(History, k[1])))
              /\ \A e \in Within(History, k[1]) :
                   Meaning(e) \in SavingsMetrics => e \in DOMAIN economic'
<1> DEFINE r == job[l].range
<1>1. /\ flows' = Put(flows, <<r, Manifest(l)>>, Flows(job[l].read))
      /\ economic' = [e \in DOMAIN economic \cup Classified(job[l].read) |->
                        IF e \in job[l].read
                        THEN [meaning |-> Meaning(e), source |-> r] ELSE economic[e]]
      /\ Vaults(job[l].read) = Vaults(Within(History, r)) /\ job[l].read \subseteq History
  BY DEF FlowStore, At, Inv, JobOK, RowsOK
<1>2. DOMAIN economic' = DOMAIN economic \cup Classified(job[l].read)
  BY <1>1
<1>3. \A e \in DOMAIN economic' : e \in History /\ economic'[e].meaning = Meaning(e)
  BY <1>1 DEF RowsOK, Classified
<1>4. SavingsRows(Flows(job[l].read)) = SavingsRows(Flows(Within(History, r)))
  <2> DEFINE read  == job[l].read
             final == Within(History, r)
  <2>1. Vaults(read) = Vaults(final) /\ Vaults(final) = Vaults(read)
    BY <1>1
  <2> HIDE DEF read, final
  <2>2. SavingsRows(Flows(read)) \subseteq SavingsRows(Flows(final))
    BY <2>1, RowsOfVaults
  <2>3. SavingsRows(Flows(final)) \subseteq SavingsRows(Flows(read))
    BY <2>1, RowsOfVaults
  <2> QED
    BY <2>2, <2>3 DEF read, final
<1>5. ASSUME NEW e \in Within(History, r), Meaning(e) \in SavingsMetrics
      PROVE  e \in DOMAIN economic'
  <2>1. e \in job[l].read
    BY <1>1, <1>5, VaultMeanings DEF Vaults
  <2> QED
    BY <1>2, <1>5, <2>1 DEF Classified, SavingsMetrics
<1>6. ASSUME NEW k \in DOMAIN flows', k # <<r, Manifest(l)>>
      PROVE  k \in DOMAIN flows /\ flows'[k] = flows[k]
  BY <1>1, <1>6 DEF Put
<1>7. flows'[<<r, Manifest(l)>>] = Flows(job[l].read)
  BY <1>1 DEF Put
<1> HIDE DEF r
<1> QED
  BY <1>2, <1>3, <1>4, <1>5, <1>6, <1>7 DEF RowsOK

LEMMA RowsInit == Init => RowsOK
BY DEF Init, RowsOK, Idle

\* Every step keeps the tables so.
LEMMA RowsStep == Inv /\ RowsOK /\ [Next]_vars => RowsOK'
<1> SUFFICES ASSUME Inv, RowsOK, [Next]_vars
             PROVE  RowsOK'
  OBVIOUS
<1>1. /\ \A l \in Lanes : job'[l].read \subseteq History
      /\ UNCHANGED <<flows, economic>> \/ \E l \in Lanes : FlowStore(l)
  BY ReadsAndWrites
<1>2. CASE UNCHANGED <<flows, economic>>
  BY <1>1, <1>2 DEF RowsOK
<1>3. ASSUME NEW l \in Lanes, FlowStore(l) PROVE RowsOK'
  BY <1>1, <1>3, StoreRows DEF RowsOK
<1> QED
  BY <1>1, <1>2, <1>3

(***************************************************************************)
(* The deposits and withdrawals that economic_events tells of a range are  *)
(* the sums of the range's hourly rows, and of its daily rows, whichever   *)
(* rebuild wrote either table last: rebuildFlowAnalytics stores both in    *)
(* one transaction, and a range that takes an event over from another one  *)
(* leaves its meaning as it was.                                           *)
(***************************************************************************)
THEOREM TablesAgree == Spec => []EconomicMatchesFlows
BY RowsInit, RowsStep, RowsAgree, Invariance, PTL DEF Spec
===============================================================================
