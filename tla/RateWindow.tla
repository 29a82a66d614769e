------------------------------ MODULE RateWindow ------------------------------
(***************************************************************************)
(* How a yield interval is derived and then reconciled: the sum that       *)
(* calculateSavingsYieldForRange (src/analytics/multichain-yield.ts)       *)
(* stores, and reconcileSavingsYield (src/analytics/yield-reconciliation)  *)
(* with reconcileConstantRateWindow and integrateSegmentedRateWindow, one  *)
(* step per event of their loop.                                           *)
(*                                                                         *)
(* The vault is external.  As the code reads it, every operation first     *)
(* accrues (an Accrued event in front of its own), and only that moves     *)
(* lastUpdate.  Consecutive blocks may carry the same timestamp.           *)
(***************************************************************************)
EXTENDS SavingsMath, FiniteSets, FiniteSetsExt, Functions

CONSTANTS
  Amounts,     \* amounts of deposits and withdrawals, and first balances
  Rates,       \* rates per second
  Waits,       \* seconds between consecutive blocks
  LogGaps,     \* how many logs of other contracts may come first
  LastBlock,   \* bound on the blocks of an interval
  MaxEvents,   \* bound on the events of an interval
  MaxLost      \* how many events the stored evidence may lack

\* What the parameters have to be.
ParametersOK ==
  /\ Base \in Nat \ {0}
  /\ Amounts \cup Rates \cup Waits \cup LogGaps \subseteq Nat
  /\ {LastBlock, MaxEvents, MaxLost} \subseteq Nat

ASSUME ParametersAssumption == ParametersOK

VARIABLES
  deriving,  \* "vault", "constant", "segmented", "verified", "invalid" or "failed"
  vault,     \* the contract: [actual, rate, last, now]
  block,     \* the block being produced
  events,    \* what the vault has emitted
  start,     \* the boundary snapshot before the first of these blocks
  finish,    \* the boundary snapshot behind the last one
  seen,      \* the events among the stored evidence
  row,       \* the stored interval: [accrued, native]
  todo,      \* events the integration has not reached
  fold       \* the locals of the integration

evidence == <<vault, block, events, start>>
stored   == <<finish, seen, row>>
windowVars     == <<deriving, evidence, stored, todo, fold>>

Names == {"Accrued", "Deposit", "Withdraw", "RateUpdated"}

\* A boundary snapshot: what the chain answers at a block, totalAssets() included.
Snapshot(v) ==
  [actual |-> v.actual, rate |-> v.rate, last |-> v.last, time |-> v.now,
   total  |-> UpdatedAssets(v.actual, v.rate, v.now - v.last)]

\* The snapshot before anything is known.
Nowhere == [actual |-> 0, rate |-> 0, last |-> 0, time |-> 0, total |-> 0]

WindowInit ==
  /\ deriving = "vault"
  /\ vault \in [actual : Amounts, rate : Rates, last : {0}, now : Waits]
  /\ block = 0
  /\ events = {}
  /\ start = Snapshot(vault)
  /\ finish = Nowhere
  /\ seen = {}
  /\ row = [accrued |-> 0, native |-> 0]
  /\ todo = {}
  /\ fold = [actual |-> 0, rate |-> 0, last |-> 0, ypo |-> 0, predicted |-> 0, emitted |-> 0]

-------------------------------------------------------------------------------
NextBlock ==
  /\ deriving = "vault"
  /\ block < LastBlock
  /\ block' = block + 1
  /\ \E wait \in Waits : vault' = [vault EXCEPT !.now = @ + wait]
  /\ UNCHANGED <<deriving, events, start, stored, todo, fold>>

\* The log indices the next event may get: logs of other contracts may lie in
\* front of the first one.
NextLogs ==
  LET used == {e.log : e \in {f \in events : f.block = block}}
  IN  IF used = {} THEN LogGaps ELSE {1 + Max(used)}

Emitted(log, name, value) ==
  [block |-> block, time |-> vault.now, log |-> log, name |-> name, value |-> value]

\* One operation of the vault: it accrues, then it does what it is called for.
Operate(name, value) ==
  LET interest == UpdatedAssets(vault.actual, vault.rate, vault.now - vault.last) - vault.actual
      accrued  == vault.actual + interest
  IN  /\ deriving = "vault"
      /\ block > 0
      /\ Cardinality(events) + 2 <= MaxEvents
      /\ name = "Withdraw" => value <= accrued
      /\ vault' = [actual |-> accrued + (CASE name = "Deposit"  -> value
                                           [] name = "Withdraw" -> - value
                                           [] OTHER             -> 0),
                   rate   |-> IF name = "RateUpdated" THEN value ELSE vault.rate,
                   last   |-> vault.now,
                   now    |-> vault.now]
      /\ \E log \in NextLogs :
           events' = events \cup {Emitted(log, "Accrued", interest), Emitted(log + 1, name, value)}
      /\ UNCHANGED <<deriving, block, start, stored, todo, fold>>

VaultStep ==
  \/ \E x \in Amounts : Operate("Deposit", x) \/ Operate("Withdraw", x)
  \/ \E r \in Rates : Operate("RateUpdated", r)

-------------------------------------------------------------------------------
Named(es, name)  == {e \in es : e.name = name}
Values(es, name) == SumFunction([e \in Named(es, name) |-> e.value])

\* The interval of two boundary snapshots and the events between them.
DerivedRow(from, to, es) ==
  [accrued |-> Values(es, "Accrued"),
   native  |-> NativeYpo(Values(es, "Accrued"), PendingYield(from.total, from.actual),
                         PendingYield(to.total, to.actual))]

\* calculateSavingsYieldForRange.  A negative yield throws and stores nothing.
Derive ==
  /\ deriving = "vault"
  /\ block > 0
  /\ \E lost \in SUBSET events :
       /\ Cardinality(lost) <= MaxLost
       /\ seen' = events \ lost
  /\ finish' = Snapshot(vault)
  /\ row' = DerivedRow(start, finish', seen')
  /\ deriving' = IF row'.native < 0 THEN "failed" ELSE "constant"
  /\ UNCHANGED <<evidence, todo, fold>>

\* reconcileConstantRateWindow: nothing has moved between the boundaries.
StableBasis ==
  /\ start.actual = finish.actual
  /\ start.rate = finish.rate
  /\ start.last = finish.last
  /\ row.accrued = 0

\* Both totals, and the yield between them, are what the formula predicts.
ConstantRateExact ==
  LET Predicted(s) == UpdatedAssets(s.actual, s.rate, s.time - s.last)
  IN  /\ start.last <= start.time /\ start.time <= finish.time
      /\ Predicted(start) = start.total
      /\ Predicted(finish) = finish.total
      /\ Predicted(finish) - Predicted(start) = row.native

ConstantRate ==
  /\ deriving = "constant"
  /\ StableBasis
  /\ deriving' = IF ConstantRateExact THEN "verified" ELSE "invalid"
  /\ UNCHANGED <<evidence, stored, todo, fold>>

\* Otherwise the events are integrated, from what is pending at the start.
StartFold(s) ==
  [actual |-> s.actual, rate |-> s.rate, last |-> s.last,
   ypo |-> - PendingYield(s.total, s.actual), predicted |-> 0, emitted |-> 0]

Segment ==
  /\ deriving = "constant"
  /\ ~ StableBasis
  /\ deriving' = "segmented"
  /\ todo' = seen
  /\ fold' = StartFold(start)
  /\ UNCHANGED <<evidence, stored>>

-------------------------------------------------------------------------------
\* The order of the integration: by timestamp and log index; the sort is
\* stable, so equal events stay in the order of the query, by block.  Fault:
\* by log index alone.
ByLog(e, f) == e.log < f.log \/ (e.log = f.log /\ e.block < f.block)
Before(e, f) ==
  \/ e.time < f.time
  \/ e.time = f.time /\ e.log < f.log
  \/ e.time = f.time /\ e.log = f.log /\ e.block < f.block

Reached(e) ==
  /\ deriving = "segmented"
  /\ \A f \in todo \ {e} : Before(e, f)

OutOfOrder(e) == e.time < start.time \/ e.time > finish.time \/ e.time < fold.last

\* A withdrawal exceeds the balance.
Overdrawn(e) == e.name = "Withdraw" /\ e.value > fold.actual

\* An Accrued event: what the formula predicts for it and what it says.  Fault:
\* the clock of the last accrual is not moved.
AccruedUnmoved(f, e) ==
  LET predicted == UpdatedAssets(f.actual, f.rate, e.time - f.last) - f.actual
  IN  [f EXCEPT !.predicted = @ + predicted, !.emitted = @ + e.value, !.ypo = @ + predicted,
                !.actual = @ + e.value]
Accrued(f, e) ==
  LET predicted == UpdatedAssets(f.actual, f.rate, e.time - f.last) - f.actual
  IN  [f EXCEPT !.predicted = @ + predicted, !.emitted = @ + e.value, !.ypo = @ + predicted,
                !.actual = @ + e.value, !.last = e.time]

Folded(f, e) ==
  CASE e.name = "Accrued"  -> Accrued(f, e)
    [] e.name = "Deposit"  -> [f EXCEPT !.actual = @ + e.value]
    [] e.name = "Withdraw" -> [f EXCEPT !.actual = @ - e.value]
    [] OTHER               -> [f EXCEPT !.rate = e.value]

Integrate(e) ==
  /\ Reached(e)
  /\ ~ OutOfOrder(e)
  /\ ~ Overdrawn(e)
  /\ todo' = todo \ {e}
  /\ fold' = Folded(fold, e)
  /\ UNCHANGED <<deriving, evidence, stored>>

\* The loop throws: the interval stays a candidate and the command fails.
Throw(e) ==
  /\ Reached(e)
  /\ OutOfOrder(e) \/ Overdrawn(e)
  /\ deriving' = "failed"
  /\ UNCHANGED <<evidence, stored, todo, fold>>

PredictedTotal == UpdatedAssets(fold.actual, fold.rate, finish.time - fold.last)

\* The yield the integration arrives at.
IntegratedYpo == fold.ypo + PendingYield(PredictedTotal, fold.actual)

\* What decides: the state at the end and the sum of the interest, not the yield
\* itself.  Fault: the balance and the total are not compared.
RateExact == fold.rate = finish.rate /\ fold.emitted = row.accrued
StateExact ==
  /\ PredictedTotal = finish.total
  /\ fold.actual = finish.actual
  /\ fold.rate = finish.rate
  /\ fold.emitted = row.accrued

Judge ==
  /\ deriving = "segmented"
  /\ todo = {}
  /\ deriving' = IF StateExact THEN "verified" ELSE "invalid"
  /\ UNCHANGED <<evidence, stored, todo, fold>>

WindowNext ==
  \/ NextBlock \/ VaultStep \/ Derive
  \/ ConstantRate \/ Segment \/ Judge
  \/ \E e \in todo : Integrate(e) \/ Throw(e)

WindowSpec == WindowInit /\ [][WindowNext]_windowVars

-------------------------------------------------------------------------------
\* What the vault has really earned: the growth of its total that nobody paid in.
EarnedYpo ==
  finish.total - start.total - Values(events, "Deposit") + Values(events, "Withdraw")

(***************************************************************************)
(* An interval is never verified with a wrong yield, although the verdict  *)
(* does not compare the yield: also when blocks share a timestamp and      *)
(* their events are integrated out of order, and when an event is missing  *)
(* among the evidence.                                                     *)
(***************************************************************************)
VerifiedMeansEarned == deriving = "verified" => row.native = EarnedYpo

\* Blocks that hold events are told apart by their timestamps.
DistinctTimes == \A e, f \in events : e.block # f.block => e.time # f.time

(***************************************************************************)
(* A true history is recognised: with all events among the evidence, and   *)
(* blocks that differ in their timestamps, no event is refused and the     *)
(* interval is verified.                                                   *)
(***************************************************************************)
TrueHistoryVerified ==
  seen = events /\ DistinctTimes =>
    deriving \notin {"failed", "invalid"}

(***************************************************************************)
(* With them the integration arrives at the stored yield itself, not only  *)
(* at the state of the vault: the reconciliation delta is zero.            *)
(***************************************************************************)
TrueHistoryHasNoDelta ==
  seen = events /\ DistinctTimes /\ deriving = "segmented" /\ todo = {} => IntegratedYpo = row.native
===============================================================================
