----------------------------- MODULE AssetPayload -----------------------------
(***************************************************************************)
(* The public asset payload (src/integration/stablewatch and its route):   *)
(* a projection of the latest savings snapshot, the latest supply snapshot,*)
(* the latest global yield (src/analytics/multichain-yield, history-       *)
(* queries) and the stored prices.  Each metric is available, stale or     *)
(* unavailable.  Consumers are told to "render only metrics with           *)
(* availability available" (docs/stablewatch-integration-handoff.md).      *)
(***************************************************************************)
EXTENDS SnapshotWorker, SupplySnapshot

CONSTANTS
  LifetimeChains,   \* the chains of the history lane
  LifetimeYields    \* the number of chains the all-time yield asks for

ASSUME PayloadAssumption ==
  LifetimeChains \subseteq SavingsChains /\ LifetimeYields = Cardinality(LifetimeChains)

Availability == {"available", "stale", "unavailable"}

If(condition) == IF condition THEN "available" ELSE "unavailable"

StaleIf(metric, stale) == IF metric = "available" /\ stale THEN "stale" ELSE metric

\* The headline of the savings snapshot needs its row only.
TvlUsdp == StaleIf(If(savings.status # "none"), Shown(savings) = "stale")

Prices == {"missing", "fresh", "stale"}

TvlUsdEstimate(price) ==
  StaleIf(If(savings.status # "none" /\ price # "missing"),
          Shown(savings) = "stale" \/ price = "stale")

\* The average over the included chains has a value if there is one.
EstimatedApy == StaleIf(If(DOMAIN savings.included # {}), Shown(savings) = "stale")

\* The supply needs complete coverage.  Fault: it needs its row only.
SupplyRowFound(row) == row.status # "none"
SupplyCovered(row) ==
  /\ Cardinality(DOMAIN row.included) = Cardinality(SupplyChains)
  /\ row.missing = {} /\ row.stale = {} /\ row.failed = {}

GlobalUsdpSupply == StaleIf(If(SupplyCovered(supply)), Shown(supply) = "stale")

-------------------------------------------------------------------------------
\* The verdicts of the intervals of a window, chain by chain, as far as there
\* are any, and aggregateSavingsYieldComponents.
Verdicts == UNION {[S -> {"candidate", "verified", "invalid"}] : S \in SUBSET SavingsChains}

YieldRow(f) ==
  LET included == {c \in DOMAIN f : f[c] = "verified"}
  IN  [included |-> included, missing |-> SavingsChains \ DOMAIN f,
       unreconciled |-> DOMAIN f \ included, status |-> Status(included, SavingsChains)]

YpoSevenDay(row) ==
  If(row.status = "complete" /\ row.missing = {} /\ row.unreconciled = {})

\* lifetime is the intervals of the history lane that started at deployment.
YpoAllTime(lifetime) ==
  If(Cardinality({c \in DOMAIN lifetime : lifetime[c] = "verified"}) = LifetimeYields)

PayloadStatus(row) ==
  IF YpoSevenDay(row) = "available" /\ SupplyCovered(supply) THEN "candidate" ELSE "partial"

-------------------------------------------------------------------------------
\* The tables and the locals of the processes have their types.
TypeOK == SavingsTypeOK /\ SupplyTypeOK

\* Both global sums are what they say (ChainComponents), although they take rows
\* of failed chains from earlier cycles and from the history lane.
SumsComplete ==
  CompleteAndCurrent(savings, SavingsChains) /\ CompleteAndCurrent(supply, SupplyChains)

(***************************************************************************)
(* The sums that readers see never go back to an earlier as_of, whichever  *)
(* of a worker and a command inserts its row last, and however long before *)
(* that it took its as_of.                                                 *)
(***************************************************************************)
SumsGoForward == [][Forward(savings, savings') /\ Forward(supply, supply')]_<<savings, supply>>

(***************************************************************************)
(* A payload that is not "partial" stands on a supply of every chain and   *)
(* on a verified interval of every chain, and an all-time yield on one of  *)
(* every chain with a history, whatever a cycle left out.  No headline is  *)
(* available when one component of its sum has become too old since,       *)
(* though nothing is written when that happens.                            *)
(***************************************************************************)
AvailableMeansWhole ==
  /\ \A f \in Verdicts :
       /\ PayloadStatus(YieldRow(f)) = "candidate" =>
            /\ DOMAIN supply.included = SupplyChains
            /\ \A c \in SavingsChains : c \in DOMAIN f /\ f[c] = "verified"
       /\ DOMAIN f \subseteq LifetimeChains /\ YpoAllTime(f) = "available" =>
            \A c \in LifetimeChains : c \in DOMAIN f /\ f[c] = "verified"
  /\ GlobalUsdpSupply = "available" =>
       /\ DOMAIN supply.included = SupplyChains
       /\ \A c \in SupplyChains : supply.included[c].age <= MaxAge
  /\ \A c \in DOMAIN savings.included : savings.included[c].age > MaxAge =>
       \A price \in Prices : "available" \notin {TvlUsdp, TvlUsdEstimate(price), EstimatedApy}
================================================================================
