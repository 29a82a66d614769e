----------------------------- MODULE FlowAnalytics -----------------------------
(***************************************************************************)
(* The pure part of flow analytics (src/analytics/economic-events.ts):     *)
(* what a decoded event means, and the hourly and daily rows that          *)
(* aggregateNativeFlows makes of a set of events.                          *)
(***************************************************************************)
EXTENDS BlockRanges, FiniteSets, FiniteSetsExt, Functions

CONSTANTS
  HourLength,   \* blocks per hour
  DayLength     \* blocks per day

ASSUME BucketAssumption == HourLength \in Nat \ {0} /\ DayLength \in Nat \ {0}

(***************************************************************************)
(* A decoded event: its block `at`, its index `log`, the role of the       *)
(* contract, the name, the amount its classification reads, the primary    *)
(* participant, and for a Swap the side on which USDp is, which the        *)
(* contract lets be one side at most.                                      *)
(***************************************************************************)
Event(Blocks, Amounts, People) ==
  [at : Blocks, log : Nat, role : STRING, name : STRING, amount : Amounts,
   who : People, usdp : {"in", "out", "neither"}]

\* classifyEvent: what an event means; "none" is an event without a meaning.
SavingsMeaning(name) ==
  CASE name = "Deposit"        -> "susdp_deposited"
    [] name = "Withdraw"       -> "susdp_withdrawn"
    [] name = "Accrued"        -> "susdp_accrued"
    [] name = "RateUpdated"    -> "susdp_rate_updated"
    [] name = "MaxRateUpdated" -> "susdp_max_rate_updated"
    [] name = "ToggledPause"   -> "susdp_pause_toggled"
    [] name = "Transfer"       -> "susdp_transfer"
    [] OTHER                   -> "none"

SwapMeaning(usdp) ==
  CASE usdp = "out" -> "usdp_issued"
    [] usdp = "in"  -> "usdp_burned_for_collateral"
    [] OTHER        -> "parallelizer_swap_other"

Meaning(e) ==
  CASE e.role = "susdp-savings"                               -> SavingsMeaning(e.name)
    [] e.role = "usdp-token" /\ e.name = "Transfer"           -> "usdp_transfer"
    [] e.role = "usdp-parallelizer" /\ e.name = "Swap"        -> SwapMeaning(e.usdp)
    [] e.role = "usdp-parallelizer" /\ e.name = "Redeemed"    -> "usdp_redeemed"
    [] OTHER                                                  -> "none"

\* classifyProtocolTransactions: the events that get a row in economic_events.
Classified(es) == {e \in es : Meaning(e) # "none"}

SavingsMetrics == {"susdp_deposited", "susdp_withdrawn"}
NativeFlowMetrics ==
  SavingsMetrics \cup {"usdp_issued", "usdp_burned_for_collateral", "usdp_redeemed"}

\* The amounts of a set of events, each counted once.
Total(es) == SumFunction([e \in es |-> e.amount])

\* The bucket of a block.
BucketStart(e, granularity) ==
  e.at \div (IF granularity = "hour" THEN HourLength ELSE DayLength)

\* One bucket of one metric.  Fault: the buckets of a metric share one sum.
SameMetric(e, f, granularity) == Meaning(f) = Meaning(e)
SameBucket(e, f, granularity) ==
  Meaning(f) = Meaning(e) /\ BucketStart(f, granularity) = BucketStart(e, granularity)

FlowRow(es, granularity, e) ==
  LET same == {f \in es : SameBucket(e, f, granularity)}
  IN  [granularity |-> granularity, bucket |-> BucketStart(e, granularity),
       metric |-> Meaning(e), amount |-> Total(same), count |-> Cardinality(same),
       participants |-> Cardinality({f.who : f \in same})]

\* aggregateNativeFlows: a row for each bucket and metric that occurs.
NativeFlows(es, granularity) ==
  {FlowRow(es, granularity, e) : e \in {f \in es : Meaning(f) \in NativeFlowMetrics}}

Flows(es) == NativeFlows(es, "hour") \cup NativeFlows(es, "day")
================================================================================
