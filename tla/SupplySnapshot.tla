---------------------------- MODULE SupplySnapshot ----------------------------
(***************************************************************************)
(* captureGlobalUsdpSupply (src/analytics/usdp-supply), called by the      *)
(* snapshot worker and by the commands snapshot-all and snapshot-usdp,     *)
(* which nothing keeps apart: as_of is taken first, the supply of every    *)
(* chain is captured beside the others, each over its list of RPC URLs,    *)
(* and the sum of what is recent and aligned with as_of is published.      *)
(***************************************************************************)
EXTENDS ChainComponents

CONSTANTS
  SupplyChains,   \* usdpSupplyAdapters
  Urls,           \* chain -> number of its RPC URLs
  Finalized,      \* chain -> components its `finalized` tag may name
  Confirmed,      \* chain -> components FINALITY_LAG blocks behind its head
  Skew,           \* USDP_SUPPLY_ALIGNMENT_MAX_SKEW_SECONDS
  Callers         \* processes

ASSUME SupplyAssumption ==
  /\ SupplyChains \subseteq Chains
  /\ Urls \in [SupplyChains -> Nat \ {0}]
  /\ \A f \in {Finalized, Confirmed} : f \in [SupplyChains -> SUBSET Component]
  /\ Skew \in Nat /\ Skew < Horizon

VARIABLES
  supply,   \* global_usdp_supply_snapshots: the row with the last as_of
  call      \* each process: where it is and its locals

supplyVars == <<supply, call>>

NoCall ==
  [pc |-> "off", asOf |-> 0, waiting |-> {}, tries |-> [c \in SupplyChains |-> 0],
   read |-> <<>>, failed |-> {}, row |-> NoRow]

SupplyInit ==
  /\ supply = NoRow
  /\ call = [p \in Callers |-> NoCall]

\* Bound: the captures, which have timeouts, do not take as long as Horizon.
SupplyTick ==
  /\ \A p \in Callers : call[p].pc = "capture" => call[p].asOf < Horizon
  /\ supply' = OlderRow(supply)
  /\ call' = [p \in Callers |->
                [call[p] EXCEPT !.asOf = IF call[p].pc = "capture" THEN Older(@) ELSE @,
                                !.read = OlderComponents(@), !.row = OlderRow(@)]]

-------------------------------------------------------------------------------
StartSupply(p) ==
  /\ call[p].pc = "off"
  /\ call' = [call EXCEPT ![p] = [NoCall EXCEPT !.pc = "capture", !.waiting = SupplyChains]]
  /\ UNCHANGED supply

Distance(i, j) == IF i < j THEN j - i ELSE i - j

\* isBlockTimestampOutsideAlignment, and the block a capture reads: the
\* finalized one, unless it is too far from as_of or cannot be had.
OutsideAlignment(age, asOf) == Distance(age, asOf) > Skew

Readable(c, asOf) ==
  {k \in Finalized[c] : ~ OutsideAlignment(k.age, asOf)} \cup Confirmed[c]

CaptureSupply(p, c) ==
  /\ call[p].pc = "capture" /\ c \in call[p].waiting
  /\ \E component \in Readable(c, call[p].asOf) :
       call' = [call EXCEPT ![p].waiting = @ \ {c}, ![p].tries[c] = 0,
                            ![p].read = With(@, c, component)]
  /\ UNCHANGED supply

\* runWithSupplyRpcFailover: behind the last URL the chain has failed.
HasUrl(c, tries) == tries < Urls[c]

CaptureSupplyFails(p, c) ==
  /\ call[p].pc = "capture" /\ c \in call[p].waiting
  /\ call' = IF HasUrl(c, call[p].tries[c] + 1)
             THEN [call EXCEPT ![p].tries[c] = @ + 1]
             ELSE [call EXCEPT ![p].waiting = @ \ {c}, ![p].tries[c] = 0,
                               ![p].failed = @ \cup {c}]
  /\ UNCHANGED supply

-------------------------------------------------------------------------------
\* aggregateUsdpSupplyComponents: all is measured from as_of.  Fault: a block
\* that is later than as_of is never misaligned.
Behind(age, asOf) == age > asOf /\ age - asOf > Skew
Misaligned(age, asOf) == Distance(age, asOf) > Skew

SupplyStale(f, asOf) ==
  {c \in DOMAIN f : f[c].age > MaxAge + asOf \/ Misaligned(f[c].age, asOf)}

\* Fault: only the chains whose capture threw have failed.
Thrown(f, failed) == failed
Failed(f, failed) == failed \cup {c \in DOMAIN f : ~ f[c].valid}

Verified(f) == {c \in DOMAIN f : f[c].valid}

SupplyRow(f, failed, asOf) ==
  LET included == Verified(f) \ SupplyStale(f, asOf)
  IN  [asOf |-> asOf, included |-> Among(f, included), stale |-> SupplyStale(f, asOf),
       missing |-> SupplyChains \ (DOMAIN f \cup Failed(f, failed)), failed |-> Failed(f, failed),
       status |-> Status(included, SupplyChains)]

AggregateSupply(p) ==
  /\ call[p].pc = "capture" /\ call[p].waiting = {}
  /\ call' = [call EXCEPT ![p] =
                [NoCall EXCEPT !.pc = "store",
                               !.row = SupplyRow(call[p].read, call[p].failed, call[p].asOf)]]
  /\ UNCHANGED supply

StoreSupply(p) ==
  /\ call[p].pc = "store"
  /\ supply' = Latest(supply, call[p].row)
  /\ call' = [call EXCEPT ![p] = NoCall]

\* A database error, or the end of the process.
SupplyFails(p) ==
  /\ call[p].pc # "off"
  /\ call' = [call EXCEPT ![p] = NoCall]
  /\ UNCHANGED supply

SupplyNext ==
  \/ \E p \in Callers :
       \/ StartSupply(p) \/ AggregateSupply(p) \/ StoreSupply(p) \/ SupplyFails(p)
       \/ \E c \in SupplyChains : CaptureSupply(p, c) \/ CaptureSupplyFails(p, c)
  \/ SupplyTick

SupplySpec == SupplyInit /\ [][SupplyNext]_supplyVars

-------------------------------------------------------------------------------
\* The table and the locals have their types; no URL behind the last is tried.
SupplyTypeOK ==
  /\ supply \in Row
  /\ call \in [Callers ->
       [pc : {"off", "capture", "store"}, asOf : Ages, waiting : SUBSET SupplyChains,
        tries : [SupplyChains -> Nat], read : Components(SupplyChains),
        failed : SUBSET SupplyChains, row : Row]]
  /\ \A p \in Callers : \A c \in SupplyChains : call[p].tries[c] < Urls[c]

\* No chain vanishes from it, those with other metadata included: it is in the
\* sum, or named as stale, missing or failed, and never both.
SupplyChainsNamed ==
  supply.status # "none" =>
    LET excluded == supply.stale \cup supply.missing \cup supply.failed
    IN  /\ DOMAIN supply.included \cup excluded = SupplyChains
        /\ DOMAIN supply.included \cap excluded = {}

(***************************************************************************)
(* The chains of a supply sum are aligned: no two of their blocks are      *)
(* further apart than twice the skew, although the captures take time and  *)
(* providers lag (docs/methodology.md: "must fall inside the configured    *)
(* UTC alignment skew").                                                   *)
(***************************************************************************)
SupplyAligned ==
  LET age(c) == supply.included[c].age
  IN  \A c, d \in DOMAIN supply.included :
        Horizon \notin {age(c), age(d)} => Distance(age(c), age(d)) <= 2 * Skew
================================================================================
