----------------------------- MODULE Verification -----------------------------
(***************************************************************************)
(* The command verify (verification/service.ts and evaluators.ts) beside   *)
(* the holder ledger: a suite of statements that are sent at once, each on *)
(* a connection of its own and outside any transaction, then checks and    *)
(* findings, then one transaction that stores the verdict.  It verifies    *)
(* the scope of the lifetime lane, so that both coverage statements read   *)
(* the same rows, each at its own moment.  One history stands for the      *)
(* transfers of both tokens, and beside it are the vault's own events,     *)
(* which say in their words what the vault gained and gave away.           *)
(***************************************************************************)
EXTENDS HolderLedger

CONSTANTS
  Vault,           \* the holder whose balance is the savings' underlying
  VaultEvents,     \* the vault's Deposit, Withdraw and Accrued events
  Transaction,     \* each transfer's transaction hash
  Asked,           \* the ranges verify is called for
  Circumstances,   \* what the tables and RPCs that are not modelled say, see below
  Rounding         \* the tolerance, one base unit

VARIABLES
  verify,   \* the command: where it is, what it has read, and whether nothing
            \* of that was written since it started (history)
  report    \* the reconciliation run stored last

verifyVars == <<verify, report>>

\* boundaries: snapshots of both ends are stored; state: the RPC still answers for
\* them; whole: what convertToAssets says the whole supply is worth is what the
\* vault says it holds; ypo, price, decoding: the outcome of the checks on rate
\* and yield, on the price and on raw logs; implementation: that of the two ends;
\* stale: the age of the checkpoint row; failures, retries: of runs in the range.
Circumstance ==
  [boundaries : BOOLEAN, state : BOOLEAN, whole : BOOLEAN,
   ypo : {"pass", "warn", "fail"}, price : {"pass", "warn", "fail"},
   decoding : {"pass", "fail"}, implementation : {"same", "unknown", "upgraded"},
   stale : BOOLEAN, failures : BOOLEAN, retries : BOOLEAN]

VaultEvent ==
  [at : Blocks, log : Nat, tx : Range(Transaction),
   name : {"Deposit", "Withdraw", "Accrued"}, value : Nat]

\* A transaction is part of one block.  For a range that ends before it starts
\* coverageGaps throws, and with it the suite: nothing is stored.
ASSUME VerificationAssumption ==
  /\ Vault \in Holders /\ Rounding \in Nat
  /\ DOMAIN Transaction = History
  /\ IsFiniteSet(VaultEvents) /\ VaultEvents \subseteq VaultEvent
  /\ \A v, w \in VaultEvents : v.tx = w.tx => v.at = w.at
  /\ \A v \in VaultEvents, e \in History : v.tx = Transaction[e] => v.at = e.at
  /\ Asked \subseteq {r \in [from : Blocks, to : Blocks] : r.from <= r.to}
  /\ Circumstances \subseteq Circumstance

Unverified == [range |-> NoRange, status |-> "none"]
AtRest ==
  [pc |-> "idle", range |-> NoRange, seen |-> <<>>, still |-> TRUE]

VerifyInit == verify = AtRest /\ report = Unverified

-------------------------------------------------------------------------------
\* The statements of the suite, and what each of them finds now.
After(r) == [from |-> r.from + 1, to |-> r.to]

HolderSums ==
  [sum |-> SumFunction([h \in DOMAIN ledger |-> ledger[h].balance]),
   to  |-> {ledger[h].to : h \in DOMAIN ledger}]

\* The events of the vault are stored with the transfers of their block.
VaultEvidence == {v \in VaultEvents : v.at <= covered}

\* readDirectUnderlyingNet: the transfers beside which the vault says nothing.
\* Fault: what the vault does say is counted twice.
AllTransfers(es, vs) == es
Direct(es, vs)       == {e \in es : \A v \in vs : v.tx # Transaction[e]}

Tables(r) ==
  [totals     |-> [transfers |-> Within(Evidence, After(r)), events |-> Within(VaultEvidence, After(r))],
   direct     |-> Direct(Within(Evidence, After(r)), VaultEvidence),
   coverage   |-> Covered(r),
   lifetime   |-> Covered(r),
   checkpoint |-> {covered} \cap Blocks,
   holders    |-> HolderSums]

Statements == DOMAIN Tables(NoRange)

StartVerify ==
  /\ verify.pc = "idle"
  /\ \E r \in Asked : verify' = [AtRest EXCEPT !.pc = "reading", !.range = r]
  /\ UNCHANGED report

Query(s) ==
  /\ verify.pc = "reading" /\ s \notin DOMAIN verify.seen
  /\ verify' = [verify EXCEPT
       !.seen = Over([t \in {s} |-> Tables(verify.range)[t]], verify.seen)]
  /\ UNCHANGED report

-------------------------------------------------------------------------------
\* evaluateCoreReconciliations, on what was read.  An input that may be missing is
\* a set of at most one value.
Known(c, value) == IF c THEN {value} ELSE {}

Compare(expected, actual, tolerance) ==
  CASE expected = {} \/ actual = {} -> "warn"
    [] \E e \in expected, a \in actual : a - e \in -tolerance .. tolerance -> "pass"
    [] OTHER -> "fail"

Delta(start, net, end, tolerance) ==
  Compare({s + n : s \in start, n \in net}, end, tolerance)

\* What the snapshots of a boundary say: the contracts' own state.
Until(b)      == Within(History, [from |-> Deploy, to |-> b])
Supply(b)     == Minted(Until(b)) - Burned(Until(b))
Underlying(b) == Net(Until(b), Vault)
Boundary(e, value) == Known(e.boundaries, value)

SupplyCheck(v, e, complete) ==
  LET es == v.seen.totals.transfers
  IN  Delta(Boundary(e, Supply(v.range.from)), Known(complete, Minted(es) - Burned(es)),
            Boundary(e, Supply(v.range.to)), 0)

\* What the vault says it gained.
Named(vs, name) == Amount({v \in vs : v.name = name})
Declared(vs)    == Named(vs, "Deposit") - Named(vs, "Withdraw") + Named(vs, "Accrued")

\* What transfers to it and from it say; one to itself counts as one to it.
DirectNet(es) ==
  Amount({e \in es : e.to = Vault}) - Amount({e \in es : e.from = Vault /\ e.to # Vault})

UnderlyingCheck(v, e) ==
  Delta(Boundary(e, Underlying(v.range.from)),
        Known(v.seen.coverage, Declared(v.seen.totals.events) + DirectNet(v.seen.direct)),
        Boundary(e, Underlying(v.range.to)), Rounding)

ConvertCheck(e) ==
  IF ~ (e.boundaries /\ e.state) THEN "warn" ELSE IF e.whole THEN "pass" ELSE "fail"

\* Fault: rows of an earlier replay are compared as well.
AnyHolderHistory(v) == v.seen.lifetime /\ v.seen.holders.to # {}
HolderHistory(v)    == v.seen.lifetime /\ \E b \in v.seen.holders.to : b >= v.range.to

HolderCheck(v, e) ==
  Compare(IF HolderHistory(v) THEN Boundary(e, Supply(v.range.to)) ELSE {},
          Known(HolderHistory(v), v.seen.holders.sum), 0)

Checks(v, e) ==
  [usdp    |-> SupplyCheck(v, e, v.seen.lifetime),
   susdp   |-> SupplyCheck(v, e, v.seen.coverage),
   assets  |-> UnderlyingCheck(v, e),
   convert |-> ConvertCheck(e),
   holders |-> HolderCheck(v, e),
   ypo     |-> e.ypo,
   head    |-> Compare({v.range.to}, v.seen.checkpoint, 0)]

\* evaluateHealth.  A scope without a checkpoint row has no age.
Indexed(v) == v.seen.coverage /\ \E b \in v.seen.checkpoint : b >= v.range.to

Findings(v, e) ==
  [checkpoint |-> CASE Indexed(v)               -> "pass"
                    [] v.seen.checkpoint = {}   -> "warn"
                    [] OTHER -> IF e.stale THEN "fail" ELSE "pass",
   coverage   |-> IF v.seen.coverage THEN "pass" ELSE "fail",
   decoding   |-> e.decoding,
   rpc        |-> CASE e.failures /\ ~ Indexed(v) -> "fail"
                    [] OTHER -> IF e.retries THEN "warn" ELSE "pass",
   price      |-> e.price,
   code       |-> CASE ~ e.boundaries \/ e.implementation = "unknown" -> "warn"
                    [] OTHER -> IF e.implementation = "upgraded" THEN "fail" ELSE "pass",
   holders    |-> IF HolderHistory(v) THEN "pass" ELSE "warn"]

\* Fault: gaps are reported as a warning.
CriticalWithoutGaps == {"checkpoint", "decoding", "rpc", "code"}
Critical            == {"checkpoint", "coverage", "decoding", "rpc", "code"}

\* summarizeVerification.
Status(v, e) ==
  LET checks   == Checks(v, e)
      findings == Findings(v, e)
      outcomes == {checks[c] : c \in DOMAIN checks}
      health   == {findings[f] : f \in DOMAIN findings}
  IN  IF "fail" \in outcomes \cup {findings[f] : f \in Critical} THEN "fail"
      ELSE IF {"warn", "fail"} \cap (outcomes \cup health) # {} THEN "warn"
      ELSE "pass"

-------------------------------------------------------------------------------
\* persistVerification: run, results and findings in one transaction.
Persist ==
  /\ verify.pc = "reading" /\ DOMAIN verify.seen = Statements
  /\ \E e \in Circumstances :
       report' = [range |-> verify.range, status |-> Status(verify, e)]
  /\ verify' = AtRest

\* A statement or the transaction fails, or the process dies: nothing is stored.
VerifyFails ==
  /\ verify.pc # "idle"
  /\ verify' = AtRest
  /\ UNCHANGED report

\* Whatever else happens, a command that is reading sees the tables move.
LedgerStep ==
  /\ Next
  /\ verify' = [verify EXCEPT
       !.still = @ /\ (verify.pc = "reading" => covered' = covered /\ ledger' = ledger)]
  /\ UNCHANGED report

VerifyStep ==
  /\ StartVerify \/ (\E s \in Statements : Query(s)) \/ Persist \/ VerifyFails
  /\ UNCHANGED vars

VerifyNext == LedgerStep \/ VerifyStep
VerifySpec == Init /\ VerifyInit /\ [][VerifyNext]_<<vars, verifyVars>>

-------------------------------------------------------------------------------
\* A transaction in which the vault's events do not say what it gained: beside a
\* deposit there is a plain transfer, say, which no statement counts.
Undeclared(r) ==
  \E w \in Within(VaultEvents, After(r)) :
    Declared({v \in VaultEvents : v.tx = w.tx})
      # Net({e \in History : Transaction[e] = w.tx}, Vault)

\* The vault pays itself in a transaction without an event of its own.
PaysItself(r) ==
  \E e \in Direct(Within(History, After(r)), VaultEvents) : e.from = Vault /\ e.to = Vault

(***************************************************************************)
(* README.md: incomplete holder history and unavailable optional evidence  *)
(* remain warnings.  A verification of true data fails for a reason only:  *)
(* a gap, a checkpoint that is not at the end of the range, a check or a   *)
(* finding on evidence of its own, a ledger replayed out of order, tables  *)
(* that were written between its statements, or a transaction of the range *)
(* in which the vault's events and its transfers do not go together.       *)
(***************************************************************************)
ReasonToFail(v, e) ==
  \/ covered # v.range.to
  \/ ~ ordered
  \/ ~ v.still
  \/ e.ypo = "fail" \/ e.decoding = "fail"
  \/ e.boundaries /\ e.implementation = "upgraded"
  \/ e.boundaries /\ e.state /\ ~ e.whole
  \/ Undeclared(v.range) \/ PaysItself(v.range)

FailuresExplained ==
  DOMAIN verify.seen = Statements =>
    \A e \in Circumstances : ReasonToFail(verify, e) \/ Status(verify, e) # "fail"

(***************************************************************************)
(* However its statements fall between those of a lane, a verdict that is  *)
(* not a failure was given for covered blocks, and one without a warning   *)
(* for a range that a stored replay reaches.                               *)
(***************************************************************************)
PassMeansCovered ==
  /\ report.status \in {"pass", "warn"} => report.range.to <= covered
  /\ report.status = "pass" => \E a \in activity : a.to >= report.range.to
===============================================================================
