----------------------------- MODULE Publication ------------------------------
(***************************************************************************)
(* What the dashboard publishes of a chain's lifetime history              *)
(* (dashboard-readiness.ts, chain-detail.ts), measured against a goal      *)
(* block that is part of the source.  A page reads the checkpoint and the  *)
(* activity rows by statements that are sent at once and run each at its   *)
(* own moment, decides from them, and reads the list of holders by a later *)
(* statement; whoever writes the tables goes on in between.  Both assets'  *)
(* activity rows are stored by one transaction, so that the rows of a      *)
(* range are there for both or neither.                                    *)
(***************************************************************************)
EXTENDS HolderLedger

CONSTANTS
  GoalBlock,     \* the goal in lifetimeDashboardRanges
  CoverageKind   \* "lifetime", or "window" for the chain that has no history

ASSUME PublicationAssumption ==
  GoalBlock \in Blocks /\ CoverageKind \in {"lifetime", "window"}

VARIABLE page   \* the page: where it is, and what its statements have found

Closed   == [pc |-> "closed", found |-> <<>>]
PageInit == page = Closed

\* The checkpoint's next_block, if there is a checkpoint.
NextBlock == IF covered < Deploy THEN {} ELSE {covered + 1}

\* The row of each asset that reaches furthest; among several the newest, which
\* the model does not know.
Furthest == {a \in activity : \A b \in activity : b.to <= a.to}

\* Fault: a row of another range is shown as the goal's.
FromDeployment(a) == a.from = Deploy
IsGoal(a)         == a.from = Deploy /\ a.to = GoalBlock

-------------------------------------------------------------------------------
(* What is said of the next block and the activity row that were found.    *)

PublishedAssets(row) == IF \E a \in row : IsGoal(a) THEN 2 ELSE 0

GoalPassed(next) == \E n \in next : n > GoalBlock

PublicationStatus(next, row) ==
  IF CoverageKind = "window" /\ GoalPassed(next) THEN "window_only"
  ELSE IF PublishedAssets(row) >= 2 THEN "published"
  ELSE IF GoalPassed(next) THEN "deriving"
  ELSE IF next # {} THEN "indexing" ELSE "not_started"

\* In hundredths of a percent; without a checkpoint it is zero.
Progress(n) ==
  LET total == GoalBlock - Deploy + 1
      done  == IF n > GoalBlock THEN total ELSE n - Deploy
  IN  IF n <= Deploy THEN 0 ELSE (done * 10000) \div total

-------------------------------------------------------------------------------
Has(name) == name \in DOMAIN page.found

\* A statement has found something, and the page goes on at pc.
Finds(name, value, pc) ==
  page' = [pc |-> pc, found |-> Over([n \in {name} |-> value], page.found)]

OpenPage ==
  /\ page.pc = "closed"
  /\ page' = [Closed EXCEPT !.pc = "loading"]

\* readLifetimeDashboard: Promise.all waits for both, in whatever order they ran.
ReadCheckpoint ==
  /\ page.pc = "loading" /\ ~ Has("next")
  /\ Finds("next", NextBlock, "loading")

ReadActivity ==
  /\ page.pc = "loading" /\ ~ Has("row")
  /\ \E row \in IF activity = {} THEN {{}} ELSE {{a} : a \in Furthest} :
       Finds("row", row, "loading")

\* readChainHolders, awaited later: of a chain that was found published, all
\* balances that are not zero; of another one nothing is asked.
StatusFound == PublicationStatus(page.found.next, page.found.row)

HoldersListed == {h \in DOMAIN ledger : ledger[h].balance # 0}

ShowHolders ==
  /\ page.pc = "loading" /\ Has("next") /\ Has("row")
  /\ StatusFound = "published"
  /\ Finds("holders", HoldersListed, "shown")

ShowUnavailable ==
  /\ page.pc = "loading" /\ Has("next") /\ Has("row")
  /\ StatusFound # "published"
  /\ page' = [page EXCEPT !.pc = "shown"]

\* A statement fails, or the page is left.
ClosePage ==
  /\ page.pc # "closed"
  /\ page' = Closed

PageStep ==
  /\ OpenPage \/ ReadCheckpoint \/ ReadActivity \/ ShowHolders \/ ShowUnavailable \/ ClosePage
  /\ UNCHANGED vars

PublishNext == (Next /\ UNCHANGED page) \/ PageStep
PublishSpec == Init /\ PageInit /\ [][PublishNext]_<<vars, page>>

-------------------------------------------------------------------------------
(***************************************************************************)
(* README.md: lifetime metrics are published only after gap-free coverage  *)
(* from deployment to goal.  Of a chain that a page shows as published, as *)
(* being derived, as a window or as complete, the history is covered.  Of  *)
(* a published one the number of holders is the true one at the goal, and, *)
(* unless replays went back, the list of holders is the true one at the    *)
(* end of a stored range that reaches the goal: of the goal itself, unless *)
(* a lane has stored a range behind it, maybe while the page was loading.  *)
(***************************************************************************)
ClaimsCoverage ==
  \/ StatusFound \in {"published", "deriving", "window_only"}
  \/ \E n \in page.found.next : Progress(n) = 10000

PublishedMeansCovered ==
  page.pc = "shown" =>
    /\ ClaimsCoverage => GoalBlock <= covered
    /\ StatusFound = "published" =>
         /\ \A a \in page.found.row :
              IsGoal(a) => a.active = Cardinality(HoldersAt(GoalBlock))
         /\ ordered => \E a \in activity : /\ GoalBlock <= a.to
                                           /\ page.found.holders = HoldersAt(a.to)

(***************************************************************************)
(* docs/reviewer-runbook.md: "Published" means that the lifetime           *)
(* aggregates of both assets are complete, and "Deriving metrics" that     *)
(* their derivation is running.  It does not hold, not even of a page that *)
(* reads all tables at once: when a lane has stored a range behind the     *)
(* goal, only that row is looked at, and a chain whose goal rows are there *)
(* is called deriving for good.                                            *)
(***************************************************************************)
CompleteMeansPublished ==
  (\E a \in activity : IsGoal(a)) =>
    \A f \in Furthest : PublicationStatus(NextBlock, {f}) = "published"
===============================================================================
