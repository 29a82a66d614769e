---------------------------- MODULE ChainComponents ----------------------------
(***************************************************************************)
(* What the two global snapshots of the current state have in common       *)
(* (src/analytics/multichain-snapshots, usdp-supply and their readers):    *)
(* components, which are the state of one chain at one block, and rows,    *)
(* which sum the components of several chains at a time called as_of.      *)
(*                                                                         *)
(* A block is known by its age, and time passes by everything getting      *)
(* older.  What lies behind Horizon is too old for every purpose and all   *)
(* the same, so that nothing bounds the time or the number of snapshots.   *)
(***************************************************************************)
EXTENDS Naturals, FiniteSets

CONSTANTS
  Chains,   \* the chains of the registry
  MaxAge,   \* GLOBAL_SNAPSHOT_MAX_AGE_SECONDS
  Horizon   \* bound: the age behind which ages are not told apart

ASSUME AgeAssumption ==
  /\ IsFiniteSet(Chains)
  /\ MaxAge \in Nat /\ Horizon \in Nat /\ MaxAge < Horizon

Ages == 0 .. Horizon

\* A component is valid if the vault names the expected asset, or the token
\* the expected metadata.
Component     == [age : Ages, valid : BOOLEAN]
Components(S) == UNION {[T -> Component] : T \in SUBSET S}

Row ==
  [asOf : Ages, included : Components(Chains), stale : SUBSET Chains, missing : SUBSET Chains,
   failed : SUBSET Chains, status : {"none", "complete", "partial", "unavailable"}]

NoRow ==
  [asOf |-> Horizon, included |-> <<>>, stale |-> {}, missing |-> {}, failed |-> {},
   status |-> "none"]

Older(age) == IF age = Horizon THEN Horizon ELSE age + 1
OlderComponents(f) == [c \in DOMAIN f |-> [f[c] EXCEPT !.age = Older(f[c].age)]]
OlderRow(row) == [row EXCEPT !.asOf = Older(row.asOf), !.included = OlderComponents(row.included)]

With(f, c, component) == [d \in DOMAIN f \cup {c} |-> IF d = c THEN component ELSE f[d]]
Among(f, S) == [c \in S |-> f[c]]

-------------------------------------------------------------------------------
\* The status of a row counts the components it includes.
Status(included, expected) ==
  IF Cardinality(included) = Cardinality(expected) THEN "complete"
  ELSE IF included # {} THEN "partial" ELSE "unavailable"

\* Readers take the row with the last as_of, and of two the one created last.
\* Fault: the one created last.
LastCreated(old, new) == new
Latest(old, new) == IF old.asOf < new.asOf THEN old ELSE new

\* A reader goes by the age the oldest component has by now.
Outdated(row) ==
  \/ DOMAIN row.included = {}
  \/ \E c \in DOMAIN row.included : row.included[c].age > MaxAge

Shown(row) ==
  IF row.status = "none" THEN "unavailable" ELSE IF Outdated(row) THEN "stale" ELSE row.status

-------------------------------------------------------------------------------
(***************************************************************************)
(* "Partial data is never presented as complete" (README.md): a sum that   *)
(* is shown as complete has one valid component of every expected chain,   *)
(* none older than MaxAge by now, however long ago it was put together.    *)
(***************************************************************************)
CompleteAndCurrent(row, expected) ==
  Shown(row) = "complete" =>
    /\ DOMAIN row.included = expected
    /\ \A c \in expected : row.included[c].valid /\ row.included[c].age <= MaxAge

\* Either time passes, or what readers see does not go back to an earlier as_of.
Forward(old, new) == new = OlderRow(old) \/ new.asOf <= old.asOf
================================================================================
