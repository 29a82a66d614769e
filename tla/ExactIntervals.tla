---------------------------- MODULE ExactIntervals ----------------------------
(***************************************************************************)
(* What the derivation of intervals promises to their readers, without     *)
(* lanes, scopes, locks or statements: a range has no derived numbers, or  *)
(* has the numbers of the final chain.  Flow rows may be written again,    *)
(* with the same contents; a yield is written once, and only its verdict   *)
(* changes.                                                                *)
(***************************************************************************)
CONSTANTS
  Intervals,   \* ranges that may be derived
  Manifests,   \* the manifest versions under which flow rows are kept
  TrueFlows,   \* range -> its flow rows, from the final chain
  TrueYield    \* range -> its accrued interest and native yield

VARIABLES
  published,   \* <<range, manifest>> -> its flow rows
  earned       \* range -> [yield, verdict]

exactVars == <<published, earned>>

ExactInit == published = <<>> /\ earned = <<>>

Put(f, x, v) == [y \in DOMAIN f \cup {x} |-> IF y = x THEN v ELSE f[y]]

PublishFlows(r, m) ==
  /\ published' = Put(published, <<r, m>>, TrueFlows[r])
  /\ UNCHANGED earned

PublishYield(r) ==
  /\ r \notin DOMAIN earned
  /\ earned' = Put(earned, r, [yield |-> TrueYield[r], verdict |-> "candidate"])
  /\ UNCHANGED published

Judge(r) ==
  /\ r \in DOMAIN earned
  /\ \E verdict \in {"verified", "invalid"} :
       earned' = Put(earned, r, [yield |-> earned[r].yield, verdict |-> verdict])
  /\ UNCHANGED published

ExactNext ==
  \E r \in Intervals :
    \/ \E m \in Manifests : PublishFlows(r, m)
    \/ PublishYield(r)
    \/ Judge(r)

ExactSpec == ExactInit /\ [][ExactNext]_exactVars
===============================================================================
