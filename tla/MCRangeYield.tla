----------------------------- MODULE MCRangeYield -----------------------------
(***************************************************************************)
(* TLC instances of RangeYield: all sets of up to two proper intervals.     *)
(***************************************************************************)
EXTENDS RangeYield

\* Proper intervals that are all usable, for the statements about tilings.
Proper  == {r \in Intervals : r.status = "verified" /\ r.start < r.end}
UpToTwo == {{a, b} : a, b \in Proper}
===============================================================================
