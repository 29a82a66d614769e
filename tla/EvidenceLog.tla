----------------------------- MODULE EvidenceLog -----------------------------
(***************************************************************************)
(* What ingestion promises to the rest of the system, without processes,   *)
(* batches, chunks or retries: the evidence table grows by whole ranges.   *)
(* A range becomes covered in the same step in which every tracked log of  *)
(* it is on record, nothing covered or recorded is ever taken back, and a  *)
(* log is on record only if its block is covered.                          *)
(***************************************************************************)
EXTENDS Integers

CONSTANTS
  Tracked,    \* the blocks that hold a tracked log
  LastBlock   \* the highest block

VARIABLES
  covered,    \* blocks some coverage row covers
  recorded    \* tracked logs that are stored, and decoded where they can be

evidenceVars == <<covered, recorded>>

EvidenceInit == covered = {} /\ recorded = {}

Commit(from, to) ==
  /\ covered' = covered \cup (from .. to)
  /\ recorded' = recorded \cup (Tracked \cap (from .. to))

EvidenceNext == \E from, to \in 1 .. LastBlock : from <= to /\ Commit(from, to)

EvidenceSpec == EvidenceInit /\ [][EvidenceNext]_evidenceVars
==============================================================================
