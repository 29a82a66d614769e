----------------------------- MODULE CoverageGaps -----------------------------
(***************************************************************************)
(* verifyCoverage (src/indexer/status.ts) and the two loops it runs,       *)
(* mergeCoverage and coverageGaps (src/indexer/planner.ts).  Every derived *)
(* number of the system is gated on their answer: `complete` means that    *)
(* the list of gaps is empty.  One step of this machine is one iteration   *)
(* of a loop.  The sort of mergeCoverage compares fromBlock only, so rows  *)
(* with the same start may come in any order: MergeStep takes any of them. *)
(***************************************************************************)
EXTENDS BlockRanges, Sequences, Functions

CONSTANTS
  MaxBlock    \* the highest block of a row or of the queried range

ASSUME MaxBlockAssumption == MaxBlock \in Nat

Blocks == 0 .. MaxBlock
Ranges == {r \in [from : Blocks, to : Blocks] : r.from <= r.to}

VARIABLES
  rows,      \* the coverage rows of the chain and scope (constant)
  query,     \* the requested range (constant)
  phase,     \* "merge", "scan" or "done"
  sorted,    \* rows the merge loop has not visited yet
  merged,    \* the merged ranges, a sequence
  pos,       \* index in merged of the scan loop's next range
  cursor,    \* first block the scan has not decided yet
  gaps       \* the gaps found, a sequence

inputs == <<rows, query>>
vars   == <<rows, query, phase, sorted, merged, pos, cursor, gaps>>

Last(s)    == s[Len(s)]

\* The SQL filter of verifyCoverage: rows that intersect the query.
StrictSelected(rs, q) == {r \in rs : r.to > q.from /\ r.from < q.to}   \* fault
Selected(rs, q) == {r \in rs : r.to >= q.from /\ r.from <= q.to}

Init ==
  /\ rows \in SUBSET Ranges
  /\ query \in Ranges
  /\ phase = "merge"
  /\ sorted = Selected(rows, query)
  /\ merged = <<>>
  /\ pos = 1
  /\ cursor = query.from
  /\ gaps = <<>>

-------------------------------------------------------------------------------
(***************************************************************************)
(* mergeCoverage: a row that starts beyond the previous merged range and   *)
(* does not touch it opens a new one, any other row extends it.            *)
(***************************************************************************)
OpensRange(r, m) == m = <<>> \/ r.from > Last(m).to + 1

MergeInto(m, r) ==
  IF OpensRange(r, m)
  THEN Append(m, r)
  ELSE [m EXCEPT ![Len(m)].to = Greater(r.to, Last(m).to)]

MergeStep ==
  /\ phase = "merge"
  /\ \E r \in sorted :
       /\ \A s \in sorted : r.from <= s.from
       /\ sorted' = sorted \ {r}
       /\ merged' = MergeInto(merged, r)
  /\ UNCHANGED <<inputs, phase, pos, cursor, gaps>>

MergeDone ==
  /\ phase = "merge"
  /\ sorted = {}
  /\ phase' = "scan"
  /\ UNCHANGED <<inputs, sorted, merged, pos, cursor, gaps>>

(***************************************************************************)
(* coverageGaps: the scan over the merged ranges.                          *)
(***************************************************************************)
Outside(r) == r.to < cursor \/ r.from > query.to

\* The gap in front of a range that starts after the cursor.  Fault: a gap that
\* runs into the range.
OverlongGapBefore(r) ==
  IF r.from > cursor
  THEN Append(gaps, [from |-> cursor, to |-> r.from])
  ELSE gaps
GapBefore(r) ==
  IF r.from > cursor
  THEN Append(gaps, [from |-> cursor, to |-> r.from - 1])
  ELSE gaps

\* One iteration: `continue` past a range that does not meet what is left of
\* the query (the SQL filter of verifyCoverage leaves none), otherwise report
\* the gap, move the cursor and stop early.
ScanStep ==
  /\ phase = "scan"
  /\ pos <= Len(merged)
  /\ IF Outside(merged[pos])
     THEN pos' = pos + 1 /\ UNCHANGED <<cursor, gaps>>
     ELSE /\ gaps' = GapBefore(merged[pos])
          /\ cursor' = Greater(merged[pos].to + 1, cursor)
          /\ pos' = IF cursor' > query.to THEN Len(merged) + 1 ELSE pos + 1
  /\ UNCHANGED <<inputs, phase, sorted, merged>>

\* The gap behind the last range, and the answer.
ScanEnd ==
  /\ phase = "scan"
  /\ pos > Len(merged)
  /\ gaps' = IF cursor <= query.to
             THEN Append(gaps, [from |-> cursor, to |-> query.to])
             ELSE gaps
  /\ phase' = "done"
  /\ UNCHANGED <<inputs, sorted, merged, pos, cursor>>

Next == MergeStep \/ MergeDone \/ ScanStep \/ ScanEnd

Spec == Init /\ [][Next]_vars

\* What verifyCoverage reports.
Complete == gaps = <<>>

-------------------------------------------------------------------------------
\* Every variable has its type: merged and gaps hold non-empty ranges.
TypeOK ==
  /\ rows \subseteq Ranges
  /\ query \in Ranges
  /\ phase \in {"merge", "scan", "done"}
  /\ sorted \subseteq Ranges
  /\ merged \in Seq(Ranges)
  /\ pos \in Nat \ {0}
  /\ cursor \in Nat
  /\ gaps \in Seq(Ranges)

(***************************************************************************)
(* The answer of verifyCoverage is exact: the reported gaps are the        *)
(* requested blocks no row covers, so `complete` is true exactly when each *)
(* requested block lies in some row.  Both loops and the SQL filter have   *)
(* to be right for this, whatever the overlap and the order of the rows.   *)
(***************************************************************************)
GateIsExact ==
  phase = "done" =>
    /\ BlocksIn(Range(gaps)) = BlocksOf(query) \ BlocksIn(rows)
    /\ Complete <=> BlocksOf(query) \subseteq BlocksIn(rows)

(***************************************************************************)
(* Gaps are reported in order and in maximal pieces: two gaps are          *)
(* separated by at least one covered block, so a caller that rescans them  *)
(* neither rescans a covered block nor sees one gap split in two.          *)
(***************************************************************************)
GapsAreMaximal ==
  \A i, j \in 1 .. Len(gaps) : i < j => gaps[i].to + 1 < gaps[j].from
===============================================================================
