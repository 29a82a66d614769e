-------------------------- MODULE CoverageGapsProofs --------------------------
(***************************************************************************)
(* The answer of verifyCoverage is exact for every set of rows and every   *)
(* requested range.  The invariant of the merge loop says that the merged  *)
(* ranges are ordered, separated, and cover with the rows still to visit   *)
(* exactly what the selected rows cover; the invariant of the scan says    *)
(* that the gaps are exact for the blocks before the cursor.               *)
(***************************************************************************)
EXTENDS CoverageGaps, TLAPS

Holds(r, b)   == r.from <= b /\ b <= r.to
InSelected(b) == \E r \in Selected(rows, query) : Holds(r, b)
InSorted(b)   == \E r \in sorted : Holds(r, b)
InMerged(b)   == \E i \in 1 .. Len(merged) : Holds(merged[i], b)
InGaps(b)     == \E k \in 1 .. Len(gaps) : Holds(gaps[k], b)

Separated(s) == \A i, j \in 1 .. Len(s) : i < j => s[i].to + 1 < s[j].from

MergeInv ==
  /\ sorted \subseteq Selected(rows, query)
  /\ phase # "merge" => sorted = {}
  /\ Separated(merged)
  /\ \A i \in 1 .. Len(merged) : \A r \in sorted : merged[i].from <= r.from
  /\ \A b \in Nat : InSelected(b) <=> InMerged(b) \/ InSorted(b)

ScanInv ==
  /\ query.from <= cursor
  /\ phase = "merge" => pos = 1 /\ cursor = query.from /\ gaps = <<>>
  /\ \A i \in 1 .. Len(merged) :
       i < pos => merged[i].to < cursor \/ merged[i].from > query.to
  /\ \A k \in 1 .. Len(gaps) :
       /\ query.from <= gaps[k].from
       /\ gaps[k].to <= query.to
       /\ phase # "done" => gaps[k].to + 1 < cursor
  /\ Separated(gaps)
  /\ \A b \in Nat :
       Holds(query, b) /\ (b < cursor \/ phase = "done") => (InGaps(b) <=> ~ InMerged(b))

IInv == TypeOK /\ MergeInv /\ ScanInv

-------------------------------------------------------------------------------
\* The bounds of a range are block numbers, in order.
LEMMA RangeFields ==
  ASSUME NEW r \in Ranges
  PROVE  r.from \in Nat /\ r.to \in Nat /\ r.from <= r.to
BY MaxBlockAssumption DEF Ranges, Blocks

\* What is where after an append.
LEMMA AppendElements ==
  ASSUME NEW s \in Seq(Ranges), NEW r \in Ranges
  PROVE  /\ Append(s, r) \in Seq(Ranges)
         /\ Len(s) \in Nat /\ Len(Append(s, r)) = Len(s) + 1
         /\ Append(s, r)[Len(s) + 1] = r
         /\ \A i \in 1 .. Len(s) : Append(s, r)[i] = s[i]
OBVIOUS

\* What appending a range to an ordered, separated list keeps.
LEMMA AppendSeparated ==
  ASSUME NEW s \in Seq(Ranges), NEW r \in Ranges, Separated(s),
         \A i \in 1 .. Len(s) : s[i].to + 1 < r.from
  PROVE  Separated(Append(s, r))
<1>1. /\ Len(Append(s, r)) = Len(s) + 1
      /\ Append(s, r)[Len(s) + 1] = r
      /\ \A i \in 1 .. Len(s) : Append(s, r)[i] = s[i]
      /\ Len(s) \in Nat
  OBVIOUS
<1>2. QED
  BY <1>1 DEF Separated

\* The blocks of an appended list are those of the list and of the new range.
LEMMA AppendBlocks ==
  ASSUME NEW s \in Seq(Ranges), NEW r \in Ranges, NEW b \in Nat
  PROVE  (\E i \in 1 .. Len(Append(s, r)) : Holds(Append(s, r)[i], b))
           <=> (\E i \in 1 .. Len(s) : Holds(s[i], b)) \/ Holds(r, b)
<1>1. /\ Len(Append(s, r)) = Len(s) + 1
      /\ Append(s, r)[Len(s) + 1] = r
      /\ \A i \in 1 .. Len(s) : Append(s, r)[i] = s[i]
      /\ Len(s) \in Nat
  OBVIOUS
<1>2. QED
  BY <1>1

LEMMA InitInv == Init => IInv
<1> SUFFICES ASSUME Init PROVE IInv
  OBVIOUS
<1> USE MaxBlockAssumption DEF Init
<1>1. TypeOK
  BY DEF TypeOK, Ranges, Blocks, Selected
<1>2. MergeInv
  BY DEF MergeInv, Separated, InSelected, InSorted, InMerged
<1>3. ScanInv
  BY DEF ScanInv, Separated, InGaps, InMerged, Holds, Ranges, Blocks
<1>4. QED
  BY <1>1, <1>2, <1>3 DEF IInv

\* The list the merge loop goes on with is well formed.
LEMMA MergeIntoType ==
  ASSUME NEW m \in Seq(Ranges), NEW r \in Ranges
  PROVE  /\ MergeInto(m, r) \in Seq(Ranges)
         /\ OpensRange(r, m) => MergeInto(m, r) = Append(m, r)
         /\ ~ OpensRange(r, m) =>
              /\ Len(m) \in Nat \ {0}
              /\ Len(MergeInto(m, r)) = Len(m)
              /\ \A i \in 1 .. Len(m) - 1 : MergeInto(m, r)[i] = m[i]
              /\ MergeInto(m, r)[Len(m)].from = m[Len(m)].from
              /\ MergeInto(m, r)[Len(m)].to = Greater(r.to, m[Len(m)].to)
<1>1. CASE OpensRange(r, m)
  BY <1>1 DEF MergeInto
<1>2. CASE ~ OpensRange(r, m)
  <2>1. m # <<>> /\ Len(m) \in Nat \ {0}
    BY <1>2 DEF OpensRange
  <2>2. /\ MergeInto(m, r) = [m EXCEPT ![Len(m)].to = Greater(r.to, m[Len(m)].to)]
        /\ m[Len(m)] \in Ranges
    BY <1>2, <2>1 DEF MergeInto, Last
  <2>3. [m[Len(m)] EXCEPT !.to = Greater(r.to, m[Len(m)].to)] \in Ranges
    BY <2>2, MaxBlockAssumption DEF Ranges, Blocks, Greater
  <2>4. QED
    BY <1>2, <2>1, <2>2, <2>3 DEF Ranges
<1>3. QED
  BY <1>1, <1>2

LEMMA MergeStepInv == IInv /\ MergeStep => IInv'
<1> SUFFICES ASSUME IInv, MergeStep PROVE IInv'
  OBVIOUS
<1> USE MaxBlockAssumption
<1>1. PICK r \in sorted : /\ \A s \in sorted : r.from <= s.from
                          /\ sorted' = sorted \ {r}
                          /\ merged' = MergeInto(merged, r)
  BY DEF MergeStep
<1>2. /\ phase = "merge" /\ phase' = "merge"
      /\ rows' = rows /\ query' = query /\ pos' = pos
      /\ cursor' = cursor /\ gaps' = gaps
  BY DEF MergeStep, inputs
<1>3. /\ merged \in Seq(Ranges) /\ r \in Ranges /\ sorted \subseteq Ranges
      /\ Len(merged) \in Nat
      /\ \A i \in 1 .. Len(merged) : merged[i] \in Ranges
  BY <1>1 DEF IInv, TypeOK
<1>a. MergeInto(merged, r) \in Seq(Ranges)
  BY <1>3, MergeIntoType
<1>b. OpensRange(r, merged) =>
        /\ merged' = Append(merged, r)
        /\ Len(merged') = Len(merged) + 1
        /\ merged'[Len(merged) + 1] = r
        /\ \A i \in 1 .. Len(merged) : merged'[i] = merged[i]
  <2>1. OpensRange(r, merged) => merged' = Append(merged, r)
    BY <1>1 DEF MergeInto
  <2>2. QED
    BY <1>3, <2>1
<1>c. ~ OpensRange(r, merged) =>
        /\ Len(merged) \in Nat \ {0}
        /\ Len(merged') = Len(merged)
        /\ \A i \in 1 .. Len(merged) - 1 : merged'[i] = merged[i]
        /\ merged'[Len(merged)].from = merged[Len(merged)].from
        /\ merged'[Len(merged)].to = Greater(r.to, merged[Len(merged)].to)
  BY <1>1, <1>3, MergeIntoType
<1>4. TypeOK'
  BY <1>1, <1>2, <1>a DEF IInv, TypeOK
<1>5. Separated(merged')
  <2>1. CASE OpensRange(r, merged)
    <3>1. \A i \in 1 .. Len(merged) : merged[i].to + 1 < r.from
      <4> SUFFICES ASSUME NEW i \in 1 .. Len(merged) PROVE merged[i].to + 1 < r.from
        OBVIOUS
      <4>1. /\ merged[i] \in Ranges /\ merged[Len(merged)] \in Ranges
            /\ merged[Len(merged)].to + 1 < r.from
        BY <1>3, <2>1 DEF OpensRange, Last
      <4>2. i < Len(merged) => merged[i].to + 1 < merged[Len(merged)].from
        BY <1>3 DEF IInv, MergeInv, Separated
      <4>3. i = Len(merged) \/ i < Len(merged)
        BY <1>3
      <4>4. QED
        BY <1>3, <4>1, <4>2, <4>3, RangeFields
    <3>2. QED
      BY <1>3, <1>b, <2>1, <3>1, AppendSeparated DEF IInv, MergeInv
  <2>2. CASE ~ OpensRange(r, merged)
    <3>1. \A i, j \in 1 .. Len(merged) : i < j =>
            /\ merged'[i] = merged[i]
            /\ merged'[j].from = merged[j].from
      BY <1>3, <1>c, <2>2
    <3>2. QED
      BY <1>c, <2>2, <3>1 DEF Separated, IInv, MergeInv
  <2>3. QED
    BY <2>1, <2>2
<1>6. \A i \in 1 .. Len(merged') : \A s \in sorted' : merged'[i].from <= s.from
  <2> SUFFICES ASSUME NEW i \in 1 .. Len(merged'), NEW s \in sorted'
               PROVE  merged'[i].from <= s.from
    OBVIOUS
  <2>1. s \in sorted /\ r.from <= s.from
    BY <1>1
  <2>2. CASE OpensRange(r, merged)
    BY <1>3, <1>b, <2>1, <2>2 DEF IInv, MergeInv
  <2>3. CASE ~ OpensRange(r, merged)
    BY <1>3, <1>c, <2>1, <2>3 DEF IInv, MergeInv
  <2>4. QED
    BY <2>2, <2>3
<1>7. ASSUME NEW b \in Nat
      PROVE  (\E i \in 1 .. Len(merged') : Holds(merged'[i], b))
               <=> InMerged(b) \/ Holds(r, b)
  <2>1. CASE OpensRange(r, merged)
    BY <1>3, <1>b, <2>1 DEF InMerged
  <2>2. CASE ~ OpensRange(r, merged)
    <3> DEFINE n == Len(merged)
    <3>1. /\ n \in Nat \ {0} /\ Len(merged') = n
          /\ \A i \in 1 .. n - 1 : merged'[i] = merged[i]
          /\ merged'[n].from = merged[n].from
          /\ merged'[n].to = Greater(r.to, merged[n].to)
      BY <1>c, <2>2
    <3>2. /\ r.from <= merged[n].to + 1
          /\ merged[n].from <= r.from
      <4>1. merged # <<>> /\ merged[n] \in Ranges
        BY <1>3, <2>2, <3>1 DEF OpensRange
      <4>2. QED
        BY <1>1, <1>3, <2>2, <3>1, <4>1 DEF OpensRange, Last, IInv, MergeInv, Ranges, Blocks
    <3>3. Holds(merged'[n], b) <=> Holds(merged[n], b) \/ Holds(r, b)
      <4>1. merged[n] \in Ranges
        BY <1>3, <3>1
      <4>2. QED
        BY <1>3, <3>1, <3>2, <4>1, RangeFields DEF Holds, Greater
    <3>4. \A i \in 1 .. n : i # n => (Holds(merged'[i], b) <=> Holds(merged[i], b))
      BY <3>1 DEF Holds
    <3> HIDE DEF n
    <3>5. (\E i \in 1 .. n : Holds(merged'[i], b))
             <=> (\E i \in 1 .. n : Holds(merged[i], b)) \/ Holds(r, b)
      BY <3>1, <3>3, <3>4
    <3>6. QED
      BY <3>1, <3>5 DEF InMerged, n
  <2>3. QED
    BY <2>1, <2>2
<1>8. MergeInv'
  <2>1. \A b \in Nat : InSelected(b)' <=> InMerged(b)' \/ InSorted(b)'
    <3> TAKE b \in Nat
    <3>1. InSelected(b)' <=> InSelected(b)
      BY <1>2 DEF InSelected
    <3>2. InMerged(b)' <=> InMerged(b) \/ Holds(r, b)
      BY <1>7 DEF InMerged
    <3>3. InSorted(b) <=> InSorted(b)' \/ Holds(r, b)
      BY <1>1 DEF InSorted
    <3>4. QED
      BY <3>1, <3>2, <3>3 DEF IInv, MergeInv
  <2>2. QED
    BY <1>1, <1>2, <1>5, <1>6, <2>1 DEF IInv, MergeInv, Separated
<1>9. ScanInv'
  <2>1. pos' = 1 /\ cursor' = query.from /\ gaps' = <<>>
    BY <1>2 DEF IInv, ScanInv
  <2>2. query.from \in Nat
    BY DEF IInv, TypeOK, Ranges, Blocks
  <2>3. QED
    BY <1>2, <2>1, <2>2 DEF ScanInv, Separated, Holds
<1>10. QED
  BY <1>4, <1>8, <1>9 DEF IInv

LEMMA MergeDoneInv == IInv /\ MergeDone => IInv'
<1> SUFFICES ASSUME IInv, MergeDone PROVE IInv'
  OBVIOUS
<1>1. /\ phase = "merge" /\ phase' = "scan" /\ sorted = {}
      /\ rows' = rows /\ query' = query /\ pos' = pos /\ cursor' = cursor
      /\ gaps' = gaps /\ sorted' = sorted /\ merged' = merged
  BY DEF MergeDone, inputs
<1>2. TypeOK'
  BY <1>1 DEF IInv, TypeOK
<1>3. MergeInv'
  BY <1>1 DEF IInv, MergeInv, Separated, InSelected, InMerged, InSorted
<1>4. ScanInv'
  BY <1>1 DEF IInv, ScanInv, Separated, InGaps, InMerged
<1>5. QED
  BY <1>2, <1>3, <1>4 DEF IInv

LEMMA ScanSkipInv ==
  ASSUME IInv, ScanStep, Outside(merged[pos]) PROVE IInv'
<1>1. /\ phase = "scan" /\ phase' = phase /\ pos' = pos + 1
      /\ pos <= Len(merged) /\ Outside(merged[pos])
      /\ rows' = rows /\ query' = query /\ cursor' = cursor
      /\ gaps' = gaps /\ sorted' = sorted /\ merged' = merged
  BY DEF ScanStep, inputs
<1>2. TypeOK'
  BY <1>1 DEF IInv, TypeOK
<1>3. MergeInv'
  BY <1>1 DEF IInv, MergeInv, Separated, InSelected, InMerged, InSorted
<1>4. \A i \in 1 .. Len(merged) :
        i < pos + 1 => merged[i].to < cursor \/ merged[i].from > query.to
  BY <1>1 DEF IInv, ScanInv, TypeOK, Outside
<1>5. ScanInv'
  BY <1>1, <1>4 DEF IInv, ScanInv, Separated, InGaps, InMerged
<1>6. QED
  BY <1>2, <1>3, <1>5 DEF IInv

LEMMA ScanRangeInv ==
  ASSUME IInv, ScanStep, ~ Outside(merged[pos]) PROVE IInv'
<1> USE MaxBlockAssumption
<1> DEFINE r == merged[pos]
           g == [from |-> cursor, to |-> r.from - 1]
<1>1. /\ phase = "scan" /\ phase' = phase
      /\ pos <= Len(merged) /\ ~ Outside(r)
      /\ gaps' = GapBefore(r) /\ cursor' = Greater(r.to + 1, cursor)
      /\ pos' = IF cursor' > query.to THEN Len(merged) + 1 ELSE pos + 1
      /\ rows' = rows /\ query' = query
      /\ sorted' = sorted /\ merged' = merged
  BY DEF ScanStep, inputs
<1>2. /\ pos \in 1 .. Len(merged) /\ Len(merged) \in Nat
      /\ query \in Ranges /\ cursor \in Nat /\ gaps \in Seq(Ranges)
      /\ \A i \in 1 .. Len(merged) : merged[i] \in Ranges
  BY <1>1 DEF IInv, TypeOK
<1>3. r \in Ranges /\ r.to >= cursor /\ r.from <= query.to
  BY <1>1, <1>2 DEF Outside, Ranges, Blocks
<1>4. cursor' = r.to + 1 /\ cursor' \in Nat /\ cursor < cursor'
  BY <1>1, <1>2, <1>3 DEF Greater, Ranges, Blocks
<1>5. /\ \A i \in 1 .. Len(merged) : i < pos => merged[i].to + 1 < r.from
      /\ \A i \in 1 .. Len(merged) : pos < i => r.to + 1 < merged[i].from
  BY <1>2 DEF IInv, MergeInv, Separated
<1>n. /\ r.from \in Nat /\ r.to \in Nat /\ r.from <= r.to
      /\ query.from \in Nat /\ query.to \in Nat
      /\ \A i \in 1 .. Len(merged) : merged[i].from \in Nat /\ merged[i].to \in Nat
                                    /\ merged[i].from <= merged[i].to
  BY <1>2, <1>3, RangeFields
<1>6. \A i \in 1 .. Len(merged) : i < pos => merged[i].to < cursor
  <2> SUFFICES ASSUME NEW i \in 1 .. Len(merged), i < pos PROVE merged[i].to < cursor
    OBVIOUS
  <2>1. merged[i].to < cursor \/ merged[i].from > query.to
    BY DEF IInv, ScanInv
  <2>2. merged[i].to \in Nat /\ merged[i].from <= merged[i].to /\ merged[i].from \in Nat
    BY <1>n
  <2>3. merged[i].to + 1 < r.from
    BY <1>5
  <2>4. QED
    BY <1>3, <1>n, <2>1, <2>2, <2>3
<1>7. r.from > cursor => g \in Ranges /\ gaps' = Append(gaps, g)
  <2>1. r.from > cursor => gaps' = Append(gaps, g)
    BY <1>1 DEF GapBefore
  <2>2. r.from > cursor => g \in Ranges
    BY <1>2, <1>3 DEF Ranges, Blocks
  <2>3. QED
    BY <2>1, <2>2
<1>8. r.from <= cursor => gaps' = gaps
  BY <1>1, <1>2, <1>n DEF GapBefore
<1> HIDE DEF r, g
<1>a. r.from > cursor =>
        /\ Len(gaps') = Len(gaps) + 1 /\ Len(gaps) \in Nat
        /\ gaps'[Len(gaps) + 1] = g
        /\ \A k \in 1 .. Len(gaps) : gaps'[k] = gaps[k]
  <2> SUFFICES ASSUME r.from > cursor
               PROVE  /\ Len(gaps') = Len(gaps) + 1 /\ Len(gaps) \in Nat
                      /\ gaps'[Len(gaps) + 1] = g
                      /\ \A k \in 1 .. Len(gaps) : gaps'[k] = gaps[k]
    OBVIOUS
  <2>1. g \in Ranges /\ gaps' = Append(gaps, g) /\ gaps \in Seq(Ranges)
    BY <1>2, <1>7
  <2>2. /\ Len(Append(gaps, g)) = Len(gaps) + 1 /\ Len(gaps) \in Nat
        /\ Append(gaps, g)[Len(gaps) + 1] = g
        /\ \A k \in 1 .. Len(gaps) : Append(gaps, g)[k] = gaps[k]
    BY <2>1, AppendElements
  <2>3. QED
    BY <2>1, <2>2
<1>b. r.from > cursor \/ r.from <= cursor
  BY <1>2, <1>n
<1>9. TypeOK'
  <2>1. gaps' \in Seq(Ranges)
    BY <1>2, <1>7, <1>8, <1>b, AppendElements
  <2>2. pos' \in Nat \ {0}
    BY <1>1, <1>2
  <2>3. QED
    BY <1>1, <1>4, <2>1, <2>2 DEF IInv, TypeOK
<1>10. MergeInv'
  BY <1>1 DEF IInv, MergeInv, Separated, InSelected, InMerged, InSorted
<1>11. \A i \in 1 .. Len(merged) :
         i < pos' => merged[i].to < cursor' \/ merged[i].from > query.to
  <2> SUFFICES ASSUME NEW i \in 1 .. Len(merged), i < pos'
               PROVE  merged[i].to < cursor' \/ merged[i].from > query.to
    OBVIOUS
  <2>1. CASE i < pos
    BY <1>2, <1>4, <1>6, <1>n, <2>1
  <2>2. CASE i = pos
    BY <1>4, <1>n, <2>2 DEF r
  <2>3. CASE pos < i
    <3>1. cursor' > query.to
      BY <1>1, <1>2, <1>4, <1>n, <2>3
    <3>2. r.to + 1 < merged[i].from
      BY <1>5, <2>3
    <3>3. QED
      BY <1>4, <1>n, <3>1, <3>2
  <2>4. QED
    BY <1>2, <2>1, <2>2, <2>3
<1>12. ASSUME NEW b \in Nat, Holds(query, b), b < cursor'
       PROVE  (\E k \in 1 .. Len(gaps') : Holds(gaps'[k], b)) <=> ~ InMerged(b)
  <2>1. (\E k \in 1 .. Len(gaps') : Holds(gaps'[k], b))
          <=> InGaps(b) \/ (r.from > cursor /\ Holds(g, b))
    <3>1. CASE r.from > cursor
      <4>1. g \in Ranges /\ gaps' = Append(gaps, g)
        BY <1>7, <3>1
      <4>2. (\E k \in 1 .. Len(Append(gaps, g)) : Holds(Append(gaps, g)[k], b))
              <=> (\E k \in 1 .. Len(gaps) : Holds(gaps[k], b)) \/ Holds(g, b)
        BY <1>2, <4>1, AppendBlocks
      <4>3. QED
        BY <3>1, <4>1, <4>2 DEF InGaps
    <3>2. CASE r.from <= cursor
      <4>1. gaps' = gaps /\ ~ (r.from > cursor)
        BY <1>2, <1>8, <1>n, <3>2
      <4>2. QED
        BY <4>1 DEF InGaps
    <3>3. QED
      BY <1>b, <3>1, <3>2
  <2>2. CASE b < cursor
    <3>1. InGaps(b) <=> ~ InMerged(b)
      BY <2>2, <1>12 DEF IInv, ScanInv
    <3>2. ~ Holds(g, b)
      BY <1>2, <2>2 DEF Holds, g
    <3>3. QED
      BY <2>1, <3>1, <3>2
  <2>3. CASE cursor <= b
    <3>1. ~ InGaps(b)
      <4> SUFFICES ASSUME NEW k \in 1 .. Len(gaps), Holds(gaps[k], b) PROVE FALSE
        BY DEF InGaps
      <4>1. gaps[k] \in Ranges /\ gaps[k].to + 1 < cursor
        BY <1>1, <1>2 DEF IInv, ScanInv
      <4>2. gaps[k].to \in Nat /\ b <= gaps[k].to
        BY <4>1, RangeFields DEF Holds
      <4>3. QED
        BY <1>2, <2>3, <4>1, <4>2
    <3>2. InMerged(b) <=> r.from <= b
      <4>1. r.from <= b => InMerged(b)
        <5>1. r.from <= b => Holds(r, b)
          BY <1>4, <1>12, <1>n DEF Holds
        <5>2. QED
          BY <1>2, <5>1 DEF InMerged, r
      <4>2. ASSUME NEW i \in 1 .. Len(merged), Holds(merged[i], b) PROVE r.from <= b
        <5>1. CASE i < pos
          BY <1>2, <1>6, <1>n, <2>3, <4>2, <5>1 DEF Holds
        <5>2. CASE i = pos
          BY <4>2, <5>2 DEF Holds, r
        <5>3. CASE pos < i
          <6>1. r.to + 1 < merged[i].from /\ merged[i].from <= b
            BY <1>5, <4>2, <5>3 DEF Holds
          <6>2. QED
            BY <1>4, <1>12, <1>n, <6>1
        <5>4. QED
          BY <1>2, <5>1, <5>2, <5>3
      <4>3. QED
        BY <4>1, <4>2 DEF InMerged
    <3>3. (r.from > cursor /\ Holds(g, b)) <=> ~ (r.from <= b)
      BY <1>2, <1>n, <2>3 DEF Holds, g
    <3>4. QED
      BY <2>1, <3>1, <3>2, <3>3
  <2>4. QED
    BY <1>2, <2>2, <2>3
<1>13. /\ Separated(gaps')
       /\ \A k \in 1 .. Len(gaps') :
            /\ query.from <= gaps'[k].from
            /\ gaps'[k].to <= query.to
            /\ gaps'[k].to + 1 < cursor'
  <2>1. /\ Separated(gaps)
        /\ query.from <= cursor
        /\ \A k \in 1 .. Len(gaps) :
             /\ query.from <= gaps[k].from
             /\ gaps[k].to <= query.to
             /\ gaps[k].to + 1 < cursor
             /\ gaps[k] \in Ranges
    BY <1>1, <1>2 DEF IInv, ScanInv
  <2>a. \A k \in 1 .. Len(gaps) : gaps[k].to + 1 < cursor'
    <3> SUFFICES ASSUME NEW k \in 1 .. Len(gaps) PROVE gaps[k].to + 1 < cursor'
      OBVIOUS
    <3>1. gaps[k].to + 1 < cursor /\ gaps[k].to \in Nat
      BY <2>1, RangeFields
    <3>2. cursor \in Nat /\ cursor' \in Nat /\ cursor < cursor'
      BY <1>2, <1>4
    <3>3. QED
      BY <3>1, <3>2
  <2>2. CASE r.from > cursor
    <3>1. Separated(Append(gaps, g))
      BY <1>2, <1>7, <2>1, <2>2, AppendSeparated DEF g
    <3>2. /\ gaps' = Append(gaps, g)
          /\ Len(gaps') = Len(gaps) + 1 /\ Len(gaps) \in Nat
          /\ gaps'[Len(gaps) + 1] = g
          /\ \A k \in 1 .. Len(gaps) : gaps'[k] = gaps[k]
      BY <1>2, <1>7, <2>2
    <3>3. query.from <= g.from /\ g.to <= query.to /\ g.to + 1 < cursor'
      BY <1>2, <1>3, <1>4, <1>n, <2>1 DEF g
    <3>5. ASSUME NEW k \in 1 .. Len(gaps')
          PROVE  /\ query.from <= gaps'[k].from
                 /\ gaps'[k].to <= query.to
                 /\ gaps'[k].to + 1 < cursor'
      <4>1. k \in 1 .. Len(gaps) \/ k = Len(gaps) + 1
        BY <3>2, <3>5
      <4>2. CASE k \in 1 .. Len(gaps)
        <5>1. gaps'[k] = gaps[k]
          BY <3>2, <4>2
        <5>2. QED
          BY <2>1, <2>a, <4>2, <5>1
      <4>3. CASE k = Len(gaps) + 1
        <5>1. gaps'[k] = g
          BY <3>2, <4>3
        <5>2. QED
          BY <3>3, <5>1
      <4>4. QED
        BY <4>1, <4>2, <4>3
    <3>6. Separated(gaps')
      BY <3>1, <3>2
    <3>7. QED
      BY <3>5, <3>6
  <2>3. CASE r.from <= cursor
    <3>1. gaps' = gaps /\ Separated(gaps')
      BY <1>8, <2>1, <2>3
    <3>2. QED
      BY <2>1, <2>a, <3>1
  <2>4. QED
    BY <1>b, <2>2, <2>3
<1>14. ScanInv'
  <2>1. (query.from <= cursor)'
    BY <1>1, <1>2, <1>4 DEF IInv, ScanInv, Ranges, Blocks
  <2>2. QED
    BY <1>1, <1>11, <1>12, <1>13, <2>1 DEF ScanInv, InGaps, InMerged
<1>15. QED
  BY <1>9, <1>10, <1>14 DEF IInv

LEMMA ScanEndInv == IInv /\ ScanEnd => IInv'
<1> SUFFICES ASSUME IInv, ScanEnd PROVE IInv'
  OBVIOUS
<1> USE MaxBlockAssumption
<1> DEFINE g == [from |-> cursor, to |-> query.to]
<1>1. /\ phase = "scan" /\ phase' = "done" /\ pos > Len(merged)
      /\ gaps' = IF cursor <= query.to THEN Append(gaps, g) ELSE gaps
      /\ rows' = rows /\ query' = query /\ pos' = pos /\ cursor' = cursor
      /\ sorted' = sorted /\ merged' = merged
  BY DEF ScanEnd, inputs
<1>2. /\ query \in Ranges /\ cursor \in Nat /\ pos \in Nat /\ Len(merged) \in Nat
      /\ gaps \in Seq(Ranges) /\ Len(gaps) \in Nat
      /\ \A i \in 1 .. Len(merged) : merged[i] \in Ranges
      /\ \A k \in 1 .. Len(gaps) : gaps[k] \in Ranges
  BY DEF IInv, TypeOK
<1>3. \A i \in 1 .. Len(merged) : merged[i].to < cursor \/ merged[i].from > query.to
  BY <1>1, <1>2 DEF IInv, ScanInv
<1>4. cursor <= query.to =>
        /\ g \in Ranges /\ gaps' = Append(gaps, g)
        /\ Len(gaps') = Len(gaps) + 1
        /\ gaps'[Len(gaps) + 1] = g
        /\ \A k \in 1 .. Len(gaps) : gaps'[k] = gaps[k]
  <2>1. cursor <= query.to => g \in Ranges
    BY <1>2 DEF Ranges, Blocks
  <2>2. QED
    BY <1>1, <1>2, <2>1
<1>5. ~ (cursor <= query.to) => gaps' = gaps
  BY <1>1
<1>6. /\ Separated(gaps)
      /\ query.from <= cursor
      /\ \A k \in 1 .. Len(gaps) :
           /\ query.from <= gaps[k].from
           /\ gaps[k].to <= query.to
           /\ gaps[k].to + 1 < cursor
      /\ \A b \in Nat :
           Holds(query, b) /\ b < cursor => (InGaps(b) <=> ~ InMerged(b))
  BY <1>1 DEF IInv, ScanInv
<1>7. g.from = cursor /\ g.to = query.to
  OBVIOUS
<1> HIDE DEF g
<1>8. TypeOK'
  BY <1>1, <1>2, <1>4, <1>5 DEF IInv, TypeOK
<1>9. MergeInv'
  BY <1>1 DEF IInv, MergeInv, Separated, InSelected, InMerged, InSorted
<1>10. /\ Separated(gaps')
       /\ \A k \in 1 .. Len(gaps') :
            query.from <= gaps'[k].from /\ gaps'[k].to <= query.to
  <2>1. CASE cursor <= query.to
    <3>1. Separated(Append(gaps, g))
      BY <1>2, <1>4, <1>6, <1>7, <2>1, AppendSeparated
    <3>2. query.from <= g.from /\ g.to <= query.to
      BY <1>2, <1>6, <1>7 DEF Ranges, Blocks
    <3>3. Separated(gaps')
      BY <1>4, <2>1, <3>1
    <3>4. \A k \in 1 .. Len(gaps) + 1 :
            query.from <= gaps'[k].from /\ gaps'[k].to <= query.to
      BY <1>2, <1>4, <1>6, <2>1, <3>2
    <3>5. QED
      BY <1>4, <2>1, <3>3, <3>4
  <2>2. CASE ~ (cursor <= query.to)
    BY <1>5, <1>6, <2>2
  <2>3. QED
    BY <2>1, <2>2
<1>11. ASSUME NEW b \in Nat, Holds(query, b)
       PROVE  (\E k \in 1 .. Len(gaps') : Holds(gaps'[k], b)) <=> ~ InMerged(b)
  <2>1. CASE b < cursor
    <3>1. InGaps(b) <=> ~ InMerged(b)
      BY <1>6, <1>11, <2>1
    <3>2. ~ Holds(g, b)
      BY <1>2, <1>7, <2>1 DEF Holds
    <3>3. CASE cursor <= query.to
      BY <1>2, <1>4, <3>1, <3>2, <3>3 DEF InGaps
    <3>4. CASE ~ (cursor <= query.to)
      BY <1>5, <3>1, <3>4 DEF InGaps
    <3>5. QED
      BY <3>3, <3>4
  <2>2. CASE cursor <= b
    <3>1. cursor <= query.to /\ Holds(g, b)
      BY <1>2, <1>7, <1>11, <2>2 DEF Holds, Ranges, Blocks
    <3>2. ~ InMerged(b)
      BY <1>2, <1>3, <1>11, <2>2 DEF InMerged, Holds, Ranges, Blocks
    <3>3. QED
      BY <1>2, <1>4, <3>1, <3>2
  <2>3. QED
    BY <1>2, <2>1, <2>2
<1>12. ScanInv'
  <2>1. \A b \in Nat :
          Holds(query', b) => (InGaps(b)' <=> ~ InMerged(b)')
    BY <1>1, <1>11 DEF InGaps, InMerged
  <2>2. QED
    BY <1>1, <1>3, <1>6, <1>10, <2>1 DEF ScanInv
<1>13. QED
  BY <1>8, <1>9, <1>12 DEF IInv

LEMMA StepInv == IInv /\ [Next]_vars => IInv'
<1>1. IInv /\ UNCHANGED vars => IInv'
  BY DEF vars, IInv, TypeOK, MergeInv, ScanInv, Separated, InSelected, InSorted,
         InMerged, InGaps
<1>2. QED
  BY <1>1, MergeStepInv, MergeDoneInv, ScanSkipInv, ScanRangeInv, ScanEndInv DEF Next

LEMMA Invariance == Spec => []IInv
BY InitInv, StepInv, PTL DEF Spec

-------------------------------------------------------------------------------
\* Every variable keeps its type, for any highest block.
THEOREM TypeCorrect == Spec => []TypeOK
<1>1. IInv => TypeOK
  BY DEF IInv
<1>2. QED
  BY <1>1, Invariance, PTL

(***************************************************************************)
(* verifyCoverage answers exactly: once both loops have ended, the gaps    *)
(* are the requested blocks no coverage row covers, and `complete` holds   *)
(* exactly when every requested block is covered.                          *)
(***************************************************************************)
THEOREM CoverageGateExact == Spec => []GateIsExact
<1>1. ASSUME IInv, phase = "done"
      PROVE  /\ BlocksIn(Range(gaps)) = BlocksOf(query) \ BlocksIn(rows)
             /\ Complete <=> BlocksOf(query) \subseteq BlocksIn(rows)
  <2>1. /\ query \in Ranges /\ gaps \in Seq(Ranges) /\ Len(gaps) \in Nat
        /\ rows \subseteq Ranges
        /\ \A k \in 1 .. Len(gaps) : gaps[k] \in Ranges
    BY <1>1 DEF IInv, TypeOK
  <2>2. ASSUME NEW b \in BlocksOf(query)
        PROVE  InGaps(b) <=> b \notin BlocksIn(rows)
    <3>1. b \in Nat /\ Holds(query, b)
      BY <2>1, <2>2 DEF BlocksOf, Holds, Ranges, Blocks
    <3>2. InGaps(b) <=> ~ InSelected(b)
      BY <1>1, <3>1 DEF IInv, ScanInv, MergeInv, InSorted
    <3>3. InSelected(b) <=> b \in BlocksIn(rows)
      BY <2>1, <3>1, MaxBlockAssumption
      DEF InSelected, Selected, BlocksIn, BlocksOf, Holds, Ranges, Blocks
    <3>4. QED
      BY <3>2, <3>3
  <2>3. Range(gaps) = {gaps[k] : k \in 1 .. Len(gaps)}
    BY <2>1 DEF Range
  <2>4. \A b \in BlocksIn(Range(gaps)) : b \in BlocksOf(query) /\ InGaps(b)
    <3> SUFFICES ASSUME NEW k \in 1 .. Len(gaps), NEW b \in BlocksOf(gaps[k])
                 PROVE  b \in BlocksOf(query) /\ InGaps(b)
      BY <2>3 DEF BlocksIn
    <3>1. gaps[k] \in Ranges /\ query.from <= gaps[k].from /\ gaps[k].to <= query.to
      BY <1>1, <2>1 DEF IInv, ScanInv
    <3>2. QED
      BY <2>1, <3>1 DEF BlocksOf, InGaps, Holds, Ranges, Blocks
  <2>5. \A b \in BlocksOf(query) : InGaps(b) => b \in BlocksIn(Range(gaps))
    BY <2>1, <2>3 DEF InGaps, BlocksIn, BlocksOf, Holds, Ranges, Blocks
  <2>6. BlocksIn(Range(gaps)) = BlocksOf(query) \ BlocksIn(rows)
    BY <2>2, <2>4, <2>5
  <2>7. Complete <=> \A b \in BlocksOf(query) : ~ InGaps(b)
    <3>1. Complete => \A b \in BlocksOf(query) : ~ InGaps(b)
      BY DEF Complete, InGaps
    <3>2. ASSUME ~ Complete PROVE \E b \in BlocksOf(query) : InGaps(b)
      <4>1. 1 \in 1 .. Len(gaps)
        BY <2>1, <3>2 DEF Complete
      <4>2. gaps[1] \in Ranges /\ query.from <= gaps[1].from /\ gaps[1].to <= query.to
        BY <1>1, <2>1, <4>1 DEF IInv, ScanInv
      <4>3. gaps[1].from \in BlocksOf(query) /\ Holds(gaps[1], gaps[1].from)
        BY <2>1, <4>2 DEF BlocksOf, Holds, Ranges, Blocks
      <4>4. QED
        BY <4>1, <4>3 DEF InGaps
    <3>3. QED
      BY <3>1, <3>2
  <2>8. QED
    BY <2>2, <2>6, <2>7
<1>2. IInv => GateIsExact
  BY <1>1 DEF GateIsExact
<1>3. QED
  BY <1>2, Invariance, PTL

\* The reported gaps are ordered and separated by covered blocks.
THEOREM GapsMaximal == Spec => []GapsAreMaximal
<1>1. IInv => GapsAreMaximal
  BY DEF IInv, ScanInv, Separated, GapsAreMaximal
<1>2. QED
  BY <1>1, Invariance, PTL
===============================================================================
