------------------------------ MODULE RangeYield ------------------------------
(***************************************************************************)
(* aggregateContiguousYieldIntervals (src/analytics/range-analytics.ts):   *)
(* the yield paid out in a requested window is the sum of stored intervals *)
(* that join end to start, chosen greedily in the order of their start.    *)
(* Block times never meet exactly, so two ends join within Tolerance.  One *)
(* step is one iteration of the loop.                                      *)
(***************************************************************************)
EXTENDS Integers, Sequences

CONSTANTS
  MaxTime,     \* the latest time stamp of an interval or of the window
  Tolerance,   \* five minutes, in the model's unit of time
  Stores       \* the sets of stored intervals to look at

ASSUME TimeAssumption == MaxTime \in Nat /\ Tolerance \in Nat

Times    == 0 .. MaxTime
Statuses == {"candidate", "verified", "invalid"}

\* A row of savings_yield_aggregates, its blocks in order.
Intervals ==
  {r \in [start : Times, end : Times, status : Statuses] : r.start <= r.end}

ASSUME StoresAssumption == Stores \subseteq SUBSET Intervals

\* The requested window: parseRangeAnalyticsRequest refuses an empty one.
Windows == {w \in [start : Times, end : Times] : w.start < w.end}

VARIABLES
  intervals,   \* the stored intervals of the chain (constant)
  window,      \* the requested window (constant)
  unvisited,   \* intervals the loop has not visited
  selected,    \* the intervals chosen so far, a sequence
  reached,     \* the time up to which the yield is accounted for: the cursor
  choosing     \* "loop" or "done"

yieldVars == <<intervals, window, unvisited, selected, reached, choosing>>

\* The filter: rows that were found invalid are left out.
Usable(r) ==
  /\ r.status # "invalid"
  /\ r.end > window.start
  /\ r.start < window.end

\* The query keeps the newest row for each pair of ends.
OneRowPerWindow(rs) ==
  \A r, s \in rs : r.start = s.start /\ r.end = s.end => r = s

YieldInit ==
  /\ intervals \in Stores
  /\ OneRowPerWindow(intervals)
  /\ window \in Windows
  /\ unvisited = {r \in intervals : Usable(r)}
  /\ selected = <<>>
  /\ reached = window.start
  /\ choosing = "loop"

-------------------------------------------------------------------------------
\* The order of the sort: by start, the longest first.
ListedBefore(r, s) == r.start < s.start \/ (r.start = s.start /\ r.end >= s.end)

Visited(r) ==
  /\ choosing = "loop"
  /\ r \in unvisited
  /\ \A s \in unvisited : ListedBefore(r, s)
  /\ unvisited' = unvisited \ {r}
  /\ UNCHANGED <<intervals, window>>

\* Where an interval lies.  Faults: an overlap taken for a joint, a gap taken
\* for a joint.
Advances(r)   == r.end > reached + Tolerance
AnyEarlier(r) == FALSE
Earlier(r)    == r.start < reached - Tolerance
AnyLater(r)   == FALSE
Later(r)      == r.start > reached + Tolerance

\* `continue`: the interval ends before or at the cursor, or overlaps what is
\* already accounted for.
Skip(r) ==
  /\ Visited(r)
  /\ ~ Advances(r) \/ Earlier(r)
  /\ UNCHANGED <<selected, reached, choosing>>

\* `break`: nothing joins the cursor any more.
StopAtGap(r) ==
  /\ Visited(r)
  /\ Advances(r) /\ Later(r)
  /\ choosing' = "done"
  /\ UNCHANGED <<selected, reached>>

\* The test that ends the loop, and the answer: the window's end is reached.
ReachedEnd(c) == c >= window.end - Tolerance

Select(r) ==
  /\ Visited(r)
  /\ Advances(r) /\ ~ Earlier(r) /\ ~ Later(r)
  /\ selected' = Append(selected, r)
  /\ reached' = r.end
  /\ choosing' = IF ReachedEnd(r.end) THEN "done" ELSE "loop"

EndOfList ==
  /\ choosing = "loop"
  /\ unvisited = {}
  /\ choosing' = "done"
  /\ UNCHANGED <<intervals, window, unvisited, selected, reached>>

Visit(r) == Skip(r) \/ StopAtGap(r) \/ Select(r)

YieldNext == EndOfList \/ \E r \in unvisited : Visit(r)

YieldSpec == YieldInit /\ [][YieldNext]_yieldVars

\* Whether a number is reported at all.
Reported == selected # <<>> /\ ReachedEnd(reached)

-------------------------------------------------------------------------------
\* Type invariant; an interval found invalid is never selected.
YieldTypeOK ==
  /\ intervals \in SUBSET Intervals
  /\ window \in Windows
  /\ unvisited \in SUBSET intervals
  /\ selected \in Seq({r \in intervals : r.status # "invalid"})
  /\ reached \in Times
  /\ choosing \in {"loop", "done"}

\* No yield is counted twice: two selected intervals share no more than the
\* tolerance, however many intervals with whatever overlaps are stored.
NothingCountedTwice ==
  \A j \in 1 .. Len(selected) : \A i \in 1 .. j - 1 :
    selected[i].end <= selected[j].start + Tolerance

\* A reported number leaves nothing of the window out, and nothing of the time
\* before it in: each moment of the window is in, or within the tolerance of, a
\* selected interval, and none of them starts earlier than the window.
CompleteMeansCovered ==
  choosing = "done" /\ Reported =>
    /\ \A t \in window.start .. window.end : \E i \in 1 .. Len(selected) :
         selected[i].start - Tolerance <= t /\ t <= selected[i].end + Tolerance
    /\ \A i \in 1 .. Len(selected) :
         window.start <= selected[i].start + Tolerance

\* What docs/methodology.md says, "only when they tile the full requested
\* window": nothing behind the window is counted.  It does not hold: the interval
\* that reaches the end may go on behind it, and its whole yield is added.
TilesWindow ==
  choosing = "done" /\ Reported =>
    \A i \in 1 .. Len(selected) : selected[i].end <= window.end + Tolerance
===============================================================================
