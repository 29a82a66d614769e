----------------------------- MODULE BlockRanges -----------------------------
(***************************************************************************)
(* The pure part of src/indexer/planner.ts: how a block range is cut into  *)
(* chunks and when an RPC error is retried.  A range is a record           *)
(* [from, to], both ends inclusive, as BlockRange is in the code.          *)
(***************************************************************************)
EXTENDS Integers

Lesser(a, b)  == IF a < b THEN a ELSE b
Greater(a, b) == IF a > b THEN a ELSE b

\* The blocks of a range.
BlocksOf(r) == r.from .. r.to

\* The blocks of a set of ranges.
BlocksIn(rs) == UNION {BlocksOf(r) : r \in rs}

\* The end of the chunk that starts at `from`: `size` blocks, cut at `to`.
PlannedTo(from, to, size) == Lesser(to, from + size - 1)

\* A "range" error halves the chunk, unless the provider names its limit.
ReduceChunkSize(size) == Greater(1, size \div 2)
ShrinkTo(size, advertised) ==
  IF advertised > 0 THEN Lesser(advertised, size - 1) ELSE ReduceChunkSize(size)

(***************************************************************************)
(* The four classes of classifyRpcError, and the daily-quota error that    *)
(* fetchLogsWithPolicy recognises before it classifies.                    *)
(***************************************************************************)
ErrorClass == {"range", "rate-limit", "transient", "fatal", "quota"}

ShouldRetry(class, attempt, maxRetries, rateLimitsForever) ==
  \/ class = "rate-limit" /\ rateLimitsForever
  \/ class \in {"rate-limit", "transient"} /\ attempt < maxRetries
==============================================================================
