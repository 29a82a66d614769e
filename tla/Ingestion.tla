------------------------------- MODULE Ingestion -------------------------------
(***************************************************************************)
(* ingestLogs (src/indexer/service.ts) for one chain and scope.  An        *)
(* ingester is one process that calls it: it resumes from the durable      *)
(* checkpoint, plans a batch of chunks, starts all their eth_getLogs       *)
(* requests at once, and consumes the answers in order; each answer is     *)
(* committed with its block headers, coverage row and checkpoint in one    *)
(* transaction.  ingestLogs takes no lock: any number of ingesters may run *)
(* at a time, may be aborted, and may crash between any two steps.         *)
(*                                                                         *)
(* Data is abstracted to what the properties tell apart.  A block holds at *)
(* most one tracked log, so a log is named by its block and the unique key *)
(* (chain_id, transaction_hash, log_index) of raw_logs is the block.       *)
(***************************************************************************)
EXTENDS FinalizedChain

CONSTANTS
  Ingesters,          \* the processes that may call ingestLogs
  Requests,           \* the windows callers ask for
  Signalled,          \* the ingesters a SIGINT or SIGTERM may reach
  LogBlocks,          \* blocks that hold a log of the tracked addresses
  Decodable,          \* those whose log decodeProtocolLog understands
  FinalityLag,        \* options.finalityLag
  FinalizedTag,       \* adapter.finality = "rpc-finalized"
  ChunkSize,          \* options.chunkSize
  FetchConcurrency,   \* options.fetchConcurrency
  AnchorEvery,        \* options.anchorEveryChunks
  MaxRetries,         \* options.maxRetries
  RateLimitsForever,  \* options.retryRateLimitsIndefinitely
  ProviderLimit,      \* the longest range the provider answers (external)
  RpcErrors,          \* the classes of error the provider raises (external)
  AdvertisesLimit     \* whether its "range" error names that limit (external)

(***************************************************************************)
(* The lag has to cover the reorganisations of a chain that is read by     *)
(* lag, and a provider has to answer a one-block range.                    *)
(***************************************************************************)
ASSUME IngestionAssumption ==
  /\ Requests \subseteq [from : Blocks, to : Blocks]
  /\ Signalled \subseteq Ingesters
  /\ LogBlocks \subseteq Blocks
  /\ Decodable \subseteq LogBlocks
  /\ FinalityLag \in Nat /\ FinalizedTag \in BOOLEAN
  /\ FinalizedTag \/ ReorgDepth <= FinalityLag
  /\ ChunkSize \in Nat \ {0} /\ FetchConcurrency \in Nat \ {0}
  /\ AnchorEvery \in Nat \ {0}
  /\ MaxRetries \in Nat /\ RateLimitsForever \in BOOLEAN
  /\ RpcErrors \subseteq ErrorClass
  /\ ProviderLimit \in Nat \ {0} /\ AdvertisesLimit \in BOOLEAN

NoRow == 2    \* a hash column of a row that does not exist

VARIABLES
  \* PostgreSQL
  checkpoint,   \* indexer_checkpoints: next_block, last_completed_block(_hash)
  coverage,     \* indexer_coverage: the set of committed ranges
  blockRow,     \* blocks: the stored hash of each block
  rawLog,       \* raw_logs: the block hash stored with each log
  events,       \* protocol_events: the logs that have a decoded row
  runs,         \* indexer_runs: the status of each ingester's latest row
  orphaned,     \* indexer_runs: an earlier row of some ingester says "running"
  \* the memory of each ingester
  pc,           \* where ingestLogs is
  req,          \* options.fromBlock and options.toBlock
  next,         \* nextBlock
  size,         \* activeChunkSize
  chunks,       \* counters.chunks, modulo AnchorEvery
  slots,        \* fetchedBatch: one record per chunk in flight
  cur,          \* index of the slot the loop awaits
  got,          \* headers read for the current chunk
  anchor,       \* anchor header read for the current chunk
  aborted,      \* options.signal.aborted
  outcome       \* how the last call of ingestLogs ended

dbVars    == <<checkpoint, coverage, blockRow, rawLog, events>>
chunkVars == <<size, chunks, slots, cur, got, anchor>>
callVars  == <<req, next>>
runVars   == <<runs, orphaned>>
vars == <<chainVars, dbVars, runVars, pc, chunkVars, callVars, aborted, outcome>>

Nothing == [x \in {} |-> 0]    \* the empty map

Init ==
  /\ ChainInit
  /\ checkpoint = [next |-> 0, block |-> 0, hash |-> NoRow]
  /\ coverage = {}
  /\ blockRow = [b \in Blocks |-> NoRow]
  /\ rawLog = [b \in LogBlocks |-> NoRow]
  /\ events = {}
  /\ runs = [i \in Ingesters |-> "none"]
  /\ orphaned = FALSE
  /\ pc = [i \in Ingesters |-> "idle"]
  /\ req = [i \in Ingesters |-> [from |-> 1, to |-> 1]]
  /\ next = [i \in Ingesters |-> 1]
  /\ size = [i \in Ingesters |-> ChunkSize]
  /\ chunks = [i \in Ingesters |-> 0]
  /\ slots = [i \in Ingesters |-> Nothing]
  /\ cur = [i \in Ingesters |-> 1]
  /\ got = [i \in Ingesters |-> Nothing]
  /\ anchor = [i \in Ingesters |-> Nothing]
  /\ aborted = [i \in Ingesters |-> FALSE]
  /\ outcome = [i \in Ingesters |-> "none"]

\* The environment: the chain moves while the ingesters run.
ChainStep ==
  /\ ChainNext
  /\ UNCHANGED <<dbVars, runVars, pc, chunkVars, callVars, aborted, outcome>>

--------------------------------------------------------------------------------
(***************************************************************************)
(* Entering ingestLogs: the finalised head bounds the request, the stored  *)
(* anchor is compared with the chain, and the call resumes behind the      *)
(* checkpoint.  Reads come before the insert of the run row; the values    *)
(* read stay in memory while other ingesters go on committing.             *)
(***************************************************************************)
FinalizedHead == IF FinalizedTag THEN final ELSE head - FinalityLag

UnboundedAdmissible(w) == w.from <= w.to    \* fault: the head is not consulted
Admissible(w) == w.to <= FinalizedHead /\ w.from <= w.to

AnchorDrifted == checkpoint.block # 0 /\ hash[checkpoint.block] # checkpoint.hash

ResumeAtStart(w) == w.from    \* fault: the checkpoint is ignored
ResumeAt(w) == Greater(checkpoint.next, w.from)

\* What a failed call may throw: its own errors are classified "fatal".
Thrown == RpcErrors \cup {"fatal"}

\* A refused request, a drifted anchor or a failed read: the call throws
\* before it has a run row.
Refuse(i, w, class) ==
  /\ pc[i] = "idle"
  /\ ~ Admissible(w) \/ AnchorDrifted => class = "fatal"
  /\ outcome' = [outcome EXCEPT ![i] = class]
  /\ UNCHANGED <<chainVars, dbVars, runVars, pc, chunkVars, callVars, aborted>>

NoOp(i, w) ==
  /\ pc[i] = "idle"
  /\ Admissible(w) /\ ~ AnchorDrifted
  /\ ResumeAt(w) > w.to
  /\ outcome' = [outcome EXCEPT ![i] = "noop"]
  /\ UNCHANGED <<chainVars, dbVars, runVars, pc, chunkVars, callVars, aborted>>

Start(i, w) ==
  /\ pc[i] = "idle"
  /\ Admissible(w) /\ ~ AnchorDrifted
  /\ ResumeAt(w) <= w.to
  /\ req' = [req EXCEPT ![i] = w]
  /\ next' = [next EXCEPT ![i] = ResumeAt(w)]
  /\ runs' = [runs EXCEPT ![i] = "running"]
  /\ orphaned' = (orphaned \/ runs[i] = "running")
  /\ pc' = [pc EXCEPT ![i] = "loop"]
  /\ outcome' = [outcome EXCEPT ![i] = "none"]
  /\ UNCHANGED <<chainVars, dbVars, chunkVars, aborted>>

--------------------------------------------------------------------------------
(***************************************************************************)
(* Leaving ingestLogs.  The call's memory is dropped with the call.        *)
(***************************************************************************)
Forget(i) ==
  /\ pc' = [pc EXCEPT ![i] = "idle"]
  /\ req' = [req EXCEPT ![i] = [from |-> 1, to |-> 1]]
  /\ next' = [next EXCEPT ![i] = 1]
  /\ size' = [size EXCEPT ![i] = ChunkSize]
  /\ chunks' = [chunks EXCEPT ![i] = 0]
  /\ slots' = [slots EXCEPT ![i] = Nothing]
  /\ cur' = [cur EXCEPT ![i] = 1]
  /\ got' = [got EXCEPT ![i] = Nothing]
  /\ anchor' = [anchor EXCEPT ![i] = Nothing]

UpdateRun(i, status) == runs' = [runs EXCEPT ![i] = status] /\ UNCHANGED orphaned

Leave(i, result) ==
  /\ outcome' = [outcome EXCEPT ![i] = result]
  /\ Forget(i)
  /\ UNCHANGED <<chainVars, aborted>>

Return(i, result, status) == UpdateRun(i, status) /\ Leave(i, result)

\* The catch block: an error of an aborted call is an interruption.  When the
\* update of the run row fails too, the row keeps saying "running".
Throw(i, class) ==
  \/ aborted[i] /\ Return(i, "interrupted", "interrupted")
  \/ ~ aborted[i] /\ Return(i, class, "failed")
  \/ \E other \in Thrown : Leave(i, other) /\ UNCHANGED runVars

Complete(i) ==
  /\ pc[i] = "loop"
  /\ next[i] > req[i].to
  /\ Return(i, "completed", "completed")
  /\ UNCHANGED dbVars

Interrupt(i) ==
  /\ pc[i] = "loop"
  /\ next[i] <= req[i].to
  /\ aborted[i]
  /\ Return(i, "interrupted", "interrupted")
  /\ UNCHANGED dbVars

\* SIGINT or SIGTERM.
Abort(i) ==
  /\ i \in Signalled
  /\ ~ aborted[i]
  /\ aborted' = [aborted EXCEPT ![i] = TRUE]
  /\ UNCHANGED <<chainVars, dbVars, runVars, pc, chunkVars, callVars, outcome>>

\* The process dies, and another is started in its place: what was committed
\* stays, the run row keeps its status.
Die(i) ==
  /\ Forget(i)
  /\ aborted' = [aborted EXCEPT ![i] = FALSE]
  /\ outcome' = [outcome EXCEPT ![i] = "none"]
  /\ UNCHANGED <<chainVars, dbVars, runVars>>

Crash(i) == (pc[i] # "idle" \/ aborted[i]) /\ Die(i)

--------------------------------------------------------------------------------
(***************************************************************************)
(* One round of the loop: plan up to FetchConcurrency contiguous chunks    *)
(* from nextBlock and start every request.  A slot remembers the planned   *)
(* chunk, the chunk size its request uses now, and the answer.             *)
(***************************************************************************)
BatchFrom(first, k, sz) == first + (k - 1) * sz

NewSlot(first, to, k, sz) ==
  [from    |-> BatchFrom(first, k, sz),
   to      |-> PlannedTo(BatchFrom(first, k, sz), to, sz),
   size    |-> sz,
   attempt |-> 0,
   answer  |-> "pending",
   logs    |-> Nothing]

Batch(first, to, sz) ==
  [k \in {n \in 1 .. FetchConcurrency : BatchFrom(first, n, sz) <= to} |->
     NewSlot(first, to, k, sz)]

Plan(i) ==
  /\ pc[i] = "loop"
  /\ next[i] <= req[i].to
  /\ ~ aborted[i]
  /\ slots' = [slots EXCEPT ![i] = Batch(next[i], req[i].to, size[i])]
  /\ cur' = [cur EXCEPT ![i] = 1]
  /\ pc' = [pc EXCEPT ![i] = "fetching"]
  /\ UNCHANGED <<chainVars, dbVars, runVars, callVars, size, chunks, got, anchor, aborted, outcome>>

--------------------------------------------------------------------------------
(***************************************************************************)
(* fetchLogsWithPolicy, once per slot, all slots at the same time.  The    *)
(* range that is asked for is the planned one cut to the slot's size.      *)
(***************************************************************************)
AskedTo(s) == PlannedTo(s.from, s.to, s.size)
Asked(s)   == [from |-> s.from, to |-> AskedTo(s)]
TooLong(s) == AskedTo(s) - s.from + 1 > ProviderLimit

Pending(i, k) ==
  /\ pc[i] # "idle"
  /\ k \in DOMAIN slots[i]
  /\ slots[i][k].answer = "pending"

SetSlot(i, k, s) ==
  /\ slots' = [slots EXCEPT ![i] = [@ EXCEPT ![k] = s]]
  /\ UNCHANGED <<chainVars, dbVars, runVars, pc, callVars, size, chunks, cur, got, anchor,
                 aborted, outcome>>

HalfOpenLogsIn(r) == LogBlocks \cap (r.from .. r.to - 1)    \* fault: off by one
LogsIn(r) == LogBlocks \cap BlocksOf(r)

FetchAnswers(i, k) ==
  LET s == slots[i][k]
  IN  /\ Pending(i, k)
      /\ ~ TooLong(s)
      /\ SetSlot(i, k, [s EXCEPT !.answer = "logs",
                                 !.logs = [b \in LogsIn(Asked(s)) |-> hash[b]]])

\* A "range" error with a chunk size above one: ask for less.  The error may
\* also be about the size of the response, and then names no limit.
FetchShrinks(i, k) ==
  LET s == slots[i][k]
      limit == IF TooLong(s) /\ AdvertisesLimit THEN ProviderLimit ELSE 0
  IN  /\ Pending(i, k)
      /\ TooLong(s) \/ "range" \in RpcErrors
      /\ s.size > 1
      /\ SetSlot(i, k, [s EXCEPT !.size = ShrinkTo(s.size, limit), !.attempt = 0])

\* A retryable error.  Only attempt < maxRetries is ever tested, so the
\* counter stops at MaxRetries.
FetchRetries(i, k) ==
  LET s == slots[i][k]
  IN  /\ Pending(i, k)
      /\ \E class \in {"rate-limit", "transient"} :
           class \in RpcErrors /\ ShouldRetry(class, s.attempt, MaxRetries, RateLimitsForever)
      /\ SetSlot(i, k, [s EXCEPT !.attempt = Lesser(s.attempt + 1, MaxRetries)])

\* Any other error ends the request: quota and fatal errors at once, a "range"
\* error when the size is down to one, the others when the attempts are used up.
FetchGivesUp(i, k, class) ==
  LET s == slots[i][k]
  IN  /\ Pending(i, k)
      /\ class = "range" => s.size = 1
      /\ ~ ShouldRetry(class, s.attempt, MaxRetries, RateLimitsForever)
      /\ SetSlot(i, k, [s EXCEPT !.answer = class])

\* An attempt that finds the signal raised throws "Indexer interrupted".
FetchInterrupted(i, k) ==
  /\ Pending(i, k)
  /\ aborted[i]
  /\ SetSlot(i, k, [slots[i][k] EXCEPT !.answer = "fatal"])

--------------------------------------------------------------------------------
(***************************************************************************)
(* Consuming the batch in order: headers of the blocks that hold logs,     *)
(* then the anchor header when the chunk ends the request or is the        *)
(* AnchorEvery-th, then the transaction.                                   *)
(***************************************************************************)
Slot(i) == slots[i][cur[i]]

Answered(i) ==
  /\ pc[i] = "fetching"
  /\ cur[i] \in DOMAIN slots[i]
  /\ Slot(i).answer # "pending"

BatchError(i) ==
  /\ Answered(i)
  /\ Slot(i).answer # "logs"
  /\ Throw(i, Slot(i).answer)
  /\ UNCHANGED dbVars

ShouldAnchor(i, to) == to = req[i].to \/ (chunks[i] + 1) % AnchorEvery = 0

ReadHeaders(i) ==
  /\ Answered(i)
  /\ Slot(i).answer = "logs"
  /\ size' = [size EXCEPT ![i] = Slot(i).size]
  /\ got' = [got EXCEPT ![i] = [b \in DOMAIN Slot(i).logs |-> hash[b]]]
  /\ pc' = [pc EXCEPT ![i] =
               IF ShouldAnchor(i, AskedTo(Slot(i))) THEN "anchor" ELSE "persist"]
  /\ UNCHANGED <<chainVars, dbVars, runVars, callVars, chunks, slots, cur, anchor, aborted,
                 outcome>>

ReadAnchor(i) ==
  /\ pc[i] = "anchor"
  /\ anchor' = [anchor EXCEPT ![i] = [b \in {AskedTo(Slot(i))} |-> hash[b]]]
  /\ pc' = [pc EXCEPT ![i] = "persist"]
  /\ UNCHANGED <<chainVars, dbVars, runVars, callVars, size, chunks, slots, cur, got, aborted,
                 outcome>>

\* A header request fails; the anchor read has no retry policy at all.
HeaderError(i, class) ==
  /\ \/ Answered(i) /\ Slot(i).answer = "logs" /\ DOMAIN Slot(i).logs # {}
     \/ pc[i] = "anchor"
  /\ Throw(i, class)
  /\ UNCHANGED dbVars

--------------------------------------------------------------------------------
(***************************************************************************)
(* persistChunk: one transaction.  insertBlocks refuses a header whose     *)
(* stored hash differs; raw_logs keeps the first row of each key; only     *)
(* rows that were inserted now are decoded; the coverage row is the range  *)
(* that was fetched, and the checkpoint moves behind it unconditionally.   *)
(***************************************************************************)
Headers(i) ==
  [b \in DOMAIN got[i] \cup DOMAIN anchor[i] |->
     IF b \in DOMAIN anchor[i] THEN anchor[i][b] ELSE got[i][b]]

Drifted(headers) ==
  \E b \in DOMAIN headers : blockRow[b] # NoRow /\ blockRow[b] # headers[b]

\* insert ... on conflict do nothing
InsertRows(table, new) ==
  [b \in DOMAIN table |->
     IF table[b] = NoRow /\ b \in DOMAIN new THEN new[b] ELSE table[b]]

InsertedNow(logs) == {b \in DOMAIN logs : rawLog[b] = NoRow}

CoverageRow(s) == Asked(s)

\* Fault: only the hash is coalesced.
HalfCoalescedCheckpoint(to, headers) ==
  [next  |-> to + 1,
   block |-> to,
   hash  |-> IF headers = Nothing THEN checkpoint.hash ELSE headers[to]]

AdvanceCheckpoint(to, headers) ==
  [next  |-> to + 1,
   block |-> IF headers = Nothing THEN checkpoint.block ELSE to,
   hash  |-> IF headers = Nothing THEN checkpoint.hash ELSE headers[to]]

PersistChunk(i) ==
  /\ pc[i] = "persist"
  /\ ~ Drifted(Headers(i))
  /\ blockRow' = InsertRows(blockRow, Headers(i))
  /\ rawLog' = InsertRows(rawLog, Slot(i).logs)
  /\ events' = events \cup (InsertedNow(Slot(i).logs) \cap Decodable)
  /\ coverage' = coverage \cup {CoverageRow(Slot(i))}
  /\ checkpoint' = AdvanceCheckpoint(AskedTo(Slot(i)), anchor[i])

Persist(i) ==
  /\ PersistChunk(i)
  /\ next' = [next EXCEPT ![i] = AskedTo(Slot(i)) + 1]
  /\ chunks' = [chunks EXCEPT ![i] = (@ + 1) % AnchorEvery]
  /\ pc' = [pc EXCEPT ![i] = "update"]
  /\ UNCHANGED <<chainVars, runVars, req, size, slots, cur, got, anchor, aborted, outcome>>

\* The commit takes effect, but the connection is lost before it says so.
PersistUnacknowledged(i, class) == PersistChunk(i) /\ Throw(i, class)

\* The transaction is rolled back: a drifted header, or the database fails.
PersistError(i, class) ==
  /\ pc[i] = "persist"
  /\ Drifted(Headers(i)) => class = "fatal"
  /\ Throw(i, class)
  /\ UNCHANGED dbVars

(***************************************************************************)
(* The run row is written outside the transaction.  A chunk that came back *)
(* shorter than planned leaves a hole before the next slot, so the rest of *)
(* the batch is thrown away and the loop plans again behind the chunk.     *)
(***************************************************************************)
NeverShort(s) == FALSE    \* fault: the loop does not break
CameShort(s) == AskedTo(s) # s.to

Recorded(i) ==
  /\ pc[i] = "update"
  /\ UpdateRun(i, "running")
  /\ got' = [got EXCEPT ![i] = Nothing]
  /\ anchor' = [anchor EXCEPT ![i] = Nothing]
  /\ UNCHANGED <<chainVars, dbVars, callVars, size, chunks, aborted, outcome>>

\* An update of the run row fails: behind a chunk, or at the end of the call.
UpdateError(i, class) ==
  /\ \/ pc[i] = "update"
     \/ pc[i] = "loop" /\ (next[i] > req[i].to \/ aborted[i])
  /\ Throw(i, class)
  /\ UNCHANGED dbVars

NextSlot(i) ==
  /\ Recorded(i)
  /\ ~ CameShort(Slot(i)) /\ cur[i] + 1 \in DOMAIN slots[i]
  /\ cur' = [cur EXCEPT ![i] = @ + 1]
  /\ pc' = [pc EXCEPT ![i] = "fetching"]
  /\ UNCHANGED slots

EndBatch(i) ==
  /\ Recorded(i)
  /\ CameShort(Slot(i)) \/ cur[i] + 1 \notin DOMAIN slots[i]
  /\ cur' = [cur EXCEPT ![i] = 1]
  /\ slots' = [slots EXCEPT ![i] = Nothing]
  /\ pc' = [pc EXCEPT ![i] = "loop"]

--------------------------------------------------------------------------------
Enter(i) ==
  \E w \in Requests :
    \/ \E class \in Thrown : Refuse(i, w, class)
    \/ NoOp(i, w)
    \/ Start(i, w)

Fetch(i, k) ==
  \/ FetchAnswers(i, k) \/ FetchShrinks(i, k) \/ FetchRetries(i, k)
  \/ \E class \in RpcErrors : FetchGivesUp(i, k, class)
  \/ FetchInterrupted(i, k)

Consume(i) ==
  \/ ReadHeaders(i) \/ ReadAnchor(i) \/ Persist(i) \/ NextSlot(i) \/ EndBatch(i)
  \/ BatchError(i)
  \/ \E class \in Thrown :
       \/ HeaderError(i, class)
       \/ PersistError(i, class) \/ PersistUnacknowledged(i, class)
       \/ UpdateError(i, class)

\* One step of a call of ingestLogs, once it was entered.
CallStep(i) ==
  \/ Plan(i) \/ Complete(i) \/ Interrupt(i)
  \/ \E k \in 1 .. FetchConcurrency : Fetch(i, k)
  \/ Consume(i)

Next ==
  \/ ChainStep
  \/ \E i \in Ingesters : Enter(i) \/ CallStep(i) \/ Abort(i) \/ Crash(i)

Spec == Init /\ [][Next]_vars

--------------------------------------------------------------------------------
Answers  == {"pending", "logs"} \cup ErrorClass
Outcomes == {"none", "noop", "completed", "interrupted"} \cup ErrorClass
Statuses == {"running", "completed", "failed", "interrupted"}
Phases   == {"idle", "loop", "fetching", "anchor", "persist", "update"}

\* Header maps and fetched logs: a hash for some of the blocks.
HeaderMap == UNION {[B -> Hash] : B \in SUBSET Blocks}
LogMap    == UNION {[B -> Hash] : B \in SUBSET LogBlocks}

SlotType ==
  [from : Blocks, to : Blocks, size : 1 .. ChunkSize, attempt : 0 .. MaxRetries,
   answer : Answers, logs : LogMap]

IsBatch(batch) ==
  /\ DOMAIN batch \subseteq 1 .. FetchConcurrency
  /\ \A k \in DOMAIN batch : batch[k] \in SlotType

TablesTypeOK ==
  /\ checkpoint \in [next : 0 .. MaxBlock + 1, block : 0 .. MaxBlock, hash : Hash \cup {NoRow}]
  /\ coverage \subseteq [from : Blocks, to : Blocks]
  /\ blockRow \in [Blocks -> Hash \cup {NoRow}]
  /\ rawLog \in [LogBlocks -> Hash \cup {NoRow}]
  /\ events \subseteq Decodable

ResultsTypeOK ==
  /\ runs \in [Ingesters -> Statuses \cup {"none"}]
  /\ orphaned \in BOOLEAN
  /\ aborted \in [Ingesters -> BOOLEAN]
  /\ outcome \in [Ingesters -> Outcomes]

MemoryTypeOK ==
  /\ pc \in [Ingesters -> Phases]
  /\ req \in [Ingesters -> [from : Blocks, to : Blocks]]
  /\ next \in [Ingesters -> 1 .. MaxBlock + 1]
  /\ size \in [Ingesters -> 1 .. ChunkSize]
  /\ chunks \in [Ingesters -> 0 .. AnchorEvery - 1]
  /\ DOMAIN slots = Ingesters /\ \A i \in Ingesters : IsBatch(slots[i])
  /\ cur \in [Ingesters -> 1 .. FetchConcurrency]
  /\ got \in [Ingesters -> HeaderMap]
  /\ anchor \in [Ingesters -> HeaderMap]

(***************************************************************************)
(* Every variable has its type: planned, shrunk and anchored ranges stay   *)
(* inside the chain, and chunk sizes inside 1 .. ChunkSize.                *)
(***************************************************************************)
TypeOK == ChainTypeOK /\ TablesTypeOK /\ ResultsTypeOK /\ MemoryTypeOK

(***************************************************************************)
(* A coverage row is proof of its range: each log of the range is stored   *)
(* with the hash its block has on the final chain, next to that block's    *)
(* row, and has a decoded event exactly when the decoder knows it.  Holds  *)
(* for any number of unlocked ingesters, crashes, and reorganisations      *)
(* above the finalised head, between a log request and the header request  *)
(* of the same block included.                                             *)
(***************************************************************************)
EvidenceBehindCoverage ==
  \A c \in coverage : \A b \in LogsIn(c) :
    /\ rawLog[b] = hash[b]
    /\ blockRow[b] = hash[b]
    /\ b \in events <=> b \in Decodable

(***************************************************************************)
(* The durable checkpoint always points behind a committed chunk, and its  *)
(* anchor is the end of a committed chunk whose hash is still the chain's: *)
(* a resume is never refused for a drifted anchor, whatever happened       *)
(* before the restart.                                                     *)
(***************************************************************************)
CheckpointBacked ==
  /\ checkpoint.next # 0 => \E c \in coverage : c.to + 1 = checkpoint.next
  /\ checkpoint.block # 0 =>
       /\ \E c \in coverage : c.to = checkpoint.block
       /\ checkpoint.hash = hash[checkpoint.block]

(***************************************************************************)
(* Ingestion implements EvidenceLog: coverage, raw logs and events appear  *)
(* together, range by range, and are never taken back.                     *)
(***************************************************************************)
RecordedLogs == {b \in LogBlocks : rawLog[b] # NoRow /\ (b \in Decodable => b \in events)}

Evidence == INSTANCE EvidenceLog WITH
  Tracked <- LogBlocks, LastBlock <- MaxBlock,
  covered <- BlocksIn(coverage), recorded <- RecordedLogs

ImplementsEvidenceLog == Evidence!EvidenceSpec
================================================================================
