---------------------------- MODULE IngestionProofs ----------------------------
(***************************************************************************)
(* Proofs about Ingestion, for every chain, every set of ingesters and     *)
(* every value of the options.  The invariant rests on one idea: what a    *)
(* call touches lies at or below the finalised block, where hashes do not  *)
(* change any more, so an answer read now and a header read later agree.   *)
(***************************************************************************)
EXTENDS SevenDayWorker, TLAPS

\* A planned chunk ends on the final chain, and its logs carry final hashes.
SlotOK(s) ==
  /\ s.from <= s.to /\ s.to <= final
  /\ s.answer = "logs" => s.logs = [b \in LogsIn(Asked(s)) |-> hash[b]]

\* The memory of a call agrees with the final chain, whatever its phase.
CallOK(i) ==
  /\ pc[i] # "idle" => req[i].to <= final
  /\ \A k \in DOMAIN slots[i] : SlotOK(slots[i][k])
  /\ pc[i] \in {"anchor", "persist", "update"} =>
       cur[i] \in DOMAIN slots[i] /\ Slot(i).answer = "logs"
  /\ pc[i] \in {"anchor", "persist"} => got[i] = Slot(i).logs
  /\ anchor[i] # Nothing =>
       /\ pc[i] \in {"persist", "update"}
       /\ anchor[i] = [b \in {AskedTo(Slot(i))} |-> hash[b]]

\* A stored hash is final; a stored log has its block and its event.
StoredOK ==
  /\ \A b \in Blocks : blockRow[b] # NoRow => b <= final /\ blockRow[b] = hash[b]
  /\ \A b \in LogBlocks : rawLog[b] # NoRow =>
       /\ b <= final /\ rawLog[b] = hash[b] /\ blockRow[b] = hash[b]
       /\ b \in events <=> b \in Decodable

\* A coverage row lies on the final chain and has its logs stored.
CoveredOK ==
  \A c \in coverage :
    c.from <= c.to /\ c.to <= final /\ \A b \in LogsIn(c) : rawLog[b] # NoRow

CallsOK == \A i \in Ingesters : CallOK(i)

IInv == TypeOK /\ CallsOK /\ StoredOK /\ CoveredOK /\ CheckpointBacked

--------------------------------------------------------------------------------
\* A request asks for a non-empty part of the planned chunk.
LEMMA AskedInside ==
  ASSUME NEW s \in SlotType, s.from <= s.to
  PROVE  AskedTo(s) \in Blocks /\ s.from <= AskedTo(s) /\ AskedTo(s) <= s.to
BY IngestionAssumption, ChainAssumption DEF SlotType, AskedTo, PlannedTo, Lesser, Blocks

\* Hashes read for some blocks are a header map.
LEMMA HeaderMaps ==
  ASSUME NEW B \in SUBSET Blocks, NEW f \in [B -> Hash]
  PROVE  f \in HeaderMap
BY DEF HeaderMap

\* Hashes read for some log blocks are the logs of an answer.
LEMMA LogMaps ==
  ASSUME NEW B \in SUBSET LogBlocks, NEW f \in [B -> Hash]
  PROVE  f \in LogMap
BY DEF LogMap

\* The logs of an answer name log blocks.
LEMMA LogMapDomain ==
  ASSUME NEW f \in LogMap
  PROVE  DOMAIN f \subseteq LogBlocks /\ f \in [DOMAIN f -> Hash]
BY DEF LogMap

\* The empty map has every type a map may have.
LEMMA NothingTyped == Nothing \in HeaderMap /\ Nothing \in LogMap /\ IsBatch(Nothing)
<1>1. Nothing \in [{} -> Hash] /\ DOMAIN Nothing = {}
  BY DEF Nothing
<1>2. Nothing \in HeaderMap
  BY <1>1 DEF HeaderMap
<1>3. Nothing \in LogMap
  BY <1>1 DEF LogMap
<1> QED  BY <1>1, <1>2, <1>3 DEF IsBatch

\* Reading a header of one block gives something.
LEMMA OneHeader ==
  ASSUME NEW b, NEW h
  PROVE  [x \in {b} |-> h] # Nothing
<1>1. DOMAIN [x \in {b} |-> h] = {b} /\ DOMAIN Nothing = {}
  BY DEF Nothing
<1> QED  BY <1>1

LEMMA InitInv == Init => IInv
<1> SUFFICES ASSUME Init PROVE IInv
  OBVIOUS
<1> USE IngestionAssumption, ChainAssumption
<1>1. ChainTypeOK
  BY DEF Init, ChainInit, ChainTypeOK, Blocks, Hash, Greater
<1>2. TablesTypeOK
  BY DEF Init, TablesTypeOK, Blocks, Hash, NoRow
<1>3. ResultsTypeOK
  BY DEF Init, ResultsTypeOK, Statuses, Outcomes
<1>4. MemoryTypeOK
  BY NothingTyped DEF Init, MemoryTypeOK, Phases, Blocks
<1>5. CallsOK
  <2>1. DOMAIN Nothing = {}
    BY DEF Nothing
  <2> QED  BY <2>1 DEF Init, CallsOK, CallOK
<1>6. StoredOK /\ CoveredOK /\ CheckpointBacked
  BY DEF Init, StoredOK, CoveredOK, CheckpointBacked, NoRow
<1> QED  BY <1>1, <1>2, <1>3, <1>4, <1>5, <1>6 DEF IInv, TypeOK

--------------------------------------------------------------------------------
\* Nothing at or below the finalised block ever changes.
LEMMA FinalStable ==
  ASSUME ChainTypeOK, ChainNext
  PROVE  /\ ChainTypeOK'
         /\ final <= final'
         /\ \A b \in Blocks : b <= final => hash'[b] = hash[b]
<1> USE ChainAssumption
<1>1. CASE Mine
  BY <1>1 DEF Mine, ChainTypeOK, Blocks, Greater
<1>2. CASE Finalize
  BY <1>2 DEF Finalize, ChainTypeOK, Blocks
<1>3. ASSUME NEW b \in Blocks, Reorg(b) PROVE /\ ChainTypeOK' /\ final <= final'
                                              /\ \A x \in Blocks : x <= final => hash'[x] = hash[x]
  <2>1. hash' \in [Blocks -> Hash]
    BY <1>3 DEF Reorg, ChainTypeOK, Hash
  <2> QED  BY <1>3, <2>1 DEF Reorg, ChainTypeOK, Blocks
<1> QED  BY <1>1, <1>2, <1>3 DEF ChainNext

\* The logs a slot fetched do not depend on the blocks above it.
LEMMA SlotStable ==
  ASSUME NEW s \in SlotType, SlotOK(s), final \in Nat, final' \in Nat, final <= final',
         \A b \in Blocks : b <= final => hash'[b] = hash[b]
  PROVE  SlotOK(s)'
<1>1. AskedTo(s) \in Blocks /\ AskedTo(s) <= final
  BY AskedInside DEF SlotOK, SlotType, Blocks
<1>2. \A b \in LogsIn(Asked(s)) : hash'[b] = hash[b]
  BY <1>1, IngestionAssumption, ChainAssumption DEF LogsIn, Asked, BlocksOf, Blocks, SlotType
<1>3. [b \in LogsIn(Asked(s)) |-> hash[b]] = [b \in LogsIn(Asked(s)) |-> hash'[b]]
  BY <1>2
<1>4. s.from <= s.to /\ s.to <= final'
  BY DEF SlotOK, SlotType, Blocks
<1>5. s.answer = "logs" => s.logs = [b \in LogsIn(Asked(s)) |-> hash'[b]]
  BY <1>3 DEF SlotOK
<1> QED  BY <1>4, <1>5 DEF SlotOK, LogsIn, Asked, AskedTo

LEMMA ChainStepInv == IInv /\ ChainStep => IInv'
<1> SUFFICES ASSUME IInv, ChainStep PROVE IInv'
  OBVIOUS
<1> USE IngestionAssumption, ChainAssumption
<1>1. /\ ChainTypeOK' /\ final <= final'
      /\ \A b \in Blocks : b <= final => hash'[b] = hash[b]
  BY FinalStable DEF IInv, TypeOK, ChainStep
<1>2. final \in Nat /\ final' \in Nat
  BY <1>1 DEF IInv, TypeOK, ChainTypeOK, Blocks
<1>3. TypeOK'
  BY <1>1 DEF ChainStep, IInv, TypeOK, TablesTypeOK, ResultsTypeOK, MemoryTypeOK, IsBatch,
              dbVars, runVars, chunkVars, callVars
<1>4. CallsOK'
  <2> SUFFICES ASSUME NEW i \in Ingesters PROVE CallOK(i)'
    BY DEF CallsOK
  <2>1. /\ pc' = pc /\ req' = req /\ slots' = slots /\ cur' = cur /\ got' = got
        /\ anchor' = anchor
    BY DEF ChainStep, chunkVars, callVars
  <2>2. CallOK(i) /\ req[i].to \in Blocks /\ \A k \in DOMAIN slots[i] : slots[i][k] \in SlotType
    BY DEF IInv, TypeOK, MemoryTypeOK, IsBatch, CallsOK
  <2>3. \A k \in DOMAIN slots[i] : SlotOK(slots[i][k])'
    BY <1>1, <1>2, <2>1, <2>2, SlotStable DEF CallOK
  <2>4. anchor[i] # Nothing => anchor[i] = [b \in {AskedTo(Slot(i))} |-> hash'[b]]
    <3> SUFFICES ASSUME anchor[i] # Nothing
                 PROVE  anchor[i] = [b \in {AskedTo(Slot(i))} |-> hash'[b]]
      OBVIOUS
    <3>1. Slot(i) \in SlotType /\ SlotOK(Slot(i))
      BY <2>2 DEF CallOK, Slot
    <3>2. AskedTo(Slot(i)) \in Blocks /\ AskedTo(Slot(i)) <= final
      BY <3>1, <1>2, AskedInside DEF SlotOK, SlotType, Blocks
    <3>3. hash'[AskedTo(Slot(i))] = hash[AskedTo(Slot(i))]
      BY <3>2, <1>1
    <3> QED  BY <2>2, <3>3 DEF CallOK
  <2>5. pc[i] # "idle" => req[i].to <= final'
    BY <1>1, <1>2, <2>2 DEF CallOK, Blocks
  <2> QED  BY <2>1, <2>2, <2>3, <2>4, <2>5 DEF CallOK, Slot, AskedTo
<1>5. /\ blockRow' = blockRow /\ rawLog' = rawLog /\ events' = events
      /\ coverage' = coverage /\ checkpoint' = checkpoint
  BY DEF ChainStep, dbVars
<1>6. StoredOK'
  BY <1>1, <1>2, <1>5 DEF IInv, StoredOK, Blocks
<1>7. CoveredOK'
  BY <1>1, <1>2, <1>5 DEF IInv, TypeOK, TablesTypeOK, CoveredOK, Blocks, LogsIn
<1>8. CheckpointBacked'
  <2>1. checkpoint.block # 0 => checkpoint.block \in Blocks /\ checkpoint.block <= final
    BY <1>2 DEF IInv, TypeOK, TablesTypeOK, CoveredOK, CheckpointBacked, Blocks
  <2> QED  BY <1>1, <1>5, <2>1 DEF IInv, CheckpointBacked
<1> QED  BY <1>3, <1>4, <1>6, <1>7, <1>8 DEF IInv

--------------------------------------------------------------------------------
(***************************************************************************)
(* A step that leaves the chain and the tables alone keeps what is said of *)
(* them, and the memory of the ingesters it does not touch.                *)
(***************************************************************************)
SameWorld == UNCHANGED <<head, final, hash, checkpoint, coverage, blockRow, rawLog, events>>

LEMMA SameWorldInv ==
  ASSUME IInv, SameWorld
  PROVE  ChainTypeOK' /\ TablesTypeOK' /\ StoredOK' /\ CoveredOK' /\ CheckpointBacked'
BY DEF IInv, TypeOK, SameWorld, ChainTypeOK, TablesTypeOK, StoredOK, CoveredOK,
       CheckpointBacked, LogsIn

SameMemory(j) ==
  /\ pc'[j] = pc[j] /\ req'[j] = req[j] /\ slots'[j] = slots[j] /\ cur'[j] = cur[j]
  /\ got'[j] = got[j] /\ anchor'[j] = anchor[j]

LEMMA SlotSame ==
  ASSUME UNCHANGED chainVars, NEW s
  PROVE  SlotOK(s)' <=> SlotOK(s)
<1>1. final' = final /\ hash' = hash
  BY DEF chainVars
<1> QED  BY <1>1 DEF SlotOK, LogsIn, Asked, AskedTo

LEMMA OtherCalls ==
  ASSUME IInv, UNCHANGED chainVars, NEW j \in Ingesters, SameMemory(j)
  PROVE  CallOK(j)'
<1>1. CallOK(j) /\ final' = final /\ hash' = hash
  BY DEF IInv, CallsOK, chainVars
<1>2. \A k \in DOMAIN slots[j] : SlotOK(slots[j][k])'
  BY <1>1, SlotSame DEF CallOK, SameMemory
<1> QED  BY <1>1, <1>2 DEF CallOK, SameMemory, Slot, AskedTo

\* A step of one call changes no other call's memory.
LEMMA OneCall ==
  ASSUME IInv, UNCHANGED chainVars, NEW i \in Ingesters, CallOK(i)',
         \A j \in Ingesters \ {i} : SameMemory(j)
  PROVE  CallsOK'
BY OtherCalls DEF CallsOK

\* Steps that touch only results: a refused or empty call, a signal.
LEMMA ResultStepInv ==
  ASSUME IInv, SameWorld, ResultsTypeOK', UNCHANGED <<pc, chunkVars, callVars>>
  PROVE  IInv'
<1>1. ChainTypeOK' /\ TablesTypeOK' /\ StoredOK' /\ CoveredOK' /\ CheckpointBacked'
  BY SameWorldInv
<1>2. MemoryTypeOK'
  BY DEF IInv, TypeOK, MemoryTypeOK, IsBatch, chunkVars, callVars
<1>3. CallsOK'
  <2>1. UNCHANGED chainVars /\ \A j \in Ingesters : SameMemory(j)
    BY DEF SameWorld, SameMemory, chainVars, chunkVars, callVars
  <2> QED  BY <2>1, OtherCalls DEF CallsOK
<1> QED  BY <1>1, <1>2, <1>3 DEF IInv, TypeOK

\* The errors a call may end with are outcomes.
LEMMA ThrownOutcomes == Thrown \subseteq Outcomes /\ RpcErrors \subseteq Thrown
BY IngestionAssumption DEF Thrown, Outcomes, ErrorClass

LEMMA EnterWindowInv ==
  ASSUME IInv, NEW i \in Ingesters, NEW w \in [from : Blocks, to : Blocks],
         (\E class \in Thrown : Refuse(i, w, class)) \/ NoOp(i, w) \/ Start(i, w)
  PROVE  IInv'
<1> USE IngestionAssumption, ChainAssumption
<1>1. ASSUME NEW class \in Thrown, Refuse(i, w, class) PROVE IInv'
  <2>1. SameWorld /\ UNCHANGED <<pc, chunkVars, callVars>>
    BY <1>1 DEF Refuse, SameWorld, chainVars, dbVars
  <2>2. ResultsTypeOK'
    BY <1>1, ThrownOutcomes DEF Refuse, IInv, TypeOK, ResultsTypeOK, runVars
  <2> QED  BY <2>1, <2>2, ResultStepInv
<1>2. CASE NoOp(i, w)
  <2>1. SameWorld /\ UNCHANGED <<pc, chunkVars, callVars>>
    BY <1>2 DEF NoOp, SameWorld, chainVars, dbVars
  <2>2. ResultsTypeOK'
    BY <1>2 DEF NoOp, IInv, TypeOK, ResultsTypeOK, runVars, Outcomes
  <2> QED  BY <2>1, <2>2, ResultStepInv
<1>3. CASE Start(i, w)
  <2>1. SameWorld /\ UNCHANGED chainVars /\ UNCHANGED <<size, chunks, slots, cur, got, anchor>>
    BY <1>3 DEF Start, SameWorld, chainVars, dbVars, chunkVars
  <2>2. ChainTypeOK' /\ TablesTypeOK' /\ StoredOK' /\ CoveredOK' /\ CheckpointBacked'
    BY <2>1, SameWorldInv
  <2>3. ResultsTypeOK'
    BY <1>3 DEF Start, IInv, TypeOK, ResultsTypeOK, Statuses, Outcomes
  <2>4. w \in [from : Blocks, to : Blocks] /\ ResumeAt(w) \in 1 .. MaxBlock + 1
    BY DEF ResumeAt, Greater, Blocks, IInv, TypeOK, TablesTypeOK
  <2>5. MemoryTypeOK'
    BY <1>3, <2>1, <2>4 DEF Start, IInv, TypeOK, MemoryTypeOK, Phases, IsBatch
  <2>6. w.to <= final
    <3>1. head \in Int /\ final \in Int /\ head - final <= ReorgDepth /\ w.to \in Int
      BY <2>4 DEF IInv, TypeOK, ChainTypeOK, Blocks
    <3> QED  BY <1>3, <3>1 DEF Start, Admissible, FinalizedHead
  <2>7. CallOK(i)'
    <3>1. pc[i] = "idle" /\ pc'[i] = "loop" /\ req'[i] = w
      BY <1>3 DEF Start, IInv, TypeOK, MemoryTypeOK
    <3>2. anchor[i] = Nothing
      BY <3>1 DEF IInv, CallsOK, CallOK
    <3>3. \A k \in DOMAIN slots[i] : SlotOK(slots[i][k])'
      BY <2>1, SlotSame DEF IInv, CallsOK, CallOK
    <3> QED  BY <2>1, <2>6, <3>1, <3>2, <3>3 DEF CallOK, chainVars
  <2>8. \A j \in Ingesters \ {i} : SameMemory(j)
    BY <1>3, <2>1 DEF Start, SameMemory, IInv, TypeOK, MemoryTypeOK
  <2>9. CallsOK'
    BY <2>1, <2>7, <2>8, OneCall
  <2> QED  BY <2>2, <2>3, <2>5, <2>9 DEF IInv, TypeOK
<1> QED  BY <1>1, <1>2, <1>3

LEMMA EnterInv ==
  ASSUME IInv, NEW i \in Ingesters, Enter(i)
  PROVE  IInv'
BY EnterWindowInv, IngestionAssumption DEF Enter

--------------------------------------------------------------------------------
\* A call that ends forgets everything; the tables are somebody else's proof.
LEMMA ForgetInv ==
  ASSUME IInv, NEW i \in Ingesters, Forget(i), UNCHANGED chainVars
  PROVE  MemoryTypeOK' /\ CallsOK'
<1> USE IngestionAssumption, ChainAssumption
<1>1. MemoryTypeOK'
  BY NothingTyped DEF Forget, IInv, TypeOK, MemoryTypeOK, Phases, Blocks, IsBatch
<1>2. CallOK(i)'
  <2>1. DOMAIN Nothing = {}
    BY DEF Nothing
  <2>2. pc'[i] = "idle" /\ slots'[i] = Nothing /\ anchor'[i] = Nothing
    BY DEF Forget, IInv, TypeOK, MemoryTypeOK
  <2> QED  BY <2>1, <2>2 DEF CallOK
<1>3. \A j \in Ingesters \ {i} : SameMemory(j)
  BY DEF Forget, SameMemory, IInv, TypeOK, MemoryTypeOK
<1> QED  BY <1>1, <1>2, <1>3, OneCall

\* The run row, the outcome and the memory of a call that throws.
LEMMA ThrowInv ==
  ASSUME IInv, NEW i \in Ingesters, NEW class \in Outcomes, Throw(i, class)
  PROVE  UNCHANGED chainVars /\ ResultsTypeOK' /\ MemoryTypeOK' /\ CallsOK'
<1>1. UNCHANGED chainVars /\ Forget(i) /\ aborted' = aborted
  BY DEF Throw, Return, Leave
<1>2. ResultsTypeOK'
  BY <1>1, ThrownOutcomes
     DEF Throw, Return, Leave, UpdateRun, IInv, TypeOK, ResultsTypeOK, Statuses, Outcomes, runVars
<1> QED  BY <1>1, <1>2, ForgetInv

\* The steps that end a call and leave the tables alone.
LEMMA ThrowStepInv ==
  ASSUME IInv, NEW i \in Ingesters, NEW class \in Outcomes, Throw(i, class), UNCHANGED dbVars
  PROVE  IInv'
<1>1. UNCHANGED chainVars /\ ResultsTypeOK' /\ MemoryTypeOK' /\ CallsOK'
  BY ThrowInv
<1>2. SameWorld
  BY <1>1 DEF SameWorld, chainVars, dbVars
<1> QED  BY <1>1, <1>2, SameWorldInv DEF IInv, TypeOK

LEMMA LeaveInv ==
  ASSUME IInv, NEW i \in Ingesters, Complete(i) \/ Interrupt(i) \/ Die(i)
  PROVE  IInv'
<1>1. SameWorld /\ UNCHANGED chainVars /\ Forget(i)
  BY DEF Complete, Interrupt, Die, Return, Leave, SameWorld, chainVars, dbVars
<1>2. ResultsTypeOK'
  BY DEF Complete, Interrupt, Die, Return, Leave, UpdateRun, IInv, TypeOK,
         ResultsTypeOK, Statuses, Outcomes, runVars
<1>3. MemoryTypeOK' /\ CallsOK'
  BY <1>1, ForgetInv
<1> QED  BY <1>1, <1>2, <1>3, SameWorldInv DEF IInv, TypeOK

LEMMA AbortInv ==
  ASSUME IInv, NEW i \in Ingesters, Abort(i)
  PROVE  IInv'
<1>1. SameWorld /\ UNCHANGED <<pc, chunkVars, callVars>>
  BY DEF Abort, SameWorld, chainVars, dbVars
<1>2. ResultsTypeOK'
  BY DEF Abort, IInv, TypeOK, ResultsTypeOK, runVars
<1> QED  BY <1>1, <1>2, ResultStepInv

--------------------------------------------------------------------------------
\* The chunks of a batch lie between nextBlock and the end of the request.
LEMMA BatchTyped ==
  ASSUME NEW first \in Blocks, NEW to \in Blocks, NEW sz \in 1 .. ChunkSize,
         NEW k \in 1 .. FetchConcurrency, BatchFrom(first, k, sz) <= to
  PROVE  /\ NewSlot(first, to, k, sz) \in SlotType
         /\ NewSlot(first, to, k, sz).from <= NewSlot(first, to, k, sz).to
         /\ NewSlot(first, to, k, sz).to <= to
         /\ NewSlot(first, to, k, sz).answer = "pending"
<1> USE IngestionAssumption, ChainAssumption
<1> DEFINE f == BatchFrom(first, k, sz)
<1>1. first \in Int /\ first >= 1 /\ k \in Nat /\ k >= 1 /\ sz \in Nat /\ sz >= 1 /\ to \in Nat
  BY DEF Blocks
<1>2. (k - 1) * sz \in Nat
  <2>1. \A a, b \in Nat : a * b \in Nat
    OBVIOUS
  <2>2. k - 1 \in Nat
    BY <1>1
  <2> QED  BY <1>1, <2>1, <2>2
<1>3. f \in Blocks /\ f <= to
  BY <1>1, <1>2 DEF BatchFrom, Blocks
<1>4. PlannedTo(f, to, sz) \in Blocks /\ f <= PlannedTo(f, to, sz) /\ PlannedTo(f, to, sz) <= to
  BY <1>1, <1>3 DEF PlannedTo, Lesser, Blocks
<1>5. 0 \in 0 .. MaxRetries
  OBVIOUS
<1> HIDE DEF f
<1>6. NewSlot(first, to, k, sz) =
        [from |-> f, to |-> PlannedTo(f, to, sz), size |-> sz, attempt |-> 0,
         answer |-> "pending", logs |-> Nothing]
  BY DEF NewSlot, f
<1> QED  BY <1>3, <1>4, <1>5, <1>6, NothingTyped DEF SlotType, Answers

LEMMA PlanInv ==
  ASSUME IInv, NEW i \in Ingesters, Plan(i)
  PROVE  IInv'
<1> USE IngestionAssumption, ChainAssumption
<1>1. SameWorld /\ UNCHANGED chainVars
  BY DEF Plan, SameWorld, chainVars, dbVars
<1>2. ResultsTypeOK'
  BY DEF Plan, IInv, TypeOK, ResultsTypeOK, runVars
<1> PICK batch : batch = Batch(next[i], req[i].to, size[i])
  OBVIOUS
<1>3. /\ next[i] \in Blocks /\ req[i].to \in Blocks /\ size[i] \in 1 .. ChunkSize
      /\ req[i].to <= final /\ req[i].to \in Nat /\ final \in Nat
  <2>1. /\ next[i] \in 1 .. MaxBlock + 1 /\ req[i].to \in Blocks /\ size[i] \in 1 .. ChunkSize
        /\ final \in Nat
    BY DEF IInv, TypeOK, MemoryTypeOK, ChainTypeOK
  <2>2. next[i] <= req[i].to /\ req[i].to <= final
    BY DEF Plan, IInv, CallsOK, CallOK
  <2> QED  BY <2>1, <2>2 DEF Blocks
<1>4. IsBatch(batch) /\ \A k \in DOMAIN batch : SlotOK(batch[k])
  <2> SUFFICES ASSUME NEW k \in DOMAIN batch
               PROVE  k \in 1 .. FetchConcurrency /\ batch[k] \in SlotType /\ SlotOK(batch[k])
    BY DEF IsBatch
  <2>1. /\ k \in 1 .. FetchConcurrency /\ BatchFrom(next[i], k, size[i]) <= req[i].to
        /\ batch[k] = NewSlot(next[i], req[i].to, k, size[i])
    BY DEF Batch
  <2>2. /\ batch[k] \in SlotType /\ batch[k].from <= batch[k].to /\ batch[k].to <= req[i].to
        /\ batch[k].answer = "pending"
    BY <1>3, <2>1, BatchTyped
  <2>3. batch[k].to \in Nat
    BY <2>2 DEF SlotType, Blocks
  <2>4. batch[k].to <= final
    BY <1>3, <2>2, <2>3
  <2> QED  BY <2>1, <2>2, <2>4 DEF SlotOK
<1>5. /\ slots' = [slots EXCEPT ![i] = batch] /\ cur' = [cur EXCEPT ![i] = 1]
      /\ pc[i] = "loop" /\ pc' = [pc EXCEPT ![i] = "fetching"]
      /\ UNCHANGED <<req, next, size, chunks, got, anchor>>
  BY DEF Plan, callVars
<1>6. MemoryTypeOK'
  BY <1>4, <1>5 DEF IInv, TypeOK, MemoryTypeOK, Phases, IsBatch
<1>7. slots'[i] = batch /\ pc'[i] = "fetching"
  BY <1>5 DEF IInv, TypeOK, MemoryTypeOK
<1>8. CallOK(i)'
  <2>1. \A k \in DOMAIN batch : SlotOK(batch[k])'
    BY <1>1, <1>4, SlotSame
  <2>2. anchor[i] = Nothing
    BY <1>5 DEF IInv, CallsOK, CallOK
  <2>3. \A k \in DOMAIN slots[i]' : SlotOK(slots[i][k])'
    BY <1>7, <2>1 DEF SlotOK, LogsIn, Asked, AskedTo
  <2> QED  BY <1>1, <1>3, <1>5, <1>7, <2>2, <2>3 DEF CallOK, chainVars
<1>9. \A j \in Ingesters \ {i} : SameMemory(j)
  BY <1>5 DEF SameMemory, IInv, TypeOK, MemoryTypeOK
<1> QED  BY <1>1, <1>2, <1>6, <1>8, <1>9, SameWorldInv, OneCall DEF IInv, TypeOK

--------------------------------------------------------------------------------
(***************************************************************************)
(* Every fetch step replaces one pending slot by one that plans the same   *)
(* chunk: the answer, if it is one, is what the chain says of the asked    *)
(* range.                                                                  *)
(***************************************************************************)
LEMMA SetSlotInv ==
  ASSUME IInv, NEW i \in Ingesters, NEW k, Pending(i, k),
         NEW s \in SlotType, SlotOK(s), SetSlot(i, k, s)
  PROVE  IInv'
<1>1. SameWorld /\ UNCHANGED chainVars
  BY DEF SetSlot, SameWorld, chainVars, dbVars
<1>2. ResultsTypeOK'
  BY DEF SetSlot, IInv, TypeOK, ResultsTypeOK, runVars
<1>3. /\ k \in DOMAIN slots[i] /\ pc[i] # "idle" /\ slots[i][k].answer = "pending"
      /\ slots' = [slots EXCEPT ![i] = [slots[i] EXCEPT ![k] = s]]
      /\ UNCHANGED <<pc, req, next, size, chunks, cur, got, anchor>>
  BY DEF Pending, SetSlot, callVars
<1>4. IsBatch(slots[i]) /\ i \in DOMAIN slots
  BY DEF IInv, TypeOK, MemoryTypeOK
<1>5. /\ DOMAIN slots'[i] = DOMAIN slots[i] /\ slots'[i][k] = s
      /\ \A n \in DOMAIN slots[i] \ {k} : slots'[i][n] = slots[i][n]
  BY <1>3, <1>4
<1>6. IsBatch(slots'[i])
  BY <1>4, <1>5 DEF IsBatch
<1>7. MemoryTypeOK'
  BY <1>3, <1>6 DEF IInv, TypeOK, MemoryTypeOK, IsBatch
<1>8. CallOK(i)'
  <2>1. CallOK(i) /\ final' = final /\ hash' = hash
    BY <1>1 DEF IInv, CallsOK, chainVars
  <2>2. \A n \in DOMAIN slots[i]' : SlotOK(slots[i][n])'
    <3>1. SlotOK(s)' /\ \A n \in DOMAIN slots[i] : SlotOK(slots[i][n])
      BY <1>1, <2>1, SlotSame DEF CallOK
    <3> QED  BY <1>5, <2>1, <3>1, SMTT(30) DEF SlotOK, LogsIn, Asked, AskedTo
  <2>3. pc[i] \in {"anchor", "persist", "update"} => cur[i] # k
    BY <1>3, <2>1 DEF CallOK, Slot
  <2>4. pc[i] \in {"anchor", "persist", "update"} => Slot(i)' = Slot(i) /\ cur[i] \in DOMAIN slots[i]
    BY <1>3, <1>5, <2>1, <2>3 DEF CallOK, Slot
  <2> QED  BY <1>3, <1>5, <2>1, <2>2, <2>4 DEF CallOK, AskedTo
<1>9. \A j \in Ingesters \ {i} : SameMemory(j)
  BY <1>3 DEF SameMemory, IInv, TypeOK, MemoryTypeOK
<1> QED  BY <1>1, <1>2, <1>7, <1>8, <1>9, SameWorldInv, OneCall DEF IInv, TypeOK

LEMMA FetchInv ==
  ASSUME IInv, NEW i \in Ingesters, NEW k, Fetch(i, k)
  PROVE  IInv'
<1> USE IngestionAssumption, ChainAssumption
<1> DEFINE s == slots[i][k]
<1>1. Pending(i, k)
  BY DEF Fetch, FetchAnswers, FetchShrinks, FetchRetries, FetchGivesUp, FetchInterrupted
<1>2. s \in SlotType /\ SlotOK(s) /\ s.answer = "pending"
  BY <1>1 DEF Pending, IInv, TypeOK, MemoryTypeOK, IsBatch, CallsOK, CallOK
<1>3. AskedTo(s) \in Blocks /\ AskedTo(s) <= s.to /\ s.from \in Blocks /\ s.to \in Blocks
  BY <1>2, AskedInside DEF SlotOK, SlotType
<1> HIDE DEF s
<1>4. CASE FetchAnswers(i, k)
  <2> DEFINE logs == [b \in LogsIn(Asked(s)) |-> hash[b]]
             t == [s EXCEPT !.answer = "logs", !.logs = logs]
  <2>1. LogsIn(Asked(s)) \subseteq LogBlocks /\ LogBlocks \subseteq Blocks
    BY DEF LogsIn
  <2>2. logs \in [LogsIn(Asked(s)) -> Hash]
    BY <2>1 DEF IInv, TypeOK, ChainTypeOK
  <2>3. logs \in LogMap
    BY <2>1, <2>2, LogMaps
  <2> HIDE DEF logs
  <2>4. /\ t \in SlotType /\ t.from = s.from /\ t.to = s.to /\ t.size = s.size
        /\ t.logs = logs
    BY <1>2, <2>3 DEF SlotType, Answers
  <2>5. Asked(t) = Asked(s)
    BY <2>4 DEF Asked, AskedTo
  <2>6. SlotOK(t)
    BY <1>2, <2>4, <2>5 DEF SlotOK, logs
  <2>7. SetSlot(i, k, t)
    BY <1>4 DEF FetchAnswers, s, logs
  <2> QED  BY <1>1, <2>4, <2>6, <2>7, SetSlotInv
<1>5. ASSUME NEW t \in SlotType, SetSlot(i, k, t), t.from = s.from, t.to = s.to,
             t.answer # "logs"
      PROVE  IInv'
  <2>1. SlotOK(t)
    BY <1>2, <1>5 DEF SlotOK
  <2> QED  BY <1>1, <1>5, <2>1, SetSlotInv
<1>6. CASE FetchShrinks(i, k)
  <2>1. PICK limit \in Nat : s.size > 1 /\
          SetSlot(i, k, [s EXCEPT !.size = ShrinkTo(s.size, limit), !.attempt = 0])
    BY <1>6 DEF FetchShrinks, s
  <2>2. ShrinkTo(s.size, limit) \in 1 .. ChunkSize /\ 0 \in 0 .. MaxRetries
    <3>1. s.size \in Nat /\ s.size <= ChunkSize /\ s.size > 1
      BY <1>2, <2>1 DEF SlotType
    <3>2. s.size \div 2 \in Int /\ s.size \div 2 <= s.size
      BY <3>1
    <3> QED  BY <2>1, <3>1, <3>2 DEF ShrinkTo, ReduceChunkSize, Lesser, Greater
  <2> DEFINE t == [s EXCEPT !.size = ShrinkTo(s.size, limit), !.attempt = 0]
  <2>3. t \in SlotType /\ t.from = s.from /\ t.to = s.to /\ t.answer # "logs"
    BY <1>2, <2>2 DEF SlotType
  <2> QED  BY <1>5, <2>1, <2>3
<1>7. CASE FetchRetries(i, k)
  <2> DEFINE t == [s EXCEPT !.attempt = Lesser(s.attempt + 1, MaxRetries)]
  <2>1. SetSlot(i, k, t)
    BY <1>7 DEF FetchRetries, s
  <2>2. Lesser(s.attempt + 1, MaxRetries) \in 0 .. MaxRetries
    BY <1>2 DEF SlotType, Lesser
  <2>3. t \in SlotType /\ t.from = s.from /\ t.to = s.to /\ t.answer # "logs"
    BY <1>2, <2>2 DEF SlotType
  <2> QED  BY <1>5, <2>1, <2>3
<1>8. ASSUME NEW class \in RpcErrors \cup {"fatal"},
             SetSlot(i, k, [s EXCEPT !.answer = class])
      PROVE  IInv'
  <2>1. class \in Answers /\ class # "logs"
    BY DEF Answers, ErrorClass
  <2> DEFINE t == [s EXCEPT !.answer = class]
  <2>2. t \in SlotType /\ t.from = s.from /\ t.to = s.to /\ t.answer # "logs"
    BY <1>2, <2>1 DEF SlotType
  <2> QED  BY <1>5, <1>8, <2>2
<1>9. ASSUME NEW class \in RpcErrors, FetchGivesUp(i, k, class) PROVE IInv'
  BY <1>8, <1>9 DEF FetchGivesUp, s
<1>10. CASE FetchInterrupted(i, k)
  BY <1>8, <1>10 DEF FetchInterrupted, s
<1> QED  BY <1>4, <1>6, <1>7, <1>9, <1>10 DEF Fetch

--------------------------------------------------------------------------------
(***************************************************************************)
(* Steps that only move one call along, with its slots as they are.        *)
(***************************************************************************)
MovesOn(i) ==
  /\ SameWorld
  /\ UNCHANGED <<req, next, slots, runs, orphaned, aborted, outcome>>
  /\ \A j \in Ingesters \ {i} : SameMemory(j)

LEMMA MovesOnInv ==
  ASSUME IInv, NEW i \in Ingesters, MovesOn(i), MemoryTypeOK',
         pc[i] # "idle",
         pc'[i] \in {"anchor", "persist", "update"} =>
           cur'[i] \in DOMAIN slots[i] /\ slots[i][cur'[i]].answer = "logs",
         pc'[i] \in {"anchor", "persist"} => got'[i] = slots[i][cur'[i]].logs,
         anchor'[i] # Nothing =>
           /\ pc'[i] \in {"persist", "update"}
           /\ anchor'[i] = [b \in {AskedTo(slots[i][cur'[i]])} |-> hash[b]]
  PROVE  IInv'
<1>1. UNCHANGED chainVars /\ hash' = hash /\ final' = final /\ slots' = slots /\ req' = req
  BY DEF MovesOn, SameWorld, chainVars
<1>2. ResultsTypeOK'
  BY DEF MovesOn, IInv, TypeOK, ResultsTypeOK
<1>3. CallOK(i)'
  <2>1. req[i].to <= final /\ \A k \in DOMAIN slots[i] : SlotOK(slots[i][k])
    BY DEF IInv, CallsOK, CallOK
  <2>2. \A k \in DOMAIN slots[i] : SlotOK(slots[i][k])'
    BY <1>1, <2>1, SlotSame
  <2> QED  BY <1>1, <2>1, <2>2 DEF CallOK, Slot, AskedTo
<1> QED  BY <1>1, <1>2, <1>3, SameWorldInv, OneCall DEF IInv, TypeOK, MovesOn

\* The answered slot the loop awaits, and the range it stands for.
LEMMA AnsweredSlot ==
  ASSUME IInv, NEW i \in Ingesters, cur[i] \in DOMAIN slots[i], Slot(i).answer = "logs"
  PROVE  /\ Slot(i) \in SlotType /\ SlotOK(Slot(i))
         /\ AskedTo(Slot(i)) \in Blocks /\ AskedTo(Slot(i)) <= final
         /\ Slot(i).from \in Blocks /\ Slot(i).from <= AskedTo(Slot(i))
         /\ Slot(i).logs = [b \in LogsIn(Asked(Slot(i))) |-> hash[b]]
<1>1. Slot(i) \in SlotType /\ SlotOK(Slot(i)) /\ final \in Nat
  <2>1. IsBatch(slots[i]) /\ CallOK(i) /\ final \in Nat
    BY DEF IInv, TypeOK, MemoryTypeOK, CallsOK, ChainTypeOK
  <2> QED  BY <2>1 DEF IsBatch, CallOK, Slot
<1>2. /\ AskedTo(Slot(i)) \in Blocks /\ AskedTo(Slot(i)) <= Slot(i).to
      /\ Slot(i).from <= AskedTo(Slot(i)) /\ Slot(i).to <= final /\ Slot(i).to \in Blocks
  BY <1>1, AskedInside DEF SlotOK, SlotType
<1>3. AskedTo(Slot(i)) <= final
  BY <1>1, <1>2 DEF Blocks
<1> QED  BY <1>1, <1>2, <1>3 DEF SlotOK, SlotType

LEMMA ReadHeadersInv ==
  ASSUME IInv, NEW i \in Ingesters, ReadHeaders(i)
  PROVE  IInv'
<1> USE IngestionAssumption, ChainAssumption
<1>1. /\ pc[i] = "fetching" /\ cur[i] \in DOMAIN slots[i] /\ Slot(i).answer = "logs"
      /\ UNCHANGED <<chunks, slots, cur, anchor, req, next>>
  BY DEF ReadHeaders, Answered, callVars
<1>2. Slot(i) \in SlotType /\ Slot(i).logs = [b \in LogsIn(Asked(Slot(i))) |-> hash[b]]
  BY <1>1, AnsweredSlot
<1> DEFINE headers == [b \in DOMAIN Slot(i).logs |-> hash[b]]
<1>3. headers = Slot(i).logs
  BY <1>2
<1>4. headers \in HeaderMap
  <2>1. Slot(i).logs \in LogMap
    BY <1>2 DEF SlotType
  <2>2. DOMAIN Slot(i).logs \subseteq Blocks /\ Slot(i).logs \in [DOMAIN Slot(i).logs -> Hash]
    BY <2>1, LogMapDomain
  <2> QED  BY <1>3, <2>2, HeaderMaps
<1>5. size' = [size EXCEPT ![i] = Slot(i).size] /\ got' = [got EXCEPT ![i] = headers]
  BY DEF ReadHeaders
<1> HIDE DEF headers
<1>6. Slot(i).size \in 1 .. ChunkSize
  BY <1>2 DEF SlotType
<1>7. PICK to \in {"anchor", "persist"} : pc' = [pc EXCEPT ![i] = to]
  BY DEF ReadHeaders
<1>8. MemoryTypeOK'
  BY <1>1, <1>4, <1>5, <1>6, <1>7 DEF IInv, TypeOK, MemoryTypeOK, IsBatch, Phases
<1>9. MovesOn(i)
  BY <1>1, <1>5, <1>7 DEF ReadHeaders, MovesOn, SameWorld, SameMemory, chainVars, dbVars,
                          runVars, callVars, IInv, TypeOK, MemoryTypeOK
<1>10. pc'[i] \in {"anchor", "persist"} /\ got'[i] = headers /\ cur'[i] = cur[i]
  BY <1>1, <1>5, <1>7 DEF IInv, TypeOK, MemoryTypeOK
<1>11. anchor'[i] = Nothing
  BY <1>1 DEF IInv, CallsOK, CallOK
<1> QED  BY <1>1, <1>3, <1>8, <1>9, <1>10, <1>11, MovesOnInv DEF Slot

LEMMA ReadAnchorInv ==
  ASSUME IInv, NEW i \in Ingesters, ReadAnchor(i)
  PROVE  IInv'
<1> USE IngestionAssumption, ChainAssumption
<1>1. /\ pc[i] = "anchor" /\ pc' = [pc EXCEPT ![i] = "persist"]
      /\ UNCHANGED <<size, chunks, slots, cur, got, req, next>>
  BY DEF ReadAnchor, callVars
<1>2. cur[i] \in DOMAIN slots[i] /\ Slot(i).answer = "logs" /\ got[i] = Slot(i).logs
  BY <1>1 DEF IInv, CallsOK, CallOK
<1>3. AskedTo(Slot(i)) \in Blocks
  BY <1>2, AnsweredSlot
<1> DEFINE header == [b \in {AskedTo(Slot(i))} |-> hash[b]]
<1>4. header \in HeaderMap
  <2>1. header \in [{AskedTo(Slot(i))} -> Hash] /\ {AskedTo(Slot(i))} \subseteq Blocks
    BY <1>3 DEF IInv, TypeOK, ChainTypeOK
  <2> QED  BY <2>1, HeaderMaps
<1>5. anchor' = [anchor EXCEPT ![i] = header]
  BY DEF ReadAnchor
<1> HIDE DEF header
<1>6. MemoryTypeOK'
  BY <1>1, <1>4, <1>5 DEF IInv, TypeOK, MemoryTypeOK, IsBatch, Phases
<1>7. MovesOn(i)
  BY <1>1, <1>5 DEF ReadAnchor, MovesOn, SameWorld, SameMemory, chainVars, dbVars,
                    runVars, callVars, IInv, TypeOK, MemoryTypeOK
<1>8. pc'[i] = "persist" /\ got'[i] = got[i] /\ cur'[i] = cur[i] /\ anchor'[i] = header
  BY <1>1, <1>5 DEF IInv, TypeOK, MemoryTypeOK
<1> QED  BY <1>1, <1>2, <1>6, <1>7, <1>8, MovesOnInv DEF Slot, header

\* Behind a chunk: await the next slot, or plan again.
LEMMA RecordedInv ==
  ASSUME IInv, NEW i \in Ingesters, NextSlot(i) \/ EndBatch(i)
  PROVE  IInv'
<1> USE IngestionAssumption, ChainAssumption
<1>1. /\ SameWorld /\ UNCHANGED chainVars /\ pc[i] = "update"
      /\ got' = [got EXCEPT ![i] = Nothing] /\ anchor' = [anchor EXCEPT ![i] = Nothing]
      /\ UNCHANGED <<req, next, size, chunks>>
  BY DEF NextSlot, EndBatch, Recorded, SameWorld, chainVars, dbVars, callVars
<1>2. ResultsTypeOK'
  BY DEF NextSlot, EndBatch, Recorded, UpdateRun, IInv, TypeOK, ResultsTypeOK, Statuses
<1>3. PICK c \in 1 .. FetchConcurrency, p \in {"fetching", "loop"} :
        /\ cur' = [cur EXCEPT ![i] = c] /\ pc' = [pc EXCEPT ![i] = p]
        /\ slots' = slots \/ slots' = [slots EXCEPT ![i] = Nothing]
  <2>1. CASE NextSlot(i)
    <3>1. cur[i] + 1 \in 1 .. FetchConcurrency
      BY <2>1 DEF NextSlot, IInv, TypeOK, MemoryTypeOK, IsBatch
    <3>2. cur' = [cur EXCEPT ![i] = cur[i] + 1] /\ pc' = [pc EXCEPT ![i] = "fetching"]
          /\ slots' = slots
      BY <2>1 DEF NextSlot
    <3> QED  BY <3>1, <3>2
  <2>2. CASE EndBatch(i)
    <3>1. 1 \in 1 .. FetchConcurrency
      OBVIOUS
    <3>2. /\ cur' = [cur EXCEPT ![i] = 1] /\ pc' = [pc EXCEPT ![i] = "loop"]
          /\ slots' = [slots EXCEPT ![i] = Nothing]
      BY <2>2 DEF EndBatch
    <3> QED  BY <3>1, <3>2
  <2> QED  BY <2>1, <2>2
<1>4. MemoryTypeOK'
  BY <1>1, <1>3, NothingTyped DEF IInv, TypeOK, MemoryTypeOK, IsBatch, Phases
<1>5. CallOK(i)'
  <2>1. /\ pc'[i] = p /\ anchor'[i] = Nothing /\ req' = req
        /\ slots'[i] = slots[i] \/ slots'[i] = Nothing
    BY <1>1, <1>3 DEF IInv, TypeOK, MemoryTypeOK
  <2>2. CallOK(i) /\ final' = final /\ hash' = hash
    BY <1>1 DEF IInv, CallsOK, chainVars
  <2>3. DOMAIN Nothing = {}
    BY DEF Nothing
  <2>4. \A k \in DOMAIN slots[i] : SlotOK(slots[i][k])
    BY <2>2 DEF CallOK
  <2>5. \A k \in DOMAIN slots[i]' : SlotOK(slots[i][k])'
    BY <2>1, <2>2, <2>3, <2>4 DEF SlotOK, LogsIn, Asked, AskedTo
  <2> QED  BY <1>1, <2>1, <2>2, <2>5 DEF CallOK
<1>6. \A j \in Ingesters \ {i} : SameMemory(j)
  BY <1>1, <1>3 DEF SameMemory, IInv, TypeOK, MemoryTypeOK
<1> QED  BY <1>1, <1>2, <1>4, <1>5, <1>6, SameWorldInv, OneCall DEF IInv, TypeOK

--------------------------------------------------------------------------------
(***************************************************************************)
(* The transaction.  What it writes, in terms of the final chain: the      *)
(* headers and the logs it holds are those of the chain, and lie at or     *)
(* below the finalised block.                                              *)
(***************************************************************************)
LEMMA PersistReads ==
  ASSUME IInv, NEW i \in Ingesters, PersistChunk(i)
  PROVE  LET s == Slot(i)
         IN  /\ cur[i] \in DOMAIN slots[i] /\ s.answer = "logs"
             /\ AskedTo(s) \in Blocks /\ AskedTo(s) <= final
             /\ s.from \in Blocks /\ s.from <= AskedTo(s)
             /\ s.logs = [b \in LogsIn(Asked(s)) |-> hash[b]]
             /\ anchor[i] \in {Nothing, [b \in {AskedTo(s)} |-> hash[b]]}
             /\ DOMAIN anchor[i] \subseteq {AskedTo(s)}
             /\ DOMAIN got[i] = LogsIn(Asked(s))
             /\ \A b \in DOMAIN Headers(i) :
                  b \in Blocks /\ b <= final /\ Headers(i)[b] = hash[b]
<1> USE IngestionAssumption, ChainAssumption
<1>1. /\ cur[i] \in DOMAIN slots[i] /\ Slot(i).answer = "logs" /\ got[i] = Slot(i).logs
      /\ anchor[i] \in {Nothing, [b \in {AskedTo(Slot(i))} |-> hash[b]]}
  BY DEF PersistChunk, IInv, CallsOK, CallOK
<1>2. /\ AskedTo(Slot(i)) \in Blocks /\ AskedTo(Slot(i)) <= final
      /\ Slot(i).from \in Blocks /\ Slot(i).from <= AskedTo(Slot(i))
      /\ Slot(i).logs = [b \in LogsIn(Asked(Slot(i))) |-> hash[b]]
  BY <1>1, AnsweredSlot
<1>3. DOMAIN Nothing = {}
  BY DEF Nothing
<1>4. DOMAIN anchor[i] \subseteq {AskedTo(Slot(i))}
  BY <1>1, <1>3
<1>5. \A b \in DOMAIN anchor[i] : anchor[i][b] = hash[b] /\ b \in Blocks /\ b <= final
  BY <1>1, <1>2, <1>3
<1>6. DOMAIN got[i] = LogsIn(Asked(Slot(i))) /\ \A b \in DOMAIN got[i] : got[i][b] = hash[b]
  BY <1>1, <1>2
<1>7. \A b \in LogsIn(Asked(Slot(i))) : b \in Blocks /\ b <= final
  <2>1. final \in Nat
    BY DEF IInv, TypeOK, ChainTypeOK
  <2> QED  BY <2>1, <1>2 DEF LogsIn, Asked, BlocksOf, Blocks
<1>8. \A b \in DOMAIN Headers(i) :
        b \in Blocks /\ b <= final /\ Headers(i)[b] = hash[b]
  BY <1>5, <1>6, <1>7 DEF Headers
<1> QED  BY <1>1, <1>2, <1>4, <1>6, <1>8

LEMMA PersistWrites ==
  ASSUME IInv, NEW i \in Ingesters, PersistChunk(i)
  PROVE  LET s == Slot(i)
         IN  /\ coverage' = coverage \cup {Asked(s)}
             /\ \A b \in Blocks : blockRow'[b] =
                  IF blockRow[b] = NoRow /\ b \in DOMAIN Headers(i) THEN hash[b] ELSE blockRow[b]
             /\ \A b \in LogBlocks : rawLog'[b] =
                  IF rawLog[b] = NoRow /\ b \in LogsIn(Asked(s)) THEN hash[b] ELSE rawLog[b]
             /\ \A b \in LogBlocks : b \in events' <=>
                  \/ b \in events
                  \/ rawLog[b] = NoRow /\ b \in LogsIn(Asked(s)) /\ b \in Decodable
             /\ DOMAIN blockRow' = Blocks /\ DOMAIN rawLog' = LogBlocks
             /\ events' \subseteq Decodable
             /\ checkpoint' = AdvanceCheckpoint(AskedTo(s), anchor[i])
<1> USE IngestionAssumption, ChainAssumption
<1>1. /\ Slot(i).logs = [b \in LogsIn(Asked(Slot(i))) |-> hash[b]]
      /\ \A b \in DOMAIN Headers(i) : Headers(i)[b] = hash[b]
  BY PersistReads
<1>2. /\ DOMAIN Slot(i).logs = LogsIn(Asked(Slot(i)))
      /\ \A b \in LogsIn(Asked(Slot(i))) : Slot(i).logs[b] = hash[b]
  BY <1>1
<1>3. /\ DOMAIN blockRow = Blocks /\ DOMAIN rawLog = LogBlocks /\ events \subseteq Decodable
  BY DEF IInv, TypeOK, TablesTypeOK
<1>4. /\ blockRow' = InsertRows(blockRow, Headers(i))
      /\ rawLog' = InsertRows(rawLog, Slot(i).logs)
      /\ events' = events \cup (InsertedNow(Slot(i).logs) \cap Decodable)
      /\ coverage' = coverage \cup {Asked(Slot(i))}
      /\ checkpoint' = AdvanceCheckpoint(AskedTo(Slot(i)), anchor[i])
  BY DEF PersistChunk, CoverageRow
<1>5. \A b \in Blocks : blockRow'[b] =
        IF blockRow[b] = NoRow /\ b \in DOMAIN Headers(i) THEN hash[b] ELSE blockRow[b]
  BY <1>1, <1>3, <1>4 DEF InsertRows
<1>6. \A b \in LogBlocks : rawLog'[b] =
        IF rawLog[b] = NoRow /\ b \in LogsIn(Asked(Slot(i))) THEN hash[b] ELSE rawLog[b]
  BY <1>2, <1>3, <1>4 DEF InsertRows
<1>7. DOMAIN blockRow' = Blocks /\ DOMAIN rawLog' = LogBlocks /\ events' \subseteq Decodable
  BY <1>3, <1>4 DEF InsertRows
<1>8. \A b \in LogBlocks : b \in events' <=>
        \/ b \in events
        \/ rawLog[b] = NoRow /\ b \in LogsIn(Asked(Slot(i))) /\ b \in Decodable
  BY <1>2, <1>4 DEF InsertedNow
<1> QED  BY <1>4, <1>5, <1>6, <1>7, <1>8

LEMMA PersistTables ==
  ASSUME IInv, NEW i \in Ingesters, PersistChunk(i), UNCHANGED chainVars
  PROVE  ChainTypeOK' /\ TablesTypeOK' /\ StoredOK' /\ CoveredOK' /\ CheckpointBacked'
<1> USE IngestionAssumption, ChainAssumption
<1> PICK s : s = Slot(i)
  OBVIOUS
<1> PICK read : read = Headers(i)
  OBVIOUS
<1> PICK a : a = AskedTo(s) /\ Asked(s) = [from |-> s.from, to |-> a]
  BY DEF Asked
<1> PICK logs : logs = LogsIn(Asked(s))
  OBVIOUS
<1>1. /\ a \in Blocks /\ a <= final /\ s.from \in Blocks /\ s.from <= a
      /\ anchor[i] \in {Nothing, [b \in {a} |-> hash[b]]}
      /\ \A b \in DOMAIN read : b \in Blocks /\ b <= final
      /\ logs \subseteq DOMAIN read
  <2>1. /\ a \in Blocks /\ a <= final /\ s.from \in Blocks /\ s.from <= a
        /\ anchor[i] \in {Nothing, [b \in {a} |-> hash[b]]}
    BY PersistReads
  <2>2. DOMAIN got[i] = logs /\ \A b \in DOMAIN read : b \in Blocks /\ b <= final
    BY PersistReads
  <2>3. DOMAIN Headers(i) = DOMAIN got[i] \cup DOMAIN anchor[i]
    BY DEF Headers
  <2> QED  BY <2>1, <2>2, <2>3
<1>2. /\ coverage' = coverage \cup {Asked(s)}
      /\ \A b \in Blocks : blockRow'[b] =
           IF blockRow[b] = NoRow /\ b \in DOMAIN read THEN hash[b] ELSE blockRow[b]
      /\ \A b \in LogBlocks : rawLog'[b] =
           IF rawLog[b] = NoRow /\ b \in logs THEN hash[b] ELSE rawLog[b]
      /\ \A b \in LogBlocks : b \in events' <=>
           \/ b \in events
           \/ rawLog[b] = NoRow /\ b \in logs /\ b \in Decodable
      /\ DOMAIN blockRow' = Blocks /\ DOMAIN rawLog' = LogBlocks /\ events' \subseteq Decodable
      /\ checkpoint' = AdvanceCheckpoint(a, anchor[i])
  BY PersistWrites
<1>3. final' = final /\ hash' = hash /\ head' = head
  BY DEF chainVars
<1>4. /\ hash \in [Blocks -> Hash] /\ blockRow \in [Blocks -> Hash \cup {NoRow}]
      /\ rawLog \in [LogBlocks -> Hash \cup {NoRow}] /\ LogBlocks \subseteq Blocks
      /\ NoRow \notin Hash /\ final \in Nat
  BY DEF IInv, TypeOK, ChainTypeOK, TablesTypeOK, NoRow, Hash
<1>5. /\ checkpoint'.next = a + 1
      /\ \/ checkpoint'.block = checkpoint.block /\ checkpoint'.hash = checkpoint.hash
         \/ checkpoint'.block = a /\ checkpoint'.hash = hash[a]
      /\ checkpoint' \in [next : 0 .. MaxBlock + 1, block : 0 .. MaxBlock, hash : Hash \cup {NoRow}]
  <2>1. checkpoint' = [next |-> a + 1, block |-> checkpoint.block, hash |-> checkpoint.hash]
        \/ checkpoint' = [next |-> a + 1, block |-> a, hash |-> hash[a]]
    BY <1>1, <1>2 DEF AdvanceCheckpoint
  <2>2. /\ a + 1 \in 0 .. MaxBlock + 1 /\ a \in 0 .. MaxBlock /\ hash[a] \in Hash
        /\ checkpoint.block \in 0 .. MaxBlock /\ checkpoint.hash \in Hash \cup {NoRow}
    BY <1>1, <1>4 DEF Blocks, IInv, TypeOK, TablesTypeOK
  <2> QED  BY <2>1, <2>2
<1>6. ChainTypeOK'
  BY <1>3 DEF IInv, TypeOK, ChainTypeOK
<1>7. TablesTypeOK'
  <2>1. blockRow' \in [Blocks -> Hash \cup {NoRow}]
    <3>1. \A b \in Blocks : blockRow'[b] \in Hash \cup {NoRow}
      BY <1>2, <1>4
    <3>2. blockRow' = [b \in Blocks |-> blockRow'[b]]
      BY <1>2 DEF PersistChunk, InsertRows
    <3> QED  BY <3>1, <3>2
  <2>2. rawLog' \in [LogBlocks -> Hash \cup {NoRow}]
    <3>1. \A b \in LogBlocks : rawLog'[b] \in Hash \cup {NoRow}
      BY <1>2, <1>4
    <3>2. rawLog' = [b \in LogBlocks |-> rawLog'[b]]
      BY <1>2 DEF PersistChunk, InsertRows
    <3> QED  BY <3>1, <3>2
  <2>3. coverage' \subseteq [from : Blocks, to : Blocks]
    BY <1>1, <1>2 DEF IInv, TypeOK, TablesTypeOK
  <2> QED  BY <1>2, <1>5, <2>1, <2>2, <2>3 DEF TablesTypeOK
<1>8. StoredOK'
  <2>1. \A b \in Blocks : blockRow'[b] # NoRow => b <= final /\ blockRow'[b] = hash[b]
    BY <1>1, <1>2 DEF IInv, StoredOK
  <2>2. ASSUME NEW b \in LogBlocks, rawLog'[b] # NoRow
        PROVE  /\ b <= final /\ rawLog'[b] = hash[b] /\ blockRow'[b] = hash[b]
               /\ b \in events' <=> b \in Decodable
    <3>1. CASE rawLog[b] # NoRow
      <4>1. /\ b <= final /\ rawLog[b] = hash[b] /\ blockRow[b] = hash[b]
            /\ b \in events <=> b \in Decodable
        BY <3>1 DEF IInv, StoredOK
      <4>2. blockRow'[b] = hash[b] /\ rawLog'[b] = hash[b]
        BY <1>2, <1>4, <3>1, <4>1
      <4>3. b \in events' <=> b \in Decodable
        BY <1>2, <3>1, <4>1
      <4> QED  BY <4>1, <4>2, <4>3
    <3>2. CASE rawLog[b] = NoRow
      <4>1. b \in logs
        BY <1>2, <2>2, <3>2
      <4>2. b \in DOMAIN read /\ b <= final
        BY <1>1, <4>1
      <4>3. rawLog'[b] = hash[b]
        BY <1>2, <3>2, <4>1
      <4>4. blockRow'[b] = hash[b]
        BY <1>2, <1>4, <4>2 DEF IInv, StoredOK
      <4>5. b \in events' <=> b \in Decodable
        BY <1>2, <3>2, <4>1
      <4> QED  BY <4>2, <4>3, <4>4, <4>5
    <3> QED  BY <3>1, <3>2
  <2> QED  BY <1>3, <2>1, <2>2 DEF StoredOK
<1>9. CoveredOK'
  <2>1. \A b \in LogBlocks : rawLog[b] # NoRow => rawLog'[b] # NoRow
    BY <1>2
  <2>2. \A b \in logs : rawLog'[b] # NoRow
    <3>1. logs \subseteq LogBlocks
      BY DEF LogsIn
    <3> QED  BY <1>2, <1>4, <3>1
  <2>3. ASSUME NEW c \in coverage'
        PROVE  c.from <= c.to /\ c.to <= final /\ \A b \in LogsIn(c) : rawLog'[b] # NoRow
    <3>1. CASE c = Asked(s)
      BY <1>1, <2>2, <3>1
    <3>2. CASE c \in coverage
      BY <2>1, <3>2 DEF IInv, CoveredOK, LogsIn
    <3> QED  BY <1>2, <3>1, <3>2
  <2> QED  BY <1>3, <2>3 DEF CoveredOK, LogsIn
<1>10. CheckpointBacked'
  <2>1. Asked(s) \in coverage' /\ Asked(s).to = a /\ coverage \subseteq coverage'
    BY <1>2
  <2>2. checkpoint'.next # 0 => \E c \in coverage' : c.to + 1 = checkpoint'.next
    BY <1>5, <2>1
  <2>3. checkpoint'.block # 0 =>
          /\ \E c \in coverage' : c.to = checkpoint'.block
          /\ checkpoint'.hash = hash[checkpoint'.block]
    BY <1>5, <2>1 DEF IInv, CheckpointBacked
  <2> QED  BY <1>3, <2>2, <2>3 DEF CheckpointBacked
<1> QED  BY <1>6, <1>7, <1>8, <1>9, <1>10

LEMMA PersistInv ==
  ASSUME IInv, NEW i \in Ingesters, Persist(i)
  PROVE  IInv'
<1> USE IngestionAssumption, ChainAssumption
<1>1. /\ PersistChunk(i) /\ UNCHANGED chainVars /\ pc[i] = "persist"
      /\ next' = [next EXCEPT ![i] = AskedTo(Slot(i)) + 1]
      /\ chunks' = [chunks EXCEPT ![i] = (chunks[i] + 1) % AnchorEvery]
      /\ pc' = [pc EXCEPT ![i] = "update"]
      /\ UNCHANGED <<runs, orphaned, req, size, slots, cur, got, anchor, aborted, outcome>>
  BY DEF Persist, PersistChunk, runVars
<1>2. ChainTypeOK' /\ TablesTypeOK' /\ StoredOK' /\ CoveredOK' /\ CheckpointBacked'
  BY <1>1, PersistTables
<1>3. ResultsTypeOK'
  BY <1>1 DEF IInv, TypeOK, ResultsTypeOK
<1>4. MemoryTypeOK'
  <2>1. AskedTo(Slot(i)) + 1 \in 1 .. MaxBlock + 1
    <3>1. AskedTo(Slot(i)) \in Blocks
      BY <1>1, PersistReads
    <3> QED  BY <3>1 DEF Blocks
  <2>2. (chunks[i] + 1) % AnchorEvery \in 0 .. AnchorEvery - 1
    <3>1. chunks[i] + 1 \in Int /\ AnchorEvery \in Nat /\ AnchorEvery > 0
      BY DEF IInv, TypeOK, MemoryTypeOK
    <3> QED  BY <3>1
  <2> QED  BY <1>1, <2>1, <2>2 DEF IInv, TypeOK, MemoryTypeOK, IsBatch, Phases
<1>5. CallOK(i)'
  <2>1. CallOK(i) /\ pc'[i] = "update" /\ final' = final /\ hash' = hash
    BY <1>1 DEF IInv, TypeOK, MemoryTypeOK, CallsOK, chainVars
  <2>2. \A k \in DOMAIN slots[i] : SlotOK(slots[i][k])'
    BY <1>1, <2>1, SlotSame DEF CallOK
  <2> QED  BY <1>1, <2>1, <2>2 DEF CallOK, Slot, AskedTo
<1>6. \A j \in Ingesters \ {i} : SameMemory(j)
  BY <1>1 DEF SameMemory, IInv, TypeOK, MemoryTypeOK
<1> QED  BY <1>1, <1>2, <1>3, <1>4, <1>5, <1>6, OneCall DEF IInv, TypeOK

LEMMA UnacknowledgedInv ==
  ASSUME IInv, NEW i \in Ingesters, NEW class \in Outcomes, PersistUnacknowledged(i, class)
  PROVE  IInv'
<1>1. UNCHANGED chainVars /\ ResultsTypeOK' /\ MemoryTypeOK' /\ CallsOK'
  BY ThrowInv DEF PersistUnacknowledged
<1>2. ChainTypeOK' /\ TablesTypeOK' /\ StoredOK' /\ CoveredOK' /\ CheckpointBacked'
  BY <1>1, PersistTables DEF PersistUnacknowledged
<1> QED  BY <1>1, <1>2 DEF IInv, TypeOK

LEMMA ConsumeInv ==
  ASSUME IInv, NEW i \in Ingesters, Consume(i)
  PROVE  IInv'
<1>1. CASE ReadHeaders(i) \/ ReadAnchor(i) \/ Persist(i) \/ NextSlot(i) \/ EndBatch(i)
  BY <1>1, ReadHeadersInv, ReadAnchorInv, PersistInv, RecordedInv
<1>2. CASE BatchError(i)
  <2>1. /\ cur[i] \in DOMAIN slots[i]
        /\ Slot(i).answer \notin {"pending", "logs"} /\ Throw(i, Slot(i).answer) /\ UNCHANGED dbVars
    BY <1>2 DEF BatchError, Answered
  <2>2. slots[i][cur[i]] \in SlotType
    BY <2>1 DEF IInv, TypeOK, MemoryTypeOK, IsBatch
  <2>3. Slot(i).answer \in Outcomes
    BY <2>1, <2>2 DEF Slot, SlotType, Answers, Outcomes
  <2> QED  BY <2>1, <2>3, ThrowStepInv
<1>3. ASSUME NEW class \in Thrown,
             HeaderError(i, class) \/ PersistError(i, class) \/ UpdateError(i, class)
      PROVE  IInv'
  <2>1. class \in Outcomes /\ Throw(i, class) /\ UNCHANGED dbVars
    BY <1>3, ThrownOutcomes DEF HeaderError, PersistError, UpdateError
  <2> QED  BY <2>1, ThrowStepInv
<1>4. ASSUME NEW class \in Thrown, PersistUnacknowledged(i, class) PROVE IInv'
  BY <1>4, ThrownOutcomes, UnacknowledgedInv
<1> QED  BY <1>1, <1>2, <1>3, <1>4 DEF Consume

LEMMA StepInv == IInv /\ [Next]_vars => IInv'
<1> SUFFICES ASSUME IInv, [Next]_vars PROVE IInv'
  OBVIOUS
<1>1. CASE UNCHANGED vars
  <2>1. SameWorld /\ ResultsTypeOK' /\ UNCHANGED <<pc, chunkVars, callVars>>
    BY <1>1 DEF vars, SameWorld, chainVars, dbVars, runVars, IInv, TypeOK, ResultsTypeOK
  <2> QED  BY <2>1, ResultStepInv
<1>2. CASE ChainStep
  BY <1>2, ChainStepInv
<1>3. ASSUME NEW i \in Ingesters, Enter(i) \/ CallStep(i) \/ Abort(i) \/ Crash(i)
      PROVE  IInv'
  <2>1. CASE CallStep(i)
    BY <2>1, PlanInv, LeaveInv, FetchInv, ConsumeInv DEF CallStep
  <2> QED  BY <1>3, <2>1, EnterInv, AbortInv, LeaveInv DEF Crash
<1> QED  BY <1>1, <1>2, <1>3 DEF Next

LEMMA Invariance == Spec => []IInv
BY InitInv, StepInv, PTL DEF Spec

--------------------------------------------------------------------------------
(***************************************************************************)
(* The variables of ingestLogs keep their types: whatever a provider       *)
(* answers, chunks stay inside the chain and sizes inside 1 .. ChunkSize.  *)
(***************************************************************************)
THEOREM TypeCorrect == Spec => []TypeOK
<1>1. IInv => TypeOK
  BY DEF IInv
<1> QED  BY <1>1, Invariance, PTL

\* The invariant puts the evidence behind every coverage row.
LEMMA EvidenceFromInv ==
  ASSUME IInv
  PROVE  EvidenceBehindCoverage
<1> SUFFICES ASSUME NEW c \in coverage, NEW b \in LogsIn(c)
             PROVE  rawLog[b] = hash[b] /\ blockRow[b] = hash[b] /\ (b \in events <=> b \in Decodable)
  BY DEF EvidenceBehindCoverage
<1>1. b \in LogBlocks /\ rawLog[b] # NoRow
  BY DEF IInv, CoveredOK, LogsIn
<1> QED  BY <1>1 DEF IInv, StoredOK

(***************************************************************************)
(* A coverage row written by persistChunk is backed by stored logs, block  *)
(* rows and decoded events of the final chain, for any number of unlocked  *)
(* ingesters and for reorganisations above the finalised head.             *)
(***************************************************************************)
THEOREM EvidenceSound == Spec => []EvidenceBehindCoverage
<1>1. IInv => EvidenceBehindCoverage
  BY EvidenceFromInv
<1> QED  BY <1>1, Invariance, PTL

(***************************************************************************)
(* The checkpoint of indexer_checkpoints is backed by a coverage row, and  *)
(* the hash it stores is the chain's: no resume is refused for drift.      *)
(***************************************************************************)
THEOREM CheckpointSound == Spec => []CheckpointBacked
<1>1. IInv => CheckpointBacked
  BY DEF IInv
<1> QED  BY <1>1, Invariance, PTL

--------------------------------------------------------------------------------
\* A step that leaves the tables alone is a stutter of the evidence log.
LEMMA TablesStutter ==
  ASSUME UNCHANGED dbVars
  PROVE  UNCHANGED <<BlocksIn(coverage), RecordedLogs>>
BY DEF dbVars, BlocksIn, RecordedLogs

\* Every step but the two commits leaves the tables alone.
LEMMA OnlyCommits ==
  ASSUME [Next]_vars, dbVars' # dbVars
  PROVE  \E i \in Ingesters : PersistChunk(i)
<1>1. CASE UNCHANGED vars
  BY <1>1 DEF vars
<1>2. CASE ChainStep
  BY <1>2 DEF ChainStep
<1>3. ASSUME NEW i \in Ingesters, Enter(i) \/ CallStep(i) \/ Abort(i) \/ Crash(i)
      PROVE  PersistChunk(i)
  <2>1. ~ (Enter(i) \/ Abort(i) \/ Crash(i))
    BY DEF Enter, Refuse, NoOp, Start, Abort, Crash, Die
  <2>2. ~ (Plan(i) \/ Complete(i) \/ Interrupt(i))
    BY DEF Plan, Complete, Interrupt
  <2>3. \A k \in 1 .. FetchConcurrency : ~ Fetch(i, k)
    BY DEF Fetch, FetchAnswers, FetchShrinks, FetchRetries, FetchGivesUp, FetchInterrupted, SetSlot
  <2>4. Consume(i)
    BY <1>3, <2>1, <2>2, <2>3 DEF CallStep
  <2>5. ~ (ReadHeaders(i) \/ ReadAnchor(i) \/ NextSlot(i) \/ EndBatch(i) \/ BatchError(i))
    BY DEF ReadHeaders, ReadAnchor, NextSlot, EndBatch, Recorded, BatchError
  <2>6. \A class \in Thrown :
          ~ (HeaderError(i, class) \/ PersistError(i, class) \/ UpdateError(i, class))
    BY DEF HeaderError, PersistError, UpdateError
  <2> QED  BY <2>4, <2>5, <2>6 DEF Consume, Persist, PersistUnacknowledged
<1> QED  BY <1>1, <1>2, <1>3 DEF Next

\* A commit adds its range, and the logs of its range, to the evidence.
LEMMA CommitRefines ==
  ASSUME IInv, NEW i \in Ingesters, PersistChunk(i)
  PROVE  Evidence!EvidenceNext
<1> USE IngestionAssumption, ChainAssumption
<1> PICK s : s = Slot(i)
  OBVIOUS
<1> PICK r : r = Asked(s)
  OBVIOUS
<1>1. r.from \in Blocks /\ r.to \in Blocks /\ r.from <= r.to
  BY PersistReads DEF Asked
<1>2. /\ coverage' = coverage \cup {r}
      /\ \A b \in LogBlocks : rawLog'[b] =
           IF rawLog[b] = NoRow /\ b \in LogsIn(r) THEN hash[b] ELSE rawLog[b]
      /\ \A b \in LogBlocks : b \in events' <=>
           \/ b \in events
           \/ rawLog[b] = NoRow /\ b \in LogsIn(r) /\ b \in Decodable
  BY PersistWrites
<1>3. \A b \in LogBlocks : hash[b] # NoRow
  BY DEF IInv, TypeOK, ChainTypeOK, Hash, NoRow
<1>4. \A b \in LogBlocks : rawLog[b] # NoRow => (b \in events <=> b \in Decodable)
  BY DEF IInv, StoredOK
<1>5. BlocksIn(coverage)' = BlocksIn(coverage) \cup (r.from .. r.to)
  BY <1>2 DEF BlocksIn, BlocksOf
<1>6. LogsIn(r) = LogBlocks \cap (r.from .. r.to)
  BY DEF LogsIn, BlocksOf
<1>7. RecordedLogs' = RecordedLogs \cup (LogBlocks \cap (r.from .. r.to))
  BY <1>2, <1>3, <1>4, <1>6 DEF RecordedLogs
<1>8. Evidence!Commit(r.from, r.to)
  BY <1>5, <1>7 DEF Evidence!Commit
<1> QED  BY <1>1, <1>8 DEF Evidence!EvidenceNext, Blocks

(***************************************************************************)
(* Ingestion implements EvidenceLog: persistChunk is the only step of any  *)
(* ingester that changes the evidence, and it adds a whole range with all  *)
(* its logs and their events at once.                                      *)
(***************************************************************************)
THEOREM Refinement == Spec => ImplementsEvidenceLog
<1>1. Init => Evidence!EvidenceInit
  BY DEF Init, Evidence!EvidenceInit, BlocksIn, RecordedLogs
<1>2. IInv /\ [Next]_vars => [Evidence!EvidenceNext]_Evidence!evidenceVars
  <2> SUFFICES ASSUME IInv, [Next]_vars
               PROVE  Evidence!EvidenceNext \/ UNCHANGED <<BlocksIn(coverage), RecordedLogs>>
    BY DEF Evidence!evidenceVars
  <2>1. CASE UNCHANGED dbVars
    BY <2>1, TablesStutter
  <2>2. CASE dbVars' # dbVars
    BY <2>2, OnlyCommits, CommitRefines
  <2> QED  BY <2>1, <2>2
<1> QED  BY <1>1, <1>2, Invariance, PTL DEF Spec, ImplementsEvidenceLog, Evidence!EvidenceSpec

-------------------------------------------------------------------------------
(***************************************************************************)
(* SevenDayWorker, for every number of workers, crashes and lock attempts. *)
(* The lock excludes because its session outlives the process at least as  *)
(* long as the process can act: a worker that acts holds a session, and no *)
(* two sessions hold the lock.                                             *)
(***************************************************************************)
\* Where a worker is while its session holds the lock.
Inside == {"sweep", "resolve", "ready", "calling", "leaving"}

LockInv ==
  /\ \A v, w \in Workers : session[v] # "free" /\ session[w] # "free" => v = w
  /\ \A w \in Workers : phase[w] \in Inside <=> session[w] = "held"
  /\ \A w \in Workers : pc[w] # "idle" => phase[w] = "calling"

WInv == IInv /\ WorkerTypeOK /\ LockInv

--------------------------------------------------------------------------------
\* A step of one ingester moves no other ingester.
LEMMA OthersStay ==
  ASSUME pc \in [Ingesters -> Phases], NEW i \in Ingesters,
         Enter(i) \/ CallStep(i) \/ Abort(i) \/ Crash(i)
  PROVE  \A j \in Ingesters \ {i} : pc'[j] = pc[j]
<1>1. CASE Enter(i) \/ Abort(i) \/ Crash(i)
  BY <1>1 DEF Enter, Refuse, NoOp, Start, Abort, Crash, Die, Forget
<1>2. CASE Plan(i) \/ Complete(i) \/ Interrupt(i)
  BY <1>2 DEF Plan, Complete, Interrupt, Return, Leave, Forget
<1>3. ASSUME NEW k, Fetch(i, k) PROVE pc' = pc
  BY <1>3 DEF Fetch, FetchAnswers, FetchShrinks, FetchRetries, FetchGivesUp, FetchInterrupted, SetSlot
<1>4. ASSUME NEW class, Throw(i, class) PROVE \A j \in Ingesters \ {i} : pc'[j] = pc[j]
  BY <1>4 DEF Throw, Return, Leave, Forget
<1>5. CASE Consume(i)
  <2>1. CASE ReadHeaders(i) \/ ReadAnchor(i) \/ Persist(i) \/ NextSlot(i) \/ EndBatch(i)
    BY <2>1 DEF ReadHeaders, ReadAnchor, Persist, NextSlot, EndBatch
  <2>2. CASE \E class : Throw(i, class)
    BY <1>4, <2>2
  <2> QED  BY <1>5, <2>1, <2>2 DEF Consume, BatchError, HeaderError, PersistError,
                                  PersistUnacknowledged, UpdateError
<1> QED  BY <1>1, <1>2, <1>3, <1>5 DEF CallStep

LEMMA WorkerInitInv == WorkerInit => WInv
<1> SUFFICES ASSUME WorkerInit PROVE WInv
  OBVIOUS
<1>1. IInv
  BY InitInv DEF WorkerInit
<1>2. WorkerTypeOK
  BY WorkerAssumption, ChainAssumption DEF WorkerInit, WorkerTypeOK, WorkerPhases, NoWindow, Blocks
<1>3. LockInv
  BY WorkerAssumption DEF WorkerInit, Init, LockInv, Inside
<1> QED  BY <1>1, <1>2, <1>3 DEF WInv

--------------------------------------------------------------------------------
\* Steps of the worker loop that leave ingestLogs alone.
LEMMA QuietStepInv ==
  ASSUME IInv, UNCHANGED vars
  PROVE  IInv'
BY StepInv

LEMMA LoopIInv ==
  ASSUME WInv, NEW w \in Workers, WorkerLoop(w)
  PROVE  IInv'
<1> USE WorkerAssumption
<1>1. CASE Sweep(w)
  <2>1. SameWorld /\ UNCHANGED <<pc, chunkVars, callVars>>
    BY <1>1 DEF Sweep, SameWorld, chainVars, dbVars
  <2>2. ResultsTypeOK'
    BY <1>1 DEF Sweep, WInv, IInv, TypeOK, ResultsTypeOK, Statuses
  <2> QED  BY <2>1, <2>2, ResultStepInv DEF WInv
<1>2. CASE Call(w, CallAccepted(w)) \/ Call(w, CallRefused(w))
  <2>1. window[w] \in [from : Blocks, to : Blocks] /\ w \in Ingesters
    BY DEF WInv, WorkerTypeOK
  <2>2. (\E class \in Thrown : Refuse(w, window[w], class))
        \/ NoOp(w, window[w]) \/ Start(w, window[w])
    BY <1>2 DEF Call, CallAccepted, CallRefused
  <2> QED  BY <2>1, <2>2, EnterWindowInv DEF WInv
<1>3. CASE ~ (Sweep(w) \/ Call(w, CallAccepted(w)) \/ Call(w, CallRefused(w)))
  <2>1. UNCHANGED vars
    BY <1>3 DEF WorkerLoop, Boot, Acquire, RetryLock, GiveUpLock, ResolveWindow, SetupError,
                Recover, LeaveLoop, Settled, StopRetrying, Unlock
  <2> QED  BY <2>1, QuietStepInv DEF WInv
<1> QED  BY <1>1, <1>2, <1>3

LEMMA LoopLock ==
  ASSUME WInv, NEW w \in Workers, WorkerLoop(w)
  PROVE  WorkerTypeOK' /\ LockInv'
<1> USE WorkerAssumption, ChainAssumption
<1>1. /\ phase \in [Workers -> WorkerPhases] /\ tries \in [Workers -> 0 .. LockAttempts - 1]
      /\ session \in [Workers -> {"free", "held", "ghost"}]
      /\ window \in [Workers -> [from : Blocks, to : Blocks]] /\ crashes \in 0 .. MaxCrashes
      /\ pc \in [Ingesters -> Phases] /\ Workers \subseteq Ingesters
  BY DEF WInv, WorkerTypeOK, IInv, TypeOK, MemoryTypeOK
\* Steps inside or outside the lock that take no part in it.
<1>2. ASSUME NEW from \in WorkerPhases, NEW to \in WorkerPhases, Goto(w, from, to),
             from \in Inside <=> to \in Inside, from # "calling" \/ pc[w] = "idle",
             pc' = pc, session' = session, tries' = tries, window' = window, crashes' = crashes
      PROVE  WorkerTypeOK' /\ LockInv'
  <2>1. WorkerTypeOK'
    BY <1>1, <1>2 DEF WorkerTypeOK, Goto
  <2>2. LockInv'
    BY <1>1, <1>2 DEF WInv, LockInv, Goto
  <2> QED  BY <2>1, <2>2
<1>3. CASE Boot(w) \/ GiveUpLock(w) \/ StopRetrying(w)
  BY <1>2, <1>3 DEF Boot, GiveUpLock, StopRetrying, Inside, WorkerPhases, vars
<1>4. CASE Acquire(w)
  <2>1. WorkerTypeOK'
    BY <1>1, <1>4 DEF WorkerTypeOK, Goto, Acquire, WorkerPhases
  <2>2. LockInv'
    BY <1>1, <1>4 DEF WInv, LockInv, Goto, Acquire, Locked, Inside, vars
  <2> QED  BY <2>1, <2>2
<1>5. CASE RetryLock(w)
  <2>1. tries[w] + 1 \in 0 .. LockAttempts - 1
    BY <1>1, <1>5 DEF RetryLock
  <2>2. WorkerTypeOK'
    BY <1>1, <1>5, <2>1 DEF WorkerTypeOK, Goto, RetryLock, WorkerPhases
  <2>3. LockInv'
    BY <1>1, <1>5 DEF WInv, LockInv, Goto, RetryLock, Inside, vars
  <2> QED  BY <2>2, <2>3
<1>6. CASE Sweep(w)
  BY <1>2, <1>6 DEF Sweep, Inside, WorkerPhases
<1>7. CASE ResolveWindow(w)
  <2>1. SevenDayRange \in [from : Blocks, to : Blocks]
    BY <1>7 DEF ResolveWindow, SevenDayRange, Greater, Blocks
  <2>2. WorkerTypeOK'
    BY <1>1, <1>7, <2>1 DEF WorkerTypeOK, Goto, ResolveWindow, WorkerPhases
  <2>3. LockInv'
    BY <1>1, <1>7 DEF WInv, LockInv, Goto, ResolveWindow, Inside, vars
  <2> QED  BY <2>2, <2>3
<1>8. CASE SetupError(w)
  BY <1>2, <1>8 DEF SetupError, Inside, WorkerPhases, vars
<1>9. CASE Call(w, CallAccepted(w)) \/ Call(w, CallRefused(w))
  <2>1. \A j \in Ingesters \ {w} : pc'[j] = pc[j]
    BY <1>1, <1>9 DEF Call, CallAccepted, CallRefused, NoOp, Start, Refuse
  <2>2. Goto(w, "ready", "calling") /\ UNCHANGED <<tries, session, window, crashes>>
    BY <1>9 DEF Call
  <2>3. WorkerTypeOK'
    BY <1>1, <2>2 DEF WorkerTypeOK, Goto, WorkerPhases
  <2>4. LockInv'
    BY <1>1, <2>1, <2>2 DEF WInv, LockInv, Goto, Inside
  <2> QED  BY <2>3, <2>4
<1>10. CASE Recover(w) \/ LeaveLoop(w)
  BY <1>2, <1>10 DEF Recover, LeaveLoop, Settled, Inside, WorkerPhases, vars
<1>11. CASE Unlock(w)
  <2>1. WorkerTypeOK'
    BY <1>1, <1>11 DEF WorkerTypeOK, Goto, Unlock, WorkerPhases
  <2>2. LockInv'
    BY <1>1, <1>11 DEF WInv, LockInv, Goto, Unlock, Inside, vars
  <2> QED  BY <2>1, <2>2
<1> QED  BY <1>3, <1>4, <1>5, <1>6, <1>7, <1>8, <1>9, <1>10, <1>11 DEF WorkerLoop

--------------------------------------------------------------------------------
\* A step inside a call keeps the lock where it is.
LEMMA CallLock ==
  ASSUME WInv, NEW w \in Workers, InCall(w), CallStep(w)
  PROVE  WorkerTypeOK' /\ LockInv'
<1>1. UNCHANGED workerVars /\ phase[w] = "calling" /\ w \in Ingesters /\ Workers \subseteq Ingesters
  BY WorkerAssumption DEF InCall
<1>2. \A j \in Ingesters \ {w} : pc'[j] = pc[j]
  BY <1>1, OthersStay DEF WInv, IInv, TypeOK, MemoryTypeOK
<1> QED  BY <1>1, <1>2 DEF WInv, WorkerTypeOK, LockInv, workerVars

\* The worker process dies: its session lives on, as a ghost.
LEMMA CrashInv ==
  ASSUME WInv, NEW w \in Workers, WorkerCrash(w)
  PROVE  WInv'
<1> USE WorkerAssumption, ChainAssumption
<1>1. Die(w) /\ w \in Ingesters /\ Workers \subseteq Ingesters
  BY DEF WorkerCrash
<1>2. IInv'
  BY <1>1, LeaveInv DEF WInv
<1>3. WorkerTypeOK'
  <2>1. NoWindow \in [from : Blocks, to : Blocks] /\ crashes + 1 \in 0 .. MaxCrashes
        /\ 0 \in 0 .. LockAttempts - 1
    BY DEF NoWindow, Blocks, WorkerCrash, WInv, WorkerTypeOK
  <2> QED  BY <2>1 DEF WInv, WorkerTypeOK, WorkerCrash, WorkerPhases
<1>4. pc'[w] = "idle" /\ \A j \in Ingesters \ {w} : pc'[j] = pc[j]
  BY <1>1 DEF Die, Forget, WInv, IInv, TypeOK, MemoryTypeOK
<1>5. /\ phase'[w] = "off" /\ session'[w] # "held" /\ (session'[w] # "free" => session[w] # "free")
      /\ \A v \in Workers \ {w} : phase'[v] = phase[v] /\ session'[v] = session[v]
  BY DEF WorkerCrash, WInv, WorkerTypeOK
<1>6. LockInv'
  BY <1>1, <1>4, <1>5 DEF WInv, LockInv, Inside
<1> QED  BY <1>2, <1>3, <1>6 DEF WInv

LEMMA WorkerStepInv == WInv /\ [WorkerNext]_allVars => WInv'
<1> SUFFICES ASSUME WInv, [WorkerNext]_allVars PROVE WInv'
  OBVIOUS
<1>1. Workers \subseteq Ingesters
  BY WorkerAssumption
\* Steps of the chain, of a command, and of nobody.
<1>2. ASSUME IInv', UNCHANGED workerVars, \A w \in Workers : pc'[w] = pc[w] PROVE WInv'
  BY <1>2 DEF WInv, WorkerTypeOK, LockInv, workerVars
<1>3. CASE UNCHANGED allVars
  BY <1>2, <1>3, QuietStepInv DEF WInv, allVars, vars
<1>4. CASE ChainStep /\ UNCHANGED workerVars
  BY <1>2, <1>4, ChainStepInv DEF WInv, ChainStep
<1>5. ASSUME NEW i \in CLI, CLIStep(i) PROVE WInv'
  <2>1. i \in Ingesters /\ i \notin Workers /\ UNCHANGED workerVars
        /\ (Enter(i) \/ CallStep(i) \/ Abort(i) \/ Crash(i))
    BY <1>5 DEF CLI, CLIStep
  <2>2. IInv'
    BY <2>1, StepInv DEF Next, WInv
  <2>3. \A j \in Ingesters \ {i} : pc'[j] = pc[j]
    BY <2>1, OthersStay DEF WInv, IInv, TypeOK, MemoryTypeOK
  <2> QED  BY <1>1, <1>2, <2>1, <2>2, <2>3
<1>6. ASSUME NEW w \in Workers, WorkerStep(w) PROVE WInv'
  <2>1. CASE WorkerLoop(w)
    BY <2>1, LoopIInv, LoopLock DEF WInv
  <2>2. CASE InCall(w) /\ CallStep(w)
    BY <1>1, <2>2, CallLock, StepInv DEF WInv, Next
  <2>3. CASE WorkerCrash(w)
    BY <2>3, CrashInv
  <2>4. CASE SessionEnds(w)
    <3>1. IInv'
      BY <2>4, QuietStepInv DEF SessionEnds, WInv
    <3>2. WorkerTypeOK'
      BY <2>4 DEF SessionEnds, WInv, WorkerTypeOK
    <3>3. LockInv'
      BY <2>4 DEF SessionEnds, WInv, WorkerTypeOK, LockInv, Inside, vars
    <3> QED  BY <3>1, <3>2, <3>3 DEF WInv
  <2>5. CASE WorkerSignal(w)
    BY <1>1, <1>2, <2>5, AbortInv DEF WorkerSignal, Abort, WInv
  <2> QED  BY <1>6, <2>1, <2>2, <2>3, <2>4, <2>5 DEF WorkerStep
<1> QED  BY <1>3, <1>4, <1>5, <1>6 DEF WorkerNext

LEMMA WorkerInvariance == WorkerSpec => []WInv
BY WorkerInitInv, WorkerStepInv, PTL DEF WorkerSpec

--------------------------------------------------------------------------------
\* A call that goes on does not say "interrupted".
LEMMA InterruptStops ==
  ASSUME IInv, NEW i \in Ingesters, Enter(i) \/ CallStep(i) \/ Abort(i) \/ Crash(i)
  PROVE  /\ \A j \in Ingesters \ {i} : runs'[j] = runs[j] /\ pc'[j] = pc[j]
         /\ \/ pc'[i] = "idle" \/ runs'[i] = "running"
            \/ pc[i] # "idle" /\ runs'[i] = runs[i]
<1>1. pc \in [Ingesters -> Phases] /\ runs \in [Ingesters -> Statuses \cup {"none"}]
  BY DEF IInv, TypeOK, MemoryTypeOK, ResultsTypeOK
<1> DEFINE Goes == /\ \A j \in Ingesters \ {i} : runs'[j] = runs[j]
                   /\ \/ pc'[i] = "idle" \/ runs'[i] = "running"
                      \/ pc[i] # "idle" /\ runs'[i] = runs[i]
<1> SUFFICES Goes
  BY <1>1, OthersStay
<1>2. CASE Enter(i) \/ Abort(i) \/ Crash(i)
  BY <1>1, <1>2 DEF Enter, Refuse, NoOp, Start, Abort, Crash, Die, Forget, runVars
<1>3. CASE Plan(i) \/ Complete(i) \/ Interrupt(i)
  BY <1>1, <1>3 DEF Plan, Complete, Interrupt, Return, Leave, Forget, UpdateRun, runVars
<1>4. ASSUME NEW k, Fetch(i, k) PROVE Goes
  BY <1>4 DEF Fetch, FetchAnswers, FetchShrinks, FetchRetries, FetchGivesUp, FetchInterrupted,
              SetSlot, Pending, runVars
<1>5. ASSUME NEW class, Throw(i, class) PROVE Goes
  BY <1>1, <1>5 DEF Throw, Return, Leave, Forget, UpdateRun, runVars
<1>6. CASE Consume(i)
  <2>1. CASE ReadHeaders(i) \/ ReadAnchor(i) \/ Persist(i)
    <3>1. pc[i] # "idle" /\ runs' = runs
      BY <2>1 DEF ReadHeaders, ReadAnchor, Persist, PersistChunk, Answered, runVars
    <3> QED  BY <3>1
  <2>2. CASE NextSlot(i) \/ EndBatch(i)
    BY <1>1, <2>2 DEF NextSlot, EndBatch, Recorded, UpdateRun
  <2>3. ASSUME NEW class, Throw(i, class) PROVE Goes
    BY <1>5, <2>3
  <2> QED  BY <1>6, <2>1, <2>2, <2>3 DEF Consume, BatchError, HeaderError, PersistError,
                                         PersistUnacknowledged, UpdateError
<1> QED  BY <1>2, <1>3, <1>4, <1>6 DEF CallStep

LEMMA SweepStops ==
  ASSUME CLI = {}, WInv, NEW w \in Workers, Sweep(w)
  PROVE  \A i \in Ingesters : pc'[i] = "idle"
<1>1. session[w] = "held" /\ Ingesters \subseteq Workers
  BY DEF Sweep, Goto, WInv, LockInv, Inside, CLI
<1>2. \A v \in Workers : pc[v] # "idle" => session[v] = "held" /\ phase[v] = "calling"
  BY DEF WInv, LockInv, Inside
<1> QED  BY <1>1, <1>2 DEF Sweep, Goto, WInv, LockInv

LEMMA StoppedStep ==
  ASSUME CLI = {}, WInv, InterruptedMeansStopped, [WorkerNext]_allVars
  PROVE  InterruptedMeansStopped'
<1>1. Workers \subseteq Ingesters /\ runs \in [Ingesters -> Statuses \cup {"none"}]
      /\ pc \in [Ingesters -> Phases]
  BY WorkerAssumption DEF WInv, IInv, TypeOK, ResultsTypeOK, MemoryTypeOK
<1>2. CASE UNCHANGED <<runs, pc>>
  BY <1>2 DEF InterruptedMeansStopped
<1>3. CASE UNCHANGED allVars \/ (ChainStep /\ UNCHANGED workerVars)
  BY <1>2, <1>3 DEF allVars, vars, runVars, ChainStep
<1>4. ASSUME NEW w \in Workers, WorkerStep(w) PROVE InterruptedMeansStopped'
  <2>1. CASE Sweep(w)
    BY <2>1, SweepStops DEF InterruptedMeansStopped
  <2>2. CASE Call(w, CallAccepted(w)) \/ Call(w, CallRefused(w))
    BY <1>1, <2>2 DEF Call, CallAccepted, CallRefused, NoOp, Start, Refuse, runVars,
                      InterruptedMeansStopped
  <2>3. CASE WorkerLoop(w) /\ ~ (Sweep(w) \/ Call(w, CallAccepted(w)) \/ Call(w, CallRefused(w)))
    BY <1>2, <2>3 DEF WorkerLoop, Boot, Acquire, RetryLock, GiveUpLock, ResolveWindow, SetupError,
                      Recover, LeaveLoop, Settled, StopRetrying, Unlock, vars, runVars
  <2>4. CASE InCall(w) /\ CallStep(w)
    BY <1>1, <2>4, InterruptStops DEF WInv, InterruptedMeansStopped
  <2>5. CASE WorkerCrash(w)
    BY <1>1, <2>5 DEF WorkerCrash, Die, Forget, runVars, InterruptedMeansStopped
  <2>6. CASE SessionEnds(w) \/ WorkerSignal(w)
    BY <1>2, <2>6 DEF SessionEnds, WorkerSignal, Abort, vars, runVars
  <2> QED  BY <1>4, <2>1, <2>2, <2>3, <2>4, <2>5, <2>6 DEF WorkerStep
<1> QED  BY <1>3, <1>4 DEF WorkerNext

--------------------------------------------------------------------------------
(***************************************************************************)
(* The variables of runSevenDayWorker keep their types: the worker makes   *)
(* no more than LOCK_RETRY_ATTEMPTS attempts at the lock.                  *)
(***************************************************************************)
THEOREM WorkerTypeCorrect == WorkerSpec => []WorkerTypeOK
<1>1. WInv => WorkerTypeOK
  BY DEF WInv
<1> QED  BY <1>1, WorkerInvariance, PTL

(***************************************************************************)
(* Coverage rows are backed by evidence with workers, commands without a   *)
(* lock, crashes and signals all at work on one scope.                     *)
(***************************************************************************)
THEOREM WorkerEvidenceSound == WorkerSpec => []EvidenceBehindCoverage
<1>1. WInv => EvidenceBehindCoverage
  BY EvidenceFromInv DEF WInv
<1> QED  BY <1>1, WorkerInvariance, PTL

(***************************************************************************)
(* As long as nobody but workers ingests, the advisory lock of             *)
(* runSevenDayWorker keeps ingestLogs to one process at a time.            *)
(***************************************************************************)
THEOREM LockExcludes ==
  ASSUME CLI = {}
  PROVE  WorkerSpec => []AtMostOneScanner
<1>1. WInv => AtMostOneScanner
  BY DEF WInv, LockInv, Inside, AtMostOneScanner, Scanning, CLI
<1> QED  BY <1>1, WorkerInvariance, PTL

(***************************************************************************)
(* As long as nobody but workers ingests, the sweep of runSevenDayWorker   *)
(* marks no run row interrupted whose call is still going on.              *)
(***************************************************************************)
THEOREM SweepTakesOnlyTheDead ==
  ASSUME CLI = {}
  PROVE  WorkerSpec => []InterruptedMeansStopped
<1>1. WorkerInit => InterruptedMeansStopped
  BY DEF WorkerInit, Init, InterruptedMeansStopped
<1>2. WInv /\ InterruptedMeansStopped /\ [WorkerNext]_allVars => InterruptedMeansStopped'
  BY StoppedStep
<1> QED  BY <1>1, <1>2, WorkerInvariance, PTL DEF WorkerSpec

--------------------------------------------------------------------------------
\* What a worker does around its calls leaves the tables alone.
LEMMA LoopStutters ==
  ASSUME NEW w \in Workers, WorkerLoop(w) \/ WorkerCrash(w) \/ SessionEnds(w)
  PROVE  UNCHANGED dbVars
<1>1. CASE Call(w, CallAccepted(w)) \/ Call(w, CallRefused(w))
  BY <1>1 DEF Call, CallAccepted, CallRefused, NoOp, Start, Refuse
<1>2. CASE Boot(w) \/ Acquire(w) \/ RetryLock(w) \/ GiveUpLock(w) \/ Sweep(w) \/ ResolveWindow(w)
  BY <1>2 DEF Boot, Acquire, RetryLock, GiveUpLock, Sweep, ResolveWindow, vars
<1>3. CASE SetupError(w) \/ Recover(w) \/ LeaveLoop(w) \/ StopRetrying(w) \/ Unlock(w)
  BY <1>3 DEF SetupError, Recover, LeaveLoop, Settled, StopRetrying, Unlock, vars
<1>4. CASE WorkerCrash(w) \/ SessionEnds(w)
  BY <1>4 DEF WorkerCrash, Die, SessionEnds, vars
<1> QED
  BY <1>1, <1>2, <1>3, <1>4 DEF WorkerLoop

(***************************************************************************)
(* Workers with their lock, their restarts and dead sessions, and commands *)
(* that take no lock beside them, implement EvidenceLog as well: whoever   *)
(* commits, evidence grows by whole ranges and is never taken back.        *)
(***************************************************************************)
THEOREM WorkersRefine == WorkerSpec => ImplementsEvidenceLog
<1>1. WorkerInit => Evidence!EvidenceInit
  BY DEF WorkerInit, Init, Evidence!EvidenceInit, BlocksIn, RecordedLogs
<1>2. WInv /\ [WorkerNext]_allVars => [Evidence!EvidenceNext]_Evidence!evidenceVars
  <2> SUFFICES ASSUME WInv, [WorkerNext]_allVars
               PROVE  Evidence!EvidenceNext \/ UNCHANGED <<BlocksIn(coverage), RecordedLogs>>
    BY DEF Evidence!evidenceVars
  <2>1. CASE UNCHANGED dbVars
    BY <2>1, TablesStutter
  <2>2. CASE dbVars' # dbVars
    <3>1. ASSUME NEW w \in Workers, WorkerStep(w) PROVE CallStep(w) \/ Abort(w)
      BY <2>2, <3>1, LoopStutters DEF WorkerStep, WorkerSignal
    <3>2. ChainStep \/ \E i \in Ingesters : Enter(i) \/ CallStep(i) \/ Abort(i) \/ Crash(i)
      BY <2>2, <3>1, WorkerAssumption DEF WorkerNext, CLIStep, CLI, allVars, vars
    <3>3. Next
      BY <3>2 DEF Next
    <3>4. IInv
      BY DEF WInv
    <3> QED
      BY <2>2, <3>3, <3>4, OnlyCommits, CommitRefines
  <2> QED
    BY <2>1, <2>2
<1> QED
  BY <1>1, <1>2, WorkerInvariance, PTL DEF WorkerSpec, ImplementsEvidenceLog, Evidence!EvidenceSpec

--------------------------------------------------------------------------------
(***************************************************************************)
(* What the lock makes of the resumption of ingestLogs.  Chunks follow one *)
(* another from nextBlock, whose call is the only one, so every commit     *)
(* lands behind the checkpoint; and the window of a worker only slides     *)
(* forward, so what lies before the checkpoint of it is always covered.    *)
(***************************************************************************)
\* The slots of a batch follow one another, and the loop awaits the one that
\* starts at nextBlock.
Chained(i) ==
  /\ \A k \in DOMAIN slots[i] :
       k + 1 \in DOMAIN slots[i] => slots[i][k + 1].from = slots[i][k].to + 1
  /\ pc[i] \in {"fetching", "anchor", "persist"} =>
       cur[i] \in DOMAIN slots[i] /\ Slot(i).from = next[i]
  /\ pc[i] = "update" => next[i] = AskedTo(Slot(i)) + 1

SameScan(j) ==
  /\ pc'[j] = pc[j] /\ req'[j] = req[j] /\ next'[j] = next[j] /\ outcome'[j] = outcome[j]
  /\ slots'[j] = slots[j] /\ cur'[j] = cur[j]

\* A step of one ingester changes nothing of another's scan.
LEMMA OtherScans ==
  ASSUME IInv, NEW i \in Ingesters, Enter(i) \/ CallStep(i) \/ Abort(i) \/ Crash(i)
  PROVE  \A j \in Ingesters \ {i} : SameScan(j)
<1>1. /\ pc \in [Ingesters -> Phases] /\ outcome \in [Ingesters -> Outcomes]
      /\ req \in [Ingesters -> [from : Blocks, to : Blocks]]
      /\ next \in [Ingesters -> 1 .. MaxBlock + 1] /\ cur \in [Ingesters -> 1 .. FetchConcurrency]
      /\ DOMAIN slots = Ingesters
  BY DEF IInv, TypeOK, MemoryTypeOK, ResultsTypeOK
<1>2. CASE Enter(i) \/ Abort(i) \/ Crash(i)
  BY <1>1, <1>2 DEF Enter, Refuse, NoOp, Start, Abort, Crash, Die, Forget, chunkVars, callVars, SameScan
<1>3. CASE Plan(i) \/ Complete(i) \/ Interrupt(i)
  BY <1>1, <1>3 DEF Plan, Complete, Interrupt, Return, Leave, Forget, callVars, SameScan
<1>4. ASSUME NEW k, NEW s, SetSlot(i, k, s) PROVE \A j \in Ingesters \ {i} : SameScan(j)
  BY <1>1, <1>4 DEF SetSlot, callVars, SameScan
<1>5. ASSUME NEW class, Throw(i, class) PROVE \A j \in Ingesters \ {i} : SameScan(j)
  BY <1>1, <1>5 DEF Throw, Return, Leave, Forget, SameScan
<1>6. CASE \E k \in 1 .. FetchConcurrency : Fetch(i, k)
  <2>1. \E k, s : SetSlot(i, k, s)
    BY <1>6 DEF Fetch, FetchAnswers, FetchShrinks, FetchRetries, FetchGivesUp, FetchInterrupted
  <2> QED  BY <1>4, <2>1
<1>7. CASE Consume(i)
  <2>1. CASE ReadHeaders(i) \/ ReadAnchor(i) \/ Persist(i) \/ NextSlot(i) \/ EndBatch(i)
    BY <1>1, <2>1 DEF ReadHeaders, ReadAnchor, Persist, NextSlot, EndBatch, Recorded, callVars, SameScan
  <2>2. CASE \E class : Throw(i, class)
    BY <1>5, <2>2
  <2> QED  BY <1>7, <2>1, <2>2 DEF Consume, BatchError, HeaderError, PersistError,
                                  PersistUnacknowledged, UpdateError
<1> QED  BY <1>2, <1>3, <1>6, <1>7 DEF CallStep

\* The chunks of a batch follow one another.
LEMMA BatchChained ==
  ASSUME NEW first \in Blocks, NEW to \in Blocks, NEW sz \in 1 .. ChunkSize, NEW k,
         k \in DOMAIN Batch(first, to, sz), k + 1 \in DOMAIN Batch(first, to, sz)
  PROVE  Batch(first, to, sz)[k + 1].from = Batch(first, to, sz)[k].to + 1
<1> USE IngestionAssumption, ChainAssumption
<1> DEFINE f == BatchFrom(first, k, sz)
           g == BatchFrom(first, k + 1, sz)
<1>1. /\ Batch(first, to, sz)[k + 1].from = g /\ Batch(first, to, sz)[k].to = PlannedTo(f, to, sz)
      /\ k \in Nat /\ g <= to
  BY DEF Batch, NewSlot
<1>2. first \in Nat /\ sz \in Nat /\ to \in Nat
  BY DEF Blocks
<1>3. g = f + sz /\ f \in Int
  <2>1. (k - 1) * sz + sz = k * sz /\ (k - 1) * sz \in Int /\ (k + 1) - 1 = k
    BY <1>1, <1>2
  <2> QED  BY <1>1, <1>2, <2>1 DEF BatchFrom
<1> HIDE DEF f, g
<1>4. PlannedTo(f, to, sz) = f + sz - 1
  BY <1>1, <1>2, <1>3 DEF PlannedTo, Lesser
<1> QED  BY <1>1, <1>2, <1>3, <1>4

\* A call that ended has no slots.
LEMMA EndedChained ==
  ASSUME IInv, NEW i \in Ingesters, Forget(i)
  PROVE  Chained(i)' /\ pc'[i] = "idle"
<1>1. slots'[i] = Nothing /\ pc'[i] = "idle" /\ DOMAIN Nothing = {}
  BY DEF Forget, IInv, TypeOK, MemoryTypeOK, Nothing
<1> QED  BY <1>1 DEF Chained

\* A new batch starts at nextBlock.
LEMMA PlanChained ==
  ASSUME IInv, NEW i \in Ingesters, Plan(i)
  PROVE  Chained(i)'
<1> USE IngestionAssumption, ChainAssumption
<1>1. /\ next[i] \in Nat /\ next[i] >= 1 /\ req[i].to \in Blocks /\ size[i] \in 1 .. ChunkSize
  BY DEF IInv, TypeOK, MemoryTypeOK
<1>2. next[i] <= req[i].to
  BY DEF Plan
<1>3. next[i] \in Blocks
  BY <1>1, <1>2 DEF Blocks
<1>4. PICK batch : batch = Batch(next[i], req[i].to, size[i])
  OBVIOUS
<1>5. slots'[i] = batch /\ cur'[i] = 1 /\ pc'[i] = "fetching" /\ next'[i] = next[i]
  BY <1>4 DEF Plan, IInv, TypeOK, MemoryTypeOK, callVars
<1>6. \A k \in DOMAIN batch : k + 1 \in DOMAIN batch => batch[k + 1].from = batch[k].to + 1
  BY <1>1, <1>3, <1>4, BatchChained
<1>7. 1 \in DOMAIN batch /\ batch[1].from = next[i]
  <2>1. BatchFrom(next[i], 1, size[i]) = next[i]
    <3>1. (1 - 1) * size[i] = 0
      BY <1>1
    <3> QED  BY <1>1, <3>1 DEF BatchFrom
  <2> QED  BY <1>2, <1>4, <2>1 DEF Batch, NewSlot
<1> QED  BY <1>5, <1>6, <1>7 DEF Chained, Slot

\* Answers, retries and shorter requests move no chunk.
LEMMA FetchChained ==
  ASSUME IInv, NEW i \in Ingesters, Chained(i), NEW k \in 1 .. FetchConcurrency, Fetch(i, k)
  PROVE  Chained(i)'
<1>1. \E s : /\ SetSlot(i, k, s) /\ s.from = slots[i][k].from /\ s.to = slots[i][k].to
            /\ pc[i] # "idle" /\ k \in DOMAIN slots[i] /\ slots[i][k].answer = "pending"
  <2>1. Pending(i, k) /\ slots[i][k] \in SlotType
    BY DEF Fetch, FetchAnswers, FetchShrinks, FetchRetries, FetchGivesUp, FetchInterrupted, Pending,
           IInv, TypeOK, MemoryTypeOK, IsBatch
  <2>2. PICK s : SetSlot(i, k, s) /\ s.from = slots[i][k].from /\ s.to = slots[i][k].to
    <3>1. PICK b \in SlotType : b = slots[i][k]
      BY <2>1
    <3> DEFINE Same(s) == SetSlot(i, k, s) /\ s.from = b.from /\ s.to = b.to
    <3>2. ASSUME NEW m, SetSlot(i, k, [b EXCEPT !.answer = "logs", !.logs = m])
          PROVE  \E s : Same(s)
      <4>1. PICK s : s = [b EXCEPT !.answer = "logs", !.logs = m]
        OBVIOUS
      <4>2. s.from = b.from /\ s.to = b.to
        BY <4>1 DEF SlotType
      <4> QED  BY <3>2, <4>1, <4>2
    <3>3. ASSUME NEW m, SetSlot(i, k, [b EXCEPT !.size = m, !.attempt = 0])
          PROVE  \E s : Same(s)
      <4>1. PICK s : s = [b EXCEPT !.size = m, !.attempt = 0]
        OBVIOUS
      <4>2. s.from = b.from /\ s.to = b.to
        BY <4>1 DEF SlotType
      <4> QED  BY <3>3, <4>1, <4>2
    <3>4. ASSUME NEW m, SetSlot(i, k, [b EXCEPT !.attempt = m])
          PROVE  \E s : Same(s)
      <4>1. PICK s : s = [b EXCEPT !.attempt = m]
        OBVIOUS
      <4>2. s.from = b.from /\ s.to = b.to
        BY <4>1 DEF SlotType
      <4> QED  BY <3>4, <4>1, <4>2
    <3>5. ASSUME NEW m, SetSlot(i, k, [b EXCEPT !.answer = m])
          PROVE  \E s : Same(s)
      <4>1. PICK s : s = [b EXCEPT !.answer = m]
        OBVIOUS
      <4>2. s.from = b.from /\ s.to = b.to
        BY <4>1 DEF SlotType
      <4> QED  BY <3>5, <4>1, <4>2
    <3>6. CASE FetchAnswers(i, k)
      BY <3>1, <3>2, <3>6 DEF FetchAnswers
    <3>7. CASE FetchShrinks(i, k)
      BY <3>1, <3>3, <3>7 DEF FetchShrinks
    <3>8. CASE FetchRetries(i, k)
      BY <3>1, <3>4, <3>8 DEF FetchRetries
    <3>9. CASE (\E class \in RpcErrors : FetchGivesUp(i, k, class)) \/ FetchInterrupted(i, k)
      BY <3>1, <3>5, <3>9 DEF FetchGivesUp, FetchInterrupted
    <3> QED  BY <3>1, <3>6, <3>7, <3>8, <3>9 DEF Fetch
  <2> QED  BY <2>1, <2>2 DEF Pending
<1>2. PICK s : /\ SetSlot(i, k, s) /\ s.from = slots[i][k].from /\ s.to = slots[i][k].to
               /\ pc[i] # "idle" /\ k \in DOMAIN slots[i] /\ slots[i][k].answer = "pending"
  BY <1>1
<1>3. /\ slots'[i] = [slots[i] EXCEPT ![k] = s] /\ UNCHANGED <<pc, next, cur>>
  BY <1>2 DEF SetSlot, callVars, IInv, TypeOK, MemoryTypeOK
<1>4. /\ DOMAIN slots'[i] = DOMAIN slots[i]
      /\ \A n \in DOMAIN slots[i] : slots'[i][n].from = slots[i][n].from /\ slots'[i][n].to = slots[i][n].to
      /\ \A n \in DOMAIN slots[i] : slots[i][n].answer # "pending" => slots'[i][n] = slots[i][n]
  BY <1>2, <1>3
<1>5. pc[i] = "update" => cur[i] \in DOMAIN slots[i] /\ slots[i][cur[i]].answer = "logs"
  BY DEF IInv, CallsOK, CallOK, Slot
<1> QED  BY <1>3, <1>4, <1>5 DEF Chained, Slot, AskedTo

\* The loop goes on with the slot behind the chunk that came whole.
LEMMA NextChained ==
  ASSUME IInv, NEW i \in Ingesters, Chained(i), NextSlot(i) \/ EndBatch(i)
  PROVE  Chained(i)'
<1>1. CASE EndBatch(i)
  <2>1. slots'[i] = Nothing /\ pc'[i] = "loop" /\ DOMAIN Nothing = {}
    BY <1>1 DEF EndBatch, IInv, TypeOK, MemoryTypeOK, Nothing
  <2> QED  BY <2>1 DEF Chained
<1>2. CASE NextSlot(i)
  <2>1. /\ pc[i] = "update" /\ pc'[i] = "fetching" /\ cur'[i] = cur[i] + 1 /\ slots' = slots
        /\ next' = next /\ ~ CameShort(Slot(i)) /\ cur[i] + 1 \in DOMAIN slots[i]
    BY <1>2 DEF NextSlot, Recorded, callVars, IInv, TypeOK, MemoryTypeOK
  <2>2. cur[i] \in DOMAIN slots[i] /\ next[i] = Slot(i).to + 1
    BY <2>1 DEF Chained, CameShort, IInv, CallsOK, CallOK
  <2> QED  BY <2>1, <2>2 DEF Chained, Slot
<1> QED  BY <1>1, <1>2

\* A commit, and what it leaves of the call.
Commits(i) ==
  /\ PersistChunk(i)
  /\ \/ /\ pc'[i] = "update" /\ next'[i] = AskedTo(Slot(i)) + 1
        /\ req'[i] = req[i] /\ outcome'[i] = outcome[i]
     \/ pc'[i] = "idle" /\ outcome'[i] \notin {"completed", "noop"}

\* A call goes on, ends or commits.
Goes(i) ==
  /\ UNCHANGED dbVars
  /\ pc'[i] # "idle" /\ next'[i] = next[i] /\ req'[i] = req[i] /\ outcome'[i] = outcome[i]

Ends(i) ==
  /\ UNCHANGED dbVars
  /\ pc'[i] = "idle"
  /\ outcome'[i] # "noop"
  /\ outcome'[i] = "completed" => pc[i] = "loop" /\ next[i] > req[i].to

\* A step of a call keeps its chunks chained, and either goes on, ends or commits.
LEMMA CallEffect ==
  ASSUME IInv, NEW i \in Ingesters, Chained(i), CallStep(i)
  PROVE  Chained(i)' /\ (Goes(i) \/ Ends(i) \/ Commits(i)) /\ pc[i] # "idle" /\ UNCHANGED <<chainVars, aborted>>
<1>1. /\ pc \in [Ingesters -> Phases] /\ outcome \in [Ingesters -> Outcomes]
      /\ req \in [Ingesters -> [from : Blocks, to : Blocks]]
      /\ next \in [Ingesters -> 1 .. MaxBlock + 1] /\ cur \in [Ingesters -> 1 .. FetchConcurrency]
  BY DEF IInv, TypeOK, MemoryTypeOK, ResultsTypeOK
<1>2. CASE Plan(i)
  <2>1. Goes(i) /\ pc[i] # "idle" /\ UNCHANGED <<chainVars, aborted>>
    BY <1>1, <1>2 DEF Plan, Goes, callVars
  <2> QED  BY <1>2, <2>1, PlanChained
<1>3. CASE Complete(i) \/ Interrupt(i)
  <2>1. /\ Forget(i) /\ UNCHANGED <<dbVars, chainVars, aborted>> /\ pc[i] # "idle"
        /\ outcome'[i] \in {"completed", "interrupted"}
        /\ outcome'[i] = "completed" => pc[i] = "loop" /\ next[i] > req[i].to
    BY <1>1, <1>3 DEF Complete, Interrupt, Return, Leave
  <2> QED  BY <2>1, EndedChained DEF Ends
<1>4. CASE \E k \in 1 .. FetchConcurrency : Fetch(i, k)
  <2>1. PICK k \in 1 .. FetchConcurrency : Fetch(i, k)
    BY <1>4
  <2>2. pc[i] # "idle" /\ \E s : SetSlot(i, k, s)
    BY <2>1 DEF Fetch, FetchAnswers, FetchShrinks, FetchRetries, FetchGivesUp, FetchInterrupted, Pending
  <2>3. Goes(i) /\ pc[i] # "idle" /\ UNCHANGED <<chainVars, aborted>>
    BY <2>2 DEF SetSlot, Goes, callVars
  <2> QED  BY <2>1, <2>3, FetchChained
<1>5. ASSUME NEW class \in ErrorClass, Throw(i, class)
      PROVE  /\ Chained(i)' /\ pc'[i] = "idle" /\ outcome'[i] \notin {"completed", "noop"}
             /\ UNCHANGED <<chainVars, aborted>>
  <2>1. Forget(i) /\ UNCHANGED <<chainVars, aborted>>
    BY <1>5 DEF Throw, Return, Leave
  <2>2. outcome'[i] \in ErrorClass \cup {"interrupted"}
    <3>1. Thrown \subseteq ErrorClass
      BY IngestionAssumption DEF Thrown, ErrorClass
    <3> QED  BY <1>1, <1>5, <3>1 DEF Throw, Return, Leave
  <2>3. "completed" \notin ErrorClass \cup {"interrupted"} /\ "noop" \notin ErrorClass \cup {"interrupted"}
    BY DEF ErrorClass
  <2> QED  BY <2>1, <2>2, <2>3, EndedChained
<1>6. CASE Consume(i)
  <2>1. CASE ReadHeaders(i) \/ ReadAnchor(i)
    <3>1. /\ pc[i] \in {"fetching", "anchor"} /\ pc'[i] \in {"anchor", "persist"}
          /\ UNCHANGED <<dbVars, chainVars, aborted, req, next, slots, cur, outcome>>
      BY <1>1, <2>1 DEF ReadHeaders, ReadAnchor, Answered, callVars
    <3>2. Chained(i)'
      BY <3>1 DEF Chained, Slot
    <3> QED  BY <3>1, <3>2 DEF Goes
  <2>2. CASE Persist(i)
    <3>1. /\ PersistChunk(i) /\ pc[i] = "persist" /\ pc'[i] = "update"
          /\ next'[i] = AskedTo(Slot(i)) + 1
          /\ UNCHANGED <<chainVars, aborted, req, slots, cur, outcome>>
      BY <1>1, <2>2 DEF Persist, PersistChunk
    <3>2. Chained(i)'
      BY <3>1 DEF Chained, Slot, AskedTo
    <3> QED  BY <3>1, <3>2 DEF Commits
  <2>3. CASE NextSlot(i) \/ EndBatch(i)
    <3>1. Goes(i) /\ pc[i] # "idle" /\ UNCHANGED <<chainVars, aborted>>
      BY <1>1, <2>3 DEF NextSlot, EndBatch, Recorded, callVars, Goes
    <3> QED  BY <2>3, <3>1, NextChained
  <2>4. CASE BatchError(i)
    <3>1. Slot(i).answer \in ErrorClass /\ pc[i] # "idle"
      <4>1. cur[i] \in DOMAIN slots[i] /\ Slot(i).answer \notin {"logs", "pending"} /\ pc[i] # "idle"
        BY <2>4 DEF BatchError, Answered
      <4>2. Slot(i) \in SlotType
        BY <4>1 DEF IInv, TypeOK, MemoryTypeOK, IsBatch, Slot
      <4> QED  BY <4>1, <4>2 DEF SlotType, Answers
    <3> QED  BY <2>4, <3>1, <1>5 DEF BatchError, Ends
  <2>5. ASSUME NEW class \in Thrown,
               \/ HeaderError(i, class) \/ PersistError(i, class)
               \/ PersistUnacknowledged(i, class) \/ UpdateError(i, class)
        PROVE  Chained(i)' /\ (Ends(i) \/ Commits(i)) /\ pc[i] # "idle" /\ UNCHANGED <<chainVars, aborted>>
    <3>1. class \in ErrorClass
      BY IngestionAssumption DEF Thrown, ErrorClass
    <3>2. Throw(i, class) /\ pc[i] # "idle" /\ (UNCHANGED dbVars \/ PersistChunk(i))
      BY <2>5 DEF HeaderError, Answered, PersistError, PersistUnacknowledged, PersistChunk, UpdateError
    <3> QED  BY <1>5, <3>1, <3>2 DEF Ends, Commits
  <2> QED  BY <1>6, <2>1, <2>2, <2>3, <2>4, <2>5 DEF Consume
<1> QED  BY <1>2, <1>3, <1>4, <1>6 DEF CallStep

--------------------------------------------------------------------------------
\* No block is missing between two points of the scan.
Scan(from, upTo) == from .. upTo - 1 \subseteq BlocksIn(coverage)

\* Where a window resolved now would start.
WindowStart == SevenDayRange.from

\* Every commit lies behind the checkpoint.
Behind == \A c \in coverage : c.to < checkpoint.next

\* A worker's window started no later than one resolved now would; what lies
\* before the checkpoint of it is covered, and so is what its call went over.
WindowOK(w) ==
  /\ phase[w] \in {"ready", "calling"} =>
       window[w].from <= WindowStart /\ Scan(window[w].from, checkpoint.next)
  /\ pc[w] # "idle" =>
       req[w] = window[w] /\ checkpoint.next <= next[w] /\ Scan(window[w].from, next[w])
  /\ outcome[w] \in {"completed", "noop"} =>
       /\ phase[w] \in {"calling", "leaving", "done"}
       /\ BlocksOf(window[w]) \subseteq BlocksIn(coverage)

ScanInv ==
  /\ \A i \in Ingesters : Chained(i)
  /\ Behind /\ NoBlockScannedTwice
  /\ Scan(WindowStart, checkpoint.next)
  /\ \A w \in Workers : WindowOK(w)

\* Nothing is on record yet.
LEMMA ScanInit == WorkerInit => ScanInv
<1> SUFFICES ASSUME WorkerInit PROVE ScanInv
  OBVIOUS
<1>1. Workers \subseteq Ingesters /\ DOMAIN Nothing = {}
  BY WorkerAssumption DEF Nothing
<1>2. \A i \in Ingesters : slots[i] = Nothing /\ pc[i] = "idle" /\ outcome[i] = "none"
  BY DEF WorkerInit, Init
<1>3. coverage = {} /\ checkpoint.next = 0 /\ \A w \in Workers : phase[w] = "off"
  BY DEF WorkerInit, Init
<1>4. WindowStart \in Nat /\ WindowStart >= 1
  BY WorkerAssumption, IngestionAssumption, ChainAssumption
     DEF WorkerInit, Init, ChainInit, WindowStart, SevenDayRange, FinalizedHead, Greater
<1>5. Scan(WindowStart, checkpoint.next)
  BY <1>3, <1>4 DEF Scan
<1>6. \A i \in Ingesters : Chained(i)
  BY <1>1, <1>2 DEF Chained
<1>7. \A w \in Workers : WindowOK(w)
  BY <1>1, <1>2, <1>3 DEF WindowOK
<1> QED  BY <1>3, <1>5, <1>6, <1>7 DEF ScanInv, Behind, NoBlockScannedTwice

\* The window only slides forward.
LEMMA WindowSlides ==
  ASSUME WInv, [ChainNext]_chainVars
  PROVE  WindowStart \in Nat /\ WindowStart' \in Nat /\ WindowStart <= WindowStart'
<1>1. head \in Nat /\ head' \in Nat /\ head <= head'
  BY ChainAssumption DEF WInv, IInv, TypeOK, ChainTypeOK, Blocks, ChainNext, Mine, Finalize, Reorg, chainVars
<1>2. WindowLength \in Nat /\ FinalityLag \in Nat
  BY WorkerAssumption, IngestionAssumption
<1>3. /\ WindowStart  = Greater(1, head - FinalityLag - WindowLength + 1)
      /\ WindowStart' = Greater(1, head' - FinalityLag - WindowLength + 1)
  BY WorkerAssumption DEF WindowStart, SevenDayRange, FinalizedHead
<1>4. PICK m \in Nat, n \in Nat, lag \in Nat, length \in Nat :
        m = head /\ n = head' /\ lag = FinalityLag /\ length = WindowLength
  BY <1>1, <1>2
<1>5. m <= n
  BY <1>1, <1>4
<1>6. PICK start : start = WindowStart
  OBVIOUS
<1>7. PICK later : later = WindowStart'
  OBVIOUS
<1>8. start = Greater(1, m - lag - length + 1) 
  BY <1>3, <1>4, <1>6
<1>9. later = Greater(1, n - lag - length + 1)
  BY <1>3, <1>4, <1>7
<1>10. start \in Nat /\ later \in Nat /\ start <= later
  BY <1>5, <1>8, <1>9 DEF Greater
<1> QED  BY <1>6, <1>7, <1>10

\* What a step has to leave alone of a worker.
SameWorker(w) ==
  /\ phase'[w] = phase[w] /\ window'[w] = window[w]
  /\ pc'[w] = pc[w] /\ req'[w] = req[w] /\ next'[w] = next[w] /\ outcome'[w] = outcome[w]

\* A step that commits nothing disturbs no other worker.
LEMMA NoCommit ==
  ASSUME WInv, ScanInv, [ChainNext]_chainVars, UNCHANGED <<coverage, checkpoint>>
  PROVE  /\ (Behind /\ NoBlockScannedTwice)' /\ Scan(WindowStart, checkpoint.next)'
         /\ \A w \in Workers : SameWorker(w) => WindowOK(w)'
<1>1. WindowStart \in Nat /\ WindowStart' \in Nat /\ WindowStart <= WindowStart'
  BY WindowSlides
<1>2. checkpoint.next \in Nat /\ \A w \in Workers : window[w].from \in Nat
  BY DEF WInv, IInv, TypeOK, TablesTypeOK, WorkerTypeOK, Blocks
<1>3. (Behind /\ NoBlockScannedTwice)'
  BY DEF ScanInv, Behind, NoBlockScannedTwice
<1>4. Scan(WindowStart, checkpoint.next)'
  BY <1>1, <1>2 DEF ScanInv, Scan
<1>5. \A w \in Workers : SameWorker(w) => WindowOK(w)'
  BY <1>1, <1>2 DEF ScanInv, WindowOK, SameWorker, Scan
<1> QED  BY <1>3, <1>4, <1>5

\* A step of the loop of runSevenDayWorker that leaves ingestLogs alone.
LEMMA QuietScan ==
  ASSUME WInv, ScanInv, UNCHANGED <<chainVars, dbVars, pc, slots, cur, req, next, outcome, window>>,
         NEW w \in Workers, NEW to \in WorkerPhases, phase' = [phase EXCEPT ![w] = to],
         to \in {"ready", "calling"} => phase[w] \in {"ready", "calling"},
         outcome[w] \in {"completed", "noop"} => to \in {"calling", "leaving", "done"}
  PROVE  ScanInv'
<1>1. phase \in [Workers -> WorkerPhases]
  BY DEF WInv, WorkerTypeOK
<1>2. /\ (Behind /\ NoBlockScannedTwice)' /\ Scan(WindowStart, checkpoint.next)'
      /\ \A v \in Workers : SameWorker(v) => WindowOK(v)'
  BY NoCommit DEF dbVars
<1>3. \A v \in Workers \ {w} : WindowOK(v)'
  BY <1>1, <1>2 DEF SameWorker
<1>4. WindowOK(w)'
  BY <1>1 DEF ScanInv, WindowOK, WindowStart, SevenDayRange, FinalizedHead, Scan, chainVars, dbVars
<1>5. \A i \in Ingesters : Chained(i)'
  BY DEF ScanInv, Chained, Slot
<1> QED  BY <1>2, <1>3, <1>4, <1>5 DEF ScanInv

\* The worker whose call steps is the only one inside the lock.
LEMMA OnlyInside ==
  ASSUME WInv, NEW w \in Workers, phase[w] \in Inside
  PROVE  \A v \in Workers \ {w} : phase[v] \notin Inside /\ pc[v] = "idle"
BY DEF WInv, LockInv, Inside

\* A commit goes on where the checkpoint stands, and moves it behind itself.
LEMMA RowAdds ==
  ASSUME NEW C, NEW r
  PROVE  BlocksIn(C \cup {r}) = BlocksIn(C) \cup BlocksOf(r)
BY DEF BlocksIn

LEMMA CommitScan ==
  ASSUME CLI = {}, WInv, ScanInv, NEW w \in Workers, InCall(w), Commits(w),
         Chained(w)', UNCHANGED chainVars,
         \A j \in Ingesters \ {w} : SameScan(j)
  PROVE  /\ (Behind /\ NoBlockScannedTwice)' /\ Scan(WindowStart, checkpoint.next)'
         /\ \A v \in Workers : WindowOK(v)'
         /\ checkpoint'.next >= checkpoint.next
<1>1. Workers \subseteq Ingesters /\ PersistChunk(w) /\ IInv /\ pc[w] = "persist"
      /\ phase[w] = "calling" /\ UNCHANGED <<phase, window>>
  BY WorkerAssumption DEF Commits, PersistChunk, WInv, InCall, workerVars
<1>2. PICK s, to : s = Slot(w) /\ to = AskedTo(Slot(w))
  OBVIOUS
<1>3. /\ s.from \in Blocks /\ to \in Blocks /\ s.from <= to
      /\ coverage' = coverage \cup {[from |-> s.from, to |-> to]}
      /\ checkpoint'.next = to + 1
  <2>1. s.from \in Blocks /\ to \in Blocks /\ s.from <= to
    BY <1>1, <1>2, PersistReads
  <2>2. coverage' = coverage \cup {Asked(Slot(w))} /\ checkpoint' = AdvanceCheckpoint(AskedTo(Slot(w)), anchor[w])
    BY <1>1, PersistWrites
  <2>3. checkpoint'.next = to + 1
    BY <1>2, <2>2 DEF AdvanceCheckpoint
  <2> QED  BY <1>2, <2>1, <2>2, <2>3 DEF Asked
<1>4. s.from = next[w]
  BY <1>1, <1>2 DEF ScanInv, Chained
<1>5. /\ checkpoint.next <= s.from /\ req[w] = window[w] /\ Scan(window[w].from, s.from)
      /\ window[w].from <= WindowStart
  BY <1>1, <1>4 DEF ScanInv, WindowOK
<1>6. /\ checkpoint.next \in Nat /\ window[w].from \in Nat /\ to \in Nat /\ s.from \in Nat
      /\ WindowStart \in Nat /\ WindowStart' = WindowStart
      /\ \A c \in coverage : c.from \in Nat /\ c.to \in Nat
  <2>1. WindowStart' = WindowStart
    BY DEF WindowStart, SevenDayRange, FinalizedHead, chainVars
  <2>2. WindowStart \in Nat
    BY WindowSlides
  <2> QED  BY <1>3, <2>1, <2>2 DEF WInv, IInv, TypeOK, TablesTypeOK, WorkerTypeOK, Blocks
<1>7. \A x : x \in BlocksIn(coverage)' <=> x \in BlocksIn(coverage) \/ x \in s.from .. to
  <2>1. PICK r : r = [from |-> s.from, to |-> to]
    OBVIOUS
  <2>2. BlocksIn(coverage)' = BlocksIn(coverage) \cup BlocksOf(r)
    BY <1>3, <2>1, RowAdds
  <2>3. BlocksOf(r) = s.from .. to
    BY <2>1 DEF BlocksOf
  <2> QED  BY <2>2, <2>3
<1>8. Behind'
  BY <1>3, <1>5, <1>6 DEF ScanInv, Behind
<1>9. NoBlockScannedTwice'
  <2>1. \A c \in coverage : BlocksOf(c) \cap (s.from .. to) = {}
    BY <1>5, <1>6 DEF ScanInv, Behind, BlocksOf
  <2>2. BlocksOf([from |-> s.from, to |-> to]) = s.from .. to
    BY DEF BlocksOf
  <2> QED  BY <1>3, <2>1, <2>2 DEF ScanInv, NoBlockScannedTwice
<1>10. window[w].from .. to \subseteq BlocksIn(coverage)'
  BY <1>5, <1>6, <1>7 DEF Scan
<1>11. Scan(WindowStart, checkpoint.next)' /\ Scan(window[w].from, checkpoint.next)'
  <2>1. window'[w].from .. checkpoint'.next - 1 = window[w].from .. to
    BY <1>1, <1>3, <1>6
  <2>2. WindowStart' .. checkpoint'.next - 1 \subseteq window[w].from .. to
    BY <1>3, <1>5, <1>6
  <2> QED  BY <1>10, <2>1, <2>2 DEF Scan
<1>12. WindowOK(w)'
  <2>1. CASE pc'[w] = "update" /\ next'[w] = to + 1 /\ req'[w] = req[w] /\ outcome'[w] = outcome[w]
    <3>1. outcome[w] \in {"completed", "noop"} => BlocksOf(window[w]) \subseteq BlocksIn(coverage)'
      BY <1>7 DEF ScanInv, WindowOK
    <3>2. checkpoint'.next <= next'[w] /\ Scan(window[w].from, next[w])'
      <4>1. checkpoint'.next = next'[w]
        BY <1>3, <2>1
      <4>2. checkpoint'.next <= next'[w]
        BY <1>3, <1>6, <4>1
      <4>3. window'[w].from .. checkpoint'.next - 1 = window'[w].from .. next'[w] - 1
        BY <4>1
      <4> QED  BY <1>11, <4>2, <4>3 DEF Scan
    <3>3. phase'[w] = "calling" /\ window'[w] = window[w] /\ req'[w] = window'[w]
          /\ window'[w].from <= WindowStart'
      BY <1>1, <1>5, <1>6, <2>1
    <3>4. outcome'[w] \in {"completed", "noop"} => BlocksOf(window'[w]) \subseteq BlocksIn(coverage)'
      BY <2>1, <3>1, <3>3
    <3> QED  BY <1>11, <3>2, <3>3, <3>4 DEF WindowOK
  <2>2. CASE pc'[w] = "idle" /\ outcome'[w] \notin {"completed", "noop"}
    <3>1. phase'[w] = "calling" /\ window'[w] = window[w] /\ window'[w].from <= WindowStart'
      BY <1>1, <1>5, <1>6
    <3> QED  BY <1>11, <2>2, <3>1 DEF WindowOK
  <2> QED  BY <1>2, <2>1, <2>2 DEF Commits
<1>13. \A v \in Workers \ {w} : WindowOK(v)'
  <2> SUFFICES ASSUME NEW v \in Workers \ {w} PROVE WindowOK(v)'
    OBVIOUS
  <2>1. phase[v] \notin Inside /\ pc[v] = "idle"
    BY <1>1, OnlyInside DEF Inside
  <2>2. SameScan(v)
    BY <1>1
  <2>3. BlocksIn(coverage) \subseteq BlocksIn(coverage)'
    BY <1>7
  <2> QED  BY <1>1, <2>1, <2>2, <2>3 DEF ScanInv, WindowOK, SameScan, Inside
<1> QED  BY <1>3, <1>5, <1>6, <1>8, <1>9, <1>11, <1>12, <1>13

\* A step of the call keeps the scan of every worker in order.
LEMMA CallScan ==
  ASSUME CLI = {}, WInv, ScanInv, NEW w \in Workers, InCall(w), CallStep(w)
  PROVE  ScanInv' /\ checkpoint'.next >= checkpoint.next
<1>1. Workers \subseteq Ingesters /\ IInv /\ phase[w] = "calling" /\ UNCHANGED <<phase, window>>
      /\ checkpoint.next \in Nat
  BY WorkerAssumption DEF WInv, IInv, TypeOK, TablesTypeOK, InCall, workerVars
<1>2. Chained(w)' /\ (Goes(w) \/ Ends(w) \/ Commits(w)) /\ pc[w] # "idle" /\ UNCHANGED chainVars
  BY <1>1, CallEffect DEF ScanInv
<1>3. \A j \in Ingesters \ {w} : SameScan(j)
  BY <1>1, OtherScans
<1>4. \A i \in Ingesters : Chained(i)'
  BY <1>2, <1>3 DEF ScanInv, Chained, SameScan, Slot
<1>5. CASE Commits(w)
  BY <1>2, <1>3, <1>4, <1>5, CommitScan DEF ScanInv
<1>6. CASE Goes(w) \/ Ends(w)
  <2>1. UNCHANGED <<coverage, checkpoint>>
    BY <1>6 DEF Goes, Ends, dbVars
  <2>2. /\ (Behind /\ NoBlockScannedTwice)' /\ Scan(WindowStart, checkpoint.next)'
        /\ \A v \in Workers : SameWorker(v) => WindowOK(v)'
    BY <1>2, <2>1, NoCommit
  <2>3. \A v \in Workers \ {w} : WindowOK(v)'
    BY <1>1, <1>3, <2>2 DEF SameWorker, SameScan
  <2>4. WindowStart' = WindowStart
    BY <1>2 DEF WindowStart, SevenDayRange, FinalizedHead, chainVars
  <2>5. WindowOK(w)'
    <3>1. CASE Goes(w)
      BY <1>1, <1>2, <2>1, <2>4, <3>1 DEF ScanInv, WindowOK, Goes, Scan
    <3>2. CASE Ends(w) /\ outcome'[w] # "completed"
      BY <1>1, <1>2, <2>1, <2>4, <3>2 DEF ScanInv, WindowOK, Ends, Scan
    <3>3. CASE Ends(w) /\ outcome'[w] = "completed"
      <4>1. /\ next[w] > req[w].to /\ req[w] = window[w] /\ Scan(window[w].from, next[w])
            /\ next[w] \in Nat /\ window[w].to \in Nat
        BY <1>1, <1>2, <3>3 DEF Ends, ScanInv, WindowOK, WInv, IInv, TypeOK, MemoryTypeOK, WorkerTypeOK, Blocks
      <4>2. BlocksOf(window[w]) \subseteq BlocksIn(coverage)
        BY <4>1 DEF Scan, BlocksOf
      <4> QED  BY <1>1, <1>2, <2>1, <2>4, <3>3, <4>2 DEF ScanInv, WindowOK, Ends, Scan
    <3> QED  BY <1>6, <3>1, <3>2, <3>3
  <2> QED  BY <1>1, <1>4, <2>1, <2>2, <2>3, <2>5 DEF ScanInv
<1> QED  BY <1>2, <1>5, <1>6

\* The call of ingestLogs is let in, has nothing to do, or is refused.
LEMMA EnterScan ==
  ASSUME CLI = {}, WInv, ScanInv, NEW w \in Workers,
         Call(w, CallAccepted(w)) \/ Call(w, CallRefused(w))
  PROVE  ScanInv' /\ checkpoint' = checkpoint
<1>1. /\ Workers \subseteq Ingesters /\ phase[w] = "ready" /\ pc[w] = "idle"
      /\ phase'[w] = "calling" /\ \A v \in Workers \ {w} : phase'[v] = phase[v]
      /\ UNCHANGED <<window, chainVars, dbVars, slots, cur>>
      /\ \A i \in Ingesters \ {w} : SameScan(i)
  <2>1. /\ pc \in [Ingesters -> Phases] /\ outcome \in [Ingesters -> Outcomes]
        /\ req \in [Ingesters -> [from : Blocks, to : Blocks]]
        /\ next \in [Ingesters -> 1 .. MaxBlock + 1] /\ phase \in [Workers -> WorkerPhases]
    BY DEF WInv, IInv, TypeOK, MemoryTypeOK, ResultsTypeOK, WorkerTypeOK
  <2> QED  BY <2>1, WorkerAssumption DEF Call, CallAccepted, CallRefused, NoOp, Start, Refuse, Goto,
                                        chunkVars, callVars, SameScan
<1>2. /\ (Behind /\ NoBlockScannedTwice)' /\ Scan(WindowStart, checkpoint.next)'
      /\ \A v \in Workers : SameWorker(v) => WindowOK(v)'
  BY <1>1, NoCommit DEF dbVars
<1>3. \A v \in Workers \ {w} : WindowOK(v)'
  BY <1>1, <1>2 DEF SameWorker, SameScan
<1>4. WindowStart' = WindowStart
  BY <1>1 DEF WindowStart, SevenDayRange, FinalizedHead, chainVars
<1>5. /\ window[w].from <= WindowStart /\ Scan(window[w].from, checkpoint.next)
      /\ checkpoint.next \in Nat /\ window[w].from \in Nat /\ window[w].to \in Nat
  BY <1>1 DEF ScanInv, WindowOK, WInv, IInv, TypeOK, TablesTypeOK, WorkerTypeOK, Blocks
<1>6. (window[w].from <= WindowStart /\ Scan(window[w].from, checkpoint.next))'
  BY <1>1, <1>4, <1>5 DEF Scan, dbVars
<1>7. CASE NoOp(w, window[w])
  <2>1. window[w].from <= window[w].to /\ ResumeAt(window[w]) > window[w].to
        /\ outcome'[w] = "noop" /\ pc'[w] = "idle"
    BY <1>1, <1>7 DEF NoOp, Admissible, WInv, IInv, TypeOK, ResultsTypeOK
  <2>2. checkpoint.next > window[w].to
    BY <1>5, <2>1 DEF ResumeAt, Greater
  <2>3. BlocksOf(window[w]) \subseteq BlocksIn(coverage)
    BY <1>5, <2>2 DEF Scan, BlocksOf
  <2>4. WindowOK(w)'
    BY <1>1, <1>6, <2>1, <2>3 DEF WindowOK, dbVars
  <2>5. \A i \in Ingesters : Chained(i)'
    BY <1>1, <2>1 DEF ScanInv, Chained, SameScan, Slot
  <2> QED  BY <1>1, <1>2, <1>3, <2>4, <2>5 DEF ScanInv, dbVars
<1>8. CASE Start(w, window[w])
  <2>1. /\ req'[w] = window[w] /\ next'[w] = ResumeAt(window[w])
        /\ outcome'[w] = "none" /\ pc'[w] = "loop"
    BY <1>1, <1>8 DEF Start, WInv, IInv, TypeOK, ResultsTypeOK, MemoryTypeOK
  <2>2. PICK n : n = ResumeAt(window[w])
    OBVIOUS
  <2>3. n \in Nat /\ checkpoint.next <= n /\ window[w].from .. n - 1 \subseteq window[w].from .. checkpoint.next - 1
    BY <1>5, <2>2 DEF ResumeAt, Greater
  <2>4. checkpoint'.next <= next'[w] /\ Scan(window[w].from, next[w])'
    <3>1. window'[w].from .. next'[w] - 1 \subseteq BlocksIn(coverage)
      BY <1>1, <1>5, <2>1, <2>2, <2>3 DEF Scan
    <3> QED  BY <1>1, <2>1, <2>2, <2>3, <3>1 DEF Scan, dbVars
  <2>5. WindowOK(w)'
    BY <1>1, <1>6, <2>1, <2>4 DEF WindowOK
  <2>6. \A i \in Ingesters : Chained(i)'
    BY <1>1, <2>1 DEF ScanInv, Chained, SameScan, Slot
  <2> QED  BY <1>1, <1>2, <1>3, <2>5, <2>6 DEF ScanInv, dbVars
<1>9. CASE CallRefused(w)
  <2>1. outcome'[w] \notin {"completed", "noop"} /\ pc'[w] = "idle"
    <3>1. Thrown \subseteq ErrorClass
      BY IngestionAssumption DEF Thrown, ErrorClass
    <3> QED  BY <1>1, <1>9, <3>1 DEF CallRefused, Refuse, ErrorClass, WInv, IInv, TypeOK, ResultsTypeOK
  <2>2. WindowOK(w)'
    BY <1>1, <1>6, <2>1 DEF WindowOK
  <2>3. \A i \in Ingesters : Chained(i)'
    BY <1>1, <2>1 DEF ScanInv, Chained, SameScan, Slot
  <2> QED  BY <1>1, <1>2, <1>3, <2>2, <2>3 DEF ScanInv, dbVars
<1> QED  BY <1>7, <1>8, <1>9 DEF Call, CallAccepted

\* A step of runSevenDayWorker outside ingestLogs does, too.
LEMMA LoopScan ==
  ASSUME CLI = {}, WInv, ScanInv, NEW w \in Workers, WorkerLoop(w)
  PROVE  ScanInv' /\ checkpoint' = checkpoint
<1>1. phase \in [Workers -> WorkerPhases] /\ Workers \subseteq Ingesters
      /\ WindowOK(w)
  BY WorkerAssumption DEF WInv, WorkerTypeOK, ScanInv
<1>2. ASSUME NEW from, NEW to \in WorkerPhases, Goto(w, from, to),
             UNCHANGED <<chainVars, dbVars, pc, slots, cur, req, next, outcome, window>>,
             to \in {"ready", "calling"} => from \in {"ready", "calling"},
             outcome[w] \in {"completed", "noop"} /\ from \in {"calling", "leaving", "done"} =>
               to \in {"calling", "leaving", "done"}
      PROVE  ScanInv' /\ checkpoint' = checkpoint
  <2>1. phase' = [phase EXCEPT ![w] = to] /\ phase[w] = from /\ checkpoint' = checkpoint
    BY <1>2 DEF Goto, dbVars
  <2>2. outcome[w] \in {"completed", "noop"} => from \in {"calling", "leaving", "done"}
    BY <1>1, <2>1 DEF WindowOK
  <2> QED  BY <1>2, <2>1, <2>2, QuietScan
<1>3. CASE Boot(w) \/ Acquire(w) \/ RetryLock(w) \/ GiveUpLock(w)
  BY <1>2, <1>3 DEF Boot, Acquire, RetryLock, GiveUpLock, WorkerPhases, vars, chunkVars, callVars
<1>4. CASE Sweep(w)
  BY <1>2, <1>4 DEF Sweep, WorkerPhases, chunkVars, callVars
<1>5. CASE SetupError(w) \/ StopRetrying(w) \/ Unlock(w)
  BY <1>2, <1>5 DEF SetupError, StopRetrying, Unlock, WorkerPhases, vars, chunkVars, callVars
<1>6. CASE LeaveLoop(w)
  BY <1>2, <1>6 DEF LeaveLoop, Settled, WorkerPhases, vars, chunkVars, callVars
<1>7. CASE Recover(w)
  BY <1>2, <1>7 DEF Recover, Settled, Recoverable, WorkerPhases, vars, chunkVars, callVars
<1>8. CASE Call(w, CallAccepted(w)) \/ Call(w, CallRefused(w))
  BY <1>8, EnterScan
<1>9. CASE ResolveWindow(w)
  <2>1. /\ UNCHANGED vars /\ phase[w] = "resolve" /\ phase'[w] = "ready" /\ window'[w] = SevenDayRange
        /\ \A v \in Workers \ {w} : phase'[v] = phase[v] /\ window'[v] = window[v]
    BY <1>1, <1>9 DEF ResolveWindow, Goto, WInv, WorkerTypeOK
  <2>2. UNCHANGED <<chainVars, dbVars, pc, req, next, outcome, slots, cur, coverage, checkpoint>>
    BY <2>1 DEF vars, chunkVars, callVars, dbVars
  <2>3. /\ (Behind /\ NoBlockScannedTwice)' /\ Scan(WindowStart, checkpoint.next)'
        /\ \A v \in Workers : SameWorker(v) => WindowOK(v)'
    BY <2>2, NoCommit
  <2>4. \A v \in Workers \ {w} : WindowOK(v)'
    BY <2>1, <2>2, <2>3 DEF SameWorker
  <2>5. pc[w] = "idle" /\ outcome[w] \notin {"completed", "noop"}
    BY <1>1, <2>1 DEF WInv, LockInv, WindowOK
  <2>6. window'[w].from = WindowStart' /\ WindowStart' \in Nat
    <3>1. WindowStart' = WindowStart /\ WindowStart \in Nat
      BY <2>2, WindowSlides DEF WindowStart, SevenDayRange, FinalizedHead, chainVars
    <3> QED  BY <2>1, <3>1 DEF WindowStart
  <2>7. WindowOK(w)'
    BY <2>1, <2>2, <2>3, <2>5, <2>6 DEF WindowOK
  <2>8. \A i \in Ingesters : Chained(i)'
    BY <2>2 DEF ScanInv, Chained, Slot
  <2> QED  BY <2>2, <2>3, <2>4, <2>7, <2>8 DEF ScanInv
<1> QED  BY <1>3, <1>4, <1>5, <1>6, <1>7, <1>8, <1>9 DEF WorkerLoop

\* So does every step of a system of workers, and the checkpoint goes up.
LEMMA ScanStep ==
  ASSUME CLI = {}, WInv, ScanInv, [WorkerNext]_allVars
  PROVE  ScanInv' /\ checkpoint'.next >= checkpoint.next
<1>1. checkpoint.next \in Nat /\ Workers \subseteq Ingesters
  BY WorkerAssumption DEF WInv, IInv, TypeOK, TablesTypeOK
\* The chain moves, a signal arrives, a session ends, or nothing happens.
<1>2. ASSUME [ChainNext]_chainVars,
             UNCHANGED <<dbVars, pc, slots, cur, req, next, outcome, phase, window>>
      PROVE  ScanInv' /\ checkpoint'.next >= checkpoint.next
  <2>1. /\ (Behind /\ NoBlockScannedTwice)' /\ Scan(WindowStart, checkpoint.next)'
        /\ \A v \in Workers : SameWorker(v) => WindowOK(v)'
    BY <1>2, NoCommit DEF dbVars
  <2>2. \A v \in Workers : WindowOK(v)'
    BY <1>2, <2>1 DEF SameWorker
  <2>3. \A i \in Ingesters : Chained(i)'
    BY <1>2 DEF ScanInv, Chained, Slot
  <2> QED  BY <1>1, <1>2, <2>1, <2>2, <2>3 DEF ScanInv, dbVars
<1>3. CASE UNCHANGED allVars
  BY <1>2, <1>3 DEF allVars, vars, workerVars, chunkVars, callVars
<1>4. CASE ChainStep /\ UNCHANGED workerVars
  BY <1>2, <1>4 DEF ChainStep, workerVars, chunkVars, callVars
<1>5. ASSUME NEW w \in Workers, WorkerStep(w)
      PROVE  ScanInv' /\ checkpoint'.next >= checkpoint.next
  <2>1. CASE WorkerLoop(w)
    BY <1>1, <2>1, LoopScan
  <2>2. CASE InCall(w) /\ CallStep(w)
    BY <2>2, CallScan
  <2>3. CASE SessionEnds(w) \/ WorkerSignal(w)
    BY <1>2, <2>3 DEF SessionEnds, WorkerSignal, Abort, vars, workerVars, chunkVars, callVars
  <2>4. CASE WorkerCrash(w)
    <3>1. /\ UNCHANGED <<chainVars, coverage, checkpoint>>
          /\ pc'[w] = "idle" /\ outcome'[w] = "none" /\ phase'[w] = "off"
          /\ slots'[w] = Nothing
      BY <1>1, <2>4 DEF WorkerCrash, Die, Forget, dbVars, WInv, IInv, TypeOK, MemoryTypeOK,
                        ResultsTypeOK, WorkerTypeOK
    <3>2. \A v \in Workers \ {w} : phase'[v] = phase[v] /\ window'[v] = window[v]
      BY <2>4 DEF WorkerCrash, WInv, WorkerTypeOK
    <3>3. \A i \in Ingesters \ {w} : SameScan(i)
      <4>1. /\ pc \in [Ingesters -> Phases] /\ outcome \in [Ingesters -> Outcomes]
            /\ req \in [Ingesters -> [from : Blocks, to : Blocks]]
            /\ next \in [Ingesters -> 1 .. MaxBlock + 1] /\ cur \in [Ingesters -> 1 .. FetchConcurrency]
            /\ DOMAIN slots = Ingesters
        BY DEF WInv, IInv, TypeOK, MemoryTypeOK, ResultsTypeOK
      <4> QED  BY <1>1, <2>4, <4>1 DEF WorkerCrash, Die, Forget, SameScan
    <3>4. /\ (Behind /\ NoBlockScannedTwice)' /\ Scan(WindowStart, checkpoint.next)'
          /\ \A v \in Workers : SameWorker(v) => WindowOK(v)'
      BY <3>1, NoCommit
    <3>5. \A v \in Workers : WindowOK(v)'
      <4>1. WindowOK(w)'
        BY <3>1 DEF WindowOK
      <4>2. \A v \in Workers \ {w} : WindowOK(v)'
        BY <1>1, <3>2, <3>3, <3>4 DEF SameWorker, SameScan
      <4> QED  BY <4>1, <4>2
    <3>6. \A i \in Ingesters : Chained(i)'
      <4>1. DOMAIN Nothing = {}
        BY DEF Nothing
      <4>2. Chained(w)'
        BY <3>1, <4>1 DEF Chained
      <4> QED  BY <3>3, <4>2 DEF ScanInv, Chained, SameScan, Slot
    <3> QED  BY <1>1, <3>1, <3>4, <3>5, <3>6 DEF ScanInv
  <2> QED  BY <1>5, <2>1, <2>2, <2>3, <2>4 DEF WorkerStep
<1> QED  BY <1>3, <1>4, <1>5 DEF WorkerNext

\* Workers alone never leave the order of the scan.
LEMMA ScanInvariance ==
  ASSUME CLI = {}
  PROVE  WorkerSpec => [](WInv /\ ScanInv)
<1>1. WInv /\ ScanInv /\ [WorkerNext]_allVars => ScanInv'
  BY ScanStep
<1> QED  BY <1>1, ScanInit, WorkerInvariance, PTL DEF WorkerSpec

(***************************************************************************)
(* As long as nobody but workers ingests, no block is committed twice: a   *)
(* call resumes at the larger of the checkpoint and its window, so a       *)
(* commit that took effect without its answer is not made again.           *)
(***************************************************************************)
THEOREM LockScansOnce ==
  ASSUME CLI = {}
  PROVE  WorkerSpec => []NoBlockScannedTwice
<1>1. ScanInv => NoBlockScannedTwice
  BY DEF ScanInv
<1> QED  BY <1>1, ScanInvariance, PTL

(***************************************************************************)
(* As long as nobody but workers ingests, persistChunk, which writes the   *)
(* checkpoint unconditionally, never moves it back.                        *)
(***************************************************************************)
THEOREM CheckpointOnlyAdvances ==
  ASSUME CLI = {}
  PROVE  WorkerSpec => CheckpointAdvances
<1>1. WInv /\ ScanInv /\ [WorkerNext]_allVars => checkpoint'.next >= checkpoint.next
  BY ScanStep
<1> QED  BY <1>1, ScanInvariance, PTL DEF WorkerSpec, CheckpointAdvances

(***************************************************************************)
(* As long as nobody but workers ingests, a worker whose call of           *)
(* ingestLogs completed, or found nothing to do, has its whole window      *)
(* covered: the argument is that windows only slide forward, so what the   *)
(* checkpoint has passed of an earlier window is all there is to skip.     *)
(***************************************************************************)
THEOREM FinishedIsCovered ==
  ASSUME CLI = {}
  PROVE  WorkerSpec => []FinishedMeansCovered
<1>1. ScanInv => FinishedMeansCovered
  BY DEF ScanInv, WindowOK, FinishedMeansCovered
<1> QED  BY <1>1, ScanInvariance, PTL
===============================================================================
