---------------------------- MODULE FinalizedChain ----------------------------
(***************************************************************************)
(* The chain as the indexer sees it over RPC.  It is outside the           *)
(* repository and modelled from how src/indexer/service.ts uses it: blocks *)
(* are mined and finalised, and a reorganisation replaces the blocks after *)
(* the last finalised one.  Two hashes per height are enough to tell a     *)
(* block from the one that replaced it.                                    *)
(***************************************************************************)
EXTENDS BlockRanges

CONSTANTS
  MaxBlock,     \* the highest block that can be mined (bound)
  StartHead,    \* the head in the initial state
  ReorgDepth    \* the network replaces at most this many blocks at its head

ASSUME ChainAssumption ==
  /\ MaxBlock \in Nat \ {0}
  /\ StartHead \in 1 .. MaxBlock
  /\ ReorgDepth \in Nat

Blocks == 1 .. MaxBlock
Hash   == {0, 1}

VARIABLES
  head,    \* the latest block
  final,   \* the latest finalised block: it and its ancestors never change
  hash     \* the hash of each block on the current best chain

chainVars == <<head, final, hash>>

ChainTypeOK ==
  /\ head \in Blocks
  /\ final \in 0 .. head
  /\ head - final <= ReorgDepth
  /\ hash \in [Blocks -> Hash]

ChainInit ==
  /\ head = StartHead
  /\ final \in Greater(0, StartHead - ReorgDepth) .. StartHead
  /\ hash = [b \in Blocks |-> 0]

\* A block out of the reach of reorganisations is final.
Mine ==
  /\ head < MaxBlock
  /\ head' = head + 1
  /\ final' = Greater(final, head' - ReorgDepth)
  /\ UNCHANGED hash

Finalize ==
  /\ final < head
  /\ final' = final + 1
  /\ UNCHANGED <<head, hash>>

\* The blocks from b on are replaced by a competing fork.
Reorg(b) ==
  /\ b \in final + 1 .. head
  /\ hash' = [x \in Blocks |-> IF x \in b .. head THEN 1 - hash[x] ELSE hash[x]]
  /\ UNCHANGED <<head, final>>

ChainNext == Mine \/ Finalize \/ \E b \in Blocks : Reorg(b)
===============================================================================
