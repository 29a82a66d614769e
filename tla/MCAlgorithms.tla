----------------------------- MODULE MCAlgorithms -----------------------------
(***************************************************************************)
(* The sequential algorithms in one TLC run: the coverage gate, the replay *)
(* of transfers, the derivation of a yield interval and the choice among   *)
(* stored ones.  A behaviour runs one of them, on each of its inputs; the  *)
(* others stay where they are.                                             *)
(***************************************************************************)
EXTENDS CoverageGaps, RangeYield, HolderReplay, RateWindow

CONSTANTS
  MaxRows,      \* bound on the number of coverage rows
  Transferred   \* the amounts of a transfer

VARIABLES
  subject       \* the algorithm that runs (constant)

-------------------------------------------------------------------------------
Places == {<<1, 0>>, <<1, 1>>, <<2, 0>>, <<3, 0>>}

At(p) ==
  {{}} \cup {{[at |-> p[1], log |-> p[2], from |-> f, to |-> t, value |-> v]} :
               f, t \in Holders \cup {Zero}, v \in Transferred}

\* Every history of up to four transfers, two of them in one block.
UpToFour ==
  {UNION {a, b, c, d} :
     a \in At(<<1, 0>>), b \in At(<<1, 1>>), c \in At(<<2, 0>>), d \in At(<<3, 0>>)}

\* Up to three stored intervals.  Candidates are treated like verified intervals
\* by everything modelled.
Decided   == {r \in Intervals : r.status # "candidate"}
UpToThree == {{a, b, c} : a, b, c \in Decided}

-------------------------------------------------------------------------------
NoRows == rows = {} /\ query = [from |-> 0, to |-> 0]

NoReplay ==
  transfers = {} /\ unread = {} /\ states = <<>> /\ metric = NoActivity /\ replaying = "off"

NoWindow ==
  /\ deriving = "off" /\ vault = <<>> /\ block = 0
  /\ events = {} /\ start = <<>> /\ finish = <<>> /\ seen = {} /\ row = <<>>
  /\ todo = {} /\ fold = <<>>

NoChoice ==
  /\ intervals = {} /\ window = [start |-> 0, end |-> 1] /\ unvisited = {}
  /\ selected = <<>> /\ reached = 0 /\ choosing = "done"

MCInit ==
  \/ /\ subject = "coverage"
     /\ rows \in UNION {kSubset(k, Ranges) : k \in 0 .. MaxRows}
     /\ Init /\ NoReplay /\ NoWindow /\ NoChoice
  \/ subject = "replay" /\ NoRows /\ Init /\ ReplayInit /\ NoWindow /\ NoChoice
  \/ subject = "window" /\ NoRows /\ Init /\ NoReplay /\ WindowInit /\ NoChoice
  \/ subject = "yield" /\ NoRows /\ Init /\ NoReplay /\ NoWindow /\ YieldInit

MCNext ==
  /\ UNCHANGED subject
  /\ \/ subject = "coverage" /\ Next /\ UNCHANGED <<replayVars, windowVars, yieldVars>>
     \/ subject = "replay" /\ ReplayNext /\ UNCHANGED <<vars, windowVars, yieldVars>>
     \/ subject = "window" /\ WindowNext /\ UNCHANGED <<vars, replayVars, yieldVars>>
     \/ subject = "yield" /\ YieldNext /\ UNCHANGED <<vars, replayVars, windowVars>>

MCSpec == MCInit /\ [][MCNext]_<<subject, vars, replayVars, windowVars, yieldVars>>
===============================================================================
