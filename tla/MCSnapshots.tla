----------------------------- MODULE MCSnapshots -----------------------------
(***************************************************************************)
(* TLC instances of AssetPayload: the savings cycle or the supply cycle,   *)
(* which share no table, of two chains and two processes.                  *)
(***************************************************************************)
EXTENDS AssetPayload, TLC

CONSTANTS p, q, a, b   \* processes and chains

VARIABLE subject

State(age, valid) == [age |-> age, valid |-> valid]

\* One chain is up to date when it answers; the other lags, or is not what it
\* should be.  The history lane reads it as it should be.
OneLags == (a :> {State(0, TRUE)}) @@ (b :> {State(1, TRUE), State(0, FALSE)})
Boundary == (a :> {}) @@ (b :> {State(0, TRUE)})

\* Two workers, or a worker and a command.
TwoWorkers == (p :> {"worker"}) @@ (q :> {"worker", "snapshot-all"})

\* The second chain has two URLs, the second of which is behind or another token.
TwoUrls == (a :> 1) @@ (b :> 2)
Finality == (a :> {State(0, TRUE)}) @@ (b :> {State(0, TRUE)})
Lagged == (a :> {State(0, TRUE)}) @@ (b :> {State(2, TRUE), State(0, FALSE)})

MCInit == Init /\ SupplyInit /\ subject \in {"savings", "supply"}

MCNext ==
  /\ \/ subject = "savings" /\ Next /\ UNCHANGED supplyVars
     \/ subject = "supply" /\ SupplyNext /\ UNCHANGED vars
  /\ UNCHANGED subject

MCSpec == MCInit /\ [][MCNext]_<<vars, supplyVars, subject>> /\ Fairness
================================================================================
