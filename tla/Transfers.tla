------------------------------- MODULE Transfers -------------------------------
(***************************************************************************)
(* Token transfers as src/analytics/holders.ts reads them, and what a      *)
(* token ledger says after them.  Amounts are base units.  The two assets  *)
(* are kept apart by every key of the code, so one of them is enough.      *)
(***************************************************************************)
EXTENDS Integers, FiniteSets, FiniteSetsExt, Functions

CONSTANTS
  Holders,   \* addresses that hold the token
  Zero       \* the zero address, which mints and burns

ASSUME HoldersAssumption == IsFiniteSet(Holders) /\ Zero \notin Holders

Addresses == Holders \cup {Zero}

\* A Transfer event, in block `at` with index `log`.
Transfer(Blocks, Amounts) ==
  [at : Blocks, log : Nat, from : Addresses, to : Addresses, value : Amounts]

\* The order of the replay: by block, then by log index.
Precedes(e, f) == e.at < f.at \/ (e.at = f.at /\ e.log < f.log)

\* A log index is used once in a block.
Ordered(es) == \A e, f \in es : e # f => Precedes(e, f) \/ Precedes(f, e)

-------------------------------------------------------------------------------
Amount(es) == SumFunction([e \in es |-> e.value])

Minted(es) == Amount({e \in es : e.from = Zero})
Burned(es) == Amount({e \in es : e.to = Zero})

\* What an address has gained by a set of transfers.
Net(es, h) == Amount({e \in es : e.to = h}) - Amount({e \in es : e.from = h})

\* The addresses that get a balance row.
Touched(es) == {h \in Holders : \E e \in es : e.from = h \/ e.to = h}

\* A token lets nobody send what he does not have; neither does the replay.
Solvent(es) ==
  \A e \in es : e.from # Zero => Net({f \in es : Precedes(f, e)}, e.from) >= e.value
===============================================================================
