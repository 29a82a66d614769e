----------------------------- MODULE HolderReplay -----------------------------
(***************************************************************************)
(* replayHolderTransfers (src/analytics/holders.ts): a set of Transfer     *)
(* events is replayed in their order into balances and activity metrics.   *)
(* One step is one event, as one iteration of the loop is.                 *)
(***************************************************************************)
EXTENDS Transfers, TLC

CONSTANTS Histories   \* the sets of events to look at

\* Histories are finite sets of transfers in blocks from 1 on.
HistoriesOK ==
  \A es \in Histories :
    es \subseteq Transfer(Nat \ {0}, Nat) /\ IsFiniteSet(es) /\ Ordered(es)

ASSUME HistoriesAssumption == HistoriesOK

None == 0             \* first_positive_block is null; block numbers start at 1

VARIABLES
  transfers,   \* the events of the range (constant)
  unread,      \* events that the loop has not reached
  states,      \* the balance rows: holder -> [balance, firstPositive, lastChanged]
  metric,      \* the activity metrics
  replaying    \* "loop", "done" or "failed"

replayVars == <<transfers, unread, states, metric, replaying>>

NoActivity ==
  [minted |-> 0, burned |-> 0, volume |-> 0, count |-> 0,
   senders |-> {}, receivers |-> {}, newHolders |-> 0]

ReplayInit ==
  /\ transfers \in Histories
  /\ unread = transfers
  /\ states = <<>>
  /\ metric = NoActivity
  /\ replaying = "loop"

-------------------------------------------------------------------------------
\* The row of an address, or the one it starts with.
StateOf(rows, h, e) ==
  IF h \in DOMAIN rows THEN rows[h]
  ELSE [balance |-> 0, firstPositive |-> None, lastChanged |-> e.at]

\* Whether this update makes the address a holder for the first time.  Fault:
\* an address that comes back counts again.
AnyBecomesHolder(rows, h, e, delta) ==
  StateOf(rows, h, e).balance = 0 /\ delta > 0
BecomesHolder(rows, h, e, delta) ==
  StateOf(rows, h, e).firstPositive = None /\ StateOf(rows, h, e).balance + delta > 0

\* The closure `update`: the row after a change.  The zero address has none.
Updated(rows, h, e, delta) ==
  LET old == StateOf(rows, h, e)
  IN  IF h = Zero THEN rows
      ELSE [x \in DOMAIN rows \cup {h} |->
              IF x # h THEN rows[x]
              ELSE [balance       |-> old.balance + delta,
                    firstPositive |-> IF BecomesHolder(rows, h, e, delta)
                                      THEN e.at ELSE old.firstPositive,
                    lastChanged   |-> e.at]]

\* The sender's row is written first, the receiver's reads it.  Fault: both
\* rows are computed from the state before the event.
StaleCredited(rows, e) == Updated(rows, e.to, e, e.value) @@ Updated(rows, e.from, e, - e.value)
Credited(rows, e) == Updated(Updated(rows, e.from, e, - e.value), e.to, e, e.value)

\* `update` throws when a balance would become negative.
Overdraws(rows, e) == e.from # Zero /\ StateOf(rows, e.from, e).balance < e.value

\* The metrics: a transfer between two holders is neither a mint nor a burn.
Peer(e) == e.from # Zero /\ e.to # Zero

Counted(m, e, new) ==
  [minted     |-> m.minted + (IF e.from = Zero THEN e.value ELSE 0),
   burned     |-> m.burned + (IF e.to = Zero THEN e.value ELSE 0),
   volume     |-> m.volume + (IF Peer(e) THEN e.value ELSE 0),
   count      |-> m.count + (IF Peer(e) THEN 1 ELSE 0),
   senders    |-> m.senders \cup ({e.from} \ {Zero}),
   receivers  |-> m.receivers \cup ({e.to} \ {Zero}),
   newHolders |-> m.newHolders + new]

\* How many of the two updates of an event find a new holder.
NewHolders(e) ==
  LET debited == Updated(states, e.from, e, - e.value)
  IN  (IF e.from # Zero /\ BecomesHolder(states, e.from, e, - e.value) THEN 1 ELSE 0)
      + (IF e.to # Zero /\ BecomesHolder(debited, e.to, e, e.value) THEN 1 ELSE 0)

-------------------------------------------------------------------------------
\* The order of the sort.  Fault: the block alone decides.
BlockFirst(e) == \A f \in unread : e.at <= f.at
First(e) == \A f \in unread \ {e} : Precedes(e, f)

Replay(e) ==
  /\ replaying = "loop"
  /\ First(e)
  /\ ~ Overdraws(states, e)
  /\ unread' = unread \ {e}
  /\ states' = Credited(states, e)
  /\ metric' = Counted(metric, e, NewHolders(e))
  /\ UNCHANGED <<transfers, replaying>>

Reject(e) ==
  /\ replaying = "loop"
  /\ First(e)
  /\ Overdraws(states, e)
  /\ replaying' = "failed"
  /\ UNCHANGED <<transfers, unread, states, metric>>

Finish ==
  /\ replaying = "loop"
  /\ unread = {}
  /\ replaying' = "done"
  /\ UNCHANGED <<transfers, unread, states, metric>>

ReplayNext == Finish \/ \E e \in unread : Replay(e) \/ Reject(e)

ReplaySpec == ReplayInit /\ [][ReplayNext]_replayVars

-------------------------------------------------------------------------------
Replayed == transfers \ unread

\* A row says what its address has gained by the events replayed so far, and
\* exactly the addresses these events name have one.  HolderLedger relies on it.
BalancesAreNets ==
  /\ DOMAIN states = Touched(Replayed)
  /\ \A h \in DOMAIN states : states[h].balance = Net(Replayed, h)

\* An address is counted as a new holder once, in the first block in which it
\* holds something, however often it comes back.
FirstHeld(h) ==
  {e.at : e \in {f \in Replayed : Net({g \in Replayed : g = f \/ Precedes(g, f)}, h) > 0}}

HoldersCountedOnce ==
  /\ metric.newHolders = Cardinality({h \in Holders : FirstHeld(h) # {}})
  /\ \A h \in DOMAIN states :
       states[h].firstPositive = IF FirstHeld(h) = {} THEN None ELSE Min(FirstHeld(h))

\* The replay is refused exactly when some event sends more than its sender has
\* at that point (README: "rejects any replay that would make a holder balance
\* negative"): a complete history is never refused.
RefusedIfOverdrawn ==
  /\ replaying = "done" => Solvent(transfers)
  /\ replaying = "failed" => ~ Solvent(transfers)
===============================================================================
