--------------------------- MODULE HolderReplayProofs ---------------------------
(***************************************************************************)
(* The replay of transfers (HolderReplay) for every set of addresses and   *)
(* every history: its rows are the nets of the events replayed so far, it  *)
(* refuses the overdrawn histories and no others, and it counts a new      *)
(* holder once.  The nets are sums over sets, so each proof is about one   *)
(* event that enters a sum (SumTheorems).                                  *)
(***************************************************************************)
EXTENDS HolderReplay, SumTheorems

-------------------------------------------------------------------------------
(* What one more transfer does to a net. *)

Sane(es) == es \subseteq Transfer(Nat \ {0}, Nat) /\ IsFiniteSet(es)

LEMMA AmountIsValueSum == \A es : Amount(es) = ValueSum(es)
BY DEF Amount, ValueSum

LEMMA SaneValues ==
  ASSUME NEW es, Sane(es)
  PROVE  \A e \in es : /\ e.at \in Nat \ {0} /\ e.log \in Nat /\ e.value \in Nat
                       /\ e.from \in Addresses /\ e.to \in Addresses
BY DEF Sane, Transfer

LEMMA NetInt ==
  ASSUME NEW es, Sane(es), NEW h
  PROVE  Net(es, h) \in Int
<1>1. ASSUME NEW part \in SUBSET es
      PROVE  Amount(part) \in Int
  <2>1. IsFiniteSet(part)
    BY FS_Subset DEF Sane
  <2> QED
    BY <2>1, SaneValues, ValueSumInt, AmountIsValueSum
<1> QED
  BY <1>1 DEF Net

LEMMA NetOfNone == \A h : Net({}, h) = 0
<1> TAKE h
<1>1. {e \in {} : e.to = h} = {} /\ {e \in {} : e.from = h} = {}
  OBVIOUS
<1>2. Net({}, h) = Amount({}) - Amount({})
  BY <1>1 DEF Net
<1> QED
  BY <1>2, AmountIsValueSum, ValueSumNone

\* What the event adds to, or takes from, the net of an address.
Gain(e, h) == (IF e.to = h THEN e.value ELSE 0) - (IF e.from = h THEN e.value ELSE 0)

LEMMA NetAdd ==
  ASSUME NEW es, NEW e, e \notin es, Sane(es \cup {e}), NEW h
  PROVE  Net(es \cup {e}, h) = Net(es, h) + Gain(e, h)
<1> DEFINE In(s)  == {x \in s : x.to = h}
           Out(s) == {x \in s : x.from = h}
<1>1. IsFiniteSet(es) /\ \A x \in es \cup {e} : x.value \in Nat
  BY SaneValues, FS_Subset DEF Sane
<1>2. ASSUME NEW part \in SUBSET es
      PROVE  /\ Amount(part) \in Int
             /\ Amount(part \cup {e}) = Amount(part) + e.value
  <2>1. IsFiniteSet(part) /\ e \notin part
    BY <1>1, FS_Subset
  <2>2. \A x \in part \cup {e} : x.value \in Int
    BY <1>1
  <2>3. ValueSum(part) \in Int /\ ValueSum(part \cup {e}) = ValueSum(part) + e.value
    BY <2>1, <2>2, ValueSumInt, ValueSumAdd
  <2> QED
    BY <2>3, AmountIsValueSum
<1>3. Amount(In(es \cup {e})) = Amount(In(es)) + (IF e.to = h THEN e.value ELSE 0)
  <2>1. CASE e.to = h
    <3>1. In(es \cup {e}) = In(es) \cup {e}
      BY <2>1
    <3>2. Amount(In(es \cup {e})) = Amount(In(es) \cup {e})
      BY <3>1
    <3> QED
      BY <2>1, <3>2, <1>2
  <2>2. CASE e.to # h
    <3>1. In(es \cup {e}) = In(es)
      BY <2>2
    <3>2. Amount(In(es \cup {e})) = Amount(In(es))
      BY <3>1
    <3>3. Amount(In(es)) \in Int
      BY <1>2
    <3> QED
      BY <2>2, <3>2, <3>3
  <2> QED
    BY <2>1, <2>2
<1>4. Amount(Out(es \cup {e})) = Amount(Out(es)) + (IF e.from = h THEN e.value ELSE 0)
  <2>1. CASE e.from = h
    <3>1. Out(es \cup {e}) = Out(es) \cup {e}
      BY <2>1
    <3>2. Amount(Out(es \cup {e})) = Amount(Out(es) \cup {e})
      BY <3>1
    <3> QED
      BY <2>1, <3>2, <1>2
  <2>2. CASE e.from # h
    <3>1. Out(es \cup {e}) = Out(es)
      BY <2>2
    <3>2. Amount(Out(es \cup {e})) = Amount(Out(es))
      BY <3>1
    <3>3. Amount(Out(es)) \in Int
      BY <1>2
    <3> QED
      BY <2>2, <3>2, <3>3
  <2> QED
    BY <2>1, <2>2
<1>5. Amount(In(es)) \in Int /\ Amount(Out(es)) \in Int /\ e.value \in Nat
  BY <1>1, <1>2
<1>6. /\ Net(es, h) = Amount(In(es)) - Amount(Out(es))
      /\ Net(es \cup {e}, h) = Amount(In(es \cup {e})) - Amount(Out(es \cup {e}))
  BY DEF Net
<1> HIDE DEF In, Out
<1> QED
  BY <1>3, <1>4, <1>5, <1>6 DEF Gain

-------------------------------------------------------------------------------
(* The two updates of an event. *)

\* What an address has, by its row, and since when; without a row, nothing.
Held(rows, h)  == IF h \in DOMAIN rows THEN rows[h].balance ELSE 0
Since(rows, h) == IF h \in DOMAIN rows THEN rows[h].firstPositive ELSE None

\* One update, of an address that may be the zero address: it leaves the other
\* addresses alone and moves the balance of its own.
LEMMA UpdatedOther ==
  ASSUME NEW rows, NEW a \in Addresses, NEW e, NEW delta, NEW h \in Holders, h # a,
         NEW new, new = Updated(rows, a, e, delta)
  PROVE  Held(new, h) = Held(rows, h) /\ Since(new, h) = Since(rows, h)
BY DEF Updated, Held, Since

LEMMA UpdatedOwn ==
  ASSUME NEW rows, NEW a \in Addresses, a # Zero, NEW e, NEW delta \in Int,
         NEW new, new = Updated(rows, a, e, delta)
  PROVE  /\ Held(new, a) = Held(rows, a) + delta
         /\ Since(new, a) = IF Since(rows, a) = None /\ Held(rows, a) + delta > 0
                            THEN e.at ELSE Since(rows, a)
<1>1. StateOf(rows, a, e).balance = Held(rows, a)
      /\ StateOf(rows, a, e).firstPositive = Since(rows, a)
  BY DEF StateOf, Held, Since
<1>2. /\ a \in DOMAIN new
      /\ new[a].balance = StateOf(rows, a, e).balance + delta
      /\ new[a].firstPositive =
           IF StateOf(rows, a, e).firstPositive = None /\ StateOf(rows, a, e).balance + delta > 0
           THEN e.at ELSE StateOf(rows, a, e).firstPositive
  BY DEF Updated, BecomesHolder
<1>3. Held(new, a) = new[a].balance /\ Since(new, a) = new[a].firstPositive
  BY <1>2 DEF Held, Since
<1> QED
  BY <1>1, <1>2, <1>3

\* Both updates of an event, when nobody is a holder before he holds something:
\* only the receiver can become one.
LEMMA UpdateBoth ==
  ASSUME NEW e, e.from \in Addresses, e.to \in Addresses, e.value \in Nat,
         NEW h \in Holders, Held(states, h) \in Int, Since(states, h) = None => Held(states, h) = 0,
         NEW new, new = Credited(states, e)
  PROVE  /\ Held(new, h) = Held(states, h) + Gain(e, h)
         /\ Since(new, h) = IF Since(states, h) = None /\ Held(states, h) + Gain(e, h) > 0
                            THEN e.at ELSE Since(states, h)
<1>1. PICK debited : debited = Updated(states, e.from, e, - e.value)
  OBVIOUS
<1>2. new = Updated(debited, e.to, e, e.value)
  BY <1>1 DEF Credited
<1>3. h # Zero /\ - e.value \in Int /\ e.value \in Int
  BY HoldersAssumption
<1>4. /\ Held(debited, h) = Held(states, h) - (IF e.from = h THEN e.value ELSE 0)
      /\ Since(debited, h) = Since(states, h)
  <2>1. CASE e.from = h
    <3>1. /\ Held(debited, e.from) = Held(states, e.from) + (- e.value)
          /\ Since(debited, e.from) =
               IF Since(states, e.from) = None /\ Held(states, e.from) + (- e.value) > 0
               THEN e.at ELSE Since(states, e.from)
      BY <1>1, <1>3, <2>1, UpdatedOwn
    <3> QED
      BY <3>1, <2>1
  <2>2. CASE e.from # h
    <3>1. Held(debited, h) = Held(states, h) /\ Since(debited, h) = Since(states, h)
      BY <1>1, <2>2, UpdatedOther
    <3> QED
      BY <3>1, <2>2
  <2> QED
    BY <2>1, <2>2
<1>5. CASE e.to = h
  <2>1. /\ Held(new, e.to) = Held(debited, e.to) + e.value
        /\ Since(new, e.to) = IF Since(debited, e.to) = None /\ Held(debited, e.to) + e.value > 0
                              THEN e.at ELSE Since(debited, e.to)
    BY <1>2, <1>3, <1>5, UpdatedOwn
  <2>2. Held(debited, e.to) + e.value = Held(states, h) + Gain(e, h)
    BY <1>4, <1>5 DEF Gain
  <2> QED
    BY <2>1, <2>2, <1>4, <1>5
<1>6. CASE e.to # h
  <2>1. Held(new, h) = Held(debited, h) /\ Since(new, h) = Since(debited, h)
    BY <1>2, <1>6, UpdatedOther
  <2>2. /\ Held(debited, h) = Held(states, h) + Gain(e, h)
        /\ ~ (Since(states, h) = None /\ Held(states, h) + Gain(e, h) > 0)
    BY <1>4, <1>6 DEF Gain
  <2> QED
    BY <2>1, <2>2, <1>4
<1> QED
  BY <1>5, <1>6

LEMMA CreditedDomain ==
  ASSUME NEW e, e.from \in Addresses, e.to \in Addresses, NEW new, new = Credited(states, e)
  PROVE  DOMAIN new = DOMAIN states \cup ({e.from, e.to} \ {Zero})
<1>1. PICK debited : debited = Updated(states, e.from, e, - e.value)
  OBVIOUS
<1>2. new = Updated(debited, e.to, e, e.value)
  BY <1>1 DEF Credited
<1>3. DOMAIN debited = DOMAIN states \cup ({e.from} \ {Zero})
  BY <1>1 DEF Updated
<1>4. DOMAIN new = DOMAIN debited \cup ({e.to} \ {Zero})
  BY <1>2 DEF Updated
<1> QED
  BY <1>3, <1>4

\* Only the receiver of an event can become a holder.
LEMMA NewHolderCount ==
  ASSUME NEW e, e.from \in Addresses, e.to \in Addresses, e.value \in Nat,
         \A h \in Holders : Held(states, h) \in Int /\ (Since(states, h) = None => Held(states, h) = 0)
  PROVE  NewHolders(e) = IF /\ e.to \in Holders /\ Since(states, e.to) = None
                            /\ Held(states, e.to) + Gain(e, e.to) > 0
                         THEN 1 ELSE 0
<1>1. PICK debited : debited = Updated(states, e.from, e, - e.value)
  OBVIOUS
<1>2. \A h \in Holders : h # Zero
  BY HoldersAssumption
<1>3. ~ (e.from # Zero /\ BecomesHolder(states, e.from, e, - e.value))
  <2> SUFFICES ASSUME e.from # Zero
               PROVE  ~ BecomesHolder(states, e.from, e, - e.value)
    OBVIOUS
  <2>1. e.from \in Holders
    BY DEF Addresses
  <2>2. ~ (Since(states, e.from) = None /\ Held(states, e.from) + (- e.value) > 0)
    BY <2>1
  <2> QED
    BY <2>2 DEF BecomesHolder, StateOf, Held, Since
<1>4. e.to \in Holders =>
        /\ Since(debited, e.to) = Since(states, e.to)
        /\ Held(debited, e.to) + e.value = Held(states, e.to) + Gain(e, e.to)
  <2> SUFFICES ASSUME e.to \in Holders
               PROVE  /\ Since(debited, e.to) = Since(states, e.to)
                      /\ Held(debited, e.to) + e.value = Held(states, e.to) + Gain(e, e.to)
    OBVIOUS
  <2>1. CASE e.from = e.to
    <3>1. /\ Held(debited, e.from) = Held(states, e.from) + (- e.value)
          /\ Since(debited, e.from) =
               IF Since(states, e.from) = None /\ Held(states, e.from) + (- e.value) > 0
               THEN e.at ELSE Since(states, e.from)
      <4>1. e.from # Zero /\ - e.value \in Int
        BY <1>2, <2>1
      <4> QED
        BY <1>1, <4>1, UpdatedOwn
    <3>2. Held(states, e.from) \in Int /\ (Since(states, e.from) = None => Held(states, e.from) = 0)
      BY <2>1
    <3> QED
      BY <3>1, <3>2, <2>1 DEF Gain
  <2>2. CASE e.from # e.to
    <3>1. Held(debited, e.to) = Held(states, e.to) /\ Since(debited, e.to) = Since(states, e.to)
      BY <1>1, <2>2, UpdatedOther
    <3> QED
      BY <3>1, <2>2 DEF Gain
  <2> QED
    BY <2>1, <2>2
<1>5. e.to # Zero /\ BecomesHolder(debited, e.to, e, e.value)
        <=> /\ e.to \in Holders /\ Since(states, e.to) = None
            /\ Held(states, e.to) + Gain(e, e.to) > 0
  <2>1. e.to # Zero <=> e.to \in Holders
    BY <1>2 DEF Addresses
  <2>2. BecomesHolder(debited, e.to, e, e.value)
          <=> Since(debited, e.to) = None /\ Held(debited, e.to) + e.value > 0
    BY DEF BecomesHolder, StateOf, Held, Since
  <2> QED
    BY <2>1, <2>2, <1>4
<1> QED
  BY <1>1, <1>3, <1>5 DEF NewHolders
-------------------------------------------------------------------------------
(* The blocks in which an address held something. *)

Upto(es, f)   == {g \in es : g = f \/ Precedes(g, f)}
HeldIn(es, h) == {f.at : f \in {g \in es : Net(Upto(es, g), h) > 0}}

LEMMA FirstHeldIs == \A h : FirstHeld(h) = HeldIn(Replayed, h)
BY DEF FirstHeld, HeldIn, Upto

\* The last event adds its block if it leaves the address with something.
LEMMA HeldInAdd ==
  ASSUME NEW es, NEW e, e \notin es, Sane(es \cup {e}), \A f \in es : Precedes(f, e), NEW h
  PROVE  HeldIn(es \cup {e}, h) =
           HeldIn(es, h) \cup (IF Net(es \cup {e}, h) > 0 THEN {e.at} ELSE {})
<1> DEFINE more == es \cup {e}
<1>1. \A x \in more : x.at \in Nat /\ x.log \in Nat
  BY SaneValues
<1>2. ASSUME NEW f \in es
      PROVE  Net(Upto(more, f), h) = Net(Upto(es, f), h)
  <2>1. ~ Precedes(e, f) /\ e # f
    BY <1>1 DEF Precedes
  <2>2. Upto(more, f) = Upto(es, f)
    BY <2>1 DEF Upto
  <2> QED
    BY <2>2
<1>3. Net(Upto(more, e), h) = Net(more, h)
  <2>1. Upto(more, e) = more
    BY DEF Upto
  <2> QED
    BY <2>1
<1>4. {g \in more : Net(Upto(more, g), h) > 0} =
        {g \in es : Net(Upto(es, g), h) > 0} \cup (IF Net(more, h) > 0 THEN {e} ELSE {})
  <2> HIDE DEF more
  <2>1. \A g : g \in more <=> g \in es \/ g = e
    BY DEF more
  <2>2. ASSUME NEW g \in more
        PROVE  Net(Upto(more, g), h) > 0 <=>
                 \/ g \in es /\ Net(Upto(es, g), h) > 0
                 \/ g = e /\ Net(more, h) > 0
    <3>1. CASE g \in es
      BY <3>1, <1>2
    <3>2. CASE g = e
      BY <3>2, <1>3
    <3> QED
      BY <2>1, <3>1, <3>2
  <2> QED
    BY <2>1, <2>2
<1> QED
  BY <1>4 DEF HeldIn
-------------------------------------------------------------------------------
(* The inductive invariant. *)

\* What was before an event, in the history.
Earlier(e) == {f \in transfers : Precedes(f, e)}

Afforded(e) == e.from # Zero => Net(Earlier(e), e.from) >= e.value

\* The loop has reached the events up to some point of the order.
InOrder ==
  /\ transfers \in Histories
  /\ unread \subseteq transfers
  /\ \A e \in Replayed, f \in unread : Precedes(e, f)

\* What the row of an address says, or that it has none.
Settled(h) ==
  /\ Held(states, h) = Net(Replayed, h)
  /\ Held(states, h) >= 0
  /\ Held(states, h) > 0 => HeldIn(Replayed, h) # {}
  /\ Since(states, h) = None <=> HeldIn(Replayed, h) = {}
  /\ HeldIn(Replayed, h) # {} =>
       /\ Since(states, h) \in HeldIn(Replayed, h)
       /\ \A b \in HeldIn(Replayed, h) : Since(states, h) <= b

HoldersSoFar(es) == {h \in Holders : HeldIn(es, h) # {}}

Inv ==
  /\ InOrder
  /\ \A h \in Holders : Settled(h)
  /\ DOMAIN states = Touched(Replayed)
  /\ metric.newHolders = Cardinality(HoldersSoFar(Replayed))
  /\ \A e \in Replayed : Afforded(e)
  /\ replaying \in {"loop", "done", "failed"}
  /\ replaying = "done" => unread = {}
  /\ replaying = "failed" => \E e \in transfers : ~ Afforded(e)

LEMMA InitInv == ReplayInit => Inv
<1> SUFFICES ASSUME ReplayInit
             PROVE  Inv
  OBVIOUS
<1>1. /\ transfers \in Histories /\ unread = transfers /\ Replayed = {} /\ DOMAIN states = {}
      /\ metric = NoActivity /\ replaying = "loop"
  BY DEF ReplayInit, Replayed
<1>2. InOrder
  BY <1>1 DEF InOrder
<1>3. \A h : HeldIn(Replayed, h) = {}
  BY <1>1 DEF HeldIn
<1>4. ASSUME NEW h \in Holders
      PROVE  Settled(h)
  <2>1. Net(Replayed, h) = Net({}, h)
    BY <1>1
  <2>2. Held(states, h) = 0 /\ Since(states, h) = None
    BY <1>1 DEF Held, Since
  <2> QED
    BY <2>1, <2>2, <1>3, NetOfNone DEF Settled
<1>5. DOMAIN states = Touched(Replayed)
  BY <1>1 DEF Touched
<1>6. metric.newHolders = Cardinality(HoldersSoFar(Replayed))
  <2>1. HoldersSoFar(Replayed) = {}
    BY <1>3 DEF HoldersSoFar
  <2>2. Cardinality(HoldersSoFar(Replayed)) = 0
    BY <2>1, FS_EmptySet
  <2> QED
    BY <2>2, <1>1 DEF NoActivity
<1> QED
  BY <1>1, <1>2, <1>4, <1>5, <1>6 DEF Inv

\* The next event of the loop follows exactly the events before it.
LEMMA NextEvent ==
  ASSUME HistoriesOK, InOrder, NEW e \in unread, First(e)
  PROVE  /\ e \in transfers /\ e \notin Replayed /\ Sane(Replayed \cup {e}) /\ Sane(transfers)
         /\ \A f \in Replayed : Precedes(f, e)
         /\ Earlier(e) = Replayed
         /\ e.at \in Nat \ {0} /\ e.value \in Nat /\ e.from \in Addresses /\ e.to \in Addresses
         /\ \A f \in Replayed : f.at \in Nat /\ f.at <= e.at
<1>1. Sane(transfers) /\ Replayed \subseteq transfers /\ e \in transfers /\ e \notin Replayed
  BY DEF HistoriesOK, InOrder, Replayed, Sane
<1>2. \A x \in transfers : x.at \in Nat \ {0} /\ x.log \in Nat /\ x.value \in Nat
                        /\ x.from \in Addresses /\ x.to \in Addresses
  BY <1>1, SaneValues
<1>3. Sane(Replayed \cup {e})
  <2>1. Replayed \cup {e} \subseteq transfers
    BY <1>1
  <2> QED
    BY <2>1, <1>1, FS_Subset DEF Sane
<1>4. \A f \in Replayed : Precedes(f, e)
  BY DEF InOrder
<1>5. Earlier(e) = Replayed
  <2>1. ASSUME NEW f \in unread
        PROVE  ~ Precedes(f, e)
    <3>1. f \in transfers
      BY DEF InOrder
    <3> QED
      BY <3>1, <1>1, <1>2 DEF First, Precedes
  <2> QED
    BY <2>1, <1>1, <1>4 DEF Earlier, Replayed
<1>6. \A f \in Replayed : f.at \in Nat /\ f.at <= e.at
  BY <1>1, <1>2, <1>4 DEF Precedes
<1> QED
  BY <1>1, <1>2, <1>3, <1>4, <1>5, <1>6
\* One iteration of the loop.
LEMMA ReplayInv ==
  ASSUME HistoriesOK, Inv, NEW e \in unread, Replay(e)
  PROVE  Inv'
<1> DEFINE before == Replayed
           after  == Replayed \cup {e}
<1>1. /\ InOrder /\ DOMAIN states = Touched(before) /\ replaying = "loop"
      /\ metric.newHolders = Cardinality(HoldersSoFar(before))
      /\ \A h \in Holders : Settled(h)
      /\ \A f \in before : Afforded(f)
  BY DEF Inv, Replay
<1>2. /\ First(e) /\ ~ Overdraws(states, e) /\ unread' = unread \ {e} /\ transfers' = transfers
      /\ states' = Credited(states, e) /\ metric' = Counted(metric, e, NewHolders(e))
      /\ replaying' = replaying
  BY DEF Replay
<1>3. /\ e \in transfers /\ e \notin before /\ Sane(after) /\ Sane(transfers)
      /\ \A f \in before : Precedes(f, e)
      /\ Earlier(e) = before
      /\ e.at \in Nat \ {0} /\ e.value \in Nat /\ e.from \in Addresses /\ e.to \in Addresses
      /\ \A f \in before : f.at \in Nat /\ f.at <= e.at
  BY <1>1, <1>2, NextEvent
<1>4. Replayed' = after
  BY <1>1, <1>2, <1>3 DEF Replayed, InOrder
<1> HIDE DEF before, after
<1>5. IsFiniteSet(before) /\ Sane(before)
  BY <1>3, FS_Subset DEF Sane, before, after
<1>6. InOrder'
  <2>1. transfers' \in Histories /\ unread' \subseteq transfers'
    BY <1>1, <1>2 DEF InOrder
  <2>2. ASSUME NEW f \in Replayed', NEW g \in unread'
        PROVE  Precedes(f, g)
    <3>1. g \in unread \ {e}
      BY <1>2
    <3>2. CASE f = e
      BY <3>1, <3>2, <1>2 DEF First
    <3>3. CASE f \in before
      BY <3>1, <3>3, <1>1 DEF InOrder, before
    <3> QED
      BY <3>2, <3>3, <1>4 DEF after, before
  <2> QED
    BY <2>1, <2>2 DEF InOrder
<1>7. ASSUME NEW h \in Holders
      PROVE  /\ Held(states, h) = Net(before, h) /\ Held(states, h) >= 0 /\ Held(states, h) \in Int
             /\ Held(states, h) > 0 => HeldIn(before, h) # {}
             /\ Since(states, h) = None <=> HeldIn(before, h) = {}
             /\ HeldIn(before, h) # {} =>
                  /\ Since(states, h) \in HeldIn(before, h)
                  /\ \A b \in HeldIn(before, h) : Since(states, h) <= b
             /\ Net(after, h) = Held(states, h) + Gain(e, h)
             /\ HeldIn(after, h) = HeldIn(before, h) \cup (IF Net(after, h) > 0 THEN {e.at} ELSE {})
             /\ Held(states', h) = Net(after, h)
             /\ Since(states', h) = IF HeldIn(before, h) = {} /\ Net(after, h) > 0
                                    THEN e.at ELSE Since(states, h)
  <2>1. Settled(h)
    BY <1>1
  <2>2. Held(states, h) = Net(before, h) /\ Net(before, h) \in Int
    BY <2>1, <1>5, NetInt DEF Settled, before
  <2>3. Net(after, h) = Net(before, h) + Gain(e, h)
    BY <1>3, NetAdd DEF after, before
  <2>4. HeldIn(after, h) = HeldIn(before, h) \cup (IF Net(after, h) > 0 THEN {e.at} ELSE {})
    BY <1>3, HeldInAdd DEF after, before
  <2>5. /\ Held(states, h) >= 0
        /\ Held(states, h) > 0 => HeldIn(before, h) # {}
        /\ Since(states, h) = None <=> HeldIn(before, h) = {}
        /\ HeldIn(before, h) # {} =>
             /\ Since(states, h) \in HeldIn(before, h)
             /\ \A b \in HeldIn(before, h) : Since(states, h) <= b
    BY <2>1 DEF Settled, before
  <2>6. Since(states, h) = None => Held(states, h) = 0
    BY <2>2, <2>5
  <2>7. /\ Held(states', h) = Held(states, h) + Gain(e, h)
        /\ Since(states', h) = IF Since(states, h) = None /\ Held(states, h) + Gain(e, h) > 0
                               THEN e.at ELSE Since(states, h)
    BY <1>2, <1>3, <2>2, <2>6, UpdateBoth
  <2> QED
    BY <2>2, <2>3, <2>4, <2>5, <2>7
<1>8. ASSUME NEW h \in Holders
      PROVE  Net(after, h) >= 0
  <2>1. CASE e.from = h
    <3>1. h # Zero
      BY HoldersAssumption
    <3>2. StateOf(states, h, e).balance >= e.value
      BY <1>2, <2>1, <3>1, <1>7, <1>3 DEF Overdraws, StateOf, Held
    <3>3. Held(states, h) >= e.value
      BY <3>2 DEF StateOf, Held
    <3> QED
      BY <3>3, <1>7, <1>3 DEF Gain
  <2>2. CASE e.from # h
    BY <2>2, <1>7, <1>3 DEF Gain
  <2> QED
    BY <2>1, <2>2
<1>9. ASSUME NEW h \in Holders, NEW b \in HeldIn(before, h)
      PROVE  b \in Nat /\ b <= e.at
  BY <1>3, <1>9 DEF HeldIn
<1>10. ASSUME NEW h \in Holders
       PROVE  Settled(h)'
  <2>1. Held(states', h) = Net(after, h) /\ Held(states', h) >= 0
    BY <1>7, <1>8
  <2>2. Held(states', h) > 0 => HeldIn(after, h) # {}
    BY <1>7
  <2>3. Since(states', h) = None <=> HeldIn(after, h) = {}
    BY <1>7, <1>3 DEF None
  <2>4. HeldIn(after, h) # {} =>
          /\ Since(states', h) \in HeldIn(after, h)
          /\ \A b \in HeldIn(after, h) : Since(states', h) <= b
    <3>1. CASE HeldIn(before, h) = {}
      BY <3>1, <1>7, <1>3
    <3>2. CASE HeldIn(before, h) # {}
      BY <3>2, <1>7, <1>9, <1>3
    <3> QED
      BY <3>1, <3>2
  <2> QED
    BY <1>4, <2>1, <2>2, <2>3, <2>4 DEF Settled
<1>11. (DOMAIN states = Touched(Replayed))'
  <2>1. DOMAIN states' = DOMAIN states \cup ({e.from, e.to} \ {Zero})
    BY <1>2, <1>3, CreditedDomain
  <2>2. Touched(after) = Touched(before) \cup ({e.from, e.to} \ {Zero})
    BY <1>3, HoldersAssumption DEF Touched, after, before, Addresses
  <2> QED
    BY <1>1, <1>4, <2>1, <2>2
<1>12. (metric.newHolders = Cardinality(HoldersSoFar(Replayed)))'
  <2>1. metric'.newHolders = metric.newHolders + NewHolders(e)
    BY <1>2 DEF Counted
  <2>2. NewHolders(e) = IF /\ e.to \in Holders /\ Since(states, e.to) = None
                           /\ Held(states, e.to) + Gain(e, e.to) > 0
                        THEN 1 ELSE 0
    <3>1. \A h \in Holders : Held(states, h) \in Int /\ (Since(states, h) = None => Held(states, h) = 0)
      BY <1>7
    <3> QED
      BY <3>1, <1>3, NewHolderCount
  <2>3. IsFiniteSet(HoldersSoFar(before)) /\ Cardinality(HoldersSoFar(before)) \in Nat
    <3>1. HoldersSoFar(before) \subseteq Holders
      BY DEF HoldersSoFar
    <3> QED
      BY <3>1, HoldersAssumption, FS_Subset, FS_CardinalityType
  <2>4. ASSUME NEW h \in Holders, h # e.to
        PROVE  HeldIn(after, h) # {} <=> HeldIn(before, h) # {}
    <3>1. Net(after, h) <= Held(states, h)
      BY <2>4, <1>7, <1>3 DEF Gain
    <3> QED
      BY <3>1, <1>7, <1>8, NetInt, <1>3
  <2>5. CASE /\ e.to \in Holders /\ Since(states, e.to) = None
             /\ Held(states, e.to) + Gain(e, e.to) > 0
    <3>1. HeldIn(before, e.to) = {} /\ HeldIn(after, e.to) # {}
      BY <2>5, <1>7
    <3>2. HoldersSoFar(after) = HoldersSoFar(before) \cup {e.to} /\ e.to \notin HoldersSoFar(before)
      BY <2>5, <2>4, <3>1 DEF HoldersSoFar
    <3>3. Cardinality(HoldersSoFar(before) \cup {e.to}) = Cardinality(HoldersSoFar(before)) + 1
      BY <3>2, <2>3, FS_AddElement
    <3>4. Cardinality(HoldersSoFar(after)) = Cardinality(HoldersSoFar(before)) + 1
      BY <3>2, <3>3
    <3> QED
      BY <2>1, <2>2, <2>5, <3>4, <1>1, <1>4
  <2>6. CASE ~ (/\ e.to \in Holders /\ Since(states, e.to) = None
                /\ Held(states, e.to) + Gain(e, e.to) > 0)
    <3>1. \A h \in Holders : h = e.to => (HeldIn(after, h) # {} <=> HeldIn(before, h) # {})
      BY <2>6, <1>7
    <3>2. HoldersSoFar(after) = HoldersSoFar(before)
      BY <2>4, <3>1 DEF HoldersSoFar
    <3>3. Cardinality(HoldersSoFar(after)) = Cardinality(HoldersSoFar(before))
      BY <3>2
    <3> QED
      BY <2>1, <2>2, <2>3, <2>6, <3>3, <1>1, <1>4
  <2> QED
    BY <2>5, <2>6
<1>13. (\A f \in Replayed : Afforded(f))'
  <2>1. \A f : Afforded(f)' <=> Afforded(f)
    BY <1>2 DEF Afforded, Earlier
  <2>2. Afforded(e)
    <3> SUFFICES ASSUME e.from # Zero
                 PROVE  Net(before, e.from) >= e.value
      BY <1>3 DEF Afforded
    <3>1. e.from \in Holders
      BY <1>3 DEF Addresses
    <3>2. ~ (StateOf(states, e.from, e).balance < e.value)
      BY <1>2 DEF Overdraws
    <3>3. StateOf(states, e.from, e).balance = Held(states, e.from)
      BY DEF StateOf, Held
    <3> QED
      BY <3>1, <3>2, <3>3, <1>7, <1>3
  <2> QED
    BY <1>1, <1>4, <2>1, <2>2 DEF after, before
<1> QED
  BY <1>1, <1>2, <1>6, <1>10, <1>11, <1>12, <1>13 DEF Inv
LEMMA RejectInv ==
  ASSUME HistoriesOK, Inv, NEW e \in unread, Reject(e)
  PROVE  Inv'
<1>1. /\ InOrder /\ replaying = "loop" /\ First(e) /\ Overdraws(states, e) /\ replaying' = "failed"
      /\ UNCHANGED <<transfers, unread, states, metric>>
      /\ \A h \in Holders : Settled(h)
  BY DEF Inv, Reject
<1>2. e \in transfers /\ Earlier(e) = Replayed /\ e.from \in Addresses /\ e.value \in Nat
  BY <1>1, NextEvent
<1>3. ~ Afforded(e)
  <2>1. e.from \in Holders /\ e.from # Zero /\ StateOf(states, e.from, e).balance < e.value
    BY <1>1, <1>2 DEF Overdraws, Addresses
  <2>2. StateOf(states, e.from, e).balance = Held(states, e.from)
    BY DEF StateOf, Held
  <2>3. Settled(e.from)
    BY <1>1, <2>1
  <2>4. Net(Replayed, e.from) < e.value /\ Net(Replayed, e.from) \in Int
    <3>1. Sane(Replayed)
      <4>1. Sane(transfers) /\ Replayed \subseteq transfers
        BY <1>1, NextEvent DEF Replayed
      <4> QED
        BY <4>1, FS_Subset DEF Sane
    <3> QED
      BY <3>1, <2>1, <2>2, <2>3, NetInt DEF Settled
  <2>5. Net(Earlier(e), e.from) = Net(Replayed, e.from)
    BY <1>2
  <2> QED
    BY <1>2, <2>1, <2>4, <2>5 DEF Afforded
<1>4. InOrder' /\ Replayed' = Replayed /\ DOMAIN states' = DOMAIN states /\ metric' = metric
  BY <1>1 DEF InOrder, Replayed
<1>5. (\A h \in Holders : Settled(h))' <=> \A h \in Holders : Settled(h)
  BY <1>1, <1>4 DEF Settled
<1>6. \A f : Afforded(f)' <=> Afforded(f)
  BY <1>1 DEF Afforded, Earlier
<1>7. transfers' = transfers /\ replaying' = "failed"
  BY <1>1
<1>8. \A f \in Replayed : Afforded(f)
  BY DEF Inv
<1>9. DOMAIN states = Touched(Replayed) /\ metric.newHolders = Cardinality(HoldersSoFar(Replayed))
  BY DEF Inv
<1> QED
  BY <1>1, <1>2, <1>3, <1>4, <1>5, <1>6, <1>7, <1>8, <1>9 DEF Inv

LEMMA FinishInv ==
  ASSUME Inv, Finish \/ UNCHANGED replayVars
  PROVE  Inv'
<1>1. /\ UNCHANGED <<transfers, unread, states, metric>>
      /\ \/ replaying' = replaying
         \/ replaying' = "done" /\ replaying = "loop" /\ unread = {}
  BY DEF Finish, replayVars
<1>2. InOrder' /\ Replayed' = Replayed /\ DOMAIN states' = DOMAIN states /\ metric' = metric
  BY <1>1 DEF Inv, InOrder, Replayed
<1>3. (\A h \in Holders : Settled(h))' <=> \A h \in Holders : Settled(h)
  BY <1>1, <1>2 DEF Settled
<1>4. \A f : Afforded(f)' <=> Afforded(f)
  BY <1>1 DEF Afforded, Earlier
<1>5. transfers' = transfers /\ unread' = unread
  BY <1>1
<1> QED
  BY <1>1, <1>2, <1>3, <1>4, <1>5 DEF Inv

-------------------------------------------------------------------------------
(* The theorems. *)

LEMMA Invariance == ReplaySpec => []Inv
<1>1. Inv /\ [ReplayNext]_replayVars => Inv'
  <2> SUFFICES ASSUME Inv, [ReplayNext]_replayVars
               PROVE  Inv'
    OBVIOUS
  <2>1. ASSUME NEW e \in unread, Replay(e)
        PROVE  Inv'
    BY <2>1, HistoriesAssumption, ReplayInv
  <2>2. ASSUME NEW e \in unread, Reject(e)
        PROVE  Inv'
    BY <2>2, HistoriesAssumption, RejectInv
  <2>3. CASE Finish \/ UNCHANGED replayVars
    BY <2>3, FinishInv
  <2> QED
    BY <2>1, <2>2, <2>3 DEF ReplayNext
<1> QED
  BY InitInv, <1>1, PTL DEF ReplaySpec

\* After every event of the loop, and whatever the history, the balance rows are
\* those of the addresses the events so far name, and each says what its address has
\* gained by them: transfers to oneself and of nothing, and several transfers in a
\* block included (replayHolderTransfers, src/analytics/holders.ts).
THEOREM BalancesAlwaysNets == ReplaySpec => []BalancesAreNets
<1>1. Inv => BalancesAreNets
  <2> SUFFICES ASSUME Inv
               PROVE  BalancesAreNets
    OBVIOUS
  <2>1. DOMAIN states = Touched(Replayed)
    BY DEF Inv
  <2>2. ASSUME NEW h \in DOMAIN states
        PROVE  states[h].balance = Net(Replayed, h)
    <3>1. h \in Holders
      BY <2>1 DEF Touched
    <3>2. Settled(h)
      BY <3>1 DEF Inv
    <3> QED
      BY <3>2 DEF Settled, Held
  <2> QED
    BY <2>1, <2>2 DEF BalancesAreNets
<1> QED
  BY <1>1, Invariance, PTL

\* The replay throws for exactly the histories in which some event sends more than its
\* sender has at that point: a complete history is never refused, and no balance
\* becomes negative (README: "rejects any replay that would make a holder balance
\* negative").
THEOREM RefusesExactlyOverdrawn == ReplaySpec => []RefusedIfOverdrawn
<1>1. Inv => RefusedIfOverdrawn
  <2> SUFFICES ASSUME Inv
               PROVE  RefusedIfOverdrawn
    OBVIOUS
  <2>1. Solvent(transfers) <=> \A e \in transfers : Afforded(e)
    BY DEF Solvent, Afforded, Earlier
  <2>2. replaying = "done" => Replayed = transfers
    BY DEF Inv, InOrder, Replayed
  <2>3. /\ \A e \in Replayed : Afforded(e)
        /\ replaying = "failed" => \E e \in transfers : ~ Afforded(e)
    BY DEF Inv
  <2> QED
    BY <2>1, <2>2, <2>3 DEF RefusedIfOverdrawn
<1> QED
  BY <1>1, Invariance, PTL

\* new_holders counts each address that ever holds something once, and its row keeps
\* the first block in which it did, however often it comes back.
THEOREM HoldersAlwaysCountedOnce == ReplaySpec => []HoldersCountedOnce
<1>1. Inv => HoldersCountedOnce
  <2> SUFFICES ASSUME Inv
               PROVE  HoldersCountedOnce
    OBVIOUS
  <2>1. \A h : FirstHeld(h) = HeldIn(Replayed, h)
    BY FirstHeldIs
  <2>2. metric.newHolders = Cardinality({h \in Holders : FirstHeld(h) # {}})
    <3>1. HoldersSoFar(Replayed) = {h \in Holders : FirstHeld(h) # {}}
      BY <2>1 DEF HoldersSoFar
    <3>2. metric.newHolders = Cardinality(HoldersSoFar(Replayed))
      BY DEF Inv
    <3> QED
      BY <3>1, <3>2
  <2>3. ASSUME NEW h \in DOMAIN states
        PROVE  states[h].firstPositive = IF FirstHeld(h) = {} THEN None ELSE Min(FirstHeld(h))
    <3>1. PICK F : F = FirstHeld(h)
      OBVIOUS
    <3>2. Settled(h) /\ F = HeldIn(Replayed, h)
      <4>1. h \in Holders
        BY DEF Inv, Touched
      <4> QED
        BY <4>1, <3>1, <2>1 DEF Inv
    <3>3. PICK s : s = states[h].firstPositive
      OBVIOUS
    <3>4. /\ s = None <=> F = {}
          /\ F # {} => s \in F /\ \A b \in F : s <= b
      BY <3>2, <3>3 DEF Settled, Since
    <3>5. F # {} => s = Min(F)
      <4> SUFFICES ASSUME F # {}
                   PROVE  s = Min(F)
        OBVIOUS
      <4>1. F \subseteq Int
        <5>1. transfers \in Histories
          BY DEF Inv, InOrder
        <5>2. \A e \in transfers : e.at \in Nat
          BY <5>1, HistoriesAssumption DEF HistoriesOK, Transfer
        <5>3. ASSUME NEW b \in F
              PROVE  b \in Int
          <6>1. PICK f \in Replayed : b = f.at
            BY <3>1 DEF FirstHeld
          <6> QED
            BY <6>1, <5>2 DEF Replayed
        <5> QED
          BY <5>3
      <4>2. ASSUME NEW x \in F, \A b \in F : x <= b
            PROVE  x = s
        <5>1. x <= s /\ s <= x /\ x \in Int /\ s \in Int
          BY <3>4, <4>1, <4>2
        <5> QED
          BY <5>1
      <4> QED
        BY <3>4, <4>2 DEF Min
    <3> QED
      BY <3>1, <3>3, <3>4, <3>5
  <2> QED
    BY <2>2, <2>3 DEF HoldersCountedOnce
<1> QED
  BY <1>1, Invariance, PTL
================================================================================
