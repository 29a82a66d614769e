------------------------------ MODULE YieldProofs ------------------------------
(***************************************************************************)
(* What the yield calculation reports, proved for every vault, rate, set   *)
(* of stored intervals and window: the choice among intervals (RangeYield),*)
(* the derivation of an interval and its reconciliation (RateWindow).      *)
(***************************************************************************)
EXTENDS RangeYield, RateWindow, SumTheorems

(***************************************************************************)
(* aggregateContiguousYieldIntervals.                                      *)
(***************************************************************************)

\* The cursor is the end of what is selected.
CursorOK ==
  /\ selected = <<>> => reached = window.start
  /\ selected # <<>> => reached = selected[Len(selected)].end
  /\ window.start <= reached

\* The selected intervals lie between the window's start and the cursor.
Between ==
  \A i \in 1 .. Len(selected) :
    /\ window.start <= selected[i].start + Tolerance
    /\ selected[i].end <= reached

\* Up to the cursor nothing is left out.
CoveredSoFar ==
  selected # <<>> =>
    \A t \in window.start .. reached : \E i \in 1 .. Len(selected) :
      selected[i].start - Tolerance <= t /\ t <= selected[i].end + Tolerance

\* What the loop has not visited went through the filter.
TodoUsable == \A r \in unvisited : r.status # "invalid"

ChoiceInv == YieldTypeOK /\ TodoUsable /\ CursorOK /\ Between /\ NothingCountedTwice /\ CoveredSoFar

-------------------------------------------------------------------------------
\* The ends of an interval and of a window are integers.
LEMMA ChoiceFields ==
  /\ \A r \in Intervals : r.start \in Int /\ r.end \in Int /\ r.start <= r.end
                          /\ r.start \in Times /\ r.end \in Times
  /\ \A w \in Windows : w.start \in Int /\ w.end \in Int /\ w.start \in Times
  /\ Times \subseteq Int
  /\ Tolerance \in Nat
  BY TimeAssumption DEF Intervals, Windows, Times

\* Selected intervals are intervals.
LEMMA SelectedFields ==
  ASSUME YieldTypeOK
  PROVE  /\ Len(selected) \in Nat
         /\ \A i \in 1 .. Len(selected) :
              selected[i] \in Intervals /\ selected[i].start \in Int
              /\ selected[i].end \in Int /\ selected[i].start <= selected[i].end
<1> DEFINE R == {r \in intervals : r.status # "invalid"}
<1>1. selected \in Seq(R) /\ R \subseteq Intervals  BY DEF YieldTypeOK
<1> HIDE DEF R
<1>2. Len(selected) \in Nat /\ \A i \in 1 .. Len(selected) : selected[i] \in R  BY <1>1
<1> QED  BY <1>1, <1>2, ChoiceFields

\* Every run starts in the invariant: nothing is selected.
LEMMA ChoiceInit == YieldInit => ChoiceInv
<1> SUFFICES ASSUME YieldInit PROVE ChoiceInv  OBVIOUS
<1>1. intervals \in SUBSET Intervals  BY StoresAssumption DEF YieldInit
<1>2. YieldTypeOK
  <2>1. window.start \in Times  BY ChoiceFields DEF YieldInit
  <2> QED  BY <1>1, <2>1 DEF YieldInit, YieldTypeOK
<1>3. /\ Len(selected) = 0 /\ selected = <<>> /\ reached = window.start
      /\ window.start <= reached
  BY ChoiceFields DEF YieldInit
<1>4. TodoUsable  BY DEF YieldInit, TodoUsable, Usable
<1> QED  BY <1>2, <1>3, <1>4 DEF ChoiceInv, CursorOK, Between, NothingCountedTwice, CoveredSoFar

\* A step that selects nothing changes neither the selection nor the cursor.
LEMMA KeepsSelection ==
  ASSUME ChoiceInv, UNCHANGED <<intervals, window, selected, reached>>,
         unvisited' \subseteq unvisited, choosing' \in {"loop", "done"}
  PROVE  ChoiceInv'
<1>1. YieldTypeOK'  BY DEF ChoiceInv, YieldTypeOK
<1>2. TodoUsable'  BY DEF ChoiceInv, TodoUsable
<1> QED  BY <1>1, <1>2 DEF ChoiceInv, CursorOK, Between, NothingCountedTwice, CoveredSoFar

\* An interval that joins the cursor extends what is selected.
LEMMA SelectInv ==
  ASSUME ChoiceInv, NEW r \in unvisited, Select(r)
  PROVE  ChoiceInv'
<1> DEFINE R == {x \in intervals : x.status # "invalid"}
<1>1. /\ YieldTypeOK /\ CursorOK /\ Between /\ NothingCountedTwice /\ CoveredSoFar
      /\ intervals' = intervals /\ window' = window /\ unvisited' \subseteq unvisited
      /\ selected' = Append(selected, r) /\ reached' = r.end
      /\ choosing' \in {"loop", "done"}
  BY DEF ChoiceInv, Select, Visited
<1>2. r \in Intervals /\ r.start \in Int /\ r.end \in Int /\ r.end \in Times
      /\ window.start \in Int /\ reached \in Int /\ Tolerance \in Int /\ Tolerance >= 0
  BY <1>1, ChoiceFields DEF YieldTypeOK
<1>3. r.end > reached + Tolerance /\ reached - Tolerance <= r.start /\ r.start <= reached + Tolerance
  BY <1>2 DEF Select, Advances, Earlier, Later
<1>4. Len(selected) \in Nat /\ \A i \in 1 .. Len(selected) :
        selected[i].start \in Int /\ selected[i].end \in Int
  BY <1>1, SelectedFields
<1>5. r \in R /\ unvisited' \in SUBSET intervals /\ TodoUsable'
  <2>1. r.status # "invalid"  BY DEF ChoiceInv, TodoUsable
  <2>2. unvisited \in SUBSET intervals  BY <1>1 DEF YieldTypeOK
  <2> QED  BY <2>1, <2>2, <1>1 DEF ChoiceInv, TodoUsable
<1>6. selected \in Seq(R)  BY <1>1 DEF YieldTypeOK
<1> DEFINE n == Len(selected)
<1>7. /\ Len(selected') = n + 1 /\ selected' \in Seq(R)
      /\ selected'[n + 1] = r
      /\ \A i \in 1 .. n : selected'[i] = selected[i]
  <2> HIDE DEF R
  <2> QED  BY <1>1, <1>5, <1>6
<1>8. YieldTypeOK'
  BY <1>1, <1>2, <1>5, <1>7 DEF YieldTypeOK
<1>9. CursorOK'
  <2>1. window.start <= r.end
    BY <1>1, <1>2, <1>3 DEF CursorOK
  <2> QED  BY <2>1, <1>1, <1>4, <1>7 DEF CursorOK
<1> HIDE DEF R, n
<1>10. n \in Nat /\ \A i \in 1 .. n + 1 : i \in 1 .. n \/ i = n + 1
  BY <1>4 DEF n
<1>11. \A i \in 1 .. n : selected[i].end <= reached
                         /\ window.start <= selected[i].start + Tolerance
  BY <1>1 DEF Between, n
\* The new interval starts no earlier than the cursor, up to the tolerance.
<1>12. window.start <= r.start + Tolerance
  BY <1>1, <1>2, <1>3 DEF CursorOK
<1>13. Between'
  <2> SUFFICES ASSUME NEW i \in 1 .. n + 1
               PROVE  window.start <= selected'[i].start + Tolerance /\ selected'[i].end <= r.end
    BY <1>1, <1>7 DEF Between
  <2>1. CASE i = n + 1
    BY <2>1, <1>7, <1>12, <1>2
  <2>2. CASE i \in 1 .. n
    <3>1. selected'[i] = selected[i] /\ selected[i].end \in Int
      BY <2>2, <1>7, <1>4 DEF n
    <3>2. selected[i].end <= reached /\ window.start <= selected[i].start + Tolerance
      BY <2>2, <1>11
    <3> QED  BY <3>1, <3>2, <1>2, <1>3
  <2> QED  BY <1>10, <2>1, <2>2
<1>14. NothingCountedTwice'
  <2> SUFFICES ASSUME NEW j \in 1 .. n + 1, NEW i \in 1 .. j - 1
               PROVE  selected'[i].end <= selected'[j].start + Tolerance
    BY <1>7 DEF NothingCountedTwice
  <2>1. i \in 1 .. n /\ selected'[i] = selected[i]  BY <1>7, <1>10
  <2>2. CASE j = n + 1
    <3>1. selected'[j] = r /\ selected[i].end \in Int
      BY <2>1, <2>2, <1>7, <1>4 DEF n
    <3>2. selected[i].end <= reached
      BY <2>1, <1>11
    <3> QED  BY <2>1, <3>1, <3>2, <1>2, <1>3
  <2>3. CASE j \in 1 .. n
    BY <2>3, <1>1, <1>7, <1>10, <2>1 DEF NothingCountedTwice, n
  <2> QED  BY <1>10, <2>2, <2>3
<1>15. CoveredSoFar'
  <2> SUFFICES ASSUME NEW t \in window.start .. r.end
               PROVE  \E i \in 1 .. n + 1 : selected'[i].start - Tolerance <= t
                                            /\ t <= selected'[i].end + Tolerance
    BY <1>1, <1>7 DEF CoveredSoFar
  <2>1. CASE selected # <<>> /\ t <= reached
    <3>1. PICK i \in 1 .. n : selected[i].start - Tolerance <= t /\ t <= selected[i].end + Tolerance
      BY <2>1, <1>1, <1>2 DEF CoveredSoFar, n
    <3> QED  BY <3>1, <1>7, <1>10
  <2>2. CASE selected = <<>> \/ t > reached
    <3>1. reached <= t
      BY <2>2, <1>1, <1>2 DEF CursorOK
    <3>2. r.start - Tolerance <= t /\ t <= r.end + Tolerance
      BY <3>1, <1>2, <1>3
    <3> QED  BY <3>2, <1>7, <1>10
  <2> QED  BY <2>1, <2>2, <1>2
<1> QED  BY <1>5, <1>8, <1>9, <1>13, <1>14, <1>15 DEF ChoiceInv

\* Every step of the loop keeps the invariant.
LEMMA ChoiceNext == ChoiceInv /\ [YieldNext]_yieldVars => ChoiceInv'
<1> SUFFICES ASSUME ChoiceInv, [YieldNext]_yieldVars PROVE ChoiceInv'  OBVIOUS
<1>1. choosing \in {"loop", "done"}  BY DEF ChoiceInv, YieldTypeOK
<1>2. CASE UNCHANGED yieldVars
  BY <1>1, <1>2, KeepsSelection DEF yieldVars
<1>3. CASE EndOfList
  BY <1>3, KeepsSelection DEF EndOfList
<1>4. CASE \E r \in unvisited : Visit(r)
  <2>1. PICK r \in unvisited : Visit(r)  BY <1>4
  <2>2. CASE Skip(r)
    BY <1>1, <2>2, KeepsSelection DEF Skip, Visited
  <2>3. CASE StopAtGap(r)
    BY <2>3, KeepsSelection DEF StopAtGap, Visited
  <2>4. CASE Select(r)
    BY <2>4, SelectInv
  <2> QED  BY <2>1, <2>2, <2>3, <2>4 DEF Visit
<1> QED  BY <1>2, <1>3, <1>4 DEF YieldNext

LEMMA ChoiceInvariance == YieldSpec => []ChoiceInv
  BY ChoiceInit, ChoiceNext, PTL DEF YieldSpec

-------------------------------------------------------------------------------
\* The variables of aggregateContiguousYieldIntervals keep their types.
THEOREM ChoiceTypeCorrect == YieldSpec => []YieldTypeOK
<1>1. ChoiceInv => YieldTypeOK  BY DEF ChoiceInv
<1> QED  BY <1>1, ChoiceInvariance, PTL

\* No part of the yield is counted twice, whatever is stored.
THEOREM CountedOnce == YieldSpec => []NothingCountedTwice
<1>1. ChoiceInv => NothingCountedTwice  BY DEF ChoiceInv
<1> QED  BY <1>1, ChoiceInvariance, PTL

\* A number is reported only if the selected intervals account for the window.
THEOREM ReportedIsCovered == YieldSpec => []CompleteMeansCovered
<1>1. ChoiceInv => CompleteMeansCovered
  <2> SUFFICES ASSUME ChoiceInv, Reported
               PROVE  /\ \A t \in window.start .. window.end : \E i \in 1 .. Len(selected) :
                           selected[i].start - Tolerance <= t
                           /\ t <= selected[i].end + Tolerance
                      /\ \A i \in 1 .. Len(selected) :
                           window.start <= selected[i].start + Tolerance
    BY DEF CompleteMeansCovered
  <2>1. YieldTypeOK /\ CursorOK /\ Between /\ CoveredSoFar /\ selected # <<>>
        /\ reached >= window.end - Tolerance
    BY DEF ChoiceInv, Reported, ReachedEnd
  <2>2. window.start \in Int /\ window.end \in Int /\ reached \in Int /\ Tolerance \in Nat
    BY <2>1, ChoiceFields DEF YieldTypeOK
  <2>3. Len(selected) \in 1 .. Len(selected)
    BY <2>1 DEF YieldTypeOK
  <2>4. ASSUME NEW t \in window.start .. window.end
        PROVE  \E i \in 1 .. Len(selected) :
                 selected[i].start - Tolerance <= t /\ t <= selected[i].end + Tolerance
    <3>1. CASE t <= reached
      BY <3>1, <2>1, <2>2 DEF CoveredSoFar
    <3>2. CASE t > reached
      <4> DEFINE l == selected[Len(selected)]
      <4>1. l.end = reached /\ l.start \in Int /\ l.end \in Int /\ l.start <= l.end
        BY <2>1, <2>3, SelectedFields DEF CursorOK
      <4>2. l.start - Tolerance <= t /\ t <= l.end + Tolerance
        <5> HIDE DEF l
        <5> QED  BY <3>2, <4>1, <2>1, <2>2
      <4> QED  BY <4>2, <2>3
    <3> QED  BY <3>1, <3>2, <2>2
  <2> QED  BY <2>1, <2>4 DEF Between
<1> QED  BY <1>1, ChoiceInvariance, PTL

-------------------------------------------------------------------------------
(***************************************************************************)
(* calculateSavingsYieldForRange and reconcileSavingsYield.  The sums of   *)
(* the evidence follow the vault's balance; behind every event the loop of *)
(* the integration has the locals that the vault's history gives them.     *)
(***************************************************************************)
-----------------------------------------------------------------------
(* The integer arithmetic of computeUpdatedAssets. *)

\* Products of naturals are naturals.
LEMMA ProductNat == \A x, y \in Nat : x * y \in Nat
OBVIOUS

\* Products grow with their factors.
LEMMA ProductMono ==
  ASSUME NEW a \in Nat, NEW b \in Nat, NEW c \in Nat, NEW d \in Nat, a <= c, b <= d
  PROVE  a * b <= c * d
<1>1. a * b <= c * b
  <2>1. c - a \in Nat /\ (c - a) * b \in Nat
    BY ProductNat
  <2>2. c * b = a * b + (c - a) * b
    OBVIOUS
  <2>3. a * b \in Nat
    BY ProductNat
  <2> QED
    BY <2>1, <2>2, <2>3
<1>2. c * b <= c * d
  <2>1. d - b \in Nat /\ c * (d - b) \in Nat
    BY ProductNat
  <2>2. c * d = c * b + c * (d - b)
    OBVIOUS
  <2>3. c * b \in Nat
    BY ProductNat
  <2> QED
    BY <2>1, <2>2, <2>3
<1>3. a * b \in Int /\ c * b \in Int /\ c * d \in Int
  OBVIOUS
<1> QED
  BY <1>1, <1>2, <1>3

\* Quotients of naturals are naturals.
LEMMA DivNat == \A x \in Nat, n \in Nat \ {0} : x \div n \in Nat
OBVIOUS

\* Quotients grow with the dividend.
LEMMA DivMono ==
  ASSUME NEW x \in Nat, NEW y \in Nat, x <= y, NEW n \in Nat \ {0}
  PROVE  x \div n <= y \div n
<1> DEFINE p == x \div n
           q == y \div n
<1>1. p \in Nat /\ q \in Nat
  BY DivNat
<1>2. n * p <= x /\ y < n * (q + 1)
  OBVIOUS
<1> HIDE DEF p, q
<1>3. SUFFICES ASSUME q + 1 <= p
               PROVE  FALSE
  BY <1>1 DEF p, q
<1>4. n * (q + 1) <= n * p
  BY <1>1, <1>3, ProductMono
<1>5. n * (q + 1) \in Int /\ n * p \in Int
  BY <1>1
<1> QED
  BY <1>2, <1>4, <1>5

\* Dividing undoes a multiplication.
LEMMA DivOfProduct == \A x \in Nat, n \in Nat \ {0} : (x * n) \div n = x
<1> SUFFICES ASSUME NEW x \in Nat, NEW n \in Nat \ {0}
             PROVE  (x * n) \div n = x
  OBVIOUS
<1> DEFINE q == (x * n) \div n
<1>1. x * n \in Nat
  BY ProductNat
<1>2. q \in Nat
  BY <1>1, DivNat
<1>3. n * q <= x * n /\ x * n < n * (q + 1)
  BY <1>1
<1> HIDE DEF q
<1>4. ~ (q + 1 <= x)
  <2> SUFFICES ASSUME q + 1 <= x
               PROVE  FALSE
    OBVIOUS
  <2>1. n * (q + 1) <= n * x
    BY <1>2, ProductMono
  <2>2. n * x = x * n /\ n * (q + 1) \in Int
    BY <1>2
  <2> QED
    BY <1>1, <1>3, <2>1, <2>2
<1>5. ~ (x + 1 <= q)
  <2> SUFFICES ASSUME x + 1 <= q
               PROVE  FALSE
    OBVIOUS
  <2>1. n * (x + 1) <= n * q
    BY <1>2, ProductMono
  <2>2. n * (x + 1) = x * n + n /\ n * q \in Int
    BY <1>2
  <2> QED
    BY <1>1, <1>3, <2>1, <2>2
<1> QED
  BY <1>2, <1>4, <1>5 DEF q
\* What the vault owes is never less than the balance, and grows with time.
Second(r, e) == (e * (e - 1) * Squared(r)) \div 2
Third(r, e)  == (e * (e - 1) * AtLeastZero(e - 2) * Cubed(r)) \div 6

\* Powers of a rate are naturals.
LEMMA PowersNat ==
  ASSUME Base \in Nat \ {0}, NEW r \in Nat
  PROVE  Squared(r) \in Nat /\ Cubed(r) \in Nat
<1>1. Base \div 2 \in Nat
  BY DivNat
<1>2. r * r + Base \div 2 \in Nat
  BY <1>1, ProductNat
<1>3. Squared(r) \in Nat
  BY <1>2, DivNat DEF Squared
<1>4. Squared(r) * r + Base \div 2 \in Nat
  BY <1>1, <1>3, ProductNat
<1>5. Cubed(r) \in Nat
  BY <1>4, DivNat DEF Cubed
<1> QED
  BY <1>3, <1>5

\* The terms of the series grow with time.
LEMMA TermsGrow ==
  ASSUME Base \in Nat \ {0}, NEW r \in Nat, NEW e \in Nat \ {0}, NEW f \in Nat, e <= f
  PROVE  /\ Second(r, e) \in Nat /\ Third(r, e) \in Nat
         /\ Second(r, e) <= Second(r, f) /\ Third(r, e) <= Third(r, f)
<1> DEFINE A(x) == x * (x - 1)
           M(x) == AtLeastZero(x - 2)
<1>1. PICK s, c \in Nat : s = Squared(r) /\ c = Cubed(r)
  BY PowersNat
<1>2. ASSUME NEW x \in Nat \ {0}
      PROVE  A(x) \in Nat /\ M(x) \in Nat
  <2>1. x - 1 \in Nat
    OBVIOUS
  <2> QED
    BY <2>1, ProductNat DEF AtLeastZero
<1>3. A(e) <= A(f) /\ M(e) <= M(f) /\ f \in Nat \ {0}
  <2>1. e - 1 \in Nat /\ f - 1 \in Nat /\ e - 1 <= f - 1
    OBVIOUS
  <2> QED
    BY <2>1, ProductMono DEF AtLeastZero
<1>4. /\ Second(r, e) = (A(e) * s) \div 2 /\ Second(r, f) = (A(f) * s) \div 2
      /\ Third(r, e) = (A(e) * M(e) * c) \div 6 /\ Third(r, f) = (A(f) * M(f) * c) \div 6
  BY <1>1 DEF Second, Third
<1>5. A(e) \in Nat /\ A(f) \in Nat /\ M(e) \in Nat /\ M(f) \in Nat
  BY <1>2, <1>3
<1> HIDE DEF A, M
<1>6. A(e) * s \in Nat /\ A(f) * s \in Nat /\ A(e) * s <= A(f) * s
  BY <1>3, <1>5, ProductNat, ProductMono
<1>7. A(e) * M(e) \in Nat /\ A(f) * M(f) \in Nat /\ A(e) * M(e) <= A(f) * M(f)
  BY <1>3, <1>5, ProductNat, ProductMono
<1>8. /\ A(e) * M(e) * c \in Nat /\ A(f) * M(f) * c \in Nat
      /\ A(e) * M(e) * c <= A(f) * M(f) * c
  BY <1>7, ProductNat, ProductMono
<1>9. 2 \in Nat \ {0} /\ 6 \in Nat \ {0}
  OBVIOUS
<1> QED
  BY <1>4, <1>6, <1>8, <1>9, DivNat, DivMono

\* At once nothing is owed.
LEMMA UpdatedNow == \A b, r : UpdatedAssets(b, r, 0) = b
BY DEF UpdatedAssets

\* computeUpdatedAssets never falls below the balance, nor with time.
LEMMA UpdatedGrows ==
  ASSUME Base \in Nat \ {0}, NEW b \in Nat, NEW r \in Nat, NEW e \in Nat, NEW f \in Nat, e <= f
  PROVE  /\ UpdatedAssets(b, r, e) \in Nat
         /\ b <= UpdatedAssets(b, r, e)
         /\ UpdatedAssets(b, r, e) <= UpdatedAssets(b, r, f)
<1> DEFINE G(x) == Base + r * x + Second(r, x) + Third(r, x)
<1>1. \A x \in Nat \ {0} : r # 0 => UpdatedAssets(b, r, x) = (b * G(x)) \div Base
  BY DEF UpdatedAssets, Second, Third
<1>2. ASSUME NEW x \in Nat \ {0}, NEW y \in Nat, x <= y
      PROVE  G(x) \in Nat /\ Base <= G(x) /\ G(x) <= G(y) /\ G(y) \in Nat
  <2>1. r * x \in Nat /\ r * y \in Nat /\ r * x <= r * y
    BY <1>2, ProductNat, ProductMono
  <2>2. /\ Second(r, x) \in Nat /\ Third(r, x) \in Nat
        /\ Second(r, x) <= Second(r, y) /\ Third(r, x) <= Third(r, y)
    BY <1>2, TermsGrow
  <2>3. Second(r, y) \in Nat /\ Third(r, y) \in Nat
    <3>1. y \in Nat \ {0} /\ y <= y
      BY <1>2
    <3> QED
      BY <3>1, TermsGrow
  <2> QED
    BY <2>1, <2>2, <2>3
<1> HIDE DEF G
<1>3. ASSUME NEW x \in Nat \ {0}, NEW y \in Nat, x <= y, r # 0
      PROVE  /\ UpdatedAssets(b, r, x) \in Nat
             /\ b <= UpdatedAssets(b, r, x)
             /\ UpdatedAssets(b, r, x) <= UpdatedAssets(b, r, y)
  <2>1. G(x) \in Nat /\ G(y) \in Nat /\ Base <= G(x) /\ G(x) <= G(y) /\ y \in Nat \ {0}
    BY <1>2, <1>3
  <2>2. b * G(x) \in Nat /\ b * G(y) \in Nat /\ b * Base \in Nat
    BY <2>1, ProductNat
  <2>3. b * Base <= b * G(x) /\ b * G(x) <= b * G(y)
    BY <2>1, ProductMono
  <2>4. /\ (b * Base) \div Base <= (b * G(x)) \div Base
        /\ (b * G(x)) \div Base <= (b * G(y)) \div Base
    BY <2>2, <2>3, DivMono
  <2>5. (b * Base) \div Base = b /\ (b * G(x)) \div Base \in Nat
    BY <2>2, DivNat, DivOfProduct
  <2>6. UpdatedAssets(b, r, x) = (b * G(x)) \div Base /\ UpdatedAssets(b, r, y) = (b * G(y)) \div Base
    BY <1>1, <1>3, <2>1
  <2> QED
    BY <2>4, <2>5, <2>6
<1>4. CASE e = 0 \/ r = 0
  <2>1. UpdatedAssets(b, r, e) = b
    BY <1>4 DEF UpdatedAssets
  <2>2. b <= UpdatedAssets(b, r, f)
    <3>1. CASE f = 0 \/ r = 0
      BY <3>1 DEF UpdatedAssets
    <3>2. CASE f \in Nat \ {0} /\ r # 0
      BY <3>2, <1>3
    <3> QED
      BY <3>1, <3>2
  <2> QED
    BY <2>1, <2>2
<1>5. CASE e \in Nat \ {0} /\ r # 0
  BY <1>3, <1>5
<1> QED
  BY <1>4, <1>5
-------------------------------------------------------------------------------
(* Sums of the events of one name. *)

Amounted(es) == IsFiniteSet(es) /\ \A e \in es : e.value \in Nat

\* The sums of the model are those of SumTheorems.
LEMMA ValuesAreSums == \A es, name : Values(es, name) = ValueSum(Named(es, name))
BY DEF Values, ValueSum

\* No event, no sum.
LEMMA ValuesNone == \A name : Values({}, name) = 0
<1> TAKE name
<1>1. Named({}, name) = {}
  BY DEF Named
<1>2. ValueSum(Named({}, name)) = ValueSum({})
  BY <1>1
<1> QED
  BY <1>2, ValuesAreSums, ValueSumNone

\* Sums of amounts are naturals.
LEMMA ValuesNat ==
  ASSUME NEW es, Amounted(es), NEW name
  PROVE  Values(es, name) \in Nat
<1>1. IsFiniteSet(Named(es, name)) /\ \A e \in Named(es, name) : e.value \in Nat
  BY FS_Subset DEF Amounted, Named
<1>2. ValueSum(Named(es, name)) \in Nat
  BY <1>1, ValueSumNat
<1> QED
  BY <1>2, ValuesAreSums

\* One event more adds its value to the sum of its name.
LEMMA ValuesAdd ==
  ASSUME NEW es, NEW e, e \notin es, Amounted(es), e.value \in Nat, NEW name
  PROVE  Values(es \cup {e}, name) = Values(es, name) + (IF e.name = name THEN e.value ELSE 0)
<1>1. CASE e.name = name
  <2>1. Named(es \cup {e}, name) = Named(es, name) \cup {e} /\ e \notin Named(es, name)
    BY <1>1 DEF Named
  <2>2. IsFiniteSet(Named(es, name)) /\ \A f \in Named(es, name) \cup {e} : f.value \in Int
    BY FS_Subset DEF Amounted, Named
  <2>3. ValueSum(Named(es, name) \cup {e}) = ValueSum(Named(es, name)) + e.value
    BY <2>1, <2>2, ValueSumAdd
  <2>4. ValueSum(Named(es \cup {e}, name)) = ValueSum(Named(es, name) \cup {e})
    BY <2>1
  <2> QED
    BY <1>1, <2>3, <2>4, ValuesAreSums
<1>2. CASE e.name # name
  <2>1. Named(es \cup {e}, name) = Named(es, name)
    BY <1>2 DEF Named
  <2>2. ValueSum(Named(es \cup {e}, name)) = ValueSum(Named(es, name))
    BY <2>1
  <2>3. Values(es, name) \in Nat
    BY ValuesNat
  <2> QED
    BY <1>2, <2>2, <2>3, ValuesAreSums
<1> QED
  BY <1>1, <1>2

\* The sum of a whole is that of its parts.
LEMMA ValuesSplit ==
  ASSUME NEW es, Amounted(es), NEW part \in SUBSET es, NEW name
  PROVE  Values(es, name) = Values(part, name) + Values(es \ part, name)
<1> DEFINE S == Named(part, name)
           T == Named(es \ part, name)
<1>1. Named(es, name) = S \cup T /\ S \cap T = {}
  BY DEF Named
<1>2. IsFiniteSet(S) /\ IsFiniteSet(T) /\ \A e \in S \cup T : e.value \in Int
  BY FS_Subset DEF Amounted, Named
<1> HIDE DEF S, T
<1>3. ValueSum(S \cup T) = ValueSum(S) + ValueSum(T)
  BY <1>1, <1>2, ValueSumUnion
<1>4. ValueSum(Named(es, name)) = ValueSum(S \cup T)
  BY <1>1
<1> QED
  BY <1>3, <1>4, ValuesAreSums DEF S, T

\* Among one event at most, the sum of a name is its value or nothing.
LEMMA ValuesOfOne ==
  ASSUME NEW es, Amounted(es), Cardinality(es) <= 1
  PROVE  \/ \A name : Values(es, name) = 0
         \/ \E e \in es : \A name : Values(es, name) = IF e.name = name THEN e.value ELSE 0
<1>1. CASE es = {}
  BY <1>1, ValuesNone
<1>2. CASE es # {}
  <2>1. PICK e \in es : TRUE
    BY <1>2
  <2>2. es = {e}
    <3> SUFFICES ASSUME NEW f \in es, f # e
                 PROVE  FALSE
      BY <2>1
    <3>1. Cardinality({e, f}) <= Cardinality(es)
      BY FS_Subset DEF Amounted
    <3>2. Cardinality({e, f}) = 2
      <4>1. IsFiniteSet({e}) /\ Cardinality({e}) = 1
        BY FS_Singleton
      <4>2. Cardinality({e} \cup {f}) = Cardinality({e}) + 1
        BY <4>1, FS_AddElement
      <4>3. {e} \cup {f} = {e, f}
        OBVIOUS
      <4>4. Cardinality({e} \cup {f}) = Cardinality({e, f})
        BY <4>3
      <4> QED
        BY <4>1, <4>2, <4>4
    <3>3. Cardinality(es) \in Nat
      BY FS_CardinalityType DEF Amounted
    <3> QED
      BY <3>1, <3>2, <3>3
  <2>3. ASSUME NEW name
        PROVE  Values(es, name) = IF e.name = name THEN e.value ELSE 0
    <3>1. IsFiniteSet({}) /\ e.value \in Nat
      BY FS_EmptySet DEF Amounted
    <3>2. Values({} \cup {e}, name) = Values({}, name) + (IF e.name = name THEN e.value ELSE 0)
      BY <3>1, ValuesAdd DEF Amounted
    <3>3. {} \cup {e} = es
      BY <2>2
    <3>4. Values(es, name) = Values({} \cup {e}, name)
      BY <3>3
    <3> QED
      BY <3>1, <3>2, <3>4, ValuesNone
  <2> QED
    BY <2>3
<1> QED
  BY <1>1, <1>2
-------------------------------------------------------------------------------
(* The invariant of the vault and of what is derived from it. *)

\* The order in which the vault emits its events.
EmittedBefore(e, f) == e.block < f.block \/ (e.block = f.block /\ e.log < f.log)

\* The clocks go forward, and the first snapshot answers what the formula says.
ClocksOK ==
  /\ block \in Nat
  /\ vault \in [actual : Nat, rate : Nat, last : Nat, now : Nat]
  /\ start \in [actual : Nat, rate : Nat, last : Nat, time : Nat, total : Nat]
  /\ start.last <= start.time /\ start.time <= vault.now
  /\ start.last <= vault.last /\ vault.last <= vault.now
  /\ start.total = UpdatedAssets(start.actual, start.rate, start.time - start.last)

EventTyped(e) ==
  /\ e.block \in Nat /\ e.time \in Nat /\ e.log \in Nat /\ e.value \in Nat /\ e.name \in Names
  /\ e.block <= block /\ start.time <= e.time /\ e.time <= vault.now

EventsOK ==
  /\ IsFiniteSet(events)
  /\ \A e \in events : EventTyped(e)
  /\ \A e \in events : e.block = block => e.time = vault.now
  /\ \A e, f \in events : e.block = f.block => e.time = f.time
  /\ \A e, f \in events : e.block < f.block => e.time <= f.time
  /\ \A e, f \in events : e # f => EmittedBefore(e, f) \/ EmittedBefore(f, e)
  /\ \/ \A f \in events : f.block # block
     \/ \E m \in events : m.block = block /\ \A f \in events : f.block = block => f.log <= m.log

\* The balance of the vault is what was there, accrued and paid in less what was
\* paid out; what it owes grows by nothing else than interest.
Accounts ==
  LET A == Values(events, "Accrued")
      D == Values(events, "Deposit")
      W == Values(events, "Withdraw")
  IN  /\ vault.actual = start.actual + A + D - W
      /\ vault.last = start.last => A = 0
      /\ start.total + D - W <= UpdatedAssets(vault.actual, vault.rate, vault.now - vault.last)

Derived ==
  deriving # "vault" =>
    /\ seen \subseteq events
    /\ Cardinality(events \ seen) <= MaxLost
    /\ finish = Snapshot(vault)
    /\ row = DerivedRow(start, finish, seen)

\* The locals of the integration.
IsFold(f) ==
  f = [actual |-> f.actual, rate |-> f.rate, last |-> f.last,
       ypo |-> f.ypo, predicted |-> f.predicted, emitted |-> f.emitted]

\* The same account of the events that the integration has reached.
Folding ==
  deriving = "segmented" =>
    /\ IsFold(fold)
    /\ todo \subseteq seen
    /\ fold.emitted = Values(seen \ todo, "Accrued")
    /\ fold.actual = start.actual + Values(seen \ todo, "Accrued")
                     + Values(seen \ todo, "Deposit") - Values(seen \ todo, "Withdraw")

Phases == {"vault", "constant", "segmented", "verified", "invalid", "failed"}

WindowInv == deriving \in Phases /\ ClocksOK /\ EventsOK /\ Accounts /\ Derived /\ Folding

\* What a boundary snapshot answers.
LEMMA SnapshotIs ==
  ASSUME Base \in Nat \ {0}, NEW v \in [actual : Nat, rate : Nat, last : Nat, now : Nat], v.last <= v.now
  PROVE  /\ Snapshot(v) \in [actual : Nat, rate : Nat, last : Nat, time : Nat, total : Nat]
         /\ Snapshot(v).actual = v.actual /\ Snapshot(v).rate = v.rate
         /\ Snapshot(v).last = v.last /\ Snapshot(v).time = v.now
         /\ Snapshot(v).total = UpdatedAssets(v.actual, v.rate, v.now - v.last)
         /\ Snapshot(v).actual <= Snapshot(v).total
<1>1. v.now - v.last \in Nat /\ v.now - v.last <= v.now - v.last
  OBVIOUS
<1>2. /\ UpdatedAssets(v.actual, v.rate, v.now - v.last) \in Nat
      /\ v.actual <= UpdatedAssets(v.actual, v.rate, v.now - v.last)
  BY <1>1, UpdatedGrows
<1> QED
  BY <1>2 DEF Snapshot

\* Events carry amounts.
LEMMA EventsAmounted == EventsOK => Amounted(events)
BY DEF EventsOK, EventTyped, Amounted

\* Every behaviour starts in the invariant.
LEMMA WindowStarts == ParametersOK /\ WindowInit => WindowInv
<1> SUFFICES ASSUME ParametersOK, WindowInit
             PROVE  WindowInv
  OBVIOUS
<1>1. /\ deriving = "vault" /\ block = 0 /\ events = {} /\ start = Snapshot(vault)
      /\ vault \in [actual : Nat, rate : Nat, last : Nat, now : Nat] /\ vault.last = 0
      /\ Base \in Nat \ {0}
  BY DEF WindowInit, ParametersOK
<1>2. /\ start \in [actual : Nat, rate : Nat, last : Nat, time : Nat, total : Nat]
      /\ start.actual = vault.actual /\ start.rate = vault.rate
      /\ start.last = vault.last /\ start.time = vault.now
      /\ start.total = UpdatedAssets(vault.actual, vault.rate, vault.now - vault.last)
  <2>1. vault.last <= vault.now
    BY <1>1
  <2> QED
    BY <1>1, <2>1, SnapshotIs
<1>3. ClocksOK
  BY <1>1, <1>2 DEF ClocksOK
<1>4. EventsOK
  BY <1>1, FS_EmptySet DEF EventsOK
<1>5. Accounts
  <2>1. /\ Values(events, "Accrued") = 0 /\ Values(events, "Deposit") = 0
        /\ Values(events, "Withdraw") = 0
    BY <1>1, ValuesNone
  <2> QED
    BY <1>1, <1>2, <2>1 DEF Accounts
<1> QED
  BY <1>1, <1>3, <1>4, <1>5 DEF WindowInv, Derived, Folding, Phases

\* A block only moves the clock forward.
LEMMA NextBlockWindow ==
  ASSUME ParametersOK, WindowInv, NextBlock
  PROVE  WindowInv'
<1>1. /\ deriving = "vault" /\ deriving' = deriving /\ block' = block + 1 /\ events' = events /\ start' = start
      /\ \E wait \in Nat : vault' = [vault EXCEPT !.now = @ + wait]
      /\ ClocksOK /\ EventsOK /\ Accounts
      /\ Base \in Nat \ {0}
  BY DEF WindowInv, NextBlock, ParametersOK
<1>2. PICK wait \in Nat : vault' = [vault EXCEPT !.now = @ + wait]
  BY <1>1
<1>3. /\ vault' \in [actual : Nat, rate : Nat, last : Nat, now : Nat]
      /\ vault'.actual = vault.actual /\ vault'.rate = vault.rate /\ vault'.last = vault.last
      /\ vault'.now = vault.now + wait
  BY <1>1, <1>2 DEF ClocksOK
<1>4. ClocksOK'
  BY <1>1, <1>3 DEF ClocksOK
<1>5. EventsOK'
  <2>1. \A e \in events : EventTyped(e)' /\ e.block # block'
    BY <1>1, <1>3 DEF ClocksOK, EventsOK, EventTyped
  <2> QED
    BY <1>1, <2>1 DEF EventsOK, EmittedBefore
<1>6. Accounts'
  <2>1. PICK A, D, W \in Int : /\ A = Values(events, "Accrued") /\ D = Values(events, "Deposit")
                               /\ W = Values(events, "Withdraw")
    BY <1>1, EventsAmounted, ValuesNat
  <2>2. UpdatedAssets(vault.actual, vault.rate, vault.now - vault.last)
          <= UpdatedAssets(vault.actual, vault.rate, vault'.now - vault.last)
        /\ UpdatedAssets(vault.actual, vault.rate, vault.now - vault.last) \in Nat
        /\ UpdatedAssets(vault.actual, vault.rate, vault'.now - vault.last) \in Nat
    <3>1. /\ vault.now - vault.last \in Nat /\ vault'.now - vault.last \in Nat
          /\ vault.now - vault.last <= vault'.now - vault.last
          /\ vault.actual \in Nat /\ vault.rate \in Nat
      BY <1>1, <1>3 DEF ClocksOK
    <3> QED
      BY <1>1, <3>1, UpdatedGrows
  <2>3. start.total \in Nat
    BY <1>1 DEF ClocksOK
  <2>4. /\ vault'.actual = start.actual + A + D - W
        /\ vault'.last = start.last => A = 0
        /\ start.total + D - W <= UpdatedAssets(vault'.actual, vault'.rate, vault'.now - vault'.last)
    BY <1>1, <1>3, <2>1, <2>2, <2>3 DEF Accounts
  <2> QED
    BY <1>1, <2>1, <2>4 DEF Accounts
<1> QED
  BY <1>1, <1>4, <1>5, <1>6 DEF WindowInv, Derived, Folding, Phases

\* Events get log indices behind those of their block.
LEMMA NextLogsLater ==
  ASSUME ParametersOK, ClocksOK, EventsOK, NEW log \in NextLogs
  PROVE  log \in Nat /\ \A f \in events : f.block = block => f.log < log
<1> DEFINE used == {e.log : e \in {f \in events : f.block = block}}
<1>1. CASE used = {}
  <2>1. log \in LogGaps
    BY <1>1 DEF NextLogs
  <2>2. \A f \in events : f.block # block
    BY <1>1
  <2> QED
    BY <2>1, <2>2 DEF ParametersOK
<1>2. CASE used # {}
  <2>1. log = 1 + Max(used)
    BY <1>2 DEF NextLogs
  <2>2. PICK m \in events : m.block = block /\ \A f \in events : f.block = block => f.log <= m.log
    BY <1>2 DEF EventsOK
  <2>3. m.log \in used /\ \A x \in used : x <= m.log
    BY <2>2
  <2> HIDE DEF used
  <2>4. Max(used) \in used /\ \A x \in used : x <= Max(used)
    BY <2>3 DEF Max
  <2>5. \A f \in events : f.block = block => f.log \in used
    BY DEF used
  <2>6. \A x \in used : x \in Nat
    BY DEF used, EventsOK, EventTyped
  <2>7. Max(used) \in Nat
    BY <2>4, <2>6
  <2>8. ASSUME NEW f \in events, f.block = block
        PROVE  f.log < log
    <3>1. f.log \in used
      BY <2>5, <2>8
    <3> QED
      BY <3>1, <2>1, <2>4, <2>6, <2>7
  <2> QED
    BY <2>1, <2>7, <2>8
<1> QED
  BY <1>1, <1>2

\* What an operation of the vault does, in terms of its two events.
Operations == {"Deposit", "Withdraw", "RateUpdated"}

Paid(name, value) == IF name = "Deposit" THEN value ELSE IF name = "Withdraw" THEN - value ELSE 0

OperatedBy(a, b) ==
  /\ a.block = block /\ b.block = block /\ a.time = vault.now /\ b.time = vault.now
  /\ a.log \in Nat /\ b.log = a.log + 1 /\ a.name = "Accrued" /\ b.name \in Operations
  /\ a.value \in Nat /\ b.value \in Nat
  /\ a.value = UpdatedAssets(vault.actual, vault.rate, vault.now - vault.last) - vault.actual
  /\ b.name = "Withdraw" => b.value <= vault.actual + a.value
  /\ \A f \in events : f.block = block => f.log < a.log
  /\ events' = events \cup {a, b}
  /\ vault' = [actual |-> vault.actual + a.value + Paid(b.name, b.value),
               rate   |-> IF b.name = "RateUpdated" THEN b.value ELSE vault.rate,
               last   |-> vault.now,
               now    |-> vault.now]

\* What an operation of the vault does.
LEMMA OperateIs ==
  ASSUME ParametersOK, ClocksOK, EventsOK, NEW name \in Operations, NEW value \in Nat,
         Operate(name, value)
  PROVE  /\ deriving = "vault" /\ UNCHANGED <<deriving, block, start>>
         /\ \E a, b : OperatedBy(a, b)
<1> DEFINE owed     == UpdatedAssets(vault.actual, vault.rate, vault.now - vault.last)
           interest == owed - vault.actual
<1>1. owed \in Nat /\ interest \in Nat
  <2>1. /\ vault.actual \in Nat /\ vault.rate \in Nat /\ vault.now - vault.last \in Nat
        /\ Base \in Nat \ {0} /\ vault.now - vault.last <= vault.now - vault.last
    BY DEF ClocksOK, ParametersOK
  <2>2. owed \in Nat /\ vault.actual <= owed
    BY <2>1, UpdatedGrows
  <2> QED
    BY <2>1, <2>2
<1>2. PICK log \in NextLogs :
        events' = events \cup {Emitted(log, "Accrued", interest), Emitted(log + 1, name, value)}
  BY DEF Operate
<1>3. log \in Nat /\ \A f \in events : f.block = block => f.log < log
  BY NextLogsLater
<1>4. PICK a, b : a = Emitted(log, "Accrued", interest) /\ b = Emitted(log + 1, name, value)
  OBVIOUS
<1>5. /\ a.block = block /\ b.block = block /\ a.time = vault.now /\ b.time = vault.now
      /\ a.log = log /\ b.log = log + 1 /\ a.name = "Accrued" /\ b.name = name
      /\ a.value = interest /\ b.value = value
  BY <1>4 DEF Emitted
<1>6. /\ name = "Withdraw" => value <= vault.actual + interest
      /\ vault' = [actual |-> vault.actual + interest + Paid(name, value),
                   rate   |-> IF name = "RateUpdated" THEN value ELSE vault.rate,
                   last   |-> vault.now,
                   now    |-> vault.now]
      /\ deriving = "vault" /\ UNCHANGED <<deriving, block, start>>
  BY DEF Operate, Operations, Paid
<1> HIDE DEF owed, interest
<1>7. OperatedBy(a, b)
  BY <1>1, <1>2, <1>3, <1>4, <1>5, <1>6 DEF OperatedBy, owed, interest
<1> QED
  BY <1>6, <1>7
\* The two events are new, and come last.
LEMMA OperatedOrder ==
  ASSUME EventsOK, ClocksOK, NEW a, NEW b, OperatedBy(a, b)
  PROVE  /\ a \notin events /\ b \notin events /\ a # b
         /\ \A f \in events : EmittedBefore(f, a) /\ EmittedBefore(f, b)
         /\ \A f \in events : ~ EmittedBefore(a, f) /\ ~ EmittedBefore(b, f)
         /\ EmittedBefore(a, b) /\ ~ EmittedBefore(b, a)
         /\ ~ EmittedBefore(a, a) /\ ~ EmittedBefore(b, b)
<1>1. \A f \in events : f.block \in Nat /\ f.log \in Nat /\ f.block <= block
  BY DEF EventsOK, EventTyped
<1>2. \A f \in events : f.block = block => f.log < a.log
  BY DEF OperatedBy
<1>3. /\ a.block = block /\ b.block = block /\ a.log \in Nat /\ b.log = a.log + 1 /\ block \in Nat
  BY DEF OperatedBy, ClocksOK
<1> QED
  BY <1>1, <1>2, <1>3 DEF EmittedBefore

\* An operation keeps the account.
LEMMA OperateWindow ==
  ASSUME ParametersOK, WindowInv, NEW name \in Operations, NEW value \in Nat, Operate(name, value)
  PROVE  WindowInv'
<1>1. ClocksOK /\ EventsOK /\ Accounts /\ Base \in Nat \ {0}
  BY DEF WindowInv, ParametersOK
<1>2. deriving = "vault" /\ deriving' = "vault" /\ block' = block /\ start' = start
  BY <1>1, OperateIs
<1>3. PICK a, b : OperatedBy(a, b)
  BY <1>1, OperateIs
<1>4. /\ a \notin events /\ b \notin events /\ a # b
      /\ \A f \in events : EmittedBefore(f, a) /\ EmittedBefore(f, b)
      /\ EmittedBefore(a, b)
  BY <1>1, <1>3, OperatedOrder
<1>5. /\ a.block = block /\ b.block = block /\ a.time = vault.now /\ b.time = vault.now
      /\ a.log \in Nat /\ b.log = a.log + 1 /\ a.name = "Accrued" /\ b.name \in Operations
      /\ a.value \in Nat /\ b.value \in Nat
      /\ a.value = UpdatedAssets(vault.actual, vault.rate, vault.now - vault.last) - vault.actual
      /\ b.name = "Withdraw" => b.value <= vault.actual + a.value
      /\ \A f \in events : f.block = block => f.log < a.log
  BY <1>3 DEF OperatedBy
<1>6. /\ vault'.actual = vault.actual + a.value + Paid(b.name, b.value)
      /\ vault'.rate = (IF b.name = "RateUpdated" THEN b.value ELSE vault.rate)
      /\ vault'.last = vault.now /\ vault'.now = vault.now
      /\ vault' \in [actual : Nat, rate : Nat, last : Nat, now : Nat]
  <2>1. vault.actual + a.value + Paid(b.name, b.value) \in Nat
    BY <1>1, <1>5 DEF ClocksOK, Paid, Operations
  <2>2. (IF b.name = "RateUpdated" THEN b.value ELSE vault.rate) \in Nat /\ vault.now \in Nat
    BY <1>1, <1>5 DEF ClocksOK
  <2>3. vault' = [actual |-> vault.actual + a.value + Paid(b.name, b.value),
                  rate   |-> IF b.name = "RateUpdated" THEN b.value ELSE vault.rate,
                  last   |-> vault.now,
                  now    |-> vault.now]
    BY <1>3 DEF OperatedBy
  <2> QED
    BY <2>1, <2>2, <2>3
<1>7. events' = events \cup {a, b}
  BY <1>3 DEF OperatedBy
<1>8. ClocksOK'
  BY <1>1, <1>2, <1>6 DEF ClocksOK
<1>9. EventsOK'
  <2>1. IsFiniteSet(events')
    <3>1. events' = (events \cup {a}) \cup {b}
      BY <1>7
    <3> QED
      BY <3>1, <1>1, FS_AddElement DEF EventsOK
  <2>2. \A e \in events' : EventTyped(e)'
    <3>1. \A e \in events : EventTyped(e)'
      BY <1>1, <1>2, <1>6 DEF EventsOK, EventTyped, ClocksOK
    <3>2. EventTyped(a)' /\ EventTyped(b)'
      BY <1>1, <1>2, <1>5, <1>6 DEF EventTyped, ClocksOK, Names, Operations
    <3> QED
      BY <3>1, <3>2, <1>7
  <2>3. \A e \in events' : e.block = block' => e.time = vault'.now
    BY <1>1, <1>2, <1>5, <1>6, <1>7 DEF EventsOK
  <2>4. \A e, f \in events' : /\ e.block = f.block => e.time = f.time
                              /\ e.block < f.block => e.time <= f.time
    <3>1. \A e \in events : /\ e.block <= block /\ e.time <= vault.now /\ e.block \in Nat
                            /\ e.block = block => e.time = vault.now
      BY <1>1 DEF EventsOK, EventTyped
    <3>2. \A e, f \in events : /\ e.block = f.block => e.time = f.time
                               /\ e.block < f.block => e.time <= f.time
      BY <1>1 DEF EventsOK
    <3>3. block \in Nat /\ vault.now \in Nat
      BY <1>1 DEF ClocksOK
    <3> QED
      BY <3>1, <3>2, <3>3, <1>5, <1>7
  <2>5. \A e, f \in events' : e # f => EmittedBefore(e, f) \/ EmittedBefore(f, e)
    BY <1>1, <1>4, <1>7 DEF EventsOK
  <2>6. \E m \in events' : m.block = block' /\ \A f \in events' : f.block = block' => f.log <= m.log
    <3>1. b \in events' /\ b.block = block'
      BY <1>2, <1>5, <1>7
    <3>2. ASSUME NEW f \in events', f.block = block'
          PROVE  f.log <= b.log
      <4>1. f \in events => f.log \in Nat
        BY <1>1 DEF EventsOK, EventTyped
      <4> QED
        BY <4>1, <3>2, <1>2, <1>5, <1>7
    <3> QED
      BY <3>1, <3>2
  <2> QED
    BY <2>1, <2>2, <2>3, <2>4, <2>5, <2>6 DEF EventsOK, EmittedBefore
<1>10. Accounts'
  <2>1. Amounted(events)
    BY <1>1, EventsAmounted
  <2>2. Amounted(events \cup {a})
    BY <2>1, <1>5, FS_AddElement DEF Amounted
  <2>3. ASSUME NEW n
        PROVE  Values(events', n) = Values(events, n) + (IF a.name = n THEN a.value ELSE 0)
                                                       + (IF b.name = n THEN b.value ELSE 0)
    <3>1. Values(events \cup {a}, n) = Values(events, n) + (IF a.name = n THEN a.value ELSE 0)
      BY <2>1, <1>4, <1>5, ValuesAdd
    <3>2. b \notin events \cup {a}
      BY <1>4
    <3>3. Values((events \cup {a}) \cup {b}, n)
            = Values(events \cup {a}, n) + (IF b.name = n THEN b.value ELSE 0)
      BY <2>2, <3>2, <1>5, ValuesAdd
    <3>4. events' = (events \cup {a}) \cup {b}
      BY <1>7
    <3>5. Values(events', n) = Values((events \cup {a}) \cup {b}, n)
      BY <3>4
    <3> QED
      BY <3>1, <3>3, <3>5
  <2>4. PICK A, D, W \in Int : /\ A = Values(events, "Accrued") /\ D = Values(events, "Deposit")
                               /\ W = Values(events, "Withdraw")
    BY <2>1, ValuesNat
  <2>5. /\ Values(events', "Accrued") = A + a.value
        /\ Values(events', "Deposit") = D + (IF b.name = "Deposit" THEN b.value ELSE 0)
        /\ Values(events', "Withdraw") = W + (IF b.name = "Withdraw" THEN b.value ELSE 0)
    BY <2>3, <2>4, <1>5 DEF Operations
  <2>6. PICK total \in Nat : /\ total = UpdatedAssets(vault.actual, vault.rate, vault.now - vault.last)
                             /\ vault.now = vault.last => total = vault.actual
    <3>1. /\ vault.actual \in Nat /\ vault.rate \in Nat /\ vault.now - vault.last \in Nat
          /\ vault.now - vault.last <= vault.now - vault.last
      BY <1>1 DEF ClocksOK
    <3>2. UpdatedAssets(vault.actual, vault.rate, vault.now - vault.last) \in Nat
      BY <1>1, <3>1, UpdatedGrows
    <3>3. vault.now = vault.last => vault.now - vault.last = 0
      BY <1>1 DEF ClocksOK
    <3>4. vault.now = vault.last =>
            UpdatedAssets(vault.actual, vault.rate, vault.now - vault.last) = vault.actual
      BY <3>3, UpdatedNow
    <3> QED
      BY <3>2, <3>4
  <2>7. /\ vault.actual = start.actual + A + D - W
        /\ vault.last = start.last => A = 0
        /\ start.total + D - W <= total
    BY <1>1, <2>4, <2>6 DEF Accounts
  <2>8. a.value = total - vault.actual /\ vault.actual \in Nat /\ start.actual \in Nat
        /\ start.total \in Nat /\ start.last \in Nat /\ vault.last \in Nat /\ vault.now \in Nat
        /\ start.last <= vault.last /\ vault.last <= vault.now
    BY <1>1, <1>5, <2>6 DEF ClocksOK
  <2>9. UpdatedAssets(vault'.actual, vault'.rate, vault'.now - vault'.last) = vault'.actual
    <3>1. vault'.now - vault'.last = 0
      BY <1>6, <2>8
    <3> QED
      BY <3>1, UpdatedNow
  <2>10. vault'.actual = start.actual + Values(events', "Accrued") + Values(events', "Deposit")
                         - Values(events', "Withdraw")
    BY <1>5, <1>6, <2>5, <2>7, <2>8 DEF Paid, Operations
  <2>11. vault'.last = start.last => Values(events', "Accrued") = 0
    BY <1>6, <2>5, <2>6, <2>7, <2>8
  <2>12. start.total + Values(events', "Deposit") - Values(events', "Withdraw") <= vault'.actual
    BY <1>5, <1>6, <2>5, <2>7, <2>8 DEF Paid, Operations
  <2> QED
    BY <1>2, <2>9, <2>10, <2>11, <2>12 DEF Accounts
<1> QED
  BY <1>2, <1>8, <1>9, <1>10 DEF WindowInv, Derived, Folding, Phases
\* The derivation leaves the vault alone and stores what it has read.
LEMMA DeriveWindow ==
  ASSUME WindowInv, Derive
  PROVE  WindowInv'
<1>1. /\ UNCHANGED <<vault, block, events, start>> /\ finish' = Snapshot(vault)
      /\ row' = DerivedRow(start, finish', seen')
      /\ deriving' \in {"failed", "constant"}
      /\ \E lost \in SUBSET events : Cardinality(lost) <= MaxLost /\ seen' = events \ lost
  BY DEF Derive, evidence
<1>2. seen' \subseteq events /\ Cardinality(events \ seen') <= MaxLost
  <2>1. PICK lost \in SUBSET events : Cardinality(lost) <= MaxLost /\ seen' = events \ lost
    BY <1>1
  <2>2. events \ seen' = lost
    BY <2>1
  <2>3. Cardinality(events \ seen') = Cardinality(lost)
    BY <2>2
  <2> QED
    BY <2>1, <2>3
<1>3. ClocksOK' /\ EventsOK' /\ Accounts'
  BY <1>1 DEF WindowInv, ClocksOK, EventsOK, EventTyped, Accounts
<1>4. Derived'
  <2>1. (Snapshot(vault))' = Snapshot(vault) /\ (DerivedRow(start, finish, seen))' = DerivedRow(start, finish', seen')
    BY <1>1 DEF Snapshot, DerivedRow
  <2>2. finish' = (Snapshot(vault))' /\ row' = (DerivedRow(start, finish, seen))'
    BY <1>1, <2>1
  <2> QED
    BY <1>1, <1>2, <2>2 DEF Derived
<1> QED
  BY <1>1, <1>3, <1>4 DEF WindowInv, Folding, Phases

\* What follows the derivation changes neither the evidence nor the stored row.
LEMMA KeepsEvidence ==
  ASSUME WindowInv, UNCHANGED <<evidence, stored>>, deriving = "vault" <=> deriving' = "vault"
  PROVE  ClocksOK' /\ EventsOK' /\ Accounts' /\ Derived'
<1>1. UNCHANGED <<vault, block, events, start, finish, seen, row>>
  BY DEF evidence, stored
<1>2. ClocksOK' /\ EventsOK' /\ Accounts'
  BY <1>1 DEF WindowInv, ClocksOK, EventsOK, EventTyped, Accounts
<1>3. Derived'
  BY <1>1 DEF WindowInv, Derived, Snapshot, DerivedRow
<1> QED
  BY <1>2, <1>3

\* Verdicts keep what they judge.
LEMMA VerdictWindow ==
  ASSUME WindowInv, \/ ConstantRate \/ Segment \/ Judge \/ UNCHANGED windowVars
                    \/ \E e \in todo : Throw(e)
  PROVE  WindowInv'
<1>1. UNCHANGED <<evidence, stored>>
  BY DEF ConstantRate, Segment, Judge, windowVars, Throw, stored
<1>2. /\ deriving' \in Phases /\ (deriving = "vault" <=> deriving' = "vault")
  BY DEF WindowInv, ConstantRate, Segment, Judge, windowVars, Throw, Reached, Phases
<1>3. ClocksOK' /\ EventsOK' /\ Accounts' /\ Derived'
  BY <1>1, <1>2, KeepsEvidence
<1>4. Folding'
  <2>1. CASE Segment
    <3>1. todo' = seen /\ seen' = seen /\ start' = start /\ fold' = StartFold(start)
      BY <2>1 DEF Segment, evidence, stored
    <3>2. seen' \ todo' = {}
      BY <3>1
    <3>3. \A n : Values(seen' \ todo', n) = 0
      <4> TAKE n
      <4>1. Values(seen' \ todo', n) = Values({}, n)
        BY <3>2
      <4> QED
        BY <4>1, ValuesNone
    <3>4. start.actual \in Nat
      BY DEF WindowInv, ClocksOK
    <3>5. /\ Values(seen' \ todo', "Accrued") = 0 /\ Values(seen' \ todo', "Deposit") = 0
          /\ Values(seen' \ todo', "Withdraw") = 0
      BY <3>3
    <3>6. /\ IsFold(fold') /\ fold'.actual = start'.actual /\ fold'.emitted = 0
          /\ start'.actual = start.actual
      BY <3>1 DEF IsFold, StartFold
    <3> QED
      BY <3>1, <3>4, <3>5, <3>6 DEF Folding, IsFold
  <2>2. CASE ConstantRate
    BY <2>2 DEF ConstantRate, Folding
  <2>3. CASE Judge
    BY <2>3 DEF Judge, Folding
  <2>4. CASE \E e \in todo : Throw(e)
    BY <2>4 DEF Throw, Folding
  <2>5. CASE UNCHANGED windowVars
    BY <2>5 DEF WindowInv, windowVars, evidence, stored, Folding
  <2> QED
    BY <2>1, <2>2, <2>3, <2>4, <2>5
<1> QED
  BY <1>2, <1>3, <1>4 DEF WindowInv

\* What one round of the loop changes.
LEMMA FoldedIs ==
  ASSUME NEW f, IsFold(f), NEW e, e.name \in Names
  PROVE  LET g == Folded(f, e)
             predicted == UpdatedAssets(f.actual, f.rate, e.time - f.last) - f.actual
         IN  /\ IsFold(g)
             /\ g.rate = IF e.name = "RateUpdated" THEN e.value ELSE f.rate
             /\ g.last = IF e.name = "Accrued" THEN e.time ELSE f.last
             /\ g.actual = CASE e.name = "Withdraw" -> f.actual - e.value
                              [] e.name = "RateUpdated" -> f.actual
                              [] OTHER -> f.actual + e.value
             /\ g.ypo = IF e.name = "Accrued" THEN f.ypo + predicted ELSE f.ypo
             /\ g.predicted = IF e.name = "Accrued" THEN f.predicted + predicted ELSE f.predicted
             /\ g.emitted = IF e.name = "Accrued" THEN f.emitted + e.value ELSE f.emitted
<1> DEFINE predicted == UpdatedAssets(f.actual, f.rate, e.time - f.last) - f.actual
<1>1. CASE e.name = "Accrued"
  <2>1. Folded(f, e) = [f EXCEPT !.predicted = @ + predicted, !.emitted = @ + e.value,
                                 !.ypo = @ + predicted, !.actual = @ + e.value, !.last = e.time]
    BY <1>1 DEF Folded, Accrued
  <2> HIDE DEF predicted
  <2>2. Folded(f, e) = [actual |-> f.actual + e.value, rate |-> f.rate, last |-> e.time,
                        ypo |-> f.ypo + predicted, predicted |-> f.predicted + predicted,
                        emitted |-> f.emitted + e.value]
    BY <2>1 DEF IsFold
  <2> QED
    BY <1>1, <2>2 DEF IsFold, predicted
<1>2. CASE e.name = "Deposit"
  BY <1>2 DEF Folded, IsFold
<1>3. CASE e.name = "Withdraw"
  BY <1>3 DEF Folded, IsFold
<1>4. CASE e.name = "RateUpdated"
  BY <1>4 DEF Folded, IsFold
<1> QED
  BY <1>1, <1>2, <1>3, <1>4 DEF Names

\* The integration books an event as the vault did.
LEMMA IntegrateWindow ==
  ASSUME WindowInv, NEW e \in todo, Integrate(e)
  PROVE  WindowInv'
<1>1. /\ deriving = "segmented" /\ deriving' = deriving /\ todo' = todo \ {e} /\ fold' = Folded(fold, e)
      /\ UNCHANGED <<evidence, stored>>
  BY DEF Integrate, Reached
<1>2. UNCHANGED <<start, seen>>
  BY <1>1 DEF evidence, stored
<1>3. ClocksOK' /\ EventsOK' /\ Accounts' /\ Derived'
  BY <1>1, KeepsEvidence
<1>4. /\ todo \subseteq seen /\ seen \subseteq events /\ EventsOK /\ Amounted(events)
      /\ fold.emitted = Values(seen \ todo, "Accrued")
      /\ fold.actual = start.actual + Values(seen \ todo, "Accrued")
                       + Values(seen \ todo, "Deposit") - Values(seen \ todo, "Withdraw")
      /\ start.actual \in Nat /\ IsFold(fold)
  BY <1>1, EventsAmounted DEF WindowInv, Folding, Derived, ClocksOK
<1>5. e.value \in Nat /\ e.name \in Names /\ e \in seen
  BY <1>4 DEF EventsOK, EventTyped
<1>6. Amounted(seen \ todo) /\ e \notin seen \ todo /\ seen' \ todo' = (seen \ todo) \cup {e}
  BY <1>1, <1>2, <1>4, <1>5, FS_Subset DEF Amounted
<1>7. ASSUME NEW n
      PROVE  Values(seen' \ todo', n) = Values(seen \ todo, n) + (IF e.name = n THEN e.value ELSE 0)
  <2>1. Values((seen \ todo) \cup {e}, n) = Values(seen \ todo, n) + (IF e.name = n THEN e.value ELSE 0)
    BY <1>5, <1>6, ValuesAdd
  <2>2. Values(seen' \ todo', n) = Values((seen \ todo) \cup {e}, n)
    BY <1>6
  <2> QED
    BY <2>1, <2>2
<1>8. PICK A, D, W \in Int : /\ A = Values(seen \ todo, "Accrued") /\ D = Values(seen \ todo, "Deposit")
                             /\ W = Values(seen \ todo, "Withdraw")
  BY <1>6, ValuesNat
<1>9. /\ Values(seen' \ todo', "Accrued") = A + (IF e.name = "Accrued" THEN e.value ELSE 0)
      /\ Values(seen' \ todo', "Deposit") = D + (IF e.name = "Deposit" THEN e.value ELSE 0)
      /\ Values(seen' \ todo', "Withdraw") = W + (IF e.name = "Withdraw" THEN e.value ELSE 0)
  BY <1>7, <1>8
<1>10. /\ fold'.emitted = fold.emitted + (IF e.name = "Accrued" THEN e.value ELSE 0)
       /\ fold'.actual = IF e.name = "RateUpdated" THEN fold.actual
                         ELSE IF e.name = "Withdraw" THEN fold.actual - e.value
                         ELSE fold.actual + e.value
       /\ IsFold(fold')
  <2>1. PICK g : g = Folded(fold, e)
    OBVIOUS
  <2>2. /\ IsFold(g)
        /\ g.actual = CASE e.name = "Withdraw" -> fold.actual - e.value
                         [] e.name = "RateUpdated" -> fold.actual
                         [] OTHER -> fold.actual + e.value
        /\ g.emitted = IF e.name = "Accrued" THEN fold.emitted + e.value ELSE fold.emitted
    BY <1>4, <1>5, <2>1, FoldedIs
  <2>3. fold' = g /\ fold.emitted \in Int
    BY <1>1, <1>4, <1>8, <2>1
  <2> QED
    BY <1>5, <2>2, <2>3 DEF Names
<1>11. Folding'
  <2>1. todo' \subseteq seen'
    BY <1>1, <1>2, <1>4
  <2>2. fold'.emitted = Values(seen' \ todo', "Accrued")
    BY <1>4, <1>8, <1>9, <1>10
  <2>3. fold'.actual = start'.actual + Values(seen' \ todo', "Accrued")
                       + Values(seen' \ todo', "Deposit") - Values(seen' \ todo', "Withdraw")
    BY <1>2, <1>4, <1>5, <1>8, <1>9, <1>10 DEF Names
  <2> QED
    BY <1>10, <2>1, <2>2, <2>3 DEF Folding, IsFold
<1> QED
  BY <1>1, <1>3, <1>11 DEF WindowInv

\* Every step keeps the invariant.
LEMMA WindowKeeps ==
  ASSUME ParametersOK, WindowInv, [WindowNext]_windowVars
  PROVE  WindowInv'
<1>1. CASE NextBlock
  BY <1>1, NextBlockWindow
<1>2. CASE VaultStep
  <2>1. \E name \in Operations, value \in Nat : Operate(name, value)
    BY <1>2 DEF VaultStep, Operations, ParametersOK
  <2> QED
    BY <2>1, OperateWindow
<1>3. CASE Derive
  BY <1>3, DeriveWindow
<1>4. CASE ConstantRate \/ Segment \/ Judge \/ UNCHANGED windowVars
  BY <1>4, VerdictWindow
<1>5. CASE \E e \in todo : Integrate(e) \/ Throw(e)
  BY <1>5, IntegrateWindow, VerdictWindow
<1> QED
  BY <1>1, <1>2, <1>3, <1>4, <1>5 DEF WindowNext

LEMMA WindowInvariance == WindowSpec => []WindowInv
<1>1. WindowInit => WindowInv
  BY ParametersAssumption, WindowStarts
<1>2. WindowInv /\ [WindowNext]_windowVars => WindowInv'
  BY ParametersAssumption, WindowKeeps
<1> QED
  BY <1>1, <1>2, PTL DEF WindowSpec
-------------------------------------------------------------------------------
(* What a verdict says of the yield. *)

\* The stored yield lacks the interest that is missing among the evidence.
LEMMA MissingInterest ==
  ASSUME ParametersOK, WindowInv, deriving # "vault"
  PROVE  /\ Amounted(events) /\ row.native \in Int
         /\ EarnedYpo = row.native + Values(events \ seen, "Accrued")
         /\ \A n : Values(events, n) = Values(seen, n) + Values(events \ seen, n)
         /\ \A n : Values(seen, n) \in Nat /\ Values(events \ seen, n) \in Nat
<1>1. /\ ClocksOK /\ EventsOK /\ Accounts /\ seen \subseteq events /\ finish = Snapshot(vault)
      /\ row = DerivedRow(start, finish, seen) /\ Base \in Nat \ {0}
  BY DEF WindowInv, Derived, ParametersOK
<1>2. Amounted(events) /\ Amounted(seen) /\ Amounted(events \ seen)
  BY <1>1, EventsAmounted, FS_Subset DEF Amounted
<1>3. ASSUME NEW n
      PROVE  /\ Values(events, n) = Values(seen, n) + Values(events \ seen, n)
             /\ Values(seen, n) \in Nat /\ Values(events \ seen, n) \in Nat
  BY <1>1, <1>2, ValuesSplit, ValuesNat
<1>4. PICK A, L, D, W \in Nat : /\ A = Values(seen, "Accrued") /\ L = Values(events \ seen, "Accrued")
                                /\ D = Values(events, "Deposit") /\ W = Values(events, "Withdraw")
  BY <1>2, <1>3, ValuesNat
<1>5. /\ finish.actual = vault.actual /\ finish.total \in Nat /\ finish.actual \in Nat
      /\ start.actual \in Nat /\ start.total \in Nat
  BY <1>1, SnapshotIs DEF ClocksOK
<1>6. vault.actual = start.actual + (A + L) + D - W
  BY <1>1, <1>3, <1>4 DEF Accounts
<1>7. row.native = A + (finish.total - finish.actual) - (start.total - start.actual)
  BY <1>1, <1>4 DEF DerivedRow, NativeYpo, PendingYield
<1>8. EarnedYpo = finish.total - start.total - D + W
  BY <1>4 DEF EarnedYpo
<1>9. EarnedYpo = row.native + L /\ row.native \in Int
  BY <1>5, <1>6, <1>7, <1>8
<1> QED
  BY <1>2, <1>3, <1>4, <1>9

\* Neither path verifies an interval whose interest is not all there.
LEMMA EarnedNext ==
  ASSUME ParametersOK, MaxLost <= 1, WindowInv, VerifiedMeansEarned, [WindowNext]_windowVars
  PROVE  VerifiedMeansEarned'
<1>1. CASE ConstantRate
  <2>1. SUFFICES ASSUME StableBasis PROVE row.native = EarnedYpo
    BY <1>1 DEF ConstantRate, evidence, stored, VerifiedMeansEarned, EarnedYpo
  <2>2. /\ deriving # "vault" /\ ClocksOK /\ Accounts /\ finish = Snapshot(vault) /\ Base \in Nat \ {0}
    BY <1>1 DEF ConstantRate, WindowInv, Derived, ParametersOK
  <2>3. vault.last = start.last
    BY <2>1, <2>2, SnapshotIs DEF StableBasis, ClocksOK
  <2>4. Values(events, "Accrued") = 0
    BY <2>2, <2>3 DEF Accounts
  <2>5. Values(events \ seen, "Accrued") = 0
    <3>1. /\ Values(seen, "Accrued") \in Nat /\ Values(events \ seen, "Accrued") \in Nat
          /\ Values(events, "Accrued") = Values(seen, "Accrued") + Values(events \ seen, "Accrued")
      BY <2>2, MissingInterest
    <3> QED
      BY <2>4, <3>1
  <2>6. row.native \in Int
    BY <2>2, MissingInterest
  <2> QED
    BY <2>2, <2>5, <2>6, MissingInterest
<1>2. CASE Judge
  <2>1. SUFFICES ASSUME StateExact PROVE row.native = EarnedYpo
    BY <1>2 DEF Judge, evidence, stored, VerifiedMeansEarned, EarnedYpo
  <2>2. /\ deriving # "vault" /\ ClocksOK /\ Accounts /\ finish = Snapshot(vault) /\ Base \in Nat \ {0}
        /\ Cardinality(events \ seen) <= MaxLost /\ MaxLost \in Nat /\ seen \ todo = seen
        /\ fold.actual = start.actual + Values(seen \ todo, "Accrued")
                         + Values(seen \ todo, "Deposit") - Values(seen \ todo, "Withdraw")
    BY <1>2 DEF Judge, WindowInv, Derived, Folding, ParametersOK
  <2>3. fold.actual = start.actual + Values(seen, "Accrued")
                      + Values(seen, "Deposit") - Values(seen, "Withdraw")
    BY <2>2
  <2>4. fold.actual = vault.actual
    BY <2>1, <2>2, SnapshotIs DEF StateExact, ClocksOK
  <2> DEFINE lost == events \ seen
  <2>5. /\ Amounted(lost) /\ \A n : Values(lost, n) \in Nat /\ Values(seen, n) \in Nat
        /\ \A n : Values(events, n) = Values(seen, n) + Values(lost, n)
    <3>1. Amounted(events)
      BY <2>2, MissingInterest
    <3>2. Amounted(lost)
      BY <3>1, FS_Subset DEF Amounted
    <3> QED
      BY <2>2, <3>2, MissingInterest
  <2>6. Values(lost, "Accrued") + Values(lost, "Deposit") - Values(lost, "Withdraw") = 0
    <3>1. PICK a, d, w, x, y, z \in Nat :
            /\ a = Values(lost, "Accrued") /\ d = Values(lost, "Deposit") /\ w = Values(lost, "Withdraw")
            /\ x = Values(seen, "Accrued") /\ y = Values(seen, "Deposit") /\ z = Values(seen, "Withdraw")
      BY <2>5
    <3>2. vault.actual = start.actual + (x + a) + (y + d) - (z + w)
      BY <2>2, <2>5, <3>1 DEF Accounts
    <3>3. vault.actual = start.actual + x + y - z /\ start.actual \in Nat
      BY <2>2, <2>3, <2>4, <3>1 DEF ClocksOK
    <3>4. a + d - w = 0
      BY <3>2, <3>3
    <3> QED
      BY <3>1, <3>4
  <2>7. Cardinality(lost) <= 1
    <3>1. Cardinality(lost) \in Nat
      BY <2>5, FS_CardinalityType DEF Amounted
    <3> QED
      BY <2>2, <3>1
  <2>8. Values(lost, "Accrued") = 0
    <3>1. CASE \A n : Values(lost, n) = 0
      BY <3>1
    <3>2. CASE \E e \in lost : \A n : Values(lost, n) = IF e.name = n THEN e.value ELSE 0
      <4>1. PICK e \in lost : \A n : Values(lost, n) = IF e.name = n THEN e.value ELSE 0
        BY <3>2
      <4>2. CASE e.name = "Accrued"
        <5>1. Values(lost, "Deposit") = 0 /\ Values(lost, "Withdraw") = 0
          BY <4>1, <4>2
        <5>2. Values(lost, "Accrued") \in Nat
          BY <2>5
        <5> QED
          BY <2>6, <5>1, <5>2
      <4>3. CASE e.name # "Accrued"
        BY <4>1, <4>3
      <4> QED
        BY <4>2, <4>3
    <3> HIDE DEF lost
    <3> QED
      BY <2>5, <2>7, <3>1, <3>2, ValuesOfOne
  <2>9. row.native \in Int
    BY <2>2, MissingInterest
  <2> QED
    BY <2>2, <2>8, <2>9, MissingInterest
<1>3. CASE NextBlock \/ VaultStep \/ Derive \/ Segment \/ \E e \in todo : Integrate(e) \/ Throw(e)
  <2>1. deriving' # "verified"
    BY <1>3 DEF NextBlock, VaultStep, Operate, Derive, Segment, Integrate, Throw, Reached
  <2> QED
    BY <2>1 DEF VerifiedMeansEarned
<1>4. CASE UNCHANGED windowVars
  BY <1>4 DEF windowVars, evidence, stored, VerifiedMeansEarned, EarnedYpo
<1> QED
  BY <1>1, <1>2, <1>3, <1>4 DEF WindowNext

\* No interval is verified with a wrong yield (reconcileSavingsYield).  One event
\* may be missing among the evidence; of two that are, an accrual and a
\* withdrawal of the same value, the balance at the end shows nothing.
THEOREM VerdictIsEarned == ASSUME MaxLost <= 1 PROVE WindowSpec => []VerifiedMeansEarned
<1>1. WindowInit => VerifiedMeansEarned
  BY DEF WindowInit, VerifiedMeansEarned
<1>2. WindowInv /\ VerifiedMeansEarned /\ [WindowNext]_windowVars => VerifiedMeansEarned'
  BY ParametersAssumption, EarnedNext
<1>3. WindowSpec => []WindowInv
  BY WindowInvariance
<1> QED
  BY <1>1, <1>2, <1>3, PTL DEF WindowSpec
-------------------------------------------------------------------------------
(* The integration as the chain has run: the locals of the loop behind each *)
(* event, when the events come in the order in which they were emitted.     *)

Prior(es, e) == {f \in es : EmittedBefore(f, e)}

\* What the locals are when the state of the vault is reached and A has accrued.
Settled(A) ==
  [actual |-> vault.actual, rate |-> vault.rate, last |-> vault.last,
   ypo |-> A - PendingYield(start.total, start.actual), predicted |-> A, emitted |-> A]

\* The locals t[S] behind the events S: every round is one that does not throw,
\* and the last one arrives at the state of the vault.
Trace(t) ==
  /\ t[{}] = StartFold(start)
  /\ \A e \in events :
       /\ t[Prior(events, e)].last \in Nat /\ t[Prior(events, e)].actual \in Nat
       /\ t[Prior(events, e)].last <= e.time
       /\ e.name = "Withdraw" => e.value <= t[Prior(events, e)].actual
       /\ t[Prior(events, e) \cup {e}] = Folded(t[Prior(events, e)], e)
  /\ t[events] = Settled(Values(events, "Accrued"))

\* The loop is where the trace is.
InStep(t) ==
  deriving = "segmented" /\ seen = events /\ DistinctTimes =>
    /\ fold = t[events \ todo]
    /\ \A f \in events \ todo, e \in todo : EmittedBefore(f, e)

History == \E t : Trace(t) /\ InStep(t)

\* Before the first event the trace has one entry.
LEMMA HistoryInit == ParametersOK /\ WindowInit => History
<1> SUFFICES ASSUME ParametersOK, WindowInit
             PROVE  History
  OBVIOUS
<1> DEFINE t == [S \in {{}} |-> StartFold(start)]
<1>1. events = {} /\ start = Snapshot(vault) /\ deriving = "vault" /\ t[{}] = StartFold(start)
  BY DEF WindowInit
<1>2. /\ start.actual = vault.actual /\ start.rate = vault.rate /\ start.last = vault.last
      /\ start.actual \in Nat /\ start.total \in Nat
  BY <1>1, WindowStarts DEF WindowInv, ClocksOK, Snapshot
<1>3. StartFold(start) = Settled(0)
  BY <1>2 DEF StartFold, Settled, PendingYield
<1>4. t[events] = Settled(Values(events, "Accrued"))
  BY <1>1, <1>3, ValuesNone
<1>5. Trace(t) /\ InStep(t)
  BY <1>1, <1>4 DEF Trace, InStep
<1> QED
  BY <1>5 DEF History

\* The two events of an operation extend the trace by two rounds.
LEMMA OperateHistory ==
  ASSUME ParametersOK, WindowInv, NEW name \in Operations, NEW value \in Nat, Operate(name, value),
         NEW t, Trace(t)
  PROVE  \E u : Trace(u)'
<1>1. /\ ClocksOK /\ EventsOK /\ Base \in Nat \ {0} /\ start' = start
      /\ \E a, b : OperatedBy(a, b)
  BY OperateIs DEF WindowInv, ParametersOK
<1>2. PICK a, b : OperatedBy(a, b)
  BY <1>1
<1>3. /\ a \notin events /\ b \notin events /\ a # b
      /\ \A f \in events : EmittedBefore(f, a) /\ EmittedBefore(f, b)
      /\ \A f \in events : ~ EmittedBefore(a, f) /\ ~ EmittedBefore(b, f)
      /\ EmittedBefore(a, b) /\ ~ EmittedBefore(b, a)
      /\ ~ EmittedBefore(a, a) /\ ~ EmittedBefore(b, b)
  BY <1>1, <1>2, OperatedOrder
<1>4. /\ a.time = vault.now /\ b.time = vault.now /\ a.name = "Accrued" /\ b.name \in Operations
      /\ a.value \in Nat /\ b.value \in Nat
      /\ a.value = UpdatedAssets(vault.actual, vault.rate, vault.now - vault.last) - vault.actual
      /\ b.name = "Withdraw" => b.value <= vault.actual + a.value
      /\ events' = events \cup {a, b}
      /\ vault' = [actual |-> vault.actual + a.value + Paid(b.name, b.value),
                   rate   |-> IF b.name = "RateUpdated" THEN b.value ELSE vault.rate,
                   last   |-> vault.now,
                   now    |-> vault.now]
  BY <1>2 DEF OperatedBy
<1> DEFINE g == Folded(t[events], a)
           h == Folded(g, b)
<1>0. PICK u : u = [S \in SUBSET events' |-> IF b \in S THEN h ELSE IF a \in S THEN g ELSE t[S]]
  OBVIOUS
<1>5. /\ u[{}] = t[{}] /\ u[events] = t[events] /\ u[events \cup {a}] = g /\ u[events'] = h
      /\ \A S \in SUBSET events : u[S] = t[S]
  BY <1>0, <1>3, <1>4
<1>6. \A e \in events : Prior(events', e) = Prior(events, e) /\ Prior(events, e) \in SUBSET events
  BY <1>3, <1>4 DEF Prior
<1>7. Prior(events', a) = events /\ Prior(events', b) = events \cup {a}
      /\ Prior(events', b) \cup {b} = events'
  BY <1>3, <1>4 DEF Prior
<1>8. PICK A \in Nat : A = Values(events, "Accrued")
  BY <1>1, EventsAmounted, ValuesNat
<1>9. PICK p \in Int : p = PendingYield(start.total, start.actual)
  BY <1>1 DEF PendingYield, ClocksOK
<1>10. /\ IsFold(t[events]) /\ t[events].actual = vault.actual /\ t[events].rate = vault.rate
       /\ t[events].last = vault.last /\ t[events].ypo = A - p
       /\ t[events].predicted = A /\ t[events].emitted = A
  BY <1>8, <1>9 DEF Trace, Settled, IsFold
<1>11. /\ IsFold(g) /\ g.actual = vault.actual + a.value /\ g.rate = vault.rate /\ g.last = vault.now
       /\ g.ypo = A - p + a.value /\ g.predicted = A + a.value /\ g.emitted = A + a.value
  BY <1>4, <1>10, FoldedIs DEF Names
<1> HIDE DEF g
<1>12. /\ IsFold(h) /\ h.actual = g.actual + Paid(b.name, b.value) /\ h.last = g.last
       /\ h.rate = (IF b.name = "RateUpdated" THEN b.value ELSE g.rate)
       /\ h.ypo = g.ypo /\ h.predicted = g.predicted /\ h.emitted = g.emitted
  <2>1. b.name \in Names /\ g.actual \in Int
    BY <1>1, <1>4, <1>11 DEF Names, Operations, ClocksOK
  <2>2. /\ IsFold(h) /\ h.last = g.last
        /\ h.rate = (IF b.name = "RateUpdated" THEN b.value ELSE g.rate)
        /\ h.ypo = g.ypo /\ h.predicted = g.predicted /\ h.emitted = g.emitted
        /\ h.actual = CASE b.name = "Withdraw" -> g.actual - b.value
                        [] b.name = "RateUpdated" -> g.actual
                        [] OTHER -> g.actual + b.value
    BY <1>4, <1>11, <2>1, FoldedIs DEF Operations
  <2> HIDE DEF h
  <2> QED
    BY <1>4, <2>1, <2>2 DEF Paid, Operations
<1> HIDE DEF h
<1>13. Values(events', "Accrued") = A + a.value
  <2>1. Amounted(events) /\ Amounted(events \cup {a}) /\ b \notin events \cup {a}
    <3>1. Amounted(events)
      BY <1>1, EventsAmounted
    <3> QED
      BY <3>1, <1>3, <1>4, FS_AddElement DEF Amounted
  <2>2. Values(events \cup {a}, "Accrued") = A + a.value
    BY <2>1, <1>3, <1>4, <1>8, ValuesAdd
  <2>3. Values((events \cup {a}) \cup {b}, "Accrued") = Values(events \cup {a}, "Accrued") + 0
    BY <2>1, <1>4, ValuesAdd DEF Operations
  <2>4. events' = (events \cup {a}) \cup {b}
    BY <1>4
  <2>5. Values(events', "Accrued") = Values((events \cup {a}) \cup {b}, "Accrued")
    BY <2>4
  <2> QED
    BY <1>4, <2>2, <2>3, <2>5
<1>14. u[events'] = (Settled(Values(events, "Accrued")))'
  <2>1. h = [actual |-> vault'.actual, rate |-> vault'.rate, last |-> vault'.last,
             ypo |-> (A + a.value) - p, predicted |-> A + a.value, emitted |-> A + a.value]
    <3>1. (A + a.value) - p = A - p + a.value
      BY <1>4
    <3> QED
      BY <1>4, <1>11, <1>12, <3>1 DEF IsFold
  <2> QED
    BY <2>1, <1>1, <1>5, <1>9, <1>13 DEF Settled
<1>15. ASSUME NEW e \in events'
       PROVE  /\ u[Prior(events', e)].last \in Nat /\ u[Prior(events', e)].actual \in Nat
              /\ u[Prior(events', e)].last <= e.time
              /\ e.name = "Withdraw" => e.value <= u[Prior(events', e)].actual
              /\ u[Prior(events', e) \cup {e}] = Folded(u[Prior(events', e)], e)
  <2>1. CASE e \in events
    <3>1. PICK P \in SUBSET events : P = Prior(events, e) /\ P = Prior(events', e)
      BY <1>6, <2>1
    <3>2. P \cup {e} \in SUBSET events
      BY <2>1
    <3>3. u[P] = t[P] /\ u[P \cup {e}] = t[P \cup {e}]
      BY <1>5, <3>2
    <3>4. /\ t[P].last \in Nat /\ t[P].actual \in Nat /\ t[P].last <= e.time
          /\ e.name = "Withdraw" => e.value <= t[P].actual
          /\ t[P \cup {e}] = Folded(t[P], e)
      BY <2>1, <3>1 DEF Trace
    <3> QED
      BY <3>1, <3>3, <3>4
  <2>2. CASE e = a
    <3>1. /\ u[events].last = vault.last /\ vault.last \in Nat /\ vault.last <= vault.now
          /\ u[events].actual = vault.actual /\ vault.actual \in Nat
      BY <1>1, <1>5, <1>10 DEF ClocksOK
    <3> QED
      BY <2>2, <3>1, <1>4, <1>5, <1>7 DEF g
  <2>3. CASE e = b
    <3>1. /\ u[Prior(events', b)] = g /\ u[Prior(events', b) \cup {b}] = h
          /\ vault.now \in Nat /\ vault.actual \in Nat
      BY <1>1, <1>5, <1>7 DEF ClocksOK
    <3> QED
      BY <2>3, <3>1, <1>4, <1>11 DEF h
  <2> QED
    BY <1>4, <2>1, <2>2, <2>3
<1>16. Trace(u)'
  BY <1>1, <1>5, <1>14, <1>15 DEF Trace, StartFold
<1> QED
  BY <1>16

\* Other steps leave the trace as it is.
LEMMA KeepsTrace ==
  ASSUME UNCHANGED <<events, start>>, NEW t, Trace(t),
         vault'.actual = vault.actual, vault'.rate = vault.rate, vault'.last = vault.last
  PROVE  Trace(t)'
<1>1. (Settled(Values(events, "Accrued")))' = Settled(Values(events, "Accrued"))
  BY DEF Settled
<1> QED
  BY <1>1 DEF Trace, StartFold

\* Where blocks differ in their timestamps, the order of the loop is the chain's.
LEMMA OrderIsEmission ==
  ASSUME WindowInv, DistinctTimes, NEW e \in events, NEW f \in events, Before(e, f)
  PROVE  EmittedBefore(e, f)
<1>1. /\ e.block \in Nat /\ f.block \in Nat /\ e.time \in Nat /\ f.time \in Nat
      /\ e.log \in Nat /\ f.log \in Nat
      /\ f.block < e.block => f.time <= e.time
      /\ e.block = f.block => e.time = f.time
  BY DEF WindowInv, EventsOK, EventTyped
<1>2. e.block # f.block => e.time # f.time
  BY DEF DistinctTimes
<1> QED
  BY <1>1, <1>2 DEF Before, EmittedBefore

\* The event the loop has reached is behind all it has integrated, and none else.
LEMMA ReachedPrior ==
  ASSUME WindowInv, NEW e \in todo, Reached(e), seen = events, DistinctTimes,
         \A f \in events \ todo : EmittedBefore(f, e)
  PROVE  /\ Prior(events, e) = events \ todo
         /\ \A f \in todo \ {e} : EmittedBefore(e, f)
<1>1. todo \subseteq events /\ \A f \in events : f.block \in Nat /\ f.log \in Nat
  BY DEF WindowInv, Reached, Folding, EventsOK, EventTyped
<1>2. \A f \in todo \ {e} : EmittedBefore(e, f)
  BY <1>1, OrderIsEmission DEF Reached
<1>3. \A f \in todo : ~ EmittedBefore(f, e)
  BY <1>1, <1>2 DEF EmittedBefore
<1> QED
  BY <1>1, <1>2, <1>3 DEF Prior

\* Every step keeps the trace and the loop on it.
LEMMA HistoryNext ==
  ASSUME ParametersOK, WindowInv, History, [WindowNext]_windowVars
  PROVE  History'
<1>1. PICK t : Trace(t) /\ InStep(t)
  BY DEF History
<1>2. CASE VaultStep
  <2>1. \E name \in Operations, value \in Nat : Operate(name, value)
    BY <1>2 DEF VaultStep, Operations, ParametersOK
  <2>2. (\E u : Trace(u)') /\ deriving' = "vault"
    BY <1>1, <2>1, OperateHistory DEF Operate
  <2> QED
    BY <2>2 DEF History, InStep
<1>3. CASE NextBlock
  <2>1. /\ vault'.actual = vault.actual /\ vault'.rate = vault.rate /\ vault'.last = vault.last
        /\ UNCHANGED <<events, start>> /\ deriving' = "vault"
    BY <1>3 DEF NextBlock, WindowInv, ClocksOK
  <2>2. Trace(t)'
    BY <1>1, <2>1, KeepsTrace
  <2> QED
    BY <2>1, <2>2 DEF History, InStep
<1>4. CASE Derive \/ ConstantRate \/ Judge \/ (\E e \in todo : Throw(e)) \/ UNCHANGED windowVars
  <2>1. UNCHANGED <<vault, events, start>>
    BY <1>4 DEF Derive, ConstantRate, Judge, Throw, windowVars, evidence
  <2>2. Trace(t)'
    BY <1>1, <2>1, KeepsTrace
  <2>3. InStep(t)'
    <3>1. CASE UNCHANGED windowVars
      BY <1>1, <3>1 DEF InStep, windowVars, evidence, stored, DistinctTimes
    <3>2. CASE ~ UNCHANGED windowVars
      <4>1. deriving' # "segmented"
        BY <1>4, <3>2 DEF Derive, ConstantRate, Judge, Throw
      <4> QED
        BY <4>1 DEF InStep
    <3> QED
      BY <3>1, <3>2
  <2> QED
    BY <2>2, <2>3 DEF History
<1>5. CASE Segment
  <2>1. /\ UNCHANGED <<vault, events, start, seen>> /\ todo' = seen /\ fold' = StartFold(start)
    BY <1>5 DEF Segment, evidence, stored
  <2>2. Trace(t)'
    BY <1>1, <2>1, KeepsTrace
  <2>3. InStep(t)'
    <3>1. seen' = events' => events' \ todo' = {}
      BY <2>1
    <3> QED
      BY <1>1, <2>1, <3>1 DEF InStep, Trace
  <2> QED
    BY <2>2, <2>3 DEF History
<1>6. CASE \E e \in todo : Integrate(e)
  <2>1. PICK e \in todo : Integrate(e)
    BY <1>6
  <2>2. /\ deriving = "segmented" /\ todo' = todo \ {e} /\ fold' = Folded(fold, e) /\ Reached(e)
        /\ UNCHANGED <<vault, events, start, seen>> /\ todo \subseteq seen /\ seen \subseteq events
    BY <2>1 DEF Integrate, Reached, evidence, stored, WindowInv, Folding, Derived
  <2>3. Trace(t)'
    BY <1>1, <2>2, KeepsTrace
  <2>4. InStep(t)'
    <3> SUFFICES ASSUME seen = events, DistinctTimes
                 PROVE  /\ fold' = t[events' \ todo']
                        /\ \A f \in events' \ todo', d \in todo' : EmittedBefore(f, d)
      BY <2>2 DEF InStep, DistinctTimes
    <3>1. fold = t[events \ todo] /\ \A f \in events \ todo, d \in todo : EmittedBefore(f, d)
      BY <1>1, <2>2 DEF InStep
    <3>2. Prior(events, e) = events \ todo /\ \A f \in todo \ {e} : EmittedBefore(e, f)
      BY <2>2, <3>1, ReachedPrior
    <3>3. events' \ todo' = (events \ todo) \cup {e}
      BY <2>2
    <3>4. t[(events \ todo) \cup {e}] = Folded(fold, e)
      BY <1>1, <2>2, <3>1, <3>2 DEF Trace
    <3>5. fold' = t[events' \ todo']
      BY <2>2, <3>3, <3>4
    <3> QED
      BY <2>2, <3>1, <3>2, <3>3, <3>5
  <2> QED
    BY <2>3, <2>4 DEF History
<1> QED
  BY <1>2, <1>3, <1>4, <1>5, <1>6 DEF WindowNext
-------------------------------------------------------------------------------
(* What the integration says of a true history. *)

\* The yield of the whole evidence is not negative.
LEMMA NativeNat ==
  ASSUME ParametersOK, WindowInv, NEW r, r = DerivedRow(start, Snapshot(vault), events)
  PROVE  r.native \in Nat
<1>1. ClocksOK /\ EventsOK /\ Accounts /\ Base \in Nat \ {0} /\ Amounted(events)
  BY EventsAmounted DEF WindowInv, ParametersOK
<1>2. PICK A, D, W \in Nat : /\ A = Values(events, "Accrued") /\ D = Values(events, "Deposit")
                             /\ W = Values(events, "Withdraw")
  BY <1>1, ValuesNat
<1>3. PICK total \in Nat :
        /\ total = UpdatedAssets(vault.actual, vault.rate, vault.now - vault.last)
        /\ Snapshot(vault).total = total /\ Snapshot(vault).actual = vault.actual
  BY <1>1, SnapshotIs DEF ClocksOK
<1>4. start.total \in Nat /\ start.actual \in Nat /\ vault.actual \in Nat
  BY <1>1 DEF ClocksOK
<1>5. start.total + D - W <= total /\ vault.actual = start.actual + A + D - W
  BY <1>1, <1>2, <1>3 DEF Accounts
<1>6. r.native = A + (total - vault.actual) - (start.total - start.actual)
  BY <1>2, <1>3 DEF DerivedRow, NativeYpo, PendingYield
<1> QED
  BY <1>4, <1>5, <1>6

\* Behind the last event the loop is where the vault is.
LEMMA LoopEnds ==
  ASSUME ParametersOK, WindowInv, History, deriving = "segmented", todo = {}, seen = events, DistinctTimes
  PROVE  StateExact /\ IntegratedYpo = row.native
<1>1. /\ ClocksOK /\ finish = Snapshot(vault) /\ Base \in Nat \ {0}
      /\ row = DerivedRow(start, finish, seen)
  BY DEF WindowInv, Derived, ParametersOK
<1>2. PICK t : Trace(t) /\ InStep(t)
  BY DEF History
<1>3. fold = Settled(Values(events, "Accrued"))
  <2>1. events \ todo = events
    OBVIOUS
  <2> QED
    BY <1>2, <2>1 DEF Trace, InStep
<1>4. PICK A \in Nat : A = Values(events, "Accrued")
  BY MissingInterest, ValuesNat
<1>5. /\ fold.actual = vault.actual /\ fold.rate = vault.rate /\ fold.last = vault.last
      /\ fold.ypo = A - (start.total - start.actual) /\ fold.emitted = A
  BY <1>3, <1>4 DEF Settled, PendingYield
<1>6. /\ finish.actual = vault.actual /\ finish.rate = vault.rate /\ finish.time = vault.now
      /\ finish.total = UpdatedAssets(vault.actual, vault.rate, vault.now - vault.last)
      /\ finish.total \in Nat /\ vault.actual \in Nat /\ start.total \in Nat /\ start.actual \in Nat
  BY <1>1, SnapshotIs DEF ClocksOK
<1>7. PredictedTotal = finish.total
  BY <1>5, <1>6 DEF PredictedTotal
<1>8. row.accrued = A /\ row.native = A + (finish.total - finish.actual) - (start.total - start.actual)
  BY <1>1, <1>4 DEF DerivedRow, NativeYpo, PendingYield
<1>9. IntegratedYpo = A - (start.total - start.actual) + (finish.total - vault.actual)
  BY <1>5, <1>7 DEF IntegratedYpo, PendingYield
<1> QED
  BY <1>4, <1>5, <1>6, <1>7, <1>8, <1>9 DEF StateExact

\* No round of it throws.
LEMMA NothingThrown ==
  ASSUME ParametersOK, WindowInv, History, seen = events, DistinctTimes, NEW e \in todo, Reached(e)
  PROVE  ~ OutOfOrder(e) /\ ~ Overdrawn(e)
<1>1. /\ ClocksOK /\ EventsOK /\ finish = Snapshot(vault) /\ deriving = "segmented" /\ e \in events
      /\ Base \in Nat \ {0}
  BY DEF WindowInv, Derived, Folding, Reached, ParametersOK
<1>2. PICK t : Trace(t) /\ InStep(t)
  BY DEF History
<1>3. fold = t[events \ todo] /\ \A f \in events \ todo : EmittedBefore(f, e)
  BY <1>1, <1>2 DEF InStep
<1>4. fold = t[Prior(events, e)]
  BY <1>3, ReachedPrior
<1>5. /\ fold.last \in Nat /\ fold.actual \in Nat /\ fold.last <= e.time
      /\ e.name = "Withdraw" => e.value <= fold.actual
  BY <1>1, <1>2, <1>4 DEF Trace
<1>6. start.time <= e.time /\ e.time <= finish.time
  BY <1>1, SnapshotIs DEF EventsOK, EventTyped, ClocksOK
<1>7. /\ e.time \in Nat /\ e.value \in Nat /\ start.time \in Nat /\ finish.time \in Nat
  BY <1>1, SnapshotIs DEF EventsOK, EventTyped, ClocksOK
<1> QED
  BY <1>5, <1>6, <1>7 DEF OutOfOrder, Overdrawn

\* A window in which nothing has moved is what the formula predicts.
LEMMA StableIsExact ==
  ASSUME ParametersOK, WindowInv, deriving # "vault", StableBasis
  PROVE  ConstantRateExact
<1>1. /\ ClocksOK /\ finish = Snapshot(vault) /\ Base \in Nat \ {0}
      /\ row = DerivedRow(start, finish, seen)
  BY DEF WindowInv, Derived, ParametersOK
<1>2. /\ finish.actual = vault.actual /\ finish.rate = vault.rate /\ finish.last = vault.last
      /\ finish.time = vault.now /\ finish.total \in Nat
      /\ finish.total = UpdatedAssets(vault.actual, vault.rate, vault.now - vault.last)
  BY <1>1, SnapshotIs DEF ClocksOK
<1>3. /\ start.last <= start.time /\ start.time <= vault.now
      /\ start.total = UpdatedAssets(start.actual, start.rate, start.time - start.last)
      /\ start.total \in Nat /\ start.actual \in Nat
  BY <1>1 DEF ClocksOK
<1>4. start.actual = finish.actual /\ row.accrued = 0
  BY DEF StableBasis
<1>5. row.native = 0 + (finish.total - finish.actual) - (start.total - start.actual)
  BY <1>1, <1>4 DEF DerivedRow, NativeYpo, PendingYield
<1>6. finish.total - start.total = row.native
  BY <1>2, <1>3, <1>4, <1>5
<1> QED
  BY <1>2, <1>3, <1>6 DEF ConstantRateExact

\* The two promises of a true history are kept by every step.
LEMMA TrueHistoryNext ==
  ASSUME ParametersOK, WindowInv, History, TrueHistoryVerified, [WindowNext]_windowVars
  PROVE  TrueHistoryVerified'
<1>1. SUFFICES ASSUME (seen = events)', DistinctTimes'
               PROVE  deriving' \notin {"failed", "invalid"}
  BY DEF TrueHistoryVerified
<1>2. CASE NextBlock \/ VaultStep \/ Segment \/ \E e \in todo : Integrate(e)
  <2>1. deriving' \in {"vault", "segmented"}
    BY <1>2 DEF NextBlock, VaultStep, Operate, Segment, Integrate, Reached
  <2> QED
    BY <2>1
<1>3. CASE Derive
  <2>1. /\ row' = DerivedRow(start, finish', seen') /\ finish' = Snapshot(vault) /\ events' = events
        /\ deriving' = IF row'.native < 0 THEN "failed" ELSE "constant"
    BY <1>3 DEF Derive, evidence
  <2>2. row' = DerivedRow(start, Snapshot(vault), events)
    BY <1>1, <2>1
  <2>3. row'.native \in Nat
    BY <2>2, NativeNat
  <2> QED
    BY <2>1, <2>3
<1>4. CASE ConstantRate
  BY <1>4, StableIsExact DEF ConstantRate
<1>5. CASE Judge
  <2>1. /\ deriving = "segmented" /\ todo = {} /\ UNCHANGED <<events, seen>>
        /\ deriving' = IF StateExact THEN "verified" ELSE "invalid"
    BY <1>5 DEF Judge, evidence, stored
  <2>2. seen = events /\ DistinctTimes
    BY <1>1, <2>1 DEF DistinctTimes
  <2> QED
    BY <2>1, <2>2, LoopEnds
<1>6. CASE \E e \in todo : Throw(e)
  <2>1. PICK e \in todo : Throw(e)
    BY <1>6
  <2>2. UNCHANGED <<events, seen>> /\ Reached(e)
    BY <2>1 DEF Throw, evidence, stored
  <2>3. seen = events /\ DistinctTimes
    BY <1>1, <2>2 DEF DistinctTimes
  <2> QED
    BY <2>1, <2>2, <2>3, NothingThrown DEF Throw
<1>7. CASE UNCHANGED windowVars
  BY <1>1, <1>7 DEF windowVars, evidence, stored, TrueHistoryVerified, DistinctTimes
<1> QED
  BY <1>2, <1>3, <1>4, <1>5, <1>6, <1>7 DEF WindowNext

LEMMA HistoryInvariance == WindowSpec => [](WindowInv /\ History)
<1>1. WindowInit => WindowInv /\ History
  BY ParametersAssumption, WindowStarts, HistoryInit
<1>2. WindowInv /\ History /\ [WindowNext]_windowVars => WindowInv' /\ History'
  BY ParametersAssumption, WindowKeeps, HistoryNext
<1> QED
  BY <1>1, <1>2, PTL DEF WindowSpec

\* A true history is recognised (reconcileSavingsYield): with all its events among
\* the evidence and blocks told apart by their timestamps, the loop throws at no
\* event and the verdict is not "invalid", whatever the vault has done.
THEOREM TrueHistoryIsVerified == WindowSpec => []TrueHistoryVerified
<1>1. WindowInit => TrueHistoryVerified
  BY DEF WindowInit, TrueHistoryVerified
<1>2. WindowInv /\ History /\ TrueHistoryVerified /\ [WindowNext]_windowVars => TrueHistoryVerified'
  BY ParametersAssumption, TrueHistoryNext
<1> QED
  BY <1>1, <1>2, HistoryInvariance, PTL DEF WindowSpec

\* And the yield that the loop arrives at is the stored one, to the last unit.
THEOREM TrueHistoryNoDelta == WindowSpec => []TrueHistoryHasNoDelta
<1>1. WindowInv /\ History => TrueHistoryHasNoDelta
  BY ParametersAssumption, LoopEnds DEF TrueHistoryHasNoDelta
<1> QED
  BY <1>1, HistoryInvariance, PTL
===============================================================================
