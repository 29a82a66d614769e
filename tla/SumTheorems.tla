----------------------------- MODULE SumTheorems -----------------------------
(***************************************************************************)
(* Sums over finite sets, for SumFunctionOnSet and SumFunction of module   *)
(* Functions.  The induction theorems of the library take a predicate, so  *)
(* these proofs go by a smallest counterexample instead: a finite set has  *)
(* no infinite chain of smaller and smaller subsets.                       *)
(***************************************************************************)
EXTENDS FiniteSetTheorems, TLAPS

LOCAL Pick(s) == CHOOSE x \in s : TRUE

\* A function that sums f over all subsets of S, as the fold does.
LOCAL Sums(it, f, S) ==
  it = [s \in SUBSET S |-> IF s = {} THEN 0 ELSE f[Pick(s)] + it[s \ {Pick(s)}]]

LOCAL Cut(it, T) == [s \in SUBSET T |-> it[s]]

-------------------------------------------------------------------------------
(* Induction over the subsets of a finite set. *)

LEMMA SmallestSubset ==
  ASSUME NEW S, IsFiniteSet(S), NEW Bad \in SUBSET (SUBSET S), Bad # {}
  PROVE  \E s \in Bad : \A t \in Bad : ~ (t \subseteq s /\ t # s)
<1>1. FiniteSubsetsOf(S) = SUBSET S
  BY FS_FiniteSubsetsOfFinite
<1>2. IsWellFoundedOn(StrictSubsetOrdering(S), SUBSET S)
  BY <1>1, FS_StrictSubsetOrderingWellFounded
<1>3. PICK s \in Bad : \A t \in Bad : ~ (<<t, s>> \in StrictSubsetOrdering(S))
  BY <1>2, WFMin
<1>4. ASSUME NEW t \in Bad, t \subseteq s, t # s
      PROVE  <<t, s>> \in StrictSubsetOrdering(S)
  BY <1>4 DEF StrictSubsetOrdering
<1>5. \A t \in Bad : ~ (t \subseteq s /\ t # s)
  BY <1>3, <1>4
<1> QED
  BY <1>5

-------------------------------------------------------------------------------
(* The fold is well defined. *)

LEMMA SumsApply ==
  ASSUME NEW it, NEW f, NEW S, Sums(it, f, S), NEW s \in SUBSET S
  PROVE  it[s] = IF s = {} THEN 0 ELSE f[Pick(s)] + it[s \ {Pick(s)}]
<1> DEFINE right == [t \in SUBSET S |-> IF t = {} THEN 0 ELSE f[Pick(t)] + it[t \ {Pick(t)}]]
<1>1. it = right
  BY DEF Sums
<1>2. right[s] = IF s = {} THEN 0 ELSE f[Pick(s)] + it[s \ {Pick(s)}]
  OBVIOUS
<1> HIDE DEF right
<1> QED
  BY <1>1, <1>2

LEMMA PickIn == \A s : s # {} => Pick(s) \in s
BY DEF Pick

LEMMA SumsUnique ==
  ASSUME NEW S, IsFiniteSet(S), NEW f, NEW g, NEW h, Sums(g, f, S), Sums(h, f, S)
  PROVE  g = h
<1> DEFINE Bad == {s \in SUBSET S : g[s] # h[s]}
<1>1. Bad = {}
  <2> SUFFICES ASSUME Bad # {}
               PROVE  FALSE
    OBVIOUS
  <2>1. PICK s \in Bad : \A t \in Bad : ~ (t \subseteq s /\ t # s)
    <3>1. Bad \in SUBSET (SUBSET S)
      OBVIOUS
    <3> HIDE DEF Bad
    <3> QED
      BY <3>1, SmallestSubset
  <2>2. s # {}
    BY SumsApply
  <2>3. s \ {Pick(s)} \notin Bad
    BY <2>1, <2>2, PickIn
  <2>4. g[s \ {Pick(s)}] = h[s \ {Pick(s)}]
    BY <2>3
  <2> QED
    BY <2>2, <2>4, SumsApply
<1>2. \A s \in SUBSET S : g[s] = h[s]
  BY <1>1
<1>3. /\ g = [s \in SUBSET S |-> g[s]]
      /\ h = [s \in SUBSET S |-> h[s]]
  BY DEF Sums
<1> QED
  BY <1>2, <1>3

LEMMA SumsRestrict ==
  ASSUME NEW S, NEW T \in SUBSET S, NEW f, NEW it, Sums(it, f, S)
  PROVE  Sums(Cut(it, T), f, T)
<1> DEFINE cut == Cut(it, T)
<1>1. ASSUME NEW s \in SUBSET T
      PROVE  cut[s] = IF s = {} THEN 0 ELSE f[Pick(s)] + cut[s \ {Pick(s)}]
  <2>1. it[s] = IF s = {} THEN 0 ELSE f[Pick(s)] + it[s \ {Pick(s)}]
    BY SumsApply
  <2>2. cut[s] = it[s] /\ cut[s \ {Pick(s)}] = it[s \ {Pick(s)}]
    BY DEF Cut
  <2> HIDE DEF cut
  <2> QED
    BY <2>1, <2>2
<1>2. cut = [s \in SUBSET T |-> cut[s]]
  BY DEF Cut
<1> HIDE DEF cut
<1>3. Sums(cut, f, T)
  BY <1>1, <1>2 DEF Sums
<1> QED
  BY <1>3 DEF cut

LEMMA SumsExist ==
  ASSUME NEW S, IsFiniteSet(S), NEW f
  PROVE  \E it : Sums(it, f, S)
<1> DEFINE Bad == {s \in SUBSET S : ~ \E it : Sums(it, f, s)}
           Below(s) == CHOOSE it : Sums(it, f, s)
<1>1. SUFFICES ASSUME S \in Bad
               PROVE  FALSE
  OBVIOUS
<1>2. PICK T \in Bad : \A t \in Bad : ~ (t \subseteq T /\ t # T)
  <2>1. Bad \in SUBSET (SUBSET S) /\ Bad # {}
    BY <1>1
  <2> HIDE DEF Bad
  <2> QED
    BY <2>1, SmallestSubset
<1>3. ASSUME NEW t \in SUBSET T, t # T
      PROVE  Sums(Below(t), f, t)
  <2>1. \E it : Sums(it, f, t)
    BY <1>2, <1>3
  <2> QED
    BY <2>1
<1> HIDE DEF Below
<1>4. ASSUME NEW t \in SUBSET T, t # T, NEW u \in SUBSET t
      PROVE  Below(t)[u] = Below(u)[u]
  <2>1. u \in SUBSET T /\ u # T
    BY <1>4
  <2>2. Sums(Below(t), f, t) /\ Sums(Below(u), f, u)
    BY <1>3, <1>4, <2>1
  <2>3. Sums(Cut(Below(t), u), f, u)
    BY <2>2, SumsRestrict
  <2>4. IsFiniteSet(u)
    BY <1>2, FS_Subset
  <2>5. Cut(Below(t), u) = Below(u)
    BY <2>2, <2>3, <2>4, SumsUnique
  <2> QED
    BY <2>5 DEF Cut
<1> DEFINE value(s) == IF s = T THEN (IF s = {} THEN 0 ELSE f[Pick(s)] + Below(s \ {Pick(s)})[s \ {Pick(s)}])
                       ELSE Below(s)[s]
           all == [s \in SUBSET T |-> value(s)]
<1>5. ASSUME NEW s \in SUBSET T
      PROVE  all[s] = IF s = {} THEN 0 ELSE f[Pick(s)] + all[s \ {Pick(s)}]
  <2>1. CASE s = {} /\ s # T
    BY <1>3, <2>1, SumsApply
  <2>2. CASE s = {} /\ s = T
    BY <2>2
  <2>3. CASE s # {}
    <3> DEFINE rest == s \ {Pick(s)}
    <3>1. rest \in SUBSET s /\ rest # T /\ rest \in SUBSET T
      BY <2>3, PickIn
    <3>2. all[rest] = Below(rest)[rest]
      BY <3>1
    <3>3. CASE s = T
      BY <2>3, <3>2, <3>3
    <3>4. CASE s # T
      <4>1. all[s] = Below(s)[s]
        BY <3>4
      <4>2. Sums(Below(s), f, s)
        BY <1>3, <3>4
      <4>3. Below(s)[s] = f[Pick(s)] + Below(s)[rest]
        BY <2>3, <4>2, SumsApply
      <4>4. Below(s)[rest] = Below(rest)[rest]
        BY <1>4, <3>1, <3>4
      <4> QED
        BY <2>3, <3>2, <4>1, <4>3, <4>4
    <3> QED
      BY <3>3, <3>4
  <2> QED
    BY <2>1, <2>2, <2>3
<1>6. Sums(all, f, T)
  BY <1>5 DEF Sums
<1> QED
  BY <1>2, <1>6

LEMMA SumIsFold ==
  ASSUME NEW f, NEW S
  PROVE  SumFunctionOnSet(f, S) = (CHOOSE it : Sums(it, f, S))[S]
BY DEF SumFunctionOnSet, FoldFunctionOnSet, MapThenFoldSet, Sums, Pick

LEMMA FoldSums ==
  ASSUME NEW f, NEW S, IsFiniteSet(S)
  PROVE  LET all == CHOOSE it : Sums(it, f, S)
         IN  Sums(all, f, S) /\ \A s \in SUBSET S : all[s] = SumFunctionOnSet(f, s)
<1> DEFINE all == CHOOSE it : Sums(it, f, S)
           below(s) == CHOOSE it : Sums(it, f, s)
<1>1. Sums(all, f, S)
  BY SumsExist
<1> HIDE DEF all
<1>2. ASSUME NEW s \in SUBSET S
      PROVE  all[s] = SumFunctionOnSet(f, s)
  <2>1. IsFiniteSet(s)
    BY FS_Subset
  <2>2. Sums(below(s), f, s)
    BY <2>1, SumsExist
  <2> HIDE DEF below
  <2>3. Cut(all, s) = below(s)
    BY <1>1, <2>1, <2>2, SumsRestrict, SumsUnique
  <2>4. all[s] = below(s)[s]
    BY <2>3 DEF Cut
  <2> QED
    BY <2>4, SumIsFold DEF below
<1> QED
  BY <1>1, <1>2 DEF all

\* The equation of the fold.
LEMMA SumEquation ==
  ASSUME NEW f, NEW S, IsFiniteSet(S)
  PROVE  SumFunctionOnSet(f, S) =
           IF S = {} THEN 0 ELSE f[Pick(S)] + SumFunctionOnSet(f, S \ {Pick(S)})
<1> DEFINE all == CHOOSE it : Sums(it, f, S)
<1>1. Sums(all, f, S) /\ \A s \in SUBSET S : all[s] = SumFunctionOnSet(f, s)
  BY FoldSums
<1> HIDE DEF all
<1>2. all[S] = IF S = {} THEN 0 ELSE f[Pick(S)] + all[S \ {Pick(S)}]
  BY <1>1, SumsApply
<1>3. S \in SUBSET S /\ S \ {Pick(S)} \in SUBSET S
  OBVIOUS
<1> QED
  BY <1>1, <1>2, <1>3

-------------------------------------------------------------------------------
(* What sums of integers are. *)

LEMMA SumOfNone == \A f : SumFunctionOnSet(f, {}) = 0
BY SumEquation, FS_EmptySet

LEMMA SumInt ==
  ASSUME NEW S, IsFiniteSet(S), NEW f, \A x \in S : f[x] \in Int
  PROVE  SumFunctionOnSet(f, S) \in Int
<1> DEFINE Bad == {s \in SUBSET S : SumFunctionOnSet(f, s) \notin Int}
<1>1. SUFFICES ASSUME Bad # {}
               PROVE  FALSE
  OBVIOUS
<1>2. PICK s \in Bad : \A t \in Bad : ~ (t \subseteq s /\ t # s)
  <2>1. Bad \in SUBSET (SUBSET S)
    OBVIOUS
  <2> HIDE DEF Bad
  <2> QED
    BY <1>1, <2>1, SmallestSubset
<1>3. IsFiniteSet(s)
  BY FS_Subset
<1>4. s # {} /\ SumFunctionOnSet(f, s) = f[Pick(s)] + SumFunctionOnSet(f, s \ {Pick(s)})
  BY <1>3, SumEquation
<1>5. Pick(s) \in s /\ s \ {Pick(s)} \notin Bad
  BY <1>2, <1>4, PickIn
<1> QED
  BY <1>4, <1>5

\* Any element may be taken out.
LEMMA SumRemove ==
  ASSUME NEW S, IsFiniteSet(S), NEW f, \A y \in S : f[y] \in Int, NEW x \in S
  PROVE  SumFunctionOnSet(f, S) = f[x] + SumFunctionOnSet(f, S \ {x})
<1> DEFINE Bad == {s \in SUBSET S : \E e \in s :
                     SumFunctionOnSet(f, s) # f[e] + SumFunctionOnSet(f, s \ {e})}
<1>1. SUFFICES ASSUME Bad # {}
               PROVE  FALSE
  OBVIOUS
<1>2. PICK s \in Bad : \A t \in Bad : ~ (t \subseteq s /\ t # s)
  <2>1. Bad \in SUBSET (SUBSET S)
    OBVIOUS
  <2> HIDE DEF Bad
  <2> QED
    BY <1>1, <2>1, SmallestSubset
<1>3. PICK e \in s : SumFunctionOnSet(f, s) # f[e] + SumFunctionOnSet(f, s \ {e})
  OBVIOUS
<1> DEFINE p == Pick(s)
<1>4. IsFiniteSet(s) /\ IsFiniteSet(s \ {p}) /\ IsFiniteSet((s \ {p}) \ {e})
  BY FS_Subset
<1>5. p \in s /\ SumFunctionOnSet(f, s) = f[p] + SumFunctionOnSet(f, s \ {p})
  BY <1>3, <1>4, SumEquation, PickIn
<1>6. e # p
  BY <1>3, <1>5
<1>7. SumFunctionOnSet(f, s \ {p}) = f[e] + SumFunctionOnSet(f, (s \ {p}) \ {e})
  <2>1. s \ {p} \notin Bad /\ s \ {p} \in SUBSET S /\ e \in s \ {p}
    BY <1>2, <1>5, <1>6
  <2> QED
    BY <2>1
<1>8. SumFunctionOnSet(f, s \ {e}) = f[p] + SumFunctionOnSet(f, (s \ {p}) \ {e})
  <2>1. s \ {e} \notin Bad /\ s \ {e} \in SUBSET S /\ p \in s \ {e}
    BY <1>2, <1>3, <1>5, <1>6
  <2>2. SumFunctionOnSet(f, s \ {e}) = f[p] + SumFunctionOnSet(f, (s \ {e}) \ {p})
    BY <2>1
  <2>3. (s \ {e}) \ {p} = (s \ {p}) \ {e}
    OBVIOUS
  <2> QED
    BY <2>2, <2>3
<1>9. f[e] \in Int /\ f[p] \in Int /\ SumFunctionOnSet(f, (s \ {p}) \ {e}) \in Int
  BY <1>4, <1>5, SumInt
<1> HIDE DEF p, Bad
<1> QED
  BY <1>3, <1>5, <1>7, <1>8, <1>9

LEMMA SumAdd ==
  ASSUME NEW S, IsFiniteSet(S), NEW x, x \notin S, NEW f, \A y \in S \cup {x} : f[y] \in Int
  PROVE  SumFunctionOnSet(f, S \cup {x}) = f[x] + SumFunctionOnSet(f, S)
<1>1. IsFiniteSet(S \cup {x}) /\ (S \cup {x}) \ {x} = S
  BY FS_AddElement
<1> QED
  BY <1>1, SumRemove

LEMMA SumOfOne ==
  ASSUME NEW f, NEW x, f[x] \in Int
  PROVE  SumFunctionOnSet(f, {x}) = f[x]
<1>1. SumFunctionOnSet(f, {} \cup {x}) = f[x] + SumFunctionOnSet(f, {})
  BY SumAdd, FS_EmptySet
<1>2. {} \cup {x} = {x}
  OBVIOUS
<1> QED
  BY <1>1, <1>2, SumOfNone

\* A sum depends on the values in its set only.
LEMMA SumSame ==
  ASSUME NEW S, IsFiniteSet(S), NEW f, NEW g,
         \A x \in S : f[x] \in Int /\ f[x] = g[x]
  PROVE  SumFunctionOnSet(f, S) = SumFunctionOnSet(g, S)
<1> DEFINE Bad == {s \in SUBSET S : SumFunctionOnSet(f, s) # SumFunctionOnSet(g, s)}
<1>1. SUFFICES ASSUME Bad # {}
               PROVE  FALSE
  OBVIOUS
<1>2. PICK s \in Bad : \A t \in Bad : ~ (t \subseteq s /\ t # s)
  <2>1. Bad \in SUBSET (SUBSET S)
    OBVIOUS
  <2> HIDE DEF Bad
  <2> QED
    BY <1>1, <2>1, SmallestSubset
<1>3. IsFiniteSet(s)
  BY FS_Subset
<1>4. /\ s # {}
      /\ SumFunctionOnSet(f, s) = f[Pick(s)] + SumFunctionOnSet(f, s \ {Pick(s)})
      /\ SumFunctionOnSet(g, s) = g[Pick(s)] + SumFunctionOnSet(g, s \ {Pick(s)})
  BY <1>3, SumEquation
<1>5. Pick(s) \in s /\ s \ {Pick(s)} \notin Bad
  BY <1>2, <1>4, PickIn
<1> QED
  BY <1>4, <1>5

LEMMA SumNat ==
  ASSUME NEW S, IsFiniteSet(S), NEW f, \A x \in S : f[x] \in Nat
  PROVE  /\ SumFunctionOnSet(f, S) \in Nat
         /\ SumFunctionOnSet(f, S) = 0 <=> \A x \in S : f[x] = 0
<1> DEFINE Right(s) == /\ SumFunctionOnSet(f, s) \in Nat
                       /\ SumFunctionOnSet(f, s) = 0 <=> \A x \in s : f[x] = 0
           Bad == {s \in SUBSET S : ~ Right(s)}
<1>1. SUFFICES ASSUME Bad # {}
               PROVE  FALSE
  OBVIOUS
<1>2. PICK s \in Bad : \A t \in Bad : ~ (t \subseteq s /\ t # s)
  <2>1. Bad \in SUBSET (SUBSET S)
    OBVIOUS
  <2> HIDE DEF Bad
  <2> QED
    BY <1>1, <2>1, SmallestSubset
<1>3. IsFiniteSet(s)
  BY FS_Subset
<1>4. s # {} /\ SumFunctionOnSet(f, s) = f[Pick(s)] + SumFunctionOnSet(f, s \ {Pick(s)})
  BY <1>3, SumEquation, SumOfNone
<1>5. Pick(s) \in s /\ Right(s \ {Pick(s)})
  BY <1>2, <1>4, PickIn
<1> QED
  BY <1>4, <1>5

LEMMA SumUnion ==
  ASSUME NEW S, IsFiniteSet(S), NEW T, IsFiniteSet(T), S \cap T = {},
         NEW f, \A x \in S \cup T : f[x] \in Int
  PROVE  SumFunctionOnSet(f, S \cup T) = SumFunctionOnSet(f, S) + SumFunctionOnSet(f, T)
<1> DEFINE Bad == {s \in SUBSET T : SumFunctionOnSet(f, S \cup s)
                                      # SumFunctionOnSet(f, S) + SumFunctionOnSet(f, s)}
<1>1. SUFFICES ASSUME Bad # {}
               PROVE  FALSE
  OBVIOUS
<1>2. PICK s \in Bad : \A t \in Bad : ~ (t \subseteq s /\ t # s)
  <2>1. Bad \in SUBSET (SUBSET T)
    OBVIOUS
  <2> HIDE DEF Bad
  <2> QED
    BY <1>1, <2>1, SmallestSubset
<1>3. IsFiniteSet(s) /\ IsFiniteSet(S \cup s)
  BY FS_Subset, FS_Union
<1>4. SumFunctionOnSet(f, S) \in Int
  BY SumInt
<1>5. s # {}
  <2> SUFFICES ASSUME s = {}
               PROVE  FALSE
    OBVIOUS
  <2>1. S \cup s = S
    OBVIOUS
  <2>2. SumFunctionOnSet(f, S \cup s) = SumFunctionOnSet(f, S)
    BY <2>1
  <2>3. SumFunctionOnSet(f, s) = 0
    BY SumOfNone
  <2> QED
    BY <1>4, <2>2, <2>3
<1>6. PICK x \in s : TRUE
  BY <1>5
<1>7. SumFunctionOnSet(f, s) = f[x] + SumFunctionOnSet(f, s \ {x})
  BY <1>3, SumRemove
<1>8. SumFunctionOnSet(f, S \cup s) = f[x] + SumFunctionOnSet(f, S \cup (s \ {x}))
  <2>1. (S \cup s) \ {x} = S \cup (s \ {x})
    OBVIOUS
  <2>2. SumFunctionOnSet(f, S \cup s) = f[x] + SumFunctionOnSet(f, (S \cup s) \ {x})
    BY <1>3, SumRemove
  <2> QED
    BY <2>1, <2>2
<1>9. SumFunctionOnSet(f, S \cup (s \ {x})) = SumFunctionOnSet(f, S) + SumFunctionOnSet(f, s \ {x})
  BY <1>2
<1>10. f[x] \in Int /\ SumFunctionOnSet(f, s \ {x}) \in Int
  <2>1. IsFiniteSet(s \ {x})
    BY FS_Subset
  <2> QED
    BY <2>1, SumInt
<1> HIDE DEF Bad
<1>11. SumFunctionOnSet(f, S \cup s) # SumFunctionOnSet(f, S) + SumFunctionOnSet(f, s)
  BY DEF Bad
<1> QED
  BY <1>4, <1>7, <1>8, <1>9, <1>10, <1>11

\* A part of the set has no larger sum.
LEMMA SumOfPart ==
  ASSUME NEW S, IsFiniteSet(S), NEW T \in SUBSET S, NEW f, \A x \in S : f[x] \in Nat
  PROVE  SumFunctionOnSet(f, T) <= SumFunctionOnSet(f, S)
<1>1. IsFiniteSet(T) /\ IsFiniteSet(S \ T) /\ T \cap (S \ T) = {} /\ T \cup (S \ T) = S
  BY FS_Subset
<1>2. SumFunctionOnSet(f, T \cup (S \ T)) = SumFunctionOnSet(f, T) + SumFunctionOnSet(f, S \ T)
  BY <1>1, SumUnion
<1>3. SumFunctionOnSet(f, T) \in Nat /\ SumFunctionOnSet(f, S \ T) \in Nat
  <2>1. (\A x \in T : f[x] \in Nat) /\ (\A x \in S \ T : f[x] \in Nat)
    OBVIOUS
  <2> QED
    BY <1>1, <2>1, SumNat
<1>4. T \cup (S \ T) = S
  OBVIOUS
<1>5. SumFunctionOnSet(f, T \cup (S \ T)) = SumFunctionOnSet(f, S)
  BY <1>4
<1> QED
  BY <1>2, <1>3, <1>5

\* The sum of differences is the difference of the sums.
LEMMA SumDifference ==
  ASSUME NEW S, IsFiniteSet(S), NEW f, NEW g, NEW d,
         \A x \in S : f[x] \in Int /\ g[x] \in Int /\ d[x] = f[x] - g[x]
  PROVE  SumFunctionOnSet(d, S) = SumFunctionOnSet(f, S) - SumFunctionOnSet(g, S)
<1> DEFINE Bad == {s \in SUBSET S : SumFunctionOnSet(d, s)
                                      # SumFunctionOnSet(f, s) - SumFunctionOnSet(g, s)}
<1>1. SUFFICES ASSUME Bad # {}
               PROVE  FALSE
  OBVIOUS
<1>2. PICK s \in Bad : \A t \in Bad : ~ (t \subseteq s /\ t # s)
  <2>1. Bad \in SUBSET (SUBSET S)
    OBVIOUS
  <2> HIDE DEF Bad
  <2> QED
    BY <1>1, <2>1, SmallestSubset
<1>3. IsFiniteSet(s) /\ s \subseteq S
  BY FS_Subset
<1>4. s # {}
  BY SumOfNone
<1>5. PICK x \in s : TRUE
  BY <1>4
<1>6. s \ {x} \notin Bad /\ s \ {x} \in SUBSET S
  BY <1>2, <1>3, <1>5
<1>7. SumFunctionOnSet(d, s \ {x})
        = SumFunctionOnSet(f, s \ {x}) - SumFunctionOnSet(g, s \ {x})
  BY <1>6
<1>8. IsFiniteSet(s \ {x})
  BY <1>3, FS_Subset
<1>9. /\ \A y \in S : d[y] \in Int
      /\ SumFunctionOnSet(f, s \ {x}) \in Int /\ SumFunctionOnSet(g, s \ {x}) \in Int
  BY <1>3, <1>8, SumInt
<1>10. /\ SumFunctionOnSet(d, s) = d[x] + SumFunctionOnSet(d, s \ {x})
       /\ SumFunctionOnSet(f, s) = f[x] + SumFunctionOnSet(f, s \ {x})
       /\ SumFunctionOnSet(g, s) = g[x] + SumFunctionOnSet(g, s \ {x})
  BY <1>3, <1>9, SumRemove
<1>11. d[x] = f[x] - g[x] /\ f[x] \in Int /\ g[x] \in Int
  BY <1>3
<1>12. SumFunctionOnSet(d, s) = SumFunctionOnSet(f, s) - SumFunctionOnSet(g, s)
  BY <1>7, <1>9, <1>10, <1>11
<1> QED
  BY <1>12

\* Sums of groups make the sum of all.
LEMMA SumOfGroups ==
  ASSUME NEW K, IsFiniteSet(K), NEW part, NEW f, NEW g,
         \A k \in K : /\ IsFiniteSet(part[k]) /\ g[k] = SumFunctionOnSet(f, part[k])
                      /\ \A x \in part[k] : f[x] \in Int,
         \A j, k \in K : j # k => part[j] \cap part[k] = {}
  PROVE  SumFunctionOnSet(g, K) = SumFunctionOnSet(f, UNION {part[k] : k \in K})
<1> DEFINE all(s) == UNION {part[k] : k \in s}
           Bad == {s \in SUBSET K : SumFunctionOnSet(g, s) # SumFunctionOnSet(f, all(s))}
<1>1. SUFFICES ASSUME Bad # {}
               PROVE  FALSE
  OBVIOUS
<1>2. PICK s \in Bad : \A t \in Bad : ~ (t \subseteq s /\ t # s)
  <2>1. Bad \in SUBSET (SUBSET K)
    OBVIOUS
  <2> HIDE DEF Bad
  <2> QED
    BY <1>1, <2>1, SmallestSubset
<1>3. IsFiniteSet(s)
  BY FS_Subset
<1>4. s # {}
  <2>1. all({}) = {}
    OBVIOUS
  <2> QED
    BY <2>1, SumOfNone
<1>5. PICK k \in s : TRUE
  BY <1>4
<1>6. SumFunctionOnSet(g, s) = g[k] + SumFunctionOnSet(g, s \ {k})
  <2>1. \A j \in s : g[j] \in Int
    BY SumInt
  <2> QED
    BY <1>3, <2>1, SumRemove
<1>7. SumFunctionOnSet(g, s \ {k}) = SumFunctionOnSet(f, all(s \ {k}))
  BY <1>2
<1>8. SumFunctionOnSet(f, all(s)) = SumFunctionOnSet(f, part[k]) + SumFunctionOnSet(f, all(s \ {k}))
  <2>1. part[k] \cup all(s \ {k}) = all(s) /\ part[k] \cap all(s \ {k}) = {}
    OBVIOUS
  <2>2. IsFiniteSet(all(s \ {k}))
    <3> DEFINE parts == {part[j] : j \in s \ {k}}
    <3>1. IsFiniteSet(s \ {k})
      BY FS_Subset
    <3>2. IsFiniteSet(parts)
      <4> DEFINE h == [j \in s \ {k} |-> part[j]]
      <4>1. h \in Surjection(s \ {k}, parts)
        BY DEF Surjection
      <4> QED
        BY <3>1, <4>1, FS_Surjection
    <3>3. \A T \in parts : IsFiniteSet(T)
      OBVIOUS
    <3> HIDE DEF parts
    <3>4. IsFiniteSet(UNION parts)
      BY <3>2, <3>3, FS_UNION
    <3> QED
      BY <3>4 DEF parts
  <2>3. \A x \in part[k] \cup all(s \ {k}) : f[x] \in Int
    OBVIOUS
  <2>4. IsFiniteSet(part[k])
    OBVIOUS
  <2> HIDE DEF all
  <2>5. SumFunctionOnSet(f, part[k] \cup all(s \ {k}))
          = SumFunctionOnSet(f, part[k]) + SumFunctionOnSet(f, all(s \ {k}))
    BY <2>1, <2>2, <2>3, <2>4, SumUnion
  <2> QED
    BY <2>1, <2>5
<1>9. g[k] = SumFunctionOnSet(f, part[k])
  OBVIOUS
<1>10. SumFunctionOnSet(g, s) # SumFunctionOnSet(f, all(s))
  OBVIOUS
<1> HIDE DEF all, Bad
<1> QED
  BY <1>6, <1>7, <1>8, <1>9, <1>10
-------------------------------------------------------------------------------
(* Sums of the field `value` of a set of records: transfers and vault events. *)

ValueSum(S) == SumFunction([e \in S |-> e.value])
ValueOf(U)  == [e \in U |-> e.value]

LEMMA ValueSumOn ==
  ASSUME NEW U, NEW S \in SUBSET U, IsFiniteSet(S), \A e \in S : e.value \in Int
  PROVE  ValueSum(S) = SumFunctionOnSet(ValueOf(U), S)
<1>1. ValueSum(S) = SumFunctionOnSet(ValueOf(S), S)
  BY DEF ValueSum, SumFunction, ValueOf
<1>2. \A e \in S : ValueOf(S)[e] \in Int /\ ValueOf(S)[e] = ValueOf(U)[e]
  BY DEF ValueOf
<1>3. SumFunctionOnSet(ValueOf(S), S) = SumFunctionOnSet(ValueOf(U), S)
  BY <1>2, SumSame
<1> QED
  BY <1>1, <1>3

LEMMA ValueSumNone == ValueSum({}) = 0
<1>1. ValueSum({}) = SumFunctionOnSet(ValueOf({}), {})
  BY DEF ValueSum, SumFunction, ValueOf
<1> QED
  BY <1>1, SumOfNone

LEMMA ValueSumInt ==
  ASSUME NEW S, IsFiniteSet(S), \A e \in S : e.value \in Int
  PROVE  ValueSum(S) \in Int
<1>1. ValueSum(S) = SumFunctionOnSet(ValueOf(S), S)
  BY ValueSumOn
<1>2. \A e \in S : ValueOf(S)[e] \in Int
  BY DEF ValueOf
<1> QED
  BY <1>1, <1>2, SumInt

\* A sum of amounts that are not negative; it is zero if every one of them is.
LEMMA ValueSumNat ==
  ASSUME NEW S, IsFiniteSet(S), \A e \in S : e.value \in Nat
  PROVE  ValueSum(S) \in Nat /\ (ValueSum(S) = 0 <=> \A e \in S : e.value = 0)
<1>1. ValueSum(S) = SumFunctionOnSet(ValueOf(S), S)
  BY ValueSumOn
<1>2. \A e \in S : ValueOf(S)[e] = e.value
  BY DEF ValueOf
<1>3. \A e \in S : ValueOf(S)[e] \in Nat
  BY <1>2
<1>4. /\ SumFunctionOnSet(ValueOf(S), S) \in Nat
      /\ SumFunctionOnSet(ValueOf(S), S) = 0 <=> \A e \in S : ValueOf(S)[e] = 0
  BY <1>3, SumNat
<1> QED
  BY <1>1, <1>2, <1>4

LEMMA ValueSumAdd ==
  ASSUME NEW S, IsFiniteSet(S), NEW x, x \notin S, \A e \in S \cup {x} : e.value \in Int
  PROVE  ValueSum(S \cup {x}) = ValueSum(S) + x.value
<1> DEFINE U == S \cup {x}
<1>1. IsFiniteSet(U) /\ U \in SUBSET U /\ S \in SUBSET U
  BY FS_AddElement
<1>2. \A e \in U : ValueOf(U)[e] = e.value
  BY DEF ValueOf
<1> HIDE DEF U
<1>3. ValueSum(U) = SumFunctionOnSet(ValueOf(U), U)
  BY <1>1, ValueSumOn DEF U
<1>4. ValueSum(S) = SumFunctionOnSet(ValueOf(U), S)
  BY <1>1, ValueSumOn DEF U
<1>5. SumFunctionOnSet(ValueOf(U), S \cup {x}) = ValueOf(U)[x] + SumFunctionOnSet(ValueOf(U), S)
  <2>1. \A y \in S \cup {x} : ValueOf(U)[y] \in Int
    BY <1>2 DEF U
  <2> QED
    BY <2>1, SumAdd
<1>6. SumFunctionOnSet(ValueOf(U), U) = x.value + SumFunctionOnSet(ValueOf(U), S)
  BY <1>5, <1>2 DEF U
<1>7. ValueSum(S) \in Int
  BY ValueSumInt
<1>8. ValueSum(U) = x.value + ValueSum(S)
  BY <1>3, <1>4, <1>6
<1> QED
  BY <1>7, <1>8 DEF U

LEMMA ValueSumUnion ==
  ASSUME NEW S, IsFiniteSet(S), NEW T, IsFiniteSet(T), S \cap T = {},
         \A e \in S \cup T : e.value \in Int
  PROVE  ValueSum(S \cup T) = ValueSum(S) + ValueSum(T)
<1> DEFINE U == S \cup T
<1>1. IsFiniteSet(U) /\ U \in SUBSET U /\ S \in SUBSET U /\ T \in SUBSET U
  BY FS_Union
<1>2. \A e \in U : ValueOf(U)[e] \in Int
  BY DEF ValueOf
<1> HIDE DEF U
<1>3. ValueSum(U) = SumFunctionOnSet(ValueOf(U), U)
  BY <1>1, ValueSumOn DEF U
<1>4. ValueSum(S) = SumFunctionOnSet(ValueOf(U), S) /\ ValueSum(T) = SumFunctionOnSet(ValueOf(U), T)
  BY <1>1, ValueSumOn DEF U
<1>5. SumFunctionOnSet(ValueOf(U), S \cup T)
        = SumFunctionOnSet(ValueOf(U), S) + SumFunctionOnSet(ValueOf(U), T)
  BY <1>2, SumUnion DEF U
<1> QED
  BY <1>3, <1>4, <1>5 DEF U

LEMMA ValueSumRemove ==
  ASSUME NEW S, IsFiniteSet(S), NEW x \in S, \A e \in S : e.value \in Int
  PROVE  ValueSum(S) = ValueSum(S \ {x}) + x.value
<1>1. IsFiniteSet(S \ {x}) /\ x \notin S \ {x} /\ (S \ {x}) \cup {x} = S
  BY FS_RemoveElement
<1> QED
  BY <1>1, ValueSumAdd
==============================================================================
