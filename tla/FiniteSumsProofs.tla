-------------------------- MODULE FiniteSumsProofs ----------------------------
(***************************************************************************)
(* What the proofs about the two ledgers need to know of SumOver.  The     *)
(* library's sum is a recursive function on the subsets of its argument;   *)
(* an induction over finite sets is, in first-order form, a smallest       *)
(* counterexample, so each lemma below looks at a smallest set for which   *)
(* it would fail.                                                          *)
(***************************************************************************)
EXTENDS FiniteSums, FiniteSetTheorems, WellFoundedInduction, TLAPS

\* The element that the library's recursion takes off a set.
Pick(S) == CHOOSE x \in S : TRUE

Adds(f, g, s) == IF s = {} THEN 0 ELSE f[Pick(s)] + g[s \ {Pick(s)}]

\* g tells the sum of f over every subset of S.
IsSum(f, g, S) == g = [s \in SUBSET S |-> Adds(f, g, s)]

TheSum(f, S) == CHOOSE g : IsSum(f, g, S)

-------------------------------------------------------------------------------
\* The definition of the library, in those words.
LEMMA SumUnfolds ==
    ASSUME NEW f, NEW S
    PROVE  SumOver(f, S) = TheSum(f, S)[S]
BY DEF SumOver, MapThenSumSet, MapThenFoldSet, TheSum, IsSum, Adds, Pick

\* A non-empty set holds the element that is picked.
LEMMA PickIsElement ==
    ASSUME NEW S, S # {}
    PROVE  Pick(S) \in S
BY DEF Pick

\* A non-empty collection of subsets of a finite set has a smallest member.
LEMMA SmallestSubset ==
    ASSUME NEW S, IsFiniteSet(S), NEW B, B \subseteq SUBSET S, B # {}
    PROVE  \E T \in B : \A U \in B : U \subseteq T => U = T
<1>1. IsWellFoundedOn(StrictSubsetOrdering(S), SUBSET S)
  BY FS_StrictSubsetOrderingWellFounded, FS_FiniteSubsetsOfFinite
<1>2. PICK T \in B : \A U \in B : ~(<<U, T>> \in StrictSubsetOrdering(S))
  BY <1>1, WFMin
<1>3. ASSUME NEW U \in B, U \subseteq T
      PROVE  U = T
  BY <1>2, <1>3 DEF StrictSubsetOrdering
<1>4. QED
  BY <1>3

\* Two functions that tell the sums agree where both do.
LEMMA SumsAgree ==
    ASSUME NEW f, NEW S, IsFiniteSet(S), NEW T \in SUBSET S,
           NEW g, IsSum(f, g, S), NEW h, IsSum(f, h, T)
    PROVE  \A s \in SUBSET T : g[s] = h[s]
<1> DEFINE B == {s \in SUBSET T : g[s] # h[s]}
<1> SUFFICES ASSUME B # {}
             PROVE  FALSE
  OBVIOUS
<1>1. B \subseteq SUBSET S
  OBVIOUS
<1>2. PICK s \in B : \A U \in B : U \subseteq s => U = s
  <2> HIDE DEF B
  <2>1. QED
    BY <1>1, SmallestSubset
<1>3. g[s] = Adds(f, g, s) /\ h[s] = Adds(f, h, s)
  BY <1>1 DEF IsSum
<1>4. CASE s = {}
  BY <1>3, <1>4 DEF Adds
<1>5. CASE s # {}
  <2>1. Pick(s) \in s
    BY <1>5, PickIsElement
  <2>2. s \ {Pick(s)} \notin B
    BY <1>2, <2>1
  <2>3. g[s \ {Pick(s)}] = h[s \ {Pick(s)}]
    BY <2>2
  <2>4. QED
    BY <1>3, <1>5, <2>3 DEF Adds
<1>6. QED
  BY <1>4, <1>5

\* Some function tells the sums over the subsets of a finite set.
LEMMA SumExists ==
    ASSUME NEW f, NEW S, IsFiniteSet(S)
    PROVE  IsSum(f, TheSum(f, S), S)
<1> DEFINE B == {T \in SUBSET S : ~ \E g : IsSum(f, g, T)}
<1>1. ASSUME B # {}
      PROVE  FALSE
  <2>1. PICK T \in B : \A U \in B : U \subseteq T => U = T
    <3>1. B \subseteq SUBSET S
      OBVIOUS
    <3> HIDE DEF B
    <3>2. QED
      BY <1>1, <3>1, SmallestSubset
  <2>2. \A s \in SUBSET T : s # T => IsSum(f, TheSum(f, s), s)
    BY <2>1 DEF TheSum
  <2> DEFINE part(s) == TheSum(f, s)[s]
             h == [s \in SUBSET T |->
                      IF s = {} THEN 0 ELSE f[Pick(s)] + part(s \ {Pick(s)})]
  <2>3. ASSUME NEW s \in SUBSET T, s # T
        PROVE  h[s] = part(s)
    <3>1. IsSum(f, TheSum(f, s), s) /\ s \in SUBSET s
      BY <2>2, <2>3
    <3>2. part(s) = Adds(f, TheSum(f, s), s)
      BY <3>1 DEF IsSum
    <3>3. CASE s = {}
      BY <3>2, <3>3 DEF Adds
    <3>4. CASE s # {}
      <4> DEFINE r == s \ {Pick(s)}
      <4>1. Pick(s) \in s /\ r \in SUBSET s /\ r \in SUBSET T /\ r # T
        BY <3>4, <2>3, PickIsElement
      <4>2. IsSum(f, TheSum(f, r), r)
        BY <2>2, <4>1
      <4>3. IsFiniteSet(s)
        BY FS_Subset
      <4>4. TheSum(f, s)[r] = part(r)
        BY <3>1, <4>1, <4>2, <4>3, SumsAgree
      <4>5. QED
        BY <3>2, <3>4, <4>4 DEF Adds
    <3>5. QED
      BY <3>3, <3>4
  <2>4. ASSUME NEW s \in SUBSET T
        PROVE  h[s] = Adds(f, h, s)
    <3>1. CASE s = {}
      BY <3>1 DEF Adds
    <3>2. CASE s # {}
      <4> DEFINE r == s \ {Pick(s)}
      <4>1. Pick(s) \in s /\ r \in SUBSET T /\ r # T
        BY <3>2, PickIsElement
      <4>2. h[r] = part(r)
        BY <4>1, <2>3
      <4> HIDE DEF part
      <4>3. h[s] = f[Pick(s)] + part(r)
        BY <3>2
      <4> HIDE DEF h
      <4>4. QED
        BY <3>2, <4>2, <4>3 DEF Adds
    <3>3. QED
      BY <3>1, <3>2
  <2>5. IsSum(f, h, T)
    <3> DEFINE k == [s \in SUBSET T |-> Adds(f, h, s)]
    <3>1. h = [s \in SUBSET T |-> h[s]]
      OBVIOUS
    <3> HIDE DEF h
    <3>2. k = [s \in SUBSET T |-> h[s]]
      BY <2>4
    <3>3. QED
      BY <3>1, <3>2 DEF IsSum
  <2>6. QED
    BY <2>1, <2>5
<1>2. \E g : IsSum(f, g, S)
  BY <1>1
<1>3. QED
  BY <1>2 DEF TheSum
-------------------------------------------------------------------------------
\* The sum over no argument is zero.
LEMMA SumOfNone ==
    ASSUME NEW f
    PROVE  SumOver(f, {}) = 0
<1>1. IsSum(f, TheSum(f, {}), {})
  BY SumExists, FS_EmptySet
<1>2. TheSum(f, {})[{}] = Adds(f, TheSum(f, {}), {})
  BY <1>1 DEF IsSum
<1>3. QED
  BY <1>2, SumUnfolds DEF Adds

\* The sum is the value at the element picked and the sum over the others.
LEMMA SumPicks ==
    ASSUME NEW f, NEW S, IsFiniteSet(S), S # {}
    PROVE  SumOver(f, S) = f[Pick(S)] + SumOver(f, S \ {Pick(S)})
<1> DEFINE r == S \ {Pick(S)}
<1>1. Pick(S) \in S /\ r \in SUBSET S /\ IsFiniteSet(r)
  BY PickIsElement, FS_Subset
<1>2. IsSum(f, TheSum(f, S), S) /\ IsSum(f, TheSum(f, r), r)
  BY <1>1, SumExists
<1>3. TheSum(f, S)[S] = Adds(f, TheSum(f, S), S)
  BY <1>2 DEF IsSum
<1>4. TheSum(f, S)[r] = TheSum(f, r)[r]
  <2>1. r \in SUBSET r
    OBVIOUS
  <2> HIDE DEF r
  <2>2. QED
    BY <1>1, <1>2, <2>1, SumsAgree
<1> HIDE DEF r
<1>5. SumOver(f, S) = TheSum(f, S)[S] /\ SumOver(f, r) = TheSum(f, r)[r]
  BY SumUnfolds
<1>6. QED
  BY <1>3, <1>4, <1>5 DEF Adds, r

\* The sum of naturals is a natural.
LEMMA SumIsNat ==
    ASSUME NEW f, NEW S, IsFiniteSet(S), \A x \in S : f[x] \in Nat
    PROVE  SumOver(f, S) \in Nat
<1> DEFINE B == {T \in SUBSET S : SumOver(f, T) \notin Nat}
<1>1. ASSUME B # {}
      PROVE  FALSE
  <2>1. PICK T \in B : \A U \in B : U \subseteq T => U = T
    <3>1. B \subseteq SUBSET S
      OBVIOUS
    <3> HIDE DEF B
    <3>2. QED
      BY <1>1, <3>1, SmallestSubset
  <2>2. T # {}
    BY SumOfNone
  <2> DEFINE r == T \ {Pick(T)}
  <2>3. Pick(T) \in T /\ r \in SUBSET S /\ r \subseteq T /\ r # T
    BY <2>2, PickIsElement
  <2>4. SumOver(f, r) \in Nat
    BY <2>1, <2>3
  <2>5. SumOver(f, T) = f[Pick(T)] + SumOver(f, r)
    BY <2>2, SumPicks, FS_Subset
  <2> HIDE DEF r
  <2>6. QED
    BY <2>3, <2>4, <2>5
<1>2. QED
  BY <1>1

\* Any argument can be taken off the sum, not only the one picked.
LEMMA SumTakesOff ==
    ASSUME NEW f, NEW S, IsFiniteSet(S), \A x \in S : f[x] \in Nat,
           NEW e \in S
    PROVE  SumOver(f, S) = f[e] + SumOver(f, S \ {e})
<1> DEFINE Fails(T) ==
        \E x \in T : SumOver(f, T) # f[x] + SumOver(f, T \ {x})
    B == {T \in SUBSET S : Fails(T)}
<1>1. ASSUME B # {}
      PROVE  FALSE
  <2>1. PICK T \in B : \A U \in B : U \subseteq T => U = T
    <3>1. B \subseteq SUBSET S
      OBVIOUS
    <3> HIDE DEF B
    <3>2. QED
      BY <1>1, <3>1, SmallestSubset
  <2>2. PICK x \in T : SumOver(f, T) # f[x] + SumOver(f, T \ {x})
    OBVIOUS
  <2> DEFINE p == Pick(T)
             both == (T \ {p}) \ {x}
  <2>3. p \in T /\ IsFiniteSet(T) /\ T \subseteq S
    BY <2>2, PickIsElement, FS_Subset
  <2> HIDE DEF p
  <2>4. SumOver(f, T) = f[p] + SumOver(f, T \ {p})
    BY <2>2, SumPicks, FS_Subset DEF p
  <2>5. x # p
    BY <2>2, <2>4
  <2>6. ~Fails(T \ {p}) /\ ~Fails(T \ {x})
    <3>1. T \ {p} \in SUBSET S /\ T \ {p} # T /\ T \ {p} \subseteq T
      BY <2>3
    <3>2. T \ {x} \in SUBSET S /\ T \ {x} # T /\ T \ {x} \subseteq T
      BY <2>2
    <3> HIDE DEF Fails
    <3>3. QED
      BY <2>1, <3>1, <3>2
  <2>7. SumOver(f, T \ {p}) = f[x] + SumOver(f, both)
    BY <2>2, <2>5, <2>6
  <2>8. (T \ {x}) \ {p} = both
    OBVIOUS
  <2>9. SumOver(f, T \ {x}) = f[p] + SumOver(f, both)
    <3>1. p \in T \ {x}
      BY <2>3, <2>5
    <3>2. SumOver(f, T \ {x}) = f[p] + SumOver(f, (T \ {x}) \ {p})
      BY <3>1, <2>6
    <3>3. QED
      BY <3>2, <2>8
  <2>10. f[x] \in Nat /\ f[p] \in Nat /\ SumOver(f, both) \in Nat
    <3>1. IsFiniteSet(both) /\ both \subseteq S
      BY <2>3, FS_Subset
    <3> HIDE DEF both
    <3>2. QED
      BY <2>2, <2>3, <3>1, SumIsNat
  <2> HIDE DEF both
  <2>11. QED
    BY <2>2, <2>4, <2>7, <2>9, <2>10
<1>2. S \notin B
  BY <1>1
<1>3. QED
  BY <1>2

\* An argument that is new to the sum adds its value.
LEMMA SumTakesIn ==
    ASSUME NEW f, NEW S, IsFiniteSet(S), NEW e, e \notin S,
           \A x \in S \cup {e} : f[x] \in Nat
    PROVE  SumOver(f, S \cup {e}) = SumOver(f, S) + f[e]
<1>1. IsFiniteSet(S \cup {e})
  BY FS_AddElement
<1>2. SumOver(f, S \cup {e}) = f[e] + SumOver(f, (S \cup {e}) \ {e})
  BY <1>1, SumTakesOff
<1>3. (S \cup {e}) \ {e} = S
  OBVIOUS
<1>4. f[e] \in Nat /\ SumOver(f, S) \in Nat
  BY SumIsNat
<1>5. QED
  BY <1>2, <1>3, <1>4

\* Larger values add up to a larger sum.
LEMMA SumIsMonotone ==
    ASSUME NEW f, NEW g, NEW S, IsFiniteSet(S),
           \A x \in S : f[x] \in Nat /\ g[x] \in Nat /\ f[x] <= g[x]
    PROVE  SumOver(f, S) <= SumOver(g, S)
<1> DEFINE B == {T \in SUBSET S : ~(SumOver(f, T) <= SumOver(g, T))}
<1>1. ASSUME B # {}
      PROVE  FALSE
  <2>1. PICK T \in B : \A U \in B : U \subseteq T => U = T
    <3>1. B \subseteq SUBSET S
      OBVIOUS
    <3> HIDE DEF B
    <3>2. QED
      BY <1>1, <3>1, SmallestSubset
  <2>2. T # {}
    BY SumOfNone
  <2> DEFINE p == Pick(T)
             r == T \ {p}
  <2>3. p \in T /\ r \in SUBSET S /\ r \subseteq T /\ r # T
    BY <2>2, PickIsElement
  <2>4. SumOver(f, r) <= SumOver(g, r)
    BY <2>1, <2>3
  <2>5. /\ SumOver(f, T) = f[p] + SumOver(f, r)
        /\ SumOver(g, T) = g[p] + SumOver(g, r)
    BY <2>2, SumPicks, FS_Subset
  <2> HIDE DEF p, r
  <2>6. SumOver(f, r) \in Nat /\ SumOver(g, r) \in Nat
    BY <2>3, SumIsNat, FS_Subset
  <2>7. QED
    BY <2>3, <2>4, <2>5, <2>6
<1>2. QED
  BY <1>1

\* Functions with the same values have the same sum.
LEMMA SumOfEqualValues ==
    ASSUME NEW f, NEW g, NEW S, IsFiniteSet(S),
           \A x \in S : f[x] \in Nat /\ f[x] = g[x]
    PROVE  SumOver(f, S) = SumOver(g, S)
<1>1. SumOver(f, S) <= SumOver(g, S) /\ SumOver(g, S) <= SumOver(f, S)
  BY SumIsMonotone
<1>2. SumOver(f, S) \in Nat /\ SumOver(g, S) \in Nat
  BY SumIsNat
<1>3. QED
  BY <1>1, <1>2

\* When the value at one argument changes, the sum changes as much.
LEMMA SumChangesAsValue ==
    ASSUME NEW f, NEW g, NEW S, IsFiniteSet(S), NEW e \in S,
           \A x \in S : f[x] \in Nat /\ g[x] \in Nat,
           \A x \in S : x # e => f[x] = g[x]
    PROVE  SumOver(g, S) = SumOver(f, S) - f[e] + g[e]
<1> DEFINE r == S \ {e}
<1>1. IsFiniteSet(r)
  BY FS_Subset
<1>2. SumOver(f, S) = f[e] + SumOver(f, r) /\ SumOver(g, S) = g[e] + SumOver(g, r)
  BY SumTakesOff
<1>3. SumOver(f, r) = SumOver(g, r)
  BY <1>1, SumOfEqualValues
<1>4. SumOver(f, r) \in Nat /\ f[e] \in Nat /\ g[e] \in Nat
  BY <1>1, SumIsNat
<1> HIDE DEF r
<1>5. QED
  BY <1>2, <1>3, <1>4

\* The same for a set that the argument may be new to, with no value before.
LEMMA SumMovesAtOne ==
    ASSUME NEW f, NEW g, NEW S, IsFiniteSet(S), NEW e,
           \A x \in S : f[x] \in Nat /\ g[x] \in Nat,
           \A x \in S : x # e => f[x] = g[x],
           f[e] \in Nat, g[e] \in Nat,
           e \in S \/ f[e] = 0
    PROVE  SumOver(g, S \cup {e}) = SumOver(f, S) - f[e] + g[e]
<1>1. SumOver(f, S) \in Nat
  BY SumIsNat
<1>2. CASE e \in S
  <2>1. S \cup {e} = S
    BY <1>2
  <2>2. SumOver(g, S) = SumOver(f, S) - f[e] + g[e]
    BY <1>2, SumChangesAsValue
  <2> QED
    BY <1>1, <2>1, <2>2
<1>3. CASE e \notin S
  <2>1. SumOver(g, S \cup {e}) = SumOver(g, S) + g[e]
    BY <1>3, SumTakesIn
  <2>2. SumOver(f, S) = SumOver(g, S)
    BY <1>3, SumOfEqualValues
  <2>3. f[e] = 0 /\ g[e] \in Nat
    BY <1>3
  <2> QED
    BY <1>1, <2>1, <2>2, <2>3
<1> QED
  BY <1>2, <1>3
=============================================================================
