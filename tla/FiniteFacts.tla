------------------------------ MODULE FiniteFacts ------------------------------
(***************************************************************************)
(* Facts about sets of numbers and finite sets: induction, stated on the   *)
(* set of the numbers that satisfy a predicate; the greatest and the least *)
(* of some numbers; putting numbers in order; and sums as MapThenSumSet    *)
(* computes them, element by element, in the order in which CHOOSE takes   *)
(* them.                                                                   *)
(***************************************************************************)
EXTENDS Integers, FiniteSetsExt, FiniteSetTheorems, WellFoundedInduction, TLAPS

\* Induction over the natural numbers, on the set of those that satisfy a
\* predicate.
LEMMA NatSetInduction ==
    ASSUME NEW B \in SUBSET Nat, 0 \in B, \A n \in B : n + 1 \in B
    PROVE  B = Nat
<1> DEFINE T == Nat \ B
<1>1. SUFFICES ASSUME T # {} PROVE FALSE
  OBVIOUS
<1>2. PICK x \in T : \A y \in T : <<y, x>> \notin OpToRel(<, Nat)
  <2> HIDE DEF T
  <2>1. T \subseteq Nat
    BY DEF T
  <2> QED BY <1>1, <2>1, NatLessThanWellFounded, WFMin
<1>3. x \in Nat /\ x \notin B /\ x # 0 /\ x - 1 \in Nat
  OBVIOUS
<1>4. <<x - 1, x>> \in OpToRel(<, Nat)
  BY <1>3 DEF OpToRel
<1>5. x - 1 \in B
  BY <1>2, <1>3, <1>4
<1>6. (x - 1) + 1 \in B
  BY <1>5
<1> QED BY <1>3, <1>6

(* Maxima *)

LEMMA MaxExists ==
    \A n \in Nat : \A s \in SUBSET (1..n) : s # {} => \E x \in s : \A y \in s : x >= y
<1> DEFINE B == {n \in Nat : \A s \in SUBSET (1..n) : s # {} => \E x \in s : \A y \in s : x >= y}
<1>1. 0 \in B
  <2>1. 1..0 = {}
    OBVIOUS
  <2>2. \A s \in SUBSET (1..0) : s = {}
    BY <2>1
  <2> QED BY <2>2
<1>2. ASSUME NEW n \in B PROVE n + 1 \in B
  <2> SUFFICES ASSUME NEW s \in SUBSET (1..(n + 1)), s # {}
               PROVE  \E x \in s : \A y \in s : x >= y
    OBVIOUS
  <2> HIDE DEF B
  <2>1. CASE n + 1 \in s
    <3>1. n \in Nat
      BY DEF B
    <3>2. \A y \in s : n + 1 >= y
      BY <3>1
    <3> QED BY <2>1, <3>2
  <2>2. CASE n + 1 \notin s
    <3>1. n \in Nat /\ \A r \in SUBSET (1..n) : r # {} => \E x \in r : \A y \in r : x >= y
      BY DEF B
    <3>2. s \in SUBSET (1..n)
      BY <2>2, <3>1
    <3> QED BY <3>1, <3>2
  <2> QED BY <2>1, <2>2
<1>3. B = Nat
  <2>1. B \in SUBSET Nat
    OBVIOUS
  <2> HIDE DEF B
  <2> QED BY <1>1, <1>2, <2>1, NatSetInduction
<1> QED BY <1>3

LEMMA MaxIn ==
    ASSUME NEW n \in Nat, NEW s \in SUBSET (1..n), s # {}
    PROVE  Max(s) \in s
<1>1. PICK x \in s : \A y \in s : x >= y
  BY MaxExists
<1> QED BY <1>1 DEF Max

\* A set of numbers has a least one.
LEMMA MinIn ==
    ASSUME NEW s \in SUBSET Nat, s # {}
    PROVE  Min(s) \in s /\ \A y \in s : Min(s) <= y
<1>1. PICK x \in s : \A y \in s : <<y, x>> \notin OpToRel(<, Nat)
  BY NatLessThanWellFounded, WFMin
<1>2. \A y \in s : x <= y
  <2>0. x \in Nat /\ s \subseteq Nat
    OBVIOUS
  <2> SUFFICES ASSUME NEW y \in s, y < x PROVE FALSE
    BY <2>0
  <2>1. <<y, x>> \in OpToRel(<, Nat)
    BY DEF OpToRel
  <2> QED BY <1>1, <2>1
<1> QED BY <1>2 DEF Min

(* Finite sets of numbers, in order *)

LEMMA LessOne ==
    ASSUME NEW s, IsFiniteSet(s), NEW n \in Nat, Cardinality(s) = n + 1, NEW x \in s
    PROVE  IsFiniteSet(s \ {x}) /\ Cardinality(s \ {x}) = n
<1>1. IsFiniteSet(s \ {x})
  BY FS_RemoveElement
<1>2. Cardinality(s \ {x}) = Cardinality(s) - 1
  BY FS_RemoveElement
<1> QED BY <1>1, <1>2

LEMMA NotEmpty ==
    ASSUME NEW s, IsFiniteSet(s), NEW n \in Nat, Cardinality(s) = n + 1
    PROVE  s # {}
  BY FS_EmptySet

HasGreatest(s) == \E x \in s : \A y \in s : y <= x

LEMMA GreatestExists ==
    ASSUME NEW s \in SUBSET Nat, IsFiniteSet(s), s # {}
    PROVE  HasGreatest(s)
<1> DEFINE B == {n \in Nat : \A r \in SUBSET Nat :
                    IsFiniteSet(r) /\ Cardinality(r) = n /\ r # {} => HasGreatest(r)}
<1>1. 0 \in B
  BY FS_EmptySet
<1>2. ASSUME NEW n \in B PROVE n + 1 \in B
  <2> SUFFICES ASSUME NEW r \in SUBSET Nat, IsFiniteSet(r), Cardinality(r) = n + 1, r # {}
               PROVE  HasGreatest(r)
    OBVIOUS
  <2>1. PICK x \in r : TRUE
    OBVIOUS
  <2>2. IsFiniteSet(r \ {x}) /\ Cardinality(r \ {x}) = n
    BY LessOne
  <2>3. CASE r \ {x} = {}
    <3>1. r = {x}
      BY <2>3
    <3> QED BY <3>1 DEF HasGreatest
  <2>4. CASE r \ {x} # {}
    <3>1. HasGreatest(r \ {x})
      BY <2>2, <2>4
    <3>2. PICK z \in r \ {x} : \A y \in r \ {x} : y <= z
      BY <3>1 DEF HasGreatest
    <3>3. CASE x <= z
      BY <3>2, <3>3 DEF HasGreatest
    <3>4. CASE ~(x <= z)
      <4>1. \A y \in r : y <= x
        BY <3>2, <3>4
      <4> QED BY <4>1 DEF HasGreatest
    <3> QED BY <3>3, <3>4
  <2> QED BY <2>3, <2>4
<1>3. B = Nat
  <2>1. B \in SUBSET Nat
    OBVIOUS
  <2> HIDE DEF B
  <2> QED BY <1>1, <1>2, <2>1, NatSetInduction
<1>4. Cardinality(s) \in Nat
  BY FS_CardinalityType
<1> QED BY <1>3, <1>4

\* seq lists s from its least element to its greatest.
Sorted(seq, s) ==
    /\ seq \in [1..Cardinality(s) -> s]
    /\ Range(seq) = s /\ \A i, j \in DOMAIN seq : i < j => seq[i] < seq[j]

LEMMA SortedExists ==
    ASSUME NEW s \in SUBSET Nat, IsFiniteSet(s)
    PROVE  \E seq : Sorted(seq, s)
<1> DEFINE B == {n \in Nat : \A r \in SUBSET Nat :
                    IsFiniteSet(r) /\ Cardinality(r) = n => \E seq : Sorted(seq, r)}
<1>1. 0 \in B
  <2> SUFFICES ASSUME NEW r \in SUBSET Nat, IsFiniteSet(r), Cardinality(r) = 0
               PROVE  \E seq : Sorted(seq, r)
    OBVIOUS
  <2>1. r = {} /\ 1..Cardinality(r) = {}
    BY FS_EmptySet
  <2>2. Sorted([i \in 1..Cardinality(r) |-> i], r)
    BY <2>1 DEF Sorted, Range
  <2> QED BY <2>2
<1>2. ASSUME NEW n \in B PROVE n + 1 \in B
  <2> SUFFICES ASSUME NEW r \in SUBSET Nat, IsFiniteSet(r), Cardinality(r) = n + 1
               PROVE  \E seq : Sorted(seq, r)
    OBVIOUS
  <2>1. n \in Nat
    OBVIOUS
  <2>2. r # {}
    BY <2>1, NotEmpty
  <2>3. PICK x \in r : \A y \in r : y <= x
    BY <2>2, GreatestExists DEF HasGreatest
  <2>4. IsFiniteSet(r \ {x}) /\ Cardinality(r \ {x}) = n
    BY <2>1, LessOne
  <2>5. PICK rest : Sorted(rest, r \ {x})
    BY <2>4
  <2> HIDE DEF B
  <2>6. rest \in [1..n -> r \ {x}] /\ Range(rest) = r \ {x} /\ DOMAIN rest = 1..n
    BY <2>4, <2>5 DEF Sorted
  <2> DEFINE seq == [i \in 1..(n + 1) |-> IF i = n + 1 THEN x ELSE rest[i]]
  <2>7. seq \in [1..(n + 1) -> r]
    BY <2>1, <2>6
  <2>8. Range(seq) = r
    <3>1. ASSUME NEW y \in r PROVE \E i \in 1..(n + 1) : seq[i] = y
      <4>1. CASE y = x
        BY <2>1, <4>1
      <4>2. CASE y # x
        <5>1. PICK i \in 1..n : rest[i] = y
          BY <2>6, <4>2 DEF Range
        <5>2. i \in 1..(n + 1) /\ seq[i] = y
          BY <2>1, <5>1
        <5> QED BY <5>2
      <4> QED BY <4>1, <4>2
    <3> QED BY <2>7, <3>1 DEF Range
  <2>9. ASSUME NEW i \in 1..(n + 1), NEW j \in 1..(n + 1), i < j PROVE seq[i] < seq[j]
    <3>1. i \in 1..n /\ seq[i] = rest[i] /\ rest[i] \in r \ {x}
      BY <2>1, <2>6, <2>9
    <3>2. CASE j = n + 1
      <4>1. seq[j] = x /\ rest[i] <= x /\ rest[i] # x /\ rest[i] \in Nat /\ x \in Nat
        BY <2>3, <3>1, <3>2
      <4> QED BY <3>1, <4>1
    <3>3. CASE j # n + 1
      <4>1. j \in 1..n /\ seq[j] = rest[j]
        BY <2>1, <3>3
      <4> QED BY <2>5, <2>6, <2>9, <3>1, <4>1 DEF Sorted
    <3> QED BY <3>2, <3>3
  <2>10. Sorted(seq, r)
    BY <2>7, <2>8, <2>9 DEF Sorted
  <2> QED BY <2>10
<1>3. B = Nat
  <2>1. B \in SUBSET Nat
    OBVIOUS
  <2> HIDE DEF B
  <2> QED BY <1>1, <1>2, <2>1, NatSetInduction
<1>4. Cardinality(s) \in Nat
  BY FS_CardinalityType
<1> QED BY <1>3, <1>4

(* Sums *)

Pick(s) == CHOOSE x \in s : TRUE

LEMMA PickIn == ASSUME NEW s, s # {} PROVE Pick(s) \in s
  BY DEF Pick

\* g computes the sums of d over the sets of D.
Sums(g, d, D) ==
    \A s \in D : g[s] = IF s = {} THEN 0 ELSE d[Pick(s)] + g[s \ {Pick(s)}]

\* The subsets of W with n elements at most.
UpTo(W, n) == {s \in SUBSET W : Cardinality(s) <= n}

LEMMA SmallerSubset ==
    ASSUME NEW W, IsFiniteSet(W), NEW s \in SUBSET W, NEW x \in s
    PROVE  /\ s \ {x} \in SUBSET W
           /\ Cardinality(s) \in Nat /\ Cardinality(s \ {x}) = Cardinality(s) - 1
           /\ Cardinality(s) # 0
<1>1. IsFiniteSet(s)
  BY FS_Subset
<1>2. Cardinality(s) \in Nat /\ Cardinality(s \ {x}) = Cardinality(s) - 1
  BY <1>1, FS_CardinalityType, FS_RemoveElement
<1> QED BY <1>1, <1>2, FS_EmptySet

LEMMA SumsExistUpTo ==
    ASSUME NEW W, IsFiniteSet(W), NEW d
    PROVE  \A n \in Nat : \E g : Sums(g, d, UpTo(W, n))
<1> DEFINE B == {n \in Nat : \E g : Sums(g, d, UpTo(W, n))}
<1>1. 0 \in B
  <2> DEFINE g == [s \in UpTo(W, 0) |-> 0]
  <2>1. UpTo(W, 0) \subseteq {{}}
    <3> SUFFICES ASSUME NEW s \in UpTo(W, 0) PROVE s = {}
      OBVIOUS
    <3>1. IsFiniteSet(s) /\ Cardinality(s) <= 0
      BY FS_Subset DEF UpTo
    <3>2. Cardinality(s) \in Nat
      BY <3>1, FS_CardinalityType
    <3> QED BY <3>1, <3>2, FS_EmptySet
  <2>2. Sums(g, d, UpTo(W, 0))
    BY <2>1 DEF Sums
  <2> QED BY <2>2
<1>2. ASSUME NEW n \in B PROVE n + 1 \in B
  <2>1. PICK g : Sums(g, d, UpTo(W, n))
    OBVIOUS
  <2>2. n \in Nat
    OBVIOUS
  <2> DEFINE h == [s \in UpTo(W, n + 1) |->
                     IF s \in UpTo(W, n) THEN g[s] ELSE d[Pick(s)] + g[s \ {Pick(s)}]]
  <2>3. ASSUME NEW s \in UpTo(W, n + 1), s # {}
        PROVE  /\ s \ {Pick(s)} \in UpTo(W, n) /\ s \ {Pick(s)} \in UpTo(W, n + 1)
    <3>1. s \in SUBSET W /\ Pick(s) \in s /\ Cardinality(s) <= n + 1
      BY <2>3, PickIn DEF UpTo
    <3>2. /\ s \ {Pick(s)} \in SUBSET W /\ Cardinality(s) \in Nat
          /\ Cardinality(s \ {Pick(s)}) = Cardinality(s) - 1
      BY <3>1, SmallerSubset
    <3> QED BY <2>2, <3>1, <3>2 DEF UpTo
  <2>4. {} \in UpTo(W, n)
    BY <2>2, FS_EmptySet DEF UpTo
  <2>5. UpTo(W, n) \subseteq UpTo(W, n + 1)
    <3> SUFFICES ASSUME NEW s \in UpTo(W, n) PROVE s \in UpTo(W, n + 1)
      OBVIOUS
    <3>1. IsFiniteSet(s) /\ Cardinality(s) <= n
      BY FS_Subset DEF UpTo
    <3>2. Cardinality(s) \in Nat
      BY <3>1, FS_CardinalityType
    <3> QED BY <2>2, <3>1, <3>2 DEF UpTo
  <2>6. ASSUME NEW s \in UpTo(W, n + 1)
        PROVE  h[s] = IF s = {} THEN 0 ELSE d[Pick(s)] + h[s \ {Pick(s)}]
    <3>1. CASE s = {}
      BY <2>1, <2>4, <2>6, <3>1 DEF Sums
    <3>2. CASE s # {}
      <4>1. h[s \ {Pick(s)}] = g[s \ {Pick(s)}]
        BY <2>3, <2>6, <3>2
      <4>2. CASE s \in UpTo(W, n)
        <5>1. h[s] = g[s]
          BY <2>6, <4>2
        <5>2. g[s] = d[Pick(s)] + g[s \ {Pick(s)}]
          BY <2>1, <3>2, <4>2 DEF Sums
        <5> QED BY <3>2, <4>1, <5>1, <5>2
      <4>3. CASE s \notin UpTo(W, n)
        <5>1. h[s] = d[Pick(s)] + g[s \ {Pick(s)}]
          BY <2>6, <4>3
        <5> QED BY <3>2, <4>1, <5>1
      <4> QED BY <4>2, <4>3
    <3> QED BY <3>1, <3>2
  <2> HIDE DEF h
  <2>7. Sums(h, d, UpTo(W, n + 1))
    BY <2>6 DEF Sums
  <2> QED BY <2>2, <2>7
<1>3. B = Nat
  <2>1. B \in SUBSET Nat
    OBVIOUS
  <2> HIDE DEF B
  <2> QED BY <1>1, <1>2, <2>1, NatSetInduction
<1> QED BY <1>3

LEMMA SumsExist ==
    ASSUME NEW W, IsFiniteSet(W), NEW d
    PROVE  \E g : Sums(g, d, SUBSET W)
<1>1. Cardinality(W) \in Nat
  BY FS_CardinalityType
<1>2. UpTo(W, Cardinality(W)) = SUBSET W
  BY FS_Subset DEF UpTo
<1>3. \E g : Sums(g, d, UpTo(W, Cardinality(W)))
  BY <1>1, SumsExistUpTo
<1> QED BY <1>2, <1>3

Agree(d, e, V) == \A x \in V : d[x] = e[x]

\* A sum depends on the values of the elements it adds up only.
LEMMA SumsAgree ==
    ASSUME NEW W, IsFiniteSet(W), NEW V \in SUBSET W, NEW d, NEW e, NEW g, NEW h,
           Sums(g, d, SUBSET W), Sums(h, e, SUBSET V), Agree(d, e, V),
           NEW S \in SUBSET V
    PROVE  g[S] = h[S]
<1> DEFINE B == {n \in Nat : \A s \in SUBSET V : Cardinality(s) = n => g[s] = h[s]}
<1>1. ASSUME NEW s \in SUBSET V, s # {}
      PROVE  /\ s \in SUBSET W /\ Pick(s) \in s
             /\ g[s] = d[Pick(s)] + g[s \ {Pick(s)}]
             /\ h[s] = d[Pick(s)] + h[s \ {Pick(s)}]
             /\ s \ {Pick(s)} \in SUBSET V
             /\ Cardinality(s \ {Pick(s)}) = Cardinality(s) - 1
  <2>1. Pick(s) \in s /\ s \in SUBSET W
    BY <1>1, PickIn
  <2>2. g[s] = d[Pick(s)] + g[s \ {Pick(s)}]
    BY <1>1, <2>1 DEF Sums
  <2>3. h[s] = e[Pick(s)] + h[s \ {Pick(s)}]
    BY <1>1 DEF Sums
  <2>4. Cardinality(s \ {Pick(s)}) = Cardinality(s) - 1
    BY <2>1, SmallerSubset
  <2> QED BY <2>1, <2>2, <2>3, <2>4 DEF Agree
<1>2. ASSUME NEW s \in SUBSET V
      PROVE  Cardinality(s) \in Nat /\ (Cardinality(s) = 0 <=> s = {})
  BY FS_Subset, FS_CardinalityType, FS_EmptySet
<1>3. 0 \in B
  <2> SUFFICES ASSUME NEW s \in SUBSET V, Cardinality(s) = 0 PROVE g[s] = h[s]
    OBVIOUS
  <2>1. s = {}
    BY <1>2
  <2> QED BY <2>1 DEF Sums
<1>4. ASSUME NEW n \in B PROVE n + 1 \in B
  <2> SUFFICES ASSUME NEW s \in SUBSET V, Cardinality(s) = n + 1 PROVE g[s] = h[s]
    OBVIOUS
  <2>1. s # {}
    BY <1>2
  <2>2. Cardinality(s \ {Pick(s)}) = n /\ s \ {Pick(s)} \in SUBSET V
    BY <1>1, <2>1
  <2>3. g[s \ {Pick(s)}] = h[s \ {Pick(s)}]
    BY <2>2
  <2> QED BY <1>1, <2>1, <2>3
<1>5. B = Nat
  <2>1. B \in SUBSET Nat
    OBVIOUS
  <2> HIDE DEF B
  <2> QED BY <1>3, <1>4, <2>1, NatSetInduction
<1> QED BY <1>2, <1>5

\* Two functions give the same for the subsets of V.
Same(g, h, V) == \A S \in SUBSET V : g[S] = h[S]

\* Sums over the subsets of V are determined by what is added.
LEMMA SumsUnique ==
    ASSUME NEW W, IsFiniteSet(W), NEW V \in SUBSET W, NEW d, NEW g, NEW h,
           Sums(g, d, SUBSET W), Sums(h, d, SUBSET V)
    PROVE  Same(g, h, V)
<1>1. Agree(d, d, V)
  BY DEF Agree
<1> SUFFICES ASSUME NEW S \in SUBSET V PROVE g[S] = h[S]
  BY DEF Same
<1> QED BY <1>1, SumsAgree

\* A sum of natural numbers is one.
LEMMA SumsNat ==
    ASSUME NEW W, IsFiniteSet(W), NEW d \in [W -> Nat], NEW g, Sums(g, d, SUBSET W),
           NEW S \in SUBSET W
    PROVE  g[S] \in Nat
<1> DEFINE B == {n \in Nat : \A s \in SUBSET W : Cardinality(s) = n => g[s] \in Nat}
<1>1. ASSUME NEW s \in SUBSET W
      PROVE  Cardinality(s) \in Nat /\ (Cardinality(s) = 0 <=> s = {})
  BY FS_Subset, FS_CardinalityType, FS_EmptySet
<1>2. 0 \in B
  <2>1. g[{}] = 0
    BY DEF Sums
  <2> QED BY <1>1, <2>1
<1>3. ASSUME NEW n \in B PROVE n + 1 \in B
  <2> SUFFICES ASSUME NEW s \in SUBSET W, Cardinality(s) = n + 1 PROVE g[s] \in Nat
    OBVIOUS
  <2>1. s # {}
    BY <1>1
  <2>2. Pick(s) \in s /\ g[s] = d[Pick(s)] + g[s \ {Pick(s)}]
    BY <2>1, PickIn DEF Sums
  <2>3. s \ {Pick(s)} \in SUBSET W /\ Cardinality(s \ {Pick(s)}) = n
    BY <2>2, SmallerSubset
  <2>4. g[s \ {Pick(s)}] \in Nat /\ d[Pick(s)] \in Nat
    BY <2>2, <2>3
  <2> QED BY <2>2, <2>4
<1>4. B = Nat
  <2>1. B \in SUBSET Nat
    OBVIOUS
  <2> HIDE DEF B
  <2> QED BY <1>2, <1>3, <2>1, NatSetInduction
<1> QED BY <1>1, <1>4

\* The order in which the elements are added does not matter.
LEMMA SumsRemove ==
    ASSUME NEW W, IsFiniteSet(W), NEW d \in [W -> Nat], NEW g, Sums(g, d, SUBSET W),
           NEW S \in SUBSET W, NEW z \in S
    PROVE  g[S] = d[z] + g[S \ {z}]
<1> DEFINE B == {n \in Nat : \A s \in SUBSET W :
                               Cardinality(s) = n => \A x \in s : g[s] = d[x] + g[s \ {x}]}
<1>1. ASSUME NEW s \in SUBSET W, NEW x \in s
      PROVE  /\ Cardinality(s) \in Nat /\ Cardinality(s) # 0 /\ s \ {x} \in SUBSET W
             /\ Cardinality(s \ {x}) = Cardinality(s) - 1
  BY SmallerSubset
<1>2. 0 \in B
  BY <1>1
<1>3. ASSUME NEW n \in B PROVE n + 1 \in B
  <2> SUFFICES ASSUME NEW s \in SUBSET W, Cardinality(s) = n + 1, NEW x \in s
               PROVE  g[s] = d[x] + g[s \ {x}]
    OBVIOUS
  <2> DEFINE c == Pick(s)
  <2>1. c \in s /\ g[s] = d[c] + g[s \ {c}]
    BY PickIn DEF Sums
  <2>2. CASE c = x
    BY <2>1, <2>2
  <2>3. CASE c # x
    <3> HIDE DEF c
    <3>1. /\ s \ {c} \in SUBSET W /\ Cardinality(s \ {c}) = n /\ x \in s \ {c}
          /\ s \ {x} \in SUBSET W /\ Cardinality(s \ {x}) = n /\ c \in s \ {x}
      BY <1>1, <2>1, <2>3
    <3>2. g[s \ {c}] = d[x] + g[(s \ {c}) \ {x}]
      BY <3>1
    <3>3. g[s \ {x}] = d[c] + g[(s \ {x}) \ {c}]
      BY <3>1
    <3>4. (s \ {c}) \ {x} = (s \ {x}) \ {c}
      OBVIOUS
    <3>5. d[x] \in Int /\ d[c] \in Int /\ g[(s \ {x}) \ {c}] \in Int
      <4>1. (s \ {x}) \ {c} \in SUBSET W
        OBVIOUS
      <4>2. g[(s \ {x}) \ {c}] \in Nat
        BY <4>1, SumsNat
      <4> QED BY <2>1, <4>2
    <3>6. g[s] = d[c] + (d[x] + g[(s \ {x}) \ {c}])
      BY <2>1, <3>2, <3>4
    <3>7. d[c] + (d[x] + g[(s \ {x}) \ {c}]) = d[x] + (d[c] + g[(s \ {x}) \ {c}])
      BY <3>5
    <3> QED BY <3>3, <3>6, <3>7
  <2> QED BY <2>2, <2>3
<1>4. B = Nat
  <2>1. B \in SUBSET Nat
    OBVIOUS
  <2> HIDE DEF B
  <2> QED BY <1>2, <1>3, <2>1, NatSetInduction
<1>5. \A s \in SUBSET W : \A x \in s : Cardinality(s) \in Nat
  BY <1>1
<1> QED BY <1>4, <1>5
=============================================================================
