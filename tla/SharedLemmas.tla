--------------------------- MODULE SharedLemmas ----------------------------
(***************************************************************************)
(* The lemmas that the proofs of several components need: on induction,    *)
(* on sums over finite sets, on remainders, on cutting a queue, and on one *)
(* update of the statistics of a group.                                    *)
(***************************************************************************)
EXTENDS McGroupStats, Integers, FiniteSets, Functions, SequenceTheorems, FiniteSetTheorems,
        WellFoundedInduction, TLAPS

-----------------------------------------------------------------------------
(* Induction *)

\* Induction over the numbers, stated for a set: the prover cannot be given a
\* predicate.  The least number that is not in X would not be 0 nor a successor.
LEMMA NatSet ==
  ASSUME NEW X, 0 \in X, \A n \in Nat : n \in X => n + 1 \in X
  PROVE  Nat \subseteq X
<1> DEFINE Y == Nat \ X
<1>1. SUFFICES ASSUME Y # {} PROVE FALSE
  OBVIOUS
<1>2. IsWellFoundedOn(OpToRel(<, Nat), Nat)
  BY NatLessThanWellFounded
<1>3. PICK m \in Y : \A y \in Y : ~(<<y, m>> \in OpToRel(<, Nat))
  <2> HIDE DEF Y
  <2>1. Y \subseteq Nat
    BY DEF Y
  <2> QED
    BY <1>1, <1>2, <2>1, WFMin
<1>4. \A y \in Y : ~(y < m)
  BY <1>3 DEF OpToRel
<1>5. m # 0 /\ m - 1 \in Nat
  OBVIOUS
<1> QED
  BY <1>4, <1>5

\* The folds of the community modules take the elements of a set in this order.
Chosen(s) == CHOOSE x \in s : TRUE

LEMMA ChosenIn ==
  ASSUME NEW S, S # {}
  PROVE  Chosen(S) \in S
  BY DEF Chosen

\* Induction over the subsets of a finite set, taking out the element that a
\* fold takes first.
LEMMA SmallerFirst ==
  ASSUME NEW S, IsFiniteSet(S), NEW X, {} \in X,
         \A T \in SUBSET S : T # {} /\ T \ {Chosen(T)} \in X => T \in X
  PROVE  \A T \in SUBSET S : T \in X
<1> DEFINE Y == (SUBSET S) \ X
<1>1. SUFFICES ASSUME Y # {} PROVE FALSE
  OBVIOUS
<1>2. IsWellFoundedOn(StrictSubsetOrdering(S), SUBSET S)
  BY FS_StrictSubsetOrderingWellFounded, FS_FiniteSubsetsOfFinite
<1>3. PICK M \in Y : \A T \in Y : ~(<<T, M>> \in StrictSubsetOrdering(S))
  <2> HIDE DEF Y
  <2>1. Y \subseteq SUBSET S
    BY DEF Y
  <2> QED
    BY <1>1, <1>2, <2>1, WFMin
<1>4. M \in SUBSET S /\ M # {} /\ Chosen(M) \in M
  BY ChosenIn
<1>5. M \ {Chosen(M)} \in SUBSET S /\ M \ {Chosen(M)} # M
  BY <1>4
<1>6. M \ {Chosen(M)} \in X
  BY <1>3, <1>5 DEF StrictSubsetOrdering
<1> QED
  BY <1>4, <1>6

\* A part of an interval is finite.
LEMMA PartOfInterval ==
  ASSUME NEW a \in Int, NEW b \in Int, NEW A \in SUBSET (a .. b)
  PROVE  IsFiniteSet(A) /\ Cardinality(A) \in Nat
<1>1. IsFiniteSet(a .. b)
  BY FS_Interval
<1>2. IsFiniteSet(A)
  <2> DEFINE I == a .. b
  <2>1. IsFiniteSet(I) /\ A \subseteq I
    BY <1>1
  <2> HIDE DEF I
  <2> QED
    BY <2>1, FS_Subset
<1> QED
  BY <1>2, FS_CardinalityType

-----------------------------------------------------------------------------
(* Sums *)

\* The sum of f over s, if g is the sum over smaller sets.
SumStep(f, g, s) == IF s = {} THEN 0 ELSE f[Chosen(s)] + g[s \ {Chosen(s)}]

\* g is the sum of f over every subset of S.
IsSumOf(f, S, g) == g = [s \in SUBSET S |-> SumStep(f, g, s)]

\* SumFunctionOnSet is the sum over S in the function that is chosen for S.
LEMMA SumIsChosen ==
  ASSUME NEW f, NEW S
  PROVE  SumFunctionOnSet(f, S) = (CHOOSE g : IsSumOf(f, S, g))[S]
  BY DEF SumFunctionOnSet, FoldFunctionOnSet, MapThenFoldSet, IsSumOf, SumStep, Chosen

\* There is such a function for a finite set.
LEMMA SumExists ==
  ASSUME NEW f, NEW S, IsFiniteSet(S)
  PROVE  \E g : IsSumOf(f, S, g)
<1> DEFINE UpTo(g, n) == /\ g = [s \in SUBSET S |-> g[s]]
                         /\ \A s \in SUBSET S : Cardinality(s) <= n => g[s] = SumStep(f, g, s)
           X == {n \in Nat : \E g : UpTo(g, n)}
<1>0. \A s \in SUBSET S : IsFiniteSet(s) /\ Cardinality(s) \in Nat /\ Cardinality(s) <= Cardinality(S)
  BY FS_Subset, FS_CardinalityType
<1>1. 0 \in X
  <2> DEFINE g == [s \in SUBSET S |-> 0]
  <2>1. \A s \in SUBSET S : Cardinality(s) <= 0 => g[s] = SumStep(f, g, s)
    BY <1>0, FS_EmptySet DEF SumStep
  <2>2. UpTo(g, 0)
    BY <2>1
  <2> QED
    BY <2>2
<1>2. ASSUME NEW n \in Nat, n \in X PROVE n + 1 \in X
  <2>1. PICK g : UpTo(g, n)
    BY <1>2
  <2> DEFINE h == [s \in SUBSET S |-> SumStep(f, g, s)]
  <2>2. ASSUME NEW s \in SUBSET S, Cardinality(s) <= n + 1 PROVE h[s] = SumStep(f, h, s)
    <3>1. CASE s = {}
      BY <3>1 DEF SumStep
    <3>2. CASE s # {}
      <4> DEFINE t == s \ {Chosen(s)}
      <4>1. t \in SUBSET S /\ Cardinality(t) <= n
        BY <1>0, <2>2, <3>2, ChosenIn, FS_RemoveElement
      <4>2. h[t] = g[t]
        BY <2>1, <4>1
      <4> QED
        BY <3>2, <4>2 DEF SumStep
    <3> QED
      BY <3>1, <3>2
  <2>3. UpTo(h, n + 1)
    BY <2>2
  <2> HIDE DEF h, UpTo
  <2> QED
    BY <2>3
<1>3. Cardinality(S) \in X
  <2>1. Nat \subseteq X
    <3> HIDE DEF X
    <3> QED
      BY <1>1, <1>2, NatSet
  <2> QED
    BY <1>0, <2>1
<1>4. PICK g : UpTo(g, Cardinality(S))
  BY <1>3
<1>5. \A s \in SUBSET S : g[s] = SumStep(f, g, s)
  BY <1>0, <1>4
<1>6. IsSumOf(f, S, g)
  <2>1. g = [s \in SUBSET S |-> g[s]]
    BY <1>4
  <2> HIDE DEF UpTo
  <2> QED
    BY <1>5, <2>1 DEF IsSumOf
<1> QED
  BY <1>6

\* And the ones for a set and for a subset of it agree on the subset.
LEMMA SumUnique ==
  ASSUME NEW f, NEW S, IsFiniteSet(S), NEW U \in SUBSET S, NEW g, NEW h,
         IsSumOf(f, S, g), IsSumOf(f, U, h)
  PROVE  g[U] = h[U]
<1> DEFINE X == {s \in SUBSET U : g[s] = h[s]}
<1>1. IsFiniteSet(U)
  BY FS_Subset
<1>2. {} \in X
  BY DEF IsSumOf, SumStep
<1>3. ASSUME NEW T \in SUBSET U, T # {}, T \ {Chosen(T)} \in X PROVE T \in X
  <2>1. T \in SUBSET S /\ g[T] = SumStep(f, g, T) /\ h[T] = SumStep(f, h, T)
    BY DEF IsSumOf
  <2> QED
    BY <1>3, <2>1 DEF SumStep
<1>4. \A s \in SUBSET U : s \in X
  BY <1>1, <1>2, <1>3, SmallerFirst
<1> QED
  BY <1>4

\* What follows is all that is needed of SumFunctionOnSet.
LEMMA SumEmpty ==
  ASSUME NEW f
  PROVE  SumFunctionOnSet(f, {}) = 0
<1>1. PICK g : IsSumOf(f, {}, g)
  BY SumExists, FS_EmptySet
<1> QED
  BY <1>1, SumIsChosen DEF IsSumOf, SumStep

\* The element that is chosen can be taken out of a sum ...
LEMMA SumChosen ==
  ASSUME NEW f, NEW S, IsFiniteSet(S), S # {}
  PROVE  SumFunctionOnSet(f, S) = f[Chosen(S)] + SumFunctionOnSet(f, S \ {Chosen(S)})
<1> DEFINE U == S \ {Chosen(S)}
           g == CHOOSE x : IsSumOf(f, S, x)
           h == CHOOSE x : IsSumOf(f, U, x)
<1>1. IsFiniteSet(U) /\ U \in SUBSET S
  BY FS_RemoveElement
<1>2. IsSumOf(f, S, g) /\ IsSumOf(f, U, h)
  BY <1>1, SumExists
<1>3. SumFunctionOnSet(f, S) = g[S] /\ SumFunctionOnSet(f, U) = h[U]
  BY SumIsChosen
<1> HIDE DEF g, h
<1>4. g[U] = h[U]
  <2> HIDE DEF U
  <2> QED
    BY <1>1, <1>2, SumUnique
<1>5. g[S] = f[Chosen(S)] + g[U]
  BY <1>2 DEF IsSumOf, SumStep
<1> QED
  BY <1>3, <1>4, <1>5

LEMMA SumType ==
  ASSUME NEW f, NEW S, IsFiniteSet(S), \A x \in S : f[x] \in Int
  PROVE  SumFunctionOnSet(f, S) \in Int
<1> DEFINE X == {T \in SUBSET S : SumFunctionOnSet(f, T) \in Int}
<1>1. {} \in X
  BY SumEmpty
<1>2. ASSUME NEW T \in SUBSET S, T # {}, T \ {Chosen(T)} \in X PROVE T \in X
  <2>1. IsFiniteSet(T) /\ Chosen(T) \in S
    BY <1>2, FS_Subset, ChosenIn
  <2>2. SumFunctionOnSet(f, T \ {Chosen(T)}) \in Int
    BY <1>2
  <2>3. SumFunctionOnSet(f, T) = f[Chosen(T)] + SumFunctionOnSet(f, T \ {Chosen(T)})
    BY ONLY <1>2, <2>1, SumChosen
  <2>4. f[Chosen(T)] \in Int
    BY <2>1
  <2>5. SumFunctionOnSet(f, T) \in Int
    BY ONLY <2>2, <2>3, <2>4
  <2> QED
    BY <2>5
<1>3. \A T \in SUBSET S : T \in X
  <2> HIDE DEF X
  <2> QED
    BY <1>1, <1>2, SmallerFirst
<1> QED
  BY <1>3

\* ... and so can any other, by induction on the number of elements.
LEMMA SumTakeOut ==
  ASSUME NEW f, NEW S, IsFiniteSet(S), \A x \in S : f[x] \in Int, NEW e \in S
  PROVE  SumFunctionOnSet(f, S) = f[e] + SumFunctionOnSet(f, S \ {e})
<1> DEFINE sum(T) == SumFunctionOnSet(f, T)
           X == {T \in SUBSET S : \A x \in T : sum(T) = f[x] + sum(T \ {x})}
<1>1. {} \in X
  OBVIOUS
<1>2. ASSUME NEW n \in Nat, \A T \in SUBSET S : Cardinality(T) <= n => T \in X,
             NEW T \in SUBSET S, Cardinality(T) = n + 1, NEW x \in T
      PROVE  sum(T) = f[x] + sum(T \ {x})
  <2> DEFINE c == Chosen(T)
  <2>1. c \in T /\ IsFiniteSet(T)
    BY ChosenIn, FS_Subset
  <2>2. sum(T) = f[c] + sum(T \ {c})
    BY <2>1, SumChosen
  <2> HIDE DEF c
  <2>3. CASE x = c
    BY <2>2, <2>3
  <2>4. CASE x # c
    <3>1. /\ T \ {c} \in SUBSET S /\ T \ {x} \in SUBSET S
          /\ Cardinality(T \ {c}) = n /\ Cardinality(T \ {x}) = n
          /\ x \in T \ {c} /\ c \in T \ {x} /\ (T \ {c}) \ {x} = (T \ {x}) \ {c}
      <4>1. Cardinality(T \ {c}) = Cardinality(T) - 1 /\ Cardinality(T \ {x}) = Cardinality(T) - 1
        BY <2>1, FS_RemoveElement
      <4>2. Cardinality(T \ {c}) = n /\ Cardinality(T \ {x}) = n
        BY <1>2, <4>1
      <4> QED
        BY <2>1, <2>4, <4>2
    <3>2. T \ {c} \in X /\ T \ {x} \in X
      BY <1>2, <3>1
    <3>3. sum(T \ {c}) = f[x] + sum((T \ {c}) \ {x})
      BY <3>1, <3>2
    <3>4. sum(T \ {x}) = f[c] + sum((T \ {x}) \ {c})
      BY <3>1, <3>2
    <3>5. IsFiniteSet((T \ {c}) \ {x}) /\ f[x] \in Int /\ f[c] \in Int
      BY <2>1, FS_RemoveElement
    <3>6. sum((T \ {c}) \ {x}) \in Int
      <4>1. \A y \in (T \ {c}) \ {x} : f[y] \in Int
        OBVIOUS
      <4> QED
        BY <3>5, <4>1, SumType
    <3>7. sum((T \ {x}) \ {c}) = sum((T \ {c}) \ {x})
      BY <3>1
    <3> HIDE DEF sum
    <3> QED
      BY <2>2, <3>3, <3>4, <3>5, <3>6, <3>7
  <2> QED
    BY <2>3, <2>4
<1> DEFINE K == {n \in Nat : \A T \in SUBSET S : Cardinality(T) <= n => T \in X}
<1>3. \A T \in SUBSET S : IsFiniteSet(T) /\ Cardinality(T) \in Nat /\ Cardinality(T) <= Cardinality(S)
  BY FS_Subset, FS_CardinalityType
<1>4. 0 \in K
  <2>1. \A T \in SUBSET S : Cardinality(T) <= 0 => T = {}
    BY <1>3, FS_EmptySet
  <2> HIDE DEF X
  <2> QED
    BY <1>1, <2>1
<1>5. ASSUME NEW n \in Nat, n \in K PROVE n + 1 \in K
  <2> SUFFICES ASSUME NEW T \in SUBSET S, Cardinality(T) <= n + 1 PROVE T \in X
    OBVIOUS
  <2>1. CASE Cardinality(T) <= n
    BY <1>5, <2>1
  <2>2. CASE Cardinality(T) = n + 1
    <3>1. \A U \in SUBSET S : Cardinality(U) <= n => U \in X
      BY <1>5
    <3>2. \A x \in T : sum(T) = f[x] + sum(T \ {x})
      <4> HIDE DEF X, sum
      <4> QED
        BY <1>2, <2>2, <3>1
    <3> QED
      BY <3>2
  <2> QED
    BY <1>3, <2>1, <2>2
<1>6. Cardinality(S) \in K
  <2>1. Nat \subseteq K
    <3> HIDE DEF K
    <3> QED
      BY <1>4, <1>5, NatSet
  <2> QED
    BY <1>3, <2>1
<1>7. S \in X
  BY <1>3, <1>6
<1> QED
  BY <1>7

LEMMA SumAddElement ==
  ASSUME NEW f, NEW S, IsFiniteSet(S), NEW e, e \notin S, \A x \in S \cup {e} : f[x] \in Int
  PROVE  SumFunctionOnSet(f, S \cup {e}) = f[e] + SumFunctionOnSet(f, S)
<1> DEFINE U == S \cup {e}
<1>1. IsFiniteSet(U) /\ e \in U /\ U \ {e} = S /\ \A x \in U : f[x] \in Int
  BY FS_AddElement
<1> HIDE DEF U
<1>2. SumFunctionOnSet(f, U) = f[e] + SumFunctionOnSet(f, U \ {e})
  BY <1>1, SumTakeOut
<1> QED
  BY <1>1, <1>2 DEF U

\* A sum depends on the values in its range only.
LEMMA SumSame ==
  ASSUME NEW f, NEW h, NEW S, IsFiniteSet(S), \A x \in S : f[x] = h[x]
  PROVE  SumFunctionOnSet(f, S) = SumFunctionOnSet(h, S)
<1> DEFINE X == {T \in SUBSET S : SumFunctionOnSet(f, T) = SumFunctionOnSet(h, T)}
<1>1. {} \in X
  BY SumEmpty
<1>2. ASSUME NEW T \in SUBSET S, T # {}, T \ {Chosen(T)} \in X PROVE T \in X
  <2>1. IsFiniteSet(T) /\ Chosen(T) \in S
    BY <1>2, FS_Subset, ChosenIn
  <2>2. f[Chosen(T)] = h[Chosen(T)]
    BY <2>1
  <2>3. SumFunctionOnSet(f, T \ {Chosen(T)}) = SumFunctionOnSet(h, T \ {Chosen(T)})
    BY <1>2
  <2> QED
    BY <1>2, <2>1, <2>2, <2>3, SumChosen
<1>3. \A T \in SUBSET S : T \in X
  BY <1>1, <1>2, SmallerFirst
<1> QED
  BY <1>3

LEMMA SumMonotone ==
  ASSUME NEW f, NEW h, NEW S, IsFiniteSet(S),
         \A x \in S : f[x] \in Int /\ h[x] \in Int /\ f[x] <= h[x]
  PROVE  SumFunctionOnSet(f, S) <= SumFunctionOnSet(h, S)
<1> DEFINE X == {T \in SUBSET S : SumFunctionOnSet(f, T) <= SumFunctionOnSet(h, T)}
<1>1. {} \in X
  BY SumEmpty
<1>2. ASSUME NEW T \in SUBSET S, T # {}, T \ {Chosen(T)} \in X PROVE T \in X
  <2> DEFINE c == Chosen(T)
             U == T \ {c}
  <2>1. IsFiniteSet(T) /\ c \in S /\ IsFiniteSet(U) /\ U \in SUBSET S
    BY <1>2, FS_Subset, ChosenIn, FS_RemoveElement
  <2>2. f[c] \in Int /\ h[c] \in Int /\ f[c] <= h[c]
    BY <2>1
  <2>3. SumFunctionOnSet(f, U) <= SumFunctionOnSet(h, U)
    BY <1>2
  <2>4. /\ SumFunctionOnSet(f, T) = f[c] + SumFunctionOnSet(f, U)
        /\ SumFunctionOnSet(h, T) = h[c] + SumFunctionOnSet(h, U)
    BY <1>2, <2>1, SumChosen
  <2>5. SumFunctionOnSet(f, U) \in Int /\ SumFunctionOnSet(h, U) \in Int
    <3> HIDE DEF U
    <3> QED
      BY <2>1, SumType
  <2> HIDE DEF c, U
  <2>6. SumFunctionOnSet(f, T) <= SumFunctionOnSet(h, T)
    BY <2>2, <2>3, <2>4, <2>5
  <2> QED
    BY <2>6
<1>3. \A T \in SUBSET S : T \in X
  BY <1>1, <1>2, SmallerFirst
<1> QED
  BY <1>3

LEMMA SumZero ==
  ASSUME NEW f, NEW S, IsFiniteSet(S), \A x \in S : f[x] = 0
  PROVE  SumFunctionOnSet(f, S) = 0
<1> DEFINE X == {T \in SUBSET S : SumFunctionOnSet(f, T) = 0}
<1>1. {} \in X
  BY SumEmpty
<1>2. ASSUME NEW T \in SUBSET S, T # {}, T \ {Chosen(T)} \in X PROVE T \in X
  <2>1. IsFiniteSet(T) /\ Chosen(T) \in S
    BY <1>2, FS_Subset, ChosenIn
  <2>2. f[Chosen(T)] = 0
    BY <2>1
  <2>3. SumFunctionOnSet(f, T \ {Chosen(T)}) = 0
    BY <1>2
  <2> QED
    BY <1>2, <2>1, <2>2, <2>3, SumChosen
<1>3. \A T \in SUBSET S : T \in X
  BY <1>1, <1>2, SmallerFirst
<1> QED
  BY <1>3

\* Changing one term changes the sum by as much.
LEMMA SumChange ==
  ASSUME NEW f, NEW h, NEW S, IsFiniteSet(S), NEW e \in S,
         \A x \in S : f[x] \in Int /\ h[x] \in Int,
         \A x \in S \ {e} : f[x] = h[x]
  PROVE  SumFunctionOnSet(h, S) - h[e] = SumFunctionOnSet(f, S) - f[e]
<1> DEFINE U == S \ {e}
<1>1. IsFiniteSet(U) /\ \A x \in U : f[x] = h[x] /\ f[x] \in Int
  BY FS_RemoveElement
<1>2. /\ SumFunctionOnSet(f, S) = f[e] + SumFunctionOnSet(f, U)
      /\ SumFunctionOnSet(h, S) = h[e] + SumFunctionOnSet(h, U)
  BY SumTakeOut
<1> HIDE DEF U
<1>3. SumFunctionOnSet(f, U) = SumFunctionOnSet(h, U) /\ SumFunctionOnSet(f, U) \in Int
  BY <1>1, SumSame, SumType
<1> QED
  BY <1>2, <1>3

-----------------------------------------------------------------------------
(* Remainders *)

LEMMA ModSmall ==
  ASSUME NEW m \in Nat, NEW a \in Nat, a < m
  PROVE  a % m = a
  BY SMT

LEMMA ModRange ==
  ASSUME NEW m \in Nat \ {0}, NEW a \in Nat
  PROVE  a % m \in 0 .. m - 1
  BY SMT

LEMMA ModBelow ==
  ASSUME NEW m \in Nat \ {0}, NEW a \in Nat
  PROVE  a % m <= a
<1>1. a % m \in Nat
  BY SMT
<1>2. a = m * (a \div m) + (a % m) /\ a \div m \in Nat
  BY SMT
<1>3. m * (a \div m) \in Nat
  BY <1>2, SMT
<1> QED
  BY <1>1, <1>2, <1>3, SMT

\* Counting on by one, modulo m.
LEMMA ModNext ==
  ASSUME NEW m \in Nat \ {0}, NEW a \in Nat
  PROVE  (a + 1) % m = IF (a % m) + 1 = m THEN 0 ELSE (a % m) + 1
<1> DEFINE q == a \div m
           r == a % m
<1>1. q \in Nat /\ r \in 0 .. m - 1 /\ a = m * q + r
  BY SMT
<1>2. ASSUME NEW p \in Nat, NEW t \in 0 .. m - 1 PROVE (m * p + t) % m = t
  BY SMT
<1> HIDE DEF q, r
<1>3. CASE r + 1 = m
  <2>1. q + 1 \in Nat /\ m * (q + 1) + 0 = m * q + m
    BY <1>1, SMT
  <2>2. a + 1 = m * (q + 1) + 0
    BY <1>1, <1>3, <2>1, SMT
  <2>3. (m * (q + 1) + 0) % m = 0
    BY <1>1, <1>2, <2>1
  <2> QED
    BY <1>3, <2>2, <2>3 DEF r
<1>4. CASE r + 1 # m
  <2>1. r + 1 \in 0 .. m - 1
    BY <1>1, <1>4
  <2>2. a + 1 = m * q + (r + 1)
    BY <1>1, SMT
  <2>3. (m * q + (r + 1)) % m = r + 1
    BY <1>1, <1>2, <2>1
  <2> QED
    BY <1>4, <2>2, <2>3 DEF r
<1> QED
  BY <1>3, <1>4

\* A remainder is what its number is when multiples are taken away.
LEMMA ModOf ==
  ASSUME NEW m \in Nat \ {0}, NEW p \in Nat, NEW t \in 0 .. m - 1
  PROVE  (m * p + t) % m = t
  BY SMT

LEMMA ModShift ==
  ASSUME NEW m \in Nat \ {0}, NEW a \in Nat
  PROVE  (m + a) % m = a % m
<1> DEFINE q == a \div m
           r == a % m
<1>1. q \in Nat /\ r \in 0 .. m - 1 /\ a = m * q + r
  BY SMT
<1> HIDE DEF q, r
<1>2. q + 1 \in Nat /\ m * (q + 1) = m * q + m /\ m * q \in Nat
  BY <1>1, SMT
<1>3. m + a = m * (q + 1) + r
  BY <1>1, <1>2, SMT
<1>4. (m * (q + 1) + r) % m = r
  BY <1>1, <1>2, ModOf
<1> QED
  BY <1>3, <1>4 DEF r

\* Fewer than m numbers in a row have different remainders.
LEMMA ModDistinct ==
  ASSUME NEW m \in Nat \ {0}, NEW a \in Nat, NEW b \in Nat, a < b, b - a < m
  PROVE  a % m # b % m
<1> DEFINE q == a \div m
           r == a % m
           d == b - a
<1>1. q \in Nat /\ r \in 0 .. m - 1 /\ a = m * q + r
  BY SMT
<1>2. d \in Nat /\ d > 0 /\ d < m /\ b = a + d
  BY SMT
<1> HIDE DEF q, r, d
<1>3. m * q \in Nat
  BY <1>1, SMT
<1>4. CASE r + d < m
  <2>1. r + d \in 0 .. m - 1 /\ b = m * q + (r + d)
    BY <1>1, <1>2, <1>3, <1>4, SMT
  <2>2. (m * q + (r + d)) % m = r + d
    BY <1>1, <2>1, ModOf
  <2> QED
    BY <1>1, <1>2, <2>1, <2>2 DEF r
<1>5. CASE r + d >= m
  <2>1. q + 1 \in Nat /\ m * (q + 1) = m * q + m
    BY <1>1, SMT
  <2>2. r + d - m \in 0 .. m - 1 /\ b = m * (q + 1) + (r + d - m)
    BY <1>1, <1>2, <1>3, <1>5, <2>1, SMT
  <2>3. (m * (q + 1) + (r + d - m)) % m = r + d - m
    BY <1>1, <2>1, <2>2, ModOf
  <2> QED
    BY <1>1, <1>2, <2>2, <2>3 DEF r
<1> QED
  BY <1>1, <1>2, <1>4, <1>5

\* Two remainders in a row, the first modulo a multiple of the second.
LEMMA ModOfMultiple ==
  ASSUME NEW m \in Nat \ {0}, NEW M \in Nat \ {0}, M % m = 0, NEW a \in Nat
  PROVE  (a % M) % m = a % m
<1> DEFINE c == M \div m
           q == a \div M
           r == a % M
           p == r \div m
           t == r % m
<1>1. q \in Nat /\ r \in Nat /\ a = M * q + r
  BY SMT
<1>2. c \in Nat /\ M = m * c
  <2>1. M = m * c + (M % m) /\ c \in Nat
    BY SMT
  <2> QED
    BY <2>1, SMT
<1>3. p \in Nat /\ t \in 0 .. m - 1 /\ r = m * p + t
  BY <1>1, SMT
<1> HIDE DEF c, q, p, t
<1>4. c * q \in Nat /\ (m * c) * q = m * (c * q)
  BY <1>1, <1>2, SMT
<1>5. c * q + p \in Nat /\ m * (c * q + p) = m * (c * q) + m * p
  <2> DEFINE e == c * q
  <2>1. e \in Nat
    BY <1>4
  <2> HIDE DEF e
  <2>2. e + p \in Nat /\ m * (e + p) = m * e + m * p
    BY <1>3, <2>1, SMT
  <2> QED
    BY <2>2 DEF e
<1>6. a = m * (c * q + p) + t
  <2>1. m * (c * q) \in Nat /\ m * p \in Nat
    BY <1>3, <1>4, SMT
  <2> HIDE DEF r
  <2>2. a = m * (c * q) + r
    BY <1>1, <1>2, <1>4
  <2> QED
    BY <1>3, <1>5, <2>1, <2>2
<1>7. a % m = t
  BY <1>3, <1>5, <1>6, ModOf
<1> QED
  BY <1>7 DEF t

\* Adding one to a remainder, or to the number it is of.
LEMMA ModIncrement ==
  ASSUME NEW m \in Nat \ {0}, NEW a \in Nat
  PROVE  ((a % m) + 1) % m = (a + 1) % m
<1>1. a % m \in 0 .. m - 1
  BY ModRange
<1>2. (a + 1) % m = IF (a % m) + 1 = m THEN 0 ELSE (a % m) + 1
  BY ModNext
<1>3. \A t \in 0 .. m - 1 : t % m = t
  BY SMT
<1>4. m % m = 0
  BY SMT
<1> QED
  BY <1>1, <1>2, <1>3, <1>4

\* The quotient, like the remainder, is what multiples are taken away from.
LEMMA DivOf ==
  ASSUME NEW m \in Nat \ {0}, NEW p \in Nat, NEW t \in 0 .. m - 1
  PROVE  (m * p + t) \div m = p
  BY SMT

\* Comparing with a quotient is comparing with a product.
LEMMA DivBelow ==
  ASSUME NEW m \in Nat \ {0}, NEW k \in Nat, NEW c \in Int, k < m * c
  PROVE  k \div m < c
<1> DEFINE q == k \div m
           r == k % m
<1>1. q \in Nat /\ r \in 0 .. m - 1 /\ k = m * q + r
  BY SMT
<1> HIDE DEF q, r
<1>2. SUFFICES ASSUME q >= c PROVE FALSE
  BY <1>1 DEF q
<1>3. m * q >= m * c
  BY <1>1, <1>2, SMT
<1>4. m * q \in Nat /\ m * c \in Int
  BY <1>1, SMT
<1> QED
  BY <1>1, <1>3, <1>4

LEMMA DivAbove ==
  ASSUME NEW m \in Nat \ {0}, NEW k \in Nat, NEW c \in Int, m * c <= k
  PROVE  c <= k \div m
<1> DEFINE q == k \div m
           r == k % m
<1>1. q \in Nat /\ r \in 0 .. m - 1 /\ k = m * q + r
  BY SMT
<1> HIDE DEF q, r
<1>2. SUFFICES ASSUME q + 1 <= c PROVE FALSE
  BY <1>1 DEF q
<1>3. m * (q + 1) <= m * c /\ m * (q + 1) = m * q + m
  BY <1>1, <1>2, SMT
<1>4. m * q \in Nat /\ m * c \in Int
  BY <1>1, SMT
<1> QED
  BY <1>1, <1>3, <1>4

\* For a multiple of m the comparison stays strict.
LEMMA DivAboveMultiple ==
  ASSUME NEW m \in Nat \ {0}, NEW k \in Nat, NEW c \in Int, m * c < k, k % m = 0
  PROVE  c < k \div m
<1> DEFINE q == k \div m
<1>1. q \in Nat /\ k = m * q + (k % m)
  BY SMT
<1>2. k = m * q + 0
  BY <1>1
<1> HIDE DEF q
<1>3. m * q \in Nat /\ m * c \in Int
  BY <1>1, SMT
<1>4. SUFFICES ASSUME q <= c PROVE FALSE
  BY <1>1 DEF q
<1>5. m * q <= m * c
  BY <1>1, <1>4, SMT
<1> QED
  BY ONLY <1>2, <1>3, <1>5, m * c < k, k \in Nat

\* Counting in columns of n cells, of which r make a round.
LEMMA DivOfMod ==
  ASSUME NEW n \in Nat \ {0}, NEW r \in Nat \ {0}, NEW k \in Nat
  PROVE  /\ (k % (r * n)) \div n = (k \div n) % r
         /\ (k % (r * n)) \div n \in 0 .. r - 1
<1> DEFINE M == r * n
           q == k \div M
           d == k % M
           b == d \div n
           t == d % n
<1>1. M \in Nat \ {0}
  BY SMT
<1>2. q \in Nat /\ d \in 0 .. M - 1 /\ k = M * q + d
  <2> HIDE DEF M
  <2> QED
    BY <1>1, SMT
<1>3. d \in Nat /\ d < r * n
  BY <1>1, <1>2
<1> HIDE DEF q, d
<1>4. b \in Nat /\ t \in 0 .. n - 1 /\ d = n * b + t
  BY <1>3, SMT
<1>5. b < r
  <2>1. r * n = n * r
    BY SMT
  <2> QED
    BY <1>3, <2>1, DivBelow
<1>6. k = n * (r * q + b) + t /\ r * q + b \in Nat
  <2>1. (r * n) * q = n * (r * q) /\ r * q \in Nat
    BY <1>2, SMT
  <2> DEFINE e == r * q
  <2> HIDE DEF b, t, e
  <2>2. n * (e + b) = n * e + n * b /\ n * e \in Nat /\ n * b \in Nat
    BY <1>4, <2>1, SMT DEF e
  <2>3. k = n * e + d
    BY <1>2, <2>1 DEF e
  <2>4. k = n * (e + b) + t /\ e + b \in Nat
    BY <1>4, <2>1, <2>2, <2>3 DEF e
  <2> QED
    BY <2>4 DEF e
<1> HIDE DEF b, t, M
<1>7. k \div n = r * q + b
  BY <1>4, <1>6, DivOf
<1>8. (r * q + b) % r = b
  BY <1>2, <1>4, <1>5, ModOf
<1> QED
  BY <1>4, <1>5, <1>7, <1>8 DEF b, d, M

-----------------------------------------------------------------------------
(* Queues *)

\* A queue is cut into the part that is taken and the part that is left.
LEMMA QueueCut ==
  ASSUME NEW S, NEW q \in Seq(S), NEW n \in 0 .. Len(q)
  PROVE  /\ SubSeq(q, 1, n) \in Seq(S) /\ Len(SubSeq(q, 1, n)) = n
         /\ SubSeq(q, n + 1, Len(q)) \in Seq(S) /\ Len(SubSeq(q, n + 1, Len(q))) = Len(q) - n
         /\ \A i \in 1 .. n : SubSeq(q, 1, n)[i] = q[i]
         /\ \A i \in 1 .. Len(q) - n : SubSeq(q, n + 1, Len(q))[i] = q[n + i]
<1>1. Len(q) \in Nat /\ n \in Int /\ \A i \in 1 .. Len(q) : q[i] \in S
  OBVIOUS
<1>2. /\ SubSeq(q, 1, n) \in Seq(S) /\ Len(SubSeq(q, 1, n)) = IF 1 <= n THEN n - 1 + 1 ELSE 0
      /\ \A i \in 1 .. n - 1 + 1 : SubSeq(q, 1, n)[i] = q[1 + i - 1]
  <2>1. 1 \in Int /\ \A i \in 1 .. n : q[i] \in S
    BY <1>1
  <2> QED
    BY <1>1, <2>1, SubSeqProperties
<1>3. /\ SubSeq(q, n + 1, Len(q)) \in Seq(S)
      /\ Len(SubSeq(q, n + 1, Len(q))) = IF n + 1 <= Len(q) THEN Len(q) - (n + 1) + 1 ELSE 0
      /\ \A i \in 1 .. Len(q) - (n + 1) + 1 :
           SubSeq(q, n + 1, Len(q))[i] = q[(n + 1) + i - 1]
  <2>1. n + 1 \in Int /\ Len(q) \in Int /\ \A i \in n + 1 .. Len(q) : q[i] \in S
    BY <1>1
  <2> QED
    BY <2>1, SubSeqProperties
<1> QED
  BY <1>1, <1>2, <1>3

\* A batch: as much of the queue as the caller has room for, but all of it if it fits.
LEMMA BatchCut ==
  ASSUME NEW S, NEW q \in Seq(S), NEW max \in Nat \ {0},
         NEW b, b = SubSeq(q, 1, IF Len(q) < max THEN Len(q) ELSE max),
         NEW r, r = SubSeq(q, Len(b) + 1, Len(q))
  PROVE  /\ b \in Seq(S) /\ r \in Seq(S) /\ Len(b) \in 0 .. Len(q) /\ Len(b) <= max
         /\ q # <<>> => Len(b) > 0
         /\ q = <<>> => b = <<>> /\ r = <<>>
         /\ \A i \in 1 .. Len(q) : q[i] = IF i <= Len(b) THEN b[i] ELSE r[i - Len(b)]
<1> DEFINE n == IF Len(q) < max THEN Len(q) ELSE max
<1>1. Len(q) \in Nat /\ n \in 0 .. Len(q) /\ n <= max /\ b = SubSeq(q, 1, n)
  OBVIOUS
<1>2. (q # <<>> => n > 0) /\ (q = <<>> => n = 0 /\ Len(q) = 0)
  OBVIOUS
<1> HIDE DEF n
<1>3. b \in Seq(S) /\ Len(b) = n /\ \A i \in 1 .. n : b[i] = q[i]
  BY <1>1, QueueCut
<1>4. r \in Seq(S) /\ Len(r) = Len(q) - n /\ \A i \in 1 .. Len(q) - n : r[i] = q[n + i]
  BY <1>1, <1>3, QueueCut
<1>5. \A s \in Seq(S) : Len(s) = 0 => s = <<>>
  OBVIOUS
<1>6. q = <<>> => b = <<>> /\ r = <<>>
  BY <1>2, <1>3, <1>4, <1>5
<1>7. ASSUME NEW i \in 1 .. Len(q)
      PROVE  q[i] = IF i <= Len(b) THEN b[i] ELSE r[i - Len(b)]
  <2>1. i \in 1 .. Len(q) /\ Len(b) = n /\ n \in 0 .. Len(q) /\ Len(q) \in Nat
    BY <1>1, <1>3
  <2>2. CASE i <= n
    BY ONLY <1>3, <2>1, <2>2
  <2>3. CASE i > n
    <3>1. i - n \in 1 .. Len(q) - n /\ n + (i - n) = i
      BY ONLY <2>1, <2>3
    <3>2. r[i - n] = q[n + (i - n)]
      BY ONLY <1>4, <3>1
    <3> QED
      BY ONLY <2>1, <2>3, <3>1, <3>2
  <2> QED
    BY ONLY <2>1, <2>2, <2>3
<1>8. Len(b) \in 0 .. Len(q) /\ Len(b) <= max /\ (q # <<>> => Len(b) > 0)
  BY ONLY <1>1, <1>2, <1>3, <1>4, max \in Nat
<1> QED
  BY ONLY <1>3, <1>4, <1>6, <1>7, <1>8

-----------------------------------------------------------------------------
(* One call of RioConsumer::GroupStatsUpdate *)

\* Updating fields with natural numbers keeps the record's type.
LEMMA InSequenceType ==
  ASSUME NEW s \in GroupStatsType, NEW x \in Nat, NEW y \in Nat
  PROVE  [s EXCEPT !.ExpectedSequence = x, !.Sequence = y] \in GroupStatsType
  BY DEF GroupStatsType

LEMMA AheadType ==
  ASSUME NEW s \in GroupStatsType, NEW x \in Nat, NEW y \in Nat, NEW z \in Nat
  PROVE  [s EXCEPT !.RxDropped = z, !.ExpectedSequence = x, !.Sequence = y] \in GroupStatsType
  BY DEF GroupStatsType

LEMMA BehindType ==
  ASSUME NEW s \in GroupStatsType, NEW x \in Nat, NEW z \in Nat
  PROVE  [s EXCEPT !.RxDropped = z, !.OutOfOrder = x] \in GroupStatsType
  BY DEF GroupStatsType

\* Whatever the packet carries, the counters stay natural numbers.
LEMMA UpdateType ==
  ASSUME NEW s \in GroupStatsType, NEW seq \in Nat
  PROVE  ConsumerStatsUpdate(s, seq) \in GroupStatsType
<1>1. \A r \in GroupStatsType : [r EXCEPT !.Packets = @ + 1] \in GroupStatsType
  BY DEF GroupStatsType
<1>2. CASE seq = s.ExpectedSequence
  <2> DEFINE e == (s.ExpectedSequence + 1) % SeqMod
  <2>1. e \in Nat
    BY SeqModAssumption, SMT DEF GroupStatsType
  <2>2. InSequence(s, seq) = [s EXCEPT !.ExpectedSequence = e, !.Sequence = seq]
    BY DEF InSequence
  <2> HIDE DEF e
  <2>3. InSequence(s, seq) \in GroupStatsType
    BY <2>1, <2>2, InSequenceType
  <2> QED
    BY <1>1, <1>2, <2>3 DEF ConsumerStatsUpdate
<1>3. CASE seq > s.ExpectedSequence
  <2> DEFINE d == IF s.Packets # 0 THEN s.RxDropped + (seq - s.ExpectedSequence) ELSE s.RxDropped
             e == (seq + 1) % SeqMod
  <2>1. d \in Nat /\ e \in Nat /\ seq # s.ExpectedSequence
    BY <1>3, SeqModAssumption, SMT DEF GroupStatsType
  <2>2. AheadOfSequence(s, seq)
          = [s EXCEPT !.RxDropped = d, !.ExpectedSequence = e, !.Sequence = seq]
    BY DEF AheadOfSequence
  <2> HIDE DEF d, e
  <2>3. [s EXCEPT !.RxDropped = d, !.ExpectedSequence = e, !.Sequence = seq] \in GroupStatsType
    BY ONLY <2>1, s \in GroupStatsType, seq \in Nat, AheadType
  <2> QED
    BY <1>1, <1>3, <2>1, <2>2, <2>3 DEF ConsumerStatsUpdate
<1>4. CASE ~(seq = s.ExpectedSequence) /\ ~(seq > s.ExpectedSequence)
  <2> DEFINE d == IF s.RxDropped > 0 THEN s.RxDropped - 1 ELSE s.RxDropped
  <2>1. d \in Nat /\ s.OutOfOrder + 1 \in Nat
    BY DEF GroupStatsType
  <2>2. BehindSequence(s) = [s EXCEPT !.RxDropped = d, !.OutOfOrder = s.OutOfOrder + 1]
    BY DEF BehindSequence
  <2> HIDE DEF d
  <2>3. [s EXCEPT !.RxDropped = d, !.OutOfOrder = s.OutOfOrder + 1] \in GroupStatsType
    BY ONLY <2>1, s \in GroupStatsType, BehindType
  <2> QED
    BY <1>1, <1>4, <2>2, <2>3 DEF ConsumerStatsUpdate
<1> QED
  BY <1>2, <1>3, <1>4

\* A packet that is expected or ahead moves the window and counts the gap.
LEMMA UpdateForward ==
  ASSUME NEW s \in GroupStatsType, NEW seq \in Nat, seq + 1 < SeqMod,
         seq >= s.ExpectedSequence,
         NEW t, t = ConsumerStatsUpdate(s, seq)
  PROVE  /\ t \in GroupStatsType
         /\ t.Packets = s.Packets + 1 /\ t.OutOfOrder = s.OutOfOrder
         /\ t.Sequence = seq /\ t.ExpectedSequence = seq + 1
         /\ s.Packets # 0 => t.RxDropped = s.RxDropped + (seq - s.ExpectedSequence)
         /\ s.Packets = 0 => t.RxDropped = s.RxDropped
<1>1. SeqMod \in Nat
  BY SeqModAssumption
<1>2. (seq + 1) % SeqMod = seq + 1
  BY <1>1, ModSmall
<1>3. CASE seq = s.ExpectedSequence
  <2>1. t = [InSequence(s, seq) EXCEPT !.Packets = @ + 1]
    BY <1>3 DEF ConsumerStatsUpdate
  <2>2. InSequence(s, seq) = [s EXCEPT !.ExpectedSequence = seq + 1, !.Sequence = seq]
    BY <1>2, <1>3 DEF InSequence
  <2>3. InSequence(s, seq) \in GroupStatsType
    BY <2>2, seq + 1 \in Nat, InSequenceType
  <2>4. /\ InSequence(s, seq).ExpectedSequence = seq + 1
        /\ InSequence(s, seq).Sequence = seq
        /\ InSequence(s, seq).Packets = s.Packets
        /\ InSequence(s, seq).OutOfOrder = s.OutOfOrder
        /\ InSequence(s, seq).RxDropped = s.RxDropped
    BY <2>2 DEF GroupStatsType
  <2> QED
    BY <1>3, <2>1, <2>3, <2>4 DEF GroupStatsType
<1>4. CASE seq > s.ExpectedSequence
  <2>1. t = [AheadOfSequence(s, seq) EXCEPT !.Packets = @ + 1]
    BY <1>4 DEF ConsumerStatsUpdate, GroupStatsType
  <2>2. /\ AheadOfSequence(s, seq).RxDropped
              = IF s.Packets # 0 THEN s.RxDropped + (seq - s.ExpectedSequence) ELSE s.RxDropped
        /\ AheadOfSequence(s, seq).ExpectedSequence = seq + 1
        /\ AheadOfSequence(s, seq).Sequence = seq
        /\ AheadOfSequence(s, seq).Packets = s.Packets
        /\ AheadOfSequence(s, seq).OutOfOrder = s.OutOfOrder
    BY <1>1, <1>2, <1>4 DEF GroupStatsType, AheadOfSequence
  <2>3. AheadOfSequence(s, seq) \in GroupStatsType
    <3> DEFINE d == IF s.Packets # 0 THEN s.RxDropped + (seq - s.ExpectedSequence) ELSE s.RxDropped
    <3>1. d \in Nat /\ seq + 1 \in Nat
      BY <1>4 DEF GroupStatsType
    <3>2. AheadOfSequence(s, seq)
            = [s EXCEPT !.RxDropped = d, !.ExpectedSequence = seq + 1, !.Sequence = seq]
      BY <1>2 DEF AheadOfSequence
    <3> HIDE DEF d
    <3>3. [s EXCEPT !.RxDropped = d, !.ExpectedSequence = seq + 1, !.Sequence = seq]
            \in GroupStatsType
      BY ONLY <3>1, s \in GroupStatsType, seq \in Nat, AheadType
    <3> QED
      BY <3>2, <3>3
  <2> QED
    BY <2>1, <2>2, <2>3 DEF GroupStatsType
<1> QED
  BY <1>3, <1>4 DEF GroupStatsType

\* A packet that is behind takes one drop back and does not move the window.
LEMMA UpdateBehind ==
  ASSUME NEW s \in GroupStatsType, NEW seq \in Nat, seq < s.ExpectedSequence,
         NEW t, t = ConsumerStatsUpdate(s, seq)
  PROVE  /\ t \in GroupStatsType
         /\ t.Packets = s.Packets + 1 /\ t.OutOfOrder = s.OutOfOrder + 1
         /\ t.Sequence = s.Sequence /\ t.ExpectedSequence = s.ExpectedSequence
         /\ t.RxDropped = IF s.RxDropped > 0 THEN s.RxDropped - 1 ELSE s.RxDropped
<1>1. t = [BehindSequence(s) EXCEPT !.Packets = @ + 1]
  BY DEF ConsumerStatsUpdate, GroupStatsType
<1>2. /\ BehindSequence(s).RxDropped = IF s.RxDropped > 0 THEN s.RxDropped - 1 ELSE s.RxDropped
      /\ BehindSequence(s).OutOfOrder = s.OutOfOrder + 1
      /\ BehindSequence(s).Packets = s.Packets
      /\ BehindSequence(s).Sequence = s.Sequence
      /\ BehindSequence(s).ExpectedSequence = s.ExpectedSequence
  BY DEF GroupStatsType, BehindSequence
<1>3. BehindSequence(s) \in GroupStatsType
  <2> DEFINE d == IF s.RxDropped > 0 THEN s.RxDropped - 1 ELSE s.RxDropped
  <2>1. d \in Nat /\ s.OutOfOrder + 1 \in Nat
    BY DEF GroupStatsType
  <2>2. BehindSequence(s) = [s EXCEPT !.RxDropped = d, !.OutOfOrder = s.OutOfOrder + 1]
    BY DEF BehindSequence
  <2> HIDE DEF d
  <2> QED
    BY <2>1, <2>2, BehindType
<1> QED
  BY <1>1, <1>2, <1>3 DEF GroupStatsType

\* Every packet is counted, whatever it carries.
LEMMA UpdateCounts ==
  ASSUME NEW s \in GroupStatsType, NEW seq \in Nat
  PROVE  ConsumerStatsUpdate(s, seq).Packets = s.Packets + 1
<1> DEFINE tracked == IF seq = s.ExpectedSequence THEN InSequence(s, seq)
                      ELSE IF seq > s.ExpectedSequence THEN AheadOfSequence(s, seq)
                      ELSE BehindSequence(s)
<1>1. \A r : "Packets" \in DOMAIN r => [r EXCEPT !.Packets = @ + 1].Packets = r.Packets + 1
  OBVIOUS
<1>2. tracked.Packets = s.Packets /\ "Packets" \in DOMAIN tracked
  BY DEF InSequence, AheadOfSequence, BehindSequence, GroupStatsType
<1>3. ConsumerStatsUpdate(s, seq) = [tracked EXCEPT !.Packets = @ + 1]
  BY DEF ConsumerStatsUpdate
<1> HIDE DEF tracked
<1> QED
  BY <1>1, <1>2, <1>3
=============================================================================
