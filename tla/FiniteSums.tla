----------------------------- MODULE FiniteSums -----------------------------
(***************************************************************************)
(* Induction for sets of numbers and of subsets, and what it shows of the  *)
(* sums that MapThenSumSet defines by recursion: the quantities of orders  *)
(* in OrderBook and ReplayEngine, the distances of keys in OrderMap.  The  *)
(* library states induction for a predicate, which the provers cannot      *)
(* instantiate; for a set they can.                                        *)
(***************************************************************************)
EXTENDS Integers, FiniteSetsExt, FiniteSetTheorems, WellFoundedInduction, TLAPS

-----------------------------------------------------------------------------
(* Induction                                                               *)

\* Every non-empty set of natural numbers has a smallest element.
LEMMA HasSmallest ==
  ASSUME NEW N \in SUBSET Nat, N # {}
  PROVE  \E n \in N : \A m \in N : n <= m
<1> DEFINE R == OpToRel(<, Nat)
<1>1. IsWellFoundedOn(R, Nat)
  BY NatLessThanWellFounded
<1>2. \A m, n \in Nat : <<m, n>> \in R <=> m < n
  BY DEF OpToRel
<1> HIDE DEF R
<1>3. PICK n \in N : \A m \in N : ~ (<<m, n>> \in R)
  BY <1>1, WFMin
<1>4. \A m \in N : m \in Nat /\ n \in Nat /\ ~ (m < n)
  BY <1>2, <1>3
<1> QED BY <1>4

\* A set that has 0, and with every number its successor, has all numbers.
LEMMA Induction ==
  ASSUME NEW P \in SUBSET Nat, 0 \in P, \A n \in P : n + 1 \in P
  PROVE  P = Nat
<1>1. SUFFICES ASSUME P # Nat PROVE FALSE
  OBVIOUS
<1>2. PICK n \in Nat \ P : \A m \in Nat \ P : n <= m
  <2>1. Nat \ P \in SUBSET Nat /\ Nat \ P # {}
    BY <1>1
  <2> QED BY <2>1, HasSmallest
<1>3. n - 1 \in P /\ n - 1 + 1 = n
  <2>1. n # 0 /\ n - 1 \in Nat /\ ~ (n <= n - 1)
    BY <1>2
  <2> QED BY <1>2, <2>1
<1> QED BY <1>2, <1>3

\* A set of subsets of S that has {}, and each subset whose subsets without one
\* element it has, has them all.
LEMMA SubsetInduction ==
  ASSUME NEW S, IsFiniteSet(S), NEW P,
         \A T \in SUBSET S : (\A x \in T : T \ {x} \in P) => T \in P
  PROVE  \A T \in SUBSET S : T \in P
<1> DEFINE Sized == {n \in Nat : \A T \in SUBSET S : Cardinality(T) = n => T \in P}
<1>1. \A T \in SUBSET S : /\ IsFiniteSet(T) /\ Cardinality(T) \in Nat
                          /\ \A x \in T : Cardinality(T \ {x}) = Cardinality(T) - 1
  BY FS_Subset, FS_CardinalityType, FS_RemoveElement
<1>2. 0 \in Sized
  <2> SUFFICES ASSUME NEW T \in SUBSET S, Cardinality(T) = 0 PROVE T \in P
    OBVIOUS
  <2>1. T = {}
    BY <1>1, FS_EmptySet
  <2> QED BY <2>1
<1>3. ASSUME NEW n \in Sized PROVE n + 1 \in Sized
  <2> SUFFICES ASSUME NEW T \in SUBSET S, Cardinality(T) = n + 1 PROVE T \in P
    OBVIOUS
  <2>1. ASSUME NEW x \in T PROVE T \ {x} \in P
    <3>1. Cardinality(T \ {x}) = n /\ T \ {x} \in SUBSET S
      BY <1>1
    <3> QED BY <3>1
  <2> QED BY <2>1
<1>4. Sized = Nat
  <2>1. Sized \in SUBSET Nat
    OBVIOUS
  <2> HIDE DEF Sized
  <2> QED BY <1>2, <1>3, <2>1, Induction
<1> QED BY <1>1, <1>4

-----------------------------------------------------------------------------
(* What a set of orders has left                                           *)

\* The sum of what the orders of S have left.
SharesLeft(om, S) == MapThenSumSet(LAMBDA i : om[i].remaining, S)

\* The order that MapThenSumSet adds first.
AnyOf(s) == CHOOSE x \in s : TRUE

\* The recursive definition of the sum, for the sets in D.
Unfolds(g, om, D) ==
  g = [s \in D |-> IF s = {} THEN 0 ELSE om[AnyOf(s)].remaining + g[s \ {AnyOf(s)}]]

LEMMA SharesLeftIsFold ==
  ASSUME NEW om, NEW S
  PROVE  SharesLeft(om, S) = (CHOOSE g : Unfolds(g, om, SUBSET S))[S]
BY DEF SharesLeft, MapThenSumSet, MapThenFoldSet, Unfolds, AnyOf

LEMMA AnyOfIsIn == \A s : s # {} => AnyOf(s) \in s
BY DEF AnyOf

\* The subsets of S that have at most n elements.
Upto(S, n) == {s \in SUBSET S : Cardinality(s) <= n}

LEMMA FoldExists ==
  ASSUME NEW om, NEW S, IsFiniteSet(S)
  PROVE  \E g : Unfolds(g, om, SUBSET S)
<1> DEFINE P == {n \in Nat : \E g : Unfolds(g, om, Upto(S, n))}
<1>1. \A s \in SUBSET S : /\ Cardinality(s) \in Nat
                          /\ Cardinality(s) <= Cardinality(S)
                          /\ s # {} => Cardinality(s \ {AnyOf(s)}) = Cardinality(s) - 1
                          /\ Cardinality(s) = 0 => s = {}
  BY FS_Subset, FS_CardinalityType, FS_RemoveElement, FS_EmptySet, AnyOfIsIn
<1>2. 0 \in P
  <2> DEFINE g == [s \in Upto(S, 0) |-> 0]
  <2>1. \A s \in Upto(S, 0) : s = {}
    <3> SUFFICES ASSUME NEW s \in Upto(S, 0) PROVE s = {}
      OBVIOUS
    <3>1. s \in SUBSET S /\ Cardinality(s) <= 0
      BY DEF Upto
    <3>2. Cardinality(s) = 0
      <4>1. Cardinality(s) \in Nat
        BY <1>1, <3>1
      <4> QED BY <3>1, <4>1
    <3> QED BY <1>1, <3>1, <3>2
  <2>2. Unfolds(g, om, Upto(S, 0))
    BY <2>1 DEF Unfolds
  <2> QED BY <2>2
<1>3. ASSUME NEW n \in P PROVE n + 1 \in P
  <2>1. PICK g : Unfolds(g, om, Upto(S, n))
    OBVIOUS
  <2> DEFINE h == [s \in Upto(S, n + 1) |->
                     IF s = {} THEN 0 ELSE om[AnyOf(s)].remaining + g[s \ {AnyOf(s)}]]
  <2>2. \A s \in Upto(S, n) : s \in Upto(S, n + 1)
    <3> SUFFICES ASSUME NEW s \in Upto(S, n) PROVE s \in Upto(S, n + 1)
      OBVIOUS
    <3>1. s \in SUBSET S /\ Cardinality(s) <= n
      BY DEF Upto
    <3>2. Cardinality(s) <= n + 1
      <4>1. Cardinality(s) \in Nat /\ n \in Nat
        BY <1>1, <3>1
      <4> QED BY <3>1, <4>1
    <3> QED BY <3>1, <3>2 DEF Upto
  <2>3. \A s \in Upto(S, n + 1) : s # {} => s \ {AnyOf(s)} \in Upto(S, n)
    <3> SUFFICES ASSUME NEW s \in Upto(S, n + 1), s # {}
                 PROVE  s \ {AnyOf(s)} \in Upto(S, n)
      OBVIOUS
    <3>1. s \in SUBSET S /\ Cardinality(s) <= n + 1
      BY DEF Upto
    <3>2. Cardinality(s \ {AnyOf(s)}) <= n
      BY <1>1, <3>1
    <3> QED BY <3>1, <3>2 DEF Upto
  <2>4. \A s \in Upto(S, n) :
          g[s] = IF s = {} THEN 0 ELSE om[AnyOf(s)].remaining + g[s \ {AnyOf(s)}]
    BY <2>1 DEF Unfolds
  <2>5. \A s \in Upto(S, n) : h[s] = g[s]
    BY <2>2, <2>4
  <2>6. \A s \in Upto(S, n + 1) : s # {} => h[s \ {AnyOf(s)}] = g[s \ {AnyOf(s)}]
    BY <2>3, <2>5
  <2>7. Unfolds(h, om, Upto(S, n + 1))
    BY <2>6 DEF Unfolds
  <2> HIDE DEF h
  <2> QED BY <2>7
<1>4. P = Nat
  <2>1. P \in SUBSET Nat
    OBVIOUS
  <2> HIDE DEF P
  <2> QED BY <1>2, <1>3, <2>1, Induction
<1>5. PICK c \in Nat : Upto(S, c) = SUBSET S
  <2>1. Cardinality(S) \in Nat
    BY FS_CardinalityType
  <2> QED BY <1>1, <2>1 DEF Upto
<1> QED BY <1>4, <1>5

\* Two such functions agree where both are defined, for orders that have the
\* same left.
LEMMA FoldsAgree ==
  ASSUME NEW om, NEW pm, NEW T, NEW S \in SUBSET T, IsFiniteSet(S), NEW g, NEW h,
         Unfolds(g, om, SUBSET S), Unfolds(h, pm, SUBSET T),
         \A x \in S : om[x].remaining = pm[x].remaining
  PROVE  g[S] = h[S]
<1> DEFINE P == {U \in SUBSET S : g[U] = h[U]}
<1>1. ASSUME NEW U \in SUBSET S, \A x \in U : U \ {x} \in P
      PROVE  U \in P
  <2>1. U \in SUBSET T
    OBVIOUS
  <2>2. CASE U = {}
    BY <2>1, <2>2 DEF Unfolds
  <2>3. CASE U # {}
    <3>1. AnyOf(U) \in U
      BY <2>3, AnyOfIsIn
    <3>2. g[U \ {AnyOf(U)}] = h[U \ {AnyOf(U)}]
      BY <1>1, <3>1
    <3>3. g[U] = om[AnyOf(U)].remaining + g[U \ {AnyOf(U)}]
      BY <2>3 DEF Unfolds
    <3>4. h[U] = pm[AnyOf(U)].remaining + h[U \ {AnyOf(U)}]
      BY <2>1, <2>3 DEF Unfolds
    <3> QED BY <3>1, <3>2, <3>3, <3>4
  <2> QED BY <2>2, <2>3
<1>2. \A U \in SUBSET S : U \in P
  <2> HIDE DEF P
  <2> QED BY <1>1, SubsetInduction
<1> QED BY <1>2

\* The sum of no orders is zero.
LEMMA SharesLeftEmpty == \A om : SharesLeft(om, {}) = 0
<1> TAKE om
<1>1. PICK g : g = (CHOOSE f : Unfolds(f, om, SUBSET {}))
  OBVIOUS
<1>2. Unfolds(g, om, SUBSET {})
  BY <1>1, FoldExists, FS_EmptySet
<1>3. g[{}] = 0
  BY <1>2 DEF Unfolds
<1> QED BY <1>1, <1>3, SharesLeftIsFold

\* The sum depends only on what the orders have left.
LEMMA SharesLeftSame ==
  ASSUME NEW om, NEW pm, NEW S, IsFiniteSet(S),
         \A x \in S : om[x].remaining = pm[x].remaining
  PROVE  SharesLeft(om, S) = SharesLeft(pm, S)
<1>1. PICK g : g = CHOOSE f : Unfolds(f, om, SUBSET S)
  OBVIOUS
<1>2. PICK h : h = CHOOSE f : Unfolds(f, pm, SUBSET S)
  OBVIOUS
<1>3. Unfolds(g, om, SUBSET S) /\ Unfolds(h, pm, SUBSET S)
  BY <1>1, <1>2, FoldExists
<1>4. g[S] = h[S]
  BY <1>3, FoldsAgree
<1> QED BY <1>1, <1>2, <1>4, SharesLeftIsFold

LEMMA SharesLeftOfAnyOf ==
  ASSUME NEW om, NEW S, IsFiniteSet(S), S # {}
  PROVE  SharesLeft(om, S) = om[AnyOf(S)].remaining + SharesLeft(om, S \ {AnyOf(S)})
<1>0. PICK T \in SUBSET S : T = S \ {AnyOf(S)}
  OBVIOUS
<1>1. PICK g : g = CHOOSE f : Unfolds(f, om, SUBSET S)
  OBVIOUS
<1>2. PICK h : h = CHOOSE f : Unfolds(f, om, SUBSET T)
  OBVIOUS
<1>3. T \subseteq S /\ IsFiniteSet(T)
  BY FS_Subset
<1>4. Unfolds(g, om, SUBSET S) /\ Unfolds(h, om, SUBSET T)
  BY <1>1, <1>2, <1>3, FoldExists
<1>5. g[S] = om[AnyOf(S)].remaining + g[T]
  BY <1>0, <1>4 DEF Unfolds
<1>6. h[T] = g[T]
  <2>1. PICK pm : pm = om
    OBVIOUS
  <2>2. Unfolds(g, pm, SUBSET S) /\ \A x \in T : om[x].remaining = pm[x].remaining
    BY <1>4, <2>1
  <2> QED BY <1>3, <1>4, <2>2, FoldsAgree
<1>7. SharesLeft(om, S) = g[S] /\ SharesLeft(om, T) = h[T]
  BY <1>1, <1>2, SharesLeftIsFold
<1> QED BY <1>0, <1>5, <1>6, <1>7

LEMMA SharesLeftInt ==
  ASSUME NEW om, NEW S, IsFiniteSet(S), \A x \in S : om[x].remaining \in Int
  PROVE  SharesLeft(om, S) \in Int
<1> DEFINE P == {T \in SUBSET S : SharesLeft(om, T) \in Int}
<1>1. ASSUME NEW T \in SUBSET S, \A x \in T : T \ {x} \in P
      PROVE  T \in P
  <2>1. CASE T = {}
    BY <2>1, SharesLeftEmpty
  <2>2. CASE T # {}
    <3>1. SharesLeft(om, T) = om[AnyOf(T)].remaining + SharesLeft(om, T \ {AnyOf(T)})
      BY <2>2, SharesLeftOfAnyOf, FS_Subset
    <3> QED BY <1>1, <2>2, <3>1, AnyOfIsIn
  <2> QED BY <2>1, <2>2
<1>2. \A T \in SUBSET S : T \in P
  <2> HIDE DEF P
  <2> QED BY <1>1, SubsetInduction
<1> QED BY <1>2

\* A sum of natural numbers is never below zero.
LEMMA SharesLeftNat ==
  ASSUME NEW om, NEW S, IsFiniteSet(S), \A x \in S : om[x].remaining \in Nat
  PROVE  SharesLeft(om, S) \in Nat
<1> DEFINE P == {T \in SUBSET S : SharesLeft(om, T) \in Nat}
<1>1. ASSUME NEW T \in SUBSET S, \A x \in T : T \ {x} \in P
      PROVE  T \in P
  <2>1. CASE T = {}
    BY <2>1, SharesLeftEmpty
  <2>2. CASE T # {}
    <3>1. SharesLeft(om, T) = om[AnyOf(T)].remaining + SharesLeft(om, T \ {AnyOf(T)})
      BY <2>2, SharesLeftOfAnyOf, FS_Subset
    <3> QED BY <1>1, <2>2, <3>1, AnyOfIsIn
  <2> QED BY <2>1, <2>2
<1>2. \A T \in SUBSET S : T \in P
  <2> HIDE DEF P
  <2> QED BY <1>1, SubsetInduction
<1> QED BY <1>2

\* One order less in the sum, whichever it is.
LEMMA SharesLeftWithout ==
  ASSUME NEW om, NEW S, IsFiniteSet(S), \A x \in S : om[x].remaining \in Int
  PROVE  \A x \in S : SharesLeft(om, S) = om[x].remaining + SharesLeft(om, S \ {x})
<1> DEFINE Splits(T) ==
             \A x \in T : SharesLeft(om, T) = om[x].remaining + SharesLeft(om, T \ {x})
           P == {T \in SUBSET S : Splits(T)}
<1>1. \A T \in SUBSET S : SharesLeft(om, T) \in Int
  BY FS_Subset, SharesLeftInt
<1>2. ASSUME NEW T \in SUBSET S, \A x \in T : T \ {x} \in P
      PROVE  T \in P
  <2> SUFFICES ASSUME NEW x \in T
               PROVE  SharesLeft(om, T) = om[x].remaining + SharesLeft(om, T \ {x})
    OBVIOUS
  <2>1. PICK y \in T :
          SharesLeft(om, T) = om[y].remaining + SharesLeft(om, T \ {y})
    BY SharesLeftOfAnyOf, FS_Subset, AnyOfIsIn
  <2>2. CASE x = y
    BY <2>1, <2>2
  <2>3. CASE x # y
    <3>1. PICK U \in SUBSET S : U = (T \ {x}) \ {y} /\ U = (T \ {y}) \ {x}
      OBVIOUS
    <3>2. /\ SharesLeft(om, T \ {y}) = om[x].remaining + SharesLeft(om, U)
          /\ SharesLeft(om, T \ {x}) = om[y].remaining + SharesLeft(om, U)
      <4>1. x \in T \ {y} /\ y \in T \ {x}
        BY <2>3
      <4>2. Splits(T \ {y}) /\ Splits(T \ {x})
        BY <1>2
      <4> QED BY <3>1, <4>1, <4>2
    <3>3. om[x].remaining \in Int /\ om[y].remaining \in Int /\ SharesLeft(om, U) \in Int
      BY <1>1
    <3> QED BY <2>1, <3>2, <3>3
  <2> QED BY <2>2, <2>3
<1>3. \A T \in SUBSET S : T \in P
  <2> HIDE DEF P
  <2> QED BY <1>2, SubsetInduction
<1> QED BY <1>3

\* What is left changes by what the one order i brings and takes.
LEMMA SharesLeftChange ==
  ASSUME NEW om, NEW pm, NEW S, NEW T, NEW i, IsFiniteSet(S), IsFiniteSet(T),
         S \ {i} = T \ {i},
         \A x \in S : om[x].remaining \in Int,
         \A x \in T : pm[x].remaining \in Int,
         \A x \in S \ {i} : om[x].remaining = pm[x].remaining
  PROVE  SharesLeft(pm, T) =
           SharesLeft(om, S) + (IF i \in T THEN pm[i].remaining ELSE 0)
                             - (IF i \in S THEN om[i].remaining ELSE 0)
<1>0. PICK R \in SUBSET S : R = S \ {i} /\ R = T \ {i}
  OBVIOUS
<1>1. IsFiniteSet(R)
  BY FS_Subset
<1>2. SharesLeft(om, R) = SharesLeft(pm, R)
  BY <1>0, <1>1, SharesLeftSame
<1>3. SharesLeft(om, R) \in Int
  BY <1>0, <1>1, SharesLeftInt
<1>4. SharesLeft(om, S) = SharesLeft(om, R) + (IF i \in S THEN om[i].remaining ELSE 0)
  <2>1. CASE i \in S
    <3>1. SharesLeft(om, S) = om[i].remaining + SharesLeft(om, S \ {i})
      BY <2>1, SharesLeftWithout
    <3> QED BY <1>0, <1>3, <2>1, <3>1
  <2>2. CASE i \notin S
    <3>1. R = S
      BY <1>0, <2>2
    <3> QED BY <1>3, <2>2, <3>1
  <2> QED BY <2>1, <2>2
<1>5. SharesLeft(pm, T) = SharesLeft(pm, R) + (IF i \in T THEN pm[i].remaining ELSE 0)
  <2>1. CASE i \in T
    <3>1. SharesLeft(pm, T) = pm[i].remaining + SharesLeft(pm, R)
      BY <1>0, <2>1, SharesLeftWithout
    <3>2. pm[i].remaining \in Int /\ SharesLeft(pm, R) \in Int
      BY <1>2, <1>3, <2>1
    <3> QED BY <2>1, <3>1, <3>2
  <2>2. CASE i \notin T
    <3>1. R = T
      BY <1>0, <2>2
    <3> QED BY <1>2, <1>3, <2>2, <3>1
  <2> QED BY <2>1, <2>2
<1>6. /\ (IF i \in S THEN om[i].remaining ELSE 0) \in Int
      /\ (IF i \in T THEN pm[i].remaining ELSE 0) \in Int
  OBVIOUS
<1> QED BY <1>2, <1>3, <1>4, <1>5, <1>6

-----------------------------------------------------------------------------
(* Arithmetic modulo m                                                     *)

LEMMA Remainder ==
  ASSUME NEW m \in Nat \ {0}, NEW x \in Int
  PROVE  \E q \in Int, r \in 0 .. m - 1 : x = m * q + r /\ r = x % m
<1>1. x = m * (x \div m) + (x % m) /\ x \div m \in Int /\ x % m \in 0 .. m - 1
  OBVIOUS
<1> QED BY <1>1

LEMMA RemainderUnique ==
  ASSUME NEW m \in Nat \ {0}, NEW x \in Int, NEW r \in 0 .. m - 1, NEW q \in Int,
         x = m * q + r
  PROVE  x % m = r
OBVIOUS

\* Wrapping around before an addition makes no difference.
LEMMA RemainderAdds ==
  ASSUME NEW m \in Nat \ {0}, NEW n \in Int, NEW d \in Int
  PROVE  ((n % m) + d) % m = (n + d) % m
<1>1. PICK q \in Int, r \in 0 .. m - 1 : n = m * q + r /\ r = n % m
  BY Remainder
<1>2. PICK p \in Int, t \in 0 .. m - 1 : r + d = m * p + t /\ t = (r + d) % m
  <2>1. r + d \in Int
    OBVIOUS
  <2> QED BY <2>1, Remainder
<1>3. m * q + m * p = m * (q + p) /\ m * q \in Int /\ m * p \in Int
  OBVIOUS
<1>4. n + d = m * (q + p) + t
  BY <1>1, <1>2, <1>3
<1>5. (n + d) % m = t
  <2>1. q + p \in Int /\ n + d \in Int
    OBVIOUS
  <2> HIDE <1>1, <1>2
  <2> QED BY <1>4, <2>1, RemainderUnique
<1> QED BY <1>1, <1>2, <1>5

=============================================================================
