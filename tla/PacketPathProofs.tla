-------------------------- MODULE PacketPathProofs --------------------------
(***************************************************************************)
(* What holds on the path of a packet for every value of the constants:    *)
(* the sliding windows follow the log of what came in, so the detectors    *)
(* measure what they promise and raise only what the log backs; the rules  *)
(* match on fields that are there; the parser and the summary read alike;  *)
(* and the limiter and the counters of the capture keep their bounds.      *)
(***************************************************************************)
EXTENDS PacketPath, FiniteSetTheorems, WellFoundedInduction, SequenceTheorems, TLAPS

(* Sums over finite sets.  The induction is over the naturals, with a set  *)
(* of those that have the property in place of a predicate.                *)
LEMMA NaturalsGrow ==
  ASSUME NEW S \in SUBSET Nat, 0 \in S, \A n \in S : n + 1 \in S
  PROVE  S = Nat
<1> SUFFICES ASSUME Nat \ S # {}  PROVE FALSE
  OBVIOUS
<1> DEFINE Less == {pair \in Nat \X Nat : pair[1] < pair[2]}
<1>0. IsWellFoundedOn(Less, Nat)
  BY NatLessThanWellFounded, Zenon DEF OpToRel
<1> HIDE DEF Less
<1>1. PICK x \in Nat \ S : \A y \in Nat \ S : <<y, x>> \notin Less
  BY <1>0, WFMin
<1>2. x # 0 /\ x - 1 \in Nat \ S
  OBVIOUS
<1>3. <<x - 1, x>> \in Nat \X Nat /\ <<x - 1, x>>[1] < <<x - 1, x>>[2]
  BY <1>2
<1>4. <<x - 1, x>> \in Less
  BY <1>3 DEF Less
<1> QED
  BY <1>1, <1>2, <1>4

Picked(s) == CHOOSE x \in s : TRUE
Adds(g, f, S) ==
    g = [s \in SUBSET S |-> IF s = {} THEN 0 ELSE f[Picked(s)] + g[s \ {Picked(s)}]]

LEMMA SumIsRecursive ==
  ASSUME NEW f, NEW S
  PROVE  SumFunctionOnSet(f, S) = (CHOOSE g : Adds(g, f, S))[S]
BY DEF SumFunctionOnSet, FoldFunctionOnSet, MapThenFoldSet, Adds, Picked

LEMMA PickedIsIn == ASSUME NEW s, s # {} PROVE Picked(s) \in s
BY DEF Picked

LEMMA Smaller ==
  ASSUME NEW s, IsFiniteSet(s), NEW x \in s
  PROVE  /\ IsFiniteSet(s \ {x}) /\ Cardinality(s) \in Nat \ {0}
         /\ Cardinality(s \ {x}) = Cardinality(s) - 1
BY FS_RemoveElement, FS_CardinalityType, FS_EmptySet

LEMMA SumsExist ==
  ASSUME NEW f, NEW S, IsFiniteSet(S)
  PROVE  \E g : Adds(g, f, S)
<1> DEFINE Right(g, n) ==
      \A s \in SUBSET S : Cardinality(s) <= n =>
        g[s] = IF s = {} THEN 0 ELSE f[Picked(s)] + g[s \ {Picked(s)}]
<1> DEFINE N == {n \in Nat : \E g : Right(g, n)}
<1>0. \A s \in SUBSET S : IsFiniteSet(s) /\ Cardinality(s) \in Nat
  BY FS_Subset, FS_CardinalityType
<1>1. 0 \in N
  <2> DEFINE g == [s \in SUBSET S |-> 0]
  <2>1. \A s \in SUBSET S : Cardinality(s) <= 0 => s = {}
    BY <1>0, FS_EmptySet
  <2>2. Right(g, 0)
    BY <2>1
  <2> QED
    BY <2>2
<1>2. ASSUME NEW n \in N  PROVE n + 1 \in N
  <2>0. n \in Nat
    OBVIOUS
  <2>1. PICK g : Right(g, n)
    OBVIOUS
  <2> DEFINE h == [s \in SUBSET S |->
                     IF Cardinality(s) <= n THEN g[s]
                     ELSE IF s = {} THEN 0 ELSE f[Picked(s)] + g[s \ {Picked(s)}]]
  <2>2. SUFFICES Right(h, n + 1)
    <3> HIDE DEF h, Right
    <3> QED
      BY <2>0
  <2> SUFFICES ASSUME NEW s \in SUBSET S, Cardinality(s) <= n + 1
               PROVE  h[s] = IF s = {} THEN 0 ELSE f[Picked(s)] + h[s \ {Picked(s)}]
    OBVIOUS
  <2>3. CASE s = {}
    <3>1. Cardinality(s) = 0
      BY <2>3, FS_EmptySet
    <3> QED
      BY <2>1, <2>3, <3>1
  <2>4. CASE s # {}
    <3> DEFINE x == Picked(s)
    <3>1. x \in s /\ s \ {x} \in SUBSET S
      BY <2>4, PickedIsIn
    <3>2. Cardinality(s \ {x}) = Cardinality(s) - 1 /\ Cardinality(s) \in Nat
      BY <1>0, <3>1, Smaller
    <3> HIDE DEF x
    <3>3. h[s \ {x}] = g[s \ {x}]
      <4>1. Cardinality(s \ {x}) <= n
        BY <2>0, <3>2
      <4> QED
        BY <3>1, <4>1
    <3>4. h[s] = f[x] + g[s \ {x}]
      BY <2>1, <2>4 DEF x
    <3> QED
      BY <2>4, <3>3, <3>4 DEF x
  <2> QED
    BY <2>3, <2>4
<1>3. N = Nat
  <2> HIDE DEF N
  <2>1. N \subseteq Nat
    BY DEF N
  <2> QED
    BY <1>1, <1>2, <2>1, NaturalsGrow
<1>4. PICK g : Right(g, Cardinality(S))
  <2>1. Cardinality(S) \in N
    BY <1>0, <1>3
  <2> QED
    BY <2>1
<1> DEFINE all == [s \in SUBSET S |-> g[s]]
<1>5. \A s \in SUBSET S : all[s] = IF s = {} THEN 0 ELSE f[Picked(s)] + all[s \ {Picked(s)}]
  <2> SUFFICES ASSUME NEW s \in SUBSET S
               PROVE  all[s] = IF s = {} THEN 0 ELSE f[Picked(s)] + all[s \ {Picked(s)}]
    OBVIOUS
  <2>1. Cardinality(s) <= Cardinality(S)
    BY FS_Subset
  <2> QED
    BY <1>4, <2>1
<1>6. Adds(all, f, S)
  BY <1>5 DEF Adds
<1> QED
  BY <1>6

LEMMA SumsAgree ==
  ASSUME NEW f, NEW e, NEW S, NEW T, IsFiniteSet(S), S \subseteq T,
         NEW g, NEW h, Adds(g, f, S), Adds(h, e, T),
         \A x \in S : f[x] = e[x]
  PROVE  \A s \in SUBSET S : g[s] = h[s]
<1> DEFINE N == {n \in Nat : \A s \in SUBSET S : Cardinality(s) = n => g[s] = h[s]}
<1>0. \A s \in SUBSET S : IsFiniteSet(s) /\ Cardinality(s) \in Nat
  BY FS_Subset, FS_CardinalityType
<1>1. 0 \in N
  <2>1. \A s \in SUBSET S : Cardinality(s) = 0 => s = {}
    BY <1>0, FS_EmptySet
  <2>2. g[{}] = 0 /\ h[{}] = 0
    BY DEF Adds
  <2> QED
    BY <2>1, <2>2
<1>2. ASSUME NEW n \in N  PROVE n + 1 \in N
  <2>0. n \in Nat
    OBVIOUS
  <2>1. SUFFICES ASSUME NEW s \in SUBSET S, Cardinality(s) = n + 1
                 PROVE  g[s] = h[s]
    BY <2>0
  <2>2. s # {}
    <3>1. n + 1 # 0 /\ Cardinality({}) = 0
      BY <2>0, FS_EmptySet
    <3> QED
      BY <2>1, <3>1
  <2> DEFINE x == Picked(s)
  <2>3. x \in s /\ s \ {x} \in SUBSET S
    BY <2>2, PickedIsIn
  <2>4. Cardinality(s \ {x}) = n
    BY <1>0, <2>0, <2>1, <2>3, Smaller
  <2>5. g[s] = f[x] + g[s \ {x}]
    BY <2>2 DEF Adds
  <2>6. h[s] = e[x] + h[s \ {x}]
    BY <2>2 DEF Adds
  <2> HIDE DEF x
  <2>7. g[s \ {x}] = h[s \ {x}]
    BY <2>3, <2>4
  <2>8. f[x] = e[x]
    BY <2>3
  <2> QED
    BY <2>5, <2>6, <2>7, <2>8
<1>3. N = Nat
  <2> HIDE DEF N
  <2>1. N \in SUBSET Nat
    BY DEF N
  <2> QED
    BY <1>1, <1>2, <2>1, NaturalsGrow
<1> QED
  BY <1>0, <1>3

(* What is summed up in another way, or another function with the same     *)
(* values, is the same.                                                    *)
LEMMA SumsOfTheSame ==
  ASSUME NEW f, NEW e, NEW S, IsFiniteSet(S), \A x \in S : f[x] = e[x]
  PROVE  SumFunctionOnSet(f, S) = SumFunctionOnSet(e, S)
<1> DEFINE g == CHOOSE g : Adds(g, f, S)
<1> DEFINE h == CHOOSE h : Adds(h, e, S)
<1>1. Adds(g, f, S) /\ Adds(h, e, S)
  BY SumsExist
<1>2. SumFunctionOnSet(f, S) = g[S] /\ SumFunctionOnSet(e, S) = h[S]
  BY SumIsRecursive
<1> HIDE DEF g, h
<1>3. \A s \in SUBSET S : g[s] = h[s]
  BY <1>1, SumsAgree
<1> QED
  BY <1>2, <1>3

LEMMA SumOfNothing == ASSUME NEW f PROVE SumFunctionOnSet(f, {}) = 0
<1>1. Adds(CHOOSE g : Adds(g, f, {}), f, {})
  BY SumsExist, FS_EmptySet
<1> QED
  BY <1>1, SumIsRecursive DEF Adds

LEMMA SumOfSome ==
  ASSUME NEW f, NEW S, IsFiniteSet(S), S # {}
  PROVE  SumFunctionOnSet(f, S) = f[Picked(S)] + SumFunctionOnSet(f, S \ {Picked(S)})
<1> DEFINE T == S \ {Picked(S)}
<1> DEFINE g == CHOOSE g : Adds(g, f, S)
<1> DEFINE h == CHOOSE h : Adds(h, f, T)
<1>0. IsFiniteSet(T) /\ T \in SUBSET S
  BY FS_Subset
<1> HIDE DEF T
<1>1. Adds(g, f, S) /\ Adds(h, f, T)
  BY <1>0, SumsExist
<1>2. SumFunctionOnSet(f, S) = g[S] /\ SumFunctionOnSet(f, T) = h[T]
  BY SumIsRecursive
<1> HIDE DEF g, h
<1>3. g[T] = h[T]
  <2>0. T \subseteq S /\ \A x \in T : f[x] = f[x]
    BY <1>0
  <2>1. \A s \in SUBSET T : h[s] = g[s]
    <3>1. \A e : Adds(g, e, S) /\ (\A x \in T : f[x] = e[x]) => \A s \in SUBSET T : h[s] = g[s]
      BY <1>0, <1>1, <2>0, SumsAgree
    <3> QED
      BY <1>1, <2>0, <3>1
  <2> QED
    BY <2>1
<1>4. g[S] = f[Picked(S)] + g[T]
  BY <1>1 DEF Adds, T
<1> QED
  BY <1>2, <1>3, <1>4 DEF T

(* A sum may be taken in any order.                                        *)
LEMMA SumTakesAny ==
  ASSUME NEW U, IsFiniteSet(U), NEW f, \A x \in U : f[x] \in Nat
  PROVE  \A S \in SUBSET U :
           /\ SumFunctionOnSet(f, S) \in Nat
           /\ \A x \in S : SumFunctionOnSet(f, S) = f[x] + SumFunctionOnSet(f, S \ {x})
<1> DEFINE Fine(S) == /\ SumFunctionOnSet(f, S) \in Nat
                      /\ \A x \in S : SumFunctionOnSet(f, S) = f[x] + SumFunctionOnSet(f, S \ {x})
<1> DEFINE N == {n \in Nat : \A S \in SUBSET U : Cardinality(S) <= n => Fine(S)}
<1>0. \A S \in SUBSET U : IsFiniteSet(S) /\ Cardinality(S) \in Nat
  BY FS_Subset, FS_CardinalityType
<1>1. 0 \in N
  <2>1. \A S \in SUBSET U : Cardinality(S) <= 0 => S = {}
    BY <1>0, FS_EmptySet
  <2>2. Fine({})
    BY SumOfNothing
  <2> HIDE DEF Fine
  <2> QED
    BY <2>1, <2>2
<1>2. ASSUME NEW n \in N  PROVE n + 1 \in N
  <2>0. n \in Nat /\ \A S \in SUBSET U : Cardinality(S) <= n => Fine(S)
    OBVIOUS
  <2> HIDE DEF N
  <2>1. SUFFICES ASSUME NEW S \in SUBSET U, Cardinality(S) <= n + 1, S # {}
                 PROVE  Fine(S)
    BY <2>0, SumOfNothing DEF N
  <2> DEFINE p == Picked(S)
  <2>2. p \in S
    BY <2>1, PickedIsIn
  <2>3. \A x \in S : Fine(S \ {x}) /\ f[x] \in Nat
    <3> SUFFICES ASSUME NEW x \in S  PROVE Fine(S \ {x})
      OBVIOUS
    <3>1. Cardinality(S \ {x}) <= n /\ S \ {x} \in SUBSET U
      BY <1>0, <2>0, <2>1, Smaller
    <3> QED
      BY <2>0, <3>1
  <2>4. SumFunctionOnSet(f, S) = f[p] + SumFunctionOnSet(f, S \ {p})
    BY <1>0, <2>1, SumOfSome
  <2> HIDE DEF p
  <2>5. SumFunctionOnSet(f, S) \in Nat
    BY <2>2, <2>3, <2>4
  <2>6. ASSUME NEW x \in S, x # p
        PROVE  SumFunctionOnSet(f, S) = f[x] + SumFunctionOnSet(f, S \ {x})
    <3> DEFINE rest == SumFunctionOnSet(f, (S \ {p}) \ {x})
    <3>1. SumFunctionOnSet(f, S \ {p}) = f[x] + rest
      BY <2>2, <2>3, <2>6
    <3>2. SumFunctionOnSet(f, S \ {x}) = f[p] + SumFunctionOnSet(f, (S \ {x}) \ {p})
      BY <2>2, <2>3, <2>6
    <3>3. (S \ {x}) \ {p} = (S \ {p}) \ {x}
      OBVIOUS
    <3>4. rest \in Nat
      <4>1. Fine(S \ {p}) /\ x \in S \ {p} /\ SumFunctionOnSet(f, S \ {p}) \in Nat
        BY <2>2, <2>3, <2>6
      <4>2. Cardinality((S \ {p}) \ {x}) <= n /\ (S \ {p}) \ {x} \in SUBSET U
        <5>1. Cardinality(S \ {p}) = Cardinality(S) - 1 /\ IsFiniteSet(S \ {p})
          BY <1>0, <2>2, Smaller
        <5>2. Cardinality((S \ {p}) \ {x}) = Cardinality(S \ {p}) - 1
          BY <4>1, <5>1, Smaller
        <5> QED
          BY <1>0, <2>0, <2>1, <5>1, <5>2
      <4> QED
        BY <2>0, <4>2
    <3> HIDE DEF rest
    <3>5. SumFunctionOnSet(f, (S \ {x}) \ {p}) = rest
      BY <3>3 DEF rest
    <3>6. f[p] \in Nat /\ f[x] \in Nat
      BY <2>2
    <3> QED
      BY <2>4, <3>1, <3>2, <3>4, <3>5, <3>6
  <2> QED
    BY <2>4, <2>5, <2>6
<1>3. N = Nat
  <2> HIDE DEF N
  <2>1. N \in SUBSET Nat
    BY DEF N
  <2> QED
    BY <1>1, <1>2, <2>1, NaturalsGrow
<1> QED
  BY <1>0, <1>3

LEMMA SumTakes ==
  ASSUME NEW S, IsFiniteSet(S), NEW f, \A x \in S : f[x] \in Nat, NEW x \in S
  PROVE  SumFunctionOnSet(f, S) = f[x] + SumFunctionOnSet(f, S \ {x})
<1> DEFINE U == S
<1>1. IsFiniteSet(U) /\ (\A y \in U : f[y] \in Nat) /\ S \in SUBSET U
  OBVIOUS
<1> HIDE DEF U
<1> QED
  BY <1>1, SumTakesAny

LEMMA SumsCount ==
  ASSUME NEW S, IsFiniteSet(S), NEW f, \A x \in S : f[x] \in Nat
  PROVE  SumFunctionOnSet(f, S) \in Nat
<1> DEFINE U == S
<1>1. IsFiniteSet(U) /\ (\A y \in U : f[y] \in Nat) /\ S \in SUBSET U
  OBVIOUS
<1> HIDE DEF U
<1> QED
  BY <1>1, SumTakesAny

(* More is never less.                                                     *)
LEMMA SumsGrow ==
  ASSUME NEW U, IsFiniteSet(U), NEW f, \A x \in U : f[x] \in Nat,
         NEW S \in SUBSET U
  PROVE  SumFunctionOnSet(f, S) <= SumFunctionOnSet(f, U)
<1> DEFINE N == {n \in Nat : \A T \in SUBSET U : Cardinality(T) = n /\ S \subseteq T =>
                               SumFunctionOnSet(f, S) <= SumFunctionOnSet(f, T)}
<1>0. \A T \in SUBSET U : IsFiniteSet(T) /\ Cardinality(T) \in Nat /\ SumFunctionOnSet(f, T) \in Nat
  BY FS_Subset, FS_CardinalityType, SumTakesAny
<1>1. 0 \in N
  <2>1. \A T \in SUBSET U : Cardinality(T) = 0 /\ S \subseteq T => T = S
    BY <1>0, FS_EmptySet
  <2> QED
    BY <1>0, <2>1
<1>2. ASSUME NEW n \in N  PROVE n + 1 \in N
  <2>0. n \in Nat
    OBVIOUS
  <2>1. SUFFICES ASSUME NEW T \in SUBSET U, Cardinality(T) = n + 1, S \subseteq T
                 PROVE  SumFunctionOnSet(f, S) <= SumFunctionOnSet(f, T)
    BY <2>0
  <2>2. CASE S = T
    BY <1>0, <2>2
  <2>3. CASE S # T
    <3>1. PICK x \in T : x \notin S
      BY <2>1, <2>3
    <3>2. Cardinality(T \ {x}) = n /\ T \ {x} \in SUBSET U /\ S \subseteq T \ {x}
      BY <1>0, <2>0, <2>1, <3>1, Smaller
    <3>3. SumFunctionOnSet(f, S) <= SumFunctionOnSet(f, T \ {x})
      BY <3>2
    <3>4. SumFunctionOnSet(f, T) = f[x] + SumFunctionOnSet(f, T \ {x}) /\ f[x] \in Nat
      BY SumTakesAny
    <3> QED
      BY <1>0, <3>2, <3>3, <3>4
  <2> QED
    BY <2>2, <2>3
<1>3. N = Nat
  <2> HIDE DEF N
  <2>1. N \in SUBSET Nat
    BY DEF N
  <2> QED
    BY <1>1, <1>2, <2>1, NaturalsGrow
<1> QED
  BY <1>0, <1>3

(* Whatever is one each is counted.                                        *)
LEMMA OnesAreCounted ==
  ASSUME NEW U, IsFiniteSet(U), NEW f, \A x \in U : f[x] = 1
  PROVE  SumFunctionOnSet(f, U) = Cardinality(U)
<1> DEFINE N == {n \in Nat : \A T \in SUBSET U : Cardinality(T) = n => SumFunctionOnSet(f, T) = n}
<1>0. \A T \in SUBSET U : IsFiniteSet(T) /\ Cardinality(T) \in Nat
  BY FS_Subset, FS_CardinalityType
<1>1. 0 \in N
  <2>1. \A T \in SUBSET U : Cardinality(T) = 0 => T = {}
    BY <1>0, FS_EmptySet
  <2> QED
    BY <2>1, SumOfNothing
<1>2. ASSUME NEW n \in N  PROVE n + 1 \in N
  <2>0. n \in Nat
    OBVIOUS
  <2>1. SUFFICES ASSUME NEW T \in SUBSET U, Cardinality(T) = n + 1
                 PROVE  SumFunctionOnSet(f, T) = n + 1
    BY <2>0
  <2>2. PICK x : x \in T
    <3>1. n + 1 # 0 /\ Cardinality({}) = 0
      BY <2>0, FS_EmptySet
    <3> QED
      BY <2>1, <3>1
  <2>3. Cardinality(T \ {x}) = n /\ T \ {x} \in SUBSET U
    BY <1>0, <2>0, <2>1, <2>2, Smaller
  <2>4. SumFunctionOnSet(f, T) = f[x] + SumFunctionOnSet(f, T \ {x})
    BY <2>2, SumTakesAny
  <2> QED
    BY <2>0, <2>2, <2>3, <2>4
<1>3. N = Nat
  <2> HIDE DEF N
  <2>1. N \in SUBSET Nat
    BY DEF N
  <2> QED
    BY <1>1, <1>2, <2>1, NaturalsGrow
<1> QED
  BY <1>0, <1>3

(* A stretch of a sequence that has moved sums up to the same.             *)
Moved(n, d, e, f) == \A i \in 1 .. n : e[i] = f[i + d] /\ e[i] \in Nat
SumsMoved(n, d, e, f) ==
    \A j \in 1 .. n + 1 : SumFunctionOnSet(e, j .. n) = SumFunctionOnSet(f, j + d .. n + d)

LEMMA SumsMove ==
  ASSUME NEW n \in Nat, NEW d \in Nat, NEW e, NEW f, Moved(n, d, e, f)
  PROVE  SumsMoved(n, d, e, f)
<1> USE DEF Moved
<1> DEFINE N == {m \in Nat : m <= n =>
      SumFunctionOnSet(e, n - m + 1 .. n) = SumFunctionOnSet(f, n - m + 1 + d .. n + d)}
<1>0. /\ IsFiniteSet(1 .. n) /\ IsFiniteSet(1 + d .. n + d)
      /\ \A i \in 1 + d .. n + d : f[i] \in Nat
  <2>1. \A i \in 1 + d .. n + d : i - d \in 1 .. n /\ (i - d) + d = i
    OBVIOUS
  <2>2. 1 \in Int /\ n \in Int /\ 1 + d \in Int /\ n + d \in Int
    OBVIOUS
  <2>3. IsFiniteSet(1 .. n) /\ IsFiniteSet(1 + d .. n + d)
    BY <2>2, FS_Interval
  <2> QED
    BY <2>1, <2>3
<1>a. /\ \A S \in SUBSET (1 .. n) : \A x \in S :
           SumFunctionOnSet(e, S) = e[x] + SumFunctionOnSet(e, S \ {x})
      /\ \A S \in SUBSET (1 + d .. n + d) : \A x \in S :
           SumFunctionOnSet(f, S) = f[x] + SumFunctionOnSet(f, S \ {x})
  <2> DEFINE U == 1 .. n
  <2> DEFINE V == 1 + d .. n + d
  <2>1. /\ IsFiniteSet(U) /\ \A x \in U : e[x] \in Nat
        /\ IsFiniteSet(V) /\ \A x \in V : f[x] \in Nat
    BY <1>0
  <2> HIDE DEF U, V
  <2>2. \A S \in SUBSET U : \A x \in S :
           SumFunctionOnSet(e, S) = e[x] + SumFunctionOnSet(e, S \ {x})
    <3> SUFFICES ASSUME NEW S \in SUBSET U, NEW x \in S
                 PROVE  SumFunctionOnSet(e, S) = e[x] + SumFunctionOnSet(e, S \ {x})
      OBVIOUS
    <3> QED
      BY <2>1, SumTakesAny
  <2>3. \A S \in SUBSET V : \A x \in S :
           SumFunctionOnSet(f, S) = f[x] + SumFunctionOnSet(f, S \ {x})
    <3> SUFFICES ASSUME NEW S \in SUBSET V, NEW x \in S
                 PROVE  SumFunctionOnSet(f, S) = f[x] + SumFunctionOnSet(f, S \ {x})
      OBVIOUS
    <3> QED
      BY <2>1, SumTakesAny
  <2> QED
    BY <2>2, <2>3 DEF U, V
<1>1. 0 \in N
  <2>1. n - 0 + 1 .. n = {} /\ n - 0 + 1 + d .. n + d = {}
    OBVIOUS
  <2> QED
    BY <2>1, SumOfNothing
<1>2. ASSUME NEW m \in N  PROVE m + 1 \in N
  <2>0. m \in Nat
    OBVIOUS
  <2>1. SUFFICES ASSUME m + 1 <= n
                 PROVE  SumFunctionOnSet(e, n - m .. n) = SumFunctionOnSet(f, n - m + d .. n + d)
    <3>1. n - (m + 1) + 1 = n - m
      BY <2>0
    <3> QED
      BY <2>0, <3>1
  <2>2. SumFunctionOnSet(e, n - m + 1 .. n) = SumFunctionOnSet(f, n - m + 1 + d .. n + d)
    BY <2>0, <2>1
  <2>3. SumFunctionOnSet(e, n - m .. n) = e[n - m] + SumFunctionOnSet(e, n - m + 1 .. n)
    <3>1. n - m .. n \in SUBSET (1 .. n) /\ n - m \in n - m .. n
      BY <2>0, <2>1
    <3>2. (n - m .. n) \ {n - m} = n - m + 1 .. n
      BY <2>0
    <3> QED
      BY <1>a, <3>1, <3>2
  <2>4. SumFunctionOnSet(f, n - m + d .. n + d)
          = f[n - m + d] + SumFunctionOnSet(f, n - m + 1 + d .. n + d)
    <3>1. n - m + d .. n + d \in SUBSET (1 + d .. n + d) /\ n - m + d \in n - m + d .. n + d
      BY <2>0, <2>1
    <3>2. (n - m + d .. n + d) \ {n - m + d} = n - m + 1 + d .. n + d
      BY <2>0
    <3> QED
      BY <1>a, <3>1, <3>2
  <2>5. e[n - m] = f[n - m + d]
    BY <2>0, <2>1
  <2> QED
    BY <2>2, <2>3, <2>4, <2>5
<1>3. N = Nat
  <2> HIDE DEF N
  <2>1. N \in SUBSET Nat
    BY DEF N
  <2> QED
    BY <1>1, <1>2, <2>1, NaturalsGrow
<1>4. SUFFICES ASSUME NEW j \in 1 .. n + 1
               PROVE  SumFunctionOnSet(e, j .. n) = SumFunctionOnSet(f, j + d .. n + d)
  BY DEF SumsMoved
<1>5. n - j + 1 \in Nat /\ n - j + 1 <= n
  OBVIOUS
<1>6. n - (n - j + 1) + 1 = j
  OBVIOUS
<1>7. n - j + 1 \in N
  <2> HIDE DEF N
  <2> QED
    BY <1>3, <1>5
<1> QED
  BY <1>5, <1>6, <1>7

(* Any numbers there are have a least one.                                 *)
LEMMA LeastIsThere ==
  ASSUME NEW S \in SUBSET Nat, S # {}
  PROVE  Min(S) \in S /\ \A y \in S : Min(S) <= y
<1>1. \E x \in S : \A y \in S : x <= y
  <2> SUFFICES ASSUME \A x \in S : \E y \in S : y < x  PROVE FALSE
    OBVIOUS
  <2> DEFINE N == {n \in Nat : \A m \in 0 .. n : m \notin S}
  <2>1. 0 \in N
    OBVIOUS
  <2>2. ASSUME NEW n \in N  PROVE n + 1 \in N
    OBVIOUS
  <2>3. N = Nat
    <3> HIDE DEF N
    <3>1. N \in SUBSET Nat
      BY DEF N
    <3> QED
      BY <2>1, <2>2, <3>1, NaturalsGrow
  <2>4. PICK s : s \in S
    OBVIOUS
  <2>5. s \in N
    <3> HIDE DEF N
    <3> QED
      BY <2>3, <2>4
  <2> QED
    BY <2>4, <2>5
<1> QED
  BY <1>1 DEF Min

----------------------------------------------------------------------------
(* What is recorded of a packet, and what a window keeps of it.            *)
Observation ==
    [key : {Key(d, p) : d \in Names, p \in Packets}, at : Nat, n : Nat,
     peer : {Peer(d, p) : d \in Names, p \in Packets}, hides : BOOLEAN,
     answers : BOOLEAN]

Entry == [at : Nat, n : Nat]

Worth(s, S) == SumFunctionOnSet(Weights(s), S)

LEMMA WorthIs ==
  ASSUME NEW T, \A x \in T : x.n \in Nat, NEW s \in Seq(T), NEW S \in SUBSET (DOMAIN s)
  PROVE  /\ IsFiniteSet(DOMAIN s) /\ IsFiniteSet(S)
         /\ \A i \in DOMAIN s : Weights(s)[i] = s[i].n /\ Weights(s)[i] \in Nat
         /\ Worth(s, S) \in Nat
<1>1. IsFiniteSet(1 .. Len(s)) /\ DOMAIN s = 1 .. Len(s)
  <2>1. Len(s) \in Nat /\ Len(s) \in Int /\ 1 \in Int
    OBVIOUS
  <2> QED
    BY <2>1, FS_Interval
<1>2. IsFiniteSet(S)
  BY <1>1, FS_Subset
<1>3. \A i \in DOMAIN s : Weights(s)[i] = s[i].n /\ Weights(s)[i] \in Nat
  BY DEF Weights
<1>4. SumFunctionOnSet(Weights(s), S) \in Nat
  <2>1. \A x \in S : Weights(s)[x] \in Nat
    BY <1>3
  <2>2. S \in SUBSET S
    OBVIOUS
  <2> QED
    BY <1>2, <2>1, <2>2, SumTakesAny
<1> QED
  BY <1>1, <1>2, <1>3, <1>4 DEF Worth

LEMMA WorthGrows ==
  ASSUME NEW T, \A x \in T : x.n \in Nat, NEW s \in Seq(T), NEW S \in SUBSET (DOMAIN s),
         NEW R \in SUBSET S
  PROVE  Worth(s, R) <= Worth(s, S)
<1>1. IsFiniteSet(S) /\ \A x \in S : Weights(s)[x] \in Nat
  BY WorthIs
<1> QED
  BY <1>1, SumsGrow DEF Worth

LEMMA WorthTakes ==
  ASSUME NEW T, \A x \in T : x.n \in Nat, NEW s \in Seq(T), NEW S \in SUBSET (DOMAIN s),
         NEW x \in S
  PROVE  Worth(s, S) = s[x].n + Worth(s, S \ {x})
<1> DEFINE f == Weights(s)
<1>1. IsFiniteSet(S) /\ (\A y \in S : f[y] \in Nat) /\ f[x] = s[x].n
  BY WorthIs
<1>2. S \in SUBSET S
  OBVIOUS
<1> HIDE DEF f
<1>3. SumFunctionOnSet(f, S) = f[x] + SumFunctionOnSet(f, S \ {x})
  BY <1>1, SumTakes
<1> QED
  BY <1>1, <1>3 DEF Worth, f

LEMMA WorthStays ==
  ASSUME NEW T, \A x \in T : x.n \in Nat, NEW s \in Seq(T), NEW t \in Seq(T),
         NEW S \in SUBSET (DOMAIN s), S \subseteq DOMAIN t, \A i \in S : s[i] = t[i]
  PROVE  Worth(t, S) = Worth(s, S)
<1>1. IsFiniteSet(S) /\ \A i \in S : Weights(s)[i] = Weights(t)[i]
  BY WorthIs DEF Weights
<1> QED
  BY <1>1, SumsOfTheSame DEF Worth

(* What comes new is worth what it weighs.                                 *)
LEMMA WorthOfAppend ==
  ASSUME NEW T, \A x \in T : x.n \in Nat, NEW s \in Seq(T), NEW o \in T,
         NEW S \in SUBSET (DOMAIN s)
  PROVE  /\ Worth(Append(s, o), S) = Worth(s, S)
         /\ Worth(Append(s, o), S \cup {Len(s) + 1}) = Worth(s, S) + o.n
<1> DEFINE t == Append(s, o)
<1>1. /\ t \in Seq(T) /\ Len(t) = Len(s) + 1 /\ t[Len(s) + 1] = o
      /\ DOMAIN s = 1 .. Len(s) /\ DOMAIN t = 1 .. Len(s) + 1 /\ Len(s) \in Nat
      /\ \A i \in DOMAIN s : t[i] = s[i]
  OBVIOUS
<1> HIDE DEF t
<1>2. Worth(t, S) = Worth(s, S)
  <2>1. S \subseteq DOMAIN t /\ \A i \in S : s[i] = t[i]
    BY <1>1
  <2> QED
    BY <1>1, <2>1, WorthStays
<1>3. Worth(t, S \cup {Len(s) + 1}) = o.n + Worth(t, S)
  <2> DEFINE R == S \cup {Len(s) + 1}
  <2>1. R \in SUBSET (DOMAIN t) /\ Len(s) + 1 \in R /\ R \ {Len(s) + 1} = S
    BY <1>1
  <2> HIDE DEF R
  <2>2. Worth(t, R) = t[Len(s) + 1].n + Worth(t, R \ {Len(s) + 1})
    BY <1>1, <2>1, WorthTakes
  <2> QED
    BY <1>1, <2>1, <2>2 DEF R
<1>4. Worth(s, S) \in Nat /\ o.n \in Nat
  BY WorthIs
<1> QED
  BY <1>2, <1>3, <1>4 DEF t

----------------------------------------------------------------------------
(* A deque D follows the observations O of a log L, when it is read at     *)
(* now: from any entry on it is worth what came in since that entry, none  *)
(* of which is much older; and what came in before has an entry before, or *)
(* has left the window.                                                    *)
Passed(t, D, n, span, now) ==
    t <= now - Window \/ \E l \in 1 .. n : t <= D[l].at + span

Came(O, c) == {i \in O : c <= i}

Follows(L, O, D, span, now) ==
    /\ D \in Seq(Entry) /\ O \subseteq DOMAIN L
    /\ \A j \in DOMAIN D : D[j].at <= now
    /\ \A j \in DOMAIN D : \E c \in DOMAIN L :
         /\ Worth(D, j .. Len(D)) = Worth(L, Came(O, c))
         /\ \A i \in O : IF c <= i THEN D[j].at - MaxLate <= L[i].at
                         ELSE Passed(L[i].at, D, j - 1, span, now)
    /\ \A i \in O : Passed(L[i].at, D, Len(D), span, now)

LEMMA Numbers == Window \in Nat /\ Bucket \in Nat \ {0} /\ MaxLate \in Nat
BY DetectorsAssumption

LEMMA ObservationsWeigh ==
  /\ \A o \in Observation : o.n \in Nat /\ o.at \in Nat
  /\ \A e \in Entry : e.n \in Nat /\ e.at \in Nat
BY DEF Observation, Entry

LEMMA ObservationComes ==
  ASSUME NEW L \in Seq(Observation), NEW o \in Observation, NEW S \in SUBSET (DOMAIN L)
  PROVE  /\ Worth(Append(L, o), S) = Worth(L, S)
         /\ Worth(Append(L, o), S \cup {Len(L) + 1}) = Worth(L, S) + o.n
         /\ Worth(L, S) \in Nat
<1> DEFINE T == Observation
<1>1. \A x \in T : x.n \in Nat
  BY ObservationsWeigh
<1>2. L \in Seq(T) /\ o \in T
  OBVIOUS
<1> HIDE DEF T
<1> QED
  BY <1>1, <1>2, WorthOfAppend, WorthIs

LEMMA EntryComes ==
  ASSUME NEW D \in Seq(Entry), NEW e \in Entry, NEW S \in SUBSET (DOMAIN D)
  PROVE  /\ Worth(Append(D, e), S) = Worth(D, S)
         /\ Worth(Append(D, e), S \cup {Len(D) + 1}) = Worth(D, S) + e.n
         /\ Worth(D, S) \in Nat
<1> DEFINE T == Entry
<1>1. \A x \in T : x.n \in Nat
  BY ObservationsWeigh
<1>2. D \in Seq(T) /\ e \in T
  OBVIOUS
<1> HIDE DEF T
<1> QED
  BY <1>1, <1>2, WorthOfAppend, WorthIs

(* Somebody else's observation, and time.                                  *)
LEMMA FollowsOthers ==
  ASSUME NEW L \in Seq(Observation), NEW O, NEW D, NEW span \in Nat, NEW now \in Nat,
         Follows(L, O, D, span, now), NEW o \in Observation, NEW later \in Nat, now <= later
  PROVE  Follows(Append(L, o), O, D, span, later)
<1> DEFINE K == Append(L, o)
<1>1. /\ K \in Seq(Observation) /\ DOMAIN L \subseteq DOMAIN K /\ O \subseteq DOMAIN L
      /\ \A i \in DOMAIN L : K[i] = L[i]
  BY DEF Follows
<1>2. \A i \in O : L[i].at \in Nat
  BY <1>1, ObservationsWeigh
<1>3. D \in Seq(Entry) /\ \A j \in DOMAIN D : D[j].at \in Nat /\ D[j].at <= now
  BY ObservationsWeigh DEF Follows
<1>4. \A i \in O : \A n \in Nat : Passed(L[i].at, D, n, span, now) => Passed(K[i].at, D, n, span, later)
  BY <1>1, <1>2, Numbers DEF Passed
<1>5. \A c : Worth(K, Came(O, c)) = Worth(L, Came(O, c))
  <2> TAKE c
  <2> DEFINE S == Came(O, c)
  <2>1. S \in SUBSET (DOMAIN L)
    BY <1>1 DEF Came
  <2> HIDE DEF S
  <2>3. Worth(Append(L, o), S) = Worth(L, S)
    BY <2>1, ObservationComes
  <2> QED
    BY <2>3 DEF S
<1> HIDE DEF K
<1>6. ASSUME NEW j \in DOMAIN D
      PROVE  \E c \in DOMAIN K :
               /\ Worth(D, j .. Len(D)) = Worth(K, Came(O, c))
               /\ \A i \in O : IF c <= i THEN D[j].at - MaxLate <= K[i].at
                               ELSE Passed(K[i].at, D, j - 1, span, later)
  <2>1. PICK c \in DOMAIN L :
          /\ Worth(D, j .. Len(D)) = Worth(L, Came(O, c))
          /\ \A i \in O : IF c <= i THEN D[j].at - MaxLate <= L[i].at
                          ELSE Passed(L[i].at, D, j - 1, span, now)
    BY DEF Follows
  <2>2. j - 1 \in Nat
    BY <1>3
  <2>3. \A i \in O : IF c <= i THEN D[j].at - MaxLate <= K[i].at
                       ELSE Passed(K[i].at, D, j - 1, span, later)
    BY <1>1, <1>4, <2>1, <2>2
  <2> QED
    BY <1>1, <1>5, <2>1, <2>3
<1>7. \A i \in O : Passed(K[i].at, D, Len(D), span, later)
  BY <1>3, <1>4 DEF Follows
<1>8. \A j \in DOMAIN D : D[j].at <= later
  BY <1>3
<1> QED
  BY <1>1, <1>3, <1>6, <1>7, <1>8 DEF Follows, K

LEMMA ObservationsStay ==
  ASSUME NEW L \in Seq(Observation), NEW S \in SUBSET (DOMAIN L)
  PROVE  Worth(L, S) \in Nat /\ IsFiniteSet(S)
<1> DEFINE T == Observation
<1>1. \A x \in T : x.n \in Nat
  BY ObservationsWeigh
<1>2. L \in Seq(T)
  OBVIOUS
<1> HIDE DEF T
<1> QED
  BY <1>1, <1>2, WorthIs

LEMMA ObservationsGrow ==
  ASSUME NEW L \in Seq(Observation), NEW S \in SUBSET (DOMAIN L), NEW R, R \subseteq S
  PROVE  Worth(L, R) <= Worth(L, S)
<1> DEFINE T == Observation
<1>1. \A x \in T : x.n \in Nat
  BY ObservationsWeigh
<1>2. L \in Seq(T) /\ R \in SUBSET S
  OBVIOUS
<1> HIDE DEF T
<1> QED
  BY <1>1, <1>2, WorthGrows

LEMMA EntryTakes ==
  ASSUME NEW D \in Seq(Entry), NEW S \in SUBSET (DOMAIN D), NEW x \in S
  PROVE  Worth(D, S) = D[x].n + Worth(D, S \ {x})
<1> DEFINE T == Entry
<1>1. \A y \in T : y.n \in Nat
  BY ObservationsWeigh
<1>2. D \in Seq(T)
  OBVIOUS
<1> HIDE DEF T
<1> QED
  BY <1>1, <1>2, WorthTakes

LEMMA EntryStays ==
  ASSUME NEW D \in Seq(Entry), NEW E \in Seq(Entry),
         NEW S \in SUBSET (DOMAIN D), S \subseteq DOMAIN E, \A i \in S : D[i] = E[i]
  PROVE  Worth(E, S) = Worth(D, S) /\ Worth(D, S) \in Nat
<1> DEFINE T == Entry
<1>1. \A y \in T : y.n \in Nat
  BY ObservationsWeigh
<1>2. D \in Seq(T) /\ E \in Seq(T)
  OBVIOUS
<1> HIDE DEF T
<1> QED
  BY <1>1, <1>2, WorthStays, WorthIs

(* A new observation that opens an entry of its own.                       *)
LEMMA FollowsOpens ==
  ASSUME NEW L \in Seq(Observation), NEW O, NEW D, NEW span \in Nat, NEW now \in Nat,
         Follows(L, O, D, span, now), NEW o \in Observation, NEW later \in Nat, now <= later,
         now - MaxLate <= o.at, o.at <= later,
         NEW e \in Entry, e.n = o.n, e.at <= o.at, o.at <= e.at + span
  PROVE  Follows(Append(L, o), O \cup {Len(L) + 1}, Append(D, e), span, later)
<1> DEFINE K == Append(L, o)
<1> DEFINE P == O \cup {Len(L) + 1}
<1> DEFINE E == Append(D, e)
<1>0. o.at \in Nat /\ o.n \in Nat /\ e.at \in Nat
  BY ObservationsWeigh
<1>1. /\ K \in Seq(Observation) /\ DOMAIN L = 1 .. Len(L) /\ DOMAIN K = 1 .. Len(L) + 1
      /\ Len(L) \in Nat /\ O \subseteq DOMAIN L
      /\ (\A i \in DOMAIN L : K[i] = L[i]) /\ K[Len(L) + 1] = o
  BY DEF Follows
<1>2. \A i \in O : L[i].at \in Nat
  BY <1>1, ObservationsWeigh
<1>3. /\ D \in Seq(Entry) /\ Len(D) \in Nat /\ DOMAIN D = 1 .. Len(D)
      /\ \A j \in DOMAIN D : D[j].at \in Nat /\ D[j].at <= now
  BY ObservationsWeigh DEF Follows
<1>4. /\ E \in Seq(Entry) /\ DOMAIN E = 1 .. Len(D) + 1 /\ Len(E) = Len(D) + 1
      /\ (\A j \in DOMAIN D : E[j] = D[j]) /\ E[Len(D) + 1] = e
  BY <1>3
<1>5. \A i \in O : \A n \in Nat : n <= Len(D) =>
        (Passed(L[i].at, D, n, span, now) => Passed(K[i].at, E, n, span, later))
  <2> SUFFICES ASSUME NEW i \in O, NEW n \in Nat, n <= Len(D), Passed(L[i].at, D, n, span, now)
               PROVE  Passed(K[i].at, E, n, span, later)
    OBVIOUS
  <2> HIDE DEF K, E
  <2>1. K[i].at = L[i].at /\ L[i].at \in Nat
    BY <1>1, <1>2
  <2>2. \A l \in 1 .. n : E[l] = D[l]
    BY <1>3, <1>4
  <2> QED
    BY <2>1, <2>2, Numbers DEF Passed
<1>6. \A c \in DOMAIN L : Worth(K, Came(P, c)) = Worth(L, Came(O, c)) + o.n
  <2> SUFFICES ASSUME NEW c \in DOMAIN L  PROVE Worth(K, Came(P, c)) = Worth(L, Came(O, c)) + o.n
    OBVIOUS
  <2> DEFINE S == Came(O, c)
  <2>1. S \in SUBSET (DOMAIN L) /\ Came(P, c) = S \cup {Len(L) + 1}
    BY <1>1 DEF Came
  <2> HIDE DEF S
  <2>2. Worth(Append(L, o), S \cup {Len(L) + 1}) = Worth(L, S) + o.n
    BY <2>1, ObservationComes
  <2> QED
    BY <2>1, <2>2 DEF S
<1>7. Came(P, Len(L) + 1) = {Len(L) + 1}
  BY <1>1 DEF Came
<1>8. Worth(K, Came(P, Len(L) + 1)) = o.n
  <2> DEFINE S == {}
  <2>1. S \in SUBSET (DOMAIN L) /\ Worth(L, S) = 0 /\ S \cup {Len(L) + 1} = {Len(L) + 1}
    BY SumOfNothing DEF Worth
  <2> HIDE DEF S
  <2>2. Worth(Append(L, o), S \cup {Len(L) + 1}) = Worth(L, S) + o.n
    BY <2>1, ObservationComes
  <2>3. Worth(Append(L, o), S \cup {Len(L) + 1}) = o.n
    <3> DEFINE w == Worth(L, S)
    <3> DEFINE v == Worth(Append(L, o), S \cup {Len(L) + 1})
    <3>1. w = 0 /\ v = w + o.n
      BY <2>1, <2>2
    <3> HIDE DEF w, v
    <3>2. v = o.n
      BY <1>0, <3>1
    <3> QED
      BY <3>2 DEF v
  <2> HIDE DEF K, P
  <2>4. Worth(K, Came(P, Len(L) + 1)) = Worth(K, S \cup {Len(L) + 1})
    BY <1>7, <2>1
  <2> QED
    BY <2>3, <2>4 DEF K
<1>9. \A j \in DOMAIN D : Worth(E, j .. Len(D) + 1) = Worth(D, j .. Len(D)) + o.n
  <2> SUFFICES ASSUME NEW j \in DOMAIN D
               PROVE  Worth(E, j .. Len(D) + 1) = Worth(D, j .. Len(D)) + o.n
    OBVIOUS
  <2> DEFINE S == j .. Len(D)
  <2>1. S \in SUBSET (DOMAIN D) /\ j .. Len(D) + 1 = S \cup {Len(D) + 1}
    BY <1>3
  <2> HIDE DEF S
  <2> QED
    BY <1>3, <2>1, EntryComes DEF S
<1>10. Worth(E, Len(D) + 1 .. Len(D) + 1) = o.n
  <2>1. {} \in SUBSET (DOMAIN D) /\ Worth(D, {}) = 0 /\ Len(D) + 1 .. Len(D) + 1 = {} \cup {Len(D) + 1}
    BY <1>3, SumOfNothing DEF Worth
  <2> QED
    BY <1>0, <1>3, <2>1, EntryComes
<1> HIDE DEF K, E, P
<1>11. ASSUME NEW j \in DOMAIN E
       PROVE  \E c \in DOMAIN K :
                /\ Worth(E, j .. Len(E)) = Worth(K, Came(P, c))
                /\ \A i \in P : IF c <= i THEN E[j].at - MaxLate <= K[i].at
                                ELSE Passed(K[i].at, E, j - 1, span, later)
  <2>1. CASE j = Len(D) + 1
    <3>1. Worth(E, j .. Len(E)) = Worth(K, Came(P, Len(L) + 1)) /\ Len(L) + 1 \in DOMAIN K
      BY <1>1, <1>4, <1>8, <1>10, <2>1
    <3>2. ASSUME NEW i \in P
          PROVE  IF Len(L) + 1 <= i THEN E[j].at - MaxLate <= K[i].at
                 ELSE Passed(K[i].at, E, j - 1, span, later)
      <4>1. CASE i = Len(L) + 1
        BY <1>0, <1>1, <1>4, <2>1, <4>1, Numbers
      <4>2. CASE i \in O
        <5>1. i \in Nat /\ ~(Len(L) + 1 <= i)
          BY <1>1, <4>2
        <5>2. Passed(L[i].at, D, Len(D), span, now)
          BY <4>2 DEF Follows
        <5>3. j - 1 = Len(D)
          BY <1>3, <2>1
        <5> QED
          BY <1>3, <1>5, <4>2, <5>1, <5>2, <5>3
      <4> QED
        BY <4>1, <4>2 DEF P
    <3> QED
      BY <3>1, <3>2
  <2>2. CASE j \in DOMAIN D
    <3>1. PICK c \in DOMAIN L :
            /\ Worth(D, j .. Len(D)) = Worth(L, Came(O, c))
            /\ \A i \in O : IF c <= i THEN D[j].at - MaxLate <= L[i].at
                            ELSE Passed(L[i].at, D, j - 1, span, now)
      BY <2>2 DEF Follows
    <3>2. Worth(E, j .. Len(E)) = Worth(K, Came(P, c)) /\ c \in DOMAIN K
      BY <1>1, <1>4, <1>6, <1>9, <2>2, <3>1
    <3>3. ASSUME NEW i \in P
          PROVE  IF c <= i THEN E[j].at - MaxLate <= K[i].at
                 ELSE Passed(K[i].at, E, j - 1, span, later)
      <4>1. CASE i = Len(L) + 1
        <5>1. c <= i /\ K[i].at = o.at /\ E[j].at <= now /\ E[j].at \in Nat
          BY <1>1, <1>3, <1>4, <2>2, <4>1
        <5> QED
          BY <1>0, <5>1, Numbers
      <4>2. CASE i \in O
        <5>1. j - 1 \in Nat /\ j - 1 <= Len(D) /\ K[i] = L[i] /\ E[j] = D[j]
          BY <1>1, <1>3, <1>4, <2>2, <4>2
        <5> QED
          BY <1>5, <3>1, <4>2, <5>1
      <4> QED
        BY <4>1, <4>2 DEF P
    <3> QED
      BY <3>2, <3>3
  <2> QED
    BY <1>3, <1>4, <2>1, <2>2
<1>12. ASSUME NEW i \in P  PROVE Passed(K[i].at, E, Len(E), span, later)
  <2>1. CASE i = Len(L) + 1
    <3>1. K[i].at <= E[Len(E)].at + span /\ Len(E) \in 1 .. Len(E)
      BY <1>1, <1>3, <1>4, <2>1
    <3> QED
      BY <3>1 DEF Passed
  <2>2. CASE i \in O
    <3>1. Passed(K[i].at, E, Len(D), span, later)
      BY <1>3, <1>5, <2>2 DEF Follows
    <3>2. 1 .. Len(D) \subseteq 1 .. Len(E)
      BY <1>3, <1>4
    <3> QED
      BY <3>1, <3>2 DEF Passed
  <2> QED
    BY <2>1, <2>2 DEF P
<1>13. \A j \in DOMAIN E : E[j].at <= later
  BY <1>0, <1>3, <1>4
<1>14. P \subseteq DOMAIN K
  BY <1>1 DEF P
<1> QED
  BY <1>4, <1>11, <1>12, <1>13, <1>14 DEF Follows, K, P, E

(* A new observation that adds to the youngest entry.                      *)
LEMMA FollowsAdds ==
  ASSUME NEW L \in Seq(Observation), NEW O, NEW D, NEW span \in Nat, NEW now \in Nat,
         Follows(L, O, D, span, now), NEW o \in Observation, NEW later \in Nat, now <= later,
         now - MaxLate <= o.at, D # <<>>, o.at <= D[Len(D)].at + span
  PROVE  Follows(Append(L, o), O \cup {Len(L) + 1}, [D EXCEPT ![Len(D)].n = @ + o.n], span, later)
<1> DEFINE K == Append(L, o)
<1> DEFINE P == O \cup {Len(L) + 1}
<1> DEFINE E == [D EXCEPT ![Len(D)].n = @ + o.n]
<1>0. o.at \in Nat /\ o.n \in Nat
  BY ObservationsWeigh
<1>1. /\ K \in Seq(Observation) /\ DOMAIN L = 1 .. Len(L) /\ DOMAIN K = 1 .. Len(L) + 1
      /\ Len(L) \in Nat /\ O \subseteq DOMAIN L
      /\ (\A i \in DOMAIN L : K[i] = L[i]) /\ K[Len(L) + 1] = o
  BY DEF Follows
<1>2. \A i \in O : L[i].at \in Nat
  BY <1>1, ObservationsWeigh
<1>3. /\ D \in Seq(Entry) /\ Len(D) \in Nat \ {0} /\ DOMAIN D = 1 .. Len(D)
      /\ \A j \in DOMAIN D : D[j].at \in Nat /\ D[j].at <= now
  BY ObservationsWeigh DEF Follows
<1>4. /\ E \in Seq(Entry) /\ DOMAIN E = DOMAIN D /\ Len(E) = Len(D)
      /\ \A j \in DOMAIN D : /\ E[j].at = D[j].at
                             /\ j # Len(D) => E[j] = D[j]
      /\ E[Len(D)].n = D[Len(D)].n + o.n
  <2>0. Len(D) \in DOMAIN D
    BY <1>3
  <2>1. \A j \in DOMAIN D : E[j] \in Entry
    <3> SUFFICES ASSUME NEW j \in DOMAIN D  PROVE E[j] \in Entry
      OBVIOUS
    <3>1. D[j] \in Entry /\ D[j].n + o.n \in Nat
      BY <1>0, <1>3, ObservationsWeigh
    <3>2. E[j] = IF j = Len(D) THEN [D[j] EXCEPT !.n = @ + o.n] ELSE D[j]
      BY <1>3
    <3>3. [D[j] EXCEPT !.n = @ + o.n] \in Entry
      BY <3>1 DEF Entry
    <3> QED
      BY <3>1, <3>2, <3>3
  <2>2. DOMAIN E = 1 .. Len(D)
    BY <1>3
  <2>3. \A j \in DOMAIN D : E[j].at = D[j].at /\ (j # Len(D) => E[j] = D[j])
    BY <1>3 DEF Entry
  <2>4. E[Len(D)].n = D[Len(D)].n + o.n
    BY <1>3, <2>0 DEF Entry
  <2>5. E = [j \in 1 .. Len(D) |-> E[j]]
    BY <2>2
  <2> HIDE DEF E
  <2>6. E \in Seq(Entry) /\ Len(E) = Len(D)
    BY <1>3, <2>1, <2>2, <2>5, LenProperties
  <2> QED
    BY <1>3, <2>2, <2>3, <2>4, <2>6
<1>5. \A i \in O : \A n \in Nat : n <= Len(D) =>
        (Passed(L[i].at, D, n, span, now) => Passed(K[i].at, E, n, span, later))
  <2> SUFFICES ASSUME NEW i \in O, NEW n \in Nat, n <= Len(D), Passed(L[i].at, D, n, span, now)
               PROVE  Passed(K[i].at, E, n, span, later)
    OBVIOUS
  <2> HIDE DEF K, E
  <2>1. K[i].at = L[i].at /\ L[i].at \in Nat
    BY <1>1, <1>2
  <2>2. \A l \in 1 .. n : E[l].at = D[l].at
    BY <1>3, <1>4
  <2> QED
    BY <2>1, <2>2, Numbers DEF Passed
<1>6. \A c \in DOMAIN L : Worth(K, Came(P, c)) = Worth(L, Came(O, c)) + o.n
  <2> SUFFICES ASSUME NEW c \in DOMAIN L  PROVE Worth(K, Came(P, c)) = Worth(L, Came(O, c)) + o.n
    OBVIOUS
  <2> DEFINE S == Came(O, c)
  <2>1. S \in SUBSET (DOMAIN L) /\ Came(P, c) = S \cup {Len(L) + 1}
    BY <1>1 DEF Came
  <2> HIDE DEF S
  <2>2. Worth(Append(L, o), S \cup {Len(L) + 1}) = Worth(L, S) + o.n
    BY <2>1, ObservationComes
  <2> QED
    BY <2>1, <2>2 DEF S
<1> HIDE DEF K, E, P
<1>9. \A j \in DOMAIN D : Worth(E, j .. Len(D)) = Worth(D, j .. Len(D)) + o.n
  <2> SUFFICES ASSUME NEW j \in DOMAIN D
               PROVE  Worth(E, j .. Len(D)) = Worth(D, j .. Len(D)) + o.n
    OBVIOUS
  <2> DEFINE S == j .. Len(D)
  <2> DEFINE R == S \ {Len(D)}
  <2>1. S \in SUBSET (DOMAIN D) /\ S \in SUBSET (DOMAIN E) /\ Len(D) \in S
    BY <1>3, <1>4
  <2> HIDE DEF S
  <2>a. R \in SUBSET (DOMAIN D) /\ R \subseteq DOMAIN E /\ \A i \in R : D[i] = E[i]
    <3>1. \A i \in R : i \in DOMAIN D /\ i # Len(D)
      BY <2>1
    <3> HIDE DEF R
    <3> QED
      BY <1>4, <3>1
  <2>2. Worth(D, S) = D[Len(D)].n + Worth(D, R) /\ Worth(E, S) = E[Len(D)].n + Worth(E, R)
    BY <1>3, <1>4, <2>1, EntryTakes
  <2> HIDE DEF R
  <2>3. Worth(E, R) = Worth(D, R) /\ Worth(D, R) \in Nat
    BY <1>3, <1>4, <2>a, EntryStays
  <2>4. D[Len(D)].n \in Nat
    BY <1>3, ObservationsWeigh
  <2> QED
    BY <1>0, <1>4, <2>2, <2>3, <2>4 DEF S
<1>11. ASSUME NEW j \in DOMAIN E
       PROVE  \E c \in DOMAIN K :
                /\ Worth(E, j .. Len(E)) = Worth(K, Came(P, c))
                /\ \A i \in P : IF c <= i THEN E[j].at - MaxLate <= K[i].at
                                ELSE Passed(K[i].at, E, j - 1, span, later)
  <2>1. PICK c \in DOMAIN L :
          /\ Worth(D, j .. Len(D)) = Worth(L, Came(O, c))
          /\ \A i \in O : IF c <= i THEN D[j].at - MaxLate <= L[i].at
                          ELSE Passed(L[i].at, D, j - 1, span, now)
    BY <1>4 DEF Follows
  <2>2. Worth(E, j .. Len(E)) = Worth(K, Came(P, c)) /\ c \in DOMAIN K
    BY <1>1, <1>4, <1>6, <1>9, <2>1
  <2>3. ASSUME NEW i \in P
        PROVE  IF c <= i THEN E[j].at - MaxLate <= K[i].at
               ELSE Passed(K[i].at, E, j - 1, span, later)
    <3>1. CASE i = Len(L) + 1
      <4>1. c <= i /\ K[i].at = o.at /\ E[j].at <= now /\ E[j].at \in Nat
        BY <1>1, <1>3, <1>4, <3>1
      <4> QED
        BY <1>0, <4>1, Numbers
    <3>2. CASE i \in O
      <4>1. j - 1 \in Nat /\ j - 1 <= Len(D) /\ K[i] = L[i] /\ E[j].at = D[j].at
        BY <1>1, <1>3, <1>4, <3>2
      <4> QED
        BY <1>5, <2>1, <3>2, <4>1
    <3> QED
      BY <3>1, <3>2 DEF P
  <2> QED
    BY <2>2, <2>3
<1>12. ASSUME NEW i \in P  PROVE Passed(K[i].at, E, Len(E), span, later)
  <2>1. CASE i = Len(L) + 1
    <3>1. K[i].at <= E[Len(E)].at + span /\ Len(E) \in 1 .. Len(E)
      BY <1>1, <1>3, <1>4, <2>1
    <3> QED
      BY <3>1 DEF Passed
  <2>2. CASE i \in O
    BY <1>3, <1>4, <1>5, <2>2 DEF Follows
  <2> QED
    BY <2>1, <2>2 DEF P
<1>13. \A j \in DOMAIN E : E[j].at <= later
  BY <1>3, <1>4
<1>14. P \subseteq DOMAIN K
  BY <1>1 DEF P
<1> QED
  BY <1>4, <1>11, <1>12, <1>13, <1>14 DEF Follows, K, P, E

LEMMA AdvanceType ==
  ASSUME NEW now \in Nat, NEW t \in Nat
  PROVE  Advance(now, t) \in Nat /\ now <= Advance(now, t) /\ t <= Advance(now, t)
BY DEF Advance

LEMMA FollowsTally ==
  ASSUME NEW L \in Seq(Observation), NEW O, NEW D, NEW now \in Nat,
         Follows(L, O, D, Bucket, now), NEW o \in Observation, now - MaxLate <= o.at
  PROVE  Follows(Append(L, o), O \cup {Len(L) + 1}, Tally(D, o.at, o.n), Bucket, Advance(now, o.at))
<1> DEFINE start == o.at - (o.at % Bucket)
<1> DEFINE later == Advance(now, o.at)
<1> DEFINE e == [at |-> start, n |-> o.n]
<1>0. o.at \in Nat /\ o.n \in Nat
  BY ObservationsWeigh
<1>1. start \in Nat /\ start <= o.at /\ o.at <= start + Bucket
  BY <1>0, Numbers
<1>2. later \in Nat /\ now <= later /\ o.at <= later
  BY <1>0, AdvanceType
<1>3. D \in Seq(Entry) /\ Len(D) \in Nat /\ (Len(D) > 0 => D # <<>>) /\ Bucket \in Nat
  BY Numbers DEF Follows
<1>4. e \in Entry /\ e.n = o.n /\ e.at = start
  BY <1>0, <1>1 DEF Entry
<1> HIDE DEF start, later, e
<1>5. CASE Len(D) > 0 /\ D[Len(D)].at = start
  <2>1. Tally(D, o.at, o.n) = [D EXCEPT ![Len(D)].n = @ + o.n]
    BY <1>5 DEF Tally, start
  <2>2. Follows(Append(L, o), O \cup {Len(L) + 1}, [D EXCEPT ![Len(D)].n = @ + o.n], Bucket, later)
    BY <1>1, <1>2, <1>3, <1>5, FollowsAdds
  <2> QED
    BY <2>1, <2>2 DEF later
<1>6. CASE ~(Len(D) > 0 /\ D[Len(D)].at = start)
  <2>1. Tally(D, o.at, o.n) = Append(D, e)
    BY <1>6 DEF Tally, start, e
  <2>2. Follows(Append(L, o), O \cup {Len(L) + 1}, Append(D, e), Bucket, later)
    BY <1>1, <1>2, <1>3, <1>4, FollowsOpens
  <2> QED
    BY <2>1, <2>2 DEF later
<1> QED
  BY <1>5, <1>6

LEMMA FollowsStamp ==
  ASSUME NEW L \in Seq(Observation), NEW O, NEW D, NEW now \in Nat,
         Follows(L, O, D, 0, now), NEW o \in Observation, now - MaxLate <= o.at, o.n = 1
  PROVE  Follows(Append(L, o), O \cup {Len(L) + 1}, Stamp(D, o.at), 0, Advance(now, o.at))
<1> DEFINE later == Advance(now, o.at)
<1> DEFINE e == [at |-> o.at, n |-> 1]
<1>0. o.at \in Nat
  BY ObservationsWeigh
<1>2. later \in Nat /\ now <= later /\ o.at <= later
  BY <1>0, AdvanceType
<1>4. e \in Entry /\ e.n = o.n /\ e.at <= o.at /\ o.at <= e.at + 0
  BY <1>0 DEF Entry
<1> HIDE DEF later, e
<1>5. Follows(Append(L, o), O \cup {Len(L) + 1}, Append(D, e), 0, later)
  BY <1>2, <1>4, FollowsOpens
<1> QED
  BY <1>5 DEF Stamp, later, e

----------------------------------------------------------------------------
(* Expiry takes the entries before the first young one.                    *)
LEMMA HeadIs ==
  ASSUME NEW D \in Seq(Entry), NEW c \in Int
  PROVE  \/ FromHead(D, c) = <<>> /\ \A l \in DOMAIN D : D[l].at <= c
         \/ \E m \in DOMAIN D : /\ FromHead(D, c) = SubSeq(D, m, Len(D)) /\ D[m].at > c
                                /\ \A l \in 1 .. m - 1 : D[l].at <= c
<1> DEFINE young == {i \in DOMAIN D : D[i].at > c}
<1>0. DOMAIN D = 1 .. Len(D) /\ Len(D) \in Nat /\ \A l \in DOMAIN D : D[l].at \in Nat
  BY ObservationsWeigh
<1>1. CASE young = {}
  <2>1. FromHead(D, c) = <<>>
    BY <1>1 DEF FromHead
  <2>2. \A l \in DOMAIN D : D[l].at <= c
    BY <1>0, <1>1
  <2> QED
    BY <2>1, <2>2
<1>2. CASE young # {}
  <2> DEFINE m == Min(young)
  <2>1. FromHead(D, c) = SubSeq(D, m, Len(D))
    BY <1>2 DEF FromHead
  <2>2. young \in SUBSET Nat
    BY <1>0
  <2>3. m \in young /\ \A y \in young : m <= y
    <3> HIDE DEF young
    <3> QED
      BY <1>2, <2>2, LeastIsThere
  <2> HIDE DEF m
  <2>4. m \in DOMAIN D /\ D[m].at > c
    BY <2>3
  <2>5. \A l \in 1 .. m - 1 : D[l].at <= c
    BY <1>0, <2>3, <2>4
  <2> QED
    BY <2>1, <2>4, <2>5
<1> QED
  BY <1>1, <1>2

(* What is left of a deque after expiry is worth what it was before.       *)
LEMMA WorthOfHead ==
  ASSUME NEW D \in Seq(Entry), NEW m \in DOMAIN D
  PROVE  LET E == SubSeq(D, m, Len(D))
         IN  /\ E \in Seq(Entry) /\ Len(E) = Len(D) - m + 1 /\ DOMAIN E = 1 .. Len(D) - m + 1
             /\ \A j \in DOMAIN E : E[j] = D[j + m - 1]
             /\ \A j \in DOMAIN E : Worth(E, j .. Len(E)) = Worth(D, j + m - 1 .. Len(D))
<1> DEFINE E == SubSeq(D, m, Len(D))
<1> DEFINE d == m - 1
<1> DEFINE n == Len(D) - m + 1
<1>a. DOMAIN D = 1 .. Len(D) /\ Len(D) \in Nat /\ m \in Nat /\ 1 <= m /\ m <= Len(D)
  OBVIOUS
<1>0. d \in Nat /\ n \in Nat /\ n + d = Len(D)
  BY <1>a
<1>1. E \in Seq(Entry) /\ Len(E) = n /\ DOMAIN E = 1 .. n /\ \A j \in 1 .. n : E[j] = D[j + d]
  <2>1. m \in 1 .. Len(D) + 1 /\ Len(D) \in m - 1 .. Len(D)
    BY <1>a
  <2>2. E \in Seq(Entry) /\ Len(E) = n /\ \A j \in 1 .. n : E[j] = D[m + j - 1]
    BY <2>1, SubSeqProperties
  <2>3. \A j \in 1 .. n : m + j - 1 = j + d
    BY <1>a
  <2> HIDE DEF E
  <2> QED
    BY <2>2, <2>3
<1> HIDE DEF d, n
<1>2. \A i \in 1 .. n : Weights(E)[i] = Weights(D)[i + d] /\ Weights(E)[i] \in Nat
  <2> SUFFICES ASSUME NEW i \in 1 .. n
               PROVE  Weights(E)[i] = Weights(D)[i + d] /\ Weights(E)[i] \in Nat
    OBVIOUS
  <2> HIDE DEF E
  <2>1. i \in DOMAIN E /\ i + d \in DOMAIN D
    BY <1>a, <1>0, <1>1
  <2>2. E[i].n = D[i + d].n /\ E[i].n \in Nat
    BY <1>1, <2>1, ObservationsWeigh
  <2> QED
    BY <2>1, <2>2 DEF Weights
<1> HIDE DEF E
<1>3. \A j \in 1 .. n + 1 :
        SumFunctionOnSet(Weights(E), j .. n) = SumFunctionOnSet(Weights(D), j + d .. n + d)
  <2> DEFINE e == Weights(E)
  <2> DEFINE f == Weights(D)
  <2>1. Moved(n, d, e, f)
    BY <1>2 DEF Moved
  <2> HIDE DEF e, f
  <2>a. n \in Nat /\ d \in Nat
    BY <1>0
  <2>2. SumsMoved(n, d, e, f)
    BY <2>a, <2>1, SumsMove
  <2> QED
    BY <2>2 DEF e, f, SumsMoved
<1>4. \A j \in 1 .. n : Worth(E, j .. n) = Worth(D, j + d .. Len(D))
  BY <1>0, <1>3 DEF Worth
<1>5. \A j \in 1 .. n : j + d = j + m - 1
  BY <1>a DEF d
<1> QED
  BY <1>1, <1>4, <1>5 DEF E, n

LEMMA SumIsWorth ==
  ASSUME NEW s \in Seq(Entry)
  PROVE  Sum(s) = Worth(s, 1 .. Len(s))
<1>1. DOMAIN Weights(s) = 1 .. Len(s)
  BY DEF Weights
<1> QED
  BY <1>1 DEF Sum, Worth, SumFunction, SumFunctionOnSet, FoldFunction, FoldFunctionOnSet

(* The observations after an instant.                                      *)
Young(L, O, t) == {i \in O : L[i].at > t}

(* Expiry keeps what is in the window in step with the log, and what it    *)
(* keeps is worth what came in the window and at most what came a span and *)
(* the lateness of a packet before.                                        *)
LEMMA FollowsHead ==
  ASSUME NEW L \in Seq(Observation), NEW O, NEW D, NEW span \in Nat, NEW now \in Nat,
         Follows(L, O, D, span, now)
  PROVE  LET E == FromHead(D, now - Window - span)
         IN  /\ Follows(L, O, E, span, now)
             /\ Worth(L, Young(L, O, now - Window)) <= Sum(E)
             /\ Sum(E) <= Worth(L, Young(L, O, now - Window - span - MaxLate))
<1> DEFINE cut == now - Window - span
<1> DEFINE E == FromHead(D, cut)
<1> DEFINE least == Young(L, O, now - Window)
<1> DEFINE most == Young(L, O, now - Window - span - MaxLate)
<1>1. /\ O \subseteq DOMAIN L /\ DOMAIN L = 1 .. Len(L) /\ Len(L) \in Nat
      /\ D \in Seq(Entry) /\ DOMAIN D = 1 .. Len(D) /\ Len(D) \in Nat
      /\ \A j \in DOMAIN D : D[j].at \in Nat /\ D[j].at <= now
  BY ObservationsWeigh DEF Follows
<1>2. \A i \in O : L[i].at \in Nat
  BY <1>1, ObservationsWeigh
<1>3. cut \in Int /\ cut = now - Window - span
  BY Numbers
<1>4. least \in SUBSET (DOMAIN L) /\ most \in SUBSET (DOMAIN L)
  BY <1>1 DEF Young
<1>5. \A i \in least : i \in O /\ L[i].at > now - Window
  BY DEF Young
<1>6. \A i \in O : L[i].at > cut - MaxLate => i \in most
  BY <1>2, <1>3, Numbers DEF Young
<1> HIDE DEF cut, least, most
<1>7. CASE E = <<>> /\ \A l \in DOMAIN D : D[l].at <= cut
  <2>1. \A i \in O : L[i].at <= now - Window
    <3> SUFFICES ASSUME NEW i \in O  PROVE L[i].at <= now - Window
      OBVIOUS
    <3>1. Passed(L[i].at, D, Len(D), span, now)
      BY DEF Follows
    <3> QED
      BY <1>1, <1>2, <1>3, <1>7, <3>1, Numbers DEF Passed
  <2>2. least = {}
    BY <1>2, <1>5, <2>1, Numbers
  <2>3. Worth(L, least) = 0
    BY <2>2, SumOfNothing DEF Worth
  <2>4. E \in Seq(Entry) /\ DOMAIN E = {} /\ Len(E) = 0
    <3> HIDE DEF E
    <3> QED
      BY <1>7
  <2> HIDE DEF E
  <2>5. Sum(E) = 0
    <3>1. Sum(E) = Worth(E, 1 .. Len(E))
      BY <2>4, SumIsWorth
    <3>2. 1 .. Len(E) = {}
      BY <2>4
    <3> QED
      BY <3>1, <3>2, SumOfNothing DEF Worth
  <2>6. Worth(L, most) \in Nat
    BY <1>4, ObservationComes, ObservationsStay
  <2>7. Follows(L, O, E, span, now)
    <3>1. \A i \in O : Passed(L[i].at, E, Len(E), span, now)
      BY <2>1 DEF Passed
    <3> QED
      BY <1>1, <2>4, <3>1 DEF Follows
  <2> QED
    BY <2>3, <2>5, <2>6, <2>7 DEF cut, E, least, most
<1>8. CASE \E m \in DOMAIN D : /\ E = SubSeq(D, m, Len(D)) /\ D[m].at > cut
                               /\ \A l \in 1 .. m - 1 : D[l].at <= cut
  <2>1. PICK m \in DOMAIN D : /\ E = SubSeq(D, m, Len(D)) /\ D[m].at > cut
                              /\ \A l \in 1 .. m - 1 : D[l].at <= cut
    BY <1>8
  <2> HIDE DEF E
  <2>2. /\ E \in Seq(Entry) /\ Len(E) = Len(D) - m + 1 /\ DOMAIN E = 1 .. Len(D) - m + 1
        /\ \A j \in DOMAIN E : E[j] = D[j + m - 1]
        /\ \A j \in DOMAIN E : Worth(E, j .. Len(E)) = Worth(D, j + m - 1 .. Len(D))
    BY <1>1, <2>1, WorthOfHead
  <2>3. m \in Nat /\ 1 <= m /\ m <= Len(D)
    BY <1>1
  <2>4. ASSUME NEW i \in O, NEW j \in 1 .. Len(D) - m + 2, Passed(L[i].at, D, j + m - 2, span, now)
        PROVE  Passed(L[i].at, E, j - 1, span, now)
    <3> SUFFICES ASSUME ~(L[i].at <= now - Window)
                 PROVE  Passed(L[i].at, E, j - 1, span, now)
      BY DEF Passed
    <3>1. PICK l \in 1 .. j + m - 2 : L[i].at <= D[l].at + span
      BY <2>4 DEF Passed
    <3>2. l \in DOMAIN D
      BY <1>1, <2>3
    <3>3. D[l].at > cut
      BY <1>1, <1>2, <1>3, <3>1, <3>2, Numbers
    <3>4. l >= m
      <4>1. l \notin 1 .. m - 1
        BY <1>1, <1>3, <2>1, <3>2, <3>3
      <4> QED
        BY <2>3, <3>1, <4>1
    <3>5. l - m + 1 \in 1 .. j - 1 /\ l - m + 1 \in DOMAIN E /\ (l - m + 1) + m - 1 = l
      BY <1>1, <2>2, <2>3, <3>4
    <3>6. E[l - m + 1] = D[l]
      BY <2>2, <3>5
    <3> QED
      BY <3>1, <3>5, <3>6 DEF Passed
  <2>5. ASSUME NEW j \in DOMAIN E
        PROVE  \E c \in DOMAIN L :
                 /\ Worth(E, j .. Len(E)) = Worth(L, Came(O, c))
                 /\ \A i \in O : IF c <= i THEN E[j].at - MaxLate <= L[i].at
                                 ELSE Passed(L[i].at, E, j - 1, span, now)
    <3>1. j + m - 1 \in DOMAIN D /\ (j + m - 1) - 1 = j + m - 2 /\ j \in 1 .. Len(D) - m + 2
      BY <1>1, <2>2, <2>3
    <3>2. PICK c \in DOMAIN L :
            /\ Worth(D, j + m - 1 .. Len(D)) = Worth(L, Came(O, c))
            /\ \A i \in O : IF c <= i THEN D[j + m - 1].at - MaxLate <= L[i].at
                            ELSE Passed(L[i].at, D, (j + m - 1) - 1, span, now)
      BY <3>1 DEF Follows
    <3> QED
      BY <2>2, <2>4, <3>1, <3>2
  <2>6. \A i \in O : Passed(L[i].at, E, Len(E), span, now)
    <3> DEFINE j == Len(D) - m + 2
    <3>1. j \in 1 .. Len(D) - m + 2 /\ j + m - 2 = Len(D) /\ j - 1 = Len(E)
      BY <1>1, <2>2, <2>3
    <3>2. \A i \in O : Passed(L[i].at, D, Len(D), span, now)
      BY DEF Follows
    <3> HIDE DEF j
    <3> QED
      BY <2>4, <3>1, <3>2
  <2>7. \A j \in DOMAIN E : E[j].at <= now
    <3>1. \A j \in DOMAIN E : j + m - 1 \in DOMAIN D
      BY <1>1, <2>2, <2>3
    <3> QED
      BY <1>1, <2>2, <3>1
  <2>8. Follows(L, O, E, span, now)
    BY <1>1, <2>2, <2>5, <2>6, <2>7 DEF Follows
  <2>9. PICK c \in DOMAIN L :
          /\ Worth(D, m .. Len(D)) = Worth(L, Came(O, c))
          /\ \A i \in O : IF c <= i THEN D[m].at - MaxLate <= L[i].at
                          ELSE Passed(L[i].at, D, m - 1, span, now)
    BY <2>1 DEF Follows
  <2>10. Sum(E) = Worth(L, Came(O, c))
    <3>1. 1 \in DOMAIN E /\ 1 + m - 1 = m
      BY <2>2, <2>3
    <3>2. Sum(E) = Worth(E, 1 .. Len(E))
      BY <2>2, SumIsWorth
    <3>3. Worth(E, 1 .. Len(E)) = Worth(D, m .. Len(D))
      BY <2>2, <3>1
    <3> QED
      BY <2>9, <3>2, <3>3
  <2>11. Came(O, c) \in SUBSET (DOMAIN L)
    BY <1>1 DEF Came
  <2>12. least \subseteq Came(O, c)
    <3> SUFFICES ASSUME NEW i \in least  PROVE c <= i
      BY <1>5 DEF Came
    <3> SUFFICES ASSUME ~(c <= i)  PROVE FALSE
      OBVIOUS
    <3>1. i \in O /\ L[i].at \in Nat /\ L[i].at > now - Window
      BY <1>2, <1>5
    <3>2. Passed(L[i].at, D, m - 1, span, now)
      BY <2>9, <3>1
    <3>3. PICK l \in 1 .. m - 1 : L[i].at <= D[l].at + span
      BY <3>1, <3>2, Numbers DEF Passed
    <3>4. D[l].at <= cut /\ D[l].at \in Nat
      <4>1. l \in DOMAIN D
        BY <1>1, <2>3
      <4> QED
        BY <1>1, <2>1, <4>1
    <3> QED
      BY <1>3, <3>1, <3>3, <3>4, Numbers
  <2>13. Came(O, c) \subseteq most
    <3> SUFFICES ASSUME NEW i \in O, c <= i  PROVE i \in most
      BY DEF Came
    <3>1. D[m].at - MaxLate <= L[i].at
      BY <2>9
    <3>2. L[i].at > cut - MaxLate
      BY <1>1, <1>2, <1>3, <2>1, <3>1, Numbers
    <3> QED
      BY <1>6, <3>2
  <2>14. Worth(L, least) <= Sum(E) /\ Sum(E) <= Worth(L, most)
    BY <1>4, <2>10, <2>11, <2>12, <2>13, ObservationsGrow
  <2> QED
    BY <2>8, <2>14 DEF cut, E, least, most
<1> QED
  BY <1>1, <1>3, <1>7, <1>8, HeadIs

LEMMA ImageIsFinite ==
  ASSUME NEW S, IsFiniteSet(S), NEW L
  PROVE  IsFiniteSet({L[i].peer : i \in S})
<1> DEFINE T == {L[i].peer : i \in S}
<1> DEFINE f == [i \in S |-> L[i].peer]
<1>1. f \in Surjection(S, T)
  BY DEF Surjection
<1> HIDE DEF f, T
<1>2. IsFiniteSet(T)
  BY <1>1, FS_Surjection
<1> QED
  BY <1>2 DEF T

----------------------------------------------------------------------------
(* The peers of a window follow the observations O of a log L: each is one *)
(* that was seen, as of an arrival; one seen lately enough is there, and   *)
(* looks older than it is by the lateness of a packet at most.             *)
PeersFollow(L, O, W, now) ==
    /\ O \subseteq DOMAIN L /\ IsFiniteSet(DOMAIN W)
    /\ \A q \in DOMAIN W : W[q].n = 1 /\ \E i \in O : L[i].peer = q /\ L[i].at = W[q].at
    /\ \A i \in O : L[i].at <= now - Window + MaxLate
                    \/ (L[i].peer \in DOMAIN W /\ L[i].at - MaxLate <= W[L[i].peer].at)

LEMMA PeersOthers ==
  ASSUME NEW L \in Seq(Observation), NEW O, NEW W, NEW now \in Nat,
         PeersFollow(L, O, W, now), NEW o \in Observation, NEW later \in Nat, now <= later
  PROVE  PeersFollow(Append(L, o), O, W, later)
<1> DEFINE K == Append(L, o)
<1>1. O \subseteq DOMAIN L /\ DOMAIN L \subseteq DOMAIN K /\ \A i \in DOMAIN L : K[i] = L[i]
  BY DEF PeersFollow
<1>2. \A i \in O : L[i].at \in Nat /\ K[i] = L[i]
  BY <1>1, ObservationsWeigh
<1> HIDE DEF K
<1>3. \A i \in O : K[i].at <= later - Window + MaxLate
                    \/ (K[i].peer \in DOMAIN W /\ K[i].at - MaxLate <= W[K[i].peer].at)
  <2> SUFFICES ASSUME NEW i \in O, ~(K[i].at <= later - Window + MaxLate)
               PROVE  K[i].peer \in DOMAIN W /\ K[i].at - MaxLate <= W[K[i].peer].at
    OBVIOUS
  <2>1. ~(L[i].at <= now - Window + MaxLate)
    BY <1>2, Numbers
  <2> QED
    BY <1>2, <2>1 DEF PeersFollow
<1>4. \A q \in DOMAIN W : W[q].n = 1 /\ \E i \in O : K[i].peer = q /\ K[i].at = W[q].at
  BY <1>2 DEF PeersFollow
<1>5. IsFiniteSet(DOMAIN W) /\ O \subseteq DOMAIN K
  BY <1>1 DEF PeersFollow
<1> QED
  BY <1>3, <1>4, <1>5 DEF PeersFollow, K

LEMMA PeersContact ==
  ASSUME NEW L \in Seq(Observation), NEW O, NEW W, NEW now \in Nat,
         PeersFollow(L, O, W, now), NEW o \in Observation, now - MaxLate <= o.at,
         \A i \in O : L[i].at <= now
  PROVE  PeersFollow(Append(L, o), O \cup {Len(L) + 1}, Contact(W, o.peer, o.at), Advance(now, o.at))
<1> DEFINE K == Append(L, o)
<1> DEFINE P == O \cup {Len(L) + 1}
<1> DEFINE V == Contact(W, o.peer, o.at)
<1> DEFINE later == Advance(now, o.at)
<1>0. /\ o.at \in Nat /\ later \in Nat /\ now <= later
      /\ O \subseteq DOMAIN L
  BY ObservationsWeigh, AdvanceType DEF PeersFollow
<1>1. /\ P \subseteq DOMAIN K /\ K[Len(L) + 1] = o
      /\ \A i \in O : K[i] = L[i] /\ L[i].at \in Nat
  BY <1>0, ObservationsWeigh
<1>2. /\ DOMAIN V = DOMAIN W \cup {o.peer} /\ V[o.peer].at = o.at /\ V[o.peer].n = 1
      /\ \A q \in DOMAIN W : q # o.peer => V[q] = W[q]
  BY DEF Contact
<1> HIDE DEF K, V, later
<1>3. IsFiniteSet(DOMAIN V)
  <2>1. IsFiniteSet(DOMAIN W)
    BY DEF PeersFollow
  <2>2. IsFiniteSet(DOMAIN W \cup {o.peer})
    BY <2>1, FS_AddElement
  <2> QED
    BY <1>2, <2>2
<1>4. ASSUME NEW q \in DOMAIN V
      PROVE  V[q].n = 1 /\ \E i \in P : K[i].peer = q /\ K[i].at = V[q].at
  <2>1. CASE q = o.peer
    BY <1>1, <1>2, <2>1
  <2>2. CASE q # o.peer
    <3>1. q \in DOMAIN W /\ V[q] = W[q]
      BY <1>2, <2>2
    <3> QED
      BY <1>1, <3>1 DEF PeersFollow
  <2> QED
    BY <2>1, <2>2
<1>5. ASSUME NEW i \in P
      PROVE  K[i].at <= later - Window + MaxLate
               \/ (K[i].peer \in DOMAIN V /\ K[i].at - MaxLate <= V[K[i].peer].at)
  <2>1. CASE i = Len(L) + 1
    BY <1>0, <1>1, <1>2, <2>1, Numbers
  <2>2. CASE i \in O
    <3> SUFFICES ASSUME ~(K[i].at <= later - Window + MaxLate)
                 PROVE  K[i].peer \in DOMAIN V /\ K[i].at - MaxLate <= V[K[i].peer].at
      OBVIOUS
    <3>1. ~(L[i].at <= now - Window + MaxLate)
      BY <1>0, <1>1, <2>2, Numbers
    <3>2. L[i].peer \in DOMAIN W /\ L[i].at - MaxLate <= W[L[i].peer].at
      BY <2>2, <3>1 DEF PeersFollow
    <3>3. L[i].at - MaxLate <= o.at
      BY <1>0, <1>1, <2>2, Numbers
    <3> QED
      BY <1>1, <1>2, <2>2, <3>2, <3>3
  <2> QED
    BY <2>1, <2>2
<1> QED
  BY <1>1, <1>3, <1>4, <1>5 DEF PeersFollow, K, V, later

LEMMA CountOfPeers ==
  ASSUME NEW W, IsFiniteSet(DOMAIN W), \A q \in DOMAIN W : W[q].n = 1
  PROVE  Sum(W) = Cardinality(DOMAIN W)
<1> DEFINE f == Weights(W)
<1>1. DOMAIN f = DOMAIN W /\ \A q \in DOMAIN W : f[q] = 1
  BY DEF Weights
<1> HIDE DEF f
<1>2. SumFunctionOnSet(f, DOMAIN W) = Cardinality(DOMAIN W)
  BY <1>1, OnesAreCounted
<1> QED
  BY <1>1, <1>2 DEF f, Sum, SumFunction, SumFunctionOnSet, FoldFunction, FoldFunctionOnSet

LEMMA PeersLive ==
  ASSUME NEW L \in Seq(Observation), NEW O, NEW W, NEW now \in Nat, PeersFollow(L, O, W, now)
  PROVE  LET V == LivePeers(W, now)
             peers(t) == {L[i].peer : i \in Young(L, O, t)}
         IN  /\ PeersFollow(L, O, V, now)
             /\ \A q \in DOMAIN V : V[q].at > now - Window
             /\ Cardinality(peers(now - Window + MaxLate)) <= Sum(V)
             /\ Sum(V) <= Cardinality(peers(now - Window - Bucket - MaxLate))
<1> DEFINE V == LivePeers(W, now)
<1> DEFINE least == {L[i].peer : i \in Young(L, O, now - Window + MaxLate)}
<1> DEFINE young == Young(L, O, now - Window - Bucket - MaxLate)
<1> DEFINE most == {L[i].peer : i \in young}
<1>1. O \subseteq DOMAIN L /\ \A i \in O : L[i].at \in Nat
  BY ObservationsWeigh DEF PeersFollow
<1>2. /\ DOMAIN V \subseteq DOMAIN W /\ \A q \in DOMAIN V : V[q] = W[q] /\ W[q].at > now - Window
      /\ \A q \in DOMAIN W : W[q].at > now - Window => q \in DOMAIN V
  BY DEF LivePeers, Restrict
<1> HIDE DEF V
<1>3. IsFiniteSet(DOMAIN V)
  BY <1>2, FS_Subset DEF PeersFollow
<1>4. \A q \in DOMAIN V : V[q].n = 1 /\ \E i \in O : L[i].peer = q /\ L[i].at = V[q].at
  BY <1>2 DEF PeersFollow
<1>5. \A i \in O : L[i].at <= now - Window + MaxLate
                   \/ (L[i].peer \in DOMAIN V /\ L[i].at - MaxLate <= V[L[i].peer].at)
  <2> SUFFICES ASSUME NEW i \in O, ~(L[i].at <= now - Window + MaxLate)
               PROVE  L[i].peer \in DOMAIN V /\ L[i].at - MaxLate <= V[L[i].peer].at
    OBVIOUS
  <2>1. L[i].peer \in DOMAIN W /\ L[i].at - MaxLate <= W[L[i].peer].at
    BY DEF PeersFollow
  <2>2. PICK l \in O : L[l].at = W[L[i].peer].at
    BY <2>1 DEF PeersFollow
  <2>3. W[L[i].peer].at > now - Window
    BY <1>1, <2>1, <2>2, Numbers
  <2> QED
    BY <1>2, <2>1, <2>3
<1>6. Sum(V) = Cardinality(DOMAIN V)
  BY <1>3, <1>4, CountOfPeers
<1>7. least \subseteq DOMAIN V
  BY <1>1, <1>5, Numbers DEF Young
<1>8. DOMAIN V \subseteq most
  <2> SUFFICES ASSUME NEW q \in DOMAIN V  PROVE q \in most
    OBVIOUS
  <2>1. PICK i \in O : L[i].peer = q /\ L[i].at = V[q].at
    BY <1>4
  <2>2. L[i].at > now - Window - Bucket - MaxLate
    BY <1>1, <1>2, <2>1, Numbers
  <2> QED
    BY <2>1, <2>2 DEF Young
<1>9. IsFiniteSet(most)
  <2>1. young \in SUBSET (DOMAIN L)
    BY <1>1 DEF Young
  <2>2. IsFiniteSet(young)
    BY <2>1, ObservationsStay
  <2> HIDE DEF young
  <2>3. most = {L[i].peer : i \in young}
    OBVIOUS
  <2> QED
    BY <2>2, <2>3, ImageIsFinite
<1>10. Cardinality(least) <= Cardinality(DOMAIN V) /\ Cardinality(DOMAIN V) <= Cardinality(most)
  BY <1>3, <1>7, <1>8, <1>9, FS_Subset
<1>11. PeersFollow(L, O, V, now)
  BY <1>1, <1>3, <1>4, <1>5 DEF PeersFollow
<1> QED
  BY <1>2, <1>6, <1>10, <1>11 DEF V

----------------------------------------------------------------------------
(* What the registry says of each detector.                                *)
Registered(d) ==
    /\ Registry[d].counts \subseteq Packets
    /\ Registry[d].window \in {"counter", "times", "peers"}
    /\ Registry[d].window = "times" <=> d = "Beaconing"
    /\ d \in {"DnsTunneling", "DataExfiltration"} => Registry[d].window = "counter"
    /\ d = "SuspiciousPort" => Registry[d].window = "peers" /\ Registry[d].key = "src"
    /\ d # "SuspiciousPort" => Registry[d].threshold = Threshold[d]

LEMMA RegistryIs == \A d \in Names : Registered(d)
<1>1. SUFFICES ASSUME NEW d \in Names  PROVE Registered(d)
  OBVIOUS
<1>2. d \in {"SynFlood", "UdpFlood", "IcmpFlood", "ArpSpoofing", "SshBruteForce", "HttpBruteForce",
           "DataExfiltration", "TcpPortScan", "SynScan", "LateralMovement",
           "SuspiciousPort", "Beaconing", "DnsTunneling"}
  BY <1>1 DEF Names, Registry
<1>3. CASE d = "SynFlood"
  <2>1. Registry["SynFlood"] = SynFlood
    BY DEF Registry
  <2> QED
    BY <1>3, <2>1 DEF Registered, SynFlood
<1>4. CASE d = "UdpFlood"
  <2>1. Registry["UdpFlood"] = UdpFlood
    BY DEF Registry
  <2> QED
    BY <1>4, <2>1 DEF Registered, UdpFlood
<1>5. CASE d = "IcmpFlood"
  <2>1. Registry["IcmpFlood"] = IcmpFlood
    BY DEF Registry
  <2> QED
    BY <1>5, <2>1 DEF Registered, IcmpFlood
<1>6. CASE d = "ArpSpoofing"
  <2>1. Registry["ArpSpoofing"] = ArpSpoofing
    BY DEF Registry
  <2> QED
    BY <1>6, <2>1 DEF Registered, ArpSpoofing
<1>7. CASE d = "SshBruteForce"
  <2>1. Registry["SshBruteForce"] = SshBruteForce
    BY DEF Registry
  <2> QED
    BY <1>7, <2>1 DEF Registered, SshBruteForce
<1>8. CASE d = "HttpBruteForce"
  <2>1. Registry["HttpBruteForce"] = HttpBruteForce
    BY DEF Registry
  <2> QED
    BY <1>8, <2>1 DEF Registered, HttpBruteForce
<1>9. CASE d = "DataExfiltration"
  <2>1. Registry["DataExfiltration"] = DataExfiltration
    BY DEF Registry
  <2> QED
    BY <1>9, <2>1 DEF Registered, DataExfiltration
<1>10. CASE d = "TcpPortScan"
  <2>1. Registry["TcpPortScan"] = TcpPortScan
    BY DEF Registry
  <2> QED
    BY <1>10, <2>1 DEF Registered, TcpPortScan
<1>11. CASE d = "SynScan"
  <2>1. Registry["SynScan"] = SynScan
    BY DEF Registry
  <2> QED
    BY <1>11, <2>1 DEF Registered, SynScan, TcpPortScan
<1>12. CASE d = "LateralMovement"
  <2>1. Registry["LateralMovement"] = LateralMovement
    BY DEF Registry
  <2> QED
    BY <1>12, <2>1 DEF Registered, LateralMovement
<1>13. CASE d = "SuspiciousPort"
  <2>1. Registry["SuspiciousPort"] = SuspiciousPort
    BY DEF Registry
  <2> QED
    BY <1>13, <2>1 DEF Registered, SuspiciousPort
<1>14. CASE d = "Beaconing"
  <2>1. Registry["Beaconing"] = Beaconing
    BY DEF Registry
  <2> QED
    BY <1>14, <2>1 DEF Registered, Beaconing
<1>15. CASE d = "DnsTunneling"
  <2>1. Registry["DnsTunneling"] = DnsTunneling
    BY DEF Registry
  <2> QED
    BY <1>15, <2>1 DEF Registered, DnsTunneling
<1> QED
  BY <1>2, <1>3, <1>4, <1>5, <1>6, <1>7, <1>8, <1>9, <1>10,
     <1>11, <1>12, <1>13, <1>14, <1>15

----------------------------------------------------------------------------
(* The invariant of the detectors: AlertsAreBacked alone says nothing of   *)
(* the windows an evaluation reads, so every window follows the log, and   *)
(* the two clocks of the DNS detector are one unless they have parted.     *)
Of(k) == {i \in DOMAIN log : log[i].key = k}
HidesOf(k) == {i \in Of(k) : log[i].hides}

DetTypes ==
    /\ detector \in Names /\ packetTime \in Nat /\ encodedAt \in Nat /\ encodedAt <= packetTime
    /\ DOMAIN window = Keys /\ DOMAIN encoded = Keys
    /\ log \in Seq(Observation)
    /\ \A i \in DOMAIN log :
         /\ log[i].at <= packetTime
         /\ log[i].peer \in {Peer(detector, p) : p \in Packets}
         /\ detector # "DataExfiltration" => log[i].n = 1

Ones(D) == \A j \in DOMAIN D : D[j].n = 1

WindowFollows(k) ==
    /\ Registry[detector].window = "counter" => Follows(log, Of(k), window[k], Bucket, packetTime)
    /\ Registry[detector].window = "times" =>
         Follows(log, Of(k), window[k], 0, packetTime) /\ Ones(window[k])
    /\ Registry[detector].window = "peers" => PeersFollow(log, Of(k), window[k], packetTime)
    /\ Follows(log, HidesOf(k), encoded[k], Bucket, encodedAt)

WindowsFollow == \A k \in Keys : WindowFollows(k)

InStep == detector = "DnsTunneling" /\ ~parted => encodedAt = packetTime

DetInv == DetTypes /\ WindowsFollow /\ InStep

LEMMA OnesAppended ==
  ASSUME NEW D \in Seq(Entry), Ones(D), NEW t \in Nat
  PROVE  Ones(Stamp(D, t))
<1> DEFINE e == [at |-> t, n |-> 1]
<1>1. e \in Entry /\ e.n = 1
  BY DEF Entry
<1> HIDE DEF e
<1>2. \A j \in DOMAIN Append(D, e) : Append(D, e)[j].n = 1
  BY <1>1 DEF Ones
<1> QED
  BY <1>2 DEF Ones, Stamp, e

LEMMA OnesKept ==
  ASSUME NEW D \in Seq(Entry), Ones(D), NEW c \in Int
  PROVE  Ones(FromHead(D, c))
<1>1. CASE FromHead(D, c) = <<>>
  BY <1>1 DEF Ones
<1>2. CASE \E m \in DOMAIN D : FromHead(D, c) = SubSeq(D, m, Len(D))
  <2>1. PICK m \in DOMAIN D : FromHead(D, c) = SubSeq(D, m, Len(D))
    BY <1>2
  <2> DEFINE E == SubSeq(D, m, Len(D))
  <2>2. DOMAIN E = 1 .. Len(D) - m + 1 /\ \A j \in DOMAIN E : E[j] = D[j + m - 1]
    BY WorthOfHead
  <2>3. DOMAIN D = 1 .. Len(D) /\ Len(D) \in Nat /\ m \in Nat /\ 1 <= m
    OBVIOUS
  <2> HIDE DEF E
  <2>4. \A j \in DOMAIN E : j + m - 1 \in DOMAIN D
    BY <2>2, <2>3
  <2> QED
    BY <2>1, <2>2, <2>4 DEF Ones, E
<1> QED
  BY <1>1, <1>2, HeadIs

LEMMA NothingFollows ==
  ASSUME NEW span, NEW now
  PROVE  Follows(<<>>, {}, <<>>, span, now) /\ PeersFollow(<<>>, {}, <<>>, now) /\ Ones(<<>>)
<1>1. <<>> \in Seq(Entry) /\ DOMAIN <<>> = {}
  OBVIOUS
<1> QED
  BY <1>1, FS_EmptySet DEF Follows, PeersFollow, Ones

LEMMA DetInitHolds == DetectorsInit => DetInv /\ AlertsAreBacked
<1> SUFFICES ASSUME DetectorsInit  PROVE DetInv /\ AlertsAreBacked
  OBVIOUS
<1>1. log = <<>> /\ log \in Seq(Observation) /\ DOMAIN log = {} /\ alerts = {}
  BY DEF DetectorsInit
<1>2. DetTypes /\ InStep /\ AlertsAreBacked
  BY <1>1 DEF DetectorsInit, DetTypes, InStep, AlertsAreBacked
<1>3. ASSUME NEW k \in Keys  PROVE WindowFollows(k)
  <2>1. Of(k) = {} /\ HidesOf(k) = {} /\ window[k] = <<>> /\ encoded[k] = <<>>
    BY <1>1, <1>3 DEF DetectorsInit, Of, HidesOf
  <2> QED
    BY <1>1, <2>1, NothingFollows DEF WindowFollows
<1> QED
  BY <1>2, <1>3 DEF DetInv, WindowsFollow

LEMMA AmountType ==
  ASSUME NEW d, NEW p \in Packets
  PROVE  Amount(d, p) \in Nat /\ (d # "DataExfiltration" => Amount(d, p) = 1)
BY DetectorsAssumption DEF Amount

LEMMA RecordStep ==
  ASSUME DetInv, NEW p \in Packets, NEW t \in Times, t >= packetTime - MaxLate, Record(p, t)
  PROVE  DetInv' /\ AlertsAreBacked'
<1> DEFINE d == detector
<1> DEFINE key == Key(d, p)
<1> DEFINE hides == d = "DnsTunneling" /\ p.query \in Encoded
<1> DEFINE o == [key |-> key, at |-> t, n |-> Amount(d, p), peer |-> Peer(d, p), hides |-> hides,
                answers |-> "ack" \in p.flags]
<1> DEFINE m == Len(log) + 1
<1>1. d \in Names /\ d' = d /\ Registered(d) /\ Keys' = Keys /\ key \in Keys
  BY RegistryIs DEF DetInv, DetTypes, Record, Keys
<1>2. t \in Nat /\ packetTime \in Nat /\ encodedAt \in Nat /\ encodedAt <= packetTime
  BY DetectorsAssumption DEF DetInv, DetTypes, Times
<1>3. /\ o \in Observation /\ o.key = key /\ o.at = t /\ o.n = Amount(d, p)
      /\ o.peer = Peer(d, p) /\ o.hides = hides
  BY <1>1, <1>2, AmountType DEF Observation
<1>4. log \in Seq(Observation) /\ log' = Append(log, o)
  BY DEF DetInv, DetTypes, Record
<1>5. /\ packetTime' = Advance(packetTime, t) /\ packetTime' \in Nat
      /\ packetTime <= packetTime' /\ t <= packetTime'
  BY <1>2, AdvanceType DEF Record
<1>6. /\ encodedAt' = IF hides THEN Advance(encodedAt, t) ELSE encodedAt
      /\ encodedAt' \in Nat /\ encodedAt <= encodedAt' /\ encodedAt' <= packetTime'
  BY <1>2, <1>5 DEF Record, Advance
<1>7. /\ DOMAIN log = 1 .. Len(log) /\ Len(log) \in Nat /\ DOMAIN log' = 1 .. m
      /\ m \notin DOMAIN log
      /\ \A i \in DOMAIN log : log'[i] = log[i]
      /\ log'[m] = o
  BY <1>4
<1>8. /\ DOMAIN window = Keys /\ DOMAIN encoded = Keys
      /\ \A i \in DOMAIN log :
           /\ log[i].at <= packetTime
           /\ log[i].peer \in {Peer(d, q) : q \in Packets}
           /\ d # "DataExfiltration" => log[i].n = 1
  BY DEF DetInv, DetTypes
<1>9. /\ window' = [window EXCEPT ![key] =
              IF Registry[d].window = "counter" THEN Tally(@, t, o.n)
              ELSE IF Registry[d].window = "times" THEN Stamp(@, t) ELSE Contact(@, o.peer, t)]
      /\ encoded' = IF hides THEN [encoded EXCEPT ![key] = Tally(@, t, 1)] ELSE encoded
      /\ alerts' = {}
      /\ parted' = (parted \/ (d = "DnsTunneling" /\ encodedAt' # packetTime'))
  BY <1>3 DEF Record
<1>10. d # "DataExfiltration" => o.n = 1
  BY <1>3, AmountType
<1>11. hides => d = "DnsTunneling" /\ o.n = 1
  BY <1>10
<1> HIDE DEF d, key, hides, o, m
<1>12. DetTypes'
  <2>1. log' \in Seq(Observation)
    BY <1>3, <1>4
  <2>2. DOMAIN window' = Keys /\ DOMAIN encoded' = Keys
    BY <1>8, <1>9
  <2>3. ASSUME NEW i \in DOMAIN log'
        PROVE  /\ log'[i].at <= packetTime'
               /\ log'[i].peer \in {Peer(d, q) : q \in Packets}
               /\ d # "DataExfiltration" => log'[i].n = 1
    <3>1. CASE i = m
      BY <1>3, <1>5, <1>7, <1>10, <3>1
    <3>2. CASE i \in DOMAIN log
      <4>1. log'[i] = log[i] /\ log[i].at \in Nat /\ log[i].at <= packetTime
        BY <1>4, <1>7, <1>8, <3>2, ObservationsWeigh
      <4> QED
        BY <1>2, <1>5, <1>8, <3>2, <4>1
    <3> QED
      BY <1>7, <3>1, <3>2 DEF m
  <2> QED
    BY <1>1, <1>5, <1>6, <2>1, <2>2, <2>3 DEF DetTypes, d
<1>13. ASSUME NEW k \in Keys
       PROVE  /\ Of(k)' = IF k = key THEN Of(k) \cup {m} ELSE Of(k)
              /\ HidesOf(k)' = IF k = key /\ hides THEN HidesOf(k) \cup {m} ELSE HidesOf(k)
              /\ Of(k) \subseteq DOMAIN log /\ HidesOf(k) \subseteq DOMAIN log
  <2>1. Of(k)' = {i \in DOMAIN log' : log'[i].key = k}
    BY DEF Of
  <2>2. Of(k)' = IF k = key THEN Of(k) \cup {m} ELSE Of(k)
    BY <1>3, <1>7, <2>1 DEF Of, m
  <2>3. HidesOf(k)' = {i \in Of(k)' : log'[i].hides}
    BY DEF HidesOf
  <2>4. \A i \in Of(k) : i \in DOMAIN log /\ i # m
    BY <1>7 DEF Of
  <2> QED
    BY <1>3, <1>7, <2>2, <2>3, <2>4 DEF HidesOf
<1>14. ASSUME NEW k \in Keys  PROVE WindowFollows(k)'
  <2>0. WindowFollows(k)
    BY DEF DetInv, WindowsFollow
  <2>1. Follows(log', HidesOf(k)', encoded'[k], Bucket, encodedAt')
    <3>0. Follows(log, HidesOf(k), encoded[k], Bucket, encodedAt) /\ Bucket \in Nat
      BY <2>0, Numbers DEF WindowFollows
    <3>1. CASE k = key /\ hides
      <4>1. encodedAt - MaxLate <= o.at
        BY <1>2, <1>3, Numbers
      <4>2. Follows(Append(log, o), HidesOf(k) \cup {Len(log) + 1}, Tally(encoded[k], o.at, o.n),
                    Bucket, Advance(encodedAt, o.at))
        BY <1>2, <1>3, <1>4, <3>0, <4>1, FollowsTally
      <4>3. encoded'[k] = Tally(encoded[k], o.at, o.n)
        BY <1>1, <1>3, <1>8, <1>9, <1>11, <3>1
      <4> QED
        BY <1>3, <1>4, <1>6, <1>13, <3>1, <4>2, <4>3 DEF m
    <3>2. CASE ~(k = key /\ hides)
      <4>1. encoded'[k] = encoded[k]
        BY <1>8, <1>9, <3>2
      <4>2. Follows(Append(log, o), HidesOf(k), encoded[k], Bucket, encodedAt')
        BY <1>2, <1>3, <1>4, <1>6, <3>0, FollowsOthers
      <4> QED
        BY <1>4, <1>13, <3>2, <4>1, <4>2
    <3> QED
      BY <3>1, <3>2
  <2>2. CASE k = key
    <3>0. packetTime - MaxLate <= o.at /\ Of(k)' = Of(k) \cup {Len(log) + 1}
      BY <1>2, <1>3, <1>13, <2>2, Numbers DEF m
    <3>1. CASE Registry[d].window = "counter"
      <4>1. Follows(log, Of(k), window[k], Bucket, packetTime)
        BY <2>0, <3>1 DEF WindowFollows, d
      <4>2. Follows(Append(log, o), Of(k) \cup {Len(log) + 1}, Tally(window[k], o.at, o.n),
                    Bucket, Advance(packetTime, o.at))
        BY <1>2, <1>3, <1>4, <3>0, <4>1, FollowsTally
      <4>3. window'[k] = Tally(window[k], o.at, o.n)
        BY <1>1, <1>3, <1>8, <1>9, <2>2, <3>1
      <4>4. Follows(log', Of(k)', window'[k], Bucket, packetTime')
        BY <1>3, <1>4, <1>5, <3>0, <4>2, <4>3
      <4> QED
        BY <1>1, <2>1, <3>1, <4>4 DEF WindowFollows, d
    <3>2. CASE Registry[d].window = "times"
      <4>1. /\ Follows(log, Of(k), window[k], 0, packetTime)
            /\ window[k] \in Seq(Entry) /\ Ones(window[k])
        BY <2>0, <3>2 DEF WindowFollows, d, Follows
      <4>2. o.n = 1
        BY <1>1, <1>10, <3>2 DEF Registered
      <4>3. Follows(Append(log, o), Of(k) \cup {Len(log) + 1}, Stamp(window[k], o.at),
                    0, Advance(packetTime, o.at))
        BY <1>2, <1>3, <1>4, <3>0, <4>1, <4>2, FollowsStamp
      <4>4. window'[k] = Stamp(window[k], o.at)
        BY <1>1, <1>3, <1>8, <1>9, <2>2, <3>2
      <4>5. Follows(log', Of(k)', window'[k], 0, packetTime') /\ Ones(window'[k])
        BY <1>2, <1>3, <1>4, <1>5, <3>0, <4>1, <4>3, <4>4, OnesAppended
      <4> QED
        BY <1>1, <2>1, <3>2, <4>5 DEF WindowFollows, d
    <3>3. CASE Registry[d].window = "peers"
      <4>1. PeersFollow(log, Of(k), window[k], packetTime) /\ \A i \in Of(k) : log[i].at <= packetTime
        BY <1>8, <2>0, <3>3 DEF WindowFollows, d, Of
      <4>2. PeersFollow(Append(log, o), Of(k) \cup {Len(log) + 1}, Contact(window[k], o.peer, o.at),
                        Advance(packetTime, o.at))
        BY <1>2, <1>3, <1>4, <3>0, <4>1, PeersContact
      <4>3. window'[k] = Contact(window[k], o.peer, o.at)
        BY <1>1, <1>3, <1>8, <1>9, <2>2, <3>3
      <4>4. PeersFollow(log', Of(k)', window'[k], packetTime')
        BY <1>3, <1>4, <1>5, <3>0, <4>2, <4>3
      <4> QED
        BY <1>1, <2>1, <3>3, <4>4 DEF WindowFollows, d
    <3> QED
      BY <1>1, <3>1, <3>2, <3>3 DEF Registered
  <2>3. CASE k # key
    <3>1. window'[k] = window[k] /\ Of(k)' = Of(k)
      BY <1>8, <1>9, <1>13, <2>3
    <3>2. ASSUME NEW span \in Nat, Follows(log, Of(k), window[k], span, packetTime)
          PROVE  Follows(Append(log, o), Of(k), window[k], span, packetTime')
      BY <1>2, <1>3, <1>4, <1>5, <3>2, FollowsOthers
    <3>3. ASSUME PeersFollow(log, Of(k), window[k], packetTime)
          PROVE  PeersFollow(Append(log, o), Of(k), window[k], packetTime')
      BY <1>2, <1>3, <1>4, <1>5, <3>3, PeersOthers
    <3>4. Bucket \in Nat /\ 0 \in Nat
      BY Numbers
    <3> QED
      BY <1>1, <1>4, <2>0, <2>1, <3>1, <3>2, <3>3, <3>4 DEF WindowFollows, d
  <2> QED
    BY <2>2, <2>3
<1>15. InStep'
  BY <1>1, <1>9 DEF InStep, d
<1>16. AlertsAreBacked'
  BY <1>9 DEF AlertsAreBacked
<1> QED
  BY <1>1, <1>12, <1>14, <1>15, <1>16 DEF DetInv, WindowsFollow

----------------------------------------------------------------------------
(* What is left of a window after expiry still follows the log, and        *)
(* measures what its detector promises.                                    *)
LEMMA SinceIs ==
  ASSUME NEW k, NEW t
  PROVE  Since(k, t) = IF Registry[detector].window = "peers"
                       THEN Cardinality({log[i].peer : i \in Young(log, Of(k), t)})
                       ELSE Worth(log, Young(log, Of(k), t))
<1>1. {i \in DOMAIN log : log[i].key = k /\ log[i].at > t} = Young(log, Of(k), t)
  BY DEF Young, Of
<1> QED
  BY <1>1 DEF Since, Worth

LEMMA LiveFollows ==
  ASSUME DetInv, NEW k \in Keys
  PROVE  LET live == Live(detector, window[k], packetTime)
             early == IF Registry[detector].window = "peers" THEN MaxLate ELSE 0
         IN  /\ Registry[detector].window = "counter" => Follows(log, Of(k), live, Bucket, packetTime)
             /\ Registry[detector].window = "times" =>
                  Follows(log, Of(k), live, 0, packetTime) /\ Ones(live)
             /\ Registry[detector].window = "peers" =>
                  /\ PeersFollow(log, Of(k), live, packetTime)
                  /\ \A q \in DOMAIN live : live[q].at > packetTime - Window
             /\ Since(k, packetTime - Window + early) <= Sum(live)
             /\ Sum(live) <= Since(k, packetTime - Window - Bucket - MaxLate)
<1> DEFINE live == Live(detector, window[k], packetTime)
<1>1. /\ WindowFollows(k) /\ packetTime \in Nat /\ log \in Seq(Observation)
      /\ Registered(detector) /\ Bucket \in Nat /\ 0 \in Nat
  BY RegistryIs, Numbers DEF DetInv, WindowsFollow, DetTypes
<1>2. CASE Registry[detector].window = "counter"
  <2>1. live = FromHead(window[k], packetTime - Window - Bucket)
    BY <1>2 DEF Live, Total
  <2>2. Follows(log, Of(k), window[k], Bucket, packetTime)
    BY <1>1, <1>2 DEF WindowFollows
  <2> HIDE DEF live
  <2>3. /\ Follows(log, Of(k), live, Bucket, packetTime)
        /\ Worth(log, Young(log, Of(k), packetTime - Window)) <= Sum(live)
        /\ Sum(live) <= Worth(log, Young(log, Of(k), packetTime - Window - Bucket - MaxLate))
    BY <1>1, <2>1, <2>2, FollowsHead
  <2>4. packetTime - Window + 0 = packetTime - Window
    BY <1>1, Numbers
  <2> QED
    BY <1>2, <2>3, <2>4, SinceIs DEF live
<1>3. CASE Registry[detector].window = "times"
  <2>1. live = FromHead(window[k], packetTime - Window - 0)
    <3>1. packetTime - Window - 0 = packetTime - Window
      BY <1>1, Numbers
    <3> QED
      BY <1>3, <3>1 DEF Live, Stamps
  <2>2. /\ Follows(log, Of(k), window[k], 0, packetTime)
        /\ window[k] \in Seq(Entry) /\ Ones(window[k])
    BY <1>1, <1>3 DEF WindowFollows, Follows
  <2> HIDE DEF live
  <2>3. /\ Follows(log, Of(k), live, 0, packetTime)
        /\ Worth(log, Young(log, Of(k), packetTime - Window)) <= Sum(live)
        /\ Sum(live) <= Worth(log, Young(log, Of(k), packetTime - Window - 0 - MaxLate))
    BY <1>1, <2>1, <2>2, FollowsHead
  <2>4. packetTime - Window + 0 = packetTime - Window
    BY <1>1, Numbers
  <2> DEFINE R == Young(log, Of(k), packetTime - Window - 0 - MaxLate)
  <2> DEFINE S == Young(log, Of(k), packetTime - Window - Bucket - MaxLate)
  <2>5. R \subseteq S /\ S \in SUBSET (DOMAIN log)
    <3>1. \A i \in DOMAIN log : log[i].at \in Nat
      BY <1>1, ObservationsWeigh
    <3> QED
      BY <1>1, <3>1, Numbers DEF Young, Of
  <2> HIDE DEF R, S
  <2>6. Worth(log, R) <= Worth(log, S) /\ Worth(log, R) \in Nat /\ Worth(log, S) \in Nat
    <3>1. R \in SUBSET (DOMAIN log)
      BY <2>5
    <3> QED
      BY <1>1, <2>5, <3>1, ObservationsGrow, ObservationsStay
  <2>7. Sum(live) \in Nat
    <3>1. live \in Seq(Entry)
      BY <2>3 DEF Follows
    <3>2. 1 .. Len(live) \in SUBSET (DOMAIN live)
      BY <3>1
    <3> QED
      BY <3>1, <3>2, SumIsWorth, EntryStays
  <2>8. Sum(live) <= Worth(log, S)
    BY <2>3, <2>6, <2>7 DEF R
  <2>9. Ones(live)
    <3>1. packetTime - Window - 0 \in Int
      BY <1>1, Numbers
    <3> QED
      BY <2>1, <2>2, <3>1, OnesKept
  <2> QED
    BY <1>3, <2>3, <2>4, <2>8, <2>9, SinceIs DEF live, S
<1>4. CASE Registry[detector].window = "peers"
  <2>1. live = LivePeers(window[k], packetTime)
    BY <1>4 DEF Live
  <2>2. PeersFollow(log, Of(k), window[k], packetTime)
    BY <1>1, <1>4 DEF WindowFollows
  <2> HIDE DEF live
  <2>3. /\ PeersFollow(log, Of(k), live, packetTime)
        /\ \A q \in DOMAIN live : live[q].at > packetTime - Window
        /\ Cardinality({log[i].peer : i \in Young(log, Of(k), packetTime - Window + MaxLate)}) <= Sum(live)
        /\ Sum(live) <= Cardinality({log[i].peer : i \in
                                       Young(log, Of(k), packetTime - Window - Bucket - MaxLate)})
    BY <1>1, <2>1, <2>2, PeersLive
  <2> QED
    BY <1>4, <2>3, SinceIs DEF live
<1> QED
  BY <1>1, <1>2, <1>3, <1>4 DEF Registered

LEMMA Measured == DetInv => MeasuresTheWindow
BY LiveFollows DEF MeasuresTheWindow

LEMMA EvaluateFollows ==
  ASSUME DetInv, Evaluate
  PROVE  DetInv'
<1> DEFINE live == [k \in Keys |-> Live(detector, window[k], packetTime)]
<1> DEFINE hidden == [k \in Keys |-> IF DOMAIN live[k] = {} THEN encoded[k] ELSE Total(encoded[k], encodedAt)]
<1>1. /\ window' = live /\ encoded' = hidden
      /\ UNCHANGED <<detector, packetTime, encodedAt, log, parted>>
      /\ Keys' = Keys /\ DOMAIN live = Keys /\ DOMAIN hidden = Keys
  BY DEF Evaluate, Keys
<1>2. DetTypes' /\ InStep'
  BY <1>1 DEF DetInv, DetTypes, InStep
<1>3. ASSUME NEW k \in Keys  PROVE WindowFollows(k)'
  <2>1. WindowFollows(k) /\ encodedAt \in Nat /\ log \in Seq(Observation) /\ Bucket \in Nat
    BY Numbers DEF DetInv, DetTypes, WindowsFollow
  <2>2. Follows(log, HidesOf(k), hidden[k], Bucket, encodedAt)
    <3>1. Follows(log, HidesOf(k), encoded[k], Bucket, encodedAt)
      BY <2>1 DEF WindowFollows
    <3>2. Follows(log, HidesOf(k), Total(encoded[k], encodedAt), Bucket, encodedAt)
      BY <2>1, <3>1, FollowsHead DEF Total
    <3>3. hidden[k] \in {encoded[k], Total(encoded[k], encodedAt)}
      OBVIOUS
    <3> HIDE DEF hidden
    <3> QED
      BY <3>1, <3>2, <3>3
  <2>3. live[k] = Live(detector, window[k], packetTime)
    OBVIOUS
  <2> HIDE DEF live, hidden
  <2>4. /\ Registry[detector].window = "counter" => Follows(log, Of(k), live[k], Bucket, packetTime)
        /\ Registry[detector].window = "times" =>
             Follows(log, Of(k), live[k], 0, packetTime) /\ Ones(live[k])
        /\ Registry[detector].window = "peers" => PeersFollow(log, Of(k), live[k], packetTime)
    BY <2>3, LiveFollows
  <2>5. Of(k)' = Of(k) /\ HidesOf(k)' = HidesOf(k)
    BY <1>1 DEF Of, HidesOf
  <2> QED
    BY <1>1, <2>2, <2>4, <2>5 DEF WindowFollows
<1> QED
  BY <1>1, <1>2, <1>3 DEF DetInv, WindowsFollow

----------------------------------------------------------------------------
(* An evaluation raises only what the log backs.                           *)
Recently(k) == {i \in DOMAIN log : /\ log[i].key = k
                                   /\ log[i].at > packetTime - Window - Bucket - MaxLate}

LEMMA RecentlyIs ==
  ASSUME NEW k
  PROVE  Recently(k) = Young(log, Of(k), packetTime - Window - Bucket - MaxLate)
BY DEF Recently, Young, Of

(* Where every packet counts for one, the worth is the number.             *)
LEMMA WorthIsNumber ==
  ASSUME NEW s, NEW S \in SUBSET (DOMAIN s), IsFiniteSet(S), \A i \in S : s[i].n = 1
  PROVE  Worth(s, S) = Cardinality(S)
<1> DEFINE f == Weights(s)
<1>1. \A i \in S : f[i] = 1
  BY DEF Weights
<1> HIDE DEF f
<1>2. SumFunctionOnSet(f, S) = Cardinality(S)
  BY <1>1, OnesAreCounted
<1> QED
  BY <1>2 DEF f, Worth

LEMMA Joined ==
  ASSUME NEW a, NEW b, NEW c
  PROVE  SubSeq(<<a>> \o <<b, c>>, 1, 1) = <<a>> /\ SubSeq(<<a>> \o <<b, c>>, 2, 3) = <<b, c>>
<1> DEFINE T == {a, b, c}
<1> DEFINE x == <<a>>
<1> DEFINE y == <<b, c>>
<1> DEFINE z == x \o y
<1>1. x \in Seq(T) /\ y \in Seq(T) /\ Len(x) = 1 /\ Len(y) = 2 /\ x[1] = a /\ y[1] = b /\ y[2] = c
  OBVIOUS
<1> HIDE DEF T, x, y
<1>2. z \in Seq(T) /\ Len(z) = 3 /\ \A i \in 1 .. 3 : z[i] = IF i <= 1 THEN x[i] ELSE y[i - 1]
  <2>1. /\ z \in Seq(T) /\ Len(z) = Len(x) + Len(y)
        /\ \A i \in 1 .. Len(x) + Len(y) : z[i] = IF i <= Len(x) THEN x[i] ELSE y[i - Len(x)]
    BY <1>1, ConcatProperties
  <2> HIDE DEF z
  <2> QED
    BY <1>1, <2>1
<1> HIDE DEF z
<1>3. \A i \in 1 .. 3 : z[i] \in T
  BY <1>2
<1>4. SubSeq(z, 1, 1) = x
  <2>1. SubSeq(z, 1, 1) \in Seq(T) /\ Len(SubSeq(z, 1, 1)) = 1 /\ SubSeq(z, 1, 1)[1] = z[1]
    <3>1. \A i \in 1 .. 1 : z[i] \in T
      BY <1>3
    <3>2. /\ SubSeq(z, 1, 1) \in Seq(T) /\ Len(SubSeq(z, 1, 1)) = IF 1 <= 1 THEN 1 - 1 + 1 ELSE 0
          /\ \A i \in 1 .. 1 - 1 + 1 : SubSeq(z, 1, 1)[i] = z[1 + i - 1]
      BY <3>1, SubSeqProperties
    <3> QED
      BY <3>2
  <2>2. z[1] = x[1]
    BY <1>2
  <2>3. \A i \in 1 .. Len(x) : SubSeq(z, 1, 1)[i] = x[i]
    BY <1>1, <2>1, <2>2
  <2> QED
    BY <1>1, <2>1, <2>3, SeqEqual
<1>5. SubSeq(z, 2, 3) = y
  <2>1. /\ SubSeq(z, 2, 3) \in Seq(T) /\ Len(SubSeq(z, 2, 3)) = 2
        /\ SubSeq(z, 2, 3)[1] = z[2] /\ SubSeq(z, 2, 3)[2] = z[3]
    <3>1. \A i \in 2 .. 3 : z[i] \in T
      BY <1>3
    <3>2. /\ SubSeq(z, 2, 3) \in Seq(T) /\ Len(SubSeq(z, 2, 3)) = IF 2 <= 3 THEN 3 - 2 + 1 ELSE 0
          /\ \A i \in 1 .. 3 - 2 + 1 : SubSeq(z, 2, 3)[i] = z[2 + i - 1]
      BY <3>1, SubSeqProperties
    <3> QED
      BY <3>2
  <2>2. z[2] = y[1] /\ z[3] = y[2]
    BY <1>2
  <2>3. \A i \in 1 .. Len(y) : SubSeq(z, 2, 3)[i] = y[i]
    <3>1. \A i \in 1 .. 2 : i = 1 \/ i = 2
      OBVIOUS
    <3> QED
      BY <1>1, <2>1, <2>2, <3>1
  <2> QED
    BY <1>1, <2>1, <2>3, SeqEqual
<1> QED
  BY <1>4, <1>5 DEF x, y, z

LEMMA SumIsNat ==
  ASSUME NEW L, NEW O, NEW D, NEW span, NEW now, Follows(L, O, D, span, now)
  PROVE  Sum(D) \in Nat
<1>1. D \in Seq(Entry)
  BY DEF Follows
<1>2. 1 .. Len(D) \in SUBSET (DOMAIN D)
  BY <1>1
<1> QED
  BY <1>1, <1>2, SumIsWorth, EntryStays

LEMMA SuspiciousBacked ==
  ASSUME DetInv, detector = "SuspiciousPort", NEW k \in Keys,
         NEW q \in DOMAIN Live(detector, window[k], packetTime)
  PROVE  \E i \in Recently(SubSeq(k \o q, 1, 1)) : log[i].peer = SubSeq(k \o q, 2, 3)
<1> DEFINE live == Live(detector, window[k], packetTime)
<1>1. Registered(detector) /\ packetTime \in Nat
  BY RegistryIs DEF DetInv, DetTypes
<1>2. PeersFollow(log, Of(k), live, packetTime) /\ live[q].at > packetTime - Window
  BY <1>1, LiveFollows DEF Registered
<1> HIDE DEF live
<1>3. PICK i \in Of(k) : log[i].peer = q /\ log[i].at = live[q].at
  <2>1. q \in DOMAIN live
    BY DEF live
  <2> QED
    BY <1>2, <2>1 DEF PeersFollow
<1>4. i \in DOMAIN log /\ log[i].key = k /\ log[i].at \in Nat
  BY ObservationsWeigh DEF Of, DetInv, DetTypes
<1>5. PICK p \in Packets : k = <<p.src>>
  <2>1. Registry[detector].key = "src" /\ Registry[detector].counts \subseteq Packets
    BY <1>1 DEF Registered
  <2>2. PICK p \in Packets : k = Key(detector, p)
    BY <2>1 DEF Keys
  <2>3. Key(detector, p) = <<p.src>>
    BY <2>1 DEF Key
  <2> QED
    BY <2>2, <2>3
<1>6. PICK r \in Packets : q = <<r.dst, r.dport>>
  <2>1. q \in {Peer(detector, p1) : p1 \in Packets}
    BY <1>3, <1>4 DEF DetInv, DetTypes
  <2> QED
    BY <2>1 DEF Peer
<1>8. SubSeq(k \o q, 1, 1) = k /\ SubSeq(k \o q, 2, 3) = q
  BY <1>5, <1>6, Joined
<1>9. i \in Recently(k)
  BY <1>1, <1>2, <1>3, <1>4, Numbers DEF Recently
<1> QED
  BY <1>3, <1>8, <1>9

LEMMA OthersBacked ==
  ASSUME DetInv, detector # "SuspiciousPort", NEW k \in Keys, NEW hidden,
         DOMAIN Live(detector, window[k], packetTime) # {},
         hidden = Total(encoded[k], encodedAt),
         Over(detector, Live(detector, window[k], packetTime), hidden)
  PROVE  /\ detector # "Beaconing" =>
              Since(k, packetTime - Window - Bucket - MaxLate) >= Threshold[detector]
         /\ detector = "Beaconing" => Cardinality(Recently(k)) >= Threshold[detector]
         /\ detector = "DnsTunneling" /\ ~parted =>
              2 * Cardinality({i \in Recently(k) : log[i].hides}) >= Threshold[detector]
<1> DEFINE live == Live(detector, window[k], packetTime)
<1> DEFINE young == Young(log, Of(k), packetTime - Window - Bucket - MaxLate)
<1>1. /\ Registered(detector) /\ packetTime \in Nat /\ log \in Seq(Observation) /\ detector \in Names
      /\ encodedAt \in Nat /\ WindowFollows(k) /\ Bucket \in Nat
      /\ Threshold[detector] \in Nat
  BY RegistryIs, Numbers, DetectorsAssumption DEF DetInv, DetTypes, WindowsFollow
<1>2. Sum(live) <= Since(k, packetTime - Window - Bucket - MaxLate)
  BY LiveFollows
<1>3. young \in SUBSET (DOMAIN log) /\ IsFiniteSet(young) /\ Worth(log, young) \in Nat
  <2>1. young \in SUBSET (DOMAIN log)
    BY DEF Young, Of
  <2> HIDE DEF young
  <2> QED
    BY <1>1, <2>1, ObservationsStay
<1>4. Cardinality(young) \in Nat
  <2> HIDE DEF young
  <2> QED
    BY <1>3, FS_CardinalityType
<1>5. CASE Registry[detector].window = "times"
  <2>1. detector = "Beaconing"
    BY <1>1, <1>5 DEF Registered
  <2>2. Follows(log, Of(k), live, 0, packetTime) /\ Ones(live)
    BY <1>5, LiveFollows
  <2>3. Len(live) >= Threshold[detector]
    <3>1. Regular(live)
      BY <2>1 DEF Over
    <3> HIDE DEF live
    <3>2. Beaconing.threshold = Threshold["Beaconing"]
      BY DEF Beaconing
    <3> QED
      BY <2>1, <3>1, <3>2 DEF Regular
  <2> HIDE DEF live, young
  <2>4. Sum(live) = Len(live) /\ Len(live) \in Nat
    <3> DEFINE S == 1 .. Len(live)
    <3>1. live \in Seq(Entry) /\ Len(live) \in Nat
      BY <2>2 DEF Follows
    <3>2. S \in SUBSET (DOMAIN live) /\ \A j \in S : live[j].n = 1
      BY <2>2, <3>1 DEF Ones
    <3>3. IsFiniteSet(S) /\ Cardinality(S) = Len(live)
      <4> DEFINE n == Len(live)
      <4>1. 1 \in Int /\ n \in Int /\ n \in Nat
        BY <3>1
      <4> HIDE DEF n
      <4>2. IsFiniteSet(1 .. n) /\ Cardinality(1 .. n) = IF 1 > n THEN 0 ELSE n - 1 + 1
        BY <4>1, FS_Interval
      <4>3. Cardinality(1 .. n) = n
        BY <4>1, <4>2
      <4> QED
        BY <4>2, <4>3 DEF n
    <3>4. Sum(live) = Worth(live, S)
      BY <3>1, SumIsWorth
    <3> HIDE DEF S
    <3> QED
      BY <3>1, <3>2, <3>3, <3>4, WorthIsNumber
  <2>5. Worth(log, young) = Cardinality(young)
    <3>1. \A i \in young : log[i].n = 1
      BY <1>3, <2>1 DEF DetInv, DetTypes
    <3> QED
      BY <1>3, <3>1, WorthIsNumber
  <2>6. Sum(live) <= Worth(log, young)
    BY <1>2, <1>5, SinceIs DEF young
  <2>7. Len(live) <= Cardinality(young)
    BY <2>4, <2>5, <2>6
  <2>8. Cardinality(Recently(k)) >= Threshold[detector]
    BY <1>1, <1>4, <2>3, <2>4, <2>7, RecentlyIs DEF young
  <2> QED
    BY <2>1, <2>8
<1>6. CASE Registry[detector].window # "times"
  <2>1. /\ detector # "Beaconing" /\ Sum(live) >= Registry[detector].threshold
        /\ Registry[detector].threshold = Threshold[detector]
    BY <1>1, <1>6 DEF Registered, Over
  <2> DEFINE since == Since(k, packetTime - Window - Bucket - MaxLate)
  <2>2. since \in Nat
    <3>1. CASE Registry[detector].window = "peers"
      <4> HIDE DEF young
      <4>1. IsFiniteSet({log[i].peer : i \in young})
        BY <1>3, ImageIsFinite
      <4>2. Cardinality({log[i].peer : i \in young}) \in Nat
        BY <4>1, FS_CardinalityType
      <4> QED
        BY <3>1, <4>2, SinceIs DEF young
    <3>2. CASE Registry[detector].window # "peers"
      BY <1>3, <3>2, SinceIs
    <3> QED
      BY <3>1, <3>2
  <2>3. Sum(live) \in Nat
    <3>1. CASE Registry[detector].window = "peers"
      <4>1. PeersFollow(log, Of(k), live, packetTime)
        BY <3>1, LiveFollows
      <4> HIDE DEF live
      <4>2. Sum(live) = Cardinality(DOMAIN live) /\ Cardinality(DOMAIN live) \in Nat
        BY <4>1, CountOfPeers, FS_CardinalityType DEF PeersFollow
      <4> QED
        BY <4>2
    <3>2. CASE Registry[detector].window = "counter"
      <4>1. Follows(log, Of(k), live, Bucket, packetTime)
        BY <3>2, LiveFollows
      <4> HIDE DEF live
      <4> QED
        BY <4>1, SumIsNat
    <3> QED
      BY <1>1, <1>6, <3>1, <3>2 DEF Registered
  <2>4. since >= Threshold[detector]
    <3> HIDE DEF live, since
    <3>1. Sum(live) <= since
      BY <1>2 DEF live, since
    <3> QED
      BY <1>1, <2>1, <2>2, <2>3, <3>1
  <2>5. ASSUME detector = "DnsTunneling", ~parted
        PROVE  2 * Cardinality({i \in Recently(k) : log[i].hides}) >= Threshold[detector]
    <3> DEFINE hiding == Young(log, HidesOf(k), packetTime - Window - Bucket - MaxLate)
    <3>1. encodedAt = packetTime
      BY <2>5 DEF DetInv, InStep
    <3>2. Follows(log, HidesOf(k), encoded[k], Bucket, encodedAt)
      BY <1>1 DEF WindowFollows
    <3>3. Follows(log, HidesOf(k), hidden, Bucket, packetTime) /\ Sum(hidden) <= Worth(log, hiding)
      BY <1>1, <3>1, <3>2, FollowsHead DEF Total
    <3>4. hiding \subseteq young /\ hiding = {i \in Recently(k) : log[i].hides}
      BY DEF Young, HidesOf, Of, Recently
    <3> HIDE DEF hiding, young
    <3>5. \A i \in hiding : log[i].n = 1
      BY <1>3, <2>5, <3>4 DEF DetInv, DetTypes
    <3>6. IsFiniteSet(hiding) /\ hiding \in SUBSET (DOMAIN log) /\ Cardinality(hiding) \in Nat
      BY <1>3, <3>4, FS_Subset, FS_CardinalityType
    <3>7. Worth(log, hiding) = Cardinality(hiding)
      BY <3>5, <3>6, WorthIsNumber
    <3>8. 2 * Sum(hidden) > Sum(live)
      BY <2>5 DEF Over
    <3>9. Sum(hidden) \in Nat
      BY <3>3, SumIsNat
    <3> HIDE DEF live
    <3>10. 2 * Cardinality(hiding) >= Threshold[detector]
      BY <1>1, <2>1, <2>3, <3>3, <3>6, <3>7, <3>8, <3>9
    <3> QED
      BY <3>4, <3>10
  <2> QED
    BY <2>1, <2>4, <2>5
<1> QED
  BY <1>5, <1>6

LEMMA EvaluateBacked ==
  ASSUME DetInv, Evaluate
  PROVE  AlertsAreBacked'
<1> DEFINE live == [k \in Keys |-> Live(detector, window[k], packetTime)]
<1> DEFINE hidden == [k \in Keys |-> IF DOMAIN live[k] = {} THEN encoded[k] ELSE Total(encoded[k], encodedAt)]
<1> DEFINE over == IF detector = "SuspiciousPort" THEN Subjects(live)
                   ELSE {k \in Subjects(live) : Over(detector, live[k], hidden[k])}
<1>1. alerts' = over \ reported /\ UNCHANGED <<detector, packetTime, log, parted>>
  BY DEF Evaluate
<1>2. \A k, t : Since(k, t)' = Since(k, t)
  BY <1>1 DEF Since
<1>3. ASSUME NEW k \in over, detector = "SuspiciousPort"
      PROVE  \E i \in Recently(SubSeq(k, 1, 1)) : log[i].peer = SubSeq(k, 2, 3)
  <2>1. PICK key \in Keys : k \in {key \o peer : peer \in DOMAIN live[key]}
    BY <1>3 DEF Subjects
  <2>2. PICK q \in DOMAIN Live(detector, window[key], packetTime) : k = key \o q
    BY <2>1
  <2> QED
    BY <1>3, <2>2, SuspiciousBacked
<1>4. ASSUME NEW k \in over, detector # "SuspiciousPort"
      PROVE  /\ detector # "Beaconing" =>
                  Since(k, packetTime - Window - Bucket - MaxLate) >= Threshold[detector]
             /\ detector = "Beaconing" => Cardinality(Recently(k)) >= Threshold[detector]
             /\ detector = "DnsTunneling" /\ ~parted =>
                  2 * Cardinality({i \in Recently(k) : log[i].hides}) >= Threshold[detector]
  <2>1. k \in Keys /\ DOMAIN live[k] # {} /\ Over(detector, live[k], hidden[k])
    BY <1>4 DEF Subjects
  <2>2. live[k] = Live(detector, window[k], packetTime) /\ hidden[k] = Total(encoded[k], encodedAt)
    BY <2>1
  <2> HIDE DEF live, hidden
  <2> QED
    BY <1>4, <2>1, <2>2, OthersBacked
<1> HIDE DEF over
<1>5. SUFFICES ASSUME NEW k \in over
               PROVE  LET party == IF detector = "SuspiciousPort" THEN SubSeq(k, 1, 1) ELSE k
                      IN  /\ detector \notin {"SuspiciousPort", "Beaconing"} =>
                               Since(party, packetTime - Window - Bucket - MaxLate) >= Threshold[detector]
                          /\ detector = "SuspiciousPort" =>
                               \E i \in Recently(party) : log[i].peer = SubSeq(k, 2, 3)
                          /\ detector = "Beaconing" =>
                               Cardinality(Recently(party)) >= Threshold[detector]
                          /\ detector = "DnsTunneling" /\ ~parted =>
                               2 * Cardinality({i \in Recently(party) : log[i].hides}) >= Threshold[detector]
  BY <1>1, <1>2 DEF AlertsAreBacked, Recently
<1>6. CASE detector = "SuspiciousPort"
  BY <1>3, <1>6
<1>7. CASE detector # "SuspiciousPort"
  BY <1>4, <1>7
<1> QED
  BY <1>6, <1>7

LEMMA DetectorsStep ==
  ASSUME DetInv, AlertsAreBacked, [DetectorsNext]_detecting
  PROVE  DetInv' /\ AlertsAreBacked'
<1>1. CASE Ingest
  BY <1>1, RecordStep DEF Ingest
<1>2. CASE Evaluate
  BY <1>2, EvaluateFollows, EvaluateBacked
<1>3. CASE UNCHANGED detecting
  <2>1. UNCHANGED <<detector, packetTime, window, encodedAt, encoded, log, alerts, parted>>
    BY <1>3 DEF detecting
  <2>2. \A k, t : Since(k, t)' = Since(k, t)
    BY <2>1 DEF Since
  <2>3. AlertsAreBacked'
    BY <2>1, <2>2 DEF AlertsAreBacked
  <2>4. Keys' = Keys /\ \A k : Of(k)' = Of(k) /\ HidesOf(k)' = HidesOf(k)
    BY <2>1 DEF Keys, Of, HidesOf
  <2> QED
    BY <2>1, <2>3, <2>4 DEF DetInv, DetTypes, WindowsFollow, WindowFollows, InStep
<1> QED
  BY <1>1, <1>2, <1>3 DEF DetectorsNext

----------------------------------------------------------------------------
(* The capture.                                                            *)
(* The budget since the mark: what the bucket would hold now and what it   *)
(* has let through fit in a burst and the rate of the time.  RateBounded   *)
(* alone is not inductive: it says nothing of the tokens left.             *)
Budget == Rate > 0 => Refill + Second * admitted <= Capacity + Rate * (clock - mark)

IInv == TypeOK /\ Budget

LEMMA CapacityType == Capacity \in Nat /\ Second <= Capacity
<1> DEFINE size == IF Burst > 0 THEN Burst ELSE IF Rate > 1 THEN Rate ELSE 1
<1>1. size \in Nat /\ 1 <= size /\ Second \in Nat
  BY CaptureAssumption
<1>2. ASSUME NEW n \in Nat, 1 <= n
      PROVE  Second * n \in Nat /\ Second <= Second * n
  <2>1. Second * n = Second + Second * (n - 1)
    BY <1>1, <1>2
  <2>2. Second * (n - 1) \in Nat
    <3>1. n - 1 \in Nat
      BY <1>2
    <3> QED
      BY <1>1, <3>1
  <2> QED
    BY <1>1, <2>1, <2>2
<1> QED
  BY <1>1, <1>2 DEF Capacity

(* The bucket fills with time, up to its capacity.                         *)
LEMMA RefillType ==
  ASSUME TypeOK
  PROVE  Refill \in 0 .. Capacity
<1>1. clock - refilled \in Nat /\ tokens \in Nat /\ Rate \in Nat
  BY CapacityType, CaptureAssumption DEF TypeOK
<1>2. (clock - refilled) * Rate \in Nat
  BY <1>1
<1> QED
  BY <1>1, <1>2, CapacityType DEF Refill

LEMMA RefillTick ==
  ASSUME TypeOK, Tick
  PROVE  Refill' <= Refill + Rate
<1>1. clock \in Nat /\ refilled \in Nat /\ tokens \in Nat /\ Rate \in Nat /\ Capacity \in Nat
  BY CapacityType, CaptureAssumption DEF TypeOK
<1>2. clock' = clock + 1 /\ UNCHANGED <<tokens, refilled>>
  BY DEF Tick, bucket
<1>3. (clock + 1 - refilled) * Rate = (clock - refilled) * Rate + Rate
  BY <1>1
<1>4. (clock - refilled) * Rate \in Int
  BY <1>1
<1> QED
  BY <1>1, <1>2, <1>3, <1>4 DEF Refill

(* Right after a refill the bucket holds what it was filled to.            *)
LEMMA RefillNow ==
  ASSUME TypeOK, NEW n \in 0 .. Capacity, tokens' = n, refilled' = clock, clock' = clock
  PROVE  Refill' = n
<1>1. (clock' - refilled') * Rate = 0
  BY CaptureAssumption DEF TypeOK
<1> QED
  BY <1>1, CapacityType DEF Refill

(* Init is a state of the types, with a full bucket.                       *)
LEMMA InitHolds == Init => IInv
<1> SUFFICES ASSUME Init PROVE IInv
  OBVIOUS
<1>1. TypeOK
  BY CapacityType DEF Init, TypeOK
<1>2. Budget
  BY CapacityType, CaptureAssumption DEF Init, Budget, Refill
<1> QED
  BY <1>1, <1>2 DEF IInv

LEMMA TypeStep == TypeOK /\ [Next]_vars => TypeOK'
<1> SUFFICES ASSUME TypeOK, [Next]_vars PROVE TypeOK'
  OBVIOUS
<1> USE DEF TypeOK
<1>0. Refill \in 0 .. Capacity /\ Capacity \in Nat /\ Second \in Nat
  BY RefillType, CapacityType, CaptureAssumption
<1>1. CASE Tick
  BY <1>1 DEF Tick, bucket, feeding, counting, sampling
<1>2. CASE Mark
  BY <1>2 DEF Mark, bucket, feeding, sampling
<1>3. CASE AskBackpressure
  BY <1>0, <1>3 DEF AskBackpressure, feeding, counting, sampling
<1>4. CASE SetProtocolFilter
  BY <1>4 DEF SetProtocolFilter, bucket, feeding, counting, sampling
<1>5. ASSUME NEW f \in Feeders, Acquire(f)
      PROVE  TypeOK'
  <2>1. PICK p \in Frames :
          IF Rate = 0 \/ Refill >= Second
          THEN /\ at' = [at EXCEPT ![f] = "admitted"]
               /\ frame' = [frame EXCEPT ![f] = p]
               /\ admitted' = admitted + 1
               /\ UNCHANGED dropped
          ELSE /\ dropped' = dropped + 1
               /\ UNCHANGED <<at, frame, admitted>>
    BY <1>5 DEF Acquire
  <2>2. /\ admitted' \in Nat /\ dropped' \in Nat
        /\ at' \in [Feeders -> {"idle", "admitted", "captured"}]
        /\ frame' \in [Feeders -> Frames \cup {None}]
    BY <2>1
  <2>3. tokens' \in 0 .. Capacity /\ refilled' \in 0 .. clock
    BY <1>0, <1>5 DEF Acquire
  <2> QED
    BY <1>5, <2>2, <2>3 DEF Acquire, sampling
<1>6. ASSUME NEW f \in Feeders, ApplyFilter(f)
      PROVE  TypeOK'
  BY <1>6 DEF ApplyFilter, bucket, counting, sampling
<1>7. ASSUME NEW f \in Feeders, Deliver(f)
      PROVE  TypeOK'
  BY <1>7 DEF Deliver, bucket, counting, sampling
<1>8. CASE ReadStatus
  BY <1>8 DEF ReadStatus, bucket, feeding, counting
<1>9. CASE Sample
  BY <1>9 DEF Sample, bucket, feeding, counting, Unset
<1>10. CASE ResetSampler
  BY <1>10 DEF ResetSampler, bucket, feeding, counting
<1>11. CASE UNCHANGED vars
  BY <1>11 DEF vars, bucket, feeding, counting, sampling
<1> QED
  BY <1>1, <1>2, <1>3, <1>4, <1>5, <1>6, <1>7, <1>8, <1>9, <1>10, <1>11 DEF Next

LEMMA BudgetStep == TypeOK /\ Budget /\ [Next]_vars => Budget'
<1> SUFFICES ASSUME TypeOK, Budget, [Next]_vars, Rate > 0
             PROVE  Refill' + Second * admitted' <= Capacity + Rate * (clock' - mark')
  BY CaptureAssumption DEF Budget, Capacity
<1>0. /\ Refill \in 0 .. Capacity /\ Capacity \in Nat /\ Second \in Nat /\ Rate \in Nat
      /\ clock \in Nat /\ mark \in Nat /\ admitted \in Nat
      /\ Second * admitted \in Nat /\ Rate * (clock - mark) \in Int
      /\ Refill + Second * admitted <= Capacity + Rate * (clock - mark)
  <2>1. Refill \in 0 .. Capacity /\ Capacity \in Nat /\ Second \in Nat /\ Rate \in Nat
    BY RefillType, CapacityType, CaptureAssumption
  <2>2. clock \in Nat /\ mark \in Nat /\ admitted \in Nat
    BY DEF TypeOK
  <2> QED
    BY <2>1, <2>2 DEF Budget
<1>1. CASE Tick
  <2>1. Refill' <= Refill + Rate
    BY <1>1, RefillTick
  <2>2. clock' = clock + 1 /\ UNCHANGED <<tokens, refilled, mark, admitted>>
    BY <1>1 DEF Tick, bucket, counting
  <2>3. Refill' \in Int
    <3>1. tokens \in Int /\ refilled \in Int
      BY <1>0 DEF TypeOK
    <3>2. (clock + 1 - refilled) * Rate \in Int
      BY <1>0, <3>1
    <3> QED
      BY <1>0, <2>2, <3>1, <3>2 DEF Refill
  <2>4. Rate * (clock' - mark') = Rate * (clock - mark) + Rate
    BY <1>0, <2>2
  <2>5. Second * admitted' = Second * admitted
    BY <2>2
  <2> QED
    BY <1>0, <2>1, <2>3, <2>4, <2>5
<1>2. CASE Mark
  <2>1. Refill' = Refill
    BY <1>2 DEF Mark, bucket, Refill
  <2>2. Rate * (clock - clock) = 0 /\ Second * 0 = 0
    BY <1>0
  <2> QED
    BY <1>0, <1>2, <2>1, <2>2 DEF Mark
<1>3. CASE AskBackpressure
  <2>1. Refill' = Refill
    BY <1>0, <1>3, RefillNow DEF AskBackpressure
  <2> QED
    BY <1>0, <1>3, <2>1 DEF AskBackpressure, counting
<1>4. ASSUME NEW f \in Feeders, Acquire(f)
      PROVE  Refill' + Second * admitted' <= Capacity + Rate * (clock' - mark')
  <2>1. clock' = clock /\ mark' = mark /\ refilled' = clock
    BY <1>0, <1>4 DEF Acquire
  <2>2. CASE Refill >= Second
    <3>1. tokens' = Refill - Second /\ admitted' = admitted + 1
      BY <1>0, <1>4, <2>2 DEF Acquire
    <3>2. Refill - Second \in 0 .. Capacity
      BY <1>0, <2>2
    <3>3. Refill' = Refill - Second
      BY <2>1, <3>1, <3>2, RefillNow
    <3>4. Second * (admitted + 1) = Second * admitted + Second
      BY <1>0
    <3> QED
      BY <1>0, <2>1, <3>1, <3>3, <3>4
  <2>3. CASE ~(Refill >= Second)
    <3>1. tokens' = Refill /\ admitted' = admitted
      BY <1>0, <1>4, <2>3 DEF Acquire
    <3>2. Refill' = Refill
      BY <1>0, <2>1, <3>1, RefillNow
    <3> QED
      BY <1>0, <2>1, <3>1, <3>2
  <2> QED
    BY <2>2, <2>3
<1>5. CASE \/ SetProtocolFilter \/ ReadStatus \/ Sample \/ ResetSampler \/ UNCHANGED vars
           \/ \E f \in Feeders : ApplyFilter(f) \/ Deliver(f)
  <2>1. UNCHANGED <<clock, tokens, refilled, mark, admitted>>
    BY <1>5 DEF SetProtocolFilter, ReadStatus, Sample, ResetSampler, ApplyFilter, Deliver,
                vars, bucket, counting
  <2>2. Refill' = Refill
    BY <2>1 DEF Refill
  <2> QED
    BY <1>0, <2>1, <2>2
<1> QED
  BY <1>1, <1>2, <1>3, <1>4, <1>5 DEF Next

----------------------------------------------------------------------------
(* The sampler.  RatesAddUp alone is not inductive: it says nothing of the *)
(* counter that has been read and not yet sampled.  The two samples are    *)
(* set and forgotten together, nothing is told before the first, and what  *)
(* was read is no less than what was sampled before and no more than what  *)
(* has been captured.                                                      *)
Sampled ==
    /\ lastTime = Unset <=> lastPackets = Unset
    /\ lastTime = Unset => told = 0
    /\ lastTime # Unset =>
         /\ baseline # Unset
         /\ baseline + told <= lastPackets /\ lastPackets <= captured
    /\ status # Unset => status <= captured /\ lastPackets <= status

LEMMA SampledStep == TypeOK /\ Sampled /\ [Next]_vars => Sampled'
<1> SUFFICES ASSUME TypeOK, Sampled, [Next]_vars PROVE Sampled'
  OBVIOUS
<1> USE DEF TypeOK, Unset
<1>1. CASE Sample
  <2>1. clock \in Nat /\ status \in Nat /\ status <= captured /\ lastPackets <= status
    BY <1>1 DEF Sample, Sampled
  <2>2. lastTime' = clock /\ lastPackets' = status /\ status' = Unset /\ captured' = captured
    BY <1>1 DEF Sample, feeding
  <2>3. CASE lastTime = Unset
    BY <1>1, <2>1, <2>2, <2>3 DEF Sample, Sampled
  <2>4. CASE lastTime # Unset
    <3>1. /\ baseline' = baseline /\ baseline \in Nat /\ lastPackets \in Nat
          /\ told' = told \/ told' = told + status - lastPackets
      BY <1>1, <2>4 DEF Sample, Sampled
    <3>2. baseline' + told' <= status
      BY <2>1, <2>4, <3>1 DEF Sampled
    <3> QED
      BY <2>1, <2>2, <2>4, <3>1, <3>2 DEF Sampled
  <2> QED
    BY <2>3, <2>4
<1>2. CASE ReadStatus
  BY <1>2 DEF ReadStatus, feeding, Sampled
<1>3. CASE ResetSampler
  BY <1>3 DEF ResetSampler, feeding, Sampled
<1>4. CASE /\ ~(Sample \/ ReadStatus \/ ResetSampler)
  <2>1. UNCHANGED sampling /\ captured' \in {captured, captured + 1}
    BY <1>4 DEF Next, Tick, Mark, AskBackpressure, SetProtocolFilter, Acquire, ApplyFilter,
                Deliver, vars, feeding
  <2> QED
    BY <2>1 DEF sampling, Sampled
<1> QED
  BY <1>1, <1>2, <1>3, <1>4

----------------------------------------------------------------------------
(* The capture keeps its types, and its bucket its bounds, for every rate, *)
(* burst and set of feeders (CaptureRateLimiter, CaptureService).          *)
THEOREM TypeCorrect == Spec => []TypeOK
<1>1. Init => TypeOK
  BY InitHolds DEF IInv
<1> QED
  BY <1>1, TypeStep, PTL DEF Spec

(* Through any silence and from any instant on, no more packets are        *)
(* admitted than a burst and the rate times the time.                      *)
THEOREM RateHolds == Spec => []RateBounded
<1>1. IInv /\ [Next]_vars => IInv'
  BY TypeStep, BudgetStep DEF IInv
<1>2. IInv => RateBounded
  <2> SUFFICES ASSUME IInv, Rate > 0
               PROVE  Second * admitted <= Capacity + Rate * (clock - mark)
    BY DEF RateBounded
  <2>1. Refill \in Nat /\ Capacity \in Nat
    BY RefillType, CapacityType DEF IInv
  <2>2. Second * admitted \in Nat /\ Rate * (clock - mark) \in Int
    BY CaptureAssumption DEF IInv, TypeOK
  <2> QED
    BY <2>1, <2>2 DEF IInv, Budget
<1> QED
  BY InitHolds, <1>1, <1>2, PTL DEF Spec

(* The rates the sampler records never tell of more packets than the       *)
(* counter has grown by, for every interleaving of the two threads with    *)
(* the status that is read before it is sampled, and every restart.        *)
THEOREM RatesTrue == Spec => []RatesAddUp
<1>1. Init => TypeOK /\ Sampled
  BY InitHolds DEF IInv, Init, Sampled, Unset
<1>2. TypeOK /\ Sampled /\ [Next]_vars => (TypeOK /\ Sampled)'
  BY TypeStep, SampledStep
<1>3. Sampled => RatesAddUp
  BY DEF Sampled, RatesAddUp
<1> QED
  BY <1>1, <1>2, <1>3, PTL DEF Spec

----------------------------------------------------------------------------
(* The rules: what EvaluateCondition needs of a field is what a match      *)
(* shows of it.                                                            *)
LEMMA MatchesNeedTheirFields == RulesNeedTheirFields
<1> SUFFICES ASSUME NEW r, r \in Matching!Satisfied(packetHeld, {ruleHeld}), NEW c \in r.conditions
             PROVE  /\ c.field.name \in DOMAIN packetHeld /\ ~c.field.private
                    /\ c.operator \in Matching!Operators
                    /\ c.operator \in {"greater_than", "less_than"} =>
                         packetHeld[c.field.name].type = c.value.type
  BY DEF RulesNeedTheirFields, Matching!Immediate, Matching!Counted
<1>1. Matching!EvaluateCondition(packetHeld, c)
  BY DEF Matching!Satisfied
<1>2. Matching!FieldValue(packetHeld, c.field) # Matching!Nothing
  BY <1>1 DEF Matching!EvaluateCondition
<1>3. /\ c.field.name \in DOMAIN packetHeld /\ ~c.field.private
      /\ Matching!FieldValue(packetHeld, c.field) = packetHeld[c.field.name]
  BY <1>2 DEF Matching!FieldValue
<1>4. c.operator \in Matching!Operators
  BY <1>1 DEF Matching!EvaluateCondition, Matching!Operators
<1>5. c.operator \in {"greater_than", "less_than"} => packetHeld[c.field.name].type = c.value.type
  BY <1>1, <1>3 DEF Matching!EvaluateCondition
<1> QED
  BY <1>3, <1>4, <1>5

(* The parser: a packet with a TLS section is a TLS packet, since what     *)
(* TlsMetadata reads only a handshake record has.                          *)
LEMMA TlsIsTls ==
  ASSUME NEW f
  PROVE  \/ TlsMetadata(f) = [sni |-> None, ciphers |-> None]
         \/ "tcp" \in f.layers /\ IsTls(f) /\ DetectProtocol(f) = "tls"
BY DEF TlsMetadata, IsTls, DetectProtocol, Byte

LEMMA ReadersTellTheSame == ASSUME NEW f \in ParsedFrames PROVE ReadAlikeIn(f)
<1> DEFINE p == Parse(f)
<1> DEFINE s == Summary(f)
<1>1. SUFFICES ASSUME ~f.broken
               PROVE  /\ p.protocol = s.protocol /\ p.addresses = s.addresses /\ p.ports = s.ports
                      /\ p.protocol = "dns" /\ s.dns # None =>
                           p.dns # None /\ p.dns.query_name = Named(s.dns)
                      /\ p.protocol = "http" /\ s.http # None =>
                           p.http # None /\ p.http.path = Named(s.http[1])
                      /\ p.tls # None <=> s.tls.sni # None \/ s.tls.ciphers # None
                      /\ p.tls # None => /\ p.tls = s.tls /\ p.protocol = "tls"
                                         /\ "tls" \in Sections(p)
  BY DEF ReadAlikeIn, ParseSafe
<1>2. p.protocol = s.protocol /\ p.addresses = s.addresses /\ p.ports = s.ports
  BY <1>1 DEF Parse, Summary, IpAddresses, Ports
<1>3. p.protocol = "dns" /\ s.dns # None => p.dns # None /\ p.dns.query_name = Named(s.dns)
  BY <1>1, FramesAssumption DEF Parse, Summary, DnsFields
<1>4. p.protocol = "http" /\ s.http # None => p.http # None /\ p.http.path = Named(s.http[1])
  BY <1>1, FramesAssumption DEF Parse, Summary, HttpFields
<1>5. /\ p.tls # None <=> s.tls.sni # None \/ s.tls.ciphers # None
      /\ p.tls # None => p.tls = s.tls /\ p.protocol = "tls"
  <2>1. /\ p.protocol = DetectProtocol(f)
        /\ p.tls = IF TlsMetadata(f).sni = None /\ TlsMetadata(f).ciphers = None
                   THEN None ELSE TlsMetadata(f)
        /\ s.tls = IF DetectProtocol(f) = "tls" THEN TlsMetadata(f) ELSE [sni |-> None, ciphers |-> None]
    BY DEF Parse, Summary, TlsFields
  <2>2. TlsMetadata(f) # None
    BY FramesAssumption
  <2> HIDE DEF p, s
  <2> QED
    BY <2>1, <2>2, TlsIsTls
<1>6. p.tls # None => "tls" \in Sections(p)
  BY DEF Sections, Parse
<1> QED
  BY <1>2, <1>3, <1>4, <1>5, <1>6

----------------------------------------------------------------------------
(* The path of a packet is a path through the capture, and the detector    *)
(* takes its own steps only.                                               *)
THEOREM PathIsCapture == PathSpec => Spec
<1>1. PathInit => Init
  BY DEF PathInit
<1>2. [PathNext]_pathVars => [Next]_vars
  BY DEF PathNext, ReadFrame, HoldAgainst, Capturing, Detecting, pathVars
<1> QED
  BY <1>1, <1>2, PTL DEF PathSpec, Spec

(* Whatever order packets come in, late ones among them, and whenever the  *)
(* detectors are evaluated, every window follows the log of what came in,  *)
(* and every alert is backed by it (SlidingCounter, SlidingTimestamps,     *)
(* SlidingPeers and the detectors' evaluate).                              *)
THEOREM WindowsFollowTheLog == PathSpec => [](DetInv /\ AlertsAreBacked)
<1>1. PathInit => DetInv /\ AlertsAreBacked
  BY DetInitHolds DEF PathInit
<1>2. [PathNext]_pathVars => [DetectorsNext]_detecting
  BY DEF PathNext, ReadFrame, HoldAgainst, Capturing, Detecting, pathVars
<1>3. DetInv /\ AlertsAreBacked /\ [PathNext]_pathVars => (DetInv /\ AlertsAreBacked)'
  BY <1>2, DetectorsStep
<1> QED
  BY <1>1, <1>3, PTL DEF PathSpec

(* Every detector measures all that happened in its window, and nothing    *)
(* that left it more than a bucket and the lateness of a packet before,    *)
(* for every window, bucket and lateness.                                  *)
THEOREM WindowsMeasure == PathSpec => []MeasuresTheWindow
BY WindowsFollowTheLog, Measured, PTL

(* No alert of a detector and no match of a rule without the packets that  *)
(* show it, for every threshold, registry of networks and rule.            *)
THEOREM EvidenceHolds == PathSpec => []EvidenceIsThere
<1>1. DetInv /\ AlertsAreBacked => EvidenceIsThere
  BY MatchesNeedTheirFields DEF EvidenceIsThere
<1> QED
  BY <1>1, WindowsFollowTheLog, PTL

(* PacketParser.parse and summarise_packet tell the same of every frame.   *)
THEOREM ReadersAreAlike == PathSpec => [](frameRead # None => ReadAlikeIn(frameRead))
<1> DEFINE Given == frameRead \in ParsedFrames \cup {None}
<1>1. PathInit => Given
  BY DEF PathInit
<1>2. Given /\ [PathNext]_pathVars => Given'
  BY DEF PathNext, ReadFrame, HoldAgainst, Capturing, Detecting, pathVars, reading
<1>3. Given => (frameRead # None => ReadAlikeIn(frameRead))
  BY ReadersTellTheSame
<1> QED
  BY <1>1, <1>2, <1>3, PTL DEF PathSpec
=============================================================================
