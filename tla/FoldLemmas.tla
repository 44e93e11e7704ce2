----------------------------- MODULE FoldLemmas -----------------------------
(***************************************************************************)
(* Sums over finite sets, folds over sequences, and sorting, as the        *)
(* community modules define them by recursion. The induction theorems of   *)
(* the library take a predicate as a parameter; here a predicate is the    *)
(* set of what it holds of, and each induction goes back to a minimal      *)
(* counterexample.                                                         *)
(***************************************************************************)
EXTENDS Integers, Sequences, SequencesExt, FiniteSetTheorems, TLAPS

(* A set of subsets of a finite set has an element that is minimal: take   *)
(* any member away and it has left the set.                                *)
LEMMA Minimal ==
    ASSUME NEW S, IsFiniteSet(S), NEW bad \in SUBSET SUBSET S, bad # {}
    PROVE  \E T \in bad : \A x \in T : T \ {x} \notin bad
<1>1. /\ IsWellFoundedOn(StrictSubsetOrdering(S), FiniteSubsetsOf(S))
      /\ FiniteSubsetsOf(S) = SUBSET S
  BY FS_StrictSubsetOrderingWellFounded, FS_FiniteSubsetsOfFinite
<1>2. PICK T \in bad : \A U \in bad : <<U, T>> \notin StrictSubsetOrdering(S)
  BY <1>1, WFMin
<1>3. ASSUME NEW x \in T, T \ {x} \in bad PROVE FALSE
  <2>1. <<T \ {x}, T>> \in StrictSubsetOrdering(S)
    BY <1>2, <1>3 DEF StrictSubsetOrdering
  <2> QED BY <1>2, <1>3, <2>1
<1> QED BY <1>2, <1>3

(* Induction: what holds of {} and survives one more element holds of S.   *)
LEMMA SetInduction ==
    ASSUME NEW S, IsFiniteSet(S), NEW good,
           {} \in good,
           \A T \in SUBSET S : \A x \in S \ T : T \in good => T \cup {x} \in good
    PROVE  S \in good
<1> DEFINE bad == {T \in SUBSET S : T \notin good}
<1> SUFFICES ASSUME bad # {} PROVE FALSE
  OBVIOUS
<1>1. PICK T \in bad : \A x \in T : T \ {x} \notin bad
  <2>1. bad \in SUBSET SUBSET S
    OBVIOUS
  <2> HIDE DEF bad
  <2> QED BY <2>1, Minimal
<1>2. PICK x \in T : TRUE
  BY <1>1
<1>3. T \ {x} \in good
  BY <1>1, <1>2
<1>4. (T \ {x}) \cup {x} = T
  BY <1>2
<1>5. T \in SUBSET S /\ T \notin good
  BY <1>1
<1>6. T \ {x} \in SUBSET S /\ x \in S \ (T \ {x})
  BY <1>2, <1>5
<1> QED BY <1>3, <1>4, <1>5, <1>6

(* Induction over the naturals, of the set of those that are good.         *)
LEMMA NatSetInduction ==
    ASSUME NEW G, 0 \in G, \A n \in Nat : n \in G => n + 1 \in G
    PROVE  Nat \subseteq G
<1> SUFFICES ASSUME Nat \ G # {} PROVE FALSE
  OBVIOUS
<1>1. PICK n \in Nat \ G : \A m \in Nat \ G : ~(m < n)
  <2>1. IsWellFoundedOn(OpToRel(<, Nat), Nat)
    BY NatLessThanWellFounded
  <2>2. PICK n \in Nat \ G : \A m \in Nat \ G : <<m, n>> \notin OpToRel(<, Nat)
    BY <2>1, WFMin
  <2> QED BY <2>2 DEF OpToRel
<1>2. n # 0 /\ n - 1 \in Nat /\ n - 1 < n
  BY <1>1
<1>3. n - 1 \in G
  BY <1>1, <1>2
<1>4. (n - 1) + 1 \in G
  BY <1>2, <1>3
<1> QED BY <1>1, <1>4

(* Folds in general: step[x][v] takes in x, and pick[T] is the element of  *)
(* T that is taken in last.                                                *)
IsStep(step, S, V) == \A x \in S : \A v \in V : step[x][v] \in V
IsPick(pick, S) == \A T \in SUBSET S : T # {} => pick[T] \in T
IsFold(g, S, V, base, step, pick) ==
    /\ g \in [SUBSET S -> V]
    /\ \A T \in SUBSET S : g[T] = IF T = {} THEN base
                                 ELSE step[pick[T]][g[T \ {pick[T]}]]

(* Every fold over a finite set is well defined.                           *)
LEMMA FoldExists ==
    ASSUME NEW S, IsFiniteSet(S), NEW V, NEW base \in V,
           NEW step, IsStep(step, S, V), NEW pick, IsPick(pick, S)
    PROVE  \E g : IsFold(g, S, V, base, step, pick)
<1> USE DEF IsStep, IsPick
<1> DEFINE eq(g, T) == g[T] = IF T = {} THEN base
                              ELSE step[pick[T]][g[T \ {pick[T]}]]
           upto(n) == {T \in SUBSET S : Cardinality(T) <= n}
           G == {n \in Nat : \E g \in [SUBSET S -> V] : \A T \in upto(n) : eq(g, T)}
<1>1. \A T \in SUBSET S : IsFiniteSet(T) /\ Cardinality(T) \in Nat
  BY FS_Subset, FS_CardinalityType
<1>2. 0 \in G
  <2>1. ASSUME NEW T \in upto(0) PROVE T = {}
    <3>1. T \in SUBSET S /\ Cardinality(T) = 0
      BY <1>1
    <3> QED BY <1>1, <3>1, FS_EmptySet
  <2>2. [T \in SUBSET S |-> base] \in [SUBSET S -> V]
    OBVIOUS
  <2>3. \A T \in upto(0) : eq([U \in SUBSET S |-> base], T)
    BY <2>1
  <2> QED BY <2>2, <2>3
<1>3. \A n \in Nat : n \in G => n + 1 \in G
  <2> SUFFICES ASSUME NEW n \in Nat, n \in G PROVE n + 1 \in G
    OBVIOUS
  <2>1. PICK g \in [SUBSET S -> V] : \A T \in upto(n) : eq(g, T)
    OBVIOUS
  <2> DEFINE h == [T \in SUBSET S |-> IF T = {} THEN base
                                      ELSE step[pick[T]][g[T \ {pick[T]}]]]
  <2>2. h \in [SUBSET S -> V]
    <3> SUFFICES ASSUME NEW T \in SUBSET S, T # {}
                 PROVE  step[pick[T]][g[T \ {pick[T]}]] \in V
      OBVIOUS
    <3>1. pick[T] \in S /\ T \ {pick[T]} \in SUBSET S
      OBVIOUS
    <3> QED BY <3>1
  <2>3. \A T \in upto(n) : h[T] = g[T]
    BY <2>1
  <2>4. ASSUME NEW T \in upto(n + 1) PROVE eq(h, T)
    <3>1. CASE T = {}
      BY <3>1
    <3>2. CASE T # {}
      <4> DEFINE U == T \ {pick[T]}
      <4>1. Cardinality(U) = Cardinality(T) - 1
        BY <1>1, <3>2, FS_RemoveElement
      <4>2. U \in SUBSET S /\ Cardinality(T) \in Nat /\ Cardinality(T) <= n + 1
        BY <1>1
      <4>3. U \in upto(n)
        <5> HIDE DEF U
        <5> QED BY <4>1, <4>2
      <4> QED BY <2>3, <3>2, <4>3
    <3> QED BY <3>1, <3>2
  <2>5. \E i \in [SUBSET S -> V] : \A T \in upto(n + 1) : eq(i, T)
    <3> HIDE DEF h, eq, upto
    <3> QED BY <2>2, <2>4
  <2> HIDE DEF eq, upto
  <2> QED BY <2>5
<1>4. Cardinality(S) \in G
  <2> HIDE DEF G
  <2>1. Nat \subseteq G
    BY <1>2, <1>3, NatSetInduction
  <2> QED BY <1>1, <2>1
<1>5. upto(Cardinality(S)) = SUBSET S
  BY FS_Subset
<1>6. PICK g \in [SUBSET S -> V] : \A T \in SUBSET S : eq(g, T)
  BY <1>4, <1>5
<1> QED BY <1>6 DEF IsFold
(* Two functions of the subsets that follow one recursion are equal.       *)
SameRecursion(g, h, S, pick) ==
    /\ g[{}] = h[{}]
    /\ \A T \in SUBSET S :
          T # {} /\ g[T \ {pick[T]}] = h[T \ {pick[T]}] => g[T] = h[T]

(* SameRecursion suffices, by induction over the subsets.                  *)
LEMMA FoldUnique ==
    ASSUME NEW S, IsFiniteSet(S), NEW pick, IsPick(pick, S), NEW g, NEW h,
           SameRecursion(g, h, S, pick)
    PROVE  \A T \in SUBSET S : g[T] = h[T]
<1> DEFINE bad == {T \in SUBSET S : g[T] # h[T]}
<1> SUFFICES ASSUME bad # {} PROVE FALSE
  OBVIOUS
<1>1. PICK T \in bad : \A x \in T : T \ {x} \notin bad
  <2>1. bad \in SUBSET SUBSET S
    OBVIOUS
  <2> HIDE DEF bad
  <2> QED BY <2>1, Minimal
<1>2. T \in SUBSET S /\ g[T] # h[T]
  BY <1>1
<1>3. T # {}
  BY <1>2 DEF SameRecursion
<1>4. pick[T] \in T
  BY <1>2, <1>3 DEF IsPick
<1> QED BY <1>1, <1>2, <1>3, <1>4 DEF SameRecursion
-----------------------------------------------------------------------------
(* The sums of f over the subsets of S, each made from a smaller one by    *)
(* some element: all that the definition of SumFunctionOnSet, a fold with  *)
(* a CHOOSE, says.                                                         *)
IsSumInOrder(g, f, S) ==
    /\ g \in [SUBSET S -> Int]
    /\ g[{}] = 0
    /\ \A T \in SUBSET S : T # {} => \E x \in T : g[T] = f[x] + g[T \ {x}]

(* SumFunctionOnSet is such a sum.                                         *)
LEMMA SumFold ==
    ASSUME NEW S, IsFiniteSet(S), NEW f, \A x \in S : f[x] \in Int
    PROVE  \E g : IsSumInOrder(g, f, S) /\ SumFunctionOnSet(f, S) = g[S]
<1> DEFINE pick == [T \in SUBSET S |-> CHOOSE x \in T : TRUE]
           step == [x \in S |-> [v \in Int |-> f[x] + v]]
           body(g) == [T \in SUBSET S |->
                         IF T = {} THEN 0
                         ELSE f[CHOOSE x \in T : TRUE]
                                + g[T \ {CHOOSE x \in T : TRUE}]]
           sums == CHOOSE g : g = body(g)
<1>1. \A T \in SUBSET S : T # {} => pick[T] \in T
  OBVIOUS
<1>2. \A x \in S : \A v \in Int : step[x][v] \in Int
  OBVIOUS
<1>3. PICK g : IsFold(g, S, Int, 0, step, pick)
  <2>1. IsStep(step, S, Int) /\ IsPick(pick, S) /\ 0 \in Int
    BY <1>1, <1>2 DEF IsStep, IsPick
  <2> HIDE DEF pick, step
  <2> QED BY <2>1, FoldExists
<1>4. \A T \in SUBSET S : T # {} =>
        g[T] = f[pick[T]] + g[T \ {pick[T]}]
  BY <1>1, <1>3 DEF IsFold
<1>5. g = body(g)
  BY <1>3, <1>4 DEF IsFold
<1>6. sums = body(sums)
  <2> HIDE DEF body
  <2> QED BY <1>5
<1>7. SumFunctionOnSet(f, S) = sums[S]
  BY DEF SumFunctionOnSet, FoldFunctionOnSet, MapThenFoldSet
<1>8. \A T \in SUBSET S : sums[T] = g[T]
  <2>1. \A T \in SUBSET S : /\ T = {} => body(sums)[T] = body(g)[T]
                            /\ T # {} /\ sums[T \ {pick[T]}] = g[T \ {pick[T]}]
                                 => body(sums)[T] = body(g)[T]
    <3> HIDE DEF sums
    <3> QED OBVIOUS
  <2>2. sums[{}] = g[{}]
    BY <1>5, <1>6, <2>1
  <2>3. \A T \in SUBSET S :
          T # {} /\ sums[T \ {pick[T]}] = g[T \ {pick[T]}] => sums[T] = g[T]
    BY <1>5, <1>6, <2>1
  <2>4. IsPick(pick, S)
    BY <1>1 DEF IsPick
  <2> HIDE DEF pick, sums, body
  <2>5. SameRecursion(sums, g, S, pick)
    BY <2>2, <2>3 DEF SameRecursion
  <2> QED BY <2>4, <2>5, FoldUnique
<1>9. /\ g \in [SUBSET S -> Int] /\ g[{}] = 0
      /\ SumFunctionOnSet(f, S) = g[S]
  BY <1>3, <1>7, <1>8 DEF IsFold
<1>10. \A T \in SUBSET S : T # {} => \E x \in T : g[T] = f[x] + g[T \ {x}]
  BY <1>1, <1>4
<1> QED BY <1>9, <1>10 DEF IsSumInOrder

(* The same sums, from which any element may be split off.                 *)
IsSum(g, f, S) ==
    /\ g \in [SUBSET S -> Int]
    /\ g[{}] = 0
    /\ \A T \in SUBSET S : \A x \in T : g[T] = f[x] + g[T \ {x}]

(* The order of addition makes no difference: two elements can be          *)
(* exchanged, and so on down.                                              *)
LEMMA SumAnyOrder ==
    ASSUME NEW S, IsFiniteSet(S), NEW f, \A x \in S : f[x] \in Int
    PROVE  \E g : IsSum(g, f, S) /\ SumFunctionOnSet(f, S) = g[S]
<1>1. PICK g : IsSumInOrder(g, f, S) /\ SumFunctionOnSet(f, S) = g[S]
  BY SumFold
<1> DEFINE bad == {T \in SUBSET S : \E x \in T : g[T] # f[x] + g[T \ {x}]}
<1>2. bad = {}
  <2> SUFFICES ASSUME bad # {} PROVE FALSE
    OBVIOUS
  <2>1. PICK T \in bad : \A x \in T : T \ {x} \notin bad
    <3>1. bad \in SUBSET SUBSET S
      OBVIOUS
    <3> HIDE DEF bad
    <3> QED BY <3>1, Minimal
  <2>2. PICK x \in T : g[T] # f[x] + g[T \ {x}]
    BY <2>1
  <2>3. PICK c \in T : g[T] = f[c] + g[T \ {c}]
    BY <1>1, <2>1, <2>2 DEF IsSumInOrder
  <2>4. /\ x \in S /\ c \in S /\ T \ {c} \in SUBSET S /\ T \ {x} \in SUBSET S
        /\ c # x /\ x \in T \ {c} /\ c \in T \ {x}
    BY <2>1, <2>2, <2>3
  <2>5. g[T \ {c}] = f[x] + g[(T \ {c}) \ {x}]
    BY <2>1, <2>4
  <2>6. g[T \ {x}] = f[c] + g[(T \ {x}) \ {c}]
    BY <2>1, <2>4
  <2>7. (T \ {x}) \ {c} = (T \ {c}) \ {x} /\ (T \ {x}) \ {c} \in SUBSET S
    BY <2>4
  <2>8. g[(T \ {x}) \ {c}] \in Int /\ f[x] \in Int /\ f[c] \in Int
    BY <1>1, <2>4, <2>7 DEF IsSumInOrder
  <2>9. \A a, b, r \in Int : a + (b + r) = b + (a + r)
    OBVIOUS
  <2>10. /\ g[T] = f[c] + (f[x] + g[(T \ {x}) \ {c}])
         /\ f[x] + g[T \ {x}] = f[x] + (f[c] + g[(T \ {x}) \ {c}])
    BY <2>3, <2>5, <2>6, <2>7
  <2> QED BY <2>2, <2>8, <2>9, <2>10
<1> QED BY <1>1, <1>2 DEF IsSum, IsSumInOrder

(* Two families of sums agree on what they share.                          *)
LEMMA SumUnique ==
    ASSUME NEW S, NEW f, NEW g, IsSum(g, f, S),
           NEW U \in SUBSET S, IsFiniteSet(U), NEW h, IsSum(h, f, U)
    PROVE  g[U] = h[U]
<1> DEFINE good == {T \in SUBSET U : g[T] = h[T]}
<1>1. {} \in good
  BY DEF IsSum
<1>2. ASSUME NEW T \in SUBSET U, NEW x \in U \ T, T \in good
      PROVE  T \cup {x} \in good
  <2>1. (T \cup {x}) \ {x} = T /\ T \cup {x} \in SUBSET U
        /\ T \cup {x} \in SUBSET S /\ x \in T \cup {x}
    BY <1>2
  <2>2. g[T \cup {x}] = f[x] + g[T] /\ h[T \cup {x}] = f[x] + h[T]
    BY <2>1 DEF IsSum
  <2> QED BY <1>2, <2>1, <2>2
<1>3. U \in good
  <2> HIDE DEF good
  <2> QED BY <1>1, <1>2, SetInduction
<1> QED BY <1>3

(* The sum of nothing.                                                     *)
LEMMA SumEmpty == \A f : SumFunctionOnSet(f, {}) = 0
  BY FS_EmptySet, SumAnyOrder DEF IsSum

(* Any element can be split off a sum.                                     *)
LEMMA SumElement ==
    ASSUME NEW S, IsFiniteSet(S), NEW f, \A x \in S : f[x] \in Int
    PROVE  /\ SumFunctionOnSet(f, S) \in Int
           /\ \A x \in S : SumFunctionOnSet(f, S) =
                              f[x] + SumFunctionOnSet(f, S \ {x})
<1>1. PICK g : IsSum(g, f, S) /\ SumFunctionOnSet(f, S) = g[S]
  BY SumAnyOrder
<1>2. ASSUME NEW x \in S PROVE SumFunctionOnSet(f, S \ {x}) = g[S \ {x}]
  <2>1. S \ {x} \in SUBSET S /\ IsFiniteSet(S \ {x})
    BY FS_RemoveElement
  <2>2. PICK h : /\ IsSum(h, f, S \ {x})
                 /\ SumFunctionOnSet(f, S \ {x}) = h[S \ {x}]
    BY <2>1, SumAnyOrder
  <2>3. g[S \ {x}] = h[S \ {x}]
    BY <1>1, <2>1, <2>2, SumUnique
  <2> QED BY <2>2, <2>3
<1>3. S \in SUBSET S
  OBVIOUS
<1> QED BY <1>1, <1>2, <1>3 DEF IsSum

(* A sum with one element more.                                            *)
LEMMA SumInsert ==
    ASSUME NEW S, IsFiniteSet(S), NEW y, y \notin S,
           NEW f, \A x \in S \cup {y} : f[x] \in Int
    PROVE  SumFunctionOnSet(f, S \cup {y}) = f[y] + SumFunctionOnSet(f, S)
<1>1. IsFiniteSet(S \cup {y}) /\ y \in S \cup {y} /\ (S \cup {y}) \ {y} = S
  BY FS_AddElement
<1> QED BY <1>1, SumElement

(* Sums of equal functions are equal.                                      *)
LEMMA SumSame ==
    ASSUME NEW S, IsFiniteSet(S), NEW f, NEW g,
           \A x \in S : f[x] \in Int /\ g[x] = f[x]
    PROVE  SumFunctionOnSet(g, S) = SumFunctionOnSet(f, S)
<1> DEFINE good == {T \in SUBSET S :
                      SumFunctionOnSet(g, T) = SumFunctionOnSet(f, T)}
<1>1. {} \in good
  BY SumEmpty
<1>2. ASSUME NEW T \in SUBSET S, NEW x \in S \ T, T \in good
      PROVE  T \cup {x} \in good
  <2>1. IsFiniteSet(T) /\ T \cup {x} \in SUBSET S /\ x \notin T
    BY FS_Subset
  <2>2. /\ SumFunctionOnSet(f, T \cup {x}) = f[x] + SumFunctionOnSet(f, T)
        /\ SumFunctionOnSet(g, T \cup {x}) = g[x] + SumFunctionOnSet(g, T)
    BY <2>1, SumInsert
  <2> QED BY <1>2, <2>1, <2>2
<1>3. S \in good
  <2> HIDE DEF good
  <2> QED BY <1>1, <1>2, SetInduction
<1> QED BY <1>3

(* One value changes: the sum changes by as much.                          *)
LEMMA SumChange ==
    ASSUME NEW S, IsFiniteSet(S), NEW y \in S, NEW f, NEW g,
           \A x \in S : f[x] \in Int /\ g[x] \in Int,
           \A x \in S \ {y} : g[x] = f[x]
    PROVE  SumFunctionOnSet(g, S) = SumFunctionOnSet(f, S) + (g[y] - f[y])
<1>1. IsFiniteSet(S \ {y})
  BY FS_RemoveElement
<1>2. /\ SumFunctionOnSet(f, S) = f[y] + SumFunctionOnSet(f, S \ {y})
      /\ SumFunctionOnSet(g, S) = g[y] + SumFunctionOnSet(g, S \ {y})
  BY SumElement
<1>3. SumFunctionOnSet(g, S \ {y}) = SumFunctionOnSet(f, S \ {y})
  BY <1>1, SumSame
<1>4. SumFunctionOnSet(f, S \ {y}) \in Int
  BY <1>1, SumElement
<1> QED BY <1>2, <1>3, <1>4

(* A sum of naturals is one.                                               *)
LEMMA SumNat ==
    ASSUME NEW S, IsFiniteSet(S), NEW f, \A x \in S : f[x] \in Nat
    PROVE  SumFunctionOnSet(f, S) \in Nat
<1> DEFINE good == {T \in SUBSET S : SumFunctionOnSet(f, T) \in Nat}
<1>1. {} \in good
  BY SumEmpty
<1>2. ASSUME NEW T \in SUBSET S, NEW x \in S \ T, T \in good
      PROVE  T \cup {x} \in good
  <2>1. IsFiniteSet(T) /\ T \cup {x} \in SUBSET S /\ x \notin T
    BY FS_Subset
  <2>2. SumFunctionOnSet(f, T \cup {x}) = f[x] + SumFunctionOnSet(f, T)
    BY <2>1, SumInsert
  <2> QED BY <1>2, <2>1, <2>2
<1>3. S \in good
  <2> HIDE DEF good
  <2> QED BY <1>1, <1>2, SetInduction
<1> QED BY <1>3

(* A sum of greater numbers is greater.                                    *)
LEMMA SumMonotone ==
    ASSUME NEW S, IsFiniteSet(S), NEW f, NEW g,
           \A x \in S : f[x] \in Int /\ g[x] \in Int /\ f[x] <= g[x]
    PROVE  SumFunctionOnSet(f, S) <= SumFunctionOnSet(g, S)
<1> DEFINE good == {T \in SUBSET S :
                      SumFunctionOnSet(f, T) <= SumFunctionOnSet(g, T)}
<1>1. {} \in good
  BY SumEmpty
<1>2. ASSUME NEW T \in SUBSET S, NEW x \in S \ T, T \in good
      PROVE  T \cup {x} \in good
  <2>1. IsFiniteSet(T) /\ T \cup {x} \in SUBSET S /\ x \notin T
    BY FS_Subset
  <2>2. /\ SumFunctionOnSet(f, T \cup {x}) = f[x] + SumFunctionOnSet(f, T)
        /\ SumFunctionOnSet(g, T \cup {x}) = g[x] + SumFunctionOnSet(g, T)
    BY <2>1, SumInsert
  <2>3. SumFunctionOnSet(f, T) \in Int /\ SumFunctionOnSet(g, T) \in Int
    BY <2>1, SumElement
  <2> QED BY <1>2, <2>1, <2>2, <2>3
<1>3. S \in good
  <2> HIDE DEF good
  <2> QED BY <1>1, <1>2, SetInduction
<1> QED BY <1>3

(* A sum of zeroes is zero.                                                *)
LEMMA SumZero ==
    ASSUME NEW S, IsFiniteSet(S), NEW f, \A x \in S : f[x] = 0
    PROVE  SumFunctionOnSet(f, S) = 0
<1> DEFINE good == {T \in SUBSET S : SumFunctionOnSet(f, T) = 0}
<1>1. {} \in good
  BY SumEmpty
<1>2. ASSUME NEW T \in SUBSET S, NEW x \in S \ T, T \in good
      PROVE  T \cup {x} \in good
  <2>1. /\ IsFiniteSet(T) /\ T \cup {x} \in SUBSET S /\ x \notin T
        /\ \A y \in T \cup {x} : f[y] \in Int
    BY FS_Subset
  <2>2. SumFunctionOnSet(f, T \cup {x}) = f[x] + SumFunctionOnSet(f, T)
    BY <2>1, SumInsert
  <2> QED BY <1>2, <2>1, <2>2
<1>3. S \in good
  <2> HIDE DEF good
  <2> QED BY <1>1, <1>2, SetInduction
<1> QED BY <1>3
-----------------------------------------------------------------------------
(* A finite set that is not empty has an element with the greatest key.    *)
LEMMA Greatest ==
    ASSUME NEW S, IsFiniteSet(S), S # {}, NEW key, \A x \in S : key[x] \in Int
    PROVE  \E m \in S : \A x \in S : key[x] <= key[m]
<1> DEFINE good == {T \in SUBSET S : T = {} \/ \E m \in T : \A x \in T : key[x] <= key[m]}
<1>1. {} \in good
  OBVIOUS
<1>2. ASSUME NEW T \in SUBSET S, NEW x \in S \ T, T \in good
      PROVE  T \cup {x} \in good
  <2>1. CASE T = {}
    BY <2>1
  <2>2. ASSUME NEW m \in T, \A y \in T : key[y] <= key[m]
        PROVE  T \cup {x} \in good
    <3>1. CASE key[x] <= key[m]
      BY <2>2, <3>1
    <3>2. CASE key[m] <= key[x]
      BY <2>2, <3>2
    <3>3. key[x] \in Int /\ key[m] \in Int
      OBVIOUS
    <3> QED BY <3>1, <3>2, <3>3
  <2> QED BY <1>2, <2>1, <2>2
<1>3. S \in good
  <2> HIDE DEF good
  <2> QED BY <1>1, <1>2, SetInduction
<1> QED BY <1>3

(* Max is what its name says for a finite set.                             *)
LEMMA MaxFinite ==
    ASSUME NEW S \in SUBSET Int, IsFiniteSet(S), S # {}
    PROVE  Max(S) \in S /\ \A y \in S : y <= Max(S)
<1> DEFINE key == [x \in S |-> x]
<1>1. PICK m \in S : \A x \in S : key[x] <= key[m]
  <2>1. \A x \in S : key[x] \in Int
    OBVIOUS
  <2> HIDE DEF key
  <2> QED BY <2>1, Greatest
<1>2. \A x \in S : m >= x
  BY <1>1
<1>3. Max(S) \in S /\ \A y \in S : Max(S) >= y
  BY <1>2 DEF Max
<1> QED BY <1>3

(* The last element of 1 .. n is n.                                        *)
LEMMA MaxInterval == \A n \in Nat \ {0} : Max(1 .. n) = n
<1> TAKE n \in Nat \ {0}
<1>1. IsFiniteSet(1 .. n) /\ 1 .. n \in SUBSET Int /\ n \in 1 .. n
  BY FS_Interval
<1>2. Max(1 .. n) \in 1 .. n /\ n <= Max(1 .. n)
  BY <1>1, MaxFinite
<1> QED BY <1>2

(* FoldLeft takes the last element of the domain off first, which makes    *)
(* it the recursion from 1 to n.                                           *)
LastFirst(n) == [T \in SUBSET (1 .. n) |-> Max(T)]

(* The last element is an element.                                         *)
LEMMA LastFirstPicks == \A n \in Nat : IsPick(LastFirst(n), 1 .. n)
<1> SUFFICES ASSUME NEW n \in Nat, NEW T \in SUBSET (1 .. n), T # {}
             PROVE  Max(T) \in T
  BY DEF IsPick, LastFirst
<1>1. IsFiniteSet(1 .. n) /\ T \in SUBSET Int
  BY FS_Interval
<1>2. IsFiniteSet(T)
  BY <1>1, FS_Subset
<1> QED BY <1>1, <1>2, MaxFinite

(* A fold from left to right, for all initial segments and the other       *)
(* subsets.                                                                *)
IsLeftFold(g, n, V, base, step) ==
    /\ \A T \in SUBSET (1 .. n) : g[T] \in V
    /\ g = [T \in SUBSET (1 .. n) |->
              IF T = {} THEN base ELSE step[Max(T)][g[T \ {Max(T)}]]]

(* It is well defined.                                                     *)
LEMMA LeftFoldExists ==
    ASSUME NEW n \in Nat, NEW V, NEW base \in V,
           NEW step, IsStep(step, 1 .. n, V)
    PROVE  \E g : IsLeftFold(g, n, V, base, step)
<1>1. IsFiniteSet(1 .. n) /\ IsPick(LastFirst(n), 1 .. n)
  BY FS_Interval, LastFirstPicks
<1>2. PICK g : IsFold(g, 1 .. n, V, base, step, LastFirst(n))
  BY <1>1, FoldExists
<1>3. IsLeftFold(g, n, V, base, step)
  BY <1>2 DEF IsFold, LastFirst, IsLeftFold
<1> QED BY <1>3

(* f follows the recursion wherever its values are of the right kind.      *)
Recurses(f, n, V, base, step) ==
    /\ f[{}] = base
    /\ \A T \in SUBSET (1 .. n) : T # {} /\ f[T \ {Max(T)}] \in V =>
          f[T] = step[Max(T)][f[T \ {Max(T)}]]

(* Then the values are of that kind, and on the initial segments they are  *)
(* the steps from 1 to n.                                                  *)
LEMMA LeftFold ==
    ASSUME NEW n \in Nat, NEW V, NEW base \in V,
           NEW step, IsStep(step, 1 .. n, V), NEW f, Recurses(f, n, V, base, step)
    PROVE  /\ f[1 .. 0] = base
           /\ \A i \in 0 .. n : f[1 .. i] \in V
           /\ \A i \in 1 .. n : f[1 .. i] = step[i][f[1 .. (i - 1)]]
<1> DEFINE G == {i \in Nat : i <= n => f[1 .. i] \in V}
<1>1. f[1 .. 0] = base
  BY DEF Recurses
<1>2. ASSUME NEW i \in 1 .. n, f[1 .. (i - 1)] \in V
      PROVE  f[1 .. i] = step[i][f[1 .. (i - 1)]]
  <2>1. i \in 1 .. i /\ \A j \in 1 .. i : j \in 1 .. n
    OBVIOUS
  <2>2. \A j : j \in (1 .. i) \ {i} <=> j \in 1 .. (i - 1)
    OBVIOUS
  <2>3. (1 .. i) \ {i} = 1 .. (i - 1)
    BY <2>2, Zenon
  <2>4. Max(1 .. i) = i
    BY MaxInterval
  <2>5. 1 .. i \in SUBSET (1 .. n) /\ 1 .. i # {}
    BY <2>1
  <2> QED BY <1>2, <2>3, <2>4, <2>5 DEF Recurses
<1>3. Nat \subseteq G
  <2>1. 0 \in G
    BY <1>1
  <2>2. ASSUME NEW i \in Nat, i \in G PROVE i + 1 \in G
    <3> SUFFICES ASSUME i + 1 <= n PROVE f[1 .. (i + 1)] \in V
      OBVIOUS
    <3>1. i + 1 \in 1 .. n /\ (i + 1) - 1 = i /\ f[1 .. i] \in V
      BY <2>2
    <3>2. f[1 .. (i + 1)] = step[i + 1][f[1 .. i]]
      BY <1>2, <3>1
    <3> QED BY <3>1, <3>2 DEF IsStep
  <2> HIDE DEF G
  <2> QED BY <2>1, <2>2, NatSetInduction
<1>4. \A i \in 0 .. n : f[1 .. i] \in V
  BY <1>3
<1>5. \A i \in 1 .. n : i - 1 \in 0 .. n
  OBVIOUS
<1> QED BY <1>1, <1>2, <1>4, <1>5
-----------------------------------------------------------------------------
(* A finite set whose keys are different integers can be sorted.           *)
LEMMA Sortable ==
    ASSUME NEW S, IsFiniteSet(S), NEW key, \A x \in S : key[x] \in Int,
           \A x, y \in S : key[x] = key[y] => x = y
    PROVE  \E s \in [1 .. Cardinality(S) -> S] :
              \A i, j \in 1 .. Cardinality(S) : i < j => key[s[i]] < key[s[j]]
<1> DEFINE sorted(T) == \E s \in [1 .. Cardinality(T) -> T] :
              \A i, j \in 1 .. Cardinality(T) : i < j => key[s[i]] < key[s[j]]
           bad == {T \in SUBSET S : ~sorted(T)}
<1> SUFFICES ASSUME bad # {} PROVE FALSE
  OBVIOUS
<1>1. PICK T \in bad : \A x \in T : T \ {x} \notin bad
  <2>1. bad \in SUBSET SUBSET S
    OBVIOUS
  <2> HIDE DEF bad
  <2> QED BY <2>1, Minimal
<1>2. T \in SUBSET S /\ IsFiniteSet(T)
  BY <1>1, FS_Subset
<1>3. CASE T = {}
  <2>1. Cardinality(T) = 0 /\ 1 .. 0 = {}
    BY <1>3, FS_EmptySet
  <2>2. <<>> \in [1 .. Cardinality(T) -> T]
    BY <2>1
  <2> QED BY <1>1, <2>1, <2>2
<1>4. CASE T # {}
  <2>1. PICK m \in T : \A x \in T : key[x] <= key[m]
    BY <1>2, <1>4, Greatest
  <2> DEFINE U == T \ {m}
             n == Cardinality(T)
  <2>2. n \in Nat /\ Cardinality(U) = n - 1 /\ n - 1 \in Nat
    <3>1. n \in Nat /\ n # 0
      BY <1>2, <1>4, FS_EmptySet, FS_CardinalityType
    <3>2. Cardinality(U) = n - 1
      BY <1>2, FS_RemoveElement
    <3> HIDE DEF n
    <3> QED BY <3>1, <3>2
  <2>3. PICK s \in [1 .. n - 1 -> U] :
              \A i, j \in 1 .. n - 1 : i < j => key[s[i]] < key[s[j]]
    <3>1. sorted(U)
      BY <1>1, <1>2, <2>1
    <3> HIDE DEF U, n
    <3> QED BY <2>2, <3>1
  <2> DEFINE t == [i \in 1 .. n |-> IF i = n THEN m ELSE s[i]]
  <2> HIDE DEF n
  <2>4. t \in [1 .. n -> T]
    BY <2>2, <2>3
  <2>5. ASSUME NEW i \in 1 .. n, NEW j \in 1 .. n, i < j
        PROVE  key[t[i]] < key[t[j]]
    <3>1. i \in 1 .. n - 1 /\ i # n /\ t[i] = s[i] /\ s[i] \in U
      BY <2>2, <2>3, <2>5
    <3>2. CASE j = n
      <4>1. t[j] = m /\ s[i] \in S /\ m \in S /\ s[i] # m
        BY <1>2, <2>1, <3>1, <3>2
      <4>2. key[s[i]] # key[m] /\ key[s[i]] <= key[m]
        BY <2>1, <3>1, <4>1
      <4>3. key[s[i]] \in Int /\ key[m] \in Int
        BY <4>1
      <4> HIDE DEF t
      <4> QED BY <3>1, <4>1, <4>2, <4>3
    <3>3. CASE j # n
      BY <2>2, <2>3, <2>5, <3>1, <3>3
    <3> QED BY <3>2, <3>3
  <2>6. sorted(T)
    <3> HIDE DEF t
    <3> QED BY <2>4, <2>5 DEF n
  <2> QED BY <1>1, <2>6
<1> QED BY <1>3, <1>4
=============================================================================
