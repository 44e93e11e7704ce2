---------------------------- MODULE QueueProofs -----------------------------
(***************************************************************************)
(* The types of the pass, and the order of its queue: what BasicPlugin     *)
(* computes from exact sums, what the map of the priorities keeps of it,   *)
(* and in which order make_queue takes it out.                             *)
(***************************************************************************)
EXTENDS AccountingProofs

(* The sections of shares.conf.                                            *)
LEMMA SharesType ==
    /\ Len(Shares) \in Nat /\ Len(Shares) > 0
    /\ DOMAIN Shares = UserList /\ UserList = 1 .. Len(Shares)
    /\ \A i \in UserList : Shares[i].uid \in Nat /\ Shares[i].share \in Nat
<1> DEFINE Section == [uid : Nat, share : Nat]
<1>1. Shares \in Seq(Section) /\ Len(Shares) > 0
  BY FairShareAssumption
<1> HIDE DEF Section
<1>2. Len(Shares) \in Nat /\ DOMAIN Shares = 1 .. Len(Shares)
      /\ \A i \in 1 .. Len(Shares) : Shares[i] \in Section
  BY <1>1
<1> QED BY <1>1, <1>2 DEF Section, UserList

(* Common is what the recursion over the sections makes of it.             *)
LEMMA CommonFold ==
    \E c : /\ c[1 .. 0] = 1
           /\ \A i \in 0 .. Len(Shares) : c[1 .. i] \in Nat \ {0}
           /\ \A i \in UserList : c[1 .. i] = times(c[1 .. (i - 1)], Shares[i])
           /\ Common = c[UserList]
<1> DEFINE n == Len(Shares)
           V == Nat \ {0}
           step == [i \in 1 .. n |-> [v \in V |-> times(v, Shares[i])]]
           body(g) == [T \in SUBSET (1 .. n) |->
                         IF T = {} THEN 1
                         ELSE times(g[T \ {Max(T)}], Shares[Max(T)])]
           fold == CHOOSE g : g = body(g)
<1>1. n \in Nat /\ DOMAIN Shares = 1 .. n /\ 1 \in V /\ UserList = 1 .. n
  BY SharesType
<1>2. IsStep(step, 1 .. n, V)
  <2> SUFFICES ASSUME NEW i \in 1 .. n, NEW v \in V PROVE times(v, Shares[i]) \in V
    BY DEF IsStep
  <2>1. Shares[i].share \in Nat
    BY SharesType
  <2> QED BY <2>1 DEF times
<1>3. \A T \in SUBSET (1 .. n) : T # {} => Max(T) \in 1 .. n
  BY <1>1, LastFirstPicks DEF IsPick, LastFirst
<1>4. fold = body(fold)
  <2>1. PICK g : IsLeftFold(g, n, V, 1, step)
    <3>1. n \in Nat /\ 1 \in V
      BY <1>1
    <3> HIDE DEF step, V, n
    <3> QED BY <1>2, <3>1, LeftFoldExists
  <2>2. \A T \in SUBSET (1 .. n) : T # {} =>
          step[Max(T)][g[T \ {Max(T)}]] = times(g[T \ {Max(T)}], Shares[Max(T)])
    <3> HIDE DEF n
    <3> QED BY <1>3, <2>1 DEF IsLeftFold
  <2>3. g = body(g)
    <3> HIDE DEF n, step
    <3> QED BY <2>1, <2>2 DEF IsLeftFold
  <2> HIDE DEF body
  <2> QED BY <2>3
<1>5. Recurses(fold, n, V, 1, step)
  <2>1. fold[{}] = 1
    BY <1>4
  <2>2. ASSUME NEW T \in SUBSET (1 .. n), T # {}, fold[T \ {Max(T)}] \in V
        PROVE  fold[T] = step[Max(T)][fold[T \ {Max(T)}]]
    <3> HIDE DEF n, fold
    <3> QED BY <1>3, <1>4, <2>2
  <2> HIDE DEF fold, step, V, n
  <2> QED BY <2>1, <2>2 DEF Recurses
<1>6. Common = fold[1 .. n]
  BY <1>1 DEF Common, FoldLeft, MapThenFoldSet
<1>7. /\ fold[1 .. 0] = 1
      /\ \A i \in 0 .. n : fold[1 .. i] \in V
      /\ \A i \in 1 .. n : fold[1 .. i] = step[i][fold[1 .. (i - 1)]]
  <2> HIDE DEF fold, step, V, n
  <2> QED BY <1>1, <1>2, <1>5, LeftFold
<1>8. ASSUME NEW i \in 1 .. n PROVE fold[1 .. i] = times(fold[1 .. (i - 1)], Shares[i])
  <2>1. i - 1 \in 0 .. n
    BY <1>1
  <2> HIDE DEF fold
  <2> QED BY <1>7, <2>1
<1> HIDE DEF fold
<1> QED BY <1>1, <1>6, <1>7, <1>8

(* Quotients of Common are exact, so ranks lose nothing by their unit.     *)
multiple(c, d) == \E q \in Nat \ {0} : c = q * d

(* Arithmetic that is used below.                                          *)
LEMMA Products ==
    /\ \A a, b, c \in Int : (a * b) * c = (a * c) * b /\ (a * b) * c = a * (b * c)
    /\ \A a, b \in Nat \ {0} : a * b \in Nat \ {0}
    /\ \A a, b \in Nat : a * b \in Nat
    /\ \A q \in Nat, d \in Nat \ {0} : (q * d) \div d = q
  OBVIOUS

(* Common is a multiple of each share but 0.                               *)
LEMMA CommonDivides ==
    /\ Common \in Nat \ {0}
    /\ \A i \in UserList : Shares[i].share # 0 => multiple(Common, Shares[i].share)
<1> DEFINE n == Len(Shares)
<1>1. PICK c : /\ c[1 .. 0] = 1
               /\ \A i \in 0 .. n : c[1 .. i] \in Nat \ {0}
               /\ \A i \in UserList : c[1 .. i] = times(c[1 .. (i - 1)], Shares[i])
               /\ Common = c[UserList]
  BY CommonFold
<1>2. n \in Nat /\ UserList = 1 .. n /\ n \in 0 .. n
      /\ \A i \in UserList : Shares[i].share \in Nat
  BY SharesType
<1> DEFINE ok(i) == \A j \in 1 .. i :
                        Shares[j].share # 0 => multiple(c[1 .. i], Shares[j].share)
           G == {i \in Nat : i <= n => ok(i)}
<1> HIDE DEF n
<1>3. 0 \in G
  OBVIOUS
<1>4. ASSUME NEW i \in Nat, i \in G PROVE i + 1 \in G
  <2> SUFFICES ASSUME i + 1 <= n, NEW j \in 1 .. (i + 1), Shares[j].share # 0
               PROVE  multiple(c[1 .. (i + 1)], Shares[j].share)
    OBVIOUS
  <2> DEFINE a == c[1 .. i]
             b == c[1 .. (i + 1)]
             s == Shares[i + 1].share
             d == Shares[j].share
  <2>1. /\ a \in Nat \ {0} /\ b \in Nat \ {0} /\ s \in Nat /\ d \in Nat \ {0}
        /\ b = IF s = 0 THEN a ELSE a * s
    <3>1. i \in 0 .. n /\ i + 1 \in 0 .. n /\ i + 1 \in UserList /\ j \in UserList
          /\ (i + 1) - 1 = i
      BY <1>2
    <3>2. b = times(a, Shares[i + 1])
      BY <1>1, <3>1
    <3>3. a \in Nat \ {0} /\ b \in Nat \ {0}
      BY <1>1, <3>1
    <3>4. s \in Nat /\ d \in Nat \ {0}
      BY <1>2, <3>1
    <3> QED BY <3>2, <3>3, <3>4 DEF times
  <2>2. CASE j = i + 1
    <3>1. b = a * d
      BY <2>1, <2>2
    <3> HIDE DEF a, b, d
    <3> QED BY <2>1, <3>1 DEF multiple, b, d
  <2>3. CASE j # i + 1
    <3>1. j \in 1 .. i /\ i <= n
      BY <1>2, <2>3
    <3>2. multiple(a, d)
      BY <1>4, <3>1
    <3> HIDE DEF a, b, d, s
    <3>3. PICK q \in Nat \ {0} : a = q * d
      BY <3>2 DEF multiple
    <3>4. CASE s = 0
      BY <2>1, <3>2, <3>4 DEF b, d
    <3>5. CASE s # 0
      <4>1. b = (q * s) * d
        BY <2>1, <3>3, <3>5, Products
      <4>2. q * s \in Nat \ {0}
        BY <2>1, <3>5, Products
      <4>3. multiple(b, d)
        BY <4>1, <4>2 DEF multiple
      <4> QED BY <4>3 DEF b, d
    <3> QED BY <3>4, <3>5
  <2> QED BY <2>2, <2>3
<1>5. n \in G
  <2> HIDE DEF G
  <2> QED BY <1>2, <1>3, <1>4, NatSetInduction
<1> QED BY <1>1, <1>2, <1>5
-----------------------------------------------------------------------------
(* BasicPlugin.cc:50: insert keeps what is there, so the "total" usage is  *)
(* the usage of the first section, whatever the sections and the sums      *)
(* are.                                                                    *)
THEOREM TotalIsFirst ==
    ASSUME \A i \in UserList : usage[i].cpu \in [Entries -> Nat]
    PROVE  evaluate_total_usage = usage[1].cpu
<1> DEFINE n == Len(Shares)
           V == {<<>>} \cup [Entries -> Nat]
           cpu == [i \in 1 .. n |-> usage[i].cpu]
           step == [i \in 1 .. n |-> [v \in V |-> add_user(v, cpu[i])]]
           body(g) == [T \in SUBSET (1 .. n) |->
                         IF T = {} THEN <<>>
                         ELSE add_user(g[T \ {Max(T)}], cpu[Max(T)])]
           fold == CHOOSE g : g = body(g)
<1>1. n \in Nat /\ n > 0 /\ <<>> \in V /\ UserList = 1 .. n
  BY SharesType
<1>2. ASSUME NEW of_user \in [Entries -> Nat]
      PROVE  /\ add_user(<<>>, of_user) = of_user
             /\ \A v \in [Entries -> Nat] : add_user(v, of_user) = v
  BY DEF add_user
<1>3. \A i \in 1 .. n : cpu[i] \in [Entries -> Nat]
  BY <1>1
<1>4. IsStep(step, 1 .. n, V)
  <2> SUFFICES ASSUME NEW i \in 1 .. n, NEW v \in V PROVE add_user(v, cpu[i]) \in V
    BY DEF IsStep
  <2> HIDE DEF cpu
  <2> QED BY <1>2, <1>3
<1>5. \A T \in SUBSET (1 .. n) : T # {} => Max(T) \in 1 .. n
  BY <1>1, LastFirstPicks DEF IsPick, LastFirst
<1>6. fold = body(fold)
  <2>1. PICK g : IsLeftFold(g, n, V, <<>>, step)
    <3>1. n \in Nat /\ <<>> \in V
      BY <1>1
    <3> HIDE DEF step, V, n
    <3> QED BY <1>4, <3>1, LeftFoldExists
  <2>2. \A T \in SUBSET (1 .. n) : T # {} =>
          step[Max(T)][g[T \ {Max(T)}]] = add_user(g[T \ {Max(T)}], cpu[Max(T)])
    <3> HIDE DEF n, V, cpu
    <3> QED BY <1>5, <2>1 DEF IsLeftFold
  <2>3. g = body(g)
    <3> HIDE DEF n, step, cpu
    <3> QED BY <2>1, <2>2 DEF IsLeftFold
  <2> HIDE DEF body
  <2> QED BY <2>3
<1>7. Recurses(fold, n, V, <<>>, step)
  <2>1. fold[{}] = <<>>
    BY <1>6
  <2>2. ASSUME NEW T \in SUBSET (1 .. n), T # {}, fold[T \ {Max(T)}] \in V
        PROVE  fold[T] = step[Max(T)][fold[T \ {Max(T)}]]
    <3> HIDE DEF n, V, cpu, fold
    <3> QED BY <1>5, <1>6, <2>2
  <2> HIDE DEF fold, step, V, n
  <2> QED BY <2>1, <2>2 DEF Recurses
<1>8. evaluate_total_usage = fold[1 .. n]
  BY <1>1 DEF evaluate_total_usage, FoldLeft, MapThenFoldSet
<1>9. /\ fold[1 .. 0] = <<>>
      /\ \A i \in 0 .. n : fold[1 .. i] \in V
      /\ \A i \in 1 .. n : fold[1 .. i] = step[i][fold[1 .. (i - 1)]]
  <2> HIDE DEF fold, step, V, n
  <2> QED BY <1>1, <1>4, <1>7, LeftFold
<1>10. ASSUME NEW i \in 1 .. n PROVE fold[1 .. i] = add_user(fold[1 .. (i - 1)], cpu[i])
  <2>1. i - 1 \in 0 .. n
    BY <1>1
  <2> HIDE DEF fold, cpu, V
  <2> QED BY <1>9, <2>1
<1> HIDE DEF fold, step, V
<1> DEFINE G == {i \in Nat : i + 1 <= n => fold[1 .. (i + 1)] = cpu[1]}
<1>11. 0 \in G
  <2>1. 1 \in 1 .. n /\ 1 - 1 = 0
    BY <1>1
  <2>2. fold[1 .. 1] = add_user(fold[1 .. 0], cpu[1])
    BY <1>10, <2>1
  <2> QED BY <1>2, <1>3, <1>9, <2>1, <2>2
<1>12. ASSUME NEW i \in Nat, i \in G PROVE i + 1 \in G
  <2> SUFFICES ASSUME i + 2 <= n PROVE fold[1 .. (i + 2)] = cpu[1]
    OBVIOUS
  <2>1. i + 2 \in 1 .. n /\ 1 \in 1 .. n /\ (i + 2) - 1 = i + 1 /\ i + 1 <= n
    BY <1>1
  <2>2. fold[1 .. (i + 1)] = cpu[1]
    BY <1>12, <2>1
  <2>3. fold[1 .. (i + 2)] = add_user(fold[1 .. (i + 1)], cpu[i + 2])
    BY <1>10, <2>1
  <2> HIDE DEF cpu
  <2> QED BY <1>2, <1>3, <2>1, <2>2, <2>3
<1>13. n - 1 \in G
  <2>1. n - 1 \in Nat
    BY <1>1
  <2> HIDE DEF G
  <2> QED BY <1>11, <1>12, <2>1, NatSetInduction
<1>14. fold[1 .. n] = cpu[1]
  <2>1. n - 1 + 1 = n
    BY <1>1
  <2> HIDE DEF n, cpu
  <2> QED BY <1>1, <1>13, <2>1
<1>15. 1 \in 1 .. n
  BY <1>1
<1> QED BY <1>8, <1>14, <1>15
-----------------------------------------------------------------------------
(* s is the sequence of S in order.                                        *)
increases(s, S) ==
    /\ s \in [1 .. Cardinality(S) -> S]
    /\ \A i, j \in 1 .. Cardinality(S) : i < j => s[i] < s[j]

(* in_order finds it, for numbers.                                         *)
LEMMA IdsInOrder ==
    ASSUME NEW S \in SUBSET Int, IsFiniteSet(S)
    PROVE  increases(in_order(S, <), S)
<1> DEFINE key == [x \in S |-> x]
<1>1. /\ \A x \in S : key[x] \in Int
      /\ \A x, y \in S : key[x] = key[y] => x = y
  OBVIOUS
<1>2. \E s \in [1 .. Cardinality(S) -> S] :
        \A i, j \in 1 .. Cardinality(S) : i < j => key[s[i]] < key[s[j]]
  <2> HIDE DEF key
  <2> QED BY <1>1, Sortable
<1>3. \E s \in [1 .. Cardinality(S) -> S] :
        \A i, j \in 1 .. Cardinality(S) : i < j => s[i] < s[j]
  <2>1. PICK s \in [1 .. Cardinality(S) -> S] :
        \A i, j \in 1 .. Cardinality(S) : i < j => key[s[i]] < key[s[j]]
    BY <1>2
  <2>2. \A i \in 1 .. Cardinality(S) : key[s[i]] = s[i]
    OBVIOUS
  <2> HIDE DEF key
  <2> QED BY <2>1, <2>2
<1> QED BY <1>3 DEF in_order, increases

(* It leaves nobody out: n places and n - 1 numbers would not do.          *)
LEMMA IncreasesAll ==
    ASSUME NEW S \in SUBSET Int, IsFiniteSet(S), NEW s, increases(s, S)
    PROVE  \A x \in S : \E i \in 1 .. Cardinality(S) : s[i] = x
<1> DEFINE n == Cardinality(S)
<1> SUFFICES ASSUME NEW x \in S, \A i \in 1 .. n : s[i] # x PROVE FALSE
  OBVIOUS
<1>1. n \in Nat /\ Cardinality(S \ {x}) = n - 1 /\ IsFiniteSet(S \ {x})
  BY FS_CardinalityType, FS_RemoveElement
<1>2. IsFiniteSet(1 .. n) /\ Cardinality(1 .. n) = n
  <2> HIDE DEF n
  <2> QED BY <1>1, FS_Interval
<1>3. s \in [1 .. n -> S \ {x}]
  BY DEF increases
<1>4. \E i, j \in 1 .. n : i # j /\ s[i] = s[j]
  <2>1. Cardinality(S \ {x}) < Cardinality(1 .. n)
    BY <1>1, <1>2
  <2> HIDE DEF n
  <2> QED BY <1>1, <1>2, <1>3, <2>1, FS_PigeonHole
<1>5. PICK i, j \in 1 .. n : i # j /\ s[i] = s[j]
  BY <1>4
<1>6. s[i] \in Int /\ (i < j \/ j < i)
  <2> HIDE DEF n
  <2>1. i \in Int /\ j \in Int /\ i # j
    BY <1>1, <1>5
  <2>2. s[i] \in Int
    BY <1>3, <1>5
  <2> QED BY <2>1, <2>2
<1> QED BY <1>5, <1>6 DEF increases

(* What a map can be: some of the priorities of S, each key once.          *)
IsMap(M, P, S) ==
    /\ M \subseteq {<<P[v], v>> : v \in S}
    /\ \A e, f \in M : same_key(e[1], f[1]) => e = f

(* Filling a map: a VM that is not in it was refused for an equal key.     *)
LEMMA InsertAll ==
    ASSUME NEW S \in SUBSET Int, IsFiniteSet(S), NEW P,
           NEW ids, increases(ids, S)
    PROVE  \E M : /\ IsMap(M, P, S)
                  /\ \A v \in S : \E e \in M : same_key(e[1], P[v])
                  /\ FoldLeft(insert, {}, [n \in DOMAIN ids |-> <<P[ids[n]], ids[n]>>]) = M
<1> DEFINE n == Cardinality(S)
           V == {M \in SUBSET {<<P[v], v>> : v \in S} : IsMap(M, P, S)}
           entry_of == [i \in 1 .. n |-> <<P[ids[i]], ids[i]>>]
           step == [i \in 1 .. n |-> [v \in V |-> insert(v, entry_of[i])]]
           body(g) == [T \in SUBSET (1 .. n) |->
                         IF T = {} THEN {}
                         ELSE insert(g[T \ {Max(T)}], entry_of[Max(T)])]
           fold == CHOOSE g : g = body(g)
<1>1. n \in Nat /\ {} \in V /\ DOMAIN ids = 1 .. n
  BY FS_CardinalityType DEF IsMap, increases
<1>2. \A i \in 1 .. n : ids[i] \in S /\ entry_of[i] = <<P[ids[i]], ids[i]>>
  BY DEF increases
<1>3. IsStep(step, 1 .. n, V)
  <2> SUFFICES ASSUME NEW i \in 1 .. n, NEW M \in V PROVE insert(M, entry_of[i]) \in V
    BY DEF IsStep
  <2>1. entry_of[i] \in {<<P[v], v>> : v \in S}
    BY <1>2
  <2>2. \A a, b : same_key(a, b) => same_key(b, a)
    BY DEF same_key
  <2> HIDE DEF entry_of
  <2> QED BY <2>1, <2>2 DEF insert, IsMap
<1>5. \A T \in SUBSET (1 .. n) : T # {} => Max(T) \in 1 .. n
  BY <1>1, LastFirstPicks DEF IsPick, LastFirst
<1>6. fold = body(fold)
  <2>1. PICK g : IsLeftFold(g, n, V, {}, step)
    <3>1. n \in Nat /\ {} \in V
      BY <1>1
    <3> HIDE DEF step, V, n
    <3> QED BY <1>3, <3>1, LeftFoldExists
  <2>2. \A T \in SUBSET (1 .. n) : T # {} =>
          step[Max(T)][g[T \ {Max(T)}]] = insert(g[T \ {Max(T)}], entry_of[Max(T)])
    <3> HIDE DEF n, V, entry_of
    <3> QED BY <1>5, <2>1 DEF IsLeftFold
  <2>3. g = body(g)
    <3> HIDE DEF n, step, entry_of
    <3> QED BY <2>1, <2>2 DEF IsLeftFold
  <2> HIDE DEF body
  <2> QED BY <2>3
<1>7. Recurses(fold, n, V, {}, step)
  <2>1. fold[{}] = {}
    BY <1>6
  <2>2. ASSUME NEW T \in SUBSET (1 .. n), T # {}, fold[T \ {Max(T)}] \in V
        PROVE  fold[T] = step[Max(T)][fold[T \ {Max(T)}]]
    <3> HIDE DEF n, V, entry_of, fold
    <3> QED BY <1>5, <1>6, <2>2
  <2> HIDE DEF fold, step, V, n
  <2> QED BY <2>1, <2>2 DEF Recurses
<1>8. FoldLeft(insert, {}, [m \in DOMAIN ids |-> <<P[ids[m]], ids[m]>>]) = fold[1 .. n]
  BY <1>1 DEF FoldLeft, MapThenFoldSet
<1>9. /\ fold[1 .. 0] = {}
      /\ \A i \in 0 .. n : fold[1 .. i] \in V
      /\ \A i \in 1 .. n : fold[1 .. i] = step[i][fold[1 .. (i - 1)]]
  <2> HIDE DEF fold, step, V, n
  <2> QED BY <1>1, <1>3, <1>7, LeftFold
<1>10. ASSUME NEW i \in 1 .. n
       PROVE  fold[1 .. i] = insert(fold[1 .. (i - 1)], entry_of[i])
  <2>1. i - 1 \in 0 .. n
    BY <1>1
  <2> HIDE DEF fold, entry_of, V
  <2> QED BY <1>9, <2>1
<1> HIDE DEF fold, step, V, entry_of, n
<1> DEFINE has(M, i) == \E e \in M : same_key(e[1], P[ids[i]])
           G == {i \in Nat : i <= n => \A j \in 1 .. i : has(fold[1 .. i], j)}
<1>11. 0 \in G
  OBVIOUS
<1>12. ASSUME NEW i \in Nat, i \in G PROVE i + 1 \in G
  <2> SUFFICES ASSUME i + 1 <= n, NEW j \in 1 .. (i + 1)
               PROVE  has(fold[1 .. (i + 1)], j)
    OBVIOUS
  <2>1. i + 1 \in 1 .. n /\ (i + 1) - 1 = i /\ i <= n
    BY <1>1
  <2>2. fold[1 .. (i + 1)] = insert(fold[1 .. i], entry_of[i + 1])
    BY <1>10, <2>1
  <2>3. CASE j = i + 1
    <3>1. entry_of[j] = <<P[ids[j]], ids[j]>>
      BY <1>2, <2>1, <2>3
    <3>2. same_key(P[ids[j]], P[ids[j]])
      BY DEF same_key
    <3>3. CASE \E other \in fold[1 .. i] : same_key(other[1], entry_of[j][1])
      BY <2>2, <2>3, <3>1, <3>3 DEF insert
    <3>4. CASE ~\E other \in fold[1 .. i] : same_key(other[1], entry_of[j][1])
      <4>1. entry_of[j] \in fold[1 .. (i + 1)]
        BY <2>2, <2>3, <3>4 DEF insert
      <4> QED BY <3>1, <3>2, <4>1
    <3> QED BY <3>3, <3>4
  <2>4. CASE j # i + 1
    <3>1. j \in 1 .. i
      BY <2>4
    <3>2. has(fold[1 .. i], j)
      BY <1>12, <2>1, <3>1
    <3> QED BY <2>2, <3>2 DEF insert
  <2> QED BY <2>3, <2>4
<1>13. n \in G /\ n \in 0 .. n
  <2> HIDE DEF G
  <2> QED BY <1>1, <1>11, <1>12, NatSetInduction
<1>14. IsMap(fold[1 .. n], P, S)
  BY <1>9, <1>13 DEF V
<1>15. ASSUME NEW v \in S PROVE \E e \in fold[1 .. n] : same_key(e[1], P[v])
  <2>1. PICK i \in 1 .. n : ids[i] = v
    BY IncreasesAll DEF n
  <2> QED BY <1>1, <1>13, <2>1
<1> QED BY <1>8, <1>14, <1>15
-----------------------------------------------------------------------------
(* The sum of the shares.                                                  *)
LEMMA SumSharesType == SumShares \in Nat
<1> DEFINE f == [i \in UserList |-> Shares[i].share]
<1>1. IsFiniteSet(UserList) /\ \A i \in UserList : f[i] \in Nat
  <2>1. 1 \in Int /\ Len(Shares) \in Int /\ UserList = 1 .. Len(Shares)
    BY SharesType
  <2>2. IsFiniteSet(UserList)
    BY <2>1, FS_Interval
  <2>3. \A i \in UserList : f[i] \in Nat
    BY SharesType
  <2> QED BY <2>2, <2>3
<1>2. SumFunctionOnSet(f, UserList) \in Nat
  <2> HIDE DEF f
  <2> QED BY <1>1, SumNat
<1> QED BY <1>2 DEF SumShares, SumFunction

(* It is 0 only if a share is.                                             *)
LEMMA SumSharesPositive ==
    ASSUME \A i \in UserList : Shares[i].share > 0
    PROVE  SumShares # 0
<1> DEFINE f == [i \in UserList |-> Shares[i].share]
<1>1. IsFiniteSet(UserList) /\ 1 \in UserList /\ \A i \in UserList : f[i] \in Nat
  BY SharesType, FS_Interval
<1>2. f[1] > 0
  BY <1>1
<1>3. IsFiniteSet(UserList \ {1})
  BY <1>1, FS_RemoveElement
<1>4. /\ SumFunctionOnSet(f, UserList) = f[1] + SumFunctionOnSet(f, UserList \ {1})
      /\ SumFunctionOnSet(f, UserList \ {1}) \in Nat
  <2> HIDE DEF f
  <2>1. \A i \in UserList : f[i] \in Int
    BY <1>1
  <2>2. SumFunctionOnSet(f, UserList) = f[1] + SumFunctionOnSet(f, UserList \ {1})
    BY <1>1, <2>1, SumElement
  <2>3. SumFunctionOnSet(f, UserList \ {1}) \in Nat
    BY <1>1, <1>3, SumNat
  <2> QED BY <2>2, <2>3
<1>5. SumShares = SumFunctionOnSet(f, UserList)
  BY DEF SumShares, SumFunction
<1> HIDE DEF f
<1> QED BY <1>1, <1>2, <1>4, <1>5

(* The section of a VM is one of its owner.                                *)
LEMMA UserOf ==
    ASSUME NEW v, sections(v) # {}
    PROVE  /\ user_of(v) \in UserList /\ Shares[user_of(v)].uid = Owner[v]
           /\ Shares[user_of(v)].share \in Nat
<1>1. sections(v) \in SUBSET UserList /\ IsFiniteSet(UserList) /\ UserList \in SUBSET Int
  BY SharesType, FS_Interval DEF sections
<1>2. IsFiniteSet(sections(v)) /\ sections(v) \in SUBSET Int
  BY <1>1, FS_Subset
<1>3. Max(sections(v)) \in sections(v)
  BY <1>2, MaxFinite
<1> QED BY <1>1, <1>3, SharesType DEF user_of, sections

(* After eval_usage the sums are there for each period.                    *)
CpuTyped == \A i \in UserList : usage[i].cpu \in [Entries -> Nat]

(* half_life reads four of them.                                           *)
LEMMA HalfLifeType ==
    ASSUME NPeriods >= 3, NEW of \in [Entries -> Nat]
    PROVE  half_life(of) \in Int
<1>1. 0 \in Entries /\ 1 \in Entries /\ 2 \in Entries /\ 3 \in Entries
  BY FairShareAssumption DEF Entries
<1>2. of[0] \in Nat /\ of[1] \in Nat /\ of[2] \in Nat /\ of[3] \in Nat
  BY <1>1
<1> QED BY <1>2 DEF half_life

(* What decays of the sums of the owner of v, and of the total.            *)
LEMMA HalfLives ==
    ASSUME CpuTyped, NPeriods >= 3, NEW v \in VMs, sections(v) # {}
    PROVE  /\ half_life(usage[user_of(v)].cpu) \in Int
           /\ half_life(usage[1].cpu) \in Int
<1>1. 1 \in UserList /\ user_of(v) \in UserList
  BY SharesType, UserOf
<1>2. usage[1].cpu \in [Entries -> Nat] /\ usage[user_of(v)].cpu \in [Entries -> Nat]
  BY <1>1 DEF CpuTyped
<1> QED BY <1>2, HalfLifeType

(* The lower exponent is not the later float; none is later than the last. *)
LEMMA FloatMonotone ==
    ASSUME NEW x \in Int, NEW y \in Int, x <= y, NEW unit \in Int
    PROVE  /\ float(x, unit) \in Nat /\ float(y, unit) \in Nat
           /\ Cardinality(Cuts) \in Nat
           /\ float(x, unit) <= float(y, unit)
           /\ float(y, unit) <= Cardinality(Cuts)
<1> DEFINE A == {c \in Cuts : c * unit <= x * Res}
           B == {c \in Cuts : c * unit <= y * Res}
<1>1. IsFiniteSet(Cuts) /\ Cuts \subseteq Nat /\ Res \in Nat \ {0}
  BY FairShareAssumption
<1>2. A \in SUBSET B
  <2>1. x * Res \in Int /\ y * Res \in Int /\ x * Res <= y * Res
    BY <1>1
  <2>2. \A c \in Cuts : c * unit \in Int
    BY <1>1
  <2> QED BY <2>1, <2>2
<1>3. B \in SUBSET Cuts
  OBVIOUS
<1> HIDE DEF A, B
<1>4. /\ IsFiniteSet(B) /\ Cardinality(B) <= Cardinality(Cuts)
      /\ IsFiniteSet(A) /\ Cardinality(A) <= Cardinality(B)
  BY <1>1, <1>2, <1>3, FS_Subset
<1>5. /\ Cardinality(A) \in Nat /\ Cardinality(B) \in Nat
      /\ Cardinality(Cuts) \in Nat
  BY <1>1, <1>4, FS_CardinalityType
<1>6. float(x, unit) = Cardinality(A) /\ float(y, unit) = Cardinality(B)
  BY DEF float, A, B
<1> QED BY <1>4, <1>5, <1>6

(* One float has the same cuts before it.                                  *)
LEMMA FloatCuts ==
    ASSUME NEW x \in Int, NEW y \in Int, NEW unit \in Int,
           float(x, unit) = float(y, unit)
    PROVE  \A c \in Cuts : c * unit <= x * Res <=> c * unit <= y * Res
<1> DEFINE A(z) == {c \in Cuts : c * unit <= z * Res}
<1>1. IsFiniteSet(Cuts) /\ Cuts \subseteq Nat /\ Res \in Nat \ {0}
  BY FairShareAssumption
<1>2. ASSUME NEW i \in Int, NEW j \in Int, i <= j,
             Cardinality(A(i)) = Cardinality(A(j))
      PROVE  A(i) = A(j)
  <2>1. i * Res \in Int /\ j * Res \in Int /\ i * Res <= j * Res
    BY <1>1, <1>2
  <2>2. \A c \in Cuts : c * unit \in Int
    BY <1>1
  <2>3. A(i) \in SUBSET A(j) /\ A(j) \in SUBSET Cuts
    BY <2>1, <2>2
  <2> HIDE DEF A
  <2>4. IsFiniteSet(A(j))
    BY <1>1, <2>3, FS_Subset
  <2> QED BY <1>2, <2>3, <2>4, FS_Subset
<1>3. Cardinality(A(x)) = Cardinality(A(y))
  BY DEF float
<1>4. x <= y \/ y <= x
  OBVIOUS
<1>5. A(x) = A(y)
  <2> HIDE DEF A
  <2> QED BY <1>2, <1>3, <1>4
<1>6. \A c \in Cuts : c \in A(x) <=> c \in A(y)
  BY <1>5
<1> QED BY <1>6

(* The priority of v, where q is what Common is of its owner's share.      *)
IsRank(v, q) ==
    LET s == Shares[user_of(v)].share
        h == half_life(usage[user_of(v)].cpu)
        t == half_life(usage[1].cpu)
        unit == t * Common
    IN  /\ s # 0 => Common = q * s
        /\ update_prio(v, usage[1].cpu) =
             IF SumShares = 0 \/ (s = 0 /\ 0 \in {t, h}) THEN NaN
             ELSE IF s = 0 THEN Cardinality(Cuts)
             ELSE IF t = 0 THEN float(v, 1)
             ELSE float(h * SumShares * q + v * unit, unit)

(* It is that, as the division leaves no rest.                             *)
LEMMA Rank ==
    ASSUME CpuTyped, NPeriods >= 3, NEW v \in VMs, sections(v) # {}
    PROVE  \E q \in Nat : IsRank(v, q)
<1> DEFINE u == user_of(v)
           s == Shares[u].share
           h == half_life(usage[u].cpu)
           t == half_life(usage[1].cpu)
<1>1. u \in UserList /\ s \in Nat /\ 1 \in UserList
  BY UserOf, SharesType
<1>2. Common \in Nat \ {0} /\ (s # 0 => multiple(Common, s)) /\ v \in Nat
  BY <1>1, CommonDivides, FairShareAssumption
<1>3. PICK q \in Nat : s # 0 => Common = q * s /\ Common \div s = q
  <2>1. CASE s = 0
    BY <2>1
  <2>2. CASE s # 0
    <3>1. PICK q \in Nat \ {0} : Common = q * s
      BY <1>2, <2>2 DEF multiple
    <3>2. Common \div s = q
      BY <1>1, <2>2, <3>1, Products
    <3> QED BY <3>1, <3>2
  <2> QED BY <2>1, <2>2
<1> DEFINE R(x, unit) ==
      IF SumShares = 0 \/ (s = 0 /\ 0 \in {t, h}) THEN NaN
      ELSE IF s = 0 THEN Cardinality(Cuts) ELSE float(x + v * unit, unit)
<1>4. update_prio(v, usage[1].cpu) =
        R(IF t = 0 THEN 0 ELSE h * SumShares * (Common \div s),
          IF t = 0 THEN 1 ELSE t * Common)
  BY DEF update_prio
<1>5. CASE t = 0
  <2>1. 0 + v * 1 = v
    BY <1>2
  <2>2. update_prio(v, usage[1].cpu) = R(0, 1)
    BY <1>4, <1>5
  <2> HIDE DEF s, h, t, u
  <2> QED BY <1>3, <1>5, <2>1, <2>2 DEF s, h, t, u, IsRank
<1>6. CASE t # 0
  <2>1. s # 0 => update_prio(v, usage[1].cpu) = R(h * SumShares * q, t * Common)
    BY <1>3, <1>4, <1>6
  <2>2. s = 0 => update_prio(v, usage[1].cpu) =
                   R(h * SumShares * (Common \div s), t * Common)
    BY <1>4, <1>6
  <2> HIDE DEF s, h, t, u
  <2> QED BY <1>3, <1>6, <2>1, <2>2 DEF s, h, t, u, IsRank
<1> QED BY <1>5, <1>6

(* The exponent of v in units of 1/(t * Common), when its owner has used h. *)
LEMMA Exponents ==
    ASSUME NEW h \in Int, NEW t \in Int, NEW q \in Nat, NEW v \in VMs
    PROVE  /\ v \in Nat /\ t * Common \in Int
           /\ h * SumShares * q + v * (t * Common) \in Int
<1>1. v \in Nat /\ SumShares \in Int /\ Common \in Int
  BY FairShareAssumption, SumSharesType, CommonDivides
<1>2. \A i, j \in Int : i * j \in Int
  OBVIOUS
<1>3. t * Common \in Int
  BY <1>1, <1>2
<1>4. h * SumShares * q \in Int
  BY <1>1, <1>2
<1>5. v * (t * Common) \in Int
  BY <1>1, <1>2, <1>3
<1> QED BY <1>1, <1>3, <1>4, <1>5

(* A priority is NaN or a natural.                                         *)
LEMMA RankType ==
    ASSUME CpuTyped, NPeriods >= 3, NEW v \in VMs, sections(v) # {}
    PROVE  update_prio(v, usage[1].cpu) \in Nat \cup {NaN}
<1>1. PICK q \in Nat : IsRank(v, q)
  BY Rank
<1> DEFINE h == half_life(usage[user_of(v)].cpu)
           t == half_life(usage[1].cpu)
           x == h * SumShares * q + v * (t * Common)
<1>2. h \in Int /\ t \in Int
  BY HalfLives
<1>3. v \in Nat /\ t * Common \in Int /\ x \in Int
  <2> HIDE DEF h, t
  <2> QED BY <1>2, Exponents
<1>4. float(v, 1) \in Nat /\ Cardinality(Cuts) \in Nat
  BY <1>3, FloatMonotone
<1>5. float(x, t * Common) \in Nat
  <2> HIDE DEF x, t
  <2>1. x <= x
    BY <1>3
  <2> QED BY <1>3, <2>1, FloatMonotone
<1> QED BY <1>1, <1>4, <1>5 DEF IsRank

(* Two numbers in units of 1/c, where c = p * a = q * b.                   *)
LEMMA CommonUnit ==
    ASSUME NEW a \in Nat \ {0}, NEW b \in Nat \ {0}, NEW p \in Nat, NEW q \in Nat,
           NEW c \in Nat \ {0}, c = p * a, c = q * b, NEW g \in Int, NEW h \in Int
    PROVE  (g * p) * (a * b) = (g * b) * c /\ (h * q) * (a * b) = (h * a) * c
<1>1. (g * p) * (a * b) = (g * b) * (p * a)
  OBVIOUS
<1>2. (h * q) * (a * b) = (h * a) * (q * b)
  OBVIOUS
<1> QED BY <1>1, <1>2

(* More arithmetic.                                                        *)
LEMMA Cancel ==
    /\ \A x, y \in Int, c \in Nat \ {0} : x <= y <=> x * c <= y * c
    /\ \A x, y \in Int, c \in Nat \ {0} : x = y <=> x * c = y * c
    /\ \A x, y \in Int, c \in Nat : x <= y => x * c <= y * c
  OBVIOUS

(* BasicPlugin.cc:131-132: who is older and has used no more per share     *)
(* has no later rank: share 0 and the narrowing to float only level ranks. *)
LEMMA RankMonotone ==
    ASSUME CpuTyped, NPeriods >= 3,
           NEW v \in VMs, NEW w \in VMs, sections(v) # {}, sections(w) # {},
           v < w,
           half_life(usage[user_of(v)].cpu) >= 0,
           half_life(usage[user_of(w)].cpu) >= 0,
           half_life(usage[1].cpu) >= 0,
           half_life(usage[user_of(v)].cpu) * share_of(w)
              <= half_life(usage[user_of(w)].cpu) * share_of(v),
           update_prio(v, usage[1].cpu) # NaN, update_prio(w, usage[1].cpu) # NaN
    PROVE  update_prio(v, usage[1].cpu) <= update_prio(w, usage[1].cpu)
<1> DEFINE a == share_of(v)
           b == share_of(w)
           g == half_life(usage[user_of(v)].cpu)
           h == half_life(usage[user_of(w)].cpu)
           t == half_life(usage[1].cpu)
           S == SumShares
           unit == t * Common
           V == update_prio(v, usage[1].cpu)
           W == update_prio(w, usage[1].cpu)
<1>1. PICK p \in Nat : IsRank(v, p)
  BY Rank
<1>2. PICK q \in Nat : IsRank(w, q)
  BY Rank
<1>3. /\ a \in Nat /\ b \in Nat /\ g \in Nat /\ h \in Nat /\ t \in Nat
      /\ S \in Nat /\ Common \in Nat \ {0} /\ v \in Nat /\ w \in Nat
  <2>1. a \in Nat /\ b \in Nat
    BY UserOf DEF share_of
  <2>2. g \in Int /\ h \in Int /\ t \in Int
    BY HalfLives
  <2>3. S \in Nat /\ Common \in Nat \ {0} /\ v \in Nat /\ w \in Nat
    BY SumSharesType, CommonDivides, FairShareAssumption
  <2> QED BY <2>1, <2>2, <2>3
<1> DEFINE x == g * S * p + v * unit
           y == h * S * q + w * unit
<1>4. /\ a # 0 => Common = p * a
      /\ S # 0 /\ ~(a = 0 /\ 0 \in {t, g})
      /\ V = IF a = 0 THEN Cardinality(Cuts)
             ELSE IF t = 0 THEN float(v, 1) ELSE float(x, unit)
  BY <1>1 DEF IsRank, share_of
<1>5. /\ b # 0 => Common = q * b
      /\ S # 0 /\ ~(b = 0 /\ 0 \in {t, h})
      /\ W = IF b = 0 THEN Cardinality(Cuts)
             ELSE IF t = 0 THEN float(w, 1) ELSE float(y, unit)
  BY <1>2 DEF IsRank, share_of
<1>6. g * b <= h * a /\ v < w
  BY DEF share_of
<1>7. V \in Nat
  BY RankType DEF V
<1> SUFFICES V <= W
  OBVIOUS
<1> HIDE DEF a, b, g, h, t, S, V, W
<1>8. unit \in Int /\ x \in Int /\ y \in Int
  BY <1>3, Exponents DEF S
<1>9. a = 0 => b = 0
  <2> SUFFICES ASSUME a = 0, b # 0 PROVE FALSE
    OBVIOUS
  <2>1. g # 0 /\ h * a = 0
    BY <1>3, <1>4
  <2>2. g * b \in Nat \ {0}
    BY <1>3, <2>1, Products
  <2> QED BY <1>6, <2>1, <2>2
<1> DEFINE last == Cardinality(Cuts)
<1>10. CASE b = 0
  <2>1. float(v, 1) <= last /\ last \in Nat
    <3>1. v \in Int /\ v <= v /\ 1 \in Int
      BY <1>3
    <3> QED BY <3>1, FloatMonotone
  <2>2. float(x, unit) <= last
    <3>1. x <= x
      <4> HIDE DEF x
      <4> QED BY <1>8
    <3> HIDE DEF x, unit
    <3> QED BY <1>8, <3>1, FloatMonotone
  <2> HIDE DEF x, unit, last
  <2>3. V <= last
    BY <1>4, <2>1, <2>2 DEF last
  <2> QED BY <1>5, <1>10, <2>3 DEF last
<1>11. CASE t = 0 /\ b # 0
  <2>1. V = float(v, 1) /\ W = float(w, 1)
    <3> HIDE DEF x, y, unit
    <3> QED BY <1>4, <1>5, <1>9, <1>11
  <2>2. v \in Int /\ w \in Int /\ v <= w /\ 1 \in Int
    BY <1>3, <1>6
  <2> QED BY <2>1, <2>2, FloatMonotone
<1>12. CASE t # 0 /\ a # 0 /\ b # 0
  <2>1. /\ (g * p) * (a * b) = (g * b) * Common
        /\ (h * q) * (a * b) = (h * a) * Common
    BY <1>3, <1>4, <1>5, <1>12, CommonUnit
  <2>2. g * p <= h * q
    <3>1. g * p \in Int /\ h * q \in Int /\ g * b \in Int /\ h * a \in Int
          /\ a * b \in Nat \ {0}
      BY <1>3, <1>12, Products
    <3>2. (g * b) * Common <= (h * a) * Common
      BY <1>3, <1>6, <3>1, Cancel
    <3> QED BY <2>1, <3>1, <3>2, Cancel
  <2>3. g * S * p = (g * p) * S /\ h * S * q = (h * q) * S
    BY <1>3, Products
  <2>4. g * S * p <= h * S * q
    <3>1. g * p \in Int /\ h * q \in Int
      BY <1>3
    <3> QED BY <1>3, <2>2, <2>3, <3>1, Cancel
  <2>5. v * unit <= w * unit
    <3>1. unit \in Nat
      BY <1>3, Products
    <3> HIDE DEF unit
    <3> QED BY <1>3, <1>6, <3>1, Cancel
  <2>6. x <= y
    <3>1. g * S * p \in Int /\ h * S * q \in Int
      BY <1>3
    <3>2. v * unit \in Int /\ w * unit \in Int
      <4> HIDE DEF unit
      <4> QED BY <1>3, <1>8
    <3> HIDE DEF unit
    <3> QED BY <2>4, <2>5, <3>1, <3>2
  <2> HIDE DEF x, y, unit
  <2>7. V = float(x, unit) /\ W = float(y, unit)
    BY <1>4, <1>5, <1>12
  <2> QED BY <1>8, <2>6, <2>7, FloatMonotone
<1> QED BY <1>9, <1>10, <1>11, <1>12

(* A cut against an exponent, before and after both are multiplied by p.   *)
LEMMA CutUnit ==
    ASSUME NEW a \in Nat \ {0}, NEW p \in Nat \ {0}, NEW c \in Nat, NEW g \in Int,
           NEW S \in Nat, NEW v \in Nat, NEW t \in Nat, NEW r \in Nat, NEW d,
           d = p * a
    PROVE  c * (t * d) <= (g * S * p + v * (t * d)) * r
             <=> c * (t * a) <= (g * S + v * (t * a)) * r
<1> DEFINE k == t * a
           n == c * k
           m == (g * S + v * k) * r
<1>1. t * d = k * p
  OBVIOUS
<1>2. k \in Nat
  OBVIOUS
<1>3. g * S \in Int
  OBVIOUS
<1>4. n \in Int /\ m \in Int
  <2>1. n \in Int
    <3> HIDE DEF k
    <3> QED BY <1>2
  <2>2. m \in Int
    <3> DEFINE e == g * S
    <3> HIDE DEF k, e
    <3>1. e \in Int
      BY <1>3 DEF e
    <3>2. (e + v * k) * r \in Int
      BY <1>2, <3>1
    <3> QED BY <3>2 DEF e
  <2> QED BY <2>1, <2>2
<1>5. c * (t * d) = n * p
  <2>1. c * (k * p) = (c * k) * p
    <3> HIDE DEF k
    <3> QED BY <1>2
  <2> QED BY <1>1, <2>1
<1>6. (g * S * p + v * (t * d)) * r = m * p
  <2> DEFINE e == g * S
  <2> HIDE DEF e, k
  <2>1. e \in Int
    BY <1>3 DEF e
  <2>2. (e * p + v * (k * p)) * r = ((e + v * k) * r) * p
    BY <1>2, <2>1
  <2> QED BY <1>1, <2>2 DEF e, m
<1>7. n * p <= m * p <=> n <= m
  <2> HIDE DEF n, m
  <2> QED BY <1>4, Cancel
<1> HIDE DEF k
<1> QED BY <1>5, <1>6, <1>7 DEF k

(* Equal ranks are on the same side of every cut.                          *)
LEMMA RankTie ==
    ASSUME CpuTyped, NPeriods >= 3,
           NEW v \in VMs, NEW w \in VMs, sections(v) # {}, sections(w) # {},
           share_of(v) # 0, share_of(w) # 0,
           half_life(usage[user_of(v)].cpu) >= 0,
           half_life(usage[user_of(w)].cpu) >= 0,
           half_life(usage[1].cpu) >= 0,
           same_key(update_prio(w, usage[1].cpu), update_prio(v, usage[1].cpu)),
           SumShares # 0
    PROVE  LET a == share_of(v)
               b == share_of(w)
               g == half_life(usage[user_of(v)].cpu)
               h == half_life(usage[user_of(w)].cpu)
               t == half_life(usage[1].cpu)
           IN  \A c \in Cuts :
                 IF t = 0 THEN c <= v * Res <=> c <= w * Res
                 ELSE c * (t * a) <= (g * SumShares + v * (t * a)) * Res
                        <=> c * (t * b) <= (h * SumShares + w * (t * b)) * Res
<1> DEFINE a == share_of(v)
           b == share_of(w)
           g == half_life(usage[user_of(v)].cpu)
           h == half_life(usage[user_of(w)].cpu)
           t == half_life(usage[1].cpu)
           S == SumShares
           unit == t * Common
           V == update_prio(v, usage[1].cpu)
           W == update_prio(w, usage[1].cpu)
<1>1. PICK p \in Nat : IsRank(v, p)
  BY Rank
<1>2. PICK q \in Nat : IsRank(w, q)
  BY Rank
<1>3. /\ a \in Nat \ {0} /\ b \in Nat \ {0} /\ g \in Nat /\ h \in Nat /\ t \in Nat
      /\ S \in Nat /\ Common \in Nat \ {0} /\ v \in Nat /\ w \in Nat
  <2>1. a \in Nat \ {0} /\ b \in Nat \ {0}
    BY UserOf DEF share_of
  <2>2. g \in Int /\ h \in Int /\ t \in Int
    BY HalfLives
  <2>3. S \in Nat /\ Common \in Nat \ {0} /\ v \in Nat /\ w \in Nat
    BY SumSharesType, CommonDivides, FairShareAssumption
  <2> QED BY <2>1, <2>2, <2>3
<1> DEFINE x == g * S * p + v * unit
           y == h * S * q + w * unit
<1>4. Common = p * a /\ V = IF t = 0 THEN float(v, 1) ELSE float(x, unit)
  BY <1>1 DEF IsRank, share_of
<1>5. Common = q * b /\ W = IF t = 0 THEN float(w, 1) ELSE float(y, unit)
  BY <1>2 DEF IsRank, share_of
<1>6. same_key(W, V)
  OBVIOUS
<1>7. Cuts \subseteq Nat /\ Res \in Nat
  BY FairShareAssumption
<1> SUFFICES ASSUME NEW c \in Cuts
             PROVE  IF t = 0 THEN c <= v * Res <=> c <= w * Res
                    ELSE c * (t * a) <= (g * S + v * (t * a)) * Res
                           <=> c * (t * b) <= (h * S + w * (t * b)) * Res
  OBVIOUS
<1> HIDE DEF a, b, g, h, t, S, V, W
<1>8. unit \in Int /\ x \in Int /\ y \in Int
  BY <1>3, Exponents DEF S
<1>9. p \in Nat \ {0} /\ q \in Nat \ {0}
  BY <1>3, <1>4, <1>5
<1>10. V = W
  <2>1. float(v, 1) \in Nat /\ float(w, 1) \in Nat
    <3>1. v \in Int /\ w \in Int /\ v <= v /\ w <= w /\ 1 \in Int
      BY <1>3
    <3> QED BY <3>1, FloatMonotone
  <2>2. float(x, unit) \in Nat /\ float(y, unit) \in Nat
    <3> HIDE DEF x, y, unit
    <3>1. x <= x /\ y <= y
      BY <1>8
    <3> QED BY <1>8, <3>1, FloatMonotone
  <2>3. V \in Nat /\ W \in Nat
    <3> HIDE DEF x, y, unit
    <3> QED BY <1>4, <1>5, <2>1, <2>2
  <2> QED BY <1>6, <2>3 DEF same_key, NaN
<1>11. CASE t = 0
  <2>1. float(v, 1) = float(w, 1)
    <3> HIDE DEF x, y, unit
    <3> QED BY <1>4, <1>5, <1>10, <1>11
  <2>2. v \in Int /\ w \in Int /\ 1 \in Int
    BY <1>3
  <2>3. c * 1 <= v * Res <=> c * 1 <= w * Res
    BY <2>1, <2>2, FloatCuts
  <2>4. c * 1 = c
    BY <1>7
  <2> QED BY <1>11, <2>3, <2>4
<1>12. CASE t # 0
  <2>1. float(x, unit) = float(y, unit)
    <3> HIDE DEF x, y, unit
    <3> QED BY <1>4, <1>5, <1>10, <1>12
  <2>2. c * unit <= x * Res <=> c * unit <= y * Res
    <3> HIDE DEF x, y, unit
    <3> QED BY <1>8, <2>1, FloatCuts
  <2>3. c \in Nat
    BY <1>7
  <2>4. c * unit <= x * Res <=> c * (t * a) <= (g * S + v * (t * a)) * Res
    BY <1>3, <1>4, <1>7, <1>9, <2>3, CutUnit
  <2>5. c * unit <= y * Res <=> c * (t * b) <= (h * S + w * (t * b)) * Res
    BY <1>3, <1>5, <1>7, <1>9, <2>3, CutUnit
  <2> HIDE DEF x, y, unit
  <2> QED BY <1>12, <2>2, <2>4, <2>5
<1> QED BY <1>11, <1>12
-----------------------------------------------------------------------------
(* So the half-life usage is never negative.                               *)
LEMMA HalfLifeNat ==
    ASSUME NPeriods >= 3, NEW uid, timestamp \in Nat
    PROVE  /\ exact(uid).cpu \in [Entries -> Nat]
           /\ half_life(exact(uid).cpu) >= 0
<1> DEFINE from == timestamp - Period * (NPeriods + 1)
           to(k) == timestamp - k * Period
           e == [k \in Entries |-> entry(uid, Cpu, timestamp, k) \div 4]
<1>1. exact(uid).cpu = e
  BY DEF exact
<1>2. Period \in Nat /\ NPeriods \in Nat /\ Entries = 0 .. NPeriods
      /\ \A v \in VMs : Cpu[v] \in Nat
  BY FairShareAssumption DEF Entries
<1>3. from \in Int
  BY <1>2
<1>4. ASSUME NEW k \in Nat
      PROVE  /\ entry(uid, Cpu, timestamp, k) \in Nat
             /\ entry(uid, Cpu, timestamp, k + 1) \in Nat
             /\ entry(uid, Cpu, timestamp, k + 1) <= entry(uid, Cpu, timestamp, k)
  <2>1. to(k) \in Int /\ to(k + 1) \in Int /\ to(k + 1) <= to(k)
    <3>1. (k + 1) * Period = k * Period + Period /\ k * Period \in Nat
      BY <1>2
    <3> QED BY <1>2, <3>1
  <2> HIDE DEF from, to
  <2>2. /\ consumed(uid, Cpu, from, to(k + 1)) \in Nat
        /\ consumed(uid, Cpu, from, to(k)) \in Nat
        /\ consumed(uid, Cpu, from, to(k + 1)) <= consumed(uid, Cpu, from, to(k))
    BY <1>2, <1>3, <2>1, ConsumedMonotone
  <2> QED BY <2>2 DEF entry, from, to
<1>5. \A a, b \in Nat : a <= b =>
        a \div 4 \in Nat /\ b \div 4 \in Nat /\ a \div 4 <= b \div 4
  OBVIOUS
<1>6. ASSUME NEW k \in Entries PROVE e[k] \in Nat
  <2>1. k \in Nat
    BY <1>2
  <2>2. entry(uid, Cpu, timestamp, k) \in Nat
    BY <1>4, <2>1
  <2>3. entry(uid, Cpu, timestamp, k) \div 4 \in Nat
    BY <2>2
  <2> QED BY <2>3
<1>7. ASSUME NEW k \in Nat, k + 1 \in Entries
      PROVE  k \in Entries /\ e[k + 1] <= e[k]
  <2>1. k \in Entries
    BY <1>2, <1>7
  <2> DEFINE a == entry(uid, Cpu, timestamp, k)
             b == entry(uid, Cpu, timestamp, k + 1)
  <2>2. a \in Nat /\ b \in Nat /\ b <= a
    BY <1>4
  <2>3. e[k] = a \div 4 /\ e[k + 1] = b \div 4
    BY <1>7, <2>1
  <2> HIDE DEF a, b, e
  <2>4. b \div 4 <= a \div 4
    BY <2>2
  <2> QED BY <2>1, <2>3, <2>4
<1>8. /\ 0 \in Entries /\ 1 \in Entries /\ 2 \in Entries /\ 3 \in Entries
      /\ 0 + 1 = 1 /\ 1 + 1 = 2 /\ 2 + 1 = 3
  BY <1>2
<1>9. e \in [Entries -> Nat]
  <2>1. \A k \in Entries : entry(uid, Cpu, timestamp, k) \div 4 \in Nat
    BY <1>6
  <2> QED BY <2>1
<1> HIDE DEF e
<1>10. e[1] <= e[0] /\ e[2] <= e[1] /\ e[3] <= e[2]
  BY <1>7, <1>8
<1>11. e[0] \in Nat /\ e[1] \in Nat /\ e[2] \in Nat /\ e[3] \in Nat
  BY <1>6, <1>8
<1>12. half_life(e) >= 0
  BY <1>10, <1>11 DEF half_life
<1> QED BY <1>1, <1>9, <1>12
-----------------------------------------------------------------------------
(* What the map is after do_prioritize: P is what each VM got.             *)
Filled(P) ==
    /\ \A v \in pm_objects :
          /\ P[v] \in Int
          /\ PluginDebug /\ ~undefined(v) => P[v] = update_prio(v, usage[1].cpu)
    /\ IsMap(priorities, P, pm_objects)
    /\ \A v \in pm_objects : \E e \in priorities : same_key(e[1], P[v])

(* do_prioritize fills the map, or dies of an undefined iterator.          *)
LEMMA Prioritized ==
    ASSUME do_prioritize, CpuTyped, priorities = {}, pm_objects \subseteq VMs
    PROVE  \/ pc' = "crashed" /\ priorities' = {}
           \/ pc' = "make_queue" /\ \E P : Filled(P)'
<1> DEFINE S == pm_objects
           total == evaluate_total_usage
           wild == {v \in pm_objects : undefined(v)}
           ids == in_order(pm_objects, <)
<1>1. S \in SUBSET Int /\ IsFiniteSet(S) /\ VMs \subseteq Nat /\ IsFiniteSet(VMs)
  <2>1. VMs \subseteq Nat /\ IsFiniteSet(VMs)
    BY FairShareAssumption
  <2>2. S \in SUBSET VMs /\ S \in SUBSET Int
    BY <2>1
  <2>3. IsFiniteSet(S)
    BY <2>1, <2>2, FS_Subset
  <2> QED BY <2>1, <2>2, <2>3
<1>2. increases(ids, S)
  <2> HIDE DEF S
  <2> QED BY <1>1, IdsInOrder DEF S
<1>3. total = usage[1].cpu
  BY TotalIsFirst DEF CpuTyped
<1>4. CASE wild # {} /\ goto("crashed") /\ UNCHANGED priorities
  BY <1>4 DEF goto
<1> DEFINE prio(junk, v) == IF v \in wild THEN junk[v]
                            ELSE IF PluginDebug THEN update_prio(v, total)
                            ELSE invert(v)
<1>5. ASSUME NEW junk \in [wild -> Junk],
             priorities' = FoldLeft(insert, priorities,
                  [n \in DOMAIN ids |-> <<prio(junk, ids[n]), ids[n]>>]),
             goto("make_queue")
      PROVE  pc' = "make_queue" /\ \E P : Filled(P)'
  <2> DEFINE P == [v \in S |-> prio(junk, v)]
  <2>1. ASSUME NEW v \in S PROVE P[v] \in Int
    <3>1. CASE v \in wild
      <4>1. junk[v] \in Junk
        BY <3>1
      <4> QED BY <3>1, <4>1, FairShareAssumption
    <3>2. CASE v \notin wild /\ PluginDebug
      <4>1. sections(v) # {} /\ ~(NPeriods < 3) /\ NPeriods \in Nat /\ v \in VMs
        BY <3>2, FairShareAssumption DEF undefined
      <4>2. update_prio(v, usage[1].cpu) \in Int
        BY <4>1, RankType DEF NaN
      <4> QED BY <1>3, <3>2, <4>2
    <3>3. CASE v \notin wild /\ ~PluginDebug
      <4>1. VMs # {} /\ VMs \in SUBSET Int
        BY <1>1
      <4>2. Max(VMs) \in VMs
        BY <1>1, <4>1, MaxFinite
      <4>3. Max(VMs) \in Int /\ v \in Int
        BY <4>1, <4>2
      <4>4. invert(v) \in Int
        BY <4>3 DEF invert
      <4> QED BY <3>3, <4>4
    <3> QED BY <3>1, <3>2, <3>3
  <2>2. ASSUME NEW v \in S, PluginDebug, ~undefined(v)
        PROVE  P[v] = update_prio(v, usage[1].cpu)
    BY <1>3, <2>2
  <2>3. [n \in DOMAIN ids |-> <<prio(junk, ids[n]), ids[n]>>]
          = [n \in DOMAIN ids |-> <<P[ids[n]], ids[n]>>]
    <3>1. \A n \in DOMAIN ids : ids[n] \in S
      BY <1>2 DEF increases
    <3> HIDE DEF ids
    <3>2. \A n \in DOMAIN ids : P[ids[n]] = prio(junk, ids[n])
      BY <3>1
    <3> HIDE DEF prio, P
    <3> QED BY <3>2
  <2>4. priorities' = FoldLeft(insert, {}, [n \in DOMAIN ids |-> <<P[ids[n]], ids[n]>>])
    <3> HIDE DEF ids, P, prio
    <3> QED BY <1>5, <2>3
  <2> HIDE DEF P, S, ids
  <2>5. PICK Q : Q = P
    OBVIOUS
  <2>6. PICK M : /\ IsMap(M, P, S)
                 /\ \A v \in S : \E e \in M : same_key(e[1], P[v])
                 /\ FoldLeft(insert, {}, [n \in DOMAIN ids |-> <<P[ids[n]], ids[n]>>]) = M
    BY <1>1, <1>2, InsertAll
  <2>7. priorities' = M /\ pc' = "make_queue"
    BY <1>5, <2>4, <2>6 DEF goto
  <2>8. UNCHANGED <<pm_objects, usage>>
    BY DEF do_prioritize
  <2>9. /\ \A v \in pm_objects' : Q[v] \in Int
        /\ \A v \in pm_objects' :
             PluginDebug /\ ~undefined(v) => Q[v] = update_prio(v, usage[1].cpu)'
    <3>1. \A v : update_prio(v, usage[1].cpu)' = update_prio(v, usage[1].cpu)
      BY <2>8 DEF update_prio
    <3> QED BY <2>1, <2>2, <2>8, <2>5, <3>1 DEF S
  <2>10. IsMap(M, Q, S) /\ \A v \in S : \E e \in M : same_key(e[1], Q[v])
    BY <2>6, <2>5
  <2>11. Filled(Q)'
    BY <2>7, <2>8, <2>9, <2>10 DEF Filled, S
  <2> QED BY <2>7, <2>11
<1>6. \/ \E junk \in [wild -> Junk] :
            /\ priorities' = FoldLeft(insert, priorities,
                  [n \in DOMAIN ids |-> <<prio(junk, ids[n]), ids[n]>>])
            /\ goto("make_queue")
      \/ wild # {} /\ goto("crashed") /\ UNCHANGED priorities
  BY DEF do_prioritize
<1> QED BY <1>4, <1>5, <1>6

(* make_queue takes the VMs out of the map by rank.                        *)
LEMMA Queued ==
    ASSUME make_queue, NEW P, Filled(P), pm_objects \subseteq VMs
    PROVE  \E s \in [1 .. Cardinality(priorities) -> priorities] :
              /\ \A i, j \in 1 .. Cardinality(priorities) : i < j => s[i][1] < s[j][1]
              /\ queue' = [n \in 1 .. Cardinality(priorities) |-> s[n][2]]
<1> DEFINE M == priorities
           key == [e \in M |-> e[1]]
           N == Cardinality(M)
<1>1. IsFiniteSet(M)
  <2>1. IsFiniteSet(pm_objects)
    BY FairShareAssumption, FS_Subset
  <2> DEFINE pairs == {<<P[v], v>> : v \in pm_objects}
             pair == [v \in pm_objects |-> <<P[v], v>>]
  <2>2. pair \in Surjection(pm_objects, pairs)
    BY DEF Surjection
  <2>3. M \subseteq pairs
    BY DEF Filled, IsMap
  <2> HIDE DEF pair, pairs, M
  <2> QED BY <2>1, <2>2, <2>3, FS_Surjection, FS_Subset
<1>2. \A e \in M : key[e] \in Int
  BY DEF Filled, IsMap
<1>3. \A e, f \in M : key[e] = key[f] => e = f
  BY DEF Filled, IsMap, same_key
<1>4. \E s \in [1 .. N -> M] : \A i, j \in 1 .. N : i < j => key[s[i]] < key[s[j]]
  <2> HIDE DEF key, M
  <2> QED BY <1>1, <1>2, <1>3, Sortable
<1>5. \E s \in [1 .. N -> M] : \A i, j \in 1 .. N : i < j => before(s[i], s[j])
  <2>1. PICK s \in [1 .. N -> M] : \A i, j \in 1 .. N : i < j => key[s[i]] < key[s[j]]
    BY <1>4
  <2>2. \A i \in 1 .. N : key[s[i]] = s[i][1]
    OBVIOUS
  <2> HIDE DEF key, N, M
  <2> QED BY <2>1, <2>2 DEF before
<1>6. PICK s \in [1 .. N -> M] :
        /\ \A i, j \in 1 .. N : i < j => before(s[i], s[j])
        /\ s = in_order(M, before)
  BY <1>5 DEF in_order
<1>7. queue' = [n \in DOMAIN s |-> s[n][2]]
  BY <1>6 DEF make_queue
<1> QED BY <1>6, <1>7 DEF before
-----------------------------------------------------------------------------
(* Types: the records of a user are records of VMs.                        *)
PoolOK == \A uid \in DOMAIN pool :
             /\ IsFiniteSet(pool[uid])
             /\ pool[uid] \subseteq [vm : VMs, start : Nat, stop : Nat]

(* Types: sums, after the first pass.                                      *)
UsageOK ==
    /\ \A i \in UserList : {usage[i].cpu, usage[i].memory} \subseteq Sums
    /\ pc \in Evaluated => CpuTyped

(* The map is filled between do_prioritize and make_queue, and empty       *)
(* else.                                                                   *)
Scheduled ==
    /\ pc = "make_queue" => \E P : Filled(P)
    /\ pc # "make_queue" => priorities = {}

(* Types: the two lists of VMs.                                            *)
VMsOK == pm_objects \subseteq VMs /\ Range(queue) \subseteq VMs

(* Types: the server and the answer on its way.                            *)
ServerOK == server \in {"up", "down"} /\ exists \in BOOLEAN /\ answer \in Statuses

(* The invariant behind TypeOK.                                            *)
Typed ==
    /\ HistoryOK /\ TimeOK /\ clock <= End /\ pc \in Labels
    /\ PoolOK /\ UsageOK /\ Scheduled /\ VMsOK /\ ServerOK

(* A sum over records is a natural.                                        *)
LEMMA SumType ==
    ASSUME PoolOK, timestamp \in Nat, NEW uid, NEW weight,
           \A v \in VMs : weight[v] \in Nat, NEW k \in Entries
    PROVE  sum(uid, weight, k) \in Nat
<1> DEFINE R == get(uid)
           f == [r \in R |-> weight[r.vm] * seconds(r, k)]
<1>1. IsFiniteSet(R) /\ R \subseteq [vm : VMs, start : Nat, stop : Nat]
  BY FS_EmptySet DEF PoolOK, get
<1>2. ASSUME NEW r \in R PROVE f[r] \in Nat
  <2>1. r \in [vm : VMs, start : Int, stop : Int] /\ r.vm \in VMs
    BY <1>1
  <2>2. seconds(r, k) \in Nat /\ weight[r.vm] \in Nat
    BY <2>1, SecondsExact
  <2> QED BY <2>2
<1>3. SumFunctionOnSet(f, R) \in Nat
  <2> HIDE DEF f, R
  <2> QED BY <1>1, <1>2, SumNat
<1> QED BY <1>3 DEF sum, SumFunction

(* The pool and the sums.                                                  *)
LEMMA UsageStep ==
    ASSUME Typed, [Next]_vars
    PROVE  PoolOK' /\ UsageOK'
<1>1. CASE restart
  <2>1. pool' = <<>> /\ usage' = NoUsage /\ pc' = "ping"
    BY <1>1 DEF restart
  <2>2. PoolOK'
    BY <2>1 DEF PoolOK
  <2>3. \A i \in UserList : usage'[i].cpu = <<>> /\ usage'[i].memory = <<>>
    BY <2>1 DEF NoUsage
  <2> QED BY <2>1, <2>2, <2>3 DEF UsageOK, Sums, Evaluated
<1>2. CASE set_up
  <2>1. usage' = usage /\ pc' = "eval_usage"
    BY <1>2 DEF set_up, goto
  <2>2. IsFiniteSet(history) /\ history \subseteq [vm : VMs, start : Nat, stop : Nat]
    BY DEF Typed, HistoryOK
  <2>3. \A uid : records_of(uid) \subseteq history /\ IsFiniteSet(records_of(uid))
    <3>1. \A uid : records_of(uid) \in SUBSET history
      BY DEF records_of, accounting
    <3> QED BY <2>2, <3>1, FS_Subset
  <2>4. \/ pool' = <<>>
        \/ pool' = [uid \in {u \in {Shares[j].uid : j \in UserList} :
                              records_of(u) # {}} |-> records_of(uid)]
    BY <1>2 DEF set_up, records_of
  <2>5. PoolOK'
    BY <2>2, <2>3, <2>4 DEF PoolOK
  <2> QED BY <2>1, <2>5 DEF Typed, UsageOK, Evaluated
<1>3. CASE eval_usage
  <2>1. ASSUME NEW i \in UserList, NEW k \in Entries
        PROVE  /\ sum(Shares[i].uid, Cpu, k) \div 4 \in Nat
               /\ sum(Shares[i].uid, Memory, k) \in Nat
    <3>1. PoolOK /\ timestamp \in Nat
      BY DEF Typed, TimeOK
    <3>2. \A v \in VMs : Cpu[v] \in Nat /\ Memory[v] \in Nat
      BY FairShareAssumption
    <3>3. /\ sum(Shares[i].uid, Cpu, k) \in Nat
          /\ sum(Shares[i].uid, Memory, k) \in Nat
      BY <3>1, <3>2, SumType
    <3> QED BY <3>3
  <2>2. PICK d \in distances :
          usage' = [i \in UserList |->
            [cpu |-> [k \in Entries |-> sum(Shares[i].uid, Cpu, k) \div 4
                                         + strayed(Shares[i].uid, Memory, k - d, d)],
             memory |-> [k \in Entries |-> sum(Shares[i].uid, Memory, k)
                                         + strayed(Shares[i].uid, Cpu, k + d, d) \div 4]]]
    BY <1>3 DEF eval_usage
  <2>3. ASSUME NEW i \in UserList
        PROVE  usage'[i].cpu \in [Entries -> Nat] /\ usage'[i].memory \in [Entries -> Nat]
    <3>1. /\ PoolOK /\ timestamp \in Nat
          /\ \A v \in VMs : Cpu[v] \in Nat /\ Memory[v] \in Nat
      BY FairShareAssumption DEF Typed, TimeOK
    <3>2. ASSUME NEW k
          PROVE  /\ strayed(Shares[i].uid, Memory, k, d) \in Nat
                 /\ strayed(Shares[i].uid, Cpu, k, d) \in Nat
      BY <3>1, SumType DEF strayed
    <3>3. \A n \in Nat : n \div 4 \in Nat
      OBVIOUS
    <3>4. ASSUME NEW k \in Entries
          PROVE  /\ sum(Shares[i].uid, Cpu, k) \div 4
                      + strayed(Shares[i].uid, Memory, k - d, d) \in Nat
                 /\ sum(Shares[i].uid, Memory, k)
                      + strayed(Shares[i].uid, Cpu, k + d, d) \div 4 \in Nat
      <4>1. /\ sum(Shares[i].uid, Cpu, k) \div 4 \in Nat
            /\ sum(Shares[i].uid, Memory, k) \in Nat
        BY <2>1
      <4>2. strayed(Shares[i].uid, Cpu, k + d, d) \div 4 \in Nat
        BY <3>2, <3>3
      <4>3. strayed(Shares[i].uid, Memory, k - d, d) \in Nat
        BY <3>2
      <4> QED BY <4>1, <4>2, <4>3
    <3> QED BY <2>2, <3>4
  <2>4. pool' = pool
    BY <1>3 DEF eval_usage
  <2> QED BY <2>3, <2>4 DEF Typed, PoolOK, UsageOK, CpuTyped, Sums
<1>4. CASE ~restart /\ ~set_up /\ ~eval_usage
  <2>1. /\ UNCHANGED <<pool, usage>>
        /\ pc' \in Evaluated => pc \in Evaluated
    BY <1>4, OtherSteps
  <2> QED BY <2>1 DEF Typed, PoolOK, UsageOK, CpuTyped
<1> QED BY <1>1, <1>2, <1>3, <1>4

(* The steps that have nothing to do with the map and the queue.           *)
LEMMA QueueUntouched ==
    ASSUME [Next]_vars, ~restart, ~do_prioritize, ~make_queue
    PROVE  /\ UNCHANGED <<priorities, queue>>
           /\ pc' = "make_queue" =>
                 pc = "make_queue" /\ UNCHANGED <<usage, pm_objects>>
           /\ UNCHANGED pm_objects \/ pm_objects' \subseteq VMs
           /\ pc = "make_queue" => pc' = "make_queue"
<1> DEFINE Goal == /\ UNCHANGED <<priorities, queue>>
                   /\ pc' = "make_queue" =>
                        pc = "make_queue" /\ UNCHANGED <<usage, pm_objects>>
                   /\ UNCHANGED pm_objects \/ pm_objects' \subseteq VMs
                   /\ pc = "make_queue" => pc' = "make_queue"
<1> USE DEF at, goto
<1>1. CASE UNCHANGED <<pc, pass_vars>>
  BY <1>1 DEF pass_vars
<1>2. CASE init_db /\ UNCHANGED pass_vars
  BY <1>2 DEF init_db, pass_vars
<1>3. CASE calculate_initial_shares
  BY <1>3 DEF calculate_initial_shares, writes, each_user, pass_vars
<1>4. CASE get_pending
  BY <1>4 DEF get_pending
<1>5. CASE take_timestamp \/ set_up \/ eval_usage
  BY <1>5 DEF take_timestamp, set_up, eval_usage
<1>6. CASE write_usage
  BY <1>6 DEF write_usage, writes, each_user, pass_vars
<1>7. CASE daemon
  BY <1>2, <1>3, <1>4, <1>5, <1>6, <1>7 DEF daemon, pass, historical_usage
<1>8. daemon \/ UNCHANGED <<pc, pass_vars>>
  BY DEF Next, vars
<1> QED BY <1>1, <1>7, <1>8

(* The map and the queue.                                                  *)
LEMMA QueueStep ==
    ASSUME Typed, [Next]_vars
    PROVE  Scheduled' /\ VMsOK'
<1>1. CASE restart
  BY <1>1 DEF restart, Scheduled, VMsOK, Range
<1>2. CASE do_prioritize
  <2>1. CpuTyped /\ priorities = {} /\ VMsOK
    BY <1>2 DEF do_prioritize, at, Typed, UsageOK, Scheduled, Evaluated
  <2>2. \/ pc' = "crashed" /\ priorities' = {}
        \/ pc' = "make_queue" /\ \E P : Filled(P)'
    BY <1>2, <2>1, Prioritized DEF VMsOK
  <2>3. UNCHANGED <<pm_objects, queue>>
    BY <1>2 DEF do_prioritize
  <2>4. Scheduled'
    BY <2>2 DEF Scheduled
  <2> QED BY <2>1, <2>3, <2>4 DEF VMsOK
<1>3. CASE make_queue
  <2>1. VMsOK /\ \E P : Filled(P)
    BY <1>3 DEF make_queue, at, Typed, Scheduled
  <2>2. PICK P : Filled(P)
    BY <2>1
  <2>3. PICK s \in [1 .. Cardinality(priorities) -> priorities] :
           queue' = [n \in 1 .. Cardinality(priorities) |-> s[n][2]]
    BY <1>3, <2>1, <2>2, Queued DEF VMsOK
  <2>4. \A e \in priorities : e[2] \in VMs
    BY <2>1, <2>2 DEF Filled, IsMap, VMsOK
  <2>5. Range(queue') \subseteq VMs
    BY <2>3, <2>4 DEF Range
  <2>6. pm_objects' = pm_objects /\ priorities' = {} /\ pc' = "get_pending"
    BY <1>3 DEF make_queue, goto
  <2>7. Scheduled'
    BY <2>6 DEF Scheduled
  <2> QED BY <2>1, <2>5, <2>6, <2>7 DEF VMsOK
<1>4. CASE ~restart /\ ~do_prioritize /\ ~make_queue
  <2>1. /\ UNCHANGED <<priorities, queue>>
        /\ pc' = "make_queue" =>
              pc = "make_queue" /\ UNCHANGED <<usage, pm_objects>>
        /\ UNCHANGED pm_objects \/ pm_objects' \subseteq VMs
        /\ pc = "make_queue" => pc' = "make_queue"
    BY <1>4, QueueUntouched
  <2>2. VMsOK'
    BY <2>1 DEF Typed, VMsOK
  <2>3. ASSUME pc' = "make_queue" PROVE \E P : Filled(P)'
    <3>1. PICK P : Filled(P)
      BY <2>1, <2>3 DEF Typed, Scheduled
    <3>2. Filled(P)'
      <4>1. UNCHANGED <<priorities, usage, pm_objects>>
        BY <2>1, <2>3
      <4>2. \A v : update_prio(v, usage[1].cpu)' = update_prio(v, usage[1].cpu)
        BY <4>1 DEF update_prio
      <4> QED BY <3>1, <4>1, <4>2 DEF Filled, IsMap
    <3> QED BY <3>2
  <2>4. pc' # "make_queue" => priorities' = {}
    BY <2>1 DEF Typed, Scheduled
  <2> QED BY <2>2, <2>3, <2>4 DEF Scheduled
<1> QED BY <1>1, <1>2, <1>3, <1>4

(* The labels and the bound of the clock.                                  *)
LEMMA LabelStep ==
    ASSUME Typed, [Next]_vars
    PROVE  pc' \in Labels /\ clock' <= End
<1>1. pc \in Labels /\ clock \in Nat /\ clock <= End /\ End \in Nat
  BY FairShareAssumption DEF Typed, HistoryOK
<1>2. clock' <= End
  <2>1. clock' = clock \/ (clock < End /\ clock' = clock + 1)
    BY DEF Next, vars, cloud_vars, environment, tick, instantiate, deploy,
           terminate, undeploy, leave, becomes
  <2> QED BY <1>1, <2>1
<1>3. pc' \in Labels
  <2> USE DEF Labels, goto
  <2>1. CASE daemon
    <3>1. CASE init_db
      BY <1>1, <3>1 DEF init_db
    <3>2. CASE calculate_initial_shares
      BY <1>1, <3>2 DEF calculate_initial_shares, writes, each_user
    <3>3. CASE write_usage
      BY <1>1, <3>3 DEF write_usage, writes, each_user
    <3>4. CASE get_pending \/ take_timestamp \/ set_up \/ eval_usage
      BY <3>4 DEF get_pending, take_timestamp, set_up, eval_usage
    <3>5. CASE do_prioritize \/ make_queue
      BY <3>5 DEF do_prioritize, make_queue
    <3> QED BY <2>1, <3>1, <3>2, <3>3, <3>4, <3>5 DEF daemon, pass, historical_usage
  <2>2. CASE ~daemon
    BY <1>1, <2>2 DEF Next, restart, vars
  <2> QED BY <2>1, <2>2
<1> QED BY <1>2, <1>3

(* The server.                                                             *)
LEMMA ServerStep ==
    ASSUME ServerOK, [Next]_vars
    PROVE  ServerOK'
<1> USE DEF ServerOK, Statuses
<1>1. CASE UNCHANGED db_vars
  BY <1>1 DEF db_vars
<1>2. CASE init_db
  BY <1>2 DEF init_db, sent, executes_ping, executes_create, ping_db, create_db,
              query_returns
<1>3. ASSUME NEW p, NEW ACTION F, writes(p, F) PROVE ServerOK'
  BY <1>3 DEF writes, sent, executes_write, write, query_returns
<1>4. CASE calculate_initial_shares
  <2>1. CASE UNCHANGED db_vars
    BY <1>1, <2>1
  <2>2. CASE writes(share_point, each_user("write_shares", "get_pending"))
    BY <1>3, <2>2
  <2> QED BY <1>4, <2>1, <2>2 DEF calculate_initial_shares, db_vars
<1>5. CASE write_usage
  <2>1. CASE writes(usage_point("h_cpu"), goto("write_memory"))
    BY <1>3, <2>1
  <2>2. CASE writes(usage_point("h_memory"), each_user("write_cpu", "prioritize"))
    BY <1>3, <2>2
  <2> QED BY <1>5, <2>1, <2>2 DEF write_usage
<1>6. CASE pass
  <2>1. write_usage \/ UNCHANGED db_vars
    BY <1>6 DEF pass, historical_usage, get_pending, take_timestamp, set_up,
                eval_usage, do_prioritize, make_queue, db_vars
  <2> QED BY <1>1, <1>5, <2>1
<1>7. CASE restart
  BY <1>7 DEF restart
<1>8. CASE server_fails
  BY <1>8 DEF server_fails
<1> QED BY <1>1, <1>2, <1>4, <1>6, <1>7, <1>8 DEF Next, daemon, vars

(* The types at the start.                                                 *)
LEMMA TypedInit == Init => Typed
<1> SUFFICES ASSUME Init PROVE Typed
  OBVIOUS
<1>1. HistoryOK
  BY HistoryInit
<1>2. TimeOK /\ clock <= End /\ pc \in Labels
  BY <1>1, FairShareAssumption DEF Init, TimeOK, HistoryOK, UserList, Labels
<1>3. PoolOK /\ Scheduled /\ VMsOK
  BY DEF Init, PoolOK, Scheduled, VMsOK, Range
<1>4. UsageOK
  <2>1. \A i \in UserList : usage[i].cpu = <<>> /\ usage[i].memory = <<>>
    BY DEF Init, NoUsage
  <2> QED BY <2>1 DEF Init, UsageOK, Sums, Evaluated
<1>5. ServerOK
  BY DEF Init, DbInit, ServerOK, Statuses
<1> QED BY <1>1, <1>2, <1>3, <1>4, <1>5 DEF Typed

(* Every step keeps the types.                                             *)
LEMMA TypedStep == Typed /\ [Next]_vars => Typed'
<1> SUFFICES ASSUME Typed, [Next]_vars PROVE Typed'
  OBVIOUS
<1>1. HistoryOK' /\ TimeOK'
  BY HistoryStep, TimeStep DEF Typed
<1>2. clock' <= End /\ pc' \in Labels
  BY LabelStep
<1>3. ServerOK'
  BY ServerStep DEF Typed
<1> QED BY <1>1, <1>2, <1>3, UsageStep, QueueStep DEF Typed

(* The pass has the types its steps assume, whatever fails and whatever    *)
(* an undefined priority may be: also with n_periods too small or too      *)
(* great, VMs of strangers, and shares of 0.                               *)
THEOREM TypeCorrect == Spec => []TypeOK
<1>1. Typed => TypeOK
  <2> SUFFICES ASSUME Typed PROVE TypeOK
    OBVIOUS
  <2>1. clock \in Start .. End /\ timestamp \in 0 .. End
    BY FairShareAssumption DEF Typed, HistoryOK, TimeOK
  <2>2. ASSUME NEW r \in history
        PROVE  r.vm \in VMs /\ {r.start, r.stop} \subseteq 0 .. End
    <3>1. /\ r \in [vm : VMs, start : Nat, stop : Nat] /\ clock \in Nat
          /\ r.start <= clock /\ (r.stop # 0 => r.stop <= clock)
          /\ clock <= End /\ End \in Nat
      BY FairShareAssumption DEF Typed, HistoryOK
    <3> QED BY <3>1
  <2>3. vm \in [VMs -> {"none", "pending", "running", "gone"}] /\ user \in UserList
    BY DEF Typed, HistoryOK, TimeOK
  <2> QED BY <2>1, <2>2, <2>3 DEF TypeOK, Typed, UsageOK, VMsOK, ServerOK
<1> QED BY <1>1, TypedInit, TypedStep, PTL DEF Spec
-----------------------------------------------------------------------------
(* What the order of the queue rests on: polls succeed, the algorithm is   *)
(* the real one and finds the four sums it reads, which is as many as      *)
(* AcctPool has room for. Shares may be 0.                                 *)
Served == /\ ~PollFails /\ PluginDebug /\ NPeriods = 3
          /\ \A v \in VMs : sections(v) # {}

(* The invariant behind the order.                                         *)
Passing == Typed /\ Accounted

(* It holds at the start.                                                  *)
LEMMA PassingInit == Init => Passing
  BY TypedInit, AccountedInit DEF Passing

(* Every step keeps it.                                                    *)
LEMMA PassingStep == NPeriods = 3 /\ Passing /\ [Next]_vars => Passing'
  BY TypedStep, AccountedStep DEF Passing

(* The sums that the priorities are made of are the usage at the           *)
(* timestamp.                                                              *)
LEMMA UsedIs ==
    ASSUME Served, Passing, pc \in Evaluated
    PROVE  /\ CpuTyped
           /\ half_life(usage[1].cpu) = total_used /\ half_life(usage[1].cpu) >= 0
           /\ \A v \in VMs : /\ half_life(usage[user_of(v)].cpu) = used(v)
                             /\ half_life(usage[user_of(v)].cpu) >= 0
<1>1. timestamp \in Nat /\ NPeriods >= 3 /\ CpuTyped
  BY DEF Passing, Typed, TimeOK, UsageOK, Served
<1>2. \A i \in UserList : usage[i] = exact(Shares[i].uid)
  BY DEF Passing, Accounted, PassOK, Served
<1>3. \A uid : half_life(exact(uid).cpu) >= 0
  BY <1>1, HalfLifeNat
<1>4. /\ half_life(exact(Shares[1].uid).cpu) = total_used
      /\ \A v : half_life(exact(Owner[v]).cpu) = used(v)
  BY DEF total_used, used, exact
<1>5. 1 \in UserList
  BY SharesType
<1>6. \A v \in VMs : user_of(v) \in UserList /\ Shares[user_of(v)].uid = Owner[v]
  BY UserOf DEF Served
<1>7. half_life(usage[1].cpu) = total_used /\ half_life(usage[1].cpu) >= 0
  BY <1>2, <1>3, <1>4, <1>5
<1>8. ASSUME NEW v \in VMs
      PROVE  /\ half_life(usage[user_of(v)].cpu) = used(v)
             /\ half_life(usage[user_of(v)].cpu) >= 0
  BY <1>2, <1>3, <1>4, <1>6
<1> QED BY <1>1, <1>7, <1>8

(* A step that publishes another queue publishes a fair one.               *)
LEMMA FairStep ==
    ASSUME Served, Passing, [Next]_vars, queue' # queue,
           NEW m \in DOMAIN queue', NEW n \in DOMAIN queue',
           queue'[m] < queue'[n],
           used(queue'[m]) * share_of(queue'[n]) <= used(queue'[n]) * share_of(queue'[m])
    PROVE  m < n
<1>1. CASE restart
  BY <1>1 DEF restart
<1>2. CASE do_prioritize
  BY <1>2 DEF do_prioritize
<1>3. CASE make_queue
  <2>1. pc = "make_queue" /\ pc \in Evaluated /\ pm_objects \subseteq VMs
    BY <1>3 DEF make_queue, at, Evaluated, Passing, Typed, VMsOK
  <2>2. PICK P : Filled(P)
    BY <2>1 DEF Passing, Typed, Scheduled
  <2> DEFINE N == Cardinality(priorities)
             v == queue'[m]
             w == queue'[n]
  <2>3. PICK s \in [1 .. N -> priorities] :
           /\ \A i, j \in 1 .. N : i < j => s[i][1] < s[j][1]
           /\ queue' = [i \in 1 .. N |-> s[i][2]]
    BY <1>3, <2>1, <2>2, Queued
  <2>4. m \in 1 .. N /\ n \in 1 .. N /\ v = s[m][2] /\ w = s[n][2]
        /\ s[m] \in priorities /\ s[n] \in priorities
    BY <2>3
  <2>5. ASSUME NEW e \in priorities
        PROVE  e[2] \in VMs /\ e[1] = update_prio(e[2], usage[1].cpu) /\ e[1] \in Int
    <3>1. e[2] \in pm_objects /\ e[1] = P[e[2]]
      BY <2>2 DEF Filled, IsMap
    <3>2. ~undefined(e[2]) /\ PluginDebug
      <4>1. ~(NPeriods < 3)
        BY FairShareAssumption DEF Served
      <4> QED BY <2>1, <3>1, <4>1 DEF undefined, Served
    <3> QED BY <2>1, <2>2, <3>1, <3>2 DEF Filled
  <2>6. /\ v \in VMs /\ w \in VMs
        /\ s[m][1] = update_prio(v, usage[1].cpu) /\ s[m][1] \in Int
        /\ s[n][1] = update_prio(w, usage[1].cpu) /\ s[n][1] \in Int
    BY <2>4, <2>5
  <2>7. v # w
    <3>0. VMs \subseteq Nat
      BY FairShareAssumption
    <3>1. v \in Int /\ w \in Int
      <4> HIDE DEF v, w
      <4> QED BY <2>6, <3>0
    <3>2. v < w
      OBVIOUS
    <3> HIDE DEF v, w
    <3> QED BY <3>1, <3>2
  <2>8. ~same_key(s[m][1], s[n][1])
    BY <2>2, <2>4, <2>7 DEF Filled, IsMap
  <2>9. s[m][1] # NaN /\ s[n][1] # NaN
    BY <2>8 DEF same_key
  <2>10. s[m][1] <= s[n][1]
    <3>1. /\ CpuTyped /\ half_life(usage[1].cpu) >= 0
          /\ half_life(usage[user_of(v)].cpu) = used(v)
          /\ half_life(usage[user_of(v)].cpu) >= 0
          /\ half_life(usage[user_of(w)].cpu) = used(w)
          /\ half_life(usage[user_of(w)].cpu) >= 0
      BY <2>1, <2>6, UsedIs
    <3>2. used(v) * share_of(w) <= used(w) * share_of(v) /\ v < w
      OBVIOUS
    <3>3. sections(v) # {} /\ sections(w) # {} /\ NPeriods >= 3
      BY <2>6 DEF Served
    <3> HIDE DEF v, w
    <3> QED BY <2>6, <2>9, <3>1, <3>2, <3>3, RankMonotone
  <2>11. ~(n < m)
    BY <2>3, <2>4, <2>6, <2>10
  <2>12. m # n
    BY <2>7
  <2>13. m \in Int /\ n \in Int
    <3> HIDE DEF N
    <3> QED BY <2>4
  <2> QED BY <2>11, <2>12, <2>13
<1>4. CASE ~restart /\ ~do_prioritize /\ ~make_queue
  BY <1>4, QueueUntouched
<1> QED BY <1>1, <1>2, <1>3, <1>4

(* README.md "according to an initial weight and to the historical         *)
(* resource usage": every queue that is published is in the order of       *)
(* usage per share, from usage that is true at the timestamp. For all      *)
(* shares, VMs and histories.                                              *)
THEOREM OrderFair ==
    ASSUME Served
    PROVE  Spec => QueueFair
<1> DEFINE Fair == queue' # queue =>
         \A m, n \in DOMAIN queue' :
            LET v == queue'[m]
                w == queue'[n]
            IN  v < w /\ used(v) * share_of(w) <= used(w) * share_of(v)
                  => m < n
<1>1. Passing /\ [Next]_vars => Fair
  BY FairStep
<1>2. Passing /\ [Next]_vars => Passing'
  BY PassingStep DEF Served
<1>3. Passing /\ [Next]_vars => [Fair]_vars
  BY <1>1
<1>4. QueueFair <=> [][Fair]_vars
  BY DEF QueueFair
<1> HIDE DEF Fair
<1> QED BY <1>2, <1>3, <1>4, PassingInit, PTL DEF Spec

(* PriorityManager.cc:391: with positive shares, a polled VM is missing    *)
(* in the map only for another one whose priority rounds to the same       *)
(* float, whatever floats there are. Share 0 would not do: a priority that *)
(* is no number is equivalent to every key.                                *)
THEOREM LeftOutForTie ==
    ASSUME Served, \A i \in UserList : Shares[i].share > 0
    PROVE  Spec => []NobodyLeftOut
<1>1. Passing => NobodyLeftOut
  <2> SUFFICES ASSUME Passing, pc = "make_queue", NEW v \in pm_objects,
                      v \notin {e[2] : e \in priorities}
               PROVE  \E w \in {e[2] : e \in priorities} : alike(v, w)
    BY DEF NobodyLeftOut, at
  <2>1. pc \in Evaluated /\ pm_objects \subseteq VMs
    BY DEF Evaluated, Passing, Typed, VMsOK
  <2>2. PICK P : Filled(P)
    BY DEF Passing, Typed, Scheduled
  <2>3. PICK e \in priorities : same_key(e[1], P[v])
    BY <2>2 DEF Filled
  <2> DEFINE w == e[2]
  <2>4. w \in pm_objects /\ e[1] = P[w] /\ w # v /\ v \in VMs /\ w \in VMs
    BY <2>1, <2>2, <2>3 DEF Filled, IsMap
  <2>5. ~undefined(v) /\ ~undefined(w) /\ PluginDebug
        /\ sections(v) # {} /\ sections(w) # {} /\ NPeriods >= 3
    <3>1. ~(NPeriods < 3)
      BY FairShareAssumption DEF Served
    <3> QED BY <2>4, <3>1 DEF undefined, Served
  <2>6. P[v] = update_prio(v, usage[1].cpu) /\ P[w] = update_prio(w, usage[1].cpu)
    BY <2>2, <2>4, <2>5 DEF Filled
  <2>7. /\ CpuTyped /\ half_life(usage[1].cpu) = total_used /\ total_used >= 0
        /\ half_life(usage[user_of(v)].cpu) = used(v) /\ used(v) >= 0
        /\ half_life(usage[user_of(w)].cpu) = used(w) /\ used(w) >= 0
    BY <2>1, <2>4, UsedIs
  <2>8. share_of(v) # 0 /\ share_of(w) # 0
    <3>1. user_of(v) \in UserList /\ user_of(w) \in UserList
      BY <2>5, UserOf
    <3> QED BY <3>1 DEF share_of
  <2>9. SumShares # 0
    BY SumSharesPositive
  <2> HIDE DEF w
  <2>10. LET a == share_of(v)
             b == share_of(w)
         IN  \A c \in Cuts :
               IF total_used = 0 THEN c <= v * Res <=> c <= w * Res
               ELSE c * (total_used * a)
                            <= (used(v) * SumShares + v * (total_used * a)) * Res
                      <=> c * (total_used * b)
                            <= (used(w) * SumShares + w * (total_used * b)) * Res
    BY <2>3, <2>4, <2>5, <2>6, <2>7, <2>8, <2>9, RankTie
  <2>11. alike(v, w)
    BY <2>10 DEF alike, beyond
  <2>12. w \in {d[2] : d \in priorities}
    BY DEF w
  <2> QED BY <2>11, <2>12
<1>2. Passing /\ [Next]_vars => Passing'
  BY PassingStep DEF Served
<1> QED BY <1>1, <1>2, PassingInit, PTL DEF Spec
=============================================================================
