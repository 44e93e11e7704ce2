-------------------------- MODULE AccountingProofs --------------------------
(***************************************************************************)
(* That the usage in the database is what the cloud's history says. A sum  *)
(* over the records of a user is a count of the seconds in which his VMs   *)
(* ran, since no two records of a VM overlap; and what was counted up to   *)
(* an instant does not change, since the history is only written at the    *)
(* present.                                                                *)
(***************************************************************************)
EXTENDS FairShareProofs, FoldLemmas

(* Two records that share no second.                                       *)
apart(r, s) == \/ r.stop # 0 /\ r.stop <= s.start
               \/ s.stop # 0 /\ s.stop <= r.start

(* The history of a cloud: a VM with an open record runs, and of the       *)
(* records of one VM each ends before the next begins.                     *)
HistoryOK ==
    /\ clock \in Nat /\ clock >= Start
    /\ vm \in [VMs -> {"none", "pending", "running", "gone"}]
    /\ IsFiniteSet(history)
    /\ history \subseteq [vm : VMs, start : Nat, stop : Nat]
    /\ \A r \in history :
          /\ 0 < r.start /\ r.start <= clock
          /\ r.stop # 0 => r.start <= r.stop /\ r.stop <= clock
          /\ r.stop = 0 => vm[r.vm] = "running"
    /\ \A r, s \in history : r # s /\ r.vm = s.vm => apart(r, s)

(* What the poll of set_up finds for a user.                               *)
records_of(uid) == {r \in accounting(time_start) : Owner[r.vm] = uid}

(* What eval_usage should come to for a user, and what it comes to when    *)
(* the poll failed.                                                        *)
exact(uid) ==
    [cpu    |-> [k \in Entries |-> entry(uid, Cpu, timestamp, k) \div 4],
     memory |-> [k \in Entries |-> entry(uid, Memory, timestamp, k)]]

nothing == [cpu    |-> [k \in Entries |-> 0], memory |-> [k \in Entries |-> 0]]

(* Where the sums of this pass are used.                                   *)
Evaluated == {"write_cpu", "write_memory", "prioritize", "make_queue"}

(* The timestamp is never ahead of the clock.                              *)
TimeOK == timestamp \in Nat /\ timestamp <= clock /\ user \in UserList

(* What a pass carries from one label to the next: the records of this     *)
(* instant to the sums, and sums of this instant to the writes and the     *)
(* queue. If the poll has failed, it is no records and zeroes for a user,  *)
(* never a part of them.                                                   *)
PassOK ==
    /\ TimeOK
    /\ pc = "eval_usage" =>
         \A i \in UserList :
            \/ get(Shares[i].uid) = records_of(Shares[i].uid)
            \/ PollFails /\ get(Shares[i].uid) = {}
    /\ pc \in Evaluated =>
         \A i \in UserList :
            \/ usage[i] = exact(Shares[i].uid)
            \/ PollFails /\ usage[i] = nothing
-----------------------------------------------------------------------------
(* The seconds of period k in which one of the records T shows v running.  *)
seconds_of(T, v, k) ==
    {t \in time_start .. (timestamp - k * Period) - 1 :
        \E r \in T : r.vm = v /\ r.start <= t /\ (r.stop = 0 \/ t < r.stop)}

(* One record more of a VM adds its seconds, as none is shared.            *)
LEMMA OneMore ==
    ASSUME HistoryOK, timestamp \in Nat, NEW k \in Entries,
           NEW T \in SUBSET history, NEW x \in history \ T
    PROVE  Cardinality(seconds_of(T \cup {x}, x.vm, k)) =
              Cardinality(seconds_of(T, x.vm, k)) + seconds(x, k)
<1> DEFINE from == time_start
           to == timestamp - k * Period
           A == seconds_of(T, x.vm, k)
           B == covered(x, k)
<1>1. /\ from \in Int /\ to \in Int
      /\ x \in [vm : VMs, start : Int, stop : Int]
  <2>1. k \in Int /\ Period \in Int /\ NPeriods \in Int
    BY FairShareAssumption DEF Entries
  <2> QED BY <2>1 DEF HistoryOK, time_start
<1>2. IsFiniteSet(A) /\ IsFiniteSet(B)
  <2>1. IsFiniteSet(from .. to - 1)
    BY <1>1, FS_Interval
  <2>2. A \in SUBSET (from .. to - 1) /\ B \in SUBSET (from .. to - 1)
    BY DEF seconds_of, covered
  <2> HIDE DEF A, B, from, to
  <2> QED BY <2>1, <2>2, FS_Subset
<1>3. seconds_of(T \cup {x}, x.vm, k) = A \cup B
  BY DEF seconds_of, covered
<1>4. A \cap B = {}
  <2> SUFFICES ASSUME NEW t \in A, t \in B PROVE FALSE
    OBVIOUS
  <2>1. PICK r \in T : r.vm = x.vm /\ r.start <= t /\ (r.stop = 0 \/ t < r.stop)
    BY DEF seconds_of
  <2>2. x.start <= t /\ (x.stop = 0 \/ t < x.stop)
    BY DEF covered
  <2>3. apart(r, x)
    BY <2>1 DEF HistoryOK
  <2>4. /\ t \in Int /\ r.start \in Int /\ r.stop \in Int
        /\ x.start \in Int /\ x.stop \in Int
    <3>1. t \in from .. to - 1
      BY DEF covered
    <3>2. r \in [vm : VMs, start : Nat, stop : Nat]
      BY <2>1 DEF HistoryOK
    <3> QED BY <1>1, <3>1, <3>2
  <2> QED BY <2>1, <2>2, <2>3, <2>4 DEF apart
<1>5. seconds(x, k) \in Nat /\ Cardinality(B) = seconds(x, k)
  BY <1>1, SecondsExact
<1>6. Cardinality(A) \in Nat
  BY <1>2, FS_CardinalityType
<1>7. Cardinality(A \cup B) = Cardinality(A) + Cardinality(B) - 0
  <2> HIDE DEF A, B
  <2> QED BY <1>2, <1>4, FS_Union, FS_EmptySet
<1>8. Cardinality(A \cup B) = Cardinality(A) + seconds(x, k)
  <2> HIDE DEF A, B
  <2> QED BY <1>5, <1>6, <1>7
<1> QED BY <1>3, <1>8

(* The sum over the records is the sum over the VMs of their seconds: by   *)
(* induction over the records. A record that the poll leaves out ended     *)
(* before the first period.                                                *)
LEMMA SumExact ==
    ASSUME HistoryOK, timestamp \in Nat, NEW k \in Entries, NEW uid,
           NEW weight, \A v \in VMs : weight[v] \in Nat,
           get(uid) = records_of(uid)
    PROVE  sum(uid, weight, k) = entry(uid, weight, timestamp, k)
<1> DEFINE R == get(uid)
           V == {w \in VMs : Owner[w] = uid}
           f == [r \in R |-> weight[r.vm] * seconds(r, k)]
           F(T) == [v \in V |-> weight[v] * Cardinality(seconds_of(T, v, k))]
           good == {T \in SUBSET R : SumFunctionOnSet(f, T) = SumFunctionOnSet(F(T), V)}
<1>1. /\ R \in SUBSET history /\ IsFiniteSet(R) /\ IsFiniteSet(V)
      /\ \A r \in R : r.vm \in V
  <2>1. R \in SUBSET history /\ \A r \in R : Owner[r.vm] = uid
    BY DEF records_of, accounting
  <2>2. IsFiniteSet(history) /\ \A r \in R : r.vm \in VMs
    BY <2>1 DEF HistoryOK
  <2>3. IsFiniteSet(VMs) /\ V \in SUBSET VMs
    BY FairShareAssumption
  <2>4. IsFiniteSet(R) /\ IsFiniteSet(V)
    <3> HIDE DEF R, V
    <3> QED BY <2>1, <2>2, <2>3, FS_Subset
  <2> QED BY <2>1, <2>2, <2>4
<1>2. \A r \in R : f[r] \in Int
  <2> SUFFICES ASSUME NEW r \in R PROVE weight[r.vm] * seconds(r, k) \in Int
    OBVIOUS
  <2>1. r \in [vm : VMs, start : Int, stop : Int]
    BY <1>1 DEF HistoryOK
  <2>2. seconds(r, k) \in Nat /\ weight[r.vm] \in Nat
    BY <2>1, SecondsExact
  <2> QED BY <2>2
<1>3. ASSUME NEW T \in SUBSET R
      PROVE  \A v \in V : /\ Cardinality(seconds_of(T, v, k)) \in Nat
                          /\ F(T)[v] \in Int
  <2> TAKE v \in V
  <2> DEFINE I == time_start .. (timestamp - k * Period) - 1
  <2>1. time_start \in Int /\ timestamp - k * Period \in Int
    BY FairShareAssumption DEF Entries, time_start
  <2>2. IsFiniteSet(I)
    <3>1. (timestamp - k * Period) - 1 \in Int
      BY <2>1
    <3> QED BY <2>1, <3>1, FS_Interval
  <2>3. seconds_of(T, v, k) \in SUBSET I
    BY DEF seconds_of
  <2>4. IsFiniteSet(seconds_of(T, v, k))
    <3> HIDE DEF I
    <3> QED BY <2>2, <2>3, FS_Subset
  <2>5. Cardinality(seconds_of(T, v, k)) \in Nat
    BY <2>4, FS_CardinalityType
  <2>6. weight[v] \in Nat
    OBVIOUS
  <2> QED BY <2>5, <2>6
<1>4. {} \in good
  <2>1. \A v \in V : seconds_of({}, v, k) = {}
    BY DEF seconds_of
  <2>2. ASSUME NEW v \in V PROVE F({})[v] = 0
    <3>1. Cardinality(seconds_of({}, v, k)) = 0 /\ weight[v] \in Nat
      BY <2>1, FS_EmptySet
    <3> QED BY <3>1
  <2>3. SumFunctionOnSet(F({}), V) = 0
    <3> HIDE DEF F, V
    <3> QED BY <1>1, <2>2, SumZero
  <2> QED BY <2>3, SumEmpty
<1>5. ASSUME NEW T \in SUBSET R, NEW x \in R \ T, T \in good
      PROVE  T \cup {x} \in good
  <2> DEFINE U == T \cup {x}
  <2>1. x.vm \in V /\ U \in SUBSET R /\ T \in SUBSET history /\ x \in history \ T
    BY <1>1
  <2>2. SumFunctionOnSet(f, U) = f[x] + SumFunctionOnSet(f, T)
    <3>1. IsFiniteSet(T)
      BY <1>1, FS_Subset
    <3>2. x \notin T /\ \A y \in U : f[y] \in Int
      BY <1>2, <2>1
    <3> HIDE DEF f
    <3> QED BY <3>1, <3>2, SumInsert
  <2>3. \A v \in V \ {x.vm} : F(U)[v] = F(T)[v]
    <3>1. \A v \in V \ {x.vm} : seconds_of(U, v, k) = seconds_of(T, v, k)
      BY DEF seconds_of
    <3> QED BY <3>1
  <2>4. SumFunctionOnSet(F(U), V) =
          SumFunctionOnSet(F(T), V) + (F(U)[x.vm] - F(T)[x.vm])
    <3>1. \A v \in V : F(U)[v] \in Int /\ F(T)[v] \in Int
      BY <1>3, <2>1
    <3> DEFINE g0 == F(T)
               g1 == F(U)
    <3>2. \A v \in V : g1[v] \in Int /\ g0[v] \in Int
      BY <3>1
    <3>3. \A v \in V \ {x.vm} : g1[v] = g0[v]
      BY <2>3
    <3>4. x.vm \in V /\ IsFiniteSet(V)
      BY <1>1, <2>1
    <3> HIDE DEF g0, g1, V
    <3>5. SumFunctionOnSet(g1, V) = SumFunctionOnSet(g0, V) + (g1[x.vm] - g0[x.vm])
      BY <3>2, <3>3, <3>4, SumChange
    <3> HIDE DEF F
    <3> QED BY <3>5 DEF g0, g1
  <2>5. F(U)[x.vm] - F(T)[x.vm] = f[x]
    <3> DEFINE a == Cardinality(seconds_of(T, x.vm, k))
               b == Cardinality(seconds_of(U, x.vm, k))
    <3>1. b = a + seconds(x, k)
      BY <2>1, OneMore
    <3>2. a \in Nat /\ weight[x.vm] \in Nat /\ seconds(x, k) \in Nat
      <4>1. x \in [vm : VMs, start : Int, stop : Int]
        BY <2>1 DEF HistoryOK
      <4>2. seconds(x, k) \in Nat
        BY <4>1, SecondsExact
      <4>3. weight[x.vm] \in Nat
        BY <2>1
      <4>4. a \in Nat
        BY <1>3, <2>1
      <4> QED BY <4>2, <4>3, <4>4
    <3>3. /\ F(U)[x.vm] = weight[x.vm] * b /\ F(T)[x.vm] = weight[x.vm] * a
          /\ f[x] = weight[x.vm] * seconds(x, k)
      BY <2>1
    <3> HIDE DEF a, b, F, f
    <3>4. weight[x.vm] * b = weight[x.vm] * a + weight[x.vm] * seconds(x, k)
      BY <3>1, <3>2
    <3>5. weight[x.vm] * a \in Int /\ weight[x.vm] * seconds(x, k) \in Int
      BY <3>2
    <3> QED BY <3>3, <3>4, <3>5
  <2>6. SumFunctionOnSet(f, T) \in Int /\ f[x] \in Int
    <3>1. IsFiniteSet(T) /\ \A y \in T : f[y] \in Int
      BY <1>1, <1>2, FS_Subset
    <3> HIDE DEF f
    <3> QED BY <1>2, <3>1, SumElement
  <2>7. SumFunctionOnSet(f, T) = SumFunctionOnSet(F(T), V)
    BY <1>5
  <2>8. SumFunctionOnSet(f, U) = SumFunctionOnSet(F(U), V)
    <3> HIDE DEF f, F, V, U
    <3> QED BY <2>2, <2>4, <2>5, <2>6, <2>7
  <2> QED BY <2>1, <2>8
<1>6. R \in good
  <2> HIDE DEF good, R
  <2> QED BY <1>1, <1>4, <1>5, SetInduction
<1>7. sum(uid, weight, k) = SumFunctionOnSet(f, R)
  BY DEF sum, SumFunction
<1>8. entry(uid, weight, timestamp, k) = SumFunctionOnSet(F(R), V)
  <2>1. ASSUME NEW v \in V
        PROVE  seconds_of(R, v, k) =
                 {t \in time_start .. (timestamp - k * Period) - 1 : runs_at(v, t)}
    <3> DEFINE I == time_start .. (timestamp - k * Period) - 1
    <3>1. ASSUME NEW t \in I, runs_at(v, t)
          PROVE  \E r \in R : r.vm = v /\ r.start <= t /\ (r.stop = 0 \/ t < r.stop)
      <4>1. PICK r \in history :
                 r.vm = v /\ r.start <= t /\ (r.stop = 0 \/ t < r.stop)
        BY <3>1 DEF runs_at
      <4>2. r.stop = 0 \/ r.stop > time_start
        <5>1. t \in Int /\ time_start <= t /\ time_start \in Int /\ r.stop \in Int
          BY <4>1, FairShareAssumption DEF HistoryOK, time_start
        <5> QED BY <4>1, <5>1
      <4>3. r \in R
        BY <4>1, <4>2 DEF records_of, accounting
      <4> QED BY <4>1, <4>3
    <3>2. ASSUME NEW t \in I, NEW r \in R,
                 r.vm = v, r.start <= t, r.stop = 0 \/ t < r.stop
          PROVE  runs_at(v, t)
      BY <1>1, <3>2 DEF runs_at
    <3> HIDE DEF R, V
    <3> QED BY <3>1, <3>2 DEF seconds_of
  <2>2. F(R) = [v \in V |-> weight[v] * Cardinality(
                 {t \in time_start .. (timestamp - k * Period) - 1 : runs_at(v, t)})]
    <3> HIDE DEF V, R
    <3> QED BY <2>1
  <2> QED BY <2>2 DEF entry, consumed, SumFunction, time_start
<1> QED BY <1>6, <1>7, <1>8
-----------------------------------------------------------------------------
(* No record at the start.                                                 *)
LEMMA HistoryInit == Init => HistoryOK
  BY FairShareAssumption, FS_EmptySet DEF Init, HistoryOK

(* A VM that leaves its host closes its open record.                       *)
LEMMA LeaveHistory ==
    ASSUME HistoryOK, NEW v \in VMs, NEW to \in {"gone", "pending"}, leave(v, to)
    PROVE  HistoryOK'
<1> DEFINE ended(r) == IF r.vm = v /\ r.stop = 0
                       THEN [r EXCEPT !.stop = clock] ELSE r
           R == [vm : VMs, start : Nat, stop : Nat]
<1>1. history' = {ended(r) : r \in history} /\ clock' = clock /\ clock \in Nat
  BY DEF leave, becomes, HistoryOK
<1>2. 0 < clock
  BY FairShareAssumption DEF HistoryOK
<1>3. ASSUME NEW r \in history
      PROVE  /\ ended(r) \in R
             /\ ended(r).vm = r.vm /\ ended(r).start = r.start
             /\ ended(r).stop = IF r.vm = v /\ r.stop = 0 THEN clock ELSE r.stop
             /\ 0 < r.start /\ r.start <= clock
             /\ r.stop # 0 => r.start <= r.stop /\ r.stop <= clock
             /\ r.vm \in VMs /\ r.start \in Nat /\ r.stop \in Nat
  <2>1. r \in R /\ clock \in Nat
    BY <1>1 DEF HistoryOK
  <2>2. /\ ended(r).vm = r.vm /\ ended(r).start = r.start
        /\ ended(r).stop = IF r.vm = v /\ r.stop = 0 THEN clock ELSE r.stop
    BY <2>1
  <2>3. ended(r) \in R
    BY <2>1
  <2>4. /\ 0 < r.start /\ r.start <= clock
        /\ r.stop # 0 => r.start <= r.stop /\ r.stop <= clock
    BY DEF HistoryOK
  <2> HIDE DEF ended
  <2> QED BY <2>1, <2>2, <2>3, <2>4
<1>4. vm' \in [VMs -> {"none", "pending", "running", "gone"}]
      /\ \A u \in VMs : u # v => vm'[u] = vm[u]
  BY DEF leave, becomes, HistoryOK
<1>5. IsFiniteSet(history')
  <2> DEFINE g == [r \in history |-> ended(r)]
  <2>1. g \in Surjection(history, history')
    BY <1>1 DEF Surjection
  <2> QED BY <2>1, FS_Surjection DEF HistoryOK
<1>6. ASSUME NEW r \in history, NEW s \in history,
             ended(r) # ended(s), ended(r).vm = ended(s).vm
      PROVE  apart(ended(r), ended(s))
  <2>1. r # s /\ r.vm = s.vm
    BY <1>3, <1>6
  <2>2. apart(r, s)
    BY <2>1 DEF HistoryOK
  <2> HIDE DEF ended
  <2> QED BY <1>1, <1>2, <1>3, <2>2 DEF apart
<1>7. ASSUME NEW r \in history
      PROVE  /\ 0 < ended(r).start /\ ended(r).start <= clock
             /\ ended(r).stop # 0 => /\ ended(r).start <= ended(r).stop
                                     /\ ended(r).stop <= clock
             /\ ended(r).stop = 0 => vm'[ended(r).vm] = "running"
  <2>1. r.stop = 0 => vm[r.vm] = "running"
    BY DEF HistoryOK
  <2> HIDE DEF ended
  <2> QED BY <1>1, <1>2, <1>3, <1>4, <2>1
<1> HIDE DEF ended
<1>8. history' \subseteq R
  BY <1>1, <1>3
<1>9. clock' \in Nat /\ clock' >= Start
  BY <1>1 DEF HistoryOK
<1>10. \A r \in history' :
          /\ 0 < r.start /\ r.start <= clock'
          /\ r.stop # 0 => r.start <= r.stop /\ r.stop <= clock'
          /\ r.stop = 0 => vm'[r.vm] = "running"
  BY <1>1, <1>7
<1>11. \A r, s \in history' : r # s /\ r.vm = s.vm => apart(r, s)
  BY <1>1, <1>6
<1> QED BY <1>4, <1>5, <1>8, <1>9, <1>10, <1>11 DEF HistoryOK, apart

(* Every step of the cloud keeps the history in order.                     *)
LEMMA HistoryStep == HistoryOK /\ [Next]_vars => HistoryOK'
<1> SUFFICES ASSUME HistoryOK, [Next]_vars PROVE HistoryOK'
  OBVIOUS
<1>1. CASE UNCHANGED cloud_vars
  BY <1>1 DEF cloud_vars, HistoryOK, apart
<1>2. CASE tick
  <2>1. clock' = clock + 1 /\ UNCHANGED <<vm, history>>
    BY <1>2 DEF tick
  <2>2. clock \in Nat /\ clock' \in Nat /\ clock' >= Start /\ Start \in Nat
    BY <2>1, FairShareAssumption DEF HistoryOK
  <2>3. ASSUME NEW r \in history
        PROVE  /\ 0 < r.start /\ r.start <= clock'
               /\ r.stop # 0 => r.start <= r.stop /\ r.stop <= clock'
               /\ r.stop = 0 => vm[r.vm] = "running"
    <3>1. r \in [vm : VMs, start : Nat, stop : Nat]
      BY DEF HistoryOK
    <3> QED BY <2>1, <2>2, <3>1 DEF HistoryOK
  <2> QED BY <2>1, <2>2, <2>3 DEF HistoryOK, apart
<1>3. ASSUME NEW v \in VMs, instantiate(v) PROVE HistoryOK'
  <2>1. /\ vm' \in [VMs -> {"none", "pending", "running", "gone"}]
        /\ vm[v] = "none" /\ \A u \in VMs : u # v => vm'[u] = vm[u]
        /\ UNCHANGED <<clock, history>>
    BY <1>3 DEF instantiate, becomes, HistoryOK
  <2>2. \A r \in history : r.stop = 0 => vm'[r.vm] = "running"
    BY <2>1 DEF HistoryOK
  <2> QED BY <2>1, <2>2 DEF HistoryOK, apart
<1>4. ASSUME NEW v \in VMs, deploy(v) PROVE HistoryOK'
  <2> DEFINE n == [vm |-> v, start |-> clock, stop |-> 0]
  <2>1. /\ history' = history \cup {n} /\ clock' = clock /\ clock \in Nat
        /\ vm[v] = "pending" /\ vm' = [vm EXCEPT ![v] = "running"]
    <3>1. clock \in Nat
      BY DEF HistoryOK
    <3> QED BY <1>4, <3>1 DEF deploy, becomes
  <2>2. /\ n.vm = v /\ n.start = clock /\ n.stop = 0
        /\ n \in [vm : VMs, start : Nat, stop : Nat]
    BY <2>1
  <2>3. 0 < clock
    <3>1. Period * (NPeriods + 1) \in Nat
      BY FairShareAssumption
    <3>2. Start \in Nat /\ Start > Period * (NPeriods + 1)
      BY FairShareAssumption
    <3>3. clock \in Nat /\ clock >= Start
      BY DEF HistoryOK
    <3> QED BY <3>1, <3>2, <3>3
  <2>4. IsFiniteSet(history')
    BY <2>1, FS_AddElement DEF HistoryOK
  <2>5. \A r \in history : r.vm = v => r.stop # 0 /\ r.stop <= clock
    BY <2>1 DEF HistoryOK
  <2> HIDE DEF n
  <2>6. \A r, s \in history' : r # s /\ r.vm = s.vm => apart(r, s)
    BY <2>1, <2>2, <2>5 DEF HistoryOK, apart
  <2>7. /\ vm' \in [VMs -> {"none", "pending", "running", "gone"}]
        /\ vm'[v] = "running" /\ \A u \in VMs : u # v => vm'[u] = vm[u]
    BY <2>1 DEF HistoryOK
  <2>8. \A r \in history' :
          /\ 0 < r.start /\ r.start <= clock'
          /\ r.stop # 0 => r.start <= r.stop /\ r.stop <= clock'
          /\ r.stop = 0 => vm'[r.vm] = "running"
    BY <2>1, <2>2, <2>3, <2>7 DEF HistoryOK
  <2>9. history' \subseteq [vm : VMs, start : Nat, stop : Nat]
    BY <2>1, <2>2 DEF HistoryOK
  <2> QED BY <2>1, <2>4, <2>6, <2>7, <2>8, <2>9 DEF HistoryOK, apart
<1>5. ASSUME NEW v \in VMs, terminate(v) \/ undeploy(v) PROVE HistoryOK'
  BY <1>5, LeaveHistory DEF terminate, undeploy
<1>6. CASE environment
  BY <1>2, <1>3, <1>4, <1>5, <1>6 DEF environment
<1>7. UNCHANGED cloud_vars \/ environment
  BY DEF Next, vars
<1> QED BY <1>1, <1>6, <1>7

(* No step changes who ran in a second that is over.                       *)
LEMMA PastStable ==
    ASSUME HistoryOK, [Next]_vars
    PROVE  \A v : \A t \in Int : t < clock => (runs_at(v, t)' <=> runs_at(v, t))
<1> TAKE v
<1> TAKE t \in Int
<1> HAVE t < clock
<1>5. clock \in Nat /\ 0 < clock
  BY FairShareAssumption DEF HistoryOK
<1>1. CASE UNCHANGED history
  BY <1>1 DEF runs_at
<1>2. ASSUME NEW u \in VMs, deploy(u) PROVE runs_at(v, t)' <=> runs_at(v, t)
  <2> DEFINE n == [vm |-> u, start |-> clock, stop |-> 0]
  <2>1. history' = history \cup {n} /\ clock \in Nat
    BY <1>2 DEF deploy, HistoryOK
  <2>2. ~(n.start <= t)
    BY <2>1
  <2> HIDE DEF n
  <2> QED BY <2>1, <2>2 DEF runs_at
<1>3. ASSUME NEW u \in VMs, NEW to, leave(u, to)
      PROVE  runs_at(v, t)' <=> runs_at(v, t)
  <2> DEFINE ended(r) == IF r.vm = u /\ r.stop = 0
                         THEN [r EXCEPT !.stop = clock] ELSE r
             runs(r) == r.vm = v /\ r.start <= t /\ (r.stop = 0 \/ t < r.stop)
  <2>1. history' = {ended(r) : r \in history}
    BY <1>3 DEF leave
  <2>2. ASSUME NEW r \in history PROVE runs(ended(r)) <=> runs(r)
    <3>1. r \in [vm : VMs, start : Nat, stop : Nat]
      BY DEF HistoryOK
    <3>2. /\ ended(r).vm = r.vm /\ ended(r).start = r.start
          /\ ended(r).stop = IF r.vm = u /\ r.stop = 0 THEN clock ELSE r.stop
      BY <3>1
    <3> HIDE DEF ended
    <3> QED BY <1>5, <3>2
  <2> HIDE DEF ended
  <2>3. (\E r \in history' : runs(r)) <=> (\E r \in history : runs(r))
    <3> HIDE DEF runs
    <3> QED BY <2>1, <2>2
  <2> QED BY <2>3 DEF runs_at
<1>4. UNCHANGED history \/ \E u \in VMs : deploy(u) \/ \E to : leave(u, to)
  BY DEF Next, vars, cloud_vars, environment, tick, instantiate, terminate, undeploy
<1> QED BY <1>1, <1>2, <1>3, <1>4

(* So no step changes the usage up to an instant that is not ahead.        *)
LEMMA EntryStable ==
    ASSUME HistoryOK, [Next]_vars, NEW uid, NEW weight, NEW k \in Entries,
           NEW time \in Nat, time <= clock
    PROVE  entry(uid, weight, time, k)' = entry(uid, weight, time, k)
<1> DEFINE from == time - Period * (NPeriods + 1)
           to == time - k * Period
           I == from .. to - 1
           V == {w \in VMs : Owner[w] = uid}
<1>1. from \in Int /\ to \in Int /\ to <= clock /\ clock \in Nat
  <2>1. Period * (NPeriods + 1) \in Nat /\ k * Period \in Nat
    BY FairShareAssumption DEF Entries
  <2> QED BY <2>1 DEF HistoryOK
<1>2. \A t \in I : t \in Int /\ t < clock
  <2> HIDE DEF from, to
  <2> QED BY <1>1
<1>3. \A v \in V : {t \in I : runs_at(v, t)}' = {t \in I : runs_at(v, t)}
  <2> HIDE DEF I
  <2> QED BY <1>2, PastStable
<1>4. [v \in V |-> weight[v] * Cardinality({t \in I : runs_at(v, t)}')]
        = [v \in V |-> weight[v] * Cardinality({t \in I : runs_at(v, t)})]
  <2> HIDE DEF I, V
  <2> QED BY <1>3
<1> QED BY <1>4 DEF entry, consumed
-----------------------------------------------------------------------------
(* A step leaves the stored points alone, or loses some and adds the       *)
(* current one.                                                            *)
LEMMA PointsStep ==
    [Next]_vars => \/ UNCHANGED points
                   \/ /\ pc \in Writing /\ UNCHANGED <<clock, timestamp>>
                      /\ points' \subseteq points \cup {current}
<1> SUFFICES ASSUME [Next]_vars
             PROVE  \/ UNCHANGED points
                    \/ /\ pc \in Writing /\ UNCHANGED <<clock, timestamp>>
                       /\ points' \subseteq points \cup {current}
  OBVIOUS
<1>1. ASSUME NEW ACTION F, writes(current, F), pc \in Writing,
             UNCHANGED <<clock, timestamp>>
      PROVE  \/ UNCHANGED points
             \/ /\ pc \in Writing /\ UNCHANGED <<clock, timestamp>>
                /\ points' \subseteq points \cup {current}
  BY <1>1 DEF writes, executes_write, write, query_returns
<1>2. CASE calculate_initial_shares /\ UNCHANGED cloud_vars
  <2>1. CASE at("shares")
    BY <1>2, <2>1 DEF calculate_initial_shares, db_vars, at
  <2>2. CASE at("write_shares")
    <3>1. current = share_point /\ pc \in Writing
      BY <2>2 DEF current, Writing, at
    <3>2. /\ UNCHANGED <<clock, timestamp>>
          /\ writes(current, each_user("write_shares", "get_pending"))
      BY <1>2, <2>2, <3>1
         DEF calculate_initial_shares, at, cloud_vars, pass_vars
    <3> QED BY <1>1, <3>1, <3>2
  <2> QED BY <1>2, <2>1, <2>2 DEF calculate_initial_shares
<1>3. CASE write_usage /\ UNCHANGED cloud_vars
  <2>0. UNCHANGED <<clock, timestamp>>
    BY <1>3 DEF write_usage, cloud_vars, pass_vars
  <2>1. CASE at("write_cpu")
    <3>1. current = usage_point("h_cpu") /\ pc \in Writing
      BY <2>1 DEF current, Writing, at
    <3>2. writes(current, goto("write_memory"))
      BY <1>3, <2>1, <3>1 DEF write_usage, at
    <3> QED BY <1>1, <2>0, <3>1, <3>2
  <2>2. CASE at("write_memory")
    <3>1. current = usage_point("h_memory") /\ pc \in Writing
      BY <2>2 DEF current, Writing, at
    <3>2. writes(current, each_user("write_cpu", "prioritize"))
      BY <1>3, <2>2, <3>1 DEF write_usage, at
    <3> QED BY <1>1, <2>0, <3>1, <3>2
  <2> QED BY <1>3, <2>1, <2>2 DEF write_usage
<1>4. \/ UNCHANGED points
      \/ calculate_initial_shares /\ UNCHANGED cloud_vars
      \/ write_usage /\ UNCHANGED cloud_vars
  <2>1. init_db => UNCHANGED points
    BY DEF init_db, executes_ping, executes_create, ping_db, create_db, query_returns
  <2>2. restart \/ server_fails \/ UNCHANGED db_vars => UNCHANGED points
    BY DEF restart, server_fails, db_vars
  <2>3. pass => write_usage \/ UNCHANGED db_vars
    BY DEF pass, get_pending, historical_usage, take_timestamp, set_up,
           eval_usage, do_prioritize, make_queue
  <2> QED BY <2>1, <2>2, <2>3 DEF Next, daemon, vars
<1> QED BY <1>2, <1>3, <1>4

(* Only set_up fills the pool, and only eval_usage the sums.               *)
LEMMA OtherSteps ==
    ASSUME [Next]_vars, ~restart, ~set_up, ~eval_usage
    PROVE  /\ UNCHANGED <<pool, usage>>
           /\ pc' = "eval_usage" =>
                 pc = "eval_usage" /\ UNCHANGED <<history, timestamp>>
           /\ pc' \in Evaluated => pc \in Evaluated /\ UNCHANGED timestamp
<1> DEFINE Goal == /\ UNCHANGED <<pool, usage>>
                   /\ pc' = "eval_usage" =>
                        pc = "eval_usage" /\ UNCHANGED <<history, timestamp>>
                   /\ pc' \in Evaluated => pc \in Evaluated /\ UNCHANGED timestamp
<1> USE DEF Evaluated, at, goto
<1>1. ASSUME UNCHANGED <<pc, pass_vars>>, UNCHANGED history \/ looking PROVE Goal
  BY <1>1 DEF pass_vars, looking
<1>2. CASE init_db /\ UNCHANGED pass_vars
  BY <1>2 DEF init_db, pass_vars
<1>3. CASE calculate_initial_shares
  BY <1>3 DEF calculate_initial_shares, writes, each_user, pass_vars
<1>4. CASE get_pending \/ take_timestamp
  BY <1>4 DEF get_pending, take_timestamp
<1>5. CASE write_usage
  BY <1>5 DEF write_usage, writes, each_user, pass_vars
<1>6. CASE do_prioritize \/ make_queue
  BY <1>6 DEF do_prioritize, make_queue
<1>7. CASE daemon
  BY <1>2, <1>3, <1>4, <1>5, <1>6, <1>7 DEF daemon, pass, historical_usage
<1>8. CASE /\ UNCHANGED pc /\ UNCHANGED pass_vars
           /\ UNCHANGED cloud_vars \/ looking
  BY <1>1, <1>8 DEF cloud_vars
<1>9. \/ daemon
      \/ /\ UNCHANGED pc /\ UNCHANGED pass_vars
         /\ UNCHANGED cloud_vars \/ looking
  BY DEF Next, vars
<1> QED BY <1>7, <1>8, <1>9

(* The clock and the timestamp go on.                                      *)
LEMMA TimeStep ==
    ASSUME HistoryOK, TimeOK, [Next]_vars
    PROVE  clock' \in Nat /\ clock <= clock' /\ TimeOK'
<1>0. clock \in Nat /\ timestamp \in Nat /\ timestamp <= clock /\ user \in UserList
  BY DEF HistoryOK, TimeOK
<1>1. clock' \in Nat /\ clock <= clock'
  <2>1. clock' = clock \/ clock' = clock + 1
    BY DEF Next, vars, cloud_vars, environment, tick, instantiate, deploy,
           terminate, undeploy, leave, becomes
  <2> QED BY <1>0, <2>1
<1>2. timestamp' \in {timestamp, 0} \/ (timestamp' = clock /\ clock' = clock)
  <2>1. CASE daemon /\ UNCHANGED cloud_vars
    BY <2>1 DEF daemon, pass, historical_usage, calculate_initial_shares,
                get_pending, take_timestamp, set_up, eval_usage, write_usage,
                do_prioritize, make_queue, pass_vars, cloud_vars
  <2> QED BY <2>1 DEF Next, restart, vars, pass_vars
<1>3. 1 \in UserList
  BY FairShareAssumption DEF UserList
<1>4. user' \in {user, 1} \/ (user # Len(Shares) /\ user' = user + 1)
  <2>1. CASE daemon
    <3> USE DEF goto
    <3>1. CASE init_db
      BY <3>1 DEF init_db
    <3>2. CASE calculate_initial_shares
      BY <3>2 DEF calculate_initial_shares, writes, each_user
    <3>3. CASE write_usage
      BY <3>3 DEF write_usage, writes, each_user
    <3>4. CASE get_pending \/ take_timestamp \/ set_up \/ eval_usage
      BY <3>4 DEF get_pending, take_timestamp, set_up, eval_usage
    <3>5. CASE do_prioritize \/ make_queue
      BY <3>5 DEF do_prioritize, make_queue
    <3> QED BY <2>1, <3>1, <3>2, <3>3, <3>4, <3>5 DEF daemon, pass, historical_usage
  <2> QED BY <2>1 DEF Next, restart, vars
<1>5. user' \in UserList
  <2>1. Len(Shares) \in Nat
    BY FairShareAssumption
  <2> QED BY <1>0, <1>3, <1>4, <2>1 DEF UserList
<1> QED BY <1>0, <1>1, <1>2, <1>5 DEF TimeOK

(* A longer window never shows less usage.                                 *)
LEMMA ConsumedMonotone ==
    ASSUME NEW uid, NEW weight, \A v \in VMs : weight[v] \in Nat,
           NEW from \in Int, NEW to \in Int, NEW upto \in Int, to <= upto
    PROVE  /\ consumed(uid, weight, from, to) \in Nat
           /\ consumed(uid, weight, from, upto) \in Nat
           /\ consumed(uid, weight, from, to) <= consumed(uid, weight, from, upto)
<1> DEFINE V == {w \in VMs : Owner[w] = uid}
           A(v) == {t \in from .. to - 1 : runs_at(v, t)}
           B(v) == {t \in from .. upto - 1 : runs_at(v, t)}
           f == [v \in V |-> weight[v] * Cardinality(A(v))]
           g == [v \in V |-> weight[v] * Cardinality(B(v))]
<1>1. IsFiniteSet(V)
  <2>1. V \in SUBSET VMs /\ IsFiniteSet(VMs)
    BY FairShareAssumption
  <2> HIDE DEF V
  <2> QED BY <2>1, FS_Subset
<1>2. ASSUME NEW v \in V PROVE f[v] \in Nat /\ g[v] \in Nat /\ f[v] <= g[v]
  <2>1. IsFiniteSet(from .. upto - 1)
    <3>1. upto - 1 \in Int
      OBVIOUS
    <3> QED BY <3>1, FS_Interval
  <2>2. A(v) \in SUBSET B(v) /\ B(v) \in SUBSET (from .. upto - 1)
    OBVIOUS
  <2>3. /\ IsFiniteSet(A(v)) /\ IsFiniteSet(B(v))
        /\ Cardinality(A(v)) <= Cardinality(B(v))
    <3> HIDE DEF A, B
    <3> QED BY <2>1, <2>2, FS_Subset
  <2>4. Cardinality(A(v)) \in Nat /\ Cardinality(B(v)) \in Nat
    <3> HIDE DEF A, B
    <3> QED BY <2>3, FS_CardinalityType
  <2>5. weight[v] \in Nat /\ f[v] = weight[v] * Cardinality(A(v))
        /\ g[v] = weight[v] * Cardinality(B(v))
    OBVIOUS
  <2>6. \A w, x, y \in Nat : x <= y => w * x <= w * y /\ w * x \in Nat /\ w * y \in Nat
    OBVIOUS
  <2> HIDE DEF A, B, f, g
  <2> QED BY <2>3, <2>4, <2>5, <2>6
<1>3. /\ SumFunctionOnSet(f, V) \in Nat /\ SumFunctionOnSet(g, V) \in Nat
      /\ SumFunctionOnSet(f, V) <= SumFunctionOnSet(g, V)
  <2> HIDE DEF f, g, V
  <2> QED BY <1>1, <1>2, SumNat, SumMonotone
<1>4. /\ consumed(uid, weight, from, to) = SumFunctionOnSet(f, V)
      /\ consumed(uid, weight, from, upto) = SumFunctionOnSet(g, V)
  BY DEF consumed, SumFunction
<1> HIDE DEF f, g, V
<1> QED BY <1>3, <1>4

(* What a user has used is a natural number.                               *)
LEMMA EntryType ==
    ASSUME timestamp \in Nat, NEW k \in Entries, NEW uid, NEW weight,
           \A v \in VMs : weight[v] \in Nat
    PROVE  entry(uid, weight, timestamp, k) \in Nat
<1> DEFINE from == timestamp - Period * (NPeriods + 1)
           to == timestamp - k * Period
<1>1. from \in Int /\ to \in Int /\ to <= to
  <2>1. Period * (NPeriods + 1) \in Nat /\ k * Period \in Nat
    BY FairShareAssumption DEF Entries
  <2> QED BY <2>1
<1> HIDE DEF from, to
<1>2. consumed(uid, weight, from, to) \in Nat
  BY <1>1, ConsumedMonotone
<1> QED BY <1>2 DEF entry, from, to

(* Up to three periods the arrays of the sums are long enough.             *)
LEMMA NoOverrun ==
    ASSUME NPeriods <= 3
    PROVE  ~overrun /\ distances = {0}
<1>1. NPeriods \in Nat
  BY FairShareAssumption
<1> QED BY <1>1 DEF overrun, distances

(* The sums of one user after eval_usage.                                  *)
LEMMA EvalStep ==
    ASSUME HistoryOK, PassOK, NPeriods <= 3, eval_usage, NEW i \in UserList
    PROVE  \/ usage'[i] = exact(Shares[i].uid)
           \/ PollFails /\ usage'[i] = nothing
<1> DEFINE uid == Shares[i].uid
<1>0. usage'[i] = [cpu    |-> [k \in Entries |-> sum(uid, Cpu, k) \div 4 + 0],
                   memory |-> [k \in Entries |-> sum(uid, Memory, k) + 0 \div 4]]
  <2>1. \A w, k : strayed(uid, w, k, 0) = 0
    BY DEF strayed
  <2>2. usage' = [j \in UserList |->
           [cpu |-> [k \in Entries |-> sum(Shares[j].uid, Cpu, k) \div 4
                                        + strayed(Shares[j].uid, Memory, k - 0, 0)],
            memory |-> [k \in Entries |-> sum(Shares[j].uid, Memory, k)
                                        + strayed(Shares[j].uid, Cpu, k + 0, 0) \div 4]]]
    BY NoOverrun DEF eval_usage
  <2> QED BY <2>1, <2>2
<1>2. /\ get(uid) = records_of(uid) \/ (PollFails /\ get(uid) = {})
      /\ timestamp \in Nat
  BY DEF eval_usage, at, PassOK, TimeOK
<1>3. CASE get(uid) = records_of(uid)
  <2>1. \A v \in VMs : Cpu[v] \in Nat /\ Memory[v] \in Nat
    BY FairShareAssumption
  <2>2. ASSUME NEW k \in Entries
        PROVE  /\ sum(uid, Cpu, k) = entry(uid, Cpu, timestamp, k)
               /\ sum(uid, Memory, k) = entry(uid, Memory, timestamp, k)
    BY <1>2, <1>3, <2>1, SumExact
  <2>3. \A k \in Entries : /\ entry(uid, Cpu, timestamp, k) \in Nat
                           /\ entry(uid, Memory, timestamp, k) \in Nat
    BY <1>2, <2>1, EntryType
  <2>4. \A n \in Nat : n \div 4 + 0 = n \div 4 /\ n + 0 \div 4 = n
    OBVIOUS
  <2>5. \A k \in Entries :
          /\ sum(uid, Cpu, k) \div 4 + 0 = entry(uid, Cpu, timestamp, k) \div 4
          /\ sum(uid, Memory, k) + 0 \div 4 = entry(uid, Memory, timestamp, k)
    BY <2>2, <2>3, <2>4
  <2> QED BY <1>0, <2>5 DEF exact
<1>4. CASE PollFails /\ get(uid) = {}
  <2>1. \A k \in Entries : sum(uid, Cpu, k) = 0 /\ sum(uid, Memory, k) = 0
    BY <1>4, SumEmpty DEF sum, SumFunction
  <2>2. 0 \div 4 + 0 = 0 /\ 0 + 0 \div 4 = 0
    OBVIOUS
  <2>3. \A k \in Entries : /\ sum(uid, Cpu, k) \div 4 + 0 = 0
                           /\ sum(uid, Memory, k) + 0 \div 4 = 0
    BY <2>1, <2>2
  <2> QED BY <1>0, <1>4, <2>3 DEF nothing
<1> QED BY <1>2, <1>3, <1>4

(* A pass keeps PassOK, whatever the cloud does between two of its steps.  *)
LEMMA PassStep ==
    ASSUME HistoryOK, PassOK, NPeriods <= 3, [Next]_vars
    PROVE  PassOK'
<1>1. TimeOK'
  BY TimeStep DEF PassOK
<1>2. ASSUME NEW i \in UserList, pc' = "eval_usage"
      PROVE  \/ get(Shares[i].uid)' = records_of(Shares[i].uid)'
             \/ PollFails /\ get(Shares[i].uid)' = {}
  <2>1. CASE set_up
    <3>1. UNCHANGED <<history, timestamp>> /\ at("set_up")
      <4>1. UNCHANGED cloud_vars
        BY <1>2, <2>1 DEF Next, vars, set_up, at, looking, restart
      <4> QED BY <2>1, <4>1 DEF set_up, cloud_vars
    <3>2. \/ pool' = [uid \in {u \in {Shares[j].uid : j \in UserList} :
                                records_of(u) # {}} |-> records_of(uid)]
          \/ PollFails /\ pool' = <<>>
      BY <2>1 DEF set_up, records_of
    <3>3. Shares[i].uid \in {Shares[j].uid : j \in UserList}
      OBVIOUS
    <3>4. \/ get(Shares[i].uid)' = records_of(Shares[i].uid)
          \/ PollFails /\ get(Shares[i].uid)' = {}
      <4>1. CASE PollFails /\ pool' = <<>>
        BY <4>1 DEF get
      <4>2. CASE ~(PollFails /\ pool' = <<>>)
        <5>1. pool' = [uid \in {u \in {Shares[j].uid : j \in UserList} :
                                  records_of(u) # {}} |-> records_of(uid)]
          BY <3>2, <4>2
        <5>2. get(Shares[i].uid)' = records_of(Shares[i].uid)
          BY <3>3, <5>1 DEF get
        <5> QED BY <5>2
      <4> QED BY <4>1, <4>2
    <3>5. records_of(Shares[i].uid)' = records_of(Shares[i].uid)
      BY <3>1 DEF records_of, accounting, time_start
    <3> QED BY <3>4, <3>5
  <2>2. CASE ~set_up
    <3>1. ~restart /\ ~eval_usage
      BY <1>2 DEF restart, eval_usage, goto
    <3>2. UNCHANGED <<pool, history, timestamp>> /\ pc = "eval_usage"
      BY <1>2, <2>2, <3>1, OtherSteps
    <3>3. \/ get(Shares[i].uid) = records_of(Shares[i].uid)
          \/ PollFails /\ get(Shares[i].uid) = {}
      BY <3>2 DEF PassOK
    <3> QED BY <3>2, <3>3 DEF get, records_of, accounting, time_start
  <2> QED BY <2>1, <2>2
<1>3. ASSUME pc' \in Evaluated, NEW i \in UserList
      PROVE  \/ usage'[i] = exact(Shares[i].uid)'
             \/ PollFails /\ usage'[i] = nothing
  <2>1. timestamp' = timestamp
        /\ (usage'[i] = exact(Shares[i].uid) \/ (PollFails /\ usage'[i] = nothing))
    <3>1. CASE eval_usage
      BY <3>1, EvalStep DEF eval_usage
    <3>2. CASE ~eval_usage
      <4>1. ~restart /\ ~set_up
        BY <1>3 DEF restart, set_up, goto, Evaluated
      <4> QED BY <1>3, <3>2, <4>1, OtherSteps DEF PassOK
    <3> QED BY <3>1, <3>2
  <2>2. exact(Shares[i].uid)' = exact(Shares[i].uid)
    <3>1. PICK time : time = timestamp
      OBVIOUS
    <3>2. time \in Nat /\ time <= clock /\ timestamp' = time
      BY <2>1, <3>1 DEF PassOK, TimeOK
    <3>3. ASSUME NEW k \in Entries
          PROVE  /\ entry(Shares[i].uid, Cpu, timestamp, k)'
                      = entry(Shares[i].uid, Cpu, timestamp, k)
                 /\ entry(Shares[i].uid, Memory, timestamp, k)'
                      = entry(Shares[i].uid, Memory, timestamp, k)
      <4> DEFINE e(weight) == entry(Shares[i].uid, weight, time, k)
      <4>1. e(Cpu)' = e(Cpu) /\ e(Memory)' = e(Memory)
        BY <3>2, EntryStable
      <4>2. /\ entry(Shares[i].uid, Cpu, timestamp, k)' = e(Cpu)'
            /\ entry(Shares[i].uid, Memory, timestamp, k)' = e(Memory)'
        BY <3>2 DEF entry, consumed
      <4> QED BY <3>1, <4>1, <4>2
    <3> QED BY <3>3 DEF exact
  <2> QED BY <2>1, <2>2
<1>4. nothing' = nothing
  BY DEF nothing
<1>5. (pc \in Evaluated)' <=> pc' \in Evaluated
  BY DEF Evaluated
<1> QED BY <1>1, <1>2, <1>3, <1>4, <1>5 DEF PassOK

(* What a stored point may say: the usage up to its time, or nothing if    *)
(* polls fail.                                                             *)
StoredPoint(p) ==
    /\ p.time \in Nat /\ p.time <= clock
    /\ p.series[1] = "h_cpu" =>
         \/ \A k \in Entries :
               p.value[k] = entry(p.series[2], Cpu, p.time, k) \div 4
         \/ PollFails /\ \A k \in Entries : p.value[k] = 0
    /\ p.series[1] = "h_memory" =>
         \/ \A k \in Entries :
               p.value[k] = entry(p.series[2], Memory, p.time, k)
         \/ PollFails /\ \A k \in Entries : p.value[k] = 0

(* It goes on being right.                                                 *)
LEMMA PointStable ==
    ASSUME HistoryOK, PassOK, [Next]_vars, NEW p, StoredPoint(p)
    PROVE  StoredPoint(p)'
<1>1. p.time \in Nat /\ p.time <= clock'
  BY TimeStep DEF StoredPoint, HistoryOK, PassOK
<1>2. ASSUME NEW k \in Entries
      PROVE  /\ entry(p.series[2], Cpu, p.time, k)'
                  = entry(p.series[2], Cpu, p.time, k)
             /\ entry(p.series[2], Memory, p.time, k)'
                  = entry(p.series[2], Memory, p.time, k)
  BY EntryStable DEF StoredPoint
<1> QED BY <1>1, <1>2 DEF StoredPoint

(* The point to be written next is right.                                  *)
LEMMA CurrentStored ==
    ASSUME PassOK, pc \in Writing
    PROVE  StoredPoint(current)
<1>1. timestamp \in Nat /\ timestamp <= clock /\ user \in UserList
  BY DEF PassOK, TimeOK
<1>2. CASE pc = "write_shares"
  BY <1>1, <1>2 DEF StoredPoint, current, share_point, point
<1>3. CASE pc # "write_shares"
  <2>1. \/ usage[user] = exact(Shares[user].uid)
        \/ PollFails /\ usage[user] = nothing
    BY <1>1, <1>3 DEF PassOK, Writing, Evaluated
  <2>2. CASE pc = "write_cpu"
    BY <1>1, <2>1, <2>2 DEF StoredPoint, current, usage_point, point, exact, nothing
  <2>3. CASE pc = "write_memory"
    BY <1>1, <2>1, <2>3 DEF StoredPoint, current, usage_point, point, exact, nothing
  <2> QED BY <1>3, <2>2, <2>3 DEF Writing
<1> QED BY <1>2, <1>3

Ledger == \A p \in points : StoredPoint(p)

(* The invariant.                                                          *)
Accounted == HistoryOK /\ PassOK /\ Ledger

(* It holds at the start.                                                  *)
LEMMA AccountedInit == Init => Accounted
<1> SUFFICES ASSUME Init PROVE Accounted
  OBVIOUS
<1>1. HistoryOK
  BY HistoryInit
<1>2. PassOK
  BY <1>1, FairShareAssumption
     DEF Init, PassOK, TimeOK, HistoryOK, UserList, Evaluated
<1> QED BY <1>1, <1>2 DEF Accounted, Ledger, Init, DbInit

(* Every step keeps it.                                                    *)
LEMMA AccountedStep == NPeriods <= 3 /\ Accounted /\ [Next]_vars => Accounted'
<1> SUFFICES ASSUME NPeriods <= 3, Accounted, [Next]_vars PROVE Accounted'
  OBVIOUS
<1>1. HistoryOK /\ PassOK
  BY DEF Accounted
<1>2. HistoryOK' /\ PassOK'
  BY <1>1, HistoryStep, PassStep
<1>3. ASSUME NEW p \in points' PROVE StoredPoint(p)'
  <2>1. StoredPoint(p)
    <3>1. CASE p \in points
      BY <3>1 DEF Accounted, Ledger
    <3>2. CASE p \notin points
      <4>1. pc \in Writing /\ p = current
        BY <1>3, <3>2, PointsStep
      <4> QED BY <1>1, <4>1, CurrentStored
    <3> QED BY <3>1, <3>2
  <2> QED BY <1>1, <2>1, PointStable
<1> QED BY <1>2, <1>3 DEF Accounted, Ledger

(* AcctPool.cc:58-77: if OpenNebula answers, what the database says of an  *)
(* instant is what the history of the cloud says of it, for ever.  With    *)
(* more than three periods the sums overrun their arrays (AcctPool.cc:45). *)
THEOREM UsageExact ==
    ASSUME ~PollFails, NPeriods <= 3
    PROVE  Spec => []StoredExact
<1>1. Accounted => StoredExact
  BY DEF Accounted, Ledger, StoredPoint, StoredExact
<1>2. Accounted /\ [Next]_vars => Accounted'
  BY AccountedStep
<1> QED BY <1>1, <1>2, AccountedInit, PTL DEF Spec

(* PriorityManager.cc:292: if a poll fails, the pass goes on with an empty *)
(* pool.  Then the sample is all zeroes; no part of a user's usage is ever *)
(* stored as the whole, by as many periods as the arrays have room for.    *)
THEOREM WholeOrNothing ==
    ASSUME NPeriods <= 3
    PROVE  Spec => []Ledger
<1>1. Accounted => Ledger
  BY DEF Accounted
<1>2. Accounted /\ [Next]_vars => Accounted'
  BY AccountedStep
<1> QED BY <1>1, <1>2, AccountedInit, PTL DEF Spec
=============================================================================
