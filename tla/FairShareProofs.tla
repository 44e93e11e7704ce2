-------------------------- MODULE FairShareProofs ---------------------------
(***************************************************************************)
(* What holds of the pass for all users, shares, machines and periods: the *)
(* time that one accounting record contributes, and the writes that the    *)
(* database has confirmed.                                                 *)
(***************************************************************************)
EXTENDS FairShareProperties, FiniteSetTheorems, TLAPS

(* The instants of period k at which the machine of a record was running.  *)
covered(r, k) ==
    {t \in time_start .. (timestamp - k * Period) - 1 :
        r.start <= t /\ (r.stop = 0 \/ t < r.stop)}

(* AcctPool.cc:62-71: clipping a record at both ends counts exactly the    *)
(* seconds of the period in which its machine was running, also when it    *)
(* ended or began outside the period or is running still.                  *)
THEOREM SecondsExact ==
    ASSUME timestamp \in Int, NEW k \in Entries,
           NEW r \in [vm : VMs, start : Int, stop : Int]
    PROVE  /\ seconds(r, k) \in Nat
           /\ Cardinality(covered(r, k)) = seconds(r, k)
<1> DEFINE end == timestamp - k * Period
           stop == IF r.stop = 0 \/ r.stop > end THEN end ELSE r.stop
           start == IF r.start < time_start THEN time_start ELSE r.start
<1>1. /\ k \in Int /\ Period \in Int /\ NPeriods \in Int
      /\ k * Period \in Int /\ Period * (NPeriods + 1) \in Int
  BY FairShareAssumption DEF Entries
<1>2. time_start \in Int /\ end \in Int
  BY <1>1 DEF time_start
<1>3. start \in Int /\ stop \in Int
  BY <1>2
<1>4. seconds(r, k) = IF start < stop THEN stop - start ELSE 0
  BY DEF seconds
<1>5. covered(r, k) = start .. (stop - 1)
  <2> HIDE DEF end
  <2>1. covered(r, k) = {t \in time_start .. end - 1 :
                            r.start <= t /\ (r.stop = 0 \/ t < r.stop)}
    BY DEF covered, end
  <2> QED BY <1>2, <1>3, <2>1
<1>6. Cardinality(start .. (stop - 1)) =
        IF start > stop - 1 THEN 0 ELSE (stop - 1) - start + 1
  <2> HIDE DEF start, stop
  <2> QED BY <1>3, FS_Interval
<1> HIDE DEF start, stop
<1> QED BY <1>3, <1>4, <1>5, <1>6

(* A later period never adds more than an earlier one, so no difference of *)
(* two entries of the half-life usage is negative.                         *)
THEOREM SecondsDecrease ==
    ASSUME timestamp \in Int, NEW k \in Nat,
           NEW r \in [vm : VMs, start : Int, stop : Int]
    PROVE  seconds(r, k + 1) <= seconds(r, k)
<1> DEFINE at_end(e) ==
        LET stop == IF r.stop = 0 \/ r.stop > e THEN e ELSE r.stop
            start == IF r.start < time_start THEN time_start ELSE r.start
        IN  IF start < stop THEN stop - start ELSE 0
           e0 == timestamp - k * Period
           e1 == timestamp - (k + 1) * Period
<1>1. /\ Period \in Nat /\ NPeriods \in Nat /\ k * Period \in Nat
      /\ Period * (NPeriods + 1) \in Nat /\ (k + 1) * Period = k * Period + Period
  BY FairShareAssumption
<1>2. time_start \in Int /\ e0 \in Int /\ e1 \in Int /\ e1 <= e0
  BY <1>1 DEF time_start
<1>3. seconds(r, k) = at_end(e0) /\ seconds(r, k + 1) = at_end(e1)
  BY DEF seconds
<1> HIDE DEF e0, e1
<1>4. at_end(e1) <= at_end(e0)
  BY <1>2
<1> QED BY <1>3, <1>4
-----------------------------------------------------------------------------
(* The confirmed writes.  A call is under way only at the label that made  *)
(* it, and a point whose confirmation is under way is stored.              *)

Writing == {"write_shares", "write_cpu", "write_memory"}

(* What the current label writes.                                          *)
current ==
    IF pc = "write_shares" THEN share_point
    ELSE usage_point(IF pc = "write_cpu" THEN "h_cpu" ELSE "h_memory")

CallsInPlace == answer # "none" => pc \in Writing \cup {"ping", "create"}
Confirmed == answer \in {"200", "204"} /\ pc \in Writing =>
                \E q \in points : same_point(current, q)

IInv == ReportedStored /\ CallsInPlace /\ Confirmed

LEMMA InvInit == Init => IInv
  BY DEF Init, DbInit, IInv, ReportedStored, CallsInPlace, Confirmed

(* The server executes a write: every stored instant stays stored.         *)
LEMMA Executed ==
    ASSUME IInv, sent, pc \in Writing, executes_write(current),
           UNCHANGED <<pc, user, timestamp, usage>>
    PROVE  IInv'
<1>1. current' = current
  BY DEF current, share_point, usage_point
<1>2. ReportedStored'
  <2> SUFFICES ASSUME NEW p \in reported
               PROVE  \E q \in points' : same_point(p, q)
    BY DEF sent, ReportedStored
  <2>1. PICK q \in points : same_point(p, q)
    BY DEF IInv, ReportedStored
  <2>2. CASE points' = points
    BY <2>1, <2>2
  <2>3. CASE points' = {x \in points : ~same_point(current, x)} \cup {current}
    <3>1. CASE same_point(current, q)
      BY <2>1, <2>3, <3>1 DEF same_point
    <3>2. CASE ~same_point(current, q)
      BY <2>1, <2>3, <3>2
    <3> QED BY <3>1, <3>2
  <2> QED BY <2>2, <2>3 DEF executes_write
<1>3. Confirmed'
  <2>1. CASE exists
    BY <1>1, <2>1 DEF executes_write, Confirmed, same_point
  <2>2. CASE ~exists
    BY <2>2 DEF executes_write, Confirmed
  <2> QED BY <2>1, <2>2
<1>4. CallsInPlace'
  BY DEF CallsInPlace
<1> QED BY <1>2, <1>3, <1>4 DEF IInv

(* A write returns.                                                        *)
LEMMA Returned ==
    ASSUME IInv, pc \in Writing, NEW rc \in BOOLEAN, write(current, rc)
    PROVE  IInv'
<1>1. answer' = "none" /\ UNCHANGED points
  BY DEF write, query_returns
<1>2. rc => \E q \in points : same_point(current, q)
  BY DEF write, query_returns, IInv, Confirmed
<1>3. ReportedStored'
  BY <1>1, <1>2 DEF IInv, ReportedStored, write
<1> QED BY <1>1, <1>3 DEF IInv, CallsInPlace, Confirmed

(* Every other step of the daemon leaves the database alone.               *)
LEMMA Untouched ==
    ASSUME IInv, pc \notin Writing \cup {"ping", "create"}, UNCHANGED db_vars
    PROVE  IInv'
  BY DEF IInv, CallsInPlace, Confirmed, ReportedStored, db_vars

LEMMA WritesStep ==
    ASSUME IInv, pc \in Writing, NEW ACTION F, writes(current, F),
           UNCHANGED pass_vars
    PROVE  IInv'
<1>1. CASE sent /\ executes_write(current) /\ UNCHANGED <<pc, user>>
  BY <1>1, Executed DEF pass_vars
<1>2. CASE \E rc \in BOOLEAN : write(current, rc)
  BY <1>2, Returned
<1> QED BY <1>1, <1>2 DEF writes

LEMMA StartStep == IInv /\ init_db => IInv'
<1> SUFFICES ASSUME IInv, init_db PROVE IInv'
  OBVIOUS
<1>1. pc \in {"ping", "create"}
  BY DEF init_db, at
<1>2. UNCHANGED <<points, reported>>
  BY DEF init_db, sent, executes_ping, executes_create, ping_db, create_db,
         query_returns
<1>3. answer' = "none" \/ pc' = pc
  BY DEF init_db, ping_db, create_db, query_returns
<1>4. pc' \notin Writing
  BY <1>1 DEF init_db, goto, at, Writing
<1> QED BY <1>1, <1>2, <1>3, <1>4
        DEF IInv, ReportedStored, CallsInPlace, Confirmed

LEMMA DaemonStep == IInv /\ daemon => IInv'
<1> SUFFICES ASSUME IInv, daemon PROVE IInv'
  OBVIOUS
<1> USE DEF at
<1>1. CASE init_db
  BY <1>1, StartStep
<1>2. CASE calculate_initial_shares
  <2>1. CASE at("shares")
    BY <1>2, <2>1, Untouched DEF calculate_initial_shares, Writing
  <2>2. CASE at("write_shares")
    <3>1. current = share_point /\ pc \in Writing
      BY <2>2 DEF current, Writing
    <3>2. /\ UNCHANGED pass_vars
          /\ writes(current, each_user("write_shares", "get_pending"))
      BY <1>2, <2>2, <3>1 DEF calculate_initial_shares
    <3> QED BY <3>1, <3>2, WritesStep
  <2> QED BY <1>2, <2>1, <2>2 DEF calculate_initial_shares
<1>3. CASE write_usage
  <2>1. CASE at("write_cpu")
    <3>1. current = usage_point("h_cpu") /\ pc \in Writing
      BY <2>1 DEF current, Writing
    <3>2. UNCHANGED pass_vars /\ writes(current, goto("write_memory"))
      BY <1>3, <2>1, <3>1 DEF write_usage
    <3> QED BY <3>1, <3>2, WritesStep
  <2>2. CASE at("write_memory")
    <3>1. current = usage_point("h_memory") /\ pc \in Writing
      BY <2>2 DEF current, Writing
    <3>2. /\ UNCHANGED pass_vars
          /\ writes(current, each_user("write_cpu", "prioritize"))
      BY <1>3, <2>2, <3>1 DEF write_usage
    <3> QED BY <3>1, <3>2, WritesStep
  <2> QED BY <1>3, <2>1, <2>2 DEF write_usage
<1>4. CASE get_pending \/ take_timestamp \/ set_up \/ eval_usage
  BY <1>4, Untouched DEF get_pending, take_timestamp, set_up, eval_usage, Writing
<1>5. CASE do_prioritize \/ make_queue
  BY <1>5, Untouched DEF do_prioritize, make_queue, Writing
<1> QED BY <1>1, <1>2, <1>3, <1>4, <1>5 DEF daemon, pass, historical_usage

LEMMA InvStep == IInv /\ [Next]_vars => IInv'
<1> SUFFICES ASSUME IInv, [Next]_vars PROVE IInv'
  OBVIOUS
<1>1. CASE daemon
  BY <1>1, DaemonStep
<1>2. CASE restart
  BY <1>2 DEF restart, IInv, ReportedStored, CallsInPlace, Confirmed
<1>3. CASE UNCHANGED <<pc, user, pass_vars, db_vars>>
  <2>1. current' = current
    BY <1>3 DEF current, share_point, usage_point, point, pass_vars
  <2> QED BY <1>3, <2>1
          DEF db_vars, IInv, ReportedStored, CallsInPlace, Confirmed
<1>4. CASE server_fails /\ UNCHANGED <<cloud_vars, pc, user, pass_vars>>
  <2>1. current' = current
    BY <1>4 DEF current, share_point, usage_point, point, pass_vars
  <2> QED BY <1>4, <2>1
          DEF server_fails, IInv, ReportedStored, CallsInPlace, Confirmed
<1>5. CASE UNCHANGED vars
  BY <1>3, <1>5 DEF vars
<1> QED BY <1>1, <1>2, <1>3, <1>4, <1>5 DEF Next

(* InfluxDb.cc:132-146: a write that returned true is in the database for  *)
(* good, through lost answers, broken connections, restarts of the server  *)
(* and of the daemon.                                                      *)
THEOREM Stored == Spec => []ReportedStored
<1>1. IInv => ReportedStored
  BY DEF IInv
<1> QED BY <1>1, InvInit, InvStep, PTL DEF Spec
=============================================================================
