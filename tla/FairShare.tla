----------------------------- MODULE FairShare ------------------------------
(***************************************************************************)
(* What a pass of the Priority Manager computes, from the accounting       *)
(* records of OpenNebula to the order of the queue: AcctPool, BasicPlugin, *)
(* User, the map of the priorities and the samples that go to the          *)
(* database.  Locks, signals and the other threads are in module Fass.     *)
(*                                                                         *)
(* Time is in seconds.  CPU is in quarters of a core.  The ids of the VMs  *)
(* are powers of two, and a VM is here the exponent of its id: priorities, *)
(* which are 2^-x / id, compare like the numbers x + exponent.  A float    *)
(* has room for some of them: Cuts are the exponents, in units of 1 / Res, *)
(* at which the next smaller float begins, the last one of them 0.         *)
(***************************************************************************)
EXTENDS InfluxDb, Sequences, SequencesExt

CONSTANTS
    Shares,      \* the sections of shares.conf: uid and share
    VMs, Owner, Cpu, Memory,
    Start, End,  \* the first and the last second
    Period,      \* manager_timer * period
    NPeriods,    \* the option n_periods
    PluginDebug, \* the option plugin_debug is not 0: the real algorithm
    PollFails,   \* a call to OpenNebula may fail
    Restarts,    \* the daemon may be killed and started again
    Records,     \* bound: the records of one VM
    Samples,     \* bound: the seconds in which a pass takes its timestamp
    Junk,        \* what an undefined priority may be
    Cuts, Res    \* the rounding of priorities to float

ASSUME FairShareAssumption ==
    /\ VMs \subseteq Nat /\ IsFiniteSet(VMs)
    /\ \A v \in VMs : Cpu[v] \in Nat /\ Memory[v] \in Nat
    /\ Period \in Nat \ {0} /\ NPeriods \in Nat
    /\ Start \in Nat /\ Start > Period * (NPeriods + 1)
    /\ End \in Nat /\ End > Start
    /\ Shares \in Seq([uid : Nat, share : Nat]) /\ Len(Shares) > 0
    /\ Junk \subseteq Int
    /\ Cuts \subseteq Nat /\ IsFiniteSet(Cuts) /\ Res \in Nat \ {0}

VARIABLES
    clock,
    vm,         \* none, pending, running or gone
    history,    \* HISTORY records: vm, STIME and ETIME (0: still running)
    pc, user,   \* where the pass is; the user whose samples are written
    timestamp,
    pool,       \* acctpool->objects: uid -> records
    usage,      \* user_list[i].cpu_usage and memory_usage
    pm_objects, \* the keys of vmpool->objects
    priorities, \* the map: ranks (0 is the highest priority) and VMs
    queue

cloud_vars == <<clock, vm, history>>
pass_vars == <<timestamp, pool, usage, pm_objects, priorities, queue>>
vars == <<cloud_vars, pc, user, pass_vars, db_vars>>

UserList == 1 .. Len(Shares)
Entries == 0 .. NPeriods
at(label) == pc = label
goto(label) == pc' = label /\ UNCHANGED user

NoUsage == [i \in UserList |-> [cpu |-> <<>>, memory |-> <<>>]]

Init ==
    /\ clock = Start
    /\ vm = [v \in VMs |-> "none"]
    /\ history = {}
    /\ pc = "ping" /\ user = 1 /\ timestamp = 0
    /\ pool = <<>> /\ usage = NoUsage
    /\ pm_objects = {} /\ priorities = {} /\ queue = <<>>
    /\ DbInit
-----------------------------------------------------------------------------
(* OpenNebula (external).                                                  *)

tick == clock < End /\ clock' = clock + 1 /\ UNCHANGED <<vm, history>>

becomes(v, from, to) ==
    /\ vm[v] = from
    /\ vm' = [vm EXCEPT ![v] = to]
    /\ UNCHANGED clock

instantiate(v) == becomes(v, "none", "pending") /\ UNCHANGED history
deploy(v) ==
    /\ Cardinality({r \in history : r.vm = v}) < Records
    /\ becomes(v, "pending", "running")
    /\ history' = history \cup {[vm |-> v, start |-> clock, stop |-> 0]}
leave(v, to) ==
    /\ becomes(v, "running", to)
    /\ history' = {IF r.vm = v /\ r.stop = 0
                   THEN [r EXCEPT !.stop = clock] ELSE r : r \in history}
terminate(v) == leave(v, "gone")
undeploy(v) == leave(v, "pending")

\* Bound: the cloud moves before the steps of a pass that look at it or at the
\* clock; it commutes with the others, and the start takes no time.
looking == pc \in {"get_pending", "timestamp", "set_up"}

environment == \/ tick
               \/ \E v \in VMs : instantiate(v) \/ deploy(v) \/ terminate(v)
                                 \/ undeploy(v)

\* one.vmpool.accounting: the records that reach past an instant.
accounting(from) == {r \in history : r.stop = 0 \/ r.stop > from}
-----------------------------------------------------------------------------
(* Start: InfluxDb::init_db, then the shares of all users.                 *)

init_db ==
    \/ /\ at("ping")
       /\ \/ sent /\ executes_ping /\ UNCHANGED <<pc, user>>
          \/ \E rc \in BOOLEAN :
               ping_db(rc) /\ goto(IF rc THEN "create" ELSE "shares")
    \/ /\ at("create")
       /\ \/ sent /\ executes_create /\ UNCHANGED <<pc, user>>
          \/ \E rc \in BOOLEAN : create_db(rc) /\ goto("shares")

\* A write: its request, or its return and what follows.
writes(p, follows) ==
    \/ sent /\ executes_write(p) /\ UNCHANGED <<pc, user>>
    \/ \E rc \in BOOLEAN : write(p, rc) /\ follows

\* To a label for the next user, or on to another after the last.
each_user(label, after) ==
    /\ pc' = IF user = Len(Shares) THEN after ELSE label
    /\ user' = IF user = Len(Shares) THEN 1 ELSE user + 1

share_point ==
    point(<<"share", Shares[user].uid>>, timestamp, Shares[user].share)

calculate_initial_shares ==
    \/ /\ at("shares")
       /\ timestamp' = clock /\ goto("write_shares")
       /\ UNCHANGED <<pool, usage, pm_objects, priorities, queue, db_vars>>
    \/ /\ at("write_shares")
       /\ writes(share_point, each_user("write_shares", "get_pending"))
       /\ UNCHANGED pass_vars
-----------------------------------------------------------------------------
(* The pass.                                                               *)

get_pending ==
    /\ at("get_pending")
    /\ pm_objects' \in {{v \in VMs : vm[v] = "pending"}}
                       \cup (IF PollFails THEN {{}} ELSE {})
    /\ goto("timestamp")
    /\ UNCHANGED <<timestamp, pool, usage, priorities, queue, db_vars>>

sampled == {p.time : p \in {q \in points : q.series[1] = "h_cpu"}}

take_timestamp ==
    /\ at("timestamp")
    /\ Cardinality(sampled \cup {clock}) <= Samples
    /\ timestamp' = clock
    /\ goto("set_up")
    /\ UNCHANGED <<pool, usage, pm_objects, priorities, queue, db_vars>>

time_start == timestamp - Period * (NPeriods + 1)

\* AcctPool::set_up: the pool is flushed, then filled from the answer; a uid
\* without records has no entry.
set_up ==
    /\ at("set_up")
    /\ LET records(uid) == {r \in accounting(time_start) : Owner[r.vm] = uid}
           known == {Shares[i].uid : i \in UserList}
       IN pool' \in {[uid \in {u \in known : records(u) # {}} |-> records(uid)]}
                    \cup (IF PollFails THEN {<<>>} ELSE {})
    /\ goto("eval_usage")
    /\ UNCHANGED <<timestamp, usage, pm_objects, priorities, queue, db_vars>>

get(uid) == IF uid \in DOMAIN pool THEN pool[uid] ELSE {}

\* MUTANT: an entry that ended after the period counts to its end.
seconds_unclipped(r, k) ==
    LET stop == IF r.stop = 0 THEN timestamp - k * Period ELSE r.stop
        start == IF r.start < time_start THEN time_start ELSE r.start
    IN  IF start < stop THEN stop - start ELSE 0

\* MUTANT: an entry that starts after the period counts below zero.
seconds_signed(r, k) ==
    LET end == timestamp - k * Period
        stop == IF r.stop = 0 \/ r.stop > end THEN end ELSE r.stop
        start == IF r.start < time_start THEN time_start ELSE r.start
    IN  stop - start

\* What one entry adds to the sum of period k: from time_start to k periods
\* before the timestamp.
seconds(r, k) ==
    LET end == timestamp - k * Period
        stop == IF r.stop = 0 \/ r.stop > end THEN end ELSE r.stop
        start == IF r.start < time_start THEN time_start ELSE r.start
    IN  IF start < stop THEN stop - start ELSE 0

sum(uid, weight, k) ==
    SumFunction([r \in get(uid) |-> weight[r.vm] * seconds(r, k)])

\* The sums are kept in two arrays of four entries, d entries apart.  Written
\* past its end, one goes on into the other (d is 4 or -4), or into memory
\* that nobody uses (0), or the pass crashes.
overrun == NPeriods + 1 > 4
distances == IF overrun THEN {0, 4, 0 - 4} ELSE {0}
strayed(uid, weight, k, d) ==
    IF d # 0 /\ k \in Entries THEN sum(uid, weight, k) ELSE 0

eval_usage ==
    /\ at("eval_usage")
    /\ \E d \in distances :
         usage' = [i \in UserList |->
           LET uid == Shares[i].uid
           IN [cpu |-> [k \in Entries |->
                          sum(uid, Cpu, k) \div 4 + strayed(uid, Memory, k - d, d)],
               memory |-> [k \in Entries |->
                          sum(uid, Memory, k) + strayed(uid, Cpu, k + d, d) \div 4]]]
    /\ \/ goto("write_cpu")
       \/ overrun /\ goto("crashed")
    /\ UNCHANGED <<timestamp, pool, pm_objects, priorities, queue, db_vars>>

usage_point(series) ==
    point(<<series, Shares[user].uid>>, timestamp,
          IF series = "h_cpu" THEN usage[user].cpu ELSE usage[user].memory)

\* The second sample is sent whatever became of the first.
write_usage ==
    /\ \/ at("write_cpu") /\ writes(usage_point("h_cpu"), goto("write_memory"))
       \/ /\ at("write_memory")
          /\ writes(usage_point("h_memory"), each_user("write_cpu", "prioritize"))
    /\ UNCHANGED pass_vars

historical_usage == take_timestamp \/ set_up \/ eval_usage \/ write_usage
-----------------------------------------------------------------------------
(* BasicPlugin and the map of the priorities.                              *)

\* The sum with what is there already is computed, but insert keeps the old.
add_user(total, of_user) ==
    [k \in DOMAIN of_user |->
       IF k \in DOMAIN total THEN total[k] ELSE of_user[k]]

evaluate_total_usage ==
    FoldLeft(add_user, <<>>, [i \in UserList |-> usage[i].cpu])

\* Four times the usage that decays by half with every period.
half_life(of) == 4 * (of[0] - of[1]) + 2 * (of[1] - of[2]) + (of[2] - of[3])

SumShares == SumFunction([i \in UserList |-> Shares[i].share])
times(s, section) == IF section.share = 0 THEN s ELSE s * section.share
Common == FoldLeft(times, 1, Shares)

NaN == 0 - 1

\* do_prioritize takes the last section with the uid of the owner.
sections(v) == {i \in UserList : Shares[i].uid = Owner[v]}
user_of(v) == Max(sections(v))

\* vm_prio is a double in the plugin and a float in do_prioritize: the float
\* for 2^-(x / unit) is named by the number of cuts before it.
float(x, unit) == Cardinality({c \in Cuts : c * unit <= x * Res})

\* The exponent of the priority of v in units of 1 / (t * Common), negated,
\* and what a float keeps of it.
update_prio(v, total) ==
    LET u == user_of(v)
        share == Shares[u].share
        h == half_life(usage[u].cpu)
        t == half_life(total)
        unit == IF t = 0 THEN 1 ELSE t * Common
        x == IF t = 0 THEN 0 ELSE h * SumShares * (Common \div share)
    IN  IF SumShares = 0 \/ (share = 0 /\ 0 \in {t, h}) THEN NaN
        ELSE IF share = 0 THEN Cardinality(Cuts)
        ELSE float(x + v * unit, unit)

\* plugin_debug=0: the priority is the id, a power of two that a float keeps.
invert(v) == Max(VMs) - v

\* MUTANT: the map is sorted the other way round.
before_less(p, q) == p[1] > q[1]

\* std::greater on the priorities.
before(p, q) == p[1] < q[1]

\* MUTANT: keys that are neighbours are taken for equal.
same_key_near(a, b) == a - b \in {0 - 1, 0, 1} \/ NaN \in {a, b}

\* A NaN is equivalent to every key.
same_key(a, b) == a = b \/ NaN \in {a, b}

insert(map, entry) ==
    IF \E other \in map : same_key(other[1], entry[1])
    THEN map ELSE map \cup {entry}

\* The keys of a map in its order: they differ.
in_order(S, less(_, _)) ==
    CHOOSE s \in [1 .. Cardinality(S) -> S] :
        \A i, j \in 1 .. Cardinality(S) : i < j => less(s[i], s[j])

\* The entries of a user that is not in the list are read through end(), and
\* so is the third one when there are fewer.
undefined(v) == PluginDebug /\ (sections(v) = {} \/ NPeriods < 3)

do_prioritize ==
    /\ at("prioritize")
    /\ LET total == evaluate_total_usage
           wild == {v \in pm_objects : undefined(v)}
           ids == in_order(pm_objects, <)
       IN \/ \E junk \in [wild -> Junk] :
               LET prio(v) == IF v \in wild THEN junk[v]
                              ELSE IF PluginDebug THEN update_prio(v, total)
                              ELSE invert(v)
               IN /\ priorities' = FoldLeft(insert, priorities,
                         [n \in DOMAIN ids |-> <<prio(ids[n]), ids[n]>>])
                  /\ goto("make_queue")
          \/ wild # {} /\ goto("crashed") /\ UNCHANGED priorities
    /\ UNCHANGED <<timestamp, pool, usage, pm_objects, queue, db_vars>>

make_queue ==
    /\ at("make_queue")
    /\ LET entries == in_order(priorities, before)
       IN  queue' = [n \in DOMAIN entries |-> entries[n][2]]
    /\ priorities' = {}
    /\ goto("get_pending")
    /\ UNCHANGED <<timestamp, pool, usage, pm_objects, db_vars>>

\* The next pass may follow in the same second: pm_loop does one more when it
\* is stopped.
pass == get_pending \/ historical_usage \/ do_prioritize \/ make_queue

daemon == \/ init_db /\ UNCHANGED pass_vars
          \/ calculate_initial_shares \/ pass

restart ==
    /\ Restarts
    /\ pc' = "ping" /\ user' = 1 /\ timestamp' = 0
    /\ pool' = <<>> /\ usage' = NoUsage
    /\ pm_objects' = {} /\ priorities' = {} /\ queue' = <<>>
    /\ answer' = "none"
    /\ UNCHANGED <<server, exists, points, reported>>

Next == \/ daemon /\ UNCHANGED cloud_vars
        \/ restart /\ UNCHANGED cloud_vars
        \/ environment /\ looking /\ UNCHANGED <<pc, user, pass_vars, db_vars>>
        \/ server_fails /\ UNCHANGED <<cloud_vars, pc, user, pass_vars>>

Spec == Init /\ [][Next]_vars

\* Each step of the daemon comes, as OpenNebula and the server answer or the
\* connection breaks: there is no timeout that would end a silent one.
FairSpec == Spec /\ WF_vars(daemon /\ UNCHANGED cloud_vars)
=============================================================================
