------------------------ MODULE FairShareProperties -------------------------
(***************************************************************************)
(* The properties of FairShare.                                            *)
(***************************************************************************)
EXTENDS FairShare

Labels == {"ping", "create", "shares", "write_shares", "get_pending",
           "timestamp", "set_up", "eval_usage", "write_cpu", "write_memory",
           "prioritize", "make_queue", "crashed"}

Sums == [Entries -> Nat] \cup {<<>>}

\* Type invariant.
TypeOK ==
    /\ clock \in Start .. End
    /\ vm \in [VMs -> {"none", "pending", "running", "gone"}]
    /\ pc \in Labels /\ user \in UserList
    /\ timestamp \in 0 .. End
    /\ \A r \in history : r.vm \in VMs /\ {r.start, r.stop} \subseteq 0 .. End
    /\ \A i \in UserList : {usage[i].cpu, usage[i].memory} \subseteq Sums
    /\ pm_objects \cup Range(queue) \subseteq VMs
    /\ server \in {"up", "down"} /\ exists \in BOOLEAN /\ answer \in Statuses
-----------------------------------------------------------------------------
(* What a user has really consumed, second by second.                      *)

runs_at(v, t) ==
    \E r \in history : r.vm = v /\ r.start <= t /\ (r.stop = 0 \/ t < r.stop)

consumed(uid, weight, from, to) ==
    SumFunction([v \in {w \in VMs : Owner[w] = uid} |->
        weight[v] * Cardinality({t \in from .. to - 1 : runs_at(v, t)})])

entry(uid, weight, time, k) ==
    consumed(uid, weight, time - Period * (NPeriods + 1), time - k * Period)

\* AcctPool.cc:58-77: what the database says about an instant is what the
\* history of the cloud says about it, and stays so: for every user, period
\* and measure, however the cloud moves on between the timestamp, the poll and
\* the write, and whatever a pass in the same second writes again.
StoredExact ==
    \A p \in points :
        /\ p.series[1] = "h_cpu" =>
             \A k \in Entries :
                p.value[k] = entry(p.series[2], Cpu, p.time, k) \div 4
        /\ p.series[1] = "h_memory" =>
             \A k \in Entries :
                p.value[k] = entry(p.series[2], Memory, p.time, k)

\* query_db: a write that returned true is in the database, even after a
\* restart of either side: the caller's log misses no loss.
ReportedStored == \A p \in reported : \E q \in points : same_point(p, q)

\* README.md "according to an initial weight and to the historical resource
\* usage": of two VMs in one queue, the older one comes first if its owner has
\* used, at the timestamp, no more per share than the owner of the other.
used(v) ==
    half_life([k \in Entries |->
                 entry(Owner[v], Cpu, timestamp, k) \div 4])
share_of(v) == Shares[user_of(v)].share

QueueFair ==
    [][queue' # queue =>
         \A m, n \in DOMAIN queue' :
            LET v == queue'[m]
                w == queue'[n]
            IN  v < w /\ used(v) * share_of(w) <= used(w) * share_of(v)
                  => m < n]_vars

\* The priority of v is 2^-(u/U : s/S) / id: u and s are the usage and the share
\* of its owner, U the total (that of the first user, see TotalIsSum), S the sum
\* of the shares.  Seen as an exponent it lies beyond the cut c, or not.
total_used ==
    half_life([k \in Entries |-> entry(Shares[1].uid, Cpu, timestamp, k) \div 4])

beyond(c, v) ==
    LET scale == total_used * share_of(v)
    IN  IF total_used = 0 THEN c <= v * Res
        ELSE c * scale <= (used(v) * SumShares + v * scale) * Res

\* The priorities of v and w, which may differ, round to one float.
alike(v, w) == \A c \in Cuts : beyond(c, v) <=> beyond(c, w)

\* PriorityManager.cc:349, 391, BasicPlugin.cc:131: the priorities are the keys
\* of a map of floats.  As long as all shares are above 0, a VM that was polled
\* is left out of the queue only for another one whose priority, by the usage
\* in the history of the cloud, rounds to the same float.
NobodyLeftOut ==
    at("make_queue") =>
        LET kept == {e[2] : e \in priorities}
        IN  \A v \in pm_objects \ kept : \E w \in kept : alike(v, w)

\* Unless the daemon dies or is restarted for ever, passes go on, whatever
\* fails: no call to a database that is down or breaks off keeps the manager
\* from its next queue.
PassEnds ==
    \/ <>[]at("crashed")
    \/ []<><<restart>>_vars
    \/ []<>at("get_pending") /\ []<>at("make_queue")
-----------------------------------------------------------------------------
(* What the comments and documents say and the code does not do.           *)

\* BasicPlugin.cc:112 "half-life total usage", PriorityManager.cc:363 "neded
\* to normalize historical usage per user": the total is over all users.
TotalIsSum ==
    at("prioritize") =>
        \A k \in Entries :
            evaluate_total_usage[k] =
                SumFunction([i \in UserList |-> usage[i].cpu[k]])
=============================================================================
