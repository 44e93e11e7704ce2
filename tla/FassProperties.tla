--------------------------- MODULE FassProperties ---------------------------
(***************************************************************************)
(* What is claimed of the daemon: the properties that the MC modules check *)
(* and FassProofs proves.                                                  *)
(***************************************************************************)
EXTENDS Fass

\* The value of every variable has the type the code gives it; a pool never
\* holds an id that is not that of a VM (VMObject.cc gives -1 to a node
\* without an id), and no copy of a pool is left over from another pass.
TypeOK ==
    /\ mutex \in [Managers -> Threads \cup {"free"}]
    /\ stop_manager \in [Managers -> BOOLEAN]
    /\ pc \in [Threads -> WaitLabels \cup TerminatorLabels \cup PMLabels
                                     \cup MainLabels]
    /\ process \in {"up", "exited", "aborted", "crashed"}
    /\ CloudTypeOK
    /\ tm_made \in BOOLEAN
    /\ tm_objects \subseteq VMs
    /\ todo \in [Managers -> SUBSET VMs]
    /\ user \in 0..Len(UserList)
    /\ pm_objects \subseteq VMs
    /\ priorities \subseteq Nat \X VMs
    /\ queue \subseteq VMs

\* The thread is between the lock and the unlock (or the return without one)
\* of kill_pending, respectively of kill_running.
InPool == [t \in Managers |->
    pc[t] \in (IF t = "pm" THEN {"kp_load", "kp_each"}
                           ELSE {"kr_load", "kr_each"})]

\* The Priority Manager inside kill_pending and the Terminator inside
\* kill_running are never in the pool they share at the same time
\* ("or the PM could try to overwrite the vmpool object", Terminator.cc:233).
PoolExclusion == ~(InPool["pm"] /\ InPool["tm"])

\* A thread that walks its copy of the map only meets objects that the pool
\* still owns: nobody has flushed, that is deleted, what it is looking at.
NoDanglingVM == \A t \in Managers : todo[t] \subseteq tm_objects

\* A manager is never asleep on its condition variable once it was told to
\* stop: the signal of finalize cannot fall between its last look at
\* stop_manager and its wait.
NoLostWakeup == \A m \in Managers : stop_manager[m] => pc[m] # "sleep"

\* VMPool::make_queue looks up every prioritized id in the pool of the
\* Priority Manager and uses what it finds: no id of an earlier pass is left
\* in the map of the priorities, so none of them is a null pointer.
NoStalePriority ==
    pc["pm"] \in {"prioritize", "make_queue"} =>
        \A entry \in priorities : entry[2] \in pm_objects

\* Fass.cc:384 writes "All modules finalized, exiting.": by then the threads
\* of both managers have returned, so nothing uses what ~Fass deletes.
CleanExit ==
    pc["main"] = "done" => \A m \in Managers : pc[m] = "exit"

\* While every poll is answered, the mutex of the Terminator is never held
\* by a thread that is neither inside the pool nor in its timed wait.
NoLeakedLock ==
    /\ mutex["tm"] = "pm" => InPool["pm"]
    /\ mutex["tm"] = "tm" =>
          InPool["tm"] \/ pc["tm"] \in {"check", "wait"}

-----------------------------------------------------------------------------
\* FaSS acts on the cloud only as Reaper allows.
Promise == INSTANCE Reaper
    WITH Users <- {UserList[i] : i \in DOMAIN UserList}

ImplementsReaper == Promise!Spec

\* A VM that has left the "pending" state for a host, and was not flagged for
\* rescheduling, is only removed for having exceeded its ttl: kill_pending is
\* to "kill pending VMs" (Terminator.h:55).
DeployedSpared ==
    [][\A v \in VMs : vm[v] \in {"boot", "running"} /\ vm'[v] = "reaped"
                        => v \in expired]_vars

-----------------------------------------------------------------------------
\* Once the main thread begins to stop the managers the process ends.
StopCompletes == pc["main"] = "fin_pm" ~> process # "up"

\* A VM that stays pending gets into the queue of the scheduler.
PendingQueued ==
    \A v \in VMs :
        vm[v] = "pending" ~> v \in queue \/ vm[v] # "pending"
                                \/ process # "up"

\* A VM that is gone leaves the queue of the scheduler.
GoneUnqueued ==
    \A v \in VMs :
        vm[v] \in {"deleted", "reaped"} ~>
            v \notin queue \/ process # "up"

\* A dynamic VM that kill_pending or kill_running is there to remove.
overdue(v) ==
    /\ v \notin Static /\ Owner[v] \in {UserList[i] : i \in DOMAIN UserList}
    /\ \/ vm[v] = "pending" /\ v \in late
       \/ vm[v] = "running" /\ v \in expired

\* A VM that is overdue does not stay so for ever, although single calls to
\* remove it may fail.
OverdueReaped ==
    \A v \in VMs :
        overdue(v) ~> ~overdue(v) \/ process # "up"
=============================================================================
