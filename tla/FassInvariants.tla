--------------------------- MODULE FassInvariants ---------------------------
(***************************************************************************)
(* The inductive invariant behind the safety properties of FassProperties: *)
(* IInv is TypeOK and the conjuncts below, each named for what it ties     *)
(* together.                                                               *)
(***************************************************************************)
EXTENDS FassProperties

Users == {UserList[i] : i \in DOMAIN UserList}

\* A thread that relies on a mutex holds it.
LockHeld ==
    /\ \A m \in Managers : pc[m] \in {"check", "wait"} => mutex[m] = m
    /\ \A t \in Managers : InPool[t] => mutex["tm"] = t

\* A manager is idle until the main thread creates its thread.
NotStarted ==
    /\ pc["main"] \in {"wait_one", "start_pm"} => pc["pm"] = "idle"
    /\ pc["main"] \in {"wait_one", "start_pm", "new_tm", "start_tm"}
         => pc["tm"] = "idle"

\* VMs are left to visit only in the loops, and the pool still owns them.
Visiting ==
    /\ todo["pm"] # {} => pc["pm"] = "kp_each"
    /\ todo["tm"] # {} => pc["tm"] = "kr_each"
    /\ \A t \in Managers : todo[t] \subseteq tm_objects

\* kill_running works for one of the configured users, and on VMs of hers.
UserTaken ==
    /\ pc["tm"] \in {"kr_load", "kr_each"} => user \in 1..Len(UserList)
    /\ \A v \in todo["tm"] : Owner[v] \in Users

\* A manager that was told to stop neither sleeps nor is about to.
Stopped == \A m \in Managers : stop_manager[m] => pc[m] \notin {"wait", "sleep"}

\* The map of the priorities is in use between do_prioritize and make_queue.
PrioritiesFresh ==
    /\ priorities # {} => pc["pm"] = "make_queue"
    /\ \A entry \in priorities : entry[2] \in pm_objects

\* The main thread has passed a join only if that thread has returned.
Joined ==
    /\ pc["main"] \in {"join_tm", "done"} => pc["pm"] = "exit"
    /\ pc["main"] = "done" => pc["tm"] = "exit"

\* Only VMs that exist have an age.
AgesExist == \A v \in late \cup expired : vm[v] \notin Gone

IInv ==
    /\ TypeOK
    /\ LockHeld /\ NotStarted /\ Visiting /\ UserTaken
    /\ Stopped /\ PrioritiesFresh /\ Joined /\ AgesExist
=============================================================================
