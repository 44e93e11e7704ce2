----------------------------- MODULE Terminator -----------------------------
(***************************************************************************)
(* src/terminator/Terminator.cc.  The object is shared by two threads: its *)
(* own, which looks at the active VMs of each configured user, and the     *)
(* Priority Manager's, which calls kill_pending at the start of its pass.  *)
(* Both refresh the one pool "vmpool" and then visit its objects in order  *)
(* of id, calling OpenNebula for each that has to go; the manager's mutex  *)
(* is meant to keep the two apart.                                         *)
(***************************************************************************)
EXTENDS Manager, VMPool, Sequences

CONSTANTS
    UserList,     \* the configured users, in the order of shares.conf
    Action,       \* the option "action" of fassd.conf
    PollReplies,  \* what a call that reads from OpenNebula may come to
    KillReplies   \* what a call that acts on a VM may come to

ASSUME TerminatorAssumption ==
    /\ UserList \in Seq(Nat)
    /\ PollReplies \subseteq Replies /\ KillReplies \subseteq Replies

VARIABLES
    tm_made,     \* Fass::terminator() is not a null pointer
    tm_objects,  \* the keys of vmpool->objects
    todo,        \* of each manager's thread: the VMs of its copy of the map
                 \* that its loop has not visited yet
    user         \* how many users tm_loop has taken in this pass

terminator_vars == <<tm_made, tm_objects, todo, user>>

TerminatorLabels == {"kill_pending", "kp_load", "kp_each",
                     "users", "kr_load", "kr_each"}

TerminatorInit ==
    /\ tm_made = FALSE
    /\ tm_objects = {}
    /\ todo = [t \in Managers |-> {}]
    /\ user = 0

\* The map is visited in increasing order of id.
next_vm(t, v) == v \in todo[t] /\ \A w \in todo[t] : v <= w

\* MUTANT: the meaning of STATIC_VM is turned round.
waits_too_long_static(v) == v \in late /\ v \in Static

\* MUTANT: max_wait is not looked at.
waits_at_all(v) == v \notin Static

\* What a visit of kill_pending and of kill_running decides to terminate.
waits_too_long(v) == v \in late /\ v \notin Static
lives_too_long(v) == v \in expired /\ v \notin Static

Operations == {"suspend", "poweroff", "reboot"}

\* Terminator::terminate: the result is not looked at, exceptions are caught.
terminate(v, reply) ==
    vm' \in effects(reply, vm, recover_delete(v)) /\ forget_gone

\* Terminator::operate, the same with one.vm.action.
operate(v, reply) ==
    vm' \in effects(reply, vm, vm_action(Action, v)) /\ forget_gone

-----------------------------------------------------------------------------
(* kill_pending(-1), run by the thread of the Priority Manager.            *)

kill_pending_lock ==
    /\ at("pm", "kill_pending")
    /\ \/ /\ tm_made
          /\ lock("tm", "pm")
          /\ goto("pm", "kp_load")
          /\ UNCHANGED <<stop_manager, process>>
       \/ ~tm_made /\ ends("crashed")   \* a call through a null pointer
    /\ UNCHANGED <<cloud, terminator_vars>>

\* MUTANT: the mutex protects the refresh of the pool and not the loop.
kill_pending_load_unlock ==
    /\ at("pm", "kp_load")
    /\ \E reply \in PollReplies :
        /\ tm_objects' = set_up(tm_objects, reply, pending_vms)
        /\ todo' = [todo EXCEPT !["pm"] = tm_objects']
    /\ unlock("tm", "pm")
    /\ goto("pm", "kp_each")
    /\ UNCHANGED <<stop_manager, process, cloud, tm_made, user>>

\* When the poll fails kill_pending returns, and the mutex stays locked.
kill_pending_load ==
    /\ at("pm", "kp_load")
    /\ \E reply \in PollReplies :
        /\ tm_objects' = set_up(tm_objects, reply, pending_vms)
        /\ IF set_up_throws(reply)
           THEN ends("aborted") /\ UNCHANGED todo
           ELSE /\ goto("pm", IF set_up_fails(reply) THEN "get_pending"
                                                     ELSE "kp_each")
                /\ todo' = [todo EXCEPT !["pm"] =
                              IF set_up_fails(reply) THEN {} ELSE tm_objects']
                /\ UNCHANGED <<mutex, stop_manager, process>>
    /\ UNCHANGED <<cloud, tm_made, user>>

kill_pending_each(v, reply) ==
    /\ at("pm", "kp_each")
    /\ next_vm("pm", v)
    /\ todo' = [todo EXCEPT !["pm"] = @ \ {v}]
    /\ IF waits_too_long(v) THEN terminate(v, reply) ELSE UNCHANGED cloud
    /\ UNCHANGED <<manager_vars, tm_made, tm_objects, user>>

kill_pending_unlock ==
    /\ at("pm", "kp_each") /\ todo["pm"] = {}
    /\ unlock("tm", "pm")
    /\ goto("pm", "get_pending")
    /\ UNCHANGED <<stop_manager, process, cloud, terminator_vars>>

-----------------------------------------------------------------------------
(* The body of tm_loop: kill_running(uid, ttl, ...) for each user.         *)

\* MUTANT: "this procedure should be locked" and is not.
kill_running_unlocked ==
    /\ at("tm", "users") /\ user < Len(UserList)
    /\ user' = user + 1
    /\ goto("tm", "kr_load")
    /\ UNCHANGED <<mutex, stop_manager, process, cloud,
                   tm_made, tm_objects, todo>>

kill_running_lock ==
    /\ at("tm", "users") /\ user < Len(UserList)
    /\ lock("tm", "tm")
    /\ user' = user + 1
    /\ goto("tm", "kr_load")
    /\ UNCHANGED <<stop_manager, process, cloud, tm_made, tm_objects, todo>>

\* When the poll fails kill_running returns, and the mutex stays locked.
\* A VM whose start time is still 0 is skipped by the loop: todo leaves it out.
kill_running_load ==
    /\ at("tm", "kr_load")
    /\ \E reply \in PollReplies :
        /\ tm_objects' = set_up(tm_objects, reply, running_vms(UserList[user]))
        /\ IF set_up_throws(reply)
           THEN ends("aborted") /\ UNCHANGED todo
           ELSE /\ goto("tm", IF set_up_fails(reply) THEN "users"
                                                     ELSE "kr_each")
                /\ todo' = [todo EXCEPT !["tm"] =
                              IF set_up_fails(reply) THEN {}
                              ELSE {v \in tm_objects' : vm[v] # "boot"}]
                /\ UNCHANGED <<mutex, stop_manager, process>>
    /\ UNCHANGED <<cloud, tm_made, user>>

\* MUTANT: the option "action" is not looked at.
kill_running_any_action(v, reply) ==
    /\ at("tm", "kr_each")
    /\ next_vm("tm", v)
    /\ todo' = [todo EXCEPT !["tm"] = @ \ {v}]
    /\ IF lives_too_long(v) THEN terminate(v, reply) ELSE UNCHANGED cloud
    /\ UNCHANGED <<manager_vars, tm_made, tm_objects, user>>

kill_running_each(v, reply) ==
    /\ at("tm", "kr_each")
    /\ next_vm("tm", v)
    /\ todo' = [todo EXCEPT !["tm"] = @ \ {v}]
    /\ \/ lives_too_long(v) /\ Action = "kill" /\ terminate(v, reply)
       \/ lives_too_long(v) /\ Action \in Operations /\ operate(v, reply)
       \/ ~(lives_too_long(v) /\ Action \in Operations \cup {"kill"})
             /\ UNCHANGED cloud
    /\ UNCHANGED <<manager_vars, tm_made, tm_objects, user>>

\* MUTANT: the normal return forgets to unlock too.
kill_running_return ==
    /\ at("tm", "kr_each") /\ todo["tm"] = {}
    /\ goto("tm", "users")
    /\ UNCHANGED <<mutex, stop_manager, process, cloud, terminator_vars>>

\* Back in tm_loop the usage of the user goes to the database.
kill_running_unlock ==
    /\ at("tm", "kr_each") /\ todo["tm"] = {}
    /\ unlock("tm", "tm")
    /\ goto("tm", "users")
    /\ UNCHANGED <<stop_manager, process, cloud, terminator_vars>>

users_done ==
    /\ at("tm", "users") /\ user = Len(UserList)
    /\ user' = 0
    /\ goto("tm", "top")
    /\ UNCHANGED <<mutex, stop_manager, process, cloud,
                   tm_made, tm_objects, todo>>

-----------------------------------------------------------------------------
\* The thread of the Terminator, and the Priority Manager's inside it.
terminator_body ==
    \/ kill_running_lock \/ kill_running_load
    \/ \E v \in VMs, reply \in KillReplies : kill_running_each(v, reply)
    \/ kill_running_unlock \/ users_done

kill_pending ==
    \/ kill_pending_lock \/ kill_pending_load
    \/ \E v \in VMs, reply \in KillReplies : kill_pending_each(v, reply)
    \/ kill_pending_unlock
=============================================================================
