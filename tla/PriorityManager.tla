-------------------------- MODULE PriorityManager ---------------------------
(***************************************************************************)
(* src/pm/PriorityManager.cc: the body of pm_loop after kill_pending.  The *)
(* manager polls the pending VMs into its own pool, gives each a priority  *)
(* and publishes the queue that the RPC server hands to the scheduler.     *)
(* "priorities" is the std::map<float, int, greater> of the code, as a set *)
(* of (priority, id) pairs in which no two have the same priority; the     *)
(* queue is the same pairs, read in decreasing order of priority.          *)
(***************************************************************************)
EXTENDS Terminator

\* The priorities that update_prio may give the VMs in one pass.  With
\* plugin_debug=0 the one function is the identity.
CONSTANT PrioMaps

ASSUME PrioAssumption == PrioMaps \subseteq [VMs -> Nat]

VARIABLES
    pm_objects,  \* the keys of vmpool->objects of the Priority Manager
    priorities,
    queue        \* the VMs of the last published queue

pm_vars == <<pm_objects, priorities, queue>>

PMLabels == {"get_pending", "usage", "prioritize", "make_queue"}

PMInit == pm_objects = {} /\ priorities = {} /\ queue = {}

keys(map) == {entry[1] : entry \in map}

\* map::insert in increasing order of id: a key that is there already stays.
insert_all(map, oids, prio) ==
    map \cup {<<prio[v], v>> : v \in
                {v \in oids : /\ prio[v] \notin keys(map)
                              /\ \A w \in oids : prio[w] = prio[v] => v <= w}}

\* The result code is logged and otherwise ignored.
get_pending ==
    /\ at("pm", "get_pending")
    /\ \E reply \in PollReplies :
        /\ pm_objects' = set_up(pm_objects, reply, pending_vms)
        /\ IF set_up_throws(reply)
           THEN ends("aborted")
           ELSE /\ goto("pm", "usage")
                /\ UNCHANGED <<mutex, stop_manager, process>>
    /\ UNCHANGED <<cloud, terminator_vars, priorities, queue>>

\* AcctPool::set_up makes one call and treats its outcome as VMPool does.
historical_usage ==
    /\ at("pm", "usage")
    /\ \E reply \in PollReplies :
         IF set_up_throws(reply)
         THEN ends("aborted")
         ELSE /\ goto("pm", "prioritize")
              /\ UNCHANGED <<mutex, stop_manager, process>>
    /\ UNCHANGED <<cloud, terminator_vars, pm_vars>>

do_prioritize ==
    /\ at("pm", "prioritize")
    /\ \E prio \in PrioMaps :
         priorities' = insert_all(priorities, pm_objects, prio)
    /\ goto("pm", "make_queue")
    /\ UNCHANGED <<mutex, stop_manager, process, cloud, terminator_vars,
                   pm_objects, queue>>

\* MUTANT: the map of the priorities is not cleared.
make_queue_uncleared ==
    /\ at("pm", "make_queue")
    /\ IF \E entry \in priorities : entry[2] \notin pm_objects
       THEN ends("crashed") /\ UNCHANGED queue
       ELSE /\ queue' = {entry[2] : entry \in priorities}
            /\ goto("pm", "top")
            /\ UNCHANGED <<mutex, stop_manager, process>>
    /\ UNCHANGED <<cloud, terminator_vars, pm_objects, priorities>>

\* MUTANT: the map of the priorities is cleared before it is read.
make_queue_cleared ==
    /\ at("pm", "make_queue")
    /\ queue' = {} /\ priorities' = {}
    /\ goto("pm", "top")
    /\ UNCHANGED <<mutex, stop_manager, process, cloud, terminator_vars,
                   pm_objects>>

\* An id of the map that has no object in the pool is a null pointer.
make_queue ==
    /\ at("pm", "make_queue")
    /\ IF \E entry \in priorities : entry[2] \notin pm_objects
       THEN ends("crashed") /\ UNCHANGED <<priorities, queue>>
       ELSE /\ queue' = {entry[2] : entry \in priorities}
            /\ priorities' = {}
            /\ goto("pm", "top")
            /\ UNCHANGED <<mutex, stop_manager, process>>
    /\ UNCHANGED <<cloud, terminator_vars, pm_objects>>

pm_body == get_pending \/ historical_usage \/ do_prioritize \/ make_queue
=============================================================================
