------------------------------- MODULE VMPool -------------------------------
(***************************************************************************)
(* include/VMPool.h and src/xml/VMPool.cc: a cache of VM objects that a    *)
(* caller refreshes with one one.vmpool.info call.  FaSS has two pools,    *)
(* one in the Priority Manager and one in the Terminator.  A pool is here  *)
(* the set of the ids that are keys of its map "objects"; every key owns   *)
(* an object that flush deletes.                                           *)
(***************************************************************************)
EXTENDS XMLRPCClient, OpenNebula

\* get_pending(): STATE=1 or ((LCM_STATE=3 or LCM_STATE=16) and RESCHED=1).
pending_vms == {v \in VMs : vm[v] \in {"pending", "resched"}}

\* get_running(uid): STATE=3 and UID=uid.
running_vms(uid) == {v \in VMs : vm[v] \in Active /\ Owner[v] = uid}

\* MUTANT: nothing is deleted before the new answer is added.
flush_skipped(objects) == objects

flush(objects) == {}

\* MUTANT: a node without an id is added under the default id -1.
set_up_any_node(objects, reply, search) ==
    flush(objects) \cup (IF reply = "ok" THEN search \cup {0-1} ELSE {})

\* The pool after set_up: flushed first, filled only from an answer of oned.
set_up(objects, reply, search) ==
    flush(objects) \cup (IF reply = "ok" THEN search ELSE {})

\* set_up returns -1: load_vms caught an exception, or ONE says failure.
set_up_fails(reply) == call_throws(reply) \/ reply = "refused"

\* set_up throws: it reads, outside any try, a result that was never set.
set_up_throws(reply) == ~call_throws(reply) /\ ~result_set(reply)
=============================================================================
