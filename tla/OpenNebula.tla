----------------------------- MODULE OpenNebula -----------------------------
(***************************************************************************)
(* The cloud that FaSS watches (external): the life of each virtual        *)
(* machine as far as the XPath expressions of include/VMPool.h and the     *)
(* attributes of src/xml/VMObject.cc tell its states apart.                *)
(*   none     not instantiated yet                                         *)
(*   pending  STATE=1                                                      *)
(*   boot     STATE=3, its first history record still has STIME=0          *)
(*   running  STATE=3 with a start time                                    *)
(*   resched  running, LCM_STATE 3 or 16, with RESCHED=1                   *)
(*   off      suspended or powered off by FaSS                             *)
(*   deleted  removed by its user                                          *)
(*   reaped   removed by FaSS (one.vm.recover, operation 3)                *)
(***************************************************************************)
EXTENDS Naturals

CONSTANTS
    VMs,       \* VM ids (a VM id is used once)
    Owner,     \* the user id of each VM
    Static,    \* the VMs whose STATIC_VM attribute is not 0
    Resched    \* the VMs that OpenNebula may flag for rescheduling

ASSUME VMsAssumption == VMs \subseteq Nat /\ Static \subseteq VMs
                                          /\ Resched \subseteq VMs

VARIABLES
    vm,        \* the state of each VM
    late,      \* the existing VMs whose age (now - STIME) exceeds max_wait
    expired    \* the existing VMs that have been active for longer than the ttl of
               \* their owner (now - STIME of the first history record)

cloud == <<vm, late, expired>>

States == {"none", "pending", "boot", "running", "resched", "off",
           "deleted", "reaped"}
Gone   == {"none", "deleted", "reaped"}
Active == {"boot", "running", "resched"}            \* STATE=3

CloudTypeOK ==
    /\ vm \in [VMs -> States]
    /\ late \subseteq VMs
    /\ expired \subseteq VMs

CloudInit ==
    /\ vm = [v \in VMs |-> "none"]
    /\ late = {}
    /\ expired = {}

\* Only VMs that exist have an age.
forget_gone ==
    /\ late' = {v \in late : vm'[v] \notin Gone}
    /\ expired' = {v \in expired : vm'[v] \notin Gone}

becomes(v, from, to) ==
    /\ vm[v] \in from
    /\ vm' = [vm EXCEPT ![v] = to]
    /\ forget_gone

instantiate(v) == becomes(v, {"none"}, "pending")
deploy(v)      == becomes(v, {"pending"}, "boot")
booted(v)      == becomes(v, {"boot"}, "running")
reschedule(v)  == v \in Resched /\ becomes(v, {"running"}, "resched")
migrated(v)    == becomes(v, {"resched"}, "running")
resume(v)      == becomes(v, {"off"}, "running")
user_delete(v) == becomes(v, States \ Gone, "deleted")

\* Time passes: the VM is now older than max_wait.
wait_exceeded(v) ==
    /\ vm[v] \notin Gone /\ v \notin late
    /\ late' = late \cup {v}
    /\ UNCHANGED <<vm, expired>>

\* Time passes: the VM has been active for longer than the ttl.
life_exceeded(v) ==
    /\ vm[v] \in {"running", "resched", "off"} /\ v \notin expired
    /\ expired' = expired \cup {v}
    /\ UNCHANGED <<vm, late>>

environment(v) ==
    \/ instantiate(v) \/ deploy(v) \/ booted(v)
    \/ reschedule(v) \/ migrated(v) \/ resume(v) \/ user_delete(v)
    \/ wait_exceeded(v) \/ life_exceeded(v)

\* one.vm.recover with operation 3 (delete) executed on VM v.
recover_delete(v) ==
    IF vm[v] \in Gone THEN vm ELSE [vm EXCEPT ![v] = "reaped"]

\* one.vm.action executed on VM v; OpenNebula refuses it unless v is running.
vm_action(action, v) ==
    IF action \in {"suspend", "poweroff"} /\ vm[v] \in {"running", "resched"}
    THEN [vm EXCEPT ![v] = "off"] ELSE vm
=============================================================================
