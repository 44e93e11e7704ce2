------------------------------- MODULE Reaper -------------------------------
(***************************************************************************)
(* What FaSS promises about the VMs of the cloud, with no thread, pool,    *)
(* poll or lock in sight: it removes a VM only if the VM is dynamic and    *)
(* has waited for longer than max_wait or lived for longer than its ttl,   *)
(* and an action other than "kill" never removes a VM that is only past    *)
(* its ttl.  Module FassProperties shows that Fass implements it.          *)
(***************************************************************************)
EXTENDS OpenNebula

CONSTANTS
    Users,   \* the users that have a ttl
    Action   \* the option "action" of fassd.conf

\* The ttl of v is known and exceeded, and v may be acted upon.
overlived(v) == v \in expired \ Static /\ Owner[v] \in Users

remove_overdue(v) ==
    /\ v \in late \ Static
    /\ becomes(v, States \ Gone, "reaped")

remove_overlived(v) ==
    /\ Action = "kill"
    /\ overlived(v)
    /\ becomes(v, States \ Gone, "reaped")

switch_off(v) ==
    /\ Action \in {"suspend", "poweroff"}
    /\ overlived(v)
    /\ becomes(v, {"running", "resched"}, "off")

Next == \E v \in VMs : \/ environment(v)
                       \/ remove_overdue(v)
                       \/ remove_overlived(v)
                       \/ switch_off(v)

Spec == CloudInit /\ [][Next]_cloud
=============================================================================
