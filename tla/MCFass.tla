------------------------------- MODULE MCFass -------------------------------
(***************************************************************************)
(* Instances of the daemon for TLC: at most two VMs and two users.         *)
(***************************************************************************)
EXTENDS FassProperties

OneUser    == <<7>>
TwoUsers   == <<8, 7>>
OwnedBy7   == [v \in VMs |-> 7]

\* plugin_debug = 0.
OidPriority == {[v \in VMs |-> v]}
=============================================================================
