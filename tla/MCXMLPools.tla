----------------------------- MODULE MCXMLPools -----------------------------
(***************************************************************************)
(* Instances of the pools for TLC.                                         *)
(***************************************************************************)
EXTENDS XMLPoolsProperties

\* Two entries of the first user, one of the second.
Owners == [x \in 1 .. 3 |-> IF x = 3 THEN 2 ELSE 1]
TwoUsers == <<1, 2>>

\* OpenNebula's entries are complete; a node of a VM may not be.
Complete == [p \in {"vm", "acct"} |-> IF p = "vm" THEN {1, 3} ELSE 1 .. 3]
=============================================================================
