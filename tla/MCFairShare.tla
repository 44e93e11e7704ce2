---------------------------- MODULE MCFairShare -----------------------------
(***************************************************************************)
(* Instances of the fair-share pass for TLC.                               *)
(***************************************************************************)
EXTENDS FairShareProperties

ann == 1
bob == 2
eve == 3

OneUser == << [uid |-> ann, share |-> 1] >>
TwoUsers == << [uid |-> ann, share |-> 1], [uid |-> bob, share |-> 2] >>

\* By VM; the oldest belongs to ann.
Owners == [v \in 0 .. 3 |-> IF v \in {0, 3} THEN ann ELSE bob]
Strangers == [v \in 0 .. 3 |-> eve]
ACore == [v \in 0 .. 3 |-> 4]
\* Three cores and a quarter, four cores: with shares 1 and 2, VMs 0 and 1 tie
\* after equal times.
Cpus == [v \in 0 .. 3 |-> IF v = 0 THEN 13 ELSE 16]
Memories == [v \in 0 .. 3 |-> v + 1]
=============================================================================
