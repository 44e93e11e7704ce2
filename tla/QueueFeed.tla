----------------------------- MODULE QueueFeed ------------------------------
(***************************************************************************)
(* What FaSS gives to the scheduler that asks it for the pending VMs: a    *)
(* text that was the published queue at some moment between the request    *)
(* and the reply, or no queue at all.  Nothing keeps a reply from mixing   *)
(* two texts, but only if the publication of one of them lies between the  *)
(* request and the reply, too (a safe register, no regular one).  Module   *)
(* RPCProperties shows that RPCServer implements it.                       *)
(***************************************************************************)
CONSTANTS
    Clients, Queues,
    Nothing,    \* no answer
    Torn        \* a text that was never published

VARIABLES
    shown,   \* the published queue; while one replaces it, both and Torn
    offered, \* per client the texts it may be given; {} if it asks for none
    given    \* per client the last answer

feed == <<shown, offered, given>>

Init ==
    /\ \E text \in Queues : shown = {text}
    /\ offered = [c \in Clients |-> {}]
    /\ given = [c \in Clients |-> Nothing]

begin_publish(text) ==
    /\ shown' = shown \cup {text, Torn}
    /\ offered' = [c \in Clients |->
                     IF offered[c] = {} THEN {}
                     ELSE offered[c] \cup {text, Torn}]
    /\ UNCHANGED given

end_publish(text) ==
    /\ text \in shown
    /\ shown' = {text}
    /\ UNCHANGED <<offered, given>>

ask(c) ==
    /\ offered[c] = {}
    /\ offered' = [offered EXCEPT ![c] = shown]
    /\ given' = [given EXCEPT ![c] = Nothing]
    /\ UNCHANGED shown

give(c) ==
    /\ given' \in {[given EXCEPT ![c] = text] : text \in offered[c]}
    /\ offered' = [offered EXCEPT ![c] = {}]
    /\ UNCHANGED shown

\* The client goes away, or hands in another request.
leave(c) ==
    /\ offered' = [offered EXCEPT ![c] = {}]
    /\ given' = [given EXCEPT ![c] = Nothing]
    /\ UNCHANGED shown

Next ==
    \/ \E text \in Queues : begin_publish(text) \/ end_publish(text)
    \/ \E c \in Clients : ask(c) \/ give(c) \/ leave(c)

Spec == Init /\ [][Next]_feed
=============================================================================
