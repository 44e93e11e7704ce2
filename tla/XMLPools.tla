------------------------------ MODULE XMLPools ------------------------------
(***************************************************************************)
(* Who owns which piece of memory in ObjectXML and in the two pools that   *)
(* are built on it, VMPool and AcctPool, of the Priority Manager: what     *)
(* libxml2 and new give out is freed by hand, in seven places.             *)
(* A block is a document with its XPath context (xml and ctx, which are    *)
(* made and freed together), a copy of a node, or an object with the       *)
(* document it owns.                                                       *)
(***************************************************************************)
EXTENDS Integers, Sequences

CONSTANTS
    Blocks,   \* the addresses; the lowest free one is given out
    Items,    \* the VMs and accounting entries OpenNebula may answer with
    Owner,    \* the uid of each
    Valid,    \* of each pool: the items whose node has enough children
    Uids      \* the users of shares.conf, in the order of their sections

ASSUME XMLPoolsAssumption ==
    /\ Blocks \subseteq Nat /\ {0, 1} \subseteq Blocks
    /\ Items \subseteq Nat
    /\ Uids \in Seq(Nat) /\ Len(Uids) > 0

Pools == {"vm", "acct"}

VARIABLES
    heap,     \* the blocks in use
    xml,      \* of each pool: its document
    objects,  \* of each pool: the entries of its map: key, item, block
    pc, pool, \* where set_up is, and of which pool
    answer,   \* what the document has that the search looks for
    search,   \* the XPath expression it is at
    nodes,    \* the copies get_nodes has made: item, block
    todo,     \* the items whose node the loop has not visited
    made      \* list_acct_user: item, block

rest == <<pool, answer, search>>
vars == <<heap, xml, objects, pc, rest, nodes, todo, made>>

Init ==
    /\ heap = {0, 1}
    /\ xml = [p \in Pools |-> IF p = "vm" THEN 0 ELSE 1]
    /\ objects = [p \in Pools |-> {}]
    /\ pc = "idle" /\ pool = "vm" /\ search = 1
    /\ answer = {} /\ nodes = {} /\ todo = {} /\ made = {}

blocks(S) == {x.block : x \in S}
free(S) == heap' = heap \ S
allocate(b) ==
    /\ b \in Blocks \ heap
    /\ \A c \in Blocks \ heap : b <= c
    /\ heap' = heap \cup {b}
first(x, S) == x \in S /\ \A y \in S : x <= y
-----------------------------------------------------------------------------
(* set_up.                                                                 *)

flush ==
    /\ pc = "idle"
    /\ \E p \in Pools :
        /\ pool' = p
        /\ free(blocks(objects[p]))
        /\ objects' = [objects EXCEPT ![p] = {}]
    /\ pc' = "load"
    /\ UNCHANGED <<xml, answer, search, nodes, todo, made>>

\* MUTANT: the old document is freed before the call to OpenNebula.
load_late ==
    /\ pc = "load"
    /\ free({xml[pool]})
    /\ \/ pc' = "idle" /\ UNCHANGED answer
       \/ answer' \in SUBSET Items /\ pc' = "parse"
    /\ UNCHANGED <<xml, objects, pool, search, nodes, todo, made>>

\* load_vms and load_acct, and cleanup, which leaves the pointers as they are.
\* A failure returns early, a result that was never set throws.
load ==
    /\ pc = "load"
    /\ \/ pc' \in {"idle", "aborted"} /\ UNCHANGED <<heap, answer>>
       \/ answer' \in SUBSET Items /\ pc' = "parse" /\ free({xml[pool]})
    /\ UNCHANGED <<xml, objects, pool, search, nodes, todo, made>>

\* Nobody catches what xml_parse throws: the process ends on the spot.
xml_parse ==
    /\ pc = "parse"
    /\ \/ pc' = "aborted" /\ UNCHANGED <<heap, xml>>
       \/ \E b \in Blocks : /\ allocate(b)
                            /\ xml' = [xml EXCEPT ![pool] = b]
                            /\ pc' = "get_nodes"
    /\ UNCHANGED <<objects, rest, nodes, todo, made>>

searches(p) == IF p = "vm" THEN 1 ELSE Len(Uids)
matches == IF pool = "vm" THEN answer
           ELSE {x \in answer : Owner[x] = Uids[search]}
copied == {n.item : n \in nodes}

get_nodes ==
    /\ pc = "get_nodes"
    /\ \/ \E x \in Items, b \in Blocks :
            /\ first(x, matches \ copied)
            /\ allocate(b)
            /\ nodes' = nodes \cup {[item |-> x, block |-> b]}
            /\ UNCHANGED <<pc, todo>>
       \/ /\ matches \subseteq copied
          /\ todo' = copied
          /\ pc' = "make"
          /\ UNCHANGED <<heap, nodes>>
    /\ UNCHANGED <<xml, objects, rest, made>>

\* map::insert of objects under one key, which does not replace a value.
insert(p, key, new) ==
    objects' = IF key \in {o.key : o \in objects[p]} THEN objects
               ELSE [objects EXCEPT ![p] = @ \cup
                       {[key |-> key, item |-> n.item, block |-> n.block] : n \in new}]

\* A VM: a node that is not valid is passed over.
add_object(x) ==
    /\ pool = "vm"
    /\ \/ x \notin Valid["vm"] /\ UNCHANGED <<heap, objects>>
       \/ /\ x \in Valid["vm"]
          /\ \E b \in Blocks : /\ allocate(b)
                               /\ insert("vm", x, {[item |-> x, block |-> b]})
    /\ todo' = todo \ {x}
    /\ UNCHANGED made

\* An entry of a user: a node that is not valid makes it return, and the list
\* of the pointers goes with it.
make_user_object(x) ==
    /\ pool = "acct"
    /\ IF x \in Valid["acct"]
       THEN /\ \E b \in Blocks :
                 allocate(b) /\ made' = made \cup {[item |-> x, block |-> b]}
            /\ todo' = todo \ {x}
       ELSE todo' = {} /\ made' = {} /\ UNCHANGED heap
    /\ UNCHANGED objects

make ==
    /\ pc = "make"
    /\ \/ /\ \E x \in Items : /\ first(x, todo)
                              /\ add_object(x) \/ make_user_object(x)
          /\ UNCHANGED pc
       \/ /\ todo = {}
          /\ insert(pool, Uids[search], made)
          /\ made' = {}
          /\ pc' = "free_nodes"
          /\ UNCHANGED <<heap, todo>>
    /\ UNCHANGED <<xml, rest, nodes>>

\* MUTANT: the copies of the nodes are left.
free_nodes_forgotten ==
    /\ pc = "free_nodes"
    /\ nodes' = {}
    /\ IF search = searches(pool) THEN pc' = "idle" /\ search' = 1
       ELSE pc' = "get_nodes" /\ search' = search + 1
    /\ UNCHANGED <<heap, xml, objects, pool, answer, todo, made>>

\* MUTANT: one search too many.
free_nodes_past ==
    /\ pc = "free_nodes"
    /\ free(blocks(nodes)) /\ nodes' = {}
    /\ IF search > searches(pool) THEN pc' = "idle" /\ search' = 1
       ELSE pc' = "get_nodes" /\ search' = search + 1
    /\ UNCHANGED <<xml, objects, pool, answer, todo, made>>

free_nodes ==
    /\ pc = "free_nodes"
    /\ free(blocks(nodes)) /\ nodes' = {}
    /\ IF search = searches(pool) THEN pc' = "idle" /\ search' = 1
       ELSE pc' = "get_nodes" /\ search' = search + 1
    /\ UNCHANGED <<xml, objects, pool, answer, todo, made>>

set_up == flush \/ load \/ xml_parse \/ get_nodes \/ make \/ free_nodes
-----------------------------------------------------------------------------
(* The end of the process.                                                 *)

\* ~PriorityManager: both pools are flushed, and ~ObjectXML cleans up.
delete_pools ==
    /\ pc = "idle"
    /\ free(UNION {blocks(objects[p]) \cup {xml[p]} : p \in Pools})
    /\ objects' = [p \in Pools |-> {}]
    /\ pc' = "over"
    /\ UNCHANGED <<xml, rest, nodes, todo, made>>

\* The service is started again.
new_process ==
    /\ pc \in {"over", "aborted"}
    /\ heap' = {0, 1}
    /\ xml' = [p \in Pools |-> IF p = "vm" THEN 0 ELSE 1]
    /\ objects' = [p \in Pools |-> {}]
    /\ pc' = "idle" /\ pool' = "vm" /\ search' = 1
    /\ answer' = {} /\ nodes' = {} /\ todo' = {} /\ made' = {}

Next == set_up \/ delete_pools \/ new_process

Spec == Init /\ [][Next]_vars
=============================================================================
