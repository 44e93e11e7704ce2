------------------------- MODULE XMLPoolsProperties -------------------------
(***************************************************************************)
(* The properties of XMLPools.                                             *)
(***************************************************************************)
EXTENDS XMLPools

Pieces == [item : Items, block : Blocks]
Entries == [key : Nat, item : Items, block : Blocks]

\* Type invariant.
TypeOK ==
    /\ heap \subseteq Blocks
    /\ xml \in [Pools -> Blocks]
    /\ objects \in [Pools -> SUBSET Entries]
    /\ pc \in {"idle", "load", "parse", "get_nodes", "make", "free_nodes",
               "over", "aborted"}
    /\ pool \in Pools
    /\ search \in 1 .. searches(pool)
    /\ answer \subseteq Items /\ todo \subseteq Items
    /\ nodes \subseteq Pieces /\ made \subseteq Pieces

alive == pc \notin {"over", "aborted"}

\* A pointer that who will follow or free again.
claim(who, what, x) == [who |-> who, what |-> what, it |-> x, block |-> x.block]

\* All of them; between cleanup and xml_parse the pool's document is none.
claims ==
    {claim(p, "document", [block |-> xml[p]]) :
        p \in Pools \ (IF pc = "parse" THEN {pool} ELSE {})}
    \cup (UNION {{claim(p, "object", o) : o \in objects[p]} : p \in Pools})
    \cup {claim("set_up", "node", n) : n \in nodes}
    \cup {claim("set_up", "object", n) : n \in made}

\* ObjectXML.h:70-78, VMPool.cc:88-96, AcctPool.cc:108-119: what is followed
\* or freed is in use and has one owner, so nothing is freed twice and nothing
\* used after: through failed polls, any answers, and the end of the process.
Owned ==
    alive => \A c \in claims :
                /\ c.block \in heap
                /\ \A d \in claims : c.block = d.block => c = d

\* The daemon runs for ever, so nothing may be forgotten: as long as no uid
\* is listed twice and all accounting entries are complete (AcctPool.cc:130 and
\* 138 forget a list otherwise), every block in use has an owner that will free
\* it, and at the end all is freed.
NothingLost == pc # "aborted" => heap \subseteq IF alive THEN blocks(claims) ELSE {}
=============================================================================
