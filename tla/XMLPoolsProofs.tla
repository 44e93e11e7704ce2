--------------------------- MODULE XMLPoolsProofs ---------------------------
(***************************************************************************)
(* What XMLPools holds is owned once and never lost, for any number of     *)
(* blocks, items, owners and users.                                        *)
(***************************************************************************)
EXTENDS XMLPoolsProperties, TLAPS

(* Types.  A search past the first is only under way with a document.      *)

SearchReset == pc \in {"idle", "load", "parse"} => search = 1

Typed == TypeOK /\ SearchReset

LEMMA Searches == \A p \in Pools : searches(p) \in Nat /\ 1 \in 1 .. searches(p)
  BY XMLPoolsAssumption DEF searches, Pools

LEMMA TypedInit == Init => Typed
  BY XMLPoolsAssumption, Searches DEF Init, Typed, TypeOK, SearchReset, Pools

\* map::insert keeps what the maps are made of.
LEMMA InsertTypes ==
    ASSUME objects \in [Pools -> SUBSET Entries], NEW p \in Pools,
           NEW key \in Nat, NEW new \in SUBSET Pieces, insert(p, key, new)
    PROVE  objects' \in [Pools -> SUBSET Entries]
<1>1. {[key |-> key, item |-> n.item, block |-> n.block] : n \in new}
          \in SUBSET Entries
  BY DEF Pieces, Entries
<1> QED BY <1>1 DEF insert

LEMMA MakeTypes == Typed /\ make => Typed'
<1> SUFFICES ASSUME Typed, make PROVE Typed'
  OBVIOUS
<1> USE DEF Typed, TypeOK
<1>1. UNCHANGED <<xml, pool, answer, search, nodes>>
      /\ pc = "make" /\ pc' \in {"make", "free_nodes"}
  BY DEF make, rest
<1>2. ASSUME NEW x \in Items, first(x, todo), add_object(x) PROVE Typed'
  <2>1. heap' \subseteq Blocks /\ todo' \subseteq Items /\ made' = made
    BY <1>2 DEF add_object, allocate
  <2>2. objects' \in [Pools -> SUBSET Entries]
    <3>1. CASE objects' = objects
      BY <3>1
    <3>2. ASSUME NEW b \in Blocks, insert("vm", x, {[item |-> x, block |-> b]})
          PROVE  objects' \in [Pools -> SUBSET Entries]
      <4>1. {[item |-> x, block |-> b]} \in SUBSET Pieces /\ "vm" \in Pools
            /\ x \in Nat
        BY XMLPoolsAssumption DEF Pieces, Pools
      <4> QED BY <3>2, <4>1, InsertTypes
    <3> QED BY <1>2, <3>1, <3>2 DEF add_object
  <2> QED BY <1>1, <2>1, <2>2 DEF SearchReset, searches
<1>3. ASSUME NEW x \in Items, first(x, todo), make_user_object(x) PROVE Typed'
  <2>1. /\ heap' \subseteq Blocks /\ todo' \subseteq Items
        /\ made' \subseteq Pieces /\ objects' = objects
    BY <1>3 DEF make_user_object, allocate, Pieces
  <2> QED BY <1>1, <2>1 DEF SearchReset, searches
<1>4. CASE /\ insert(pool, Uids[search], made) /\ made' = {}
           /\ UNCHANGED <<heap, todo>>
  <2>1. Uids[search] \in Nat
    BY XMLPoolsAssumption DEF searches
  <2>2. objects' \in [Pools -> SUBSET Entries]
    BY <1>4, <2>1, InsertTypes
  <2> QED BY <1>1, <1>4, <2>2 DEF SearchReset, searches
<1> QED BY <1>2, <1>3, <1>4 DEF make

LEMMA TypedStep == Typed /\ [Next]_vars => Typed'
<1> SUFFICES ASSUME Typed, [Next]_vars PROVE Typed'
  OBVIOUS
<1> USE Searches DEF Typed, TypeOK, SearchReset, searches
<1>1. CASE flush \/ delete_pools
  <2>1. objects' \in [Pools -> SUBSET Entries]
    BY <1>1 DEF flush, delete_pools
  <2>2. heap' \subseteq Blocks /\ pool' \in Pools /\ search' = 1 /\ pc = "idle"
    BY <1>1 DEF flush, delete_pools, free, rest
  <2>3. search' \in 1 .. searches(pool')
    BY <2>2
  <2> QED
    <3>1. CASE flush
      BY <3>1, <2>1, <2>2, <2>3 DEF flush
    <3>2. CASE delete_pools
      BY <3>2, <2>1, <2>2, <2>3 DEF delete_pools, rest
    <3> QED BY <1>1, <3>1, <3>2
<1>2. CASE load
  BY <1>2 DEF load, free
<1>3. CASE xml_parse
  BY <1>3 DEF xml_parse, allocate, rest
<1>4. CASE get_nodes
  <2>1. heap' \subseteq Blocks /\ nodes' \subseteq Pieces
    BY <1>4 DEF get_nodes, allocate, Pieces
  <2>2. todo' \subseteq Items /\ pc = "get_nodes" /\ pc' \in {"get_nodes", "make"}
    BY <1>4 DEF get_nodes, copied, Pieces
  <2> QED BY <1>4, <2>1, <2>2 DEF get_nodes, rest
<1>5. CASE make
  BY <1>5, MakeTypes
<1>6. CASE free_nodes
  BY <1>6 DEF free_nodes, free
<1>7. CASE new_process
  BY <1>7, XMLPoolsAssumption DEF new_process, Pools
<1>8. CASE UNCHANGED vars
  BY <1>8 DEF vars, rest
<1> QED
  BY <1>1, <1>2, <1>3, <1>4, <1>5, <1>6, <1>7, <1>8 DEF Next, set_up

\* The type invariant of the pools.
THEOREM TypeCorrect == Spec => []TypeOK
  BY TypedInit, TypedStep, PTL DEF Spec, Typed
-----------------------------------------------------------------------------
(* Ownership.                                                              *)

InClaims(c) ==
    \/ \E p \in Pools : /\ ~(pc = "parse" /\ p = pool)
                        /\ c = claim(p, "document", [block |-> xml[p]])
    \/ \E p \in Pools : \E o \in objects[p] : c = claim(p, "object", o)
    \/ \E n \in nodes : c = claim("set_up", "node", n)
    \/ \E n \in made : c = claim("set_up", "object", n)

LEMMA ClaimCases ==
    /\ \A c : c \in claims <=> InClaims(c)
    /\ \A c : c \in claims' <=> InClaims(c)'
<1>1. ASSUME NEW c PROVE c \in claims <=> InClaims(c)
  <2> DEFINE D == {claim(p, "document", [block |-> xml[p]]) :
                       p \in Pools \ (IF pc = "parse" THEN {pool} ELSE {})}
             O == UNION {{claim(p, "object", o) : o \in objects[p]} : p \in Pools}
             N == {claim("set_up", "node", n) : n \in nodes}
             M == {claim("set_up", "object", n) : n \in made}
  <2>1. claims = D \cup O \cup N \cup M
    BY DEF claims
  <2>2. c \in D <=> \E p \in Pools : /\ ~(pc = "parse" /\ p = pool)
                                     /\ c = claim(p, "document", [block |-> xml[p]])
    OBVIOUS
  <2>3. c \in O <=> \E p \in Pools : \E o \in objects[p] : c = claim(p, "object", o)
    OBVIOUS
  <2>4. /\ c \in N <=> \E n \in nodes : c = claim("set_up", "node", n)
        /\ c \in M <=> \E n \in made : c = claim("set_up", "object", n)
    OBVIOUS
  <2> HIDE DEF D, O, N, M
  <2> QED BY <2>1, <2>2, <2>3, <2>4 DEF InClaims
<1>2. ASSUME NEW c PROVE c \in claims' <=> InClaims(c)'
  <2> DEFINE D == {claim(p, "document", [block |-> xml'[p]]) :
                       p \in Pools \ (IF pc' = "parse" THEN {pool'} ELSE {})}
             O == UNION {{claim(p, "object", o) : o \in objects'[p]} : p \in Pools}
             N == {claim("set_up", "node", n) : n \in nodes'}
             M == {claim("set_up", "object", n) : n \in made'}
  <2>1. claims' = D \cup O \cup N \cup M
    BY DEF claims
  <2>2. c \in D <=> \E p \in Pools : /\ ~(pc' = "parse" /\ p = pool')
                                     /\ c = claim(p, "document", [block |-> xml'[p]])
    OBVIOUS
  <2>3. c \in O <=> \E p \in Pools : \E o \in objects'[p] : c = claim(p, "object", o)
    OBVIOUS
  <2>4. /\ c \in N <=> \E n \in nodes' : c = claim("set_up", "node", n)
        /\ c \in M <=> \E n \in made' : c = claim("set_up", "object", n)
    OBVIOUS
  <2> HIDE DEF D, O, N, M
  <2> QED BY <2>1, <2>2, <2>3, <2>4 DEF InClaims
<1> QED BY <1>1, <1>2

LEMMA ClaimFields ==
    \A w, k, x : /\ claim(w, k, x).block = x.block
                 /\ \A v, l, y : claim(w, k, x) = claim(v, l, y) =>
                                     w = v /\ k = l /\ x = y
<1> SUFFICES ASSUME NEW w, NEW k, NEW x
             PROVE  /\ claim(w, k, x).block = x.block
                    /\ \A v, l, y : claim(w, k, x) = claim(v, l, y) =>
                                     w = v /\ k = l /\ x = y
  OBVIOUS
<1>1. /\ claim(w, k, x).who = w /\ claim(w, k, x).what = k
      /\ claim(w, k, x).it = x /\ claim(w, k, x).block = x.block
  BY DEF claim
<1>2. ASSUME NEW v, NEW l, NEW y
      PROVE  /\ claim(v, l, y).who = v /\ claim(v, l, y).what = l
             /\ claim(v, l, y).it = y
  BY DEF claim
<1> QED BY <1>1, <1>2

\* What is freed had no other owner.
LEMMA Freed ==
    ASSUME Owned, alive, NEW gone \in SUBSET claims,
           claims' \subseteq claims \ gone, heap' = heap \ blocks(gone)
    PROVE  Owned'
  BY DEF Owned, blocks

\* What is allocated had no owner.
LEMMA Allocated ==
    ASSUME Owned, alive, NEW b \in Blocks, allocate(b),
           NEW c, c.block = b, claims' \subseteq claims \cup {c}
    PROVE  Owned'
  BY DEF Owned, allocate

LEMMA FlushOwned == Typed /\ Owned /\ flush => Owned'
<1> SUFFICES ASSUME Typed, Owned, flush PROVE Owned'
  OBVIOUS
<1>1. PICK p \in Pools : /\ heap' = heap \ blocks(objects[p])
                         /\ objects' = [objects EXCEPT ![p] = {}]
  BY DEF flush, free
<1>2. UNCHANGED <<xml, nodes, made>> /\ pc = "idle" /\ pc' = "load"
  BY DEF flush
<1> DEFINE gone == {claim(p, "object", o) : o \in objects[p]}
<1>3. blocks(gone) = blocks(objects[p])
  BY ClaimFields DEF blocks
<1>4. gone \in SUBSET claims
  BY ClaimCases DEF InClaims
<1>5. claims' \subseteq claims \ gone
  <2> SUFFICES ASSUME NEW c \in claims' PROVE c \in claims /\ c \notin gone
    OBVIOUS
  <2>1. c \in claims
    BY <1>1, <1>2, ClaimCases DEF InClaims, Typed, TypeOK
  <2>2. ASSUME NEW o \in objects[p], c = claim(p, "object", o) PROVE FALSE
    BY <1>1, <1>2, <2>2, ClaimCases, ClaimFields
       DEF InClaims, Typed, TypeOK, Pools
  <2> QED BY <2>1, <2>2
<1> HIDE DEF gone
<1> QED BY <1>1, <1>2, <1>3, <1>4, <1>5, Freed DEF alive

LEMMA LoadOwned == Typed /\ Owned /\ load => Owned'
<1> SUFFICES ASSUME Typed, Owned, load PROVE Owned'
  OBVIOUS
<1>1. UNCHANGED <<xml, objects, pool, nodes, made>> /\ pc = "load" /\ alive
  BY DEF load, alive
<1>2. CASE pc' \in {"idle", "aborted"}
  <2>1. claims' = claims /\ heap' = heap
    BY <1>1, <1>2 DEF load, claims
  <2> QED BY <1>1, <2>1 DEF Owned
<1>3. CASE pc' = "parse" /\ heap' = heap \ {xml[pool]}
  <2> DEFINE mine == claim(pool, "document", [block |-> xml[pool]])
  <2>1. mine \in claims /\ mine.block = xml[pool]
    BY <1>1, ClaimCases, ClaimFields DEF InClaims, Typed, TypeOK
  <2>2. claims' \subseteq claims \ {mine}
    <3> SUFFICES ASSUME NEW c \in claims' PROVE c \in claims /\ c # mine
      OBVIOUS
    <3>1. c \in claims
      BY <1>1, <1>3, ClaimCases DEF InClaims
    <3>2. \/ \E p \in Pools \ {pool} : c = claim(p, "document", [block |-> xml[p]])
          \/ \E p \in Pools : \E o \in objects[p] : c = claim(p, "object", o)
          \/ \E n \in nodes : c = claim("set_up", "node", n)
          \/ \E n \in made : c = claim("set_up", "object", n)
      BY <1>1, <1>3, ClaimCases DEF InClaims
    <3>3. ASSUME NEW w, NEW k, NEW x, c = claim(w, k, x),
                 w # pool \/ k # "document"
          PROVE  c # mine
      BY <3>3, ClaimFields
    <3> HIDE DEF mine
    <3>4. c # mine
      BY <3>2, <3>3
    <3> QED BY <3>1, <3>4
  <2> HIDE DEF mine
  <2>3. blocks({mine}) = {xml[pool]}
    BY <2>1 DEF blocks
  <2> QED BY <1>1, <1>3, <2>1, <2>2, <2>3, Freed
<1> QED BY <1>2, <1>3 DEF load, free

LEMMA ParseOwned == Typed /\ Owned /\ xml_parse => Owned'
<1> SUFFICES ASSUME Typed, Owned, xml_parse PROVE Owned'
  OBVIOUS
<1>1. CASE pc' = "aborted"
  BY <1>1 DEF Owned, alive
<1>2. ASSUME NEW b \in Blocks, allocate(b), xml' = [xml EXCEPT ![pool] = b],
             pc' = "get_nodes"
      PROVE  Owned'
  <2> DEFINE new == claim(pool, "document", [block |-> b])
  <2>1. UNCHANGED <<objects, pool, nodes, made>> /\ pc = "parse" /\ alive
    BY DEF xml_parse, rest, alive
  <2>2. claims' \subseteq claims \cup {new}
    BY <1>2, <2>1, ClaimCases DEF InClaims, Typed, TypeOK
  <2>3. new.block = b
    BY ClaimFields
  <2> HIDE DEF new
  <2> QED BY <1>2, <2>1, <2>2, <2>3, Allocated
<1> QED BY <1>1, <1>2 DEF xml_parse

LEMMA GetNodesOwned == Typed /\ Owned /\ get_nodes => Owned'
<1> SUFFICES ASSUME Typed, Owned, get_nodes PROVE Owned'
  OBVIOUS
<1>1. UNCHANGED <<xml, objects, pool, made>> /\ pc = "get_nodes" /\ alive
      /\ pc' \in {"get_nodes", "make"}
  BY DEF get_nodes, rest, alive
<1>2. CASE UNCHANGED <<heap, nodes>>
  <2>1. claims' = claims
    BY <1>1, <1>2 DEF claims
  <2> QED BY <1>1, <1>2, <2>1 DEF Owned
<1>3. ASSUME NEW x \in Items, NEW b \in Blocks, allocate(b),
             nodes' = nodes \cup {[item |-> x, block |-> b]}
      PROVE  Owned'
  <2> DEFINE new == claim("set_up", "node", [item |-> x, block |-> b])
  <2>1. claims' \subseteq claims \cup {new}
    BY <1>1, <1>3, ClaimCases DEF InClaims
  <2>2. new.block = b
    BY ClaimFields
  <2> HIDE DEF new
  <2> QED BY <1>1, <1>3, <2>1, <2>2, Allocated
<1> QED BY <1>2, <1>3 DEF get_nodes

\* A new object goes into the map, or is lost if its key is taken.
LEMMA AddOwned ==
    ASSUME Typed, Owned, alive, pc \notin {"parse"},
           UNCHANGED <<xml, pool, nodes>>, pc' = pc,
           NEW x \in Items, add_object(x)
    PROVE  Owned'
<1>1. made' = made
  BY DEF add_object
<1>2. CASE UNCHANGED <<heap, objects>>
  <2>1. claims' = claims
    BY <1>1, <1>2 DEF claims
  <2> QED BY <1>2, <2>1 DEF Owned, alive
<1>3. ASSUME NEW b \in Blocks, allocate(b),
             insert("vm", x, {[item |-> x, block |-> b]})
      PROVE  Owned'
  <2> DEFINE entry == [key |-> x, item |-> x, block |-> b]
             new == claim("vm", "object", entry)
  <2>1. {[key |-> x, item |-> n.item, block |-> n.block] :
            n \in {[item |-> x, block |-> b]}} = {entry}
    OBVIOUS
  <2> HIDE DEF entry
  <2>2. \/ objects' = objects
        \/ objects' = [objects EXCEPT !["vm"] = @ \cup {entry}]
    BY <1>3, <2>1 DEF insert
  <2>3. \A p \in Pools : \A o \in objects'[p] :
            o \in objects[p] \/ (p = "vm" /\ o = entry)
    BY <2>2 DEF Typed, TypeOK
  <2>4. claims' \subseteq claims \cup {new}
    <3>1. "vm" \in Pools
      BY DEF Pools
    <3> QED BY <1>1, <2>3, <3>1, ClaimCases DEF InClaims
  <2>5. new.block = b
    BY ClaimFields DEF entry
  <2> HIDE DEF new
  <2> QED BY <1>3, <2>4, <2>5, Allocated
<1> QED BY <1>2, <1>3 DEF add_object

LEMMA MakeUserOwned ==
    ASSUME Typed, Owned, alive, pc \notin {"parse"},
           UNCHANGED <<xml, pool, nodes>>, pc' = pc,
           NEW x \in Items, make_user_object(x)
    PROVE  Owned'
<1>1. objects' = objects
  BY DEF make_user_object
<1>2. CASE made' = {} /\ heap' = heap
  <2>1. claims' \subseteq claims
    BY <1>1, <1>2 DEF claims
  <2> QED BY <1>2, <2>1 DEF Owned, alive
<1>3. ASSUME NEW b \in Blocks, allocate(b),
             made' = made \cup {[item |-> x, block |-> b]}
      PROVE  Owned'
  <2> DEFINE new == claim("set_up", "object", [item |-> x, block |-> b])
  <2>1. claims' \subseteq claims \cup {new}
    BY <1>1, <1>3, ClaimCases DEF InClaims
  <2>2. new.block = b
    BY ClaimFields
  <2> HIDE DEF new
  <2> QED BY <1>3, <2>1, <2>2, Allocated
<1> QED BY <1>2, <1>3 DEF make_user_object

\* The list made for a user changes hands, object by object.
LEMMA InsertOwned ==
    ASSUME Typed, Owned, pc = "make", pc' = "free_nodes",
           insert(pool, Uids[search], made), made' = {},
           UNCHANGED <<heap, xml, pool, nodes>>
    PROVE  Owned'
<1> DEFINE entry(n) == [key |-> Uids[search], item |-> n.item, block |-> n.block]
<1>1. \A p \in Pools : \A o \in objects'[p] :
          \/ o \in objects[p]
          \/ p = pool /\ \E n \in made : o = entry(n)
  <2>1. \/ objects' = objects
        \/ objects' = [objects EXCEPT ![pool] = @ \cup {entry(n) : n \in made}]
    BY DEF insert
  <2> HIDE DEF entry
  <2> QED BY <2>1 DEF Typed, TypeOK
<1>2. \A n : entry(n).block = n.block
  OBVIOUS
<1> HIDE DEF entry
<1>3. \A c \in claims' :
          \/ c \in claims /\ \A n \in made : c # claim("set_up", "object", n)
          \/ \E n \in made : c = claim(pool, "object", entry(n))
  <2> SUFFICES ASSUME NEW c \in claims',
                      \A n \in made : c # claim(pool, "object", entry(n))
               PROVE  c \in claims /\ \A n \in made : c # claim("set_up", "object", n)
    OBVIOUS
  <2>1. \/ \E p \in Pools : c = claim(p, "document", [block |-> xml[p]])
        \/ \E p \in Pools : \E o \in objects[p] : c = claim(p, "object", o)
        \/ \E n \in nodes : c = claim("set_up", "node", n)
    BY <1>1, ClaimCases DEF InClaims
  <2>2. c \in claims
    BY <2>1, ClaimCases DEF InClaims
  <2>3. \A n \in made : c # claim("set_up", "object", n)
    BY <2>1, ClaimFields DEF Pools
  <2> QED BY <2>2, <2>3
<1>4. \A n \in made : claim("set_up", "object", n) \in claims
  BY ClaimCases DEF InClaims
<1>5. \A c \in claims : /\ c.block \in heap
                        /\ \A d \in claims : c.block = d.block => c = d
  BY DEF Owned, alive
<1>6. \A n \in made : /\ claim("set_up", "object", n).block = n.block
                      /\ claim(pool, "object", entry(n)).block = n.block
  BY <1>2, ClaimFields
<1>7. \A m, n \in made : m.block = n.block => m = n
  BY <1>4, <1>5, <1>6, ClaimFields
<1>8. ASSUME NEW c \in claims' PROVE c.block \in heap
  BY <1>3, <1>4, <1>5, <1>6
<1>9. ASSUME NEW c \in claims', NEW d \in claims', c.block = d.block PROVE c = d
  <2>1. CASE \E n \in made : c = claim(pool, "object", entry(n))
    BY <1>3, <1>4, <1>5, <1>6, <1>7, <1>9, <2>1
  <2>2. CASE \E n \in made : d = claim(pool, "object", entry(n))
    BY <1>3, <1>4, <1>5, <1>6, <1>7, <1>9, <2>2
  <2> QED BY <1>3, <1>5, <1>9, <2>1, <2>2
<1> QED BY <1>8, <1>9 DEF Owned

LEMMA MakeOwned == Typed /\ Owned /\ make => Owned'
<1> SUFFICES ASSUME Typed, Owned, make PROVE Owned'
  OBVIOUS
<1>1. UNCHANGED <<xml, pool, nodes>> /\ pc = "make" /\ alive
  BY DEF make, rest, alive
<1> QED BY <1>1, AddOwned, MakeUserOwned, InsertOwned DEF make

LEMMA FreeNodesOwned == Typed /\ Owned /\ free_nodes => Owned'
<1> SUFFICES ASSUME Typed, Owned, free_nodes PROVE Owned'
  OBVIOUS
<1>1. /\ UNCHANGED <<xml, objects, pool, made>> /\ pc = "free_nodes" /\ alive
      /\ pc' \in {"idle", "get_nodes"} /\ nodes' = {}
      /\ heap' = heap \ blocks(nodes)
  BY DEF free_nodes, alive, free
<1> DEFINE gone == {claim("set_up", "node", n) : n \in nodes}
<1>2. blocks(gone) = blocks(nodes)
  BY ClaimFields DEF blocks
<1>3. gone \in SUBSET claims
  BY ClaimCases DEF InClaims
<1>4. claims' \subseteq claims \ gone
  <2> SUFFICES ASSUME NEW c \in claims' PROVE c \in claims /\ c \notin gone
    OBVIOUS
  <2>1. \/ \E p \in Pools : c = claim(p, "document", [block |-> xml[p]])
        \/ \E p \in Pools : \E o \in objects[p] : c = claim(p, "object", o)
        \/ \E n \in made : c = claim("set_up", "object", n)
    BY <1>1, ClaimCases DEF InClaims
  <2>2. c \in claims
    BY <1>1, <2>1, ClaimCases DEF InClaims
  <2>3. c \notin gone
    BY <2>1, ClaimFields DEF Pools
  <2> QED BY <2>2, <2>3
<1> HIDE DEF gone
<1> QED BY <1>1, <1>2, <1>3, <1>4, Freed

\* Nothing is freed twice and nothing used after it was freed.
THEOREM OwnedOnce == Spec => []Owned
<1>1. Init => Owned
  <2> SUFFICES ASSUME Init PROVE Owned
    OBVIOUS
  <2>1. \A c \in claims : \E p \in Pools : c = claim(p, "document", [block |-> xml[p]])
    BY ClaimCases DEF Init, InClaims
  <2>2. \A p \in Pools : xml[p] = IF p = "vm" THEN 0 ELSE 1
    BY DEF Init
  <2> QED BY <2>1, <2>2, ClaimFields DEF Owned, Init, Pools
<1>2. Typed /\ Owned /\ [Next]_vars => Owned'
  <2> SUFFICES ASSUME Typed, Owned, [Next]_vars PROVE Owned'
    OBVIOUS
  <2>1. CASE delete_pools
    BY <2>1 DEF delete_pools, Owned, alive
  <2>2. CASE new_process
    <3>1. \A c \in claims' : \E p \in Pools : c = claim(p, "document", [block |-> xml'[p]])
      BY <2>2, ClaimCases DEF new_process, InClaims
    <3>2. \A p \in Pools : xml'[p] = IF p = "vm" THEN 0 ELSE 1
      BY <2>2 DEF new_process
    <3> QED BY <2>2, <3>1, <3>2, ClaimFields DEF Owned, new_process, Pools
  <2>3. CASE UNCHANGED vars
    <3>1. claims' = claims /\ heap' = heap /\ pc' = pc
      BY <2>3 DEF vars, rest, claims
    <3> QED BY <3>1 DEF Owned, alive
  <2> QED
    BY <2>1, <2>2, <2>3, FlushOwned, LoadOwned, ParseOwned, GetNodesOwned,
       MakeOwned, FreeNodesOwned DEF Next, set_up
<1> QED BY <1>1, <1>2, TypedInit, TypedStep, PTL DEF Spec
-----------------------------------------------------------------------------
(* Nothing is lost: a list made for a user finds its key free, and so does *)
(* every new VM, because set_up starts with an empty map.                  *)

UidsDistinct == \A i, j \in 1 .. Len(Uids) : Uids[i] = Uids[j] => i = j
EntriesComplete == Valid["acct"] = Items

Transient ==
    /\ pc \in {"idle", "load", "parse"} => nodes = {}
    /\ pc # "make" \/ pool = "vm" => made = {}

\* No object has the key that is inserted next.
KeysFree ==
    /\ pc \in {"load", "parse"} => objects[pool] = {}
    /\ pc = "get_nodes" /\ pool = "vm" => objects["vm"] = {}
    /\ pc = "make" /\ pool = "vm" => \A o \in objects["vm"] : o.key \notin todo
    /\ pc \in {"get_nodes", "make"} /\ pool = "acct" =>
          \A o \in objects["acct"] : \E i \in 1 .. search - 1 : o.key = Uids[i]
    /\ pc = "free_nodes" /\ pool = "acct" =>
          \A o \in objects["acct"] : \E i \in 1 .. search : o.key = Uids[i]

LEMMA InsertedKey ==
    ASSUME objects \in [Pools -> SUBSET Entries], NEW p \in Pools,
           NEW key, NEW new, insert(p, key, new),
           NEW o \in objects'[p], o \notin objects[p]
    PROVE  o.key = key
<1> DEFINE entries ==
        {[key |-> key, item |-> n.item, block |-> n.block] : n \in new}
<1>1. \A e \in entries : e.key = key
  OBVIOUS
<1>2. objects' = objects \/ objects' = [objects EXCEPT ![p] = @ \cup entries]
  BY DEF insert
<1> HIDE DEF entries
<1> QED BY <1>1, <1>2

LEMMA TransientStep == Typed /\ Transient /\ [Next]_vars => Transient'
<1> SUFFICES ASSUME Typed, Transient, [Next]_vars PROVE Transient'
  OBVIOUS
<1> USE DEF Transient, Typed, TypeOK, Pools
<1>1. CASE flush \/ load \/ xml_parse \/ get_nodes
  BY <1>1 DEF flush, load, xml_parse, get_nodes, rest
<1>2. CASE make
  BY <1>2 DEF make, add_object, make_user_object, rest
<1>3. CASE free_nodes \/ delete_pools \/ new_process \/ UNCHANGED vars
  BY <1>3 DEF free_nodes, delete_pools, new_process, vars, rest
<1> QED BY <1>1, <1>2, <1>3 DEF Next, set_up

LEMMA KeysStep == Typed /\ KeysFree /\ [Next]_vars => KeysFree'
<1> SUFFICES ASSUME Typed, KeysFree, [Next]_vars PROVE KeysFree'
  OBVIOUS
<1> USE DEF KeysFree, Typed, TypeOK
<1>1. CASE flush
  BY <1>1 DEF flush
<1>2. CASE load
  BY <1>2 DEF load
<1>3. CASE xml_parse
  BY <1>3 DEF xml_parse, SearchReset, rest
<1>4. CASE get_nodes
  BY <1>4 DEF get_nodes, rest
<1>5. CASE make
  <2>1. UNCHANGED <<pool, search>> /\ pc = "make" /\ search \in Nat \ {0}
        /\ search <= Len(Uids)
    BY <1>5, XMLPoolsAssumption DEF make, rest, searches
  <2>2. ASSUME NEW x \in Items, first(x, todo), add_object(x), pc' = pc
        PROVE  KeysFree'
    <3>1. \A o \in objects'["vm"] : o \in objects["vm"] \/ o.key = x
      BY <2>2, InsertedKey DEF add_object, Pools
    <3> QED BY <2>1, <2>2, <3>1 DEF add_object
  <2>3. ASSUME NEW x \in Items, first(x, todo), make_user_object(x), pc' = pc
        PROVE  KeysFree'
    BY <2>1, <2>3 DEF make_user_object
  <2>4. CASE insert(pool, Uids[search], made) /\ pc' = "free_nodes"
    <3>1. pool = "acct" => \A o \in objects'["acct"] :
              o \in objects["acct"] \/ o.key = Uids[search]
      BY <2>4, InsertedKey DEF Pools
    <3>2. 1 .. search - 1 \subseteq 1 .. search /\ search \in 1 .. search
      BY <2>1
    <3> QED BY <2>1, <2>4, <3>1, <3>2
  <2> QED BY <1>5, <2>2, <2>3, <2>4 DEF make
<1>6. CASE free_nodes
  <2>1. CASE search = searches(pool)
    BY <1>6, <2>1 DEF free_nodes
  <2>2. CASE search # searches(pool)
    <3>1. /\ pc' = "get_nodes" /\ search' = search + 1 /\ pc = "free_nodes"
          /\ UNCHANGED <<objects, pool>>
      BY <1>6, <2>2 DEF free_nodes
    <3>2. pool = "acct" /\ search' - 1 = search
      BY <2>2, <3>1, XMLPoolsAssumption DEF searches, Pools
    <3> QED BY <3>1, <3>2
  <2> QED BY <2>1, <2>2
<1>7. CASE delete_pools \/ new_process \/ UNCHANGED vars
  BY <1>7 DEF delete_pools, new_process, vars, rest
<1> QED
  BY <1>1, <1>2, <1>3, <1>4, <1>5, <1>6, <1>7 DEF Next, set_up

\* NothingLost, block by block.
Accounted(b) ==
    \/ \E p \in Pools : ~(pc = "parse" /\ p = pool) /\ b = xml[p]
    \/ \E p \in Pools : \E o \in objects[p] : b = o.block
    \/ \E n \in nodes : b = n.block
    \/ \E n \in made : b = n.block

Kept == pc # "aborted" => \A b \in heap : alive /\ Accounted(b)

LostInv == Typed /\ Transient /\ KeysFree /\ Kept

LEMMA Accounting == Kept => NothingLost
<1> SUFFICES ASSUME Kept, pc # "aborted", NEW b \in heap
             PROVE  alive /\ b \in blocks(claims)
  BY DEF NothingLost
<1>1. alive /\ Accounted(b)
  BY DEF Kept
<1>2. ASSUME NEW c, InClaims(c), c.block = b PROVE b \in blocks(claims)
  BY <1>2, ClaimCases DEF blocks
<1>3. ASSUME NEW p \in Pools, ~(pc = "parse" /\ p = pool), b = xml[p]
      PROVE  b \in blocks(claims)
  <2> DEFINE c == claim(p, "document", [block |-> xml[p]])
  <2>1. c.block = b
    BY <1>3, ClaimFields
  <2>2. InClaims(c)
    BY <1>3 DEF InClaims
  <2> HIDE DEF c
  <2> QED BY <1>2, <2>1, <2>2
<1>4. ASSUME NEW p \in Pools, NEW o \in objects[p], b = o.block
      PROVE  b \in blocks(claims)
  BY <1>2, <1>4, ClaimFields DEF InClaims
<1>5. ASSUME NEW n \in nodes, b = n.block PROVE b \in blocks(claims)
  BY <1>2, <1>5, ClaimFields DEF InClaims
<1>6. ASSUME NEW n \in made, b = n.block PROVE b \in blocks(claims)
  BY <1>2, <1>6, ClaimFields DEF InClaims
<1> QED BY <1>1, <1>3, <1>4, <1>5, <1>6 DEF Accounted

LEMMA MakeAccounts ==
    ASSUME UidsDistinct, EntriesComplete, Typed, Transient, KeysFree, make,
           \A b \in heap : Accounted(b)
    PROVE  \A b \in heap' : Accounted(b)'
<1> USE DEF Typed, TypeOK
<1>1. UNCHANGED <<xml, pool, nodes, search>> /\ pc = "make"
      /\ pc' \in {"make", "free_nodes"}
  BY DEF make, rest
<1>2. ASSUME NEW x \in Items, first(x, todo), add_object(x), pc' = pc
      PROVE  \A b \in heap' : Accounted(b)'
  <2>1. CASE UNCHANGED <<heap, objects>>
    BY <1>1, <1>2, <2>1 DEF add_object, Accounted
  <2>2. ASSUME NEW d \in Blocks, allocate(d),
               insert("vm", x, {[item |-> x, block |-> d]})
        PROVE  \A b \in heap' : Accounted(b)'
    <3>1. \A o \in objects["vm"] : o.key # x
      BY <1>1, <1>2 DEF KeysFree, add_object, first
    <3>2. objects' = [objects EXCEPT !["vm"] =
                        @ \cup {[key |-> x, item |-> x, block |-> d]}]
      <4>1. {[key |-> x, item |-> n.item, block |-> n.block] :
                n \in {[item |-> x, block |-> d]}}
            = {[key |-> x, item |-> x, block |-> d]}
        OBVIOUS
      <4> QED BY <2>2, <3>1, <4>1 DEF insert
    <3>3. heap' = heap \cup {d} /\ made' = made
      BY <1>2, <2>2 DEF allocate, add_object
    <3>4. Accounted(d)'
      <4> DEFINE entry == [key |-> x, item |-> x, block |-> d]
      <4>1. "vm" \in Pools /\ entry \in objects'["vm"] /\ entry.block = d
        BY <3>2 DEF Pools
      <4> HIDE DEF entry
      <4> QED BY <4>1 DEF Accounted
    <3>5. \A p \in Pools : objects[p] \subseteq objects'[p]
      BY <3>2 DEF Pools
    <3>6. ASSUME NEW b \in heap PROVE Accounted(b)'
      BY <1>1, <1>2, <3>3, <3>5 DEF Accounted
    <3> QED BY <3>3, <3>4, <3>6
  <2> QED BY <1>2, <2>1, <2>2 DEF add_object
<1>3. ASSUME NEW x \in Items, first(x, todo), make_user_object(x), pc' = pc
      PROVE  \A b \in heap' : Accounted(b)'
  <2>1. PICK d \in Blocks : allocate(d) /\ made' = made \cup {[item |-> x, block |-> d]}
    BY <1>3 DEF make_user_object, EntriesComplete
  <2>2. heap' = heap \cup {d} /\ objects' = objects
    BY <1>3, <2>1 DEF allocate, make_user_object
  <2>3. Accounted(d)'
    <3>1. [item |-> x, block |-> d] \in made' /\ [item |-> x, block |-> d].block = d
      BY <2>1
    <3> QED BY <3>1 DEF Accounted
  <2>4. ASSUME NEW b \in heap PROVE Accounted(b)'
    BY <1>1, <1>3, <2>1, <2>2 DEF Accounted
  <2> QED BY <2>2, <2>3, <2>4
<1>4. CASE /\ insert(pool, Uids[search], made) /\ made' = {}
           /\ pc' = "free_nodes" /\ UNCHANGED <<heap, todo>>
  <2>1. CASE pool = "vm"
    <3>1. made = {} /\ \A p \in Pools : objects[p] \subseteq objects'[p]
      BY <1>4, <2>1 DEF insert, Transient, Pools
    <3> QED BY <1>1, <1>4, <3>1 DEF Accounted
  <2>2. CASE pool = "acct"
    <3>1. search \in 1 .. Len(Uids)
      BY <2>2 DEF searches
    <3>2. \A o \in objects["acct"] : o.key # Uids[search]
      BY <1>1, <2>2, <3>1, XMLPoolsAssumption DEF KeysFree, UidsDistinct
    <3>3. objects' = [objects EXCEPT !["acct"] = @ \cup
                        {[key |-> Uids[search], item |-> n.item,
                          block |-> n.block] : n \in made}]
      BY <1>4, <2>2, <3>2 DEF insert
    <3>4. ASSUME NEW n \in made
          PROVE  \E o \in objects'["acct"] : o.block = n.block
      <4> DEFINE entry == [key |-> Uids[search], item |-> n.item, block |-> n.block]
      <4>1. entry \in objects'["acct"] /\ entry.block = n.block
        BY <3>3 DEF Pools
      <4> HIDE DEF entry
      <4> QED BY <4>1
    <3>5. \A p \in Pools : objects[p] \subseteq objects'[p]
      BY <3>3 DEF Pools
    <3> QED BY <1>1, <1>4, <3>4, <3>5 DEF Accounted, Pools
  <2> QED BY <2>1, <2>2 DEF Pools
<1> QED BY <1>2, <1>3, <1>4 DEF make

LEMMA OthersAccount ==
    ASSUME Typed, Transient, alive, \A b \in heap : Accounted(b),
           \/ flush \/ load \/ xml_parse \/ get_nodes \/ free_nodes
           \/ UNCHANGED vars,
           pc' # "aborted"
    PROVE  \A b \in heap' : Accounted(b)'
<1> USE DEF Typed, TypeOK, Accounted
<1>1. CASE flush
  BY <1>1 DEF flush, free, blocks
<1>2. CASE load
  BY <1>2 DEF load, free
<1>3. CASE xml_parse
  BY <1>3 DEF xml_parse, allocate, rest
<1>4. CASE get_nodes
  <2>1. CASE UNCHANGED <<heap, nodes>>
    BY <1>4, <2>1 DEF get_nodes, rest
  <2>2. ASSUME NEW x \in Items, NEW d \in Blocks, allocate(d),
               nodes' = nodes \cup {[item |-> x, block |-> d]}
        PROVE  \A b \in heap' : Accounted(b)'
    <3>1. [item |-> x, block |-> d] \in nodes' /\ [item |-> x, block |-> d].block = d
      BY <2>2
    <3>2. Accounted(d)'
      BY <3>1
    <3>3. ASSUME NEW b \in heap PROVE Accounted(b)'
      BY <1>4, <2>2 DEF get_nodes, rest
    <3> QED BY <2>2, <3>2, <3>3 DEF allocate
  <2> QED BY <1>4, <2>1, <2>2 DEF get_nodes
<1>5. CASE free_nodes
  BY <1>5 DEF free_nodes, free, blocks
<1>6. CASE UNCHANGED vars
  BY <1>6 DEF vars, rest
<1> QED BY <1>1, <1>2, <1>3, <1>4, <1>5, <1>6

\* No block is forgotten when no uid has two sections in shares.conf and all
\* the accounting entries of OpenNebula are complete.
THEOREM NeverLost ==
    UidsDistinct /\ EntriesComplete => (Spec => []NothingLost)
<1> SUFFICES ASSUME UidsDistinct, EntriesComplete PROVE Spec => []NothingLost
  OBVIOUS
<1>1. Init => LostInv
  <2> SUFFICES ASSUME Init PROVE LostInv
    OBVIOUS
  <2>1. Kept
    BY DEF Init, Kept, alive, Accounted, Pools
  <2>2. Transient /\ KeysFree
    BY DEF Init, Transient, KeysFree, Pools
  <2> QED BY <2>1, <2>2, TypedInit DEF LostInv
<1>2. LostInv /\ [Next]_vars => LostInv'
  <2> SUFFICES ASSUME LostInv, [Next]_vars, pc' # "aborted"
               PROVE  \A b \in heap' : alive' /\ Accounted(b)'
    BY TypedStep, TransientStep, KeysStep DEF LostInv, Kept
  <2>1. Typed /\ Transient /\ KeysFree /\ Kept
    BY DEF LostInv
  <2>2. CASE delete_pools
    <3>1. nodes = {} /\ made = {} /\ pc = "idle"
      BY <2>1, <2>2 DEF delete_pools, Transient
    <3>2. \A b \in heap : \E p \in Pools : b \in blocks(objects[p]) \cup {xml[p]}
      BY <2>1, <3>1 DEF Kept, Accounted, blocks
    <3>3. heap' = {}
      BY <2>2, <3>2 DEF delete_pools, free
    <3> QED BY <3>3
  <2>3. CASE new_process
    BY <2>3 DEF new_process, alive, Accounted, Pools
  <2>4. CASE UNCHANGED vars /\ ~alive
    BY <2>1, <2>4 DEF vars, Kept, alive
  <2>5. CASE set_up \/ (UNCHANGED vars /\ alive)
    <3>1. alive /\ alive'
      BY <2>5 DEF set_up, flush, load, xml_parse, get_nodes, make, free_nodes,
                  alive, vars
    <3>2. \A b \in heap : Accounted(b)
      BY <2>1, <3>1 DEF Kept, alive
    <3>3. \A b \in heap' : Accounted(b)'
      BY <2>1, <2>5, <3>1, <3>2, MakeAccounts, OthersAccount DEF set_up
    <3> QED BY <3>1, <3>3
  <2> QED BY <2>2, <2>3, <2>4, <2>5 DEF Next
<1>3. LostInv => NothingLost
  BY Accounting DEF LostInv
<1> QED BY <1>1, <1>2, <1>3, PTL DEF Spec
=============================================================================
