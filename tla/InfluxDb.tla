------------------------------ MODULE InfluxDb ------------------------------
(***************************************************************************)
(* src/database/InfluxDb.cc: the client of the time-series database.       *)
(* Every call is one HTTP request on a connection of its own, without a    *)
(* timeout; the caller gets true or false.  The server (external) keeps at *)
(* most one point per series and instant: a later one replaces it.         *)
(***************************************************************************)
EXTENDS Integers

CONSTANT DbFails  \* the server may be down, and a connection may break

ASSUME DbAssumption == DbFails \in BOOLEAN

VARIABLES
    server,    \* "up" or "down"
    exists,    \* create_db has been executed once
    points,    \* what the server stores: series, time, value
    answer,    \* the status on its way to the client, or "none"
    reported   \* the points of the writes that returned true

db_vars == <<server, exists, points, answer, reported>>

Statuses == {"none", "200", "204", "404"}

DbInit ==
    /\ server \in (IF DbFails THEN {"up", "down"} ELSE {"up"})
    /\ exists = FALSE /\ points = {} /\ answer = "none" /\ reported = {}

point(series, time, value) == [series |-> series, time |-> time, value |-> value]

same_point(p, q) == p.series = q.series /\ p.time = q.time

\* The server executes a request.
executes_ping == answer' = "204" /\ UNCHANGED <<exists, points>>
executes_create == answer' = "200" /\ exists' = TRUE /\ UNCHANGED points
executes_write(p) ==
    /\ IF exists
       THEN /\ answer' = "204"
            /\ points' = {q \in points : ~same_point(p, q)} \cup {p}
       ELSE answer' = "404" /\ UNCHANGED points
    /\ UNCHANGED exists

\* resolve, connect and write succeed.
sent ==
    /\ answer = "none"
    /\ server = "up"
    /\ UNCHANGED <<server, reported>>

\* MUTANT: a connection that breaks is waited on for ever.
query_returns_if_answered(rc) ==
    /\ answer # "none"
    /\ rc = (answer \in {"200", "204"})
    /\ answer' = "none"
    /\ UNCHANGED <<server, exists, points>>

\* MUTANT: the status code is read and not looked at.
query_returns_true(rc) ==
    /\ \/ answer = "none" /\ server = "down" /\ ~rc
       \/ answer # "none" /\ rc
    /\ answer' = "none"
    /\ UNCHANGED <<server, exists, points>>

\* query_db returns: nobody to connect to; 200 or 204; another status; a
\* connection that breaks or an answer that is not HTTP, whatever was done.
query_returns(rc) ==
    /\ \/ answer = "none" /\ server = "down" /\ ~rc
       \/ answer # "none" /\ rc = (answer \in {"200", "204"})
       \/ answer # "none" /\ DbFails /\ ~rc
    /\ answer' = "none"
    /\ UNCHANGED <<server, exists, points>>

ping_db(rc) == query_returns(rc) /\ UNCHANGED reported
create_db(rc) == query_returns(rc) /\ UNCHANGED reported
write(p, rc) ==
    /\ query_returns(rc)
    /\ reported' = IF rc THEN reported \cup {p} ELSE reported

\* The server goes down and comes back; what it has stored stays.
server_fails ==
    /\ DbFails
    /\ server' = IF server = "up" THEN "down" ELSE "up"
    /\ UNCHANGED <<exists, points, answer, reported>>
=============================================================================
