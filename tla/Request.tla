------------------------------ MODULE Request -------------------------------
(***************************************************************************)
(* src/rpcm/Request.cc, RequestQueue.cc, RequestSystem.cc and              *)
(* RequestOneProxy.cc: what FaSS does with one request.  Every connection  *)
(* is served by a thread of the Abyss server; the threads share the string *)
(* "queue" of the Priority Manager, which its thread assigns to while they *)
(* copy it.  pc of a connection: idle, backlog, execute, get_queue,        *)
(* copying, forward, respond, log_result; replied, faulted, dropped.       *)
(***************************************************************************)
EXTENDS XMLRPCClient

CONSTANTS
    Clients,    \* the connections
    Queues,     \* the texts that make_queue may build
    Answers,    \* what a call forwarded to oned may come to
    Races,      \* what else a copy of the queue may come to that overlaps
                \* an assignment: a mixture, an access to freed memory
    HasPasswd   \* the effective user of the daemon has a passwd entry

ASSUME RequestAssumption ==
    /\ Answers \subseteq Replies
    /\ Races \subseteq {"torn", "crash"} /\ Queues \cap {"torn", "crash"} = {}
    /\ HasPasswd \in BOOLEAN

VARIABLES
    queue,      \* the text last published
    assigning,  \* the set with the text being assigned to queue, if any
    pc, method,
    copied,     \* what the copy that c is making may come to
    response,   \* att.retval
    said,       \* history: what oned said to the call forwarded for c
    window,     \* history: what has been on display since a client asked
    process

request_vars == <<queue, assigning, pc, method, copied, response, said, window,
                  process>>

Methods == {"one.vmpool.info", "fass.system.version", "other"}

\* The values that travel in a response: a queue, the version, what oned sent,
\* or an error code.
Scalars == {"message", "text", "number", "flag"}
OnedValues == Scalars \cup {"list"}
ErrorCodes == {"XML_RPC_API", "INTERNAL"}
Values == Queues \cup {"torn", "Fass 1.4"} \cup OnedValues \cup ErrorCodes

Unset == [success |-> FALSE, value |-> "list"]
Silent == [reply |-> "fault", value |-> "list"]

success_response(val) == [success |-> TRUE, value |-> val]
failure_response(ec)  == [success |-> FALSE, value |-> ec]

\* While the string is assigned to, a mixture of two texts is on display too.
texts == {queue} \cup assigning
shown == texts \cup IF assigning = {} THEN {} ELSE {"torn"}
asking(c) == window[c] # {}
finished(c) == pc[c] \in {"idle", "replied", "faulted", "dropped"}

move(c, label) == pc' = [pc EXCEPT ![c] = label]
crashes == process' = "crashed"
-----------------------------------------------------------------------------
(* PriorityManager::make_queue assigns to the string that others copy.     *)

begin_assign ==
    /\ process = "up"
    /\ assigning = {}
    /\ \E text \in Queues :
        /\ assigning' = {text}
        /\ copied' = [c \in Clients |->
                        IF pc[c] = "copying"
                        THEN copied[c] \cup {text} \cup Races ELSE {}]
        /\ window' = [c \in Clients |->
                        IF asking(c) THEN window[c] \cup {text, "torn"} ELSE {}]
    /\ UNCHANGED <<queue, pc, method, response, said, process>>

end_assign ==
    /\ process = "up"
    /\ assigning # {}
    /\ queue' \in assigning
    /\ assigning' = {}
    /\ UNCHANGED <<pc, method, copied, response, said, window, process>>
-----------------------------------------------------------------------------
(* The handlers.                                                           *)

\* The first place in the handler of a method.
request_execute(name) ==
    IF name = "other" THEN "forward"
    ELSE IF name = "one.vmpool.info" THEN "get_queue" ELSE "respond"

(* Request::execute, or RequestOneProxy::execute for a method that is not  *)
(* registered.  A call without a session string throws out of the handler  *)
(* and the library answers with a fault.  The name of the effective user   *)
(* is read through a pointer that is null if he has no passwd entry.       *)
execute(c) ==
    /\ process = "up"
    /\ pc[c] = "execute"
    /\ \E has_session \in BOOLEAN :
         IF method[c] # "other" /\ ~HasPasswd
         THEN crashes /\ UNCHANGED <<pc, window>>
         ELSE /\ move(c, IF has_session THEN request_execute(method[c])
                         ELSE "faulted")
              /\ window' = [window EXCEPT ![c] =
                    IF has_session /\ method[c] = "one.vmpool.info"
                    THEN shown ELSE {}]
              /\ UNCHANGED process
    /\ UNCHANGED <<queue, assigning, method, copied, response, said>>

\* ReorderedQueue::request_execute: get_queue hands out a reference ...
get_queue(c) ==
    /\ process = "up"
    /\ pc[c] = "get_queue"
    /\ move(c, "copying")
    /\ copied' = [copied EXCEPT ![c] =
                    texts \cup IF assigning = {} THEN {} ELSE Races]
    /\ UNCHANGED <<queue, assigning, method, response, said, window, process>>

\* MUTANT: the text of the last answer to anyone may be answered again.
copy_cached(c) ==
    /\ process = "up"
    /\ pc[c] = "copying"
    /\ \E text \in copied[c] \cup {response[d].value : d \in Clients} :
         text \in Queues /\
         response' = [response EXCEPT ![c] = success_response(text)]
    /\ move(c, "log_result")
    /\ copied' = [copied EXCEPT ![c] = {}]
    /\ UNCHANGED <<queue, assigning, method, said, window, process>>

\* ... and the copy that is made through it may overlap an assignment.
copy_queue(c) ==
    /\ process = "up"
    /\ pc[c] = "copying"
    /\ \E outcome \in copied[c] :
         IF outcome = "crash"
         THEN crashes /\ UNCHANGED <<pc, response>>
         ELSE /\ response' = [response EXCEPT ![c] = success_response(outcome)]
              /\ move(c, "log_result")
              /\ UNCHANGED process
    /\ copied' = [copied EXCEPT ![c] = {}]
    /\ UNCHANGED <<queue, assigning, method, said, window>>

\* SystemVersion::request_execute.
system_version(c) ==
    /\ process = "up"
    /\ pc[c] = "respond"
    /\ response' = [response EXCEPT ![c] = success_response("Fass 1.4")]
    /\ move(c, "log_result")
    /\ UNCHANGED <<queue, assigning, method, copied, said, window, process>>

\* MUTANT: the error code of oned is answered instead of its message.
proxied_code(reply, value) ==
    IF reply = "refused" THEN success_response("code")
    ELSE IF value \in Scalars THEN success_response(value)
    ELSE failure_response("INTERNAL")

\* MUTANT: a number is passed to the overload for bool.
proxied_flag(reply, value) ==
    IF reply = "refused" THEN success_response("message")
    ELSE IF value = "number" THEN success_response("flag")
    ELSE IF value \in Scalars THEN success_response(value)
    ELSE failure_response("INTERNAL")

(* What is left in retval.  After a refusal failure_response is called,    *)
(* and then success_response with the message of oned.                     *)
proxied(reply, value) ==
    IF reply = "refused" THEN success_response("message")
    ELSE IF value \in Scalars THEN success_response(value)
    ELSE failure_response("INTERNAL")

\* MUTANT: the call is made without a timeout.
forward_forever(c) ==
    /\ process = "up"
    /\ pc[c] = "forward"
    /\ \E reply \in Answers :
        /\ said' = [said EXCEPT ![c] = [reply |-> reply, value |-> "message"]]
        /\ IF reply = "error" THEN move(c, "waiting") /\ UNCHANGED response
           ELSE /\ move(c, "log_result")
                /\ response' = [response EXCEPT ![c] = proxied(reply, "message")]
    /\ UNCHANGED <<queue, assigning, method, copied, window, process>>

(* The rest of RequestOneProxy::execute up to log_result.  When the call   *)
(* leaves the result unset (an exception of the call is only logged), the  *)
(* handler of the exception reads the second element of an empty vector.   *)
forward(c) ==
    /\ process = "up"
    /\ pc[c] = "forward"
    /\ \E reply \in Answers, value \in OnedValues :
        /\ reply # "ok" => value = "message"
        /\ said' = [said EXCEPT ![c] = [reply |-> reply, value |-> value]]
        /\ IF result_set(reply)
           THEN /\ response' = [response EXCEPT ![c] = proxied(reply, value)]
                /\ move(c, "log_result")
                /\ UNCHANGED process
           ELSE crashes /\ UNCHANGED <<pc, response>>
    /\ UNCHANGED <<queue, assigning, method, copied, window>>

\* value_string of the error code of a failure, which is an int, throws.
log_result_throws(resp) == ~resp.success /\ resp.value \in ErrorCodes

log_result(c) ==
    /\ process = "up"
    /\ pc[c] = "log_result"
    /\ move(c, IF log_result_throws(response[c]) THEN "faulted" ELSE "replied")
    /\ window' = [window EXCEPT ![c] = {}]
    /\ UNCHANGED <<queue, assigning, method, copied, response, said, process>>

handler(c) == \/ execute(c) \/ get_queue(c) \/ copy_queue(c)
              \/ system_version(c) \/ forward(c) \/ log_result(c)
=============================================================================
