----------------------------- MODULE RPCProofs ------------------------------
(***************************************************************************)
(* RPCServer implements QueueFeed and releases its resources, for all      *)
(* clients, queues, answers of OpenNebula and limits, and whatever a copy  *)
(* that races with an assignment comes to.                                 *)
(***************************************************************************)
EXTENDS RPCProperties, TLAPS

(* The steps of Next, one name each.                                       *)
LEMMA StepCases ==
    ASSUME [Next]_vars
    PROVE  \/ setup_socket_new \/ create_server \/ finalize \/ exit_process
           \/ rm_xml_server_loop
           \/ begin_assign /\ UNCHANGED server_vars
           \/ end_assign /\ UNCHANGED server_vars
           \/ \E c \in Clients :
                \/ connect(c) \/ accept(c)
                \/ UNCHANGED server_vars /\ execute(c)
                \/ UNCHANGED server_vars /\ get_queue(c)
                \/ UNCHANGED server_vars /\ copy_queue(c)
                \/ UNCHANGED server_vars /\ system_version(c)
                \/ UNCHANGED server_vars /\ forward(c)
                \/ UNCHANGED server_vars /\ log_result(c)
           \/ UNCHANGED vars
  BY DEF Next, main_thread, handler_step, handler, ended
-----------------------------------------------------------------------------
(* Types.                                                                  *)

LEMMA TypeInit == Init => TypeOK
  BY DEF Init, TypeOK, Labels, Places, Methods, Unset, Silent, Values, OnedValues, Scalars, ErrorCodes,
         Replies

LEMMA ServerTypes ==
    ASSUME TypeOK,
           \/ setup_socket_new \/ create_server \/ finalize \/ exit_process
           \/ rm_xml_server_loop
    PROVE  TypeOK'
<1>1. CASE setup_socket_new
  BY <1>1 DEF TypeOK, Labels, setup_socket_new, getaddrinfo, open_socket, setsockopt,
              bind, request_vars, Places
<1>2. CASE create_server
  BY <1>2 DEF TypeOK, Labels, create_server, request_vars, Places
<1>3. CASE finalize
  BY <1>3 DEF TypeOK, Labels, finalize, server_vars, crashes, Places
<1>4. CASE exit_process
  BY <1>4 DEF TypeOK, Labels, exit_process, server_vars, crashes
<1>5. CASE rm_xml_server_loop
  <2>1. CASE make_server
    BY <2>1 DEF TypeOK, make_server, request_vars
  <2>2. CASE server_throws
    BY <2>2 DEF TypeOK, server_throws, server_vars, crashes
  <2> QED BY <1>5, <2>1, <2>2 DEF rm_xml_server_loop
<1> QED BY <1>1, <1>2, <1>3, <1>4, <1>5

LEMMA AssignTypes ==
    ASSUME TypeOK, UNCHANGED server_vars, begin_assign \/ end_assign
    PROVE  TypeOK'
<1>1. CASE begin_assign
  BY <1>1 DEF TypeOK, Labels, begin_assign, server_vars, asking
<1>2. CASE end_assign
  BY <1>2 DEF TypeOK, Labels, end_assign, server_vars
<1> QED BY <1>1, <1>2

LEMMA RequestTypes ==
    ASSUME TypeOK, NEW c \in Clients,
           \/ connect(c) \/ accept(c)
           \/ UNCHANGED server_vars /\ execute(c)
           \/ UNCHANGED server_vars /\ get_queue(c)
           \/ UNCHANGED server_vars /\ copy_queue(c)
           \/ UNCHANGED server_vars /\ system_version(c)
           \/ UNCHANGED server_vars /\ forward(c)
           \/ UNCHANGED server_vars /\ log_result(c)
    PROVE  TypeOK'
<1>1. CASE connect(c)
  <2>1. pc' \in [Clients -> Labels]
    BY <1>1 DEF TypeOK, Labels, connect, move
  <2>4. method' \in [Clients -> Methods]
    BY <1>1 DEF TypeOK, connect
  <2>2. response' \in [Clients -> [success : BOOLEAN, value : Values]]
    BY <1>1 DEF TypeOK, connect, Unset, Values, OnedValues
  <2>3. said' \in [Clients -> [reply : Replies, value : OnedValues]]
    BY <1>1 DEF TypeOK, connect, Silent, Replies, OnedValues
  <2> QED
    BY <1>1, <2>1, <2>2, <2>3, <2>4 DEF TypeOK, connect, server_vars
<1>2. CASE accept(c)
  BY <1>2 DEF TypeOK, Labels, accept, move, server_vars
<1>3. CASE UNCHANGED server_vars /\ execute(c)
  <2>1. pc' \in [Clients -> Labels] /\ process' \in {"up", "exited", "crashed"}
    BY <1>3 DEF TypeOK, Labels, execute, request_execute, move, crashes
  <2>2. window' \in [Clients -> SUBSET (Queues \cup {"torn"})]
    <3>1. shown \in SUBSET (Queues \cup {"torn"})
      BY DEF TypeOK, shown, texts
    <3> QED BY <1>3, <3>1 DEF TypeOK, execute
  <2> QED
    BY <1>3, <2>1, <2>2 DEF TypeOK, Labels, execute, server_vars
<1>4. CASE UNCHANGED server_vars /\ get_queue(c)
  BY <1>4 DEF TypeOK, Labels, get_queue, move, shown, texts, server_vars
<1>5. CASE UNCHANGED server_vars /\ copy_queue(c)
  <2>1. PICK outcome \in copied[c] :
            IF outcome = "crash"
            THEN crashes /\ UNCHANGED <<pc, response>>
            ELSE /\ response' =
                      [response EXCEPT ![c] = success_response(outcome)]
                 /\ move(c, "log_result")
                 /\ UNCHANGED process
    BY <1>5 DEF copy_queue
  <2>2. outcome # "crash" => outcome \in Values
    BY RequestAssumption DEF TypeOK, Labels, Values
  <2>3. response' \in [Clients -> [success : BOOLEAN, value : Values]]
    <3>1. CASE outcome = "crash"
      BY <3>1, <2>1 DEF TypeOK
    <3>2. CASE outcome # "crash"
      <4>1. success_response(outcome) \in [success : BOOLEAN, value : Values]
        BY <3>2, <2>2 DEF success_response
      <4> QED BY <3>2, <4>1, <2>1 DEF TypeOK
    <3> QED BY <3>1, <3>2
  <2>4. pc' \in [Clients -> Labels] /\ process' \in {"up", "exited", "crashed"}
    BY <2>1 DEF TypeOK, Labels, move, crashes
  <2> QED
    BY <1>5, <2>3, <2>4 DEF TypeOK, Labels, copy_queue, server_vars
<1>6. CASE UNCHANGED server_vars /\ system_version(c)
  BY <1>6 DEF TypeOK, Labels, system_version, move, success_response, Values,
              server_vars
<1>7. CASE UNCHANGED server_vars /\ forward(c)
  <2>1. PICK reply \in Answers, value \in OnedValues :
            /\ said' = [said EXCEPT ![c] = [reply |-> reply, value |-> value]]
            /\ IF result_set(reply)
               THEN /\ response' = [response EXCEPT ![c] = proxied(reply, value)]
                    /\ move(c, "log_result")
                    /\ UNCHANGED process
               ELSE crashes /\ UNCHANGED <<pc, response>>
    BY <1>7 DEF forward
  <2>2. proxied(reply, value) \in [success : BOOLEAN, value : Values]
    BY DEF proxied, success_response, failure_response, Values, OnedValues, Scalars, ErrorCodes,
           Scalars, ErrorCodes
  <2>3. response' \in [Clients -> [success : BOOLEAN, value : Values]]
    BY <2>1, <2>2 DEF TypeOK, Labels
  <2>4. pc' \in [Clients -> Labels] /\ process' \in {"up", "exited", "crashed"}
    BY <2>1 DEF TypeOK, Labels, move, crashes
  <2>5. said' \in [Clients -> [reply : Replies, value : OnedValues]]
    BY <2>1, RequestAssumption DEF TypeOK, Labels
  <2> QED
    BY <1>7, <2>3, <2>4, <2>5 DEF TypeOK, Labels, forward, server_vars
<1>8. CASE UNCHANGED server_vars /\ log_result(c)
  BY <1>8 DEF TypeOK, Labels, log_result, move, server_vars
<1> QED BY <1>1, <1>2, <1>3, <1>4, <1>5, <1>6, <1>7, <1>8

LEMMA TypeStep == TypeOK /\ [Next]_vars => TypeOK'
<1> SUFFICES ASSUME TypeOK, [Next]_vars PROVE TypeOK'
  OBVIOUS
<1>1. CASE UNCHANGED vars
  BY <1>1 DEF TypeOK, Labels, vars, request_vars, server_vars
<1> QED BY <1>1, StepCases, ServerTypes, AssignTypes, RequestTypes

\* The type invariant of the RPC server.
THEOREM TypeCorrect == Spec => []TypeOK
  BY TypeInit, TypeStep, PTL DEF Spec
-----------------------------------------------------------------------------
(* The socket and the address list.                                        *)

\* What is held at each place of setup_socket_new.
Held ==
    /\ main \in {"getaddrinfo", "create", "sigwait", "failed", "stopped"} =>
          addrinfo = "none"
    /\ main \in {"getaddrinfo", "socket"} => socket_fd = "none"
    /\ main \in {"failed", "stopped"} => socket_fd # "open"

LEMMA HeldStep == Held /\ [Next]_vars => Held'
<1> SUFFICES ASSUME Held, [Next]_vars PROVE Held'
  OBVIOUS
<1>1. CASE UNCHANGED server_vars
  BY <1>1 DEF Held, server_vars
<1>2. CASE setup_socket_new
  BY <1>2 DEF Held, setup_socket_new, getaddrinfo, open_socket, setsockopt, bind
<1>3. CASE create_server \/ rm_xml_server_loop
  BY <1>3 DEF Held, create_server, rm_xml_server_loop, make_server, server_throws,
              server_vars
<1>4. CASE finalize
  BY <1>4 DEF Held, finalize, server_vars
<1>5. exit_process => UNCHANGED server_vars
  BY DEF exit_process, server_vars
<1>6. \A c \in Clients : connect(c) \/ accept(c) => UNCHANGED server_vars
  BY DEF connect, accept, server_vars
<1>7. UNCHANGED vars => UNCHANGED server_vars
  BY DEF vars, server_vars
<1> QED BY <1>1, <1>2, <1>3, <1>4, <1>5, <1>6, <1>7, StepCases

\* A failed start and a finished stop leave no address list and no open
\* socket behind.
THEOREM SocketGivenBack == Spec => []ResourcesReleased
<1>1. Init => Held
  BY DEF Init, Held
<1>2. Held => ResourcesReleased
  BY DEF Held, ResourcesReleased
<1> QED BY <1>1, <1>2, HeldStep, PTL DEF Spec
-----------------------------------------------------------------------------
(* The refinement.                                                         *)

(* A request for the queue is followed from its first statement to the     *)
(* reply: what the copy may come to, and what has been copied, was shown   *)
(* since then.                                                             *)
Followed(c) ==
    /\ pc[c] \in {"get_queue", "copying"} => shown \subseteq window[c]
    /\ pc[c] = "copying" => copied[c] \ {"crash"} \subseteq window[c]
    /\ pc[c] = "log_result" /\ method[c] = "one.vmpool.info" =>
          response[c].success /\ response[c].value \in window[c]

Routed(c) ==
    /\ pc[c] \in {"get_queue", "copying"} => method[c] = "one.vmpool.info"
    /\ pc[c] = "forward" => method[c] = "other"
    /\ pc[c] = "respond" => method[c] = "fass.system.version"
    /\ asking(c) => /\ pc[c] \in {"get_queue", "copying", "log_result"}
                    /\ method[c] = "one.vmpool.info"

FeedInv == TypeOK /\ \A c \in Clients : Followed(c) /\ Routed(c)

\* The part of the state that Followed(d) and Routed(d) speak of.
view(d) == <<pc[d], method[d], copied[d], response[d], window[d]>>

LEMMA SameView ==
    ASSUME NEW d \in Clients, Followed(d), Routed(d),
           UNCHANGED <<view(d), queue, assigning>>
    PROVE  Followed(d)' /\ Routed(d)'
  BY DEF Followed, Routed, view, shown, texts, asking

(* A request changes nothing of the others, and nothing of the queue.      *)
RequestStep(c) ==
    \/ connect(c) \/ accept(c) \/ execute(c) \/ get_queue(c) \/ copy_queue(c)
    \/ system_version(c) \/ forward(c) \/ log_result(c)

LEMMA Separate ==
    ASSUME TypeOK, NEW c \in Clients, RequestStep(c),
           NEW d \in Clients, d # c
    PROVE  UNCHANGED view(d)
<1> USE DEF TypeOK, view, move
<1>1. CASE connect(c)
  BY <1>1 DEF connect
<1>2. CASE accept(c)
  BY <1>2 DEF accept
<1>3. CASE execute(c)
  BY <1>3 DEF execute
<1>4. CASE get_queue(c)
  BY <1>4 DEF get_queue
<1>5. CASE copy_queue(c)
  BY <1>5 DEF copy_queue
<1>6. CASE system_version(c)
  BY <1>6 DEF system_version
<1>7. CASE forward(c)
  BY <1>7 DEF forward
<1>8. CASE log_result(c)
  BY <1>8 DEF log_result
<1> QED BY <1>1, <1>2, <1>3, <1>4, <1>5, <1>6, <1>7, <1>8 DEF RequestStep

LEMMA QueueKept ==
    ASSUME NEW c \in Clients, RequestStep(c)
    PROVE  UNCHANGED <<queue, assigning>>
  BY DEF RequestStep, connect, accept, execute, get_queue, copy_queue,
         system_version, forward, log_result

(* Its own request keeps what is said of it.                               *)
LEMMA OwnFollowed ==
    ASSUME TypeOK, NEW c \in Clients,
           Followed(c), Routed(c), RequestStep(c)
    PROVE  Followed(c)' /\ Routed(c)'
<1>1. UNCHANGED <<queue, assigning>> /\ shown' = shown
  BY QueueKept DEF shown, texts
<1> USE DEF Followed, Routed, TypeOK, move, asking
<1>2. CASE connect(c)
  BY <1>1, <1>2 DEF connect, finished
<1>3. CASE accept(c)
  BY <1>1, <1>3 DEF accept
<1>4. CASE execute(c)
  <2>1. CASE UNCHANGED <<pc, window>>
    BY <1>1, <1>4, <2>1 DEF execute
  <2>2. CASE ~UNCHANGED <<pc, window>>
    <3>1. PICK has_session \in BOOLEAN :
              /\ move(c, IF has_session THEN request_execute(method[c])
                         ELSE "faulted")
              /\ window' = [window EXCEPT ![c] =
                    IF has_session /\ method[c] = "one.vmpool.info"
                    THEN shown ELSE {}]
      BY <1>4, <2>2 DEF execute
    <3>2. method' = method /\ copied' = copied /\ response' = response
      BY <1>4 DEF execute
    <3>3. method[c] \in Methods /\ pc[c] = "execute"
      BY <1>4 DEF execute
    <3>4. shown \subseteq Queues \cup {"torn"}
      BY DEF shown, texts
    <3> QED BY <1>1, <3>1, <3>2, <3>3, <3>4 DEF request_execute, Methods
  <2> QED BY <2>1, <2>2
<1>5. CASE get_queue(c)
  <2>1. copied'[c] \ {"crash"} \subseteq shown
    BY <1>5, RequestAssumption DEF get_queue, shown
  <2>2. shown \subseteq window[c] /\ window' = window /\ pc'[c] = "copying"
    BY <1>5 DEF get_queue
  <2> QED BY <1>1, <1>5, <2>1, <2>2 DEF get_queue
<1>6. CASE copy_queue(c)
  <2>1. PICK outcome \in copied[c] :
            IF outcome = "crash"
            THEN UNCHANGED <<pc, response>>
            ELSE /\ response' =
                      [response EXCEPT ![c] = success_response(outcome)]
                 /\ move(c, "log_result")
    BY <1>6 DEF copy_queue
  <2>2. /\ copied' = [copied EXCEPT ![c] = {}]
        /\ method' = method /\ window' = window
    BY <1>6 DEF copy_queue
  <2>3. outcome # "crash" => outcome \in window[c]
    BY <1>6, RequestAssumption DEF copy_queue
  <2> QED BY <1>1, <1>6, <2>1, <2>2, <2>3 DEF copy_queue, success_response
<1>7. CASE system_version(c)
  BY <1>1, <1>7 DEF system_version
<1>8. CASE forward(c)
  BY <1>1, <1>8 DEF forward
<1>9. CASE log_result(c)
  BY <1>1, <1>9 DEF log_result
<1> QED
  BY <1>2, <1>3, <1>4, <1>5, <1>6, <1>7, <1>8, <1>9 DEF RequestStep

LEMMA AssignFollowed ==
    ASSUME TypeOK, NEW d \in Clients, Followed(d), Routed(d),
           begin_assign \/ end_assign
    PROVE  Followed(d)' /\ Routed(d)'
<1>1. CASE begin_assign
  <2>1. PICK text \in Queues :
            /\ assigning' = {text}
            /\ copied' = [c \in Clients |->
                            IF pc[c] = "copying"
                            THEN copied[c] \cup {text} \cup Races ELSE {}]
            /\ window' = [c \in Clients |->
                            IF asking(c) THEN window[c] \cup {text, "torn"} ELSE {}]
    BY <1>1 DEF begin_assign
  <2>2. UNCHANGED <<queue, pc, method, response>> /\ assigning = {}
    BY <1>1 DEF begin_assign
  <2>3. shown = {queue} /\ shown' = {queue, text, "torn"}
    BY <2>1, <2>2 DEF shown, texts
  <2>4. pc[d] \in {"get_queue", "copying"} => asking(d)
    BY <2>3 DEF Followed, asking
  <2>5. asking(d) => window'[d] = window[d] \cup {text, "torn"}
    BY <2>1
  <2>6. pc[d] \in {"get_queue", "copying"} => shown' \subseteq window'[d]
    BY <2>3, <2>4, <2>5 DEF Followed
  <2>7. pc[d] = "copying" => copied'[d] \ {"crash"} \subseteq window'[d]
    BY <2>1, <2>4, <2>5, RequestAssumption DEF Followed
  <2>8. asking(d)' => asking(d)
    BY <2>1 DEF asking
  <2>9. ~asking(d) => response[d].value \notin window[d]
    BY DEF asking
  <2> QED
    BY <2>2, <2>5, <2>6, <2>7, <2>8, <2>9 DEF Followed, Routed
<1>2. CASE end_assign
  BY <1>2 DEF end_assign, Followed, Routed, TypeOK, shown, texts, asking
<1> QED BY <1>1, <1>2

\* finalize drops what nobody serves yet.
LEMMA MainFollowed ==
    ASSUME TypeOK, NEW d \in Clients, Followed(d), Routed(d),
           \/ setup_socket_new \/ create_server \/ finalize \/ exit_process
           \/ rm_xml_server_loop
    PROVE  Followed(d)' /\ Routed(d)'
<1>1. CASE setup_socket_new \/ create_server \/ rm_xml_server_loop \/ exit_process
  <2>1. UNCHANGED <<view(d), queue, assigning>>
    BY <1>1 DEF setup_socket_new, create_server, rm_xml_server_loop, make_server,
                server_throws, exit_process, view, request_vars
  <2> QED BY <2>1, SameView
<1>2. CASE finalize
  BY <1>2 DEF finalize, Followed, Routed, TypeOK, shown, texts, asking
<1> QED BY <1>1, <1>2

LEMMA FeedStep == FeedInv /\ [Next]_vars => FeedInv'
<1> SUFFICES ASSUME FeedInv, [Next]_vars PROVE FeedInv'
  OBVIOUS
<1>1. TypeOK /\ TypeOK'
  BY TypeStep DEF FeedInv
<1> SUFFICES ASSUME NEW d \in Clients PROVE Followed(d)' /\ Routed(d)'
  BY <1>1 DEF FeedInv
<1>2. Followed(d) /\ Routed(d)
  BY DEF FeedInv
<1>3. CASE UNCHANGED vars
  BY <1>2, <1>3, SameView DEF vars, request_vars, view
<1>4. ASSUME NEW c \in Clients, RequestStep(c) PROVE Followed(d)' /\ Routed(d)'
  <2>1. CASE c = d
    BY <1>1, <1>2, <1>4, <2>1, OwnFollowed
  <2>2. CASE c # d
    BY <1>1, <1>2, <1>4, <2>2, Separate, QueueKept, SameView
  <2> QED BY <2>1, <2>2
<1> QED
  BY <1>1, <1>2, <1>3, <1>4, StepCases, AssignFollowed, MainFollowed
     DEF RequestStep

LEMMA FeedInit == Init => FeedInv /\ Feed!Init
<1> SUFFICES ASSUME Init PROVE FeedInv /\ Feed!Init
  OBVIOUS
<1>1. FeedInv
  BY TypeInit DEF Init, FeedInv, Followed, Routed, asking
<1>2. shown = {queue} /\ queue \in Queues
  BY DEF Init, shown, texts
<1>3. [c \in Clients |-> told(c)] = [c \in Clients |-> "nothing"]
  BY DEF Init, told
<1> QED
  BY <1>1, <1>2, <1>3 DEF Init, Feed!Init

\* Publishing is publishing.
LEMMA AssignMaps ==
    ASSUME FeedInv, begin_assign \/ end_assign
    PROVE  Feed!Next
<1>1. \A c \in Clients : told(c)' = told(c)
  BY DEF begin_assign, end_assign, told
<1>2. CASE begin_assign
  <2>1. PICK text \in Queues :
            /\ assigning' = {text}
            /\ window' = [c \in Clients |->
                            IF asking(c) THEN window[c] \cup {text, "torn"} ELSE {}]
    BY <1>2 DEF begin_assign
  <2>2. shown' = shown \cup {text, "torn"}
    BY <1>2, <2>1 DEF begin_assign, shown, texts
  <2>3. Feed!begin_publish(text)
    BY <1>1, <2>1, <2>2 DEF Feed!begin_publish, asking
  <2> QED BY <2>3 DEF Feed!Next
<1>3. CASE end_assign
  <2>1. queue' \in Queues /\ queue' \in shown /\ shown' = {queue'}
    BY <1>3 DEF end_assign, shown, texts, FeedInv, TypeOK
  <2>2. Feed!end_publish(queue')
    BY <1>1, <1>3, <2>1 DEF Feed!end_publish, end_assign
  <2> QED BY <2>1, <2>2 DEF Feed!Next
<1> QED BY <1>2, <1>3

\* A step of a request asks, is given a queue, leaves or stutters.
LEMMA RequestMaps ==
    ASSUME FeedInv, FeedInv', NEW c \in Clients, RequestStep(c)
    PROVE  [Feed!Next]_(Feed!feed)
<1>1. UNCHANGED <<queue, assigning>> /\ shown' = shown
  BY QueueKept DEF shown, texts
<1>2. TypeOK /\ TypeOK' /\ Followed(c) /\ Routed(c) /\ Routed(c)'
  BY DEF FeedInv
<1>3. \A d \in Clients \ {c} : told(d)' = told(d) /\ window'[d] = window[d]
  BY <1>2, Separate DEF told, view
<1>4. /\ window' = [window EXCEPT ![c] = window'[c]]
      /\ [d \in Clients |-> told(d)]' =
            [[d \in Clients |-> told(d)] EXCEPT ![c] = told(c)']
  BY <1>2, <1>3 DEF TypeOK
<1>5. CASE window'[c] = {} /\ told(c)' = "nothing"
  <2>1. Feed!leave(c)
    BY <1>1, <1>4, <1>5 DEF Feed!leave
  <2> QED BY <2>1 DEF Feed!Next
<1>6. CASE window'[c] = window[c] /\ told(c)' = told(c)
  <2>1. window' = window
    BY <1>2, <1>4, <1>6 DEF TypeOK
  <2>2. \A d \in Clients : told(d)' = told(d)
    BY <1>3, <1>6
  <2>3. [d \in Clients |-> told(d)]' = [d \in Clients |-> told(d)]
    BY <2>2
  <2> QED BY <1>1, <2>1, <2>3 DEF Feed!feed
<1>7. CASE window[c] = {} /\ window'[c] = shown /\ told(c)' = "nothing"
  <2>1. Feed!ask(c)
    BY <1>1, <1>4, <1>7 DEF Feed!ask
  <2> QED BY <2>1 DEF Feed!Next
<1>8. CASE told(c)' \in window[c] /\ window'[c] = {}
  <2>1. Feed!give(c)
    BY <1>1, <1>4, <1>8 DEF Feed!give
  <2> QED BY <2>1 DEF Feed!Next
<1>9. \/ window'[c] = {} /\ told(c)' = "nothing"
      \/ window'[c] = window[c] /\ told(c)' = told(c)
      \/ window[c] = {} /\ window'[c] = shown /\ told(c)' = "nothing"
      \/ told(c)' \in window[c] /\ window'[c] = {}
  <2> USE <1>2 DEF Routed, asking, told, move, TypeOK
  <2>1. CASE connect(c) \/ accept(c)
    BY <2>1 DEF connect, accept, finished, Labels
  <2>2. CASE execute(c)
    BY <2>2 DEF execute, request_execute
  <2>3. CASE get_queue(c) \/ copy_queue(c) \/ system_version(c) \/ forward(c)
    BY <2>3 DEF get_queue, copy_queue, system_version, forward
  <2>4. CASE log_result(c)
    <3>1. window' = [window EXCEPT ![c] = {}] /\ response' = response
          /\ method' = method /\ pc[c] = "log_result"
      BY <2>4 DEF log_result
    <3>2. CASE method[c] = "one.vmpool.info"
      BY <2>4, <3>1, <3>2 DEF log_result, log_result_throws, Followed
    <3>3. CASE method[c] # "one.vmpool.info"
      BY <3>1, <3>3
    <3> QED BY <3>2, <3>3
  <2> QED BY <2>1, <2>2, <2>3, <2>4 DEF RequestStep
<1> QED BY <1>5, <1>6, <1>7, <1>8, <1>9

\* The main thread and the server thread change nothing of the feed.
LEMMA MainMaps ==
    ASSUME FeedInv,
           \/ setup_socket_new \/ create_server \/ finalize \/ exit_process
           \/ rm_xml_server_loop \/ UNCHANGED vars
    PROVE  UNCHANGED Feed!feed
<1>1. UNCHANGED <<queue, assigning, window, method, response>>
  BY DEF setup_socket_new, create_server, finalize, exit_process,
         rm_xml_server_loop, make_server, server_throws, vars, request_vars
<1>2. \A c \in Clients : (pc'[c] = "replied") <=> (pc[c] = "replied")
  BY DEF setup_socket_new, create_server, finalize, exit_process,
         rm_xml_server_loop, make_server, server_throws, vars, request_vars,
         FeedInv, TypeOK
<1> QED BY <1>1, <1>2 DEF Feed!feed, shown, texts, told

\* The scheduler is only given queues that were published between its
\* request and the reply, or a mixture of texts if one of them was published
\* in that time.
THEOREM FeedRefinement == Spec => ImplementsQueueFeed
<1> SUFFICES Spec => Feed!Spec
  BY DEF ImplementsQueueFeed
<1>1. Init => FeedInv
  BY FeedInit
<1>2. FeedInv /\ [Next]_vars => FeedInv'
  BY FeedStep
<1>3. Init => Feed!Init
  BY FeedInit
<1>4. FeedInv /\ FeedInv' /\ [Next]_vars => [Feed!Next]_(Feed!feed)
  <2> SUFFICES ASSUME FeedInv, FeedInv', [Next]_vars
               PROVE  [Feed!Next]_(Feed!feed)
    OBVIOUS
  <2>1. ASSUME NEW c \in Clients, RequestStep(c)
        PROVE  [Feed!Next]_(Feed!feed)
    BY <2>1, RequestMaps
  <2> QED BY <2>1, StepCases, AssignMaps, MainMaps DEF RequestStep
<1> QED BY <1>1, <1>2, <1>3, <1>4, PTL DEF Spec, Feed!Spec
-----------------------------------------------------------------------------
(* What OpenNebula said, followed from the end of the call to the reply.   *)

\* The places that only the requests of one method pass.
Lane(c) ==
    /\ pc[c] \in {"get_queue", "copying"} => method[c] = "one.vmpool.info"
    /\ pc[c] = "respond" => method[c] = "fass.system.version"

Echoed(c) ==
    method[c] = "other" /\ said[c].reply = "ok" =>
        /\ pc[c] = "log_result" => response[c] = proxied("ok", said[c].value)
        /\ pc[c] = "replied" => response[c] = success_response(said[c].value)

EchoInv == TypeOK /\ \A c \in Clients : Lane(c) /\ Echoed(c)

LEMMA OwnEchoed ==
    ASSUME TypeOK, NEW c \in Clients, Lane(c), Echoed(c), RequestStep(c)
    PROVE  Lane(c)' /\ Echoed(c)'
<1> USE DEF Lane, Echoed, TypeOK, move
<1>1. CASE connect(c) \/ accept(c)
  BY <1>1 DEF connect, accept
<1>2. CASE execute(c)
  BY <1>2 DEF execute, request_execute, Methods
<1>3. CASE get_queue(c) \/ copy_queue(c) \/ system_version(c)
  BY <1>3 DEF get_queue, copy_queue, system_version
<1>4. CASE forward(c)
  <2>1. PICK reply \in Answers, value \in OnedValues :
            /\ said' = [said EXCEPT ![c] = [reply |-> reply, value |-> value]]
            /\ IF result_set(reply)
               THEN /\ response' = [response EXCEPT ![c] = proxied(reply, value)]
                    /\ move(c, "log_result")
               ELSE UNCHANGED <<pc, response>>
    BY <1>4 DEF forward
  <2>2. method' = method /\ pc[c] = "forward"
    BY <1>4 DEF forward
  <2> QED BY <2>1, <2>2
<1>5. CASE log_result(c)
  <2>1. UNCHANGED <<method, said, response>> /\ pc[c] = "log_result"
    BY <1>5 DEF log_result
  <2>2. /\ pc' = [pc EXCEPT ![c] = IF log_result_throws(response[c])
                                   THEN "faulted" ELSE "replied"]
    BY <1>5 DEF log_result
  <2>3. ASSUME method[c] = "other", said[c].reply = "ok", pc'[c] = "replied"
        PROVE  response[c] = success_response(said[c].value)
    <3>1. response[c] = proxied("ok", said[c].value)
      BY <2>1, <2>3
    <3>2. ~log_result_throws(response[c])
      BY <2>2, <2>3
    <3> QED
      BY <3>1, <3>2 DEF proxied, log_result_throws, failure_response, ErrorCodes
  <2> QED BY <2>1, <2>2, <2>3
<1> QED
  BY <1>1, <1>2, <1>3, <1>4, <1>5 DEF RequestStep

\* Nobody else touches what is said of a request.
LEMMA OthersEchoed ==
    ASSUME TypeOK, NEW d \in Clients, Lane(d), Echoed(d),
           \/ begin_assign \/ end_assign
           \/ setup_socket_new \/ create_server \/ finalize \/ exit_process
           \/ rm_xml_server_loop \/ UNCHANGED vars
           \/ \E c \in Clients \ {d} : RequestStep(c)
    PROVE  Lane(d)' /\ Echoed(d)'
<1> USE DEF Lane, Echoed
<1>1. CASE begin_assign \/ end_assign \/ UNCHANGED vars
  BY <1>1 DEF begin_assign, end_assign, vars, request_vars
<1>2. CASE \/ setup_socket_new \/ create_server \/ exit_process
           \/ rm_xml_server_loop
  BY <1>2 DEF setup_socket_new, create_server, exit_process,
              rm_xml_server_loop, make_server, server_throws, request_vars
<1>3. CASE finalize
  BY <1>3 DEF finalize, TypeOK
<1>4. ASSUME NEW c \in Clients \ {d}, RequestStep(c)
      PROVE  Lane(d)' /\ Echoed(d)'
  <2>1. UNCHANGED view(d)
    BY <1>4, Separate
  <2>2. said'[d] = said[d]
    BY <1>4 DEF TypeOK, RequestStep, connect, accept, execute, get_queue,
                copy_queue, system_version, forward, log_result
  <2> QED BY <2>1, <2>2 DEF view
<1> QED BY <1>1, <1>2, <1>3, <1>4

\* What OpenNebula answers to a call reaches the client that made it, or it
\* is told of no success.
THEOREM AnswersEchoed == Spec => []EchoesOned
<1>1. Init => EchoInv
  BY TypeInit DEF Init, EchoInv, Lane, Echoed
<1>2. EchoInv /\ [Next]_vars => EchoInv'
  <2> SUFFICES ASSUME EchoInv, [Next]_vars PROVE EchoInv'
    OBVIOUS
  <2>0. TypeOK /\ TypeOK'
    BY TypeStep DEF EchoInv
  <2> SUFFICES ASSUME NEW d \in Clients PROVE Lane(d)' /\ Echoed(d)'
    BY <2>0 DEF EchoInv
  <2>1. TypeOK /\ Lane(d) /\ Echoed(d)
    BY DEF EchoInv
  <2>2. CASE RequestStep(d)
    BY <2>1, <2>2, OwnEchoed
  <2>3. CASE ~RequestStep(d)
    BY <2>1, <2>3, StepCases, OthersEchoed DEF RequestStep
  <2> QED BY <2>1, <2>2, <2>3
<1>3. EchoInv => EchoesOned
  BY DEF EchoInv, Echoed, EchoesOned
<1> QED BY <1>1, <1>2, <1>3, PTL DEF Spec
=============================================================================
