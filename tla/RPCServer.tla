----------------------------- MODULE RPCServer ------------------------------
(***************************************************************************)
(* src/rpcm/RPCManager.cc and RPCManager.h: the socket, the thread of the  *)
(* Abyss server and the threads that serve its connections, from start to  *)
(* finalize and to the end of the process.                                 *)
(***************************************************************************)
EXTENDS Request, FiniteSets, Naturals

CONSTANTS
    MaxConn,      \* the option max_conn
    PromptServer  \* the server thread has built its server before a SIGTERM
                  \* is taken

ASSUME ServerAssumption == MaxConn \in Nat \ {0} /\ PromptServer \in BOOLEAN

VARIABLES
    main,         \* the place of the main thread
    addrinfo,     \* the list of getaddrinfo: none, held
    socket_fd,    \* none, open, closed
    AbyssServer,  \* the pointer: garbage (never written), made, deleted
    server        \* the server thread: none, starting, running, ended

server_vars == <<main, addrinfo, socket_fd, AbyssServer, server>>
vars == <<request_vars, server_vars>>

Init ==
    /\ queue \in Queues /\ assigning = {}
    /\ pc = [c \in Clients |-> "idle"]
    /\ method = [c \in Clients |-> "other"]
    /\ copied = [c \in Clients |-> {}]
    /\ response = [c \in Clients |-> Unset]
    /\ said = [c \in Clients |-> Silent]
    /\ window = [c \in Clients |-> {}]
    /\ process = "up"
    /\ main = "getaddrinfo"
    /\ addrinfo = "none" /\ socket_fd = "none"
    /\ AbyssServer = "garbage" /\ server = "none"
-----------------------------------------------------------------------------
(* The main thread: RPCManager::start with setup_socket_new.  A failure    *)
(* makes start return 0, and Fass::start throws.                           *)

getaddrinfo ==
    /\ main = "getaddrinfo"
    /\ \/ main' = "socket" /\ addrinfo' = "held"
       \/ main' = "failed" /\ UNCHANGED addrinfo
    /\ UNCHANGED socket_fd

open_socket ==
    /\ main = "socket"
    /\ \/ main' = "setsockopt" /\ socket_fd' = "open" /\ UNCHANGED addrinfo
       \/ main' = "failed" /\ addrinfo' = "none" /\ UNCHANGED socket_fd

setsockopt ==
    /\ main = "setsockopt"
    /\ \/ main' = "bind" /\ UNCHANGED <<addrinfo, socket_fd>>
       \/ main' = "failed" /\ addrinfo' = "none" /\ socket_fd' = "closed"

\* MUTANT: the socket is not closed when it cannot be bound.
bind_leaks ==
    /\ main = "bind"
    /\ addrinfo' = "none"
    /\ main' \in {"create", "failed"}
    /\ UNCHANGED socket_fd

bind ==
    /\ main = "bind"
    /\ addrinfo' = "none"
    /\ \/ main' = "create" /\ UNCHANGED socket_fd
       \/ main' = "failed" /\ socket_fd' = "closed"

setup_socket_new ==
    /\ process = "up"
    /\ getaddrinfo \/ open_socket \/ setsockopt \/ bind
    /\ UNCHANGED <<request_vars, AbyssServer, server>>

\* The methods are registered and the server thread is created.
create_server ==
    /\ process = "up" /\ main = "create"
    /\ main' = "sigwait"
    /\ server' = "starting"
    /\ UNCHANGED <<request_vars, addrinfo, socket_fd, AbyssServer>>

\* rm_xml_server_loop, in its own thread: the server exists from here on.
make_server ==
    /\ process = "up" /\ server = "starting"
    /\ server' = "running"
    /\ AbyssServer' = "made"
    /\ UNCHANGED <<request_vars, main, addrinfo, socket_fd>>

\* Its constructor and run() throw where nobody catches.
server_throws ==
    /\ process = "up" /\ server \in {"starting", "running"}
    /\ crashes
    /\ UNCHANGED <<queue, assigning, pc, method, copied, response, said, window,
                   server_vars>>

rm_xml_server_loop == make_server \/ server_throws

\* The end of sigwait, and RPCManager::finalize, which terminates the server
\* through a pointer that only the server thread sets.  The threads of the
\* connections are not joined.
finalize ==
    /\ process = "up" /\ main = "sigwait"
    /\ PromptServer => server = "running"
    /\ IF AbyssServer = "garbage"
       THEN crashes /\ UNCHANGED <<pc, server_vars>>
       ELSE /\ main' = "stopped"
            /\ server' = "ended" /\ AbyssServer' = "deleted"
            /\ socket_fd' = "closed"
            /\ pc' = [c \in Clients |->
                        IF pc[c] = "backlog" THEN "dropped" ELSE pc[c]]
            /\ UNCHANGED <<process, addrinfo>>
    /\ UNCHANGED <<queue, assigning, method, copied, response, said, window>>

(* The process exits once the other managers are joined (so no assignment  *)
(* is under way), or at once after a failed start.  ~Fass deletes what the *)
(* threads of the connections use.                                         *)
exit_process ==
    /\ process = "up" /\ main \in {"stopped", "failed"}
    /\ main = "stopped" => assigning = {}
    /\ \/ process' = "exited"
       \/ (\E c \in Clients : ~finished(c)) /\ crashes
    /\ UNCHANGED <<queue, assigning, pc, method, copied, response, said, window,
                   server_vars>>

main_thread == setup_socket_new \/ create_server \/ finalize \/ exit_process
-----------------------------------------------------------------------------
(* The connections.  At most MaxConn are served at a time.                 *)

busy == {c \in Clients : ~finished(c) /\ pc[c] # "backlog"}

\* Every request has attributes of its own.
connect(c) ==
    /\ process = "up" /\ server = "running"
    /\ finished(c)
    /\ method' \in {[method EXCEPT ![c] = name] : name \in Methods}
    /\ move(c, "backlog")
    /\ response' = [response EXCEPT ![c] = Unset]
    /\ said' = [said EXCEPT ![c] = Silent]
    /\ UNCHANGED <<queue, assigning, copied, window, process, server_vars>>

accept(c) ==
    /\ process = "up" /\ server = "running"
    /\ pc[c] = "backlog"
    /\ Cardinality(busy) < MaxConn
    /\ move(c, "execute")
    /\ UNCHANGED <<queue, assigning, method, copied, response, said, window,
                   process, server_vars>>

handler_step(c) == handler(c) /\ UNCHANGED server_vars

ended == process # "up" /\ UNCHANGED vars

Next ==
    \/ main_thread \/ rm_xml_server_loop \/ ended
    \/ (begin_assign \/ end_assign) /\ UNCHANGED server_vars
    \/ \E c \in Clients : connect(c) \/ accept(c) \/ handler_step(c)

Spec == Init /\ [][Next]_vars

(* Every thread runs on.  The server thread accepts waiting connections in *)
(* some fair order; a forwarded call ends, because finishAsync has a       *)
(* timeout.  Nothing makes clients connect, a SIGTERM arrive or the server *)
(* throw.                                                                  *)
Fairness ==
    /\ WF_vars(setup_socket_new \/ create_server \/ exit_process)
    /\ WF_vars(make_server)
    /\ WF_vars(end_assign /\ UNCHANGED server_vars)
    /\ \A c \in Clients : SF_vars(accept(c)) /\ WF_vars(handler_step(c))

FairSpec == Spec /\ Fairness
=============================================================================
