--------------------------- MODULE RPCProperties ----------------------------
(***************************************************************************)
(* The properties of RPCServer.                                            *)
(***************************************************************************)
EXTENDS RPCServer

Places == {"getaddrinfo", "socket", "setsockopt", "bind", "create", "failed",
           "sigwait", "stopped"}

Labels == {"idle", "backlog", "execute", "get_queue", "copying", "forward",
           "respond", "log_result", "replied", "faulted", "dropped"}

\* Type invariant.
TypeOK ==
    /\ queue \in Queues /\ assigning \subseteq Queues
    /\ pc \in [Clients -> Labels]
    /\ method \in [Clients -> Methods]
    /\ copied \in [Clients -> SUBSET (Queues \cup Races)]
    /\ response \in [Clients -> [success : BOOLEAN, value : Values]]
    /\ said \in [Clients -> [reply : Replies, value : OnedValues]]
    /\ window \in [Clients -> SUBSET (Queues \cup {"torn"})]
    /\ process \in {"up", "exited", "crashed"}
    /\ main \in Places
    /\ addrinfo \in {"none", "held"}
    /\ socket_fd \in {"none", "open", "closed"}
    /\ AbyssServer \in {"garbage", "made", "deleted"}
    /\ server \in {"none", "starting", "running", "ended"}

\* The thread of the Priority Manager assigns to the string (make_queue,
\* PriorityManager.cc:224) that the threads of the server copy without a lock
\* (PriorityManager.h:70, RequestQueue.cc:24), and an overlap may tear the text
\* or crash.  What survives of "returns the reordered queue" is this: a client
\* whose request overlaps no assignment is told the queue of that time, whole,
\* and any other one of those published meanwhile or, at worst, a mixture: no
\* request is answered with a text from before it, or from another request,
\* and none with a mixture that an earlier assignment left behind.
told(c) == IF pc[c] = "replied" /\ method[c] = "one.vmpool.info"
           THEN response[c].value ELSE "nothing"

Feed == INSTANCE QueueFeed WITH
    offered <- window, given <- [c \in Clients |-> told(c)],
    Nothing <- "nothing", Torn <- "torn"

ImplementsQueueFeed == Feed!Spec

\* setup_socket_new (RPCManager.cc:229) and finalize (RPCManager.h:66) give
\* back what they took on each of their paths: a start that failed and a stop
\* that ended leave no address list and no open socket behind.
ResourcesReleased ==
    main \in {"failed", "stopped"} => addrinfo = "none" /\ socket_fd # "open"

\* A call that OpenNebula answered with success is answered with success and
\* its value if that is a scalar, and otherwise not with success
\* (RequestOneProxy.cc:111-128).
EchoesOned ==
    \A c \in Clients :
        pc[c] = "replied" /\ method[c] = "other" /\ said[c].reply = "ok" =>
            response[c] = success_response(said[c].value)

\* A client that connects is served in the end, whatever the others ask for
\* and however many of their calls to OpenNebula time out or throw: a handler
\* that throws gives its connection back.
Answered ==
    \A c \in Clients : pc[c] = "backlog" ~> finished(c) \/ process # "up"
-----------------------------------------------------------------------------
(* What comments of the code say and the code does not do.                 *)

\* RequestOneProxy.cc:100 "one says failure": then the client is not told
\* success.
RefusalTold ==
    \A c \in Clients :
        pc[c] = "replied" /\ method[c] = "other" /\ said[c].reply = "refused" =>
            ~response[c].success
=============================================================================
