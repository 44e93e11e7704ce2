------------------------------ MODULE Startup -------------------------------
(***************************************************************************)
(* src/fass/fassd.cc and the first half of Fass::start (src/fass/Fass.cc): *)
(* processes of fassd that are launched on one machine, by systemd, by an  *)
(* administrator or after a crash, with a lock file and a listening port   *)
(* between them.  Module Fass starts where a process here is "managers".   *)
(* pc: gone, lock, fork, chdir, setsid, config, shares, log, database,     *)
(* wait_one, managers, running, stopping, unlink; hung: it waits for ever. *)
(***************************************************************************)
EXTENDS FiniteSets

CONSTANTS
    Instances,   \* the processes; one that has ended may be launched again
    Options,     \* the ways to launch: "daemon", "foreground", "init_db"
    NoOne,       \* nobody
    Faults,      \* the calls and inputs that may be bad, see FaultNames
    Kills,       \* a process may be killed (SIGKILL, a crash, or SIGTERM
                 \* before it is blocked)
    CarefulAdmin \* nobody deletes the lock file of a process that runs

FaultNames == {"fork", "chdir", "setsid", "gethostname", "fassd.conf",
               "shares.conf", "share property", "share value", "log file",
               "database type", "lock directory", "silent database",
               "thread stuck"}

ASSUME StartupAssumption ==
    /\ Options \subseteq {"daemon", "foreground", "init_db"}
    /\ NoOne \notin Instances
    /\ Faults \subseteq FaultNames
    /\ {Kills, CarefulAdmin} \subseteq BOOLEAN

VARIABLES
    lock,    \* who created the lock file that exists
    port,    \* who listens on rpcm.listen_port
    pc,
    option,  \* how it was launched
    end      \* how it ended: never, refused, no_fork, failed, crashed, killed,
             \* exited; "failed" as soon as an exception is on its way

vars == <<lock, port, pc, option, end>>

up(i) == pc[i] # "gone"
move(i, label) == pc' = [pc EXCEPT ![i] = label]
ends(i, how) == end' = [end EXCEPT ![i] = how]

Init ==
    /\ lock = NoOne /\ port = NoOne
    /\ pc = [i \in Instances |-> "gone"]
    /\ option \in [Instances -> Options]
    /\ end = [i \in Instances |-> "never"]
-----------------------------------------------------------------------------
(* main of fassd.                                                          *)

\* main reads the options; -i calls Fass::start before the lock is looked at.
launch(i) ==
    /\ pc[i] = "gone"
    /\ \E way \in Options :
        /\ option' = [option EXCEPT ![i] = way]
        /\ move(i, IF way = "init_db" THEN "config" ELSE "lock")
    /\ ends(i, "never")
    /\ UNCHANGED <<lock, port>>

\* MUTANT: the file is opened without O_EXCL.
check_lock_shared(i) ==
    /\ pc[i] = "lock"
    /\ lock' = i
    /\ move(i, IF option[i] = "foreground" THEN "chdir" ELSE "fork")
    /\ UNCHANGED <<port, option, end>>

\* open with O_CREAT|O_EXCL; it also fails without a directory, without a
\* permission, on a full disk, and nothing is created then.
check_lock(i) ==
    /\ pc[i] = "lock"
    /\ \/ /\ lock = NoOne
          /\ lock' = i
          /\ move(i, IF option[i] = "foreground" THEN "chdir" ELSE "fork")
          /\ UNCHANGED end
       \/ /\ lock # NoOne \/ "lock directory" \in Faults
          /\ move(i, "gone") /\ ends(i, "refused")
          /\ UNCHANGED lock
    /\ UNCHANGED <<port, option>>

\* The parent ends and the child goes on; without a child the file stays.
fork(i) ==
    /\ pc[i] = "fork"
    /\ \/ move(i, "chdir") /\ UNCHANGED end
       \/ "fork" \in Faults /\ move(i, "gone") /\ ends(i, "no_fork")
    /\ UNCHANGED <<lock, port, option>>

\* MUTANT: a child that cannot change its directory or session just exits.
change_or_exit(i, here, fault, next) ==
    /\ pc[i] = here
    /\ \/ move(i, next) /\ UNCHANGED end
       \/ fault \in Faults /\ move(i, "gone") /\ ends(i, "failed")
    /\ UNCHANGED <<lock, port, option>>

\* chdir and setsid; a failure goes to error_chdir or error_sid.
change(i, here, fault, next) ==
    /\ pc[i] = here
    /\ \/ move(i, next) /\ UNCHANGED end
       \/ fault \in Faults /\ move(i, "unlink") /\ ends(i, "failed")
    /\ UNCHANGED <<lock, port, option>>

change_directory(i) ==
    change(i, "chdir", "chdir",
           IF option[i] = "foreground" THEN "config" ELSE "setsid")
change_session(i) == change(i, "setsid", "setsid", "config")

\* MUTANT: the lock file is left to the next start.
unlink_nothing(i) ==
    /\ pc[i] = "unlink"
    /\ move(i, "gone")
    /\ end' = [end EXCEPT ![i] = IF @ = "failed" THEN @ ELSE "exited"]
    /\ UNCHANGED <<lock, port, option>>

\* unlink takes a path: it deletes the file whoever created it.
unlink(i) ==
    /\ pc[i] = "unlink"
    /\ lock' = NoOne
    /\ move(i, "gone")
    /\ end' = [end EXCEPT ![i] = IF @ = "failed" THEN @ ELSE "exited"]
    /\ UNCHANGED <<port, option>>

fassd(i) == \/ check_lock(i) \/ fork(i) \/ change_directory(i)
            \/ change_session(i) \/ unlink(i)
-----------------------------------------------------------------------------
(* Fass::start up to the managers.                                         *)

\* Where start returns or throws to: fassd_main, which deletes the file, or
\* fassd_init, which exits.
back(i) == IF option[i] = "init_db" THEN "gone" ELSE "unlink"

\* An exception reaches the caller of start.
throws(i) == move(i, back(i)) /\ ends(i, "failed") /\ UNCHANGED <<lock, port>>

\* The process dies on the spot.
dies(i) ==
    /\ move(i, "gone")
    /\ ends(i, "crashed")
    /\ port' = IF port = i THEN NoOne ELSE port
    /\ UNCHANGED lock

goes_on(i, next) == move(i, next) /\ UNCHANGED <<lock, port, end>>

\* The process waits for ever, until it is killed.
hangs(i) == goes_on(i, "hung")

\* A missing file counts as an empty one, so all options get their defaults.
load_configuration(i) ==
    /\ pc[i] = "config"
    /\ \/ goes_on(i, "shares")
       \/ Faults \cap {"gethostname", "fassd.conf"} # {} /\ throws(i)
    /\ UNCHANGED option

\* A user without one of the four properties, or with a dot in the name (the
\* separator of paths into the tree), is reported to the logger, which
\* does not exist yet.
load_shares(i) ==
    /\ pc[i] = "shares"
    /\ \/ goes_on(i, "log")
       \/ "shares.conf" \in Faults /\ throws(i)
       \/ "share property" \in Faults /\ dies(i)
    /\ UNCHANGED option

init_log_system(i) ==
    /\ pc[i] = "log"
    /\ \/ goes_on(i, "database")
       \/ "log file" \in Faults /\ throws(i)
    /\ UNCHANGED option

\* "throw;" without an exception ends in std::terminate.  The constructor of
\* the database asks its server, and the request has no timeout.
make_database(i) ==
    /\ pc[i] = "database"
    /\ \/ goes_on(i, "wait_one")
       \/ "silent database" \in Faults /\ hangs(i)
       \/ "database type" \in Faults /\ dies(i)
    /\ UNCHANGED option

\* OpenNebula has answered, and all signals are blocked.
wait_one(i) ==
    /\ pc[i] = "wait_one"
    /\ goes_on(i, "managers")
    /\ UNCHANGED option

(* The managers are made and started: the first one reads the values of    *)
(* the shares and writes them to the database, the last one needs the      *)
(* port.  When it is taken, start throws beside the running threads of the *)
(* others.                                                                 *)
start_managers(i) ==
    /\ pc[i] = "managers"
    /\ \/ "share value" \in Faults /\ throws(i)
       \/ "silent database" \in Faults /\ hangs(i)
       \/ port # NoOne /\ (throws(i) \/ dies(i))
       \/ /\ port = NoOne
          /\ port' = i /\ move(i, "running")
          /\ UNCHANGED <<lock, end>>
    /\ UNCHANGED option

\* SIGTERM or SIGINT ends sigwait.
terminate(i) ==
    /\ pc[i] = "running"
    /\ goes_on(i, "stopping")
    /\ UNCHANGED option

\* MUTANT: the port is not given back, and the process waits for its threads.
stop_managers_undone(i) ==
    /\ pc[i] = "stopping"
    /\ move(i, "joining")
    /\ UNCHANGED <<lock, port, option, end>>

(* The managers are finalized and joined, and start returns.  It never     *)
(* does if a failed poll has left the mutex of the Terminator locked or a  *)
(* thread waits for the database; the second join of the server's thread   *)
(* is undefined.  Module Fass has the details.                             *)
stop_managers(i) ==
    /\ pc[i] = "stopping"
    /\ \/ /\ port' = NoOne
          /\ move(i, back(i))
          /\ ends(i, "exited")
          /\ UNCHANGED lock
       \/ "thread stuck" \in Faults /\ (hangs(i) \/ dies(i))
    /\ UNCHANGED option

start(i) == \/ load_configuration(i) \/ load_shares(i) \/ init_log_system(i)
            \/ make_database(i) \/ wait_one(i) \/ start_managers(i)
            \/ stop_managers(i)
-----------------------------------------------------------------------------
(* The world around.                                                       *)

\* SIGKILL at any time; SIGTERM and SIGINT too, until they are blocked.
kill(i) ==
    /\ Kills
    /\ up(i)
    /\ move(i, "gone")
    /\ ends(i, "killed")
    /\ port' = IF port = i THEN NoOne ELSE port
    /\ UNCHANGED <<lock, option>>

\* test/DummyTest.sh deletes the lock file before it starts the daemon.
remove_lock ==
    /\ lock # NoOne
    /\ CarefulAdmin => \A i \in Instances : ~up(i)
    /\ lock' = NoOne
    /\ UNCHANGED <<port, pc, option, end>>

Next ==
    \/ \E i \in Instances : \/ launch(i) \/ fassd(i) \/ start(i)
                            \/ terminate(i) \/ kill(i)
    \/ remove_lock

Spec == Init /\ [][Next]_vars

\* Processes run on unless they hang, and OpenNebula answers in the end.
\* Nothing makes anyone launch, stop or kill a process.
Fairness == \A i \in Instances : WF_vars(fassd(i) \/ start(i))

FairSpec == Spec /\ Fairness
=============================================================================
