------------------------- MODULE StartupProperties --------------------------
(***************************************************************************)
(* The properties of Startup.                                              *)
(***************************************************************************)
EXTENDS Startup

\* From the creation of the lock file to its deletion.
Inside == {"fork", "chdir", "setsid", "config", "shares", "log", "database",
           "wait_one", "managers", "running", "stopping", "hung", "unlink"}
holds(i) == option[i] # "init_db" /\ pc[i] \in Inside

\* Type invariant.
TypeOK ==
    /\ {lock, port} \subseteq Instances \cup {NoOne}
    /\ pc \in [Instances -> Inside \cup {"gone", "lock"}]
    /\ option \in [Instances -> Options]
    /\ end \in [Instances -> {"never", "refused", "no_fork", "failed",
                              "crashed", "killed", "exited"}]

\* fassd.cc:131 "Check if another fassd is running": however processes are
\* launched, fail, are killed and are launched again, no two are past the
\* check at a time, as long as nobody deletes the file of a running one and
\* none is launched with -i.
OneDaemon == \A i, j \in Instances : holds(i) /\ holds(j) => i = j

\* A process that ends by itself leaves no lock file behind, whatever it
\* failed on after the check (fassd.cc:193, 204, 209): only a failed fork, a
\* crash and a signal that kills do.
LockGivenBack ==
    [][\A i \in Instances :
         holds(i) /\ ~holds(i)' /\ end'[i] \notin {"no_fork", "crashed", "killed"}
            => lock' # i]_vars

\* Unless a process has been killed, has crashed, could not fork, or hangs (on
\* a database that is silent, or while it stops on a mutex that a failed poll
\* left locked, Terminator.cc:244, or on a thread), the daemon can be started
\* again and again: a failure that is noticed at any other place
\* (fassd.cc:202-210, every exception out of Fass::start) never leaves the
\* file to block the next start.
LockNotOrphaned ==
    \/ <>(\E i \in Instances : \/ end[i] \in {"no_fork", "crashed", "killed"}
                               \/ pc[i] = "hung")
    \/ []<>(lock = NoOne \/ \E i \in Instances : pc[i] = "running")
=============================================================================
