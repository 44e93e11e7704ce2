------------------------------ MODULE Manager -------------------------------
(***************************************************************************)
(* include/Manager.h and the waiting part of pm_loop and tm_loop.  Each    *)
(* manager is an object with a mutex, a condition variable and the flag    *)
(* stop_manager, and a thread that waits for its timer and then runs one   *)
(* pass of its body.  The main thread stops a manager with finalize.       *)
(*                                                                         *)
(* pc gives the place of each thread in the code:                          *)
(*   idle     not created yet          top    the test of the outer loop   *)
(*   lock     about to lock            check  the test of the inner loop   *)
(*   wait     holds the mutex, about to call pthread_cond_timedwait        *)
(*   sleep    in the call, mutex released                                  *)
(*   rewait   woken, rc is not ETIMEDOUT, about to take the mutex back     *)
(*   expired  woken, rc = ETIMEDOUT, about to take the mutex back          *)
(*   exit     the thread function has returned                             *)
(* and the labels of the bodies and of the main thread, which the modules  *)
(* Terminator, PriorityManager and Fass introduce.                         *)
(***************************************************************************)
EXTENDS Naturals

VARIABLES
    mutex,         \* of each manager: the thread that holds it, or "free"
    stop_manager,  \* of each manager
    pc,            \* of each thread
    process        \* "up", or how the process ended: "exited", "aborted" by
                   \* an exception that nothing caught, "crashed" by undefined
                   \* behaviour (a null or dangling pointer)

manager_vars == <<mutex, stop_manager, pc, process>>

Managers == {"pm", "tm"}
Threads  == Managers \cup {"main"}

\* The first label of the body of each loop.
Body == [m \in Managers |-> IF m = "pm" THEN "kill_pending" ELSE "users"]

WaitLabels == {"idle", "top", "lock", "check", "wait", "sleep", "rewait",
               "expired", "exit"}

at(t, label) == process = "up" /\ pc[t] = label

goto(t, label) == pc' = [pc EXCEPT ![t] = label]

lock(m, t) ==
    /\ mutex[m] = "free"
    /\ mutex' = [mutex EXCEPT ![m] = t]

unlock(m, t) == mutex' = [mutex EXCEPT ![m] = "free"]

ends(how) == process' = how /\ UNCHANGED <<mutex, stop_manager, pc>>

loop_test(m) ==
    /\ at(m, "top")
    /\ goto(m, IF stop_manager[m] THEN "exit" ELSE "lock")
    /\ UNCHANGED <<mutex, stop_manager, process>>

lock_timer(m) ==
    /\ at(m, "lock")
    /\ lock(m, m)
    /\ goto(m, "check")
    /\ UNCHANGED <<stop_manager, process>>

\* The body runs after the wait, also when a stop is what ended the wait.
wait_test(m) ==
    /\ at(m, "check")
    /\ IF stop_manager[m] THEN unlock(m, m) /\ goto(m, Body[m])
                          ELSE goto(m, "wait") /\ mutex' = mutex
    /\ UNCHANGED <<stop_manager, process>>

\* pthread_cond_timedwait releases the mutex and sleeps in one step.
fall_asleep(m) ==
    /\ at(m, "wait")
    /\ unlock(m, m)
    /\ goto(m, "sleep")
    /\ UNCHANGED <<stop_manager, process>>

\* The deadline is absolute and set before the loop, so this is possible
\* however long ago the thread began to wait.
timer_expires(m) ==
    /\ at(m, "sleep")
    /\ goto(m, "expired")
    /\ UNCHANGED <<mutex, stop_manager, process>>

\* POSIX lets the call return without a signal.
spurious_wakeup(m) ==
    /\ at(m, "sleep")
    /\ goto(m, "rewait")
    /\ UNCHANGED <<mutex, stop_manager, process>>

\* The call returns with the mutex, and the inner loop goes on.
wake(m) ==
    /\ at(m, "rewait")
    /\ lock(m, m)
    /\ goto(m, "check")
    /\ UNCHANGED <<stop_manager, process>>

\* The call returns with the mutex; ETIMEDOUT ends the inner loop, and the
\* mutex is released before anything else happens.
leave_wait(m) ==
    /\ at(m, "expired")
    /\ mutex[m] = "free"
    /\ goto(m, Body[m])
    /\ UNCHANGED <<mutex, stop_manager, process>>

\* MUTANT: the flag is set without taking the mutex.
finalize_unlocked(m, next) ==
    /\ stop_manager' = [stop_manager EXCEPT ![m] = TRUE]
    /\ pc' = [pc EXCEPT !["main"] = next,
                        ![m] = IF pc[m] = "sleep" THEN "rewait" ELSE @]
    /\ UNCHANGED <<mutex, process>>

\* MUTANT: the thread is woken and not told to stop.
finalize_signal(m, next) ==
    /\ mutex[m] = "free"
    /\ pc' = [pc EXCEPT !["main"] = next,
                        ![m] = IF pc[m] = "sleep" THEN "rewait" ELSE @]
    /\ UNCHANGED <<mutex, stop_manager, process>>

(* Manager::finalize, called by the main thread, which then goes on to     *)
(* label next.  It is one step: while it holds the mutex no other thread   *)
(* can tell its statements apart.  The signal wakes the manager's thread   *)
(* if it is asleep and is lost otherwise.                                  *)
finalize(m, next) ==
    /\ mutex[m] = "free"
    /\ stop_manager' = [stop_manager EXCEPT ![m] = TRUE]
    /\ pc' = [pc EXCEPT !["main"] = next,
                        ![m] = IF pc[m] = "sleep" THEN "rewait" ELSE @]
    /\ UNCHANGED <<mutex, process>>
=============================================================================
