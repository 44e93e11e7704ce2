-------------------------------- MODULE Fass --------------------------------
(***************************************************************************)
(* src/fass/Fass.cc: Fass::start, run by the main thread, and the whole    *)
(* daemon: the main thread, the threads of the two managers and the cloud. *)
(* main: wait_one, start_pm, new_tm, start_tm, start_rpcm, sigwait,        *)
(* fin_pm, fin_tm, fin_rpcm, join_pm, join_tm, done.                       *)
(***************************************************************************)
EXTENDS PriorityManager

CONSTANTS
    PromptStart,  \* TRUE: the main thread creates the Terminator before the
                  \* timer of the Priority Manager expires for the first time
    MayStop,      \* TRUE: a SIGTERM or SIGINT may arrive
    SecondJoin    \* what the second pthread_join of the server thread, which
                  \* RPCManager::finalize has joined before, may do

ASSUME FassAssumption ==
    /\ {PromptStart, MayStop} \subseteq BOOLEAN
    /\ SecondJoin \subseteq {"returns", "crashes"}

vars == <<manager_vars, cloud, terminator_vars, pm_vars>>

MainLabels == {"wait_one", "start_pm", "new_tm", "start_tm", "start_rpcm",
               "sigwait", "fin_pm", "fin_tm", "fin_rpcm", "join_pm",
               "join_tm", "done"}

Init ==
    /\ mutex = [m \in Managers |-> "free"]
    /\ stop_manager = [m \in Managers |-> FALSE]
    /\ pc = [t \in Threads |-> IF t = "main" THEN "wait_one" ELSE "idle"]
    /\ process = "up"
    /\ CloudInit /\ TerminatorInit /\ PMInit

-----------------------------------------------------------------------------
(* The main thread.                                                        *)

\* one.system.config until oned answers with success; every other outcome,
\* exceptions included, is logged and tried again two seconds later.
wait_one ==
    /\ at("main", "wait_one")
    /\ "ok" \in PollReplies
    /\ goto("main", "start_pm")
    /\ UNCHANGED <<mutex, stop_manager, process, terminator_vars>>

\* Manager::start of manager m creates its thread.
start_manager(m, here, next) ==
    /\ at("main", here)
    /\ pc' = [pc EXCEPT !["main"] = next, ![m] = "top"]
    /\ UNCHANGED <<mutex, stop_manager, process, terminator_vars>>

new_terminator ==
    /\ at("main", "new_tm")
    /\ tm_made' = TRUE
    /\ goto("main", "start_tm")
    /\ UNCHANGED <<mutex, stop_manager, process, tm_objects, todo, user>>

\* When the server cannot start, the exception ends the program; ~Fass then
\* deletes the managers while their threads run, which may also crash it.
start_rpcm ==
    /\ at("main", "start_rpcm")
    /\ \/ goto("main", "sigwait") /\ process' = process
       \/ process' \in {"exited", "crashed"} /\ pc' = pc
    /\ UNCHANGED <<mutex, stop_manager, terminator_vars>>

\* SIGTERM or SIGINT arrives.
terminate_signal ==
    /\ MayStop
    /\ at("main", "sigwait")
    /\ goto("main", "fin_pm")
    /\ UNCHANGED <<mutex, stop_manager, process, terminator_vars>>

finalize_manager(m, here, next) ==
    /\ at("main", here)
    /\ finalize(m, next)
    /\ UNCHANGED terminator_vars

\* RPCManager::finalize, and the second join of the server thread.
finalize_rpcm ==
    /\ at("main", "fin_rpcm")
    /\ \E outcome \in SecondJoin :
         IF outcome = "crashes" THEN ends("crashed")
         ELSE /\ goto("main", "join_pm")
              /\ UNCHANGED <<mutex, stop_manager, process>>
    /\ UNCHANGED terminator_vars

\* MUTANT: the threads are not waited for.
join_nobody(m, here, next) ==
    /\ at("main", here)
    /\ goto("main", next)
    /\ process' = IF next = "done" THEN "exited" ELSE process
    /\ UNCHANGED <<mutex, stop_manager, terminator_vars>>

join_manager(m, here, next) ==
    /\ at("main", here)
    /\ pc[m] = "exit"
    /\ goto("main", next)
    /\ process' = IF next = "done" THEN "exited" ELSE process
    /\ UNCHANGED <<mutex, stop_manager, terminator_vars>>

starting ==
    \/ wait_one
    \/ start_manager("pm", "start_pm", "new_tm")
    \/ new_terminator
    \/ start_manager("tm", "start_tm", "start_rpcm")
    \/ start_rpcm

stopping ==
    \/ finalize_manager("pm", "fin_pm", "fin_tm")
    \/ finalize_manager("tm", "fin_tm", "fin_rpcm")
    \/ finalize_rpcm
    \/ join_manager("pm", "join_pm", "join_tm")
    \/ join_manager("tm", "join_tm", "done")

main_thread == starting \/ terminate_signal \/ stopping

-----------------------------------------------------------------------------
(* The threads of the managers and the whole system.                       *)

time_out(m) ==
    /\ (PromptStart /\ m = "pm") => tm_made
    /\ timer_expires(m)

waiting(m) ==
    \/ loop_test(m) \/ lock_timer(m) \/ wait_test(m) \/ fall_asleep(m)
    \/ time_out(m) \/ spurious_wakeup(m) \/ wake(m) \/ leave_wait(m)

main_step == main_thread /\ UNCHANGED <<cloud, pm_vars>>

waiting_step(m) == waiting(m) /\ UNCHANGED <<cloud, terminator_vars, pm_vars>>

tm_body_step == terminator_body /\ UNCHANGED pm_vars

pm_body_step == (kill_pending /\ UNCHANGED pm_vars) \/ pm_body

thread_step(m) ==
    waiting_step(m) \/ (IF m = "pm" THEN pm_body_step ELSE tm_body_step)

\* The cloud is followed for as long as the daemon runs.
cloud_step ==
    /\ process = "up"
    /\ \E v \in VMs : environment(v)
    /\ UNCHANGED <<manager_vars, terminator_vars, pm_vars>>

ended == process # "up" /\ UNCHANGED vars

Next == main_step \/ (\E m \in Managers : thread_step(m)) \/ cloud_step \/ ended

Spec == Init /\ [][Next]_vars

(* Every thread is scheduled, and a mutex that is free again and again is  *)
(* obtained in the end; a timer that is armed again and again expires (its *)
(* deadline is absolute).  A call to act on a VM that is repeated for ever *)
(* succeeds in the end.  Nothing makes a user, the scheduler of OpenNebula *)
(* or a SIGTERM act.                                                       *)
Fairness ==
    /\ SF_vars((starting \/ stopping) /\ UNCHANGED <<cloud, pm_vars>>)
    /\ \A m \in Managers :
         /\ SF_vars(thread_step(m))
         /\ SF_vars(time_out(m) /\ UNCHANGED <<cloud, terminator_vars, pm_vars>>)
    /\ \A v \in VMs :
         /\ SF_vars(kill_pending_each(v, "ok") /\ UNCHANGED pm_vars)
         /\ SF_vars(kill_running_each(v, "ok") /\ UNCHANGED pm_vars)

FairSpec == Spec /\ Fairness
=============================================================================
