----------------------------- MODULE FassProofs -----------------------------
(***************************************************************************)
(* Proofs, for every value of the constants, of the safety properties of   *)
(* FassProperties.                                                         *)
(***************************************************************************)
EXTENDS FassInvariants, TLAPS

LEMMA TypeInit == Init => TypeOK
<1> SUFFICES ASSUME Init PROVE TypeOK
  OBVIOUS
<1>1. CloudTypeOK
  BY DEF Init, CloudInit, CloudTypeOK, States
<1>2. user \in 0..Len(UserList)
  BY TerminatorAssumption DEF Init, TerminatorInit
<1>3. mutex \in [Managers -> Threads \cup {"free"}]
  BY DEF Init, Managers, Threads
<1>4. /\ stop_manager \in [Managers -> BOOLEAN]
      /\ todo \in [Managers -> SUBSET VMs]
  BY DEF Init, TerminatorInit
<1>5. pc \in [Threads -> WaitLabels \cup TerminatorLabels \cup PMLabels
                                   \cup MainLabels]
  BY DEF Init, WaitLabels, MainLabels
<1>6. QED
  BY <1>1, <1>2, <1>3, <1>4, <1>5 DEF Init, TypeOK, TerminatorInit, PMInit

-----------------------------------------------------------------------------
(* Type correctness, one lemma per thread.                                 *)

LEMMA TypeMain == TypeOK /\ main_step => TypeOK'
<1> SUFFICES ASSUME TypeOK, main_step PROVE TypeOK'
  OBVIOUS
<1> USE DEF TypeOK, CloudTypeOK, main_step, cloud, pm_vars, goto, at, MainLabels,
            WaitLabels, Threads, Managers, terminator_vars
<1>1. CASE wait_one
  BY <1>1 DEF wait_one
<1>2. CASE \E m \in Managers, here, next \in MainLabels : start_manager(m, here, next)
  BY <1>2 DEF start_manager
<1>3. CASE new_terminator
  BY <1>3 DEF new_terminator
<1>4. CASE start_rpcm
  BY <1>4 DEF start_rpcm
<1>5. CASE terminate_signal
  BY <1>5 DEF terminate_signal
<1>6. CASE \E m \in Managers, here, next \in MainLabels : finalize_manager(m, here, next)
  BY <1>6 DEF finalize_manager, finalize
<1>7. CASE finalize_rpcm
  BY <1>7 DEF finalize_rpcm, ends
<1>8. CASE \E m \in Managers, here, next \in MainLabels : join_manager(m, here, next)
  BY <1>8 DEF join_manager
<1>9. QED
  BY <1>1, <1>2, <1>3, <1>4, <1>5, <1>6, <1>7, <1>8
     DEF main_thread, starting, stopping

LEMMA TypeWaiting == ASSUME TypeOK, NEW m \in Managers, waiting_step(m)
                     PROVE  TypeOK'
<1> USE DEF TypeOK, CloudTypeOK, waiting_step, cloud, pm_vars, goto, at,
            WaitLabels, Threads, Managers, terminator_vars, lock, unlock
<1>1. CASE loop_test(m)
  BY <1>1 DEF loop_test
<1>2. CASE lock_timer(m)
  BY <1>2 DEF lock_timer
<1>3. CASE wait_test(m)
  BY <1>3 DEF wait_test, Body, TerminatorLabels
<1>4. CASE fall_asleep(m)
  BY <1>4 DEF fall_asleep
<1>5. CASE time_out(m)
  BY <1>5 DEF time_out, timer_expires
<1>6. CASE spurious_wakeup(m)
  BY <1>6 DEF spurious_wakeup
<1>7. CASE wake(m)
  BY <1>7 DEF wake
<1>8. CASE leave_wait(m)
  BY <1>8 DEF leave_wait, Body, TerminatorLabels
<1>9. QED
  BY <1>1, <1>2, <1>3, <1>4, <1>5, <1>6, <1>7, <1>8 DEF waiting

\* A call that acts on the cloud changes it as asked, or not at all.
LEMMA Effects ==
    ASSUME NEW reply, NEW before, NEW after,
           NEW result \in effects(reply, before, after)
    PROVE  result = before \/ result = after
<1>1. CASE reply = "ok"
  BY <1>1 DEF effects
<1>2. CASE reply = "error"
  BY <1>2 DEF effects
<1>3. CASE reply \notin {"ok", "error"}
  BY <1>3 DEF effects
<1>4. QED
  BY <1>1, <1>2, <1>3

\* What a call that acts on a VM leaves behind.
LEMMA TerminateType ==
    ASSUME CloudTypeOK, NEW v \in VMs, NEW reply, terminate(v, reply)
    PROVE  /\ CloudTypeOK'
           /\ \/ vm' = vm
              \/ vm[v] \notin Gone /\ vm' = [vm EXCEPT ![v] = "reaped"]
<1>1. \/ vm' = vm
      \/ vm[v] \notin Gone /\ vm' = [vm EXCEPT ![v] = "reaped"]
  <2>1. vm' = vm \/ vm' = recover_delete(v)
    BY Effects DEF terminate
  <2>2. QED
    BY <2>1 DEF recover_delete
<1>2. vm' \in [VMs -> States]
  BY <1>1 DEF CloudTypeOK, States
<1>3. QED
  BY <1>1, <1>2 DEF CloudTypeOK, terminate, forget_gone

LEMMA OperateType ==
    ASSUME CloudTypeOK, NEW v \in VMs, NEW reply, operate(v, reply)
    PROVE  /\ CloudTypeOK'
           /\ \/ vm' = vm
              \/ /\ Action \in {"suspend", "poweroff"}
                 /\ vm[v] \in {"running", "resched"}
                 /\ vm' = [vm EXCEPT ![v] = "off"]
<1>1. \/ vm' = vm
      \/ /\ Action \in {"suspend", "poweroff"}
         /\ vm[v] \in {"running", "resched"}
         /\ vm' = [vm EXCEPT ![v] = "off"]
  <2>1. vm' = vm \/ vm' = vm_action(Action, v)
    BY Effects DEF operate
  <2>2. QED
    BY <2>1 DEF vm_action
<1>2. vm' \in [VMs -> States]
  BY <1>1 DEF CloudTypeOK, States
<1>3. QED
  BY <1>1, <1>2 DEF CloudTypeOK, operate, forget_gone

\* A refreshed pool holds VMs that the search found.
LEMMA SetUp ==
    ASSUME NEW objects, NEW reply, NEW search
    PROVE  set_up(objects, reply, search) \subseteq search
BY DEF set_up, flush

LEMMA TypeKillPending == TypeOK /\ kill_pending /\ UNCHANGED pm_vars => TypeOK'
<1> SUFFICES ASSUME TypeOK, kill_pending, UNCHANGED pm_vars PROVE TypeOK'
  OBVIOUS
<1> USE DEF TypeOK, pm_vars, goto, at, Threads, Managers, TerminatorLabels
<1>1. CASE kill_pending_lock
  BY <1>1 DEF kill_pending_lock, lock, ends, cloud, terminator_vars, CloudTypeOK
<1>2. CASE kill_pending_load
  <2>1. tm_objects' \subseteq VMs
    BY <1>2, SetUp DEF kill_pending_load, pending_vms
  <2>2. QED
    BY <1>2, <2>1 DEF kill_pending_load, ends, cloud, CloudTypeOK, PMLabels
<1>3. ASSUME NEW v \in VMs, NEW reply \in KillReplies, kill_pending_each(v, reply)
      PROVE  TypeOK'
  <2>1. CloudTypeOK'
    BY <1>3, TerminateType DEF kill_pending_each, cloud, CloudTypeOK
  <2>2. QED
    BY <1>3, <2>1 DEF kill_pending_each, manager_vars
<1>4. CASE kill_pending_unlock
  BY <1>4 DEF kill_pending_unlock, unlock, cloud, terminator_vars, CloudTypeOK, PMLabels
<1>5. QED
  BY <1>1, <1>2, <1>3, <1>4 DEF kill_pending

LEMMA TypeTerminator == TypeOK /\ tm_body_step => TypeOK'
<1> SUFFICES ASSUME TypeOK, tm_body_step PROVE TypeOK'
  OBVIOUS
<1> USE DEF TypeOK, tm_body_step, pm_vars, goto, at, Threads, Managers,
            TerminatorLabels
<1>1. CASE kill_running_lock
  <2>1. user' \in 0..Len(UserList)
    BY <1>1, TerminatorAssumption DEF kill_running_lock
  <2>2. QED
    BY <1>1, <2>1 DEF kill_running_lock, lock, cloud, CloudTypeOK
<1>2. CASE kill_running_load
  <2>1. tm_objects' \subseteq VMs
    BY <1>2, SetUp DEF kill_running_load, running_vms
  <2>2. QED
    BY <1>2, <2>1 DEF kill_running_load, ends, cloud, CloudTypeOK
<1>3. ASSUME NEW v \in VMs, NEW reply \in KillReplies, kill_running_each(v, reply)
      PROVE  TypeOK'
  <2>1. CloudTypeOK'
    BY <1>3, TerminateType, OperateType DEF kill_running_each, cloud, CloudTypeOK
  <2>2. QED
    BY <1>3, <2>1 DEF kill_running_each, manager_vars
<1>4. CASE kill_running_unlock
  BY <1>4 DEF kill_running_unlock, unlock, cloud, terminator_vars, CloudTypeOK
<1>5. CASE users_done
  <2>1. user' \in 0..Len(UserList)
    BY <1>5, TerminatorAssumption DEF users_done
  <2>2. QED
    BY <1>5, <2>1 DEF users_done, cloud, CloudTypeOK, WaitLabels
<1>6. QED
  BY <1>1, <1>2, <1>3, <1>4, <1>5 DEF terminator_body

LEMMA TypePM == TypeOK /\ pm_body => TypeOK'
<1> SUFFICES ASSUME TypeOK, pm_body PROVE TypeOK'
  OBVIOUS
<1> USE DEF TypeOK, CloudTypeOK, cloud, terminator_vars, goto, at, Threads,
            Managers, PMLabels
<1>1. CASE get_pending
  <2>1. pm_objects' \subseteq VMs
    BY <1>1, SetUp DEF get_pending, pending_vms
  <2>2. QED
    BY <1>1, <2>1 DEF get_pending, ends
<1>2. CASE historical_usage
  BY <1>2 DEF historical_usage, ends, pm_vars
<1>3. CASE do_prioritize
  <2>1. priorities' \subseteq Nat \X VMs
    BY <1>3, PrioAssumption DEF do_prioritize, insert_all
  <2>2. QED
    BY <1>3, <2>1 DEF do_prioritize
<1>4. CASE make_queue
  <2>1. queue' \subseteq VMs /\ priorities' \subseteq Nat \X VMs
    BY <1>4 DEF make_queue
  <2>2. QED
    BY <1>4, <2>1 DEF make_queue, ends, WaitLabels
<1>5. QED
  BY <1>1, <1>2, <1>3, <1>4 DEF pm_body

LEMMA TypeCloud == TypeOK /\ cloud_step => TypeOK'
<1> SUFFICES ASSUME TypeOK, cloud_step PROVE TypeOK'
  OBVIOUS
<1>1. PICK v \in VMs : environment(v)
  BY DEF cloud_step
<1>2. CloudTypeOK'
  <2> USE DEF TypeOK, CloudTypeOK
  <2>1. ASSUME NEW from, NEW to \in States, becomes(v, from, to)
        PROVE  CloudTypeOK'
    BY <2>1 DEF becomes, forget_gone
  <2>2. CASE wait_exceeded(v) \/ life_exceeded(v)
    BY <2>2 DEF wait_exceeded, life_exceeded
  <2>3. QED
    BY <1>1, <2>1, <2>2 DEF environment, instantiate, deploy, booted, reschedule,
                            migrated, resume, user_delete, States
<1>3. QED
  BY <1>2 DEF TypeOK, cloud_step, manager_vars, terminator_vars, pm_vars

THEOREM TypeCorrect == Spec => []TypeOK
<1>1. TypeOK /\ [Next]_vars => TypeOK'
  <2> SUFFICES ASSUME TypeOK, [Next]_vars PROVE TypeOK'
    OBVIOUS
  <2>1. CASE main_step
    BY <2>1, TypeMain
  <2>2. ASSUME NEW m \in Managers, thread_step(m) PROVE TypeOK'
    BY <2>2, TypeWaiting, TypeKillPending, TypePM, TypeTerminator
       DEF thread_step, pm_body_step
  <2>3. CASE cloud_step
    BY <2>3, TypeCloud
  <2>4. CASE UNCHANGED vars
    BY <2>4 DEF vars, TypeOK, CloudTypeOK, manager_vars, cloud,
                terminator_vars, pm_vars
  <2>5. QED
    BY <2>1, <2>2, <2>3, <2>4 DEF Next, ended
<1>2. QED
  BY TypeInit, <1>1, PTL DEF Spec

-----------------------------------------------------------------------------
(* The rest of the inductive invariant.  Each lemma takes the actions of   *)
(* one thread; TypeOK' is known from the lemmas above.                     *)

Rest == /\ LockHeld /\ NotStarted /\ Visiting /\ UserTaken
        /\ Stopped /\ PrioritiesFresh /\ Joined /\ AgesExist

LEMMA RestInit == Init => Rest
BY DEF Init, CloudInit, TerminatorInit, PMInit, Rest, LockHeld, NotStarted,
       Visiting, UserTaken, Stopped, PrioritiesFresh, Joined, AgesExist,
       InPool, Managers, Threads

LEMMA RestStutter ==
    ASSUME Rest, UNCHANGED vars PROVE Rest'
BY DEF vars, manager_vars, cloud, terminator_vars, pm_vars, Rest, LockHeld,
       NotStarted, Visiting, UserTaken, Stopped, PrioritiesFresh, Joined,
       AgesExist, InPool

LEMMA RestMain == TypeOK /\ Rest /\ main_step => Rest'
<1> SUFFICES ASSUME TypeOK, Rest, main_step PROVE Rest'
  OBVIOUS
<1> USE DEF main_step, cloud, pm_vars, terminator_vars, at, goto, TypeOK, Rest,
            LockHeld, NotStarted, Visiting, UserTaken, Stopped,
            PrioritiesFresh, Joined, AgesExist, InPool, Managers, Threads
<1>1. CASE wait_one
  BY <1>1 DEF wait_one
<1>2. CASE start_manager("pm", "start_pm", "new_tm")
  BY <1>2 DEF start_manager
<1>3. CASE new_terminator
  BY <1>3 DEF new_terminator
<1>4. CASE start_manager("tm", "start_tm", "start_rpcm")
  BY <1>4 DEF start_manager
<1>5. CASE start_rpcm
  BY <1>5 DEF start_rpcm
<1>6. CASE terminate_signal
  BY <1>6 DEF terminate_signal
<1>7. CASE finalize_manager("pm", "fin_pm", "fin_tm")
  BY <1>7 DEF finalize_manager, finalize
<1>8. CASE finalize_manager("tm", "fin_tm", "fin_rpcm")
  BY <1>8 DEF finalize_manager, finalize
<1>9. CASE finalize_rpcm
  BY <1>9 DEF finalize_rpcm, ends
<1>10. CASE join_manager("pm", "join_pm", "join_tm")
  BY <1>10 DEF join_manager
<1>11. CASE join_manager("tm", "join_tm", "done")
  BY <1>11 DEF join_manager
<1>12. QED
  BY <1>1, <1>2, <1>3, <1>4, <1>5, <1>6, <1>7, <1>8, <1>9, <1>10, <1>11
     DEF main_thread, starting, stopping

LEMMA RestWaiting == ASSUME TypeOK, Rest, NEW m \in Managers, waiting_step(m)
                     PROVE  Rest'
<1> USE DEF waiting_step, cloud, pm_vars, terminator_vars, at, goto, lock,
            unlock, TypeOK, Rest, LockHeld, NotStarted, Visiting, UserTaken,
            Stopped, PrioritiesFresh, Joined, AgesExist, InPool, Managers,
            Threads
<1>1. CASE loop_test(m)
  BY <1>1 DEF loop_test
<1>2. CASE lock_timer(m)
  BY <1>2 DEF lock_timer
<1>3. CASE wait_test(m)
  BY <1>3 DEF wait_test, Body
<1>4. CASE fall_asleep(m)
  BY <1>4 DEF fall_asleep
<1>5. CASE time_out(m)
  BY <1>5 DEF time_out, timer_expires
<1>6. CASE spurious_wakeup(m)
  BY <1>6 DEF spurious_wakeup
<1>7. CASE wake(m)
  BY <1>7 DEF wake
<1>8. CASE leave_wait(m)
  BY <1>8 DEF leave_wait, Body
<1>9. QED
  BY <1>1, <1>2, <1>3, <1>4, <1>5, <1>6, <1>7, <1>8 DEF waiting

\* A VM that is removed is forgotten, and an action on a VM keeps it.
LEMMA KillAges ==
    ASSUME CloudTypeOK, AgesExist, NEW v \in VMs, NEW reply,
           terminate(v, reply) \/ operate(v, reply)
    PROVE  AgesExist'
BY DEF terminate, operate, forget_gone, AgesExist

LEMMA RestPM == TypeOK /\ Rest /\ pm_body_step => Rest'
<1> SUFFICES ASSUME TypeOK, Rest, pm_body_step PROVE Rest'
  OBVIOUS
<1> USE DEF cloud, pm_vars, terminator_vars, at, goto, lock, unlock, ends,
            TypeOK, Rest, LockHeld, NotStarted, Visiting, UserTaken, Stopped,
            PrioritiesFresh, Joined, InPool, Managers, Threads
<1>1. CASE kill_pending_lock /\ UNCHANGED pm_vars
  BY <1>1 DEF kill_pending_lock, AgesExist
<1>2. CASE kill_pending_load /\ UNCHANGED pm_vars
  <2>1. ~InPool["tm"] /\ todo["tm"] = {}
    BY <1>2 DEF kill_pending_load
  <2>2. QED
    BY <1>2, <2>1 DEF kill_pending_load, AgesExist
<1>3. ASSUME NEW v \in VMs, NEW reply \in KillReplies, kill_pending_each(v, reply),
             UNCHANGED pm_vars
      PROVE  Rest'
  <2>1. AgesExist'
    BY <1>3, KillAges DEF kill_pending_each, AgesExist
  <2>2. QED
    BY <1>3, <2>1 DEF kill_pending_each, manager_vars
<1>4. CASE kill_pending_unlock /\ UNCHANGED pm_vars
  BY <1>4 DEF kill_pending_unlock, AgesExist
<1>5. CASE get_pending
  BY <1>5 DEF get_pending, AgesExist
<1>6. CASE historical_usage
  BY <1>6 DEF historical_usage, AgesExist
<1>7. CASE do_prioritize
  <2>1. \A entry \in priorities' : entry[2] \in pm_objects'
    BY <1>7 DEF do_prioritize, insert_all
  <2>2. QED
    BY <1>7, <2>1 DEF do_prioritize, AgesExist
<1>8. CASE make_queue
  BY <1>8 DEF make_queue, AgesExist
<1>9. QED
  BY <1>1, <1>2, <1>3, <1>4, <1>5, <1>6, <1>7, <1>8
     DEF pm_body_step, kill_pending, pm_body

LEMMA RestTerminator == TypeOK /\ Rest /\ tm_body_step => Rest'
<1> SUFFICES ASSUME TypeOK, Rest, tm_body_step PROVE Rest'
  OBVIOUS
<1> USE DEF tm_body_step, cloud, pm_vars, terminator_vars, at, goto, lock,
            unlock, ends, TypeOK, Rest, LockHeld, NotStarted, Visiting,
            UserTaken, Stopped, PrioritiesFresh, Joined, InPool, Managers,
            Threads
<1>1. CASE kill_running_lock
  <2>1. user' \in 1..Len(UserList)
    BY <1>1, TerminatorAssumption DEF kill_running_lock
  <2>2. QED
    BY <1>1, <2>1 DEF kill_running_lock, AgesExist
<1>2. CASE kill_running_load
  <2>1. ~InPool["pm"] /\ todo["pm"] = {}
    BY <1>2 DEF kill_running_load
  <2>2. UserList[user] \in Users
    BY <1>2, TerminatorAssumption DEF kill_running_load, Users
  <2>3. \A v \in tm_objects' : Owner[v] \in Users
    BY <1>2, <2>2, SetUp DEF kill_running_load, running_vms
  <2>4. QED
    BY <1>2, <2>1, <2>3 DEF kill_running_load, AgesExist
<1>3. ASSUME NEW v \in VMs, NEW reply \in KillReplies, kill_running_each(v, reply)
      PROVE  Rest'
  <2>1. AgesExist'
    BY <1>3, KillAges DEF kill_running_each, AgesExist
  <2>2. QED
    BY <1>3, <2>1 DEF kill_running_each, manager_vars
<1>4. CASE kill_running_unlock
  BY <1>4 DEF kill_running_unlock, AgesExist
<1>5. CASE users_done
  BY <1>5 DEF users_done, AgesExist
<1>6. QED
  BY <1>1, <1>2, <1>3, <1>4, <1>5 DEF terminator_body

LEMMA RestCloud == TypeOK /\ Rest /\ cloud_step => Rest'
<1> SUFFICES ASSUME TypeOK, Rest, cloud_step PROVE Rest'
  OBVIOUS
<1>1. PICK v \in VMs : environment(v)
  BY DEF cloud_step
<1>2. AgesExist'
  <2> USE DEF TypeOK, CloudTypeOK, Rest, AgesExist
  <2>1. ASSUME NEW from, NEW to, becomes(v, from, to) PROVE AgesExist'
    BY <2>1 DEF becomes, forget_gone
  <2>2. CASE wait_exceeded(v) \/ life_exceeded(v)
    BY <2>2 DEF wait_exceeded, life_exceeded, Gone
  <2>3. QED
    BY <1>1, <2>1, <2>2 DEF environment, instantiate, deploy, booted, reschedule,
                            migrated, resume, user_delete
<1>3. QED
  BY <1>2 DEF cloud_step, manager_vars, terminator_vars, pm_vars, Rest, LockHeld,
              NotStarted, Visiting, UserTaken, Stopped, PrioritiesFresh, Joined,
              InPool

LEMMA RestNext == TypeOK /\ Rest /\ [Next]_vars => Rest'
<1> SUFFICES ASSUME TypeOK, Rest, [Next]_vars PROVE Rest'
  OBVIOUS
<1>1. ASSUME NEW m \in Managers, thread_step(m) PROVE Rest'
  BY <1>1, RestWaiting, RestPM, RestTerminator DEF thread_step
<1>2. CASE UNCHANGED vars
  BY <1>2, RestStutter
<1>3. QED
  BY <1>1, <1>2, RestMain, RestCloud DEF Next, ended

\* The invariant of FassInvariants holds in every reachable state.
THEOREM Inductive == Spec => []IInv
<1>1. Init => Rest
  BY RestInit
<1>2. (TypeOK /\ Rest) /\ [Next]_vars => Rest'
  BY RestNext
<1>3. Spec => []Rest
  BY <1>1, <1>2, TypeCorrect, PTL DEF Spec
<1>4. TypeOK /\ Rest => IInv
  BY DEF IInv, Rest
<1>5. QED
  BY <1>3, <1>4, TypeCorrect, PTL

-----------------------------------------------------------------------------
(* What the invariant gives.                                               *)

\* Two threads are never in the pool of the Terminator at the same time.
THEOREM PoolExclusive == Spec => []PoolExclusion
<1>1. IInv => PoolExclusion
  BY DEF IInv, LockHeld, PoolExclusion, Managers
<1>2. QED
  BY <1>1, Inductive, PTL

\* No thread ever looks at a VM object that another has deleted.
THEOREM NeverDangling == Spec => []NoDanglingVM
<1>1. IInv => NoDanglingVM
  BY DEF IInv, Visiting, NoDanglingVM
<1>2. QED
  BY <1>1, Inductive, PTL

\* The signal of finalize is never lost on a manager that goes to sleep.
THEOREM WakeupDelivered == Spec => []NoLostWakeup
<1>1. IInv => NoLostWakeup
  BY DEF IInv, Stopped, NoLostWakeup
<1>2. QED
  BY <1>1, Inductive, PTL

\* make_queue finds an object for every prioritized id.
THEOREM PrioritiesCurrent == Spec => []NoStalePriority
<1>1. IInv => NoStalePriority
  BY DEF IInv, PrioritiesFresh, NoStalePriority
<1>2. QED
  BY <1>1, Inductive, PTL

\* The daemon only reports a clean end when its managers have returned.
THEOREM ExitsClean == Spec => []CleanExit
<1>1. IInv => CleanExit
  BY DEF IInv, Joined, CleanExit, Managers
<1>2. QED
  BY <1>1, Inductive, PTL

\* If OpenNebula never fails a poll in a way that set_up reports with -1, the
\* mutex of the Terminator is never left locked.
THEOREM LockNeverLeaks ==
    ASSUME \A reply \in PollReplies : ~set_up_fails(reply)
    PROVE  Spec => []NoLeakedLock
<1> USE DEF NoLeakedLock, InPool
<1>1. Init => NoLeakedLock
  BY DEF Init, Managers
<1>2. IInv /\ NoLeakedLock /\ [Next]_vars => NoLeakedLock'
  <2> SUFFICES ASSUME IInv, NoLeakedLock, [Next]_vars PROVE NoLeakedLock'
    OBVIOUS
  <2> USE DEF IInv, TypeOK, LockHeld, NotStarted, at, goto, lock, unlock, ends,
              Managers, Threads
  <2>1. CASE main_step
    BY <2>1 DEF main_step, main_thread, starting, stopping, wait_one,
       start_manager, new_terminator, start_rpcm, terminate_signal,
       finalize_manager, finalize, finalize_rpcm, join_manager
  <2>2. ASSUME NEW m \in Managers, waiting_step(m) PROVE NoLeakedLock'
    BY <2>2 DEF waiting_step, waiting, loop_test, lock_timer, wait_test,
       fall_asleep, time_out, timer_expires, spurious_wakeup, wake, leave_wait
  <2>3. CASE pm_body_step
    <3>1. CASE kill_pending
      BY <3>1 DEF kill_pending, kill_pending_lock, kill_pending_load,
         kill_pending_each, kill_pending_unlock, manager_vars
    <3>2. CASE pm_body
      BY <3>2 DEF pm_body, get_pending, historical_usage, do_prioritize,
         make_queue
    <3>3. QED
      BY <2>3, <3>1, <3>2 DEF pm_body_step
  <2>4. CASE tm_body_step
    BY <2>4 DEF tm_body_step, terminator_body, kill_running_lock,
       kill_running_load, kill_running_each, kill_running_unlock, users_done,
       manager_vars
  <2>5. CASE cloud_step
    BY <2>5 DEF cloud_step, manager_vars
  <2>6. CASE UNCHANGED vars
    BY <2>6 DEF vars, manager_vars
  <2>7. QED
    BY <2>1, <2>2, <2>3, <2>4, <2>5, <2>6 DEF Next, thread_step, ended
<1>3. QED
  BY <1>1, <1>2, Inductive, PTL DEF Spec

-----------------------------------------------------------------------------
(* Refinement: FaSS does to the cloud only what Reaper allows.             *)

\* A VM that kill_pending terminates is overdue.
LEMMA RefinePending ==
    ASSUME IInv, NEW v \in VMs, NEW reply \in KillReplies,
           kill_pending_each(v, reply)
    PROVE  [Promise!Next]_cloud
<1>1. CASE ~waits_too_long(v)
  BY <1>1 DEF kill_pending_each
<1>2. CASE waits_too_long(v)
  <2>1. terminate(v, reply)
    BY <1>2 DEF kill_pending_each
  <2>2. CASE vm' = vm
    BY <2>1, <2>2 DEF terminate, forget_gone, cloud, IInv, AgesExist, TypeOK,
                      CloudTypeOK
  <2>3. CASE vm[v] \notin Gone /\ vm' = [vm EXCEPT ![v] = "reaped"]
    <3>1. Promise!remove_overdue(v)
      BY <1>2, <2>1, <2>3 DEF Promise!remove_overdue, Promise!becomes, terminate,
         forget_gone, Promise!forget_gone, waits_too_long, IInv, TypeOK,
         CloudTypeOK, Promise!States, States, Promise!Gone, Gone
    <3>2. QED
      BY <3>1 DEF Promise!Next
  <2>4. QED
    BY <2>1, <2>2, <2>3, TerminateType DEF IInv, TypeOK
<1>3. QED
  BY <1>1, <1>2

\* A VM that kill_running acts upon has outlived the ttl of its owner.
LEMMA RefineRunning ==
    ASSUME IInv, NEW v \in VMs, NEW reply \in KillReplies,
           kill_running_each(v, reply)
    PROVE  [Promise!Next]_cloud
<1>1. CASE UNCHANGED cloud
  BY <1>1
<1>2. vm' = vm => [Promise!Next]_cloud
  BY DEF kill_running_each, terminate, operate, forget_gone, cloud, IInv,
         AgesExist, TypeOK, CloudTypeOK
<1>3. lives_too_long(v) => Promise!overlived(v)
  BY DEF kill_running_each, next_vm, lives_too_long, Promise!overlived, IInv,
         UserTaken, Users
<1>4. CASE lives_too_long(v) /\ Action = "kill" /\ terminate(v, reply)
  <2>1. CASE vm[v] \notin Gone /\ vm' = [vm EXCEPT ![v] = "reaped"]
    <3>1. Promise!remove_overlived(v)
      BY <1>3, <1>4, <2>1 DEF Promise!remove_overlived, Promise!becomes,
         terminate, forget_gone, Promise!forget_gone, IInv, TypeOK,
         CloudTypeOK, Promise!States, States, Promise!Gone, Gone
    <3>2. QED
      BY <3>1 DEF Promise!Next
  <2>2. QED
    BY <1>2, <1>4, <2>1, TerminateType DEF IInv, TypeOK
<1>5. CASE lives_too_long(v) /\ Action \in Operations /\ operate(v, reply)
  <2>1. CASE /\ Action \in {"suspend", "poweroff"}
             /\ vm[v] \in {"running", "resched"}
             /\ vm' = [vm EXCEPT ![v] = "off"]
    <3>1. Promise!switch_off(v)
      BY <1>3, <1>5, <2>1 DEF Promise!switch_off, Promise!becomes, operate,
         forget_gone, Promise!forget_gone, IInv, TypeOK, CloudTypeOK,
         Promise!Gone, Gone
    <3>2. QED
      BY <3>1 DEF Promise!Next
  <2>2. QED
    BY <1>2, <1>5, <2>1, OperateType DEF IInv, TypeOK
<1>6. QED
  BY <1>1, <1>4, <1>5 DEF kill_running_each

\* The daemon implements the abstract specification of what it does to VMs.
THEOREM Refinement == Spec => ImplementsReaper
<1>1. Init => Promise!CloudInit
  BY DEF Init, CloudInit, Promise!CloudInit
<1>2. IInv /\ [Next]_vars => [Promise!Next]_cloud
  <2> SUFFICES ASSUME IInv, [Next]_vars PROVE [Promise!Next]_cloud
    OBVIOUS
  <2>1. CASE main_step
    BY <2>1 DEF main_step
  <2>2. ASSUME NEW m \in Managers, waiting_step(m) PROVE UNCHANGED cloud
    BY <2>2 DEF waiting_step
  <2>3. CASE pm_body_step
    <3>1. CASE \E v \in VMs, reply \in KillReplies : kill_pending_each(v, reply)
      BY <3>1, RefinePending
    <3>2. CASE kill_pending_lock \/ kill_pending_load \/ kill_pending_unlock
      BY <3>2 DEF kill_pending_lock, kill_pending_load, kill_pending_unlock
    <3>3. CASE pm_body
      BY <3>3 DEF pm_body, get_pending, historical_usage, do_prioritize,
                  make_queue
    <3>4. QED
      BY <2>3, <3>1, <3>2, <3>3 DEF pm_body_step, kill_pending
  <2>4. CASE tm_body_step
    <3>1. CASE \E v \in VMs, reply \in KillReplies : kill_running_each(v, reply)
      BY <3>1, RefineRunning
    <3>2. CASE kill_running_lock \/ kill_running_load \/ kill_running_unlock
                 \/ users_done
      BY <3>2 DEF kill_running_lock, kill_running_load, kill_running_unlock,
                  users_done
    <3>3. QED
      BY <2>4, <3>1, <3>2 DEF tm_body_step, terminator_body
  <2>5. CASE cloud_step
    <3>1. PICK v \in VMs : environment(v)
      BY <2>5 DEF cloud_step
    <3>2. Promise!environment(v)
      BY <3>1 DEF environment, Promise!environment, instantiate, deploy, booted,
         reschedule, migrated, resume, user_delete, wait_exceeded,
         life_exceeded, becomes, forget_gone, Gone, States,
         Promise!instantiate, Promise!deploy, Promise!booted,
         Promise!reschedule, Promise!migrated, Promise!resume,
         Promise!user_delete, Promise!wait_exceeded, Promise!life_exceeded,
         Promise!becomes, Promise!forget_gone, Promise!Gone, Promise!States
    <3>3. QED
      BY <3>2 DEF Promise!Next
  <2>6. CASE UNCHANGED vars
    BY <2>6 DEF vars
  <2>7. QED
    BY <2>1, <2>2, <2>3, <2>4, <2>5, <2>6 DEF Next, thread_step, ended
<1>3. QED
  BY <1>1, <1>2, Inductive, PTL DEF Spec, ImplementsReaper, Promise!Spec, cloud,
     Promise!cloud
=============================================================================
