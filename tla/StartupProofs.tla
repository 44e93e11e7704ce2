--------------------------- MODULE StartupProofs ----------------------------
(***************************************************************************)
(* The lock file keeps the daemon alone and is given back, for every       *)
(* number of processes, every way to launch them and every fault.          *)
(***************************************************************************)
EXTENDS StartupProperties, TLAPS

(* The inductive invariant: a process past the check owns the file, and    *)
(* one launched with -i never comes near it.                               *)
Locked == \A i \in Instances : holds(i) => lock = i
InitPlaces == {"lock", "fork", "chdir", "setsid", "unlink"}
NoLockWithInit ==
    \A i \in Instances : option[i] = "init_db" => pc[i] \notin InitPlaces

IInv == TypeOK /\ Locked /\ NoLockWithInit

(* The steps of Next, one name each.                                       *)
LEMMA StepCases ==
    ASSUME [Next]_vars
    PROVE  \/ \E i \in Instances : launch(i) \/ check_lock(i) \/ fork(i)
           \/ \E i \in Instances : change_directory(i) \/ change_session(i)
           \/ \E i \in Instances : unlink(i)
           \/ \E i \in Instances :
                 \/ load_configuration(i) \/ load_shares(i)
                 \/ init_log_system(i) \/ make_database(i)
           \/ \E i \in Instances :
                 \/ wait_one(i) \/ start_managers(i) \/ terminate(i)
                 \/ stop_managers(i)
           \/ \E i \in Instances : kill(i)
           \/ remove_lock
           \/ UNCHANGED vars
  BY DEF Next, fassd, start
-----------------------------------------------------------------------------
LEMMA InvInit == Init => IInv
  BY StartupAssumption
     DEF Init, IInv, TypeOK, Locked, NoLockWithInit, InitPlaces, holds, Inside

(* The ways in which a statement of Fass::start ends.                      *)
LEMMA GoesOn ==
    ASSUME IInv, UNCHANGED option, NEW i \in Instances, pc[i] \in Inside,
           NEW next \in Inside \ InitPlaces, goes_on(i, next)
    PROVE  IInv'
  BY DEF IInv, TypeOK, Locked, NoLockWithInit, InitPlaces, holds, Inside, goes_on, move

LEMMA Hangs ==
    ASSUME IInv, UNCHANGED option, NEW i \in Instances, pc[i] \in Inside, hangs(i)
    PROVE  IInv'
<1>1. "hung" \in Inside \ InitPlaces
  BY DEF Inside, InitPlaces
<1> QED BY <1>1, GoesOn DEF hangs

LEMMA Throws ==
    ASSUME IInv, UNCHANGED option, NEW i \in Instances, pc[i] \in Inside, throws(i)
    PROVE  IInv'
  BY DEF IInv, TypeOK, Locked, NoLockWithInit, InitPlaces, holds, Inside, throws, back,
         move, ends

LEMMA Dies ==
    ASSUME IInv, UNCHANGED option, NEW i \in Instances, pc[i] \in Inside, dies(i)
    PROVE  IInv'
  BY DEF IInv, TypeOK, Locked, NoLockWithInit, InitPlaces, holds, Inside, dies,
         move, ends

LEMMA InvStep == CarefulAdmin /\ IInv /\ [Next]_vars => IInv'
<1> SUFFICES ASSUME CarefulAdmin, IInv, [Next]_vars PROVE IInv'
  OBVIOUS
<1> USE StartupAssumption
    DEF IInv, TypeOK, Locked, NoLockWithInit, InitPlaces, holds, Inside
<1>1. ASSUME NEW i \in Instances, launch(i) PROVE IInv'
  BY <1>1 DEF launch, move, ends
<1>2. ASSUME NEW i \in Instances, check_lock(i) PROVE IInv'
  <2>1. CASE /\ lock = NoOne
             /\ lock' = i
             /\ move(i, IF option[i] = "foreground" THEN "chdir" ELSE "fork")
             /\ UNCHANGED end
    BY <1>2, <2>1 DEF check_lock, move
  <2>2. CASE move(i, "gone") /\ ends(i, "refused") /\ UNCHANGED lock
    BY <1>2, <2>2 DEF check_lock, move, ends
  <2> QED BY <1>2, <2>1, <2>2 DEF check_lock
<1>3. ASSUME NEW i \in Instances, fork(i) PROVE IInv'
  BY <1>3 DEF fork, move, ends
<1>4. ASSUME NEW i \in Instances, change_directory(i) PROVE IInv'
  BY <1>4 DEF change_directory, change, move, ends
<1>5. ASSUME NEW i \in Instances, change_session(i) PROVE IInv'
  BY <1>5 DEF change_session, change, move, ends
<1>6. ASSUME NEW i \in Instances, unlink(i) PROVE IInv'
  BY <1>6 DEF unlink, move
<1>7. ASSUME NEW i \in Instances,
             \/ load_configuration(i) \/ load_shares(i)
             \/ init_log_system(i) \/ make_database(i)
      PROVE  IInv'
  <2>0. {"shares", "log", "database", "wait_one"} \subseteq Inside \ InitPlaces
    OBVIOUS
  <2> HIDE DEF IInv, InitPlaces
  <2>1. CASE load_configuration(i)
    BY <2>0, <2>1, GoesOn, Throws DEF load_configuration
  <2>2. CASE load_shares(i)
    BY <2>0, <2>2, GoesOn, Throws, Dies DEF load_shares
  <2>3. CASE init_log_system(i)
    BY <2>0, <2>3, GoesOn, Throws DEF init_log_system
  <2>4. CASE make_database(i)
    BY <2>0, <2>4, GoesOn, Hangs, Dies DEF make_database
  <2> QED BY <1>7, <2>1, <2>2, <2>3, <2>4
<1>8. ASSUME NEW i \in Instances,
             \/ wait_one(i) \/ start_managers(i) \/ terminate(i)
             \/ stop_managers(i)
      PROVE  IInv'
  <2>0. /\ {"managers", "stopping"} \subseteq Inside \ InitPlaces
        /\ {"wait_one", "managers", "running", "stopping"} \subseteq Inside
    OBVIOUS
  <2>1. CASE wait_one(i)
    BY <2>0, <2>1, GoesOn DEF wait_one
  <2>2. CASE start_managers(i)
    <3>1. CASE port = NoOne /\ port' = i /\ move(i, "running") /\ UNCHANGED <<lock, end>>
      BY <2>2, <3>1 DEF start_managers, move
    <3> HIDE DEF IInv, InitPlaces
    <3> QED BY <2>0, <2>2, <3>1, Throws, Hangs, Dies DEF start_managers
  <2>3. CASE terminate(i)
    BY <2>0, <2>3, GoesOn DEF terminate
  <2>4. CASE stop_managers(i)
    <3>1. CASE hangs(i)
      BY <2>0, <2>4, <3>1, Hangs DEF stop_managers
    <3>2. CASE dies(i)
      BY <2>0, <2>4, <3>2, Dies DEF stop_managers
    <3>3. CASE port' = NoOne /\ move(i, back(i)) /\ ends(i, "exited") /\ UNCHANGED lock
      BY <2>4, <3>3 DEF stop_managers, back, move, ends
    <3> QED BY <2>4, <3>1, <3>2, <3>3 DEF stop_managers
  <2> QED BY <1>8, <2>1, <2>2, <2>3, <2>4
<1>9. ASSUME NEW i \in Instances, kill(i) PROVE IInv'
  BY <1>9 DEF kill, up, move, ends
<1>10. CASE remove_lock
  BY <1>10 DEF remove_lock, up
<1>11. CASE UNCHANGED vars
  BY <1>11 DEF vars
<1> QED BY <1>1, <1>2, <1>3, <1>4, <1>5, <1>6, <1>7, <1>8, <1>9, <1>10, <1>11,
           StepCases

LEMMA Invariant == CarefulAdmin /\ Spec => []IInv
<1> SUFFICES ASSUME CarefulAdmin PROVE Spec => []IInv
  OBVIOUS
<1>1. IInv /\ [Next]_vars => IInv'
  BY InvStep
<1> QED BY InvInit, <1>1, PTL DEF Spec
-----------------------------------------------------------------------------
(* The variables keep their types.                                         *)
THEOREM TypeCorrect == CarefulAdmin /\ Spec => []TypeOK
<1> SUFFICES ASSUME CarefulAdmin PROVE Spec => []TypeOK
  OBVIOUS
<1>1. IInv => TypeOK
  BY DEF IInv
<1>2. Spec => []IInv
  BY Invariant
<1> QED BY <1>1, <1>2, PTL

(* fassd.cc:131: with an administrator who leaves the file of a running    *)
(* process alone, two processes are never past the check at a time; one    *)
(* with -i may run beside them and disturbs nothing.                       *)
THEOREM Alone == CarefulAdmin /\ Spec => []OneDaemon
<1> SUFFICES ASSUME CarefulAdmin PROVE Spec => []OneDaemon
  OBVIOUS
<1>1. IInv => OneDaemon
  BY DEF IInv, Locked, OneDaemon
<1>2. Spec => []IInv
  BY Invariant
<1> QED BY <1>1, <1>2, PTL

LEMMA GivenBackStep ==
    ASSUME IInv, [Next]_vars, NEW i \in Instances, holds(i), ~holds(i)',
           end'[i] \notin {"no_fork", "crashed", "killed"}
    PROVE  lock' # i
<1> USE StartupAssumption DEF IInv, TypeOK, NoLockWithInit, InitPlaces, holds, Inside
<1>1. ASSUME NEW j \in Instances, launch(j) \/ check_lock(j) \/ fork(j)
      PROVE  FALSE
  BY <1>1 DEF launch, check_lock, fork, move, ends
<1>2. ASSUME NEW j \in Instances, change_directory(j) \/ change_session(j)
      PROVE  FALSE
  BY <1>2 DEF change_directory, change_session, change, move, ends
<1>3. ASSUME NEW j \in Instances, unlink(j) PROVE lock' # i
  BY <1>3 DEF unlink
<1>4. ASSUME NEW j \in Instances,
             \/ load_configuration(j) \/ load_shares(j)
             \/ init_log_system(j) \/ make_database(j)
      PROVE  FALSE
  BY <1>4 DEF load_configuration, load_shares, init_log_system, make_database,
              throws, dies, hangs, back, goes_on, move, ends
<1>5. ASSUME NEW j \in Instances,
             \/ wait_one(j) \/ start_managers(j) \/ terminate(j)
             \/ stop_managers(j)
      PROVE  FALSE
  BY <1>5 DEF wait_one, start_managers, terminate, stop_managers, throws, dies,
              hangs, back, goes_on, move, ends
<1>6. ASSUME NEW j \in Instances, kill(j) PROVE FALSE
  BY <1>6 DEF kill, move, ends
<1>7. CASE remove_lock
  BY <1>7 DEF remove_lock
<1>8. CASE UNCHANGED vars
  BY <1>8 DEF vars
<1> QED BY <1>1, <1>2, <1>3, <1>4, <1>5, <1>6, <1>7, <1>8, StepCases

(* A process that ends by itself has deleted the lock file, whatever went  *)
(* wrong after the check.                                                  *)
THEOREM GivenBack == CarefulAdmin /\ Spec => LockGivenBack
<1> SUFFICES ASSUME CarefulAdmin PROVE Spec => LockGivenBack
  OBVIOUS
<1>1. IInv /\ [Next]_vars =>
        [\A i \in Instances :
           holds(i) /\ ~holds(i)' /\ end'[i] \notin {"no_fork", "crashed", "killed"}
              => lock' # i]_vars
  BY GivenBackStep
<1>2. Spec => []IInv
  BY Invariant
<1> QED BY <1>1, <1>2, PTL DEF Spec, LockGivenBack
=============================================================================
