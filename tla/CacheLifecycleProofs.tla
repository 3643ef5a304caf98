------------------------ MODULE CacheLifecycleProofs ------------------------
(***************************************************************************)
(* What TLAPS proves of the cache lifecycle for every number of threads,   *)
(* processes and daemons, every bound and every set of faults.             *)
(***************************************************************************)
EXTENDS CacheLifecycle, TLAPS

USE ThreadsAssumption, NullAssumption, BoundAssumption, FaultAssumption

-----------------------------------------------------------------------------
(* The history of slips only grows, by the kinds there are.                 *)
LEMMA SlipsGrow ==
    [Next]_vars => slips \subseteq slips' /\ slips' \subseteq slips \cup SlipKinds
<1> SUFFICES ASSUME [Next]_vars
             PROVE  slips' \in {slips} \cup {slips \cup {k} : k \in SlipKinds}
  OBVIOUS
<1> USE DEF SlipKinds, Slip
<1>1. ASSUME NEW t \in Threads, Steal(t) \/ UnlinkMeta(t)
      PROVE  slips' \in {slips} \cup {slips \cup {k} : k \in SlipKinds}
  BY <1>1 DEF Steal, UnlinkMeta
<1>2. ASSUME NEW d \in Daemons, DaemonUnlinks(d)
      PROVE  slips' \in {slips} \cup {slips \cup {k} : k \in SlipKinds}
  BY <1>2 DEF DaemonUnlinks
<1>3. ASSUME NEW p \in Procs, ClientCrash(p)
      PROVE  slips' \in {slips} \cup {slips \cup {k} : k \in SlipKinds}
  BY <1>3 DEF ClientCrash
<1>4. CASE UNCHANGED slips
  BY <1>4
<1>5. ASSUME NEW t \in Threads, ClientStep(t)
      PROVE  UNCHANGED slips \/ Steal(t) \/ UnlinkMeta(t)
  BY <1>5 DEF ClientStep, Step, Deadline, BeginStart, BeginQuery, Begin, Acquire, Create,
     Record, Stat, Inspect, Sleep, ReadMeta, CheckPid, CheckOwned, CheckExists, ReadRaw,
     ProbeExisting, Query, SendStop, AwaitExit, Spawn, Look, ProbeReady, Poll, Reap, ReRead,
     Release, Unlock, Leave, Forget, LockDeadline, StartDeadline, StopDeadline, RecordFails,
     Interrupt
<1>6. ASSUME NEW d \in Daemons, DaemonNext(d) PROVE UNCHANGED slips \/ DaemonUnlinks(d)
  BY <1>6 DEF DaemonNext, Publish, BootFails, GoIdle, DaemonChecksRecord, DaemonExits,
     DaemonCrash, WarmUp
<1>7. CASE Age \/ UNCHANGED vars
  BY <1>7, <1>4 DEF Age, vars
<1> QED BY <1>1, <1>2, <1>3, <1>4, <1>5, <1>6, <1>7 DEF Next

(* Every reachable state of the lifecycle is well typed: the domains of     *)
(* TypeOK, the bounds on operations and faults among them, are kept by      *)
(* every step of every client, of every daemon and of the environment.      *)
THEOREM TypeCorrect == Spec => []TypeOK
<1> USE DEF TypeOK, LockFiles, DaemonStates, Results, PCs, LockSteps, YieldSteps,
            ReleaseSteps, Ops, registry, disk, daemons, locals
<1>1. Init => TypeOK
  BY DEF Init
<1>2. ASSUME TypeOK, [Next]_vars PROVE TypeOK'
  <2> USE TypeOK
  <2>0. slips' \subseteq SlipKinds
    BY <1>2, SlipsGrow
  <2>1. ASSUME NEW t \in Threads, ClientStep(t) PROVE TypeOK'
    <3> USE DEF Goto, At, End, CanFault, CountFault, Starting, AfterCleanup,
       RecordedDaemon, GivesUp, Answers, KillChild
    <3>1. CASE BeginStart(t)
      BY <3>1 DEF BeginStart, Begin, RegisteredMutex
    <3>2. CASE BeginQuery(t)
      BY <3>2 DEF BeginQuery, Begin
    <3>3. CASE Acquire(t)
      BY <3>3 DEF Acquire
    <3>4. CASE Create(t)
      <4>1. [by |-> t, written |-> FALSE, old |-> FALSE] \in LockFiles
        OBVIOUS
      <4>2. lockFile' \in LockFiles \cup {None}
        BY <3>4, <4>1 DEF Create
      <4>3. pc' \in [Threads -> PCs]
        BY <3>4 DEF Create
      <4> QED BY <3>4, <4>2, <4>3 DEF Create
    <3>5. CASE Record(t)
      BY <3>5 DEF Record
    <3>6. CASE Stat(t)
      BY <3>6 DEF Stat
    <3>7. CASE Inspect(t)
      BY <3>7 DEF Inspect, LockIsStale, OwnerDead
    <3>8. CASE Steal(t)
      BY <2>0, <3>8 DEF Steal
    <3>9. CASE Sleep(t)
      BY <3>9 DEF Sleep
    <3>10. CASE ReadMeta(t)
      BY <3>10 DEF ReadMeta
    <3>11. CASE CheckPid(t)
      BY <3>11 DEF CheckPid
    <3>12. CASE CheckOwned(t)
      BY <3>12 DEF CheckOwned
    <3>13. CASE UnlinkMeta(t)
      BY <2>0, <3>13 DEF UnlinkMeta
    <3>14. CASE CheckExists(t)
      BY <3>14 DEF CheckExists
    <3>15. CASE ReadRaw(t)
      BY <3>15 DEF ReadRaw
    <3>16. CASE ProbeExisting(t)
      BY <3>16 DEF ProbeExisting
    <3>17. CASE Query(t)
      BY <3>17 DEF Query
    <3>18. CASE SendStop(t)
      BY <3>18 DEF SendStop
    <3>19. CASE AwaitExit(t)
      BY <3>19 DEF AwaitExit, OwnChild
    <3>20. CASE Spawn(t)
      BY <3>20 DEF Spawn, OwnChild
    <3>21. CASE Look(t)
      BY <3>21 DEF Look
    <3>22. CASE ProbeReady(t)
      <4>1. /\ pc' \in [Threads -> PCs] /\ result' \in [Threads -> Results]
            /\ faults' \in 0..MaxFaults
        BY <3>22 DEF ProbeReady
      <4> QED BY <3>22, <4>1 DEF ProbeReady
    <3>23. CASE Poll(t)
      BY <3>23 DEF Poll
    <3>24. CASE Reap(t)
      BY <3>24 DEF Reap
    <3>25. CASE ReRead(t)
      BY <3>25 DEF ReRead
    <3>26. CASE Release(t)
      BY <3>26 DEF Release
    <3>27. CASE Unlock(t)
      BY <3>27 DEF Unlock
    <3>28. CASE Leave(t)
      BY <3>28 DEF Leave
    <3>29. CASE Forget(t)
      BY <3>29 DEF Forget
    <3>30. CASE LockDeadline(t)
      BY <3>30 DEF LockDeadline
    <3>31. CASE StartDeadline(t)
      BY <3>31 DEF StartDeadline
    <3>32. CASE StopDeadline(t)
      BY <3>32 DEF StopDeadline
    <3>33. CASE RecordFails(t)
      BY <3>33 DEF RecordFails
    <3>34. CASE Interrupt(t)
      <4>1. dstate' \in [Daemons -> DaemonStates]
        BY <3>34 DEF Interrupt
      <4>2. faults' \in 0..MaxFaults
        BY <3>34 DEF Interrupt
      <4>3. pc' \in [Threads -> PCs] /\ result' \in [Threads -> Results]
        BY <3>34 DEF Interrupt
      <4> QED BY <3>34, <4>1, <4>2, <4>3 DEF Interrupt
    <3> QED BY <2>1, <3>1, <3>2, <3>3, <3>4, <3>5, <3>6, <3>7, <3>8, <3>9,
       <3>10, <3>11, <3>12, <3>13, <3>14, <3>15, <3>16, <3>17, <3>18, <3>19,
       <3>20, <3>21, <3>22, <3>23, <3>24, <3>25, <3>26, <3>27, <3>28, <3>29,
       <3>30, <3>31, <3>32, <3>33, <3>34 DEF ClientStep, Step, Deadline
  <2>2. ASSUME NEW d \in Daemons, DaemonNext(d) PROVE TypeOK'
    <3> USE DEF DaemonStep, CanFault, CountFault, ExitState
    <3>1. CASE Publish(d)
      BY <3>1 DEF Publish
    <3>2. CASE BootFails(d)
      BY <3>2 DEF BootFails
    <3>3. CASE GoIdle(d)
      BY <3>3 DEF GoIdle
    <3>4. CASE DaemonChecksRecord(d)
      BY <3>4 DEF DaemonChecksRecord
    <3>5. CASE DaemonUnlinks(d)
      BY <2>0, <3>5 DEF DaemonUnlinks
    <3>6. CASE DaemonExits(d)
      BY <3>6 DEF DaemonExits
    <3>7. CASE DaemonCrash(d)
      BY <3>7 DEF DaemonCrash
    <3>8. CASE WarmUp(d)
      BY <3>8 DEF WarmUp
    <3> QED BY <2>2, <3>1, <3>2, <3>3, <3>4, <3>5, <3>6, <3>7, <3>8 DEF DaemonNext
  <2>3. ASSUME NEW p \in Procs, ClientCrash(p) PROVE TypeOK'
    <3>0. faults < MaxFaults /\ faults' = faults + 1 /\ procAlive' = [procAlive EXCEPT ![p] = FALSE]
      BY <2>3 DEF ClientCrash, CanFault, CountFault
    <3>1. faults' \in 0..MaxFaults /\ procAlive' \in [Procs -> BOOLEAN]
      BY <3>0
    <3>2. pc' \in [Threads -> PCs] /\ dstate' \in [Daemons -> DaemonStates]
      BY <2>3 DEF ClientCrash
    <3> QED BY <2>0, <2>3, <3>1, <3>2 DEF ClientCrash
  <2>4. CASE Age
    BY <2>4 DEF Age
  <2>5. CASE UNCHANGED vars
    BY <2>5 DEF vars
  <2> QED BY <1>2, <2>1, <2>2, <2>3, <2>4, <2>5 DEF Next
<1> QED BY <1>1, <1>2, PTL DEF Spec

-----------------------------------------------------------------------------
(* ProcessExclusion is not inductive: it does not say that the mutex a      *)
(* thread holds is still the one its process has registered.  MutexInv      *)
(* does.  Every thread between registering and forgetting is counted as a   *)
(* user and has taken the registered mutex, and no two threads hold the     *)
(* same one.                                                                *)
MutexRegistered ==
    \A t \in Threads :
        UsesMutex(t) => /\ mutex[t] \in Threads
                        /\ mutexOf[ProcOf[t]] = mutex[t]
                        /\ t \in users[ProcOf[t]]
MutexExclusive ==
    \A t, u \in Threads :
        HoldsMutex(t) /\ HoldsMutex(u) /\ mutex[t] = mutex[u] => t = u
StopsAwaitExit == \A t \in Threads : pc[t] = "waitexit" => ~Starting(t)
MutexInv == MutexRegistered /\ MutexExclusive /\ StopsAwaitExit

(* A step that touches neither the registry nor anyone's mutex, and makes   *)
(* no thread a user or a holder that was none, keeps MutexInv.              *)
LEMMA MutexKept ==
    ASSUME MutexInv, UNCHANGED <<mutexOf, users, mutex>>,
           \A t \in Threads : UsesMutex(t)' => UsesMutex(t),
           \A t \in Threads : HoldsMutex(t)' => HoldsMutex(t),
           StopsAwaitExit'
    PROVE  MutexInv'
  BY DEF MutexInv, MutexRegistered, MutexExclusive

(* Every step keeps the registration and the exclusion of the mutexes.      *)
LEMMA MutexStep == TypeOK /\ MutexInv /\ [Next]_vars => MutexInv'
<1> SUFFICES ASSUME TypeOK, MutexInv, [Next]_vars PROVE MutexInv'
  OBVIOUS
<1> USE TypeOK, MutexInv
<1> DEFINE Quiet == /\ UNCHANGED <<mutexOf, users, mutex>>
                    /\ \A t \in Threads : UsesMutex(t)' => UsesMutex(t)
                    /\ \A t \in Threads : HoldsMutex(t)' => HoldsMutex(t)
                    /\ StopsAwaitExit'
<1>1. Quiet => MutexInv'
  BY MutexKept
<1> HIDE DEF Quiet
<1>2. ASSUME NEW t \in Threads, ClientStep(t) PROVE MutexInv'
  <2> USE DEF Goto, At, End, Starting, AfterCleanup, MutexInv, StopsAwaitExit,
     UsesMutex, HoldsMutex, LockSteps, YieldSteps, ReleaseSteps, TypeOK, PCs,
     registry, disk, daemons, locals
  <2>1. CASE BeginStart(t)
    <3>1. /\ op' = [op EXCEPT ![t] = "start"]
          /\ pc' = [pc EXCEPT ![t] = "acquire"]
          /\ pc[t] = "idle"
      BY <2>1 DEF BeginStart, Begin
    <3>2. /\ mutexOf' = [mutexOf EXCEPT ![ProcOf[t]] = RegisteredMutex(t)]
          /\ users' = [users EXCEPT ![ProcOf[t]] = @ \cup {t}]
          /\ mutex' = [mutex EXCEPT ![t] = RegisteredMutex(t)]
      BY <2>1 DEF BeginStart
    <3>3. \A u \in Threads : u # t => /\ pc'[u] = pc[u] /\ op'[u] = op[u]
                                     /\ mutex'[u] = mutex[u]
      BY <3>1, <3>2
    <3>4. ~HoldsMutex(t)'
      BY <3>1
    <3>5. /\ RegisteredMutex(t) \in Threads
          /\ mutexOf[ProcOf[t]] # None => RegisteredMutex(t) = mutexOf[ProcOf[t]]
      BY DEF RegisteredMutex
    <3>8. StopsAwaitExit'
      BY <3>1
    <3>6. MutexRegistered'
      <4> SUFFICES ASSUME NEW u \in Threads, UsesMutex(u)'
                   PROVE  /\ mutex'[u] \in Threads
                          /\ mutexOf'[ProcOf[u]] = mutex'[u]
                          /\ u \in users'[ProcOf[u]]
        BY DEF MutexRegistered
      <4>1. CASE u = t
        BY <3>2, <3>5, <4>1
      <4>2. CASE u # t
        <5>1. /\ u \in users[ProcOf[u]] /\ mutex[u] \in Threads
              /\ mutexOf[ProcOf[u]] = mutex[u] /\ mutex'[u] = mutex[u]
          BY <3>3, <4>2 DEF MutexRegistered
        <5>2. ProcOf[u] = ProcOf[t] => RegisteredMutex(t) = mutex[u]
          BY <3>5, <5>1
        <5> QED BY <3>2, <5>1, <5>2
      <4> QED BY <4>1, <4>2
    <3>7. MutexExclusive'
      <4> SUFFICES ASSUME NEW u \in Threads, NEW v \in Threads,
                          HoldsMutex(u)', HoldsMutex(v)', mutex'[u] = mutex'[v]
                   PROVE  u = v
        BY DEF MutexExclusive
      <4>1. u # t /\ v # t
        BY <3>4
      <4> QED BY <3>3, <4>1 DEF MutexExclusive
    <3> QED BY <3>6, <3>7, <3>8 DEF MutexInv
  <2>2. CASE BeginQuery(t)
    BY <2>2, <1>1 DEF Quiet, BeginQuery, Begin
  <2>3. CASE Acquire(t)
    <3>1. /\ UNCHANGED <<mutexOf, users, mutex, op>>
          /\ pc' = [pc EXCEPT ![t] = "create"]
          /\ \A u \in Threads : HoldsMutex(u) => mutex[u] # mutex[t]
          /\ pc[t] = "acquire"
      BY <2>3 DEF Acquire
    <3>2. \A u \in Threads : u # t => /\ UsesMutex(u)' => UsesMutex(u)
                                      /\ HoldsMutex(u)' => HoldsMutex(u)
      BY <3>1
    <3>3. UsesMutex(t)' => UsesMutex(t)
      BY <3>1
    <3>4. MutexRegistered'
      BY <3>1, <3>2, <3>3 DEF MutexInv, MutexRegistered
    <3>5. MutexExclusive'
      BY <3>1, <3>2 DEF MutexInv, MutexExclusive
    <3>6. StopsAwaitExit'
      BY <3>1
    <3> QED BY <3>4, <3>5, <3>6 DEF MutexInv
  <2>4. CASE Create(t)
    BY <2>4, <1>1 DEF Quiet, Create
  <2>5. CASE Record(t)
    BY <2>5, <1>1 DEF Quiet, Record
  <2>6. CASE Stat(t)
    BY <2>6, <1>1 DEF Quiet, Stat
  <2>7. CASE Inspect(t)
    BY <2>7, <1>1 DEF Quiet, Inspect, LockIsStale, OwnerDead
  <2>8. CASE Steal(t)
    BY <2>8, <1>1 DEF Quiet, Steal
  <2>9. CASE Sleep(t)
    BY <2>9, <1>1 DEF Quiet, Sleep
  <2>10. CASE ReadMeta(t)
    BY <2>10, <1>1 DEF Quiet, ReadMeta
  <2>11. CASE CheckPid(t)
    BY <2>11, <1>1 DEF Quiet, CheckPid
  <2>12. CASE CheckOwned(t)
    BY <2>12, <1>1 DEF Quiet, CheckOwned
  <2>13. CASE UnlinkMeta(t)
    BY <2>13, <1>1 DEF Quiet, UnlinkMeta
  <2>14. CASE CheckExists(t)
    BY <2>14, <1>1 DEF Quiet, CheckExists
  <2>15. CASE ReadRaw(t)
    BY <2>15, <1>1 DEF Quiet, ReadRaw
  <2>16. CASE ProbeExisting(t)
    BY <2>16, <1>1 DEF Quiet, ProbeExisting
  <2>17. CASE Query(t)
    BY <2>17, <1>1 DEF Quiet, Query
  <2>18. CASE SendStop(t)
    BY <2>18, <1>1 DEF Quiet, SendStop
  <2>19. CASE AwaitExit(t)
    BY <2>19, <1>1 DEF Quiet, AwaitExit, OwnChild
  <2>20. CASE Spawn(t)
    BY <2>20, <1>1 DEF Quiet, Spawn, OwnChild
  <2>21. CASE Look(t)
    BY <2>21, <1>1 DEF Quiet, Look
  <2>22. CASE ProbeReady(t)
    BY <2>22, <1>1 DEF Quiet, ProbeReady
  <2>23. CASE Poll(t)
    BY <2>23, <1>1 DEF Quiet, Poll
  <2>24. CASE Reap(t)
    BY <2>24, <1>1 DEF Quiet, Reap
  <2>25. CASE ReRead(t)
    BY <2>25, <1>1 DEF Quiet, ReRead
  <2>26. CASE Release(t)
    BY <2>26, <1>1 DEF Quiet, Release
  <2>27. CASE Unlock(t)
    BY <2>27, <1>1 DEF Quiet, Unlock
  <2>28. CASE Leave(t)
    BY <2>28, <1>1 DEF Quiet, Leave
  <2>29. CASE Forget(t)
    <3>1. /\ UNCHANGED <<mutex, op>>
          /\ pc' = [pc EXCEPT ![t] = "idle"]
          /\ mutexOf' = IF users[ProcOf[t]] = {t}
                        THEN [mutexOf EXCEPT ![ProcOf[t]] = None] ELSE mutexOf
          /\ users' = [users EXCEPT ![ProcOf[t]] = @ \ {t}]
      BY <2>29 DEF Forget
    <3>2. \A u \in Threads : /\ UsesMutex(u)' => UsesMutex(u) /\ u # t
                             /\ HoldsMutex(u)' => HoldsMutex(u)
      BY <3>1
    <3>3. MutexRegistered'
      <4> SUFFICES ASSUME NEW u \in Threads, UsesMutex(u)'
                   PROVE  /\ mutex'[u] \in Threads
                          /\ mutexOf'[ProcOf[u]] = mutex'[u]
                          /\ u \in users'[ProcOf[u]]
        BY DEF MutexRegistered
      <4>1. /\ u # t /\ u \in users[ProcOf[u]] /\ mutex[u] \in Threads
            /\ mutexOf[ProcOf[u]] = mutex[u]
        BY <3>2 DEF MutexInv, MutexRegistered
      <4>2. ProcOf[u] = ProcOf[t] => users[ProcOf[t]] # {t}
        BY <4>1
      <4> QED BY <3>1, <4>1, <4>2
    <3>4. MutexExclusive'
      BY <3>1, <3>2 DEF MutexInv, MutexExclusive
    <3>5. StopsAwaitExit'
      BY <3>1
    <3> QED BY <3>3, <3>4, <3>5 DEF MutexInv
  <2>30. CASE LockDeadline(t)
    BY <2>30, <1>1 DEF Quiet, LockDeadline
  <2>31. CASE StartDeadline(t)
    BY <2>31, <1>1 DEF Quiet, StartDeadline
  <2>32. CASE StopDeadline(t)
    BY <2>32, <1>1 DEF Quiet, StopDeadline
  <2>33. CASE RecordFails(t)
    BY <2>33, <1>1 DEF Quiet, RecordFails
  <2>34. CASE Interrupt(t)
    BY <2>34, <1>1 DEF Quiet, Interrupt
  <2> QED BY <1>2, <2>1, <2>2, <2>3, <2>4, <2>5, <2>6, <2>7, <2>8, <2>9,
     <2>10, <2>11, <2>12, <2>13, <2>14, <2>15, <2>16, <2>17, <2>18, <2>19,
     <2>20, <2>21, <2>22, <2>23, <2>24, <2>25, <2>26, <2>27, <2>28, <2>29,
     <2>30, <2>31, <2>32, <2>33, <2>34 DEF ClientStep, Step, Deadline
<1>3. ASSUME NEW d \in Daemons, DaemonNext(d) PROVE MutexInv'
  BY <1>1, <1>3 DEF Quiet, DaemonNext, DaemonStep, Publish, BootFails, GoIdle,
     DaemonChecksRecord, DaemonUnlinks, DaemonExits, DaemonCrash, WarmUp, registry, locals,
     MutexInv, StopsAwaitExit, UsesMutex, HoldsMutex, Starting
<1>4. ASSUME NEW p \in Procs, ClientCrash(p) PROVE MutexInv'
  BY <1>1, <1>4 DEF Quiet, ClientCrash, registry, locals, MutexInv, StopsAwaitExit,
     UsesMutex, HoldsMutex, Starting, LockSteps, YieldSteps, ReleaseSteps
<1>5. CASE Age \/ UNCHANGED vars
  BY <1>1, <1>5 DEF Quiet, Age, vars, registry, locals, MutexInv, StopsAwaitExit,
     UsesMutex, HoldsMutex, Starting
<1> QED BY <1>2, <1>3, <1>4, <1>5 DEF Next

(* Two threads of one process are never both between taking start.lock and  *)
(* releasing it, whatever other processes and crashes do to that file:      *)
(* _process_start_lock serialises them with one mutex per root.             *)
THEOREM ProcessExclusionHolds == Spec => []ProcessExclusion
<1>1. Init => MutexInv
  BY DEF Init, MutexInv, MutexRegistered, MutexExclusive, StopsAwaitExit, UsesMutex,
     HoldsMutex, Starting
<1>2. TypeOK /\ MutexInv /\ [Next]_vars => MutexInv'
  BY MutexStep
<1>3. MutexInv => ProcessExclusion
  BY DEF MutexInv, MutexRegistered, MutexExclusive, ProcessExclusion, InYield,
     HoldsMutex, UsesMutex
<1> QED BY <1>1, <1>2, <1>3, TypeCorrect, PTL DEF Spec

-----------------------------------------------------------------------------
(* A daemon that has exited stays so, and no record comes to name it again. *)
LEMMA ExitIsFinal ==
    TypeOK /\ [Next]_vars =>
        \A d \in Daemons : Exited(d) => Exited(d)' /\ (meta # d => meta' # d)
<1> SUFFICES ASSUME TypeOK, [Next]_vars, NEW d \in Daemons, Exited(d)
             PROVE  Exited(d)' /\ (meta # d => meta' # d)
  OBVIOUS
<1> USE DEF Exited, TypeOK
<1>1. ASSUME NEW t \in Threads, ClientStep(t) PROVE Exited(d)' /\ (meta # d => meta' # d)
  <2> USE DEF Goto, At, Answers, KillChild, registry, disk, daemons
  <2>1. CASE SendStop(t)
    BY <2>1 DEF SendStop
  <2>2. CASE AwaitExit(t)
    BY <2>2 DEF AwaitExit, OwnChild
  <2>3. CASE Spawn(t)
    BY <2>3 DEF Spawn, OwnChild
  <2>4. CASE Poll(t)
    BY <2>4 DEF Poll
  <2>5. CASE Reap(t)
    BY <2>5 DEF Reap
  <2>6. CASE Interrupt(t)
    BY <2>6 DEF Interrupt
  <2>7. CASE UNCHANGED dstate /\ (meta' = meta \/ meta' = None)
    BY <2>7
  <2> QED BY <1>1, <2>1, <2>2, <2>3, <2>4, <2>5, <2>6, <2>7 DEF ClientStep,
     Step, Deadline, BeginStart, BeginQuery, Acquire, Create, Record, Stat,
     Inspect, Steal, Sleep, ReadMeta, CheckPid, CheckOwned, UnlinkMeta,
     CheckExists, ReadRaw, ProbeExisting, Query, Look, ProbeReady, ReRead,
     Release, Unlock, Leave, Forget, LockDeadline, StartDeadline,
     StopDeadline, RecordFails, Begin
<1>2. ASSUME NEW e \in Daemons, DaemonNext(e) PROVE Exited(d)' /\ (meta # d => meta' # d)
  BY <1>2 DEF DaemonNext, DaemonStep, Publish, BootFails, GoIdle, DaemonChecksRecord,
     DaemonUnlinks, DaemonExits, DaemonCrash, WarmUp, ExitState, Running, disk
<1>3. ASSUME NEW p \in Procs, ClientCrash(p) PROVE Exited(d)' /\ (meta # d => meta' # d)
  BY <1>3 DEF ClientCrash, disk
<1>4. CASE Age \/ UNCHANGED vars
  BY <1>4 DEF Age, vars, disk, daemons
<1> QED BY <1>1, <1>2, <1>3, <1>4 DEF Next

(* The strengthening of FailedStartLeavesNothing follows the child of a     *)
(* start from Popen to the result: a thread that has no child yet cannot    *)
(* report one lost, the clean-up after a failed wait works on a child that  *)
(* has exited and on no other daemon, and a result is only set at the end.  *)
ChildOK(t) ==
    /\ pc[t] \in {"acquire"} \cup LockSteps \cup {"read", "alive", "exists", "raw", "exchange"}
         => child[t] = None
    /\ pc[t] \in {"loop", "probe", "poll", "reap", "reread"}
         => child[t] \in Daemons
    /\ pc[t] \in {"spawn", "loop", "probe", "poll", "reap", "reread"} \cup ReleaseSteps
         => Starting(t)
    /\ pc[t] = "reread" => Exited(child[t])
    /\ Starting(t) /\ pc[t] \in {"owned", "unlink"} /\ child[t] # None
         => Exited(child[t]) /\ seen[t] = child[t]
    /\ pc[t] \in {"acquire", "waitexit"} \cup LockSteps \cup YieldSteps => result[t] = "none"
    /\ pc[t] = "waitexit" => ~Starting(t)
    /\ result[t] \in {"startup_failed", "interrupted"}
         => child[t] \in Daemons /\ Exited(child[t])
    /\ result[t] = "startup_failed" => meta # child[t]
ChildInv == \A t \in Threads : ChildOK(t)

(* A step that leaves a thread alone keeps its ChildOK.                     *)
LEMMA ChildFrame ==
    ASSUME TypeOK, [Next]_vars, NEW t \in Threads, ChildOK(t),
           pc'[t] \in {pc[t], "dead"}, op'[t] = op[t], child'[t] = child[t],
           seen'[t] = seen[t], result'[t] = result[t]
    PROVE  ChildOK(t)'
<1>1. \A d \in Daemons : dstate[d] \in {"zombie", "gone"} => dstate'[d] \in {"zombie", "gone"}
  BY ExitIsFinal DEF Exited
<1>2. \A d \in Daemons : dstate[d] \in {"zombie", "gone"} /\ meta # d => meta' # d
  BY ExitIsFinal DEF Exited
<1>3. child[t] \in Daemons \cup {None}
  BY DEF TypeOK
<1> QED BY <1>1, <1>2, <1>3 DEF ChildOK, Exited, Starting, LockSteps, YieldSteps, ReleaseSteps

(* A step of one thread leaves what the others hold alone.                  *)
LEMMA OthersRest ==
    ASSUME TypeOK, NEW t \in Threads, ClientStep(t), NEW u \in Threads, u # t
    PROVE  /\ pc'[u] = pc[u] /\ op'[u] = op[u] /\ child'[u] = child[u]
           /\ seen'[u] = seen[u] /\ result'[u] = result[u]
<1> USE DEF TypeOK, locals, Goto, End
<1>0. CASE BeginStart(t) \/ BeginQuery(t)
  BY <1>0 DEF BeginStart, BeginQuery, Begin
<1>1. CASE \/ Acquire(t) \/ Create(t) \/ Record(t) \/ Stat(t) \/ Inspect(t) \/ Steal(t)
           \/ Sleep(t) \/ LockDeadline(t) \/ RecordFails(t) \/ Release(t) \/ Unlock(t)
           \/ Leave(t) \/ Forget(t)
  BY <1>1 DEF Acquire, Create, Record, Stat, Inspect, Steal, Sleep, LockDeadline,
     RecordFails, Release, Unlock, Leave, Forget
<1>2. CASE \/ ReadMeta(t) \/ CheckPid(t) \/ CheckOwned(t) \/ UnlinkMeta(t) \/ CheckExists(t)
           \/ ReadRaw(t) \/ ProbeExisting(t) \/ Query(t) \/ SendStop(t) \/ AwaitExit(t)
           \/ StopDeadline(t)
  BY <1>2 DEF ReadMeta, CheckPid, CheckOwned, UnlinkMeta, CheckExists, ReadRaw,
     AfterCleanup, ProbeExisting, Query, SendStop, AwaitExit, StopDeadline
<1>3. CASE \/ Spawn(t) \/ Look(t) \/ ProbeReady(t) \/ Poll(t) \/ Reap(t) \/ ReRead(t)
           \/ StartDeadline(t) \/ Interrupt(t)
  BY <1>3 DEF Spawn, Look, ProbeReady, Poll, Reap, ReRead, StartDeadline, Interrupt
<1> QED BY <1>0, <1>1, <1>2, <1>3 DEF ClientStep, Step, Deadline

(* Every step keeps what is known of the child of each start.               *)
LEMMA ChildStep == TypeOK /\ ChildInv /\ [Next]_vars => ChildInv'
<1> SUFFICES ASSUME TypeOK, ChildInv, [Next]_vars PROVE ChildInv'
  OBVIOUS
<1>1. ASSUME NEW t \in Threads, ClientStep(t) PROVE ChildInv'
  <2>1. ASSUME NEW u \in Threads, u # t PROVE ChildOK(u)'
    <3>1. /\ pc'[u] = pc[u] /\ op'[u] = op[u] /\ child'[u] = child[u]
          /\ seen'[u] = seen[u] /\ result'[u] = result[u]
      BY <1>1, <2>1, OthersRest
    <3> QED BY <2>1, <3>1, ChildFrame DEF ChildInv
  <2>2. ChildOK(t)'
    <3> USE DEF Goto, At, End, Starting, AfterCleanup, RecordedDaemon, KillChild, Exited,
                ChildOK, LockSteps, YieldSteps, ReleaseSteps, TypeOK, registry, disk, daemons, locals
    <3>0. ChildOK(t) /\ None \notin Daemons
      BY DEF ChildInv
    <3>1. CASE BeginStart(t)
      BY <3>0, <3>1 DEF BeginStart, Begin, RegisteredMutex
    <3>2. CASE BeginQuery(t)
      BY <3>0, <3>2 DEF BeginQuery, Begin
    <3>3. CASE Acquire(t)
      BY <3>0, <3>3 DEF Acquire
    <3>4. CASE Create(t)
      BY <3>0, <3>4 DEF Create
    <3>5. CASE Record(t)
      BY <3>0, <3>5 DEF Record
    <3>6. CASE Stat(t)
      BY <3>0, <3>6 DEF Stat
    <3>7. CASE Inspect(t)
      BY <3>0, <3>7 DEF Inspect, LockIsStale, OwnerDead
    <3>8. CASE Steal(t)
      BY <3>0, <3>8 DEF Steal
    <3>9. CASE Sleep(t)
      BY <3>0, <3>9 DEF Sleep
    <3>10. CASE ReadMeta(t)
      BY <3>0, <3>10 DEF ReadMeta
    <3>11. CASE CheckPid(t)
      BY <3>0, <3>11 DEF CheckPid
    <3>12. CASE CheckOwned(t)
      BY <3>0, <3>12 DEF CheckOwned
    <3>13. CASE UnlinkMeta(t)
      <4>1. pc[t] = "unlink" /\ meta' = None /\ UNCHANGED <<dstate, op, seen, child>>
        BY <3>13 DEF UnlinkMeta
      <4>2. /\ pc' \in {[pc EXCEPT ![t] = l] : l \in {"spawn", "release", "idle"}}
            /\ AfterCleanup(t)
        BY <3>13 DEF UnlinkMeta
      <4> QED BY <3>0, <4>1, <4>2
    <3>14. CASE CheckExists(t)
      BY <3>0, <3>14 DEF CheckExists
    <3>15. CASE ReadRaw(t)
      BY <3>0, <3>15 DEF ReadRaw
    <3>16. CASE ProbeExisting(t)
      BY <3>0, <3>16 DEF ProbeExisting
    <3>17. CASE Query(t)
      BY <3>0, <3>17 DEF Query
    <3>18. CASE SendStop(t)
      BY <3>0, <3>18 DEF SendStop
    <3>19. CASE AwaitExit(t)
      BY <3>0, <3>19 DEF AwaitExit, OwnChild
    <3>20. CASE Spawn(t)
      <4>1. PICK d \in Daemons : child' = [child EXCEPT ![t] = d]
        BY <3>20 DEF Spawn
      <4>2. /\ pc' = [pc EXCEPT ![t] = "loop"] /\ pc[t] = "spawn"
            /\ UNCHANGED <<op, seen, result, meta>>
        BY <3>20 DEF Spawn
      <4>3. child'[t] = d /\ pc'[t] = "loop" /\ result'[t] = "none" /\ op'[t] = "start"
        BY <3>0, <4>1, <4>2
      <4> QED BY <4>3
    <3>21. CASE Look(t)
      BY <3>0, <3>21 DEF Look
    <3>22. CASE ProbeReady(t)
      BY <3>0, <3>22 DEF ProbeReady
    <3>23. CASE Poll(t)
      BY <3>0, <3>23 DEF Poll
    <3>24. CASE Reap(t)
      BY <3>0, <3>24 DEF Reap
    <3>25. CASE ReRead(t)
      BY <3>0, <3>25 DEF ReRead
    <3>26. CASE Release(t)
      BY <3>0, <3>26 DEF Release
    <3>27. CASE Unlock(t)
      BY <3>0, <3>27 DEF Unlock
    <3>28. CASE Leave(t)
      BY <3>0, <3>28 DEF Leave
    <3>29. CASE Forget(t)
      BY <3>0, <3>29 DEF Forget
    <3>30. CASE LockDeadline(t)
      BY <3>0, <3>30 DEF LockDeadline
    <3>31. CASE StartDeadline(t)
      BY <3>0, <3>31 DEF StartDeadline
    <3>32. CASE StopDeadline(t)
      BY <3>0, <3>32 DEF StopDeadline
    <3>33. CASE RecordFails(t)
      BY <3>0, <3>33 DEF RecordFails
    <3>34. CASE Interrupt(t)
      BY <3>0, <3>34 DEF Interrupt
    <3> QED BY <1>1, <3>1, <3>2, <3>3, <3>4, <3>5, <3>6, <3>7, <3>8, <3>9,
       <3>10, <3>11, <3>12, <3>13, <3>14, <3>15, <3>16, <3>17, <3>18, <3>19,
       <3>20, <3>21, <3>22, <3>23, <3>24, <3>25, <3>26, <3>27, <3>28, <3>29,
       <3>30, <3>31, <3>32, <3>33, <3>34 DEF ClientStep, Step, Deadline
  <2> QED BY <2>1, <2>2 DEF ChildInv
<1>2. ASSUME \A t \in Threads :
               /\ pc'[t] \in {pc[t], "dead"} /\ op'[t] = op[t] /\ child'[t] = child[t]
               /\ seen'[t] = seen[t] /\ result'[t] = result[t]
      PROVE  ChildInv'
  BY <1>2, ChildFrame DEF ChildInv
<1>3. ASSUME NEW d \in Daemons, DaemonNext(d) PROVE ChildInv'
  BY <1>2, <1>3 DEF DaemonNext, DaemonStep, Publish, BootFails, GoIdle,
     DaemonChecksRecord, DaemonUnlinks, DaemonExits, DaemonCrash, WarmUp, locals
<1>4. ASSUME NEW p \in Procs, ClientCrash(p) PROVE ChildInv'
  BY <1>2, <1>4 DEF ClientCrash, locals
<1>5. CASE Age \/ UNCHANGED vars
  BY <1>2, <1>5 DEF Age, vars, locals
<1> QED BY <1>1, <1>3, <1>4, <1>5 DEF Next

(* A start that fails after it has spawned a daemon leaves none behind: the *)
(* child has exited for good, and no record names it after startup_failed,  *)
(* whatever other starters, queries, stops, daemons and crashes do.         *)
THEOREM FailedStartLeavesNothingHolds == Spec => []FailedStartLeavesNothing
<1>1. Init => ChildInv
  BY DEF Init, ChildInv, ChildOK, Starting, LockSteps, YieldSteps, ReleaseSteps
<1>2. TypeOK /\ ChildInv /\ [Next]_vars => ChildInv'
  BY ChildStep
<1>3. ChildInv => FailedStartLeavesNothing
  BY DEF ChildInv, ChildOK, FailedStartLeavesNothing
<1> QED BY <1>1, <1>2, <1>3, TypeCorrect, PTL DEF Spec

-----------------------------------------------------------------------------
(* `stop` reports success where it met no record and where the daemon that  *)
(* the record named is gone.  StopInv says what it knows of that daemon at  *)
(* every step before, and that a record only names daemons that were        *)
(* spawned: PidAlive of any other would be false.                           *)
Born(d) == dstate[d] # "unborn"
StopOK(t) ==
    /\ seen[t] # None => Born(seen[t])
    /\ pc[t] \in {"acquire", "exists", "raw"} \cup LockSteps => seen[t] = None
    /\ pc[t] \in {"alive", "exchange", "probe", "waitexit"} => seen[t] # None
    /\ pc[t] \in {"owned", "unlink"} /\ seen[t] # None => Exited(seen[t])
    /\ result[t] = "stopped" /\ seen[t] # None => Exited(seen[t]) /\ meta # seen[t]
RecordIsBorn == meta \in Daemons => Born(meta)
StopInv == RecordIsBorn /\ \A t \in Threads : StopOK(t)

(* What was spawned stays so, and only a daemon itself publishes a record.  *)
LEMMA BornStays ==
    TypeOK /\ [Next]_vars => \A d \in Daemons : /\ Born(d) => Born(d)'
                                                /\ meta' = d /\ meta # d => Born(d)'
<1> SUFFICES ASSUME TypeOK, [Next]_vars, NEW d \in Daemons
             PROVE  /\ Born(d) => Born(d)'
                    /\ meta' = d /\ meta # d => Born(d)'
  OBVIOUS
<1> USE DEF Born, TypeOK
<1> DEFINE Kept == Born(d) => Born(d)'
<1>1. ASSUME NEW t \in Threads, ClientStep(t)
      PROVE  Kept /\ (meta' = meta \/ meta' = None)
  <2> USE DEF Goto, At, Answers, KillChild, registry, disk, daemons
  <2>1. CASE SendStop(t)
    BY <2>1 DEF SendStop
  <2>2. CASE AwaitExit(t)
    BY <2>2 DEF AwaitExit, OwnChild
  <2>3. CASE Spawn(t)
    BY <2>3 DEF Spawn, OwnChild
  <2>4. CASE Poll(t)
    BY <2>4 DEF Poll
  <2>5. CASE Reap(t)
    BY <2>5 DEF Reap
  <2>6. CASE Interrupt(t)
    BY <2>6 DEF Interrupt
  <2>7. CASE UNCHANGED dstate /\ (meta' = meta \/ meta' = None)
    BY <2>7
  <2> QED BY <1>1, <2>1, <2>2, <2>3, <2>4, <2>5, <2>6, <2>7 DEF ClientStep,
     Step, Deadline, BeginStart, BeginQuery, Acquire, Create, Record, Stat,
     Inspect, Steal, Sleep, ReadMeta, CheckPid, CheckOwned, UnlinkMeta,
     CheckExists, ReadRaw, ProbeExisting, Query, Look, ProbeReady, ReRead,
     Release, Unlock, Leave, Forget, LockDeadline, StartDeadline,
     StopDeadline, RecordFails, Begin
<1>2. ASSUME NEW e \in Daemons, DaemonNext(e)
      PROVE  Kept /\ (meta' = d /\ meta # d => Born(d)')
  BY <1>2 DEF DaemonNext, DaemonStep, Publish, BootFails, GoIdle, DaemonChecksRecord,
     DaemonUnlinks, DaemonExits, DaemonCrash, WarmUp, ExitState, Running, disk
<1>3. ASSUME NEW p \in Procs, ClientCrash(p) PROVE Kept /\ meta' = meta
  BY <1>3 DEF ClientCrash, disk
<1>4. CASE Age \/ UNCHANGED vars
  BY <1>4 DEF Age, vars, disk, daemons
<1> QED BY <1>1, <1>2, <1>3, <1>4 DEF Next

(* A step that leaves a thread alone keeps its StopOK.                      *)
LEMMA StopFrame ==
    ASSUME TypeOK, [Next]_vars, NEW t \in Threads, StopOK(t),
           pc'[t] \in {pc[t], "dead"}, op'[t] = op[t], seen'[t] = seen[t],
           result'[t] = result[t]
    PROVE  StopOK(t)'
<1>1. \A d \in Daemons : Exited(d) => Exited(d)' /\ (meta # d => meta' # d)
  BY ExitIsFinal
<1>2. \A d \in Daemons : Born(d) => Born(d)'
  BY BornStays
<1>3. seen[t] \in Daemons \cup {None}
  BY DEF TypeOK
<1> QED BY <1>1, <1>2, <1>3 DEF StopOK, LockSteps

(* Every step keeps what is known of the daemon a stop has found.           *)
LEMMA StopStep == TypeOK /\ ChildInv /\ StopInv /\ [Next]_vars => StopInv'
<1> SUFFICES ASSUME TypeOK, ChildInv, StopInv, [Next]_vars PROVE StopInv'
  OBVIOUS
<1>0. RecordIsBorn'
  BY BornStays DEF StopInv, RecordIsBorn
<1>1. ASSUME NEW t \in Threads, ClientStep(t) PROVE StopInv'
  <2>1. ASSUME NEW u \in Threads, u # t PROVE StopOK(u)'
    <3>1. /\ pc'[u] = pc[u] /\ op'[u] = op[u]
          /\ seen'[u] = seen[u] /\ result'[u] = result[u]
      BY <1>1, <2>1, OthersRest
    <3> QED BY <2>1, <3>1, StopFrame DEF StopInv
  <2>2. StopOK(t)'
    <3>0. /\ StopOK(t) /\ ChildOK(t) /\ None \notin Daemons
          /\ meta \in Daemons => Born(meta)
      BY DEF StopInv, RecordIsBorn, ChildInv
    <3>a. \A d \in Daemons : Exited(d) => Exited(d)' /\ (meta # d => meta' # d)
      BY ExitIsFinal
    <3>b. \A d \in Daemons : Born(d) => Born(d)'
      BY BornStays
    <3>c. ChildOK(t)'
      BY ChildStep DEF ChildInv
    <3> USE DEF Goto, At, End, Starting, AfterCleanup, RecordedDaemon, KillChild, Exited, Born,
       StopOK, ChildOK, LockSteps, YieldSteps, ReleaseSteps, TypeOK, registry, disk, daemons, locals
    <3>1. CASE BeginStart(t)
      BY <3>0, <3>a, <3>b, <3>c, <3>1 DEF BeginStart, Begin, RegisteredMutex
    <3>2. CASE BeginQuery(t)
      BY <3>0, <3>a, <3>b, <3>c, <3>2 DEF BeginQuery, Begin
    <3>3. CASE Acquire(t)
      BY <3>0, <3>a, <3>b, <3>c, <3>3 DEF Acquire
    <3>4. CASE Create(t)
      BY <3>0, <3>a, <3>b, <3>c, <3>4 DEF Create
    <3>5. CASE Record(t)
      BY <3>0, <3>a, <3>b, <3>c, <3>5 DEF Record
    <3>6. CASE Stat(t)
      BY <3>0, <3>a, <3>b, <3>c, <3>6 DEF Stat
    <3>7. CASE Inspect(t)
      BY <3>0, <3>a, <3>b, <3>c, <3>7 DEF Inspect, LockIsStale, OwnerDead
    <3>8. CASE Steal(t)
      BY <3>0, <3>a, <3>b, <3>c, <3>8 DEF Steal
    <3>9. CASE Sleep(t)
      BY <3>0, <3>a, <3>b, <3>c, <3>9 DEF Sleep
    <3>10. CASE ReadMeta(t)
      BY <3>0, <3>a, <3>b, <3>c, <3>10 DEF ReadMeta
    <3>11. CASE CheckPid(t)
      BY <3>0, <3>a, <3>b, <3>c, <3>11 DEF CheckPid, PidAlive, Running, DaemonStates
    <3>12. CASE CheckOwned(t)
      BY <3>0, <3>a, <3>b, <3>c, <3>12 DEF CheckOwned
    <3>13. CASE UnlinkMeta(t)
      <4>1. pc[t] = "unlink" /\ meta' = None /\ UNCHANGED <<dstate, op, seen, child>>
        BY <3>13 DEF UnlinkMeta
      <4>2. AfterCleanup(t)
        BY <3>13 DEF UnlinkMeta
      <4> QED BY <3>0, <3>a, <3>b, <3>c, <4>1, <4>2
    <3>14. CASE CheckExists(t)
      BY <3>0, <3>a, <3>b, <3>c, <3>14 DEF CheckExists
    <3>15. CASE ReadRaw(t)
      BY <3>0, <3>a, <3>b, <3>c, <3>15 DEF ReadRaw, PidAlive, Running, DaemonStates
    <3>16. CASE ProbeExisting(t)
      BY <3>0, <3>a, <3>b, <3>c, <3>16 DEF ProbeExisting, Answers, GivesUp
    <3>17. CASE Query(t)
      BY <3>0, <3>a, <3>b, <3>c, <3>17 DEF Query, Answers, GivesUp
    <3>18. CASE SendStop(t)
      BY <3>0, <3>a, <3>b, <3>c, <3>18 DEF SendStop, Answers
    <3>19. CASE AwaitExit(t)
      BY <3>0, <3>a, <3>b, <3>c, <3>19 DEF AwaitExit, OwnChild, PidAlive, Running
    <3>20. CASE Spawn(t)
      BY <3>0, <3>a, <3>b, <3>c, <3>20 DEF Spawn, OwnChild
    <3>21. CASE Look(t)
      BY <3>0, <3>a, <3>b, <3>c, <3>21 DEF Look
    <3>22. CASE ProbeReady(t)
      BY <3>0, <3>a, <3>b, <3>c, <3>22 DEF ProbeReady, Answers, GivesUp
    <3>23. CASE Poll(t)
      BY <3>0, <3>a, <3>b, <3>c, <3>23 DEF Poll
    <3>24. CASE Reap(t)
      BY <3>0, <3>a, <3>b, <3>c, <3>24 DEF Reap
    <3>25. CASE ReRead(t)
      BY <3>0, <3>a, <3>b, <3>c, <3>25 DEF ReRead
    <3>26. CASE Release(t)
      BY <3>0, <3>a, <3>b, <3>c, <3>26 DEF Release
    <3>27. CASE Unlock(t)
      BY <3>0, <3>a, <3>b, <3>c, <3>27 DEF Unlock
    <3>28. CASE Leave(t)
      BY <3>0, <3>a, <3>b, <3>c, <3>28 DEF Leave
    <3>29. CASE Forget(t)
      BY <3>0, <3>a, <3>b, <3>c, <3>29 DEF Forget
    <3>30. CASE LockDeadline(t)
      BY <3>0, <3>a, <3>b, <3>c, <3>30 DEF LockDeadline
    <3>31. CASE StartDeadline(t)
      BY <3>0, <3>a, <3>b, <3>c, <3>31 DEF StartDeadline
    <3>32. CASE StopDeadline(t)
      BY <3>0, <3>a, <3>b, <3>c, <3>32 DEF StopDeadline, PidAlive, Running,
         DaemonStates
    <3>33. CASE RecordFails(t)
      BY <3>0, <3>a, <3>b, <3>c, <3>33 DEF RecordFails
    <3>34. CASE Interrupt(t)
      BY <3>0, <3>a, <3>b, <3>c, <3>34 DEF Interrupt
    <3> QED BY <1>1, <3>1, <3>2, <3>3, <3>4, <3>5, <3>6, <3>7, <3>8, <3>9,
       <3>10, <3>11, <3>12, <3>13, <3>14, <3>15, <3>16, <3>17, <3>18, <3>19,
       <3>20, <3>21, <3>22, <3>23, <3>24, <3>25, <3>26, <3>27, <3>28, <3>29,
       <3>30, <3>31, <3>32, <3>33, <3>34 DEF ClientStep, Step, Deadline
  <2> QED BY <1>0, <2>1, <2>2 DEF StopInv
<1>2. ASSUME \A t \in Threads : /\ pc'[t] \in {pc[t], "dead"} /\ op'[t] = op[t]
                                /\ seen'[t] = seen[t] /\ result'[t] = result[t]
      PROVE  StopInv'
  BY <1>0, <1>2, StopFrame DEF StopInv
<1>3. ASSUME NEW d \in Daemons, DaemonNext(d) PROVE StopInv'
  BY <1>2, <1>3 DEF DaemonNext, DaemonStep, Publish, BootFails, GoIdle,
     DaemonChecksRecord, DaemonUnlinks, DaemonExits, DaemonCrash, WarmUp, locals
<1>4. ASSUME NEW p \in Procs, ClientCrash(p) PROVE StopInv'
  BY <1>2, <1>4 DEF ClientCrash, locals
<1>5. CASE Age \/ UNCHANGED vars
  BY <1>2, <1>5 DEF Age, vars, locals
<1> QED BY <1>1, <1>3, <1>4, <1>5 DEF Next

(* `cache stop` reports success only once the daemon it found has exited,   *)
(* and no record names that daemon any more, whoever starts, crashes or     *)
(* publishes meanwhile.                                                     *)
THEOREM StoppedIsGoneHolds == Spec => []StoppedIsGone
<1>1. Init => ChildInv /\ StopInv
  BY DEF Init, ChildInv, ChildOK, StopInv, RecordIsBorn, StopOK, Starting, LockSteps, YieldSteps, ReleaseSteps
<1>2. TypeOK /\ ChildInv /\ StopInv /\ [Next]_vars => ChildInv' /\ StopInv'
  BY ChildStep, StopStep
<1>3. StopInv => StoppedIsGone
  BY DEF StopInv, StopOK, StoppedIsGone
<1> QED BY <1>1, <1>2, <1>3, TypeCorrect, PTL DEF Spec

-----------------------------------------------------------------------------

(* The locks.  OneDaemon, ServingIsRecorded and OkHasConf are not inductive *)
(* and not even about what the lock protects.  As long as nothing has       *)
(* slipped, a start from the record in start.lock to its release holds that *)
(* file, and so it is the only one; at most one daemon is Present, from its *)
(* Popen until it has unlinked its record; and the start knows which.       *)
Guarded(t) ==
    pc[t] = "record" \/ InYield(t) =>
        /\ lockFile # None /\ lockFile.by = t
        /\ InYield(t) => lockFile.written

Present(d) == dstate[d] \in {"booting", "serving", "closing", "removing"}
Waiting == {"loop", "probe", "poll", "reap"}

(* A daemon that has published stays recorded, and one that has not is the  *)
(* child of a start that waits for it.                                      *)
DaemonOK(d) ==
    /\ Present(d) /\ dstate[d] # "booting" => meta = d
    /\ dstate[d] = "booting" => \E t \in Threads : child[t] = d /\ pc[t] \in Waiting
(* What a start knows of the daemons at each of its steps: none is Present  *)
(* once the record is out of the way and until Popen, before that only the  *)
(* one the record named, and after that only its child.                     *)
StarterOK(t) ==
    Starting(t) =>
    /\ pc[t] \in {"exists", "raw", "owned", "unlink", "spawn", "reread"} =>
         \A d \in Daemons : ~Present(d)
    /\ pc[t] \in {"alive", "exchange"} => \A d \in Daemons : Present(d) => d = seen[t]
    /\ pc[t] \in Waiting =>
         /\ parent[child[t]] = t /\ Born(child[t])
         /\ \A d \in Daemons : Present(d) => d = child[t]
    /\ result[t] = "ok" => /\ seen[t] # None
                           /\ ConfOf[parent[seen[t]]] = ConfOf[t]
AtMostOne == \A d, e \in Daemons : Present(d) /\ Present(e) => d = e
SingleInv == /\ \A d \in Daemons : DaemonOK(d)
             /\ \A t \in Threads : Guarded(t) /\ StarterOK(t)
             /\ AtMostOne
AllInv == TypeOK /\ ChildInv /\ StopInv /\ (slips = {} => SingleInv)

(* A step that slips nothing has followed steps that slipped nothing.       *)
LEMMA NothingSlipped == [Next]_vars /\ slips' = {} => slips = {}
  BY SlipsGrow

(* The parent of a daemon is set when it is spawned and never again.        *)
LEMMA ParentStays ==
    TypeOK /\ [Next]_vars => \A d \in Daemons : Born(d) => parent'[d] = parent[d]
<1> SUFFICES ASSUME TypeOK, [Next]_vars, NEW d \in Daemons, Born(d)
             PROVE  parent'[d] = parent[d]
  OBVIOUS
<1>1. ASSUME NEW t \in Threads, Spawn(t) PROVE parent'[d] = parent[d]
  BY <1>1 DEF Spawn, Born, TypeOK
<1>2. CASE UNCHANGED parent
  BY <1>2
<1>3. ASSUME NEW t \in Threads, ClientStep(t) PROVE UNCHANGED parent \/ Spawn(t)
  BY <1>3 DEF ClientStep, Step, Deadline, BeginStart, BeginQuery, Begin, Acquire, Create,
     Record, Stat, Inspect, Steal, Sleep, ReadMeta, CheckPid, CheckOwned, UnlinkMeta,
     CheckExists, ReadRaw, ProbeExisting, Query, SendStop, AwaitExit, Look, ProbeReady,
     Poll, Reap, ReRead, Release, Unlock, Leave, Forget, LockDeadline, StartDeadline,
     StopDeadline, RecordFails, Interrupt, daemons
<1>4. ASSUME NEW e \in Daemons, DaemonNext(e) PROVE UNCHANGED parent
  BY <1>4 DEF DaemonNext, DaemonStep, Publish, BootFails, GoIdle, DaemonChecksRecord,
     DaemonUnlinks, DaemonExits, DaemonCrash, WarmUp
<1>5. ASSUME (\E p \in Procs : ClientCrash(p)) \/ Age \/ UNCHANGED vars
      PROVE  UNCHANGED parent
  BY <1>5 DEF ClientCrash, Age, vars, daemons
<1> QED BY <1>1, <1>2, <1>3, <1>4, <1>5 DEF Next

(* A thread that rests or dies while no daemon comes to be Present keeps its *)
(* StarterOK.                                                               *)
LEMMA StarterFrame ==
    ASSUME TypeOK, ChildInv, StopInv, [Next]_vars, NEW t \in Threads, StarterOK(t),
           pc'[t] \in {pc[t], "dead"}, op'[t] = op[t], child'[t] = child[t],
           seen'[t] = seen[t], result'[t] = result[t],
           \A d \in Daemons : Present(d)' => Present(d)
    PROVE  StarterOK(t)'
<1>1. \A d \in Daemons : Born(d) => Born(d)' /\ parent'[d] = parent[d]
  BY BornStays, ParentStays
<1>2. seen[t] # None => seen[t] \in Daemons /\ Born(seen[t])
  BY DEF StopInv, StopOK, TypeOK
<1>3. pc[t] \in Waiting => child[t] \in Daemons
  BY DEF ChildInv, ChildOK, Waiting
<1>4. "dead" \notin Waiting
  BY DEF Waiting
<1> HIDE DEF Present, Born
<1> QED BY <1>1, <1>2, <1>3, <1>4 DEF StarterOK, Starting

(* Only one start at a time is past the record of its lock.                 *)
LEMMA OneStarter ==
    ASSUME ChildInv, SingleInv, NEW t \in Threads, NEW u \in Threads, InYield(t),
           pc[u] \in Waiting \/ (Starting(u) /\ pc[u] \in YieldSteps)
    PROVE  u = t
<1>1. InYield(u)
  BY DEF ChildInv, ChildOK, InYield, Waiting, YieldSteps
<1> QED BY <1>1 DEF SingleInv, Guarded

(* A step of one thread disturbs nothing but what that thread knows if it   *)
(* spawns nothing, touches start.lock only where it is nobody else's,       *)
(* unlinks no record of a daemon that is Present, and leaves the wait for   *)
(* its child only once that does not boot any more.                         *)
LEMMA SingleFrame ==
    ASSUME AllInv, SingleInv, [Next]_vars, NEW t \in Threads, ClientStep(t),
           \A d \in Daemons : \/ dstate'[d] \in {dstate[d], "gone"}
                              \/ dstate[d] = "serving" /\ dstate'[d] = "closing",
           lockFile' = lockFile \/ ~LockIsHeld \/ lockFile.by = t,
           meta' = meta \/ (meta' = None /\ \A d \in Daemons : Present(d) => dstate[d] = "booting"),
           pc[t] \in Waiting =>
               /\ child'[t] = child[t]
               /\ pc'[t] \in Waiting \/ dstate'[child[t]] # "booting",
           Guarded(t)', StarterOK(t)'
    PROVE  SingleInv'
<1> USE DEF AllInv, SingleInv
<1>1. \A d \in Daemons : Present(d)' => Present(d)
  BY DEF Present
<1>2. ASSUME NEW u \in Threads, u # t PROVE StarterOK(u)' /\ Guarded(u)'
  <2>1. /\ pc'[u] = pc[u] /\ op'[u] = op[u] /\ child'[u] = child[u]
        /\ seen'[u] = seen[u] /\ result'[u] = result[u]
    BY <1>2, OthersRest
  <2>2. StarterOK(u)'
    BY <1>1, <2>1, StarterFrame
  <2>3. ASSUME pc[u] = "record" \/ InYield(u) PROVE lockFile' = lockFile
    BY <1>2, <2>3 DEF Guarded, LockIsHeld
  <2>4. Guarded(u)'
    BY <2>1, <2>3 DEF Guarded, InYield, Starting
  <2> QED BY <2>2, <2>4
<1>3. ASSUME NEW d \in Daemons PROVE DaemonOK(d)'
  <2>1. Present(d)' /\ dstate'[d] # "booting" => meta' = d
    BY DEF DaemonOK, Present
  <2>2. ASSUME dstate'[d] = "booting"
        PROVE  \E u \in Threads : child'[u] = d /\ pc'[u] \in Waiting
    <3>1. dstate[d] = "booting"
      BY <2>2
    <3>2. PICK u \in Threads : child[u] = d /\ pc[u] \in Waiting
      BY <3>1 DEF DaemonOK
    <3>3. CASE u = t
      BY <3>2, <3>3, <2>2
    <3>4. CASE u # t
      BY <3>2, <3>4, OthersRest
    <3> QED BY <3>3, <3>4
  <2> QED BY <2>1, <2>2 DEF DaemonOK
<1>4. AtMostOne'
  BY <1>1 DEF AtMostOne
<1> QED BY <1>2, <1>3, <1>4

(* A step of a client that slips nothing changes start.lock only where it   *)
(* is its own or nobody's, and holds it when it goes on.                    *)
LEMMA SingleLock ==
    ASSUME AllInv, SingleInv, [Next]_vars, slips' = {}, NEW t \in Threads, ClientStep(t)
    PROVE  /\ lockFile' = lockFile \/ ~LockIsHeld \/ lockFile.by = t
           /\ Guarded(t)'
<1>0. Guarded(t) /\ ChildOK(t) /\ TypeOK
  BY DEF SingleInv, AllInv, ChildInv
<1> USE DEF Goto, At, End, Starting, TypeOK, Guarded, InYield, YieldSteps, ReleaseSteps,
   LockFiles, registry, disk, daemons, locals
<1>1. CASE Create(t)
  <2>1. CASE lockFile = None
    <3>1. /\ lockFile' = [by |-> t, written |-> FALSE, old |-> FALSE]
          /\ pc' = [pc EXCEPT ![t] = "record"]
      BY <1>1, <2>1 DEF Create
    <3>2. lockFile' \in LockFiles
      BY <3>1
    <3> QED BY <1>0, <2>1, <3>1, <3>2, FileAssumption DEF LockIsHeld
  <2>2. CASE lockFile # None
    BY <1>0, <1>1, <2>2 DEF Create
  <2> QED BY <2>1, <2>2
<1>2. CASE Record(t)
  <2>1. /\ lockFile # None /\ lockFile.by = t /\ lockFile' = [lockFile EXCEPT !.written = TRUE]
        /\ pc' = [pc EXCEPT ![t] = "read"]
    BY <1>0, <1>2 DEF Record
  <2>2. lockFile' \in LockFiles /\ lockFile'.by = t /\ lockFile'.written
    BY <1>0, <2>1
  <2> QED BY <1>0, <2>1, <2>2, FileAssumption
<1>3. CASE Steal(t)
  BY <1>0, <1>3 DEF Steal, Slip
<1>4. CASE Unlock(t)
  BY <1>0, <1>4 DEF Unlock, ChildOK
<1>5. CASE BeginStart(t) \/ BeginQuery(t) \/ Acquire(t) \/ Stat(t) \/ Inspect(t) \/ Sleep(t)
           \/ LockDeadline(t) \/ RecordFails(t) \/ Release(t) \/ Leave(t) \/ Forget(t)
  BY <1>0, <1>5 DEF BeginStart, BeginQuery, Begin, Acquire, Stat, Inspect, Sleep,
     LockDeadline, RecordFails, Release, Leave, Forget
<1>6. CASE ReadMeta(t) \/ CheckPid(t) \/ CheckOwned(t) \/ UnlinkMeta(t) \/ CheckExists(t)
           \/ ReadRaw(t) \/ ProbeExisting(t) \/ Query(t) \/ SendStop(t) \/ AwaitExit(t)
           \/ StopDeadline(t)
  <2>1. lockFile' = lockFile /\ op'[t] = op[t]
    BY <1>6 DEF ReadMeta, CheckPid, CheckOwned, UnlinkMeta, CheckExists, ReadRaw,
       ProbeExisting, Query, SendStop, AwaitExit, StopDeadline
  <2>2. Starting(t) => InYield(t) \/ ~InYield(t)'
    BY <1>0, <1>6 DEF ReadMeta, CheckPid, CheckOwned, UnlinkMeta, CheckExists, ReadRaw,
       ProbeExisting, Query, SendStop, AwaitExit, StopDeadline, ChildOK
  <2>3. pc'[t] # "record"
    <3>1. CASE CheckOwned(t) \/ UnlinkMeta(t) \/ CheckExists(t)
      <4>1. pc' = [pc EXCEPT ![t] = "unlink"] \/ pc' = [pc EXCEPT ![t] = "raw"] \/ AfterCleanup(t)
        BY <3>1 DEF CheckOwned, UnlinkMeta, CheckExists
      <4> QED BY <1>0, <4>1 DEF AfterCleanup
    <3>2. CASE ReadMeta(t) \/ CheckPid(t) \/ ReadRaw(t) \/ ProbeExisting(t)
      BY <1>0, <3>2 DEF ReadMeta, CheckPid, ReadRaw, ProbeExisting
    <3>3. CASE Query(t) \/ SendStop(t) \/ AwaitExit(t) \/ StopDeadline(t)
      BY <1>0, <3>3 DEF Query, SendStop, AwaitExit, StopDeadline
    <3> QED BY <1>6, <3>1, <3>2, <3>3
  <2> QED BY <1>0, <2>1, <2>2, <2>3
<1>7. CASE Spawn(t) \/ Look(t) \/ ProbeReady(t) \/ Poll(t) \/ Reap(t) \/ ReRead(t)
           \/ StartDeadline(t) \/ Interrupt(t)
  BY <1>0, <1>7 DEF Spawn, Look, ProbeReady, Poll, Reap, ReRead, StartDeadline, Interrupt
<1> QED BY <1>1, <1>2, <1>3, <1>4, <1>5, <1>6, <1>7 DEF ClientStep, Step, Deadline

(* Every step of a client that slips nothing keeps what is known of the one *)
(* daemon.                                                                  *)
LEMMA SingleClientStep ==
    ASSUME AllInv, SingleInv, [Next]_vars, slips' = {}, NEW t \in Threads, ClientStep(t)
    PROVE  SingleInv'
<1> USE DEF AllInv
<1>0. /\ StarterOK(t) /\ Guarded(t) /\ ChildOK(t) /\ StopOK(t) /\ None \notin Daemons
      /\ \A d \in Daemons : DaemonOK(d)
  BY DEF SingleInv, ChildInv, StopInv
<1>1. slips = {}
  BY NothingSlipped
(* Nobody else is inside the lock: no daemon boots unless its start is t.   *)
<1>3. ASSUME Starting(t), pc[t] \in YieldSteps, pc[t] \notin Waiting
      PROVE  \A d \in Daemons : Present(d) => meta = d
  <2> SUFFICES ASSUME NEW d \in Daemons, dstate[d] = "booting" PROVE FALSE
    BY <1>0 DEF DaemonOK, Present
  <2>1. PICK u \in Threads : child[u] = d /\ pc[u] \in Waiting
    BY <1>0 DEF DaemonOK
  <2>2. InYield(t)
    BY <1>3 DEF InYield
  <2> QED BY <2>1, <2>2, <1>3, OneStarter
<1>4. CASE Spawn(t)
  <2>1. PICK d \in Daemons :
           /\ dstate[d] = "unborn"
           /\ dstate' = [e \in Daemons |->
                           IF e = d THEN "booting"
                           ELSE IF dstate[e] = "zombie" /\ OwnChild(t, e) THEN "gone"
                           ELSE dstate[e]]
           /\ parent' = [parent EXCEPT ![d] = t]
           /\ child' = [child EXCEPT ![t] = d]
    BY <1>4 DEF Spawn
  <2>2. /\ pc[t] = "spawn" /\ pc' = [pc EXCEPT ![t] = "loop"]
        /\ UNCHANGED <<op, seen, result, meta>>
    BY <1>4 DEF Spawn, At, Goto, disk
  <2>3. \A e \in Daemons : ~Present(e) /\ (Present(e)' => e = d) /\ dstate'[d] = "booting"
    <3>1. \A e \in Daemons : ~Present(e)
      BY <1>0, <2>2 DEF StarterOK, ChildOK
    <3> QED BY <2>1, <3>1 DEF Present, TypeOK
  <2>4. child'[t] = d /\ pc'[t] = "loop" /\ parent'[d] = t
    BY <2>1, <2>2 DEF TypeOK
  <2>5. \A e \in Daemons : DaemonOK(e)'
    BY <2>3, <2>4 DEF DaemonOK, Present, Waiting
  <2>6. result[t] = "none" /\ Starting(t)
    BY <1>0, <2>2 DEF ChildOK, YieldSteps
  <2>7. StarterOK(t)'
    BY <2>2, <2>3, <2>4, <2>6 DEF StarterOK, Waiting, Born, Starting
  <2>8. ASSUME NEW u \in Threads, u # t PROVE StarterOK(u)' /\ Guarded(u)'
    <3>1. /\ pc'[u] = pc[u] /\ op'[u] = op[u] /\ child'[u] = child[u]
          /\ seen'[u] = seen[u] /\ result'[u] = result[u] /\ lockFile' = lockFile
      BY <2>8, <1>4, OthersRest DEF Spawn, disk
    <3>2. ~(Starting(u) /\ pc[u] \in YieldSteps)
      BY <2>2, <2>6, <2>8, OneStarter DEF InYield, YieldSteps
    <3>3. seen[u] # None => seen[u] \in Daemons /\ Born(seen[u])
      BY DEF StopInv, StopOK, TypeOK
    <3>4. result[u] = "ok" /\ Starting(u) =>
            seen'[u] # None /\ ConfOf[parent'[seen'[u]]] = ConfOf[u]
      BY <3>1, <3>3, ParentStays DEF SingleInv, StarterOK
    <3>5. StarterOK(u)'
      BY <3>1, <3>2, <3>4 DEF StarterOK, Starting, YieldSteps, Waiting
    <3> QED BY <3>1, <3>5 DEF SingleInv, Guarded, InYield, Starting
  <2>9. AtMostOne'
    BY <2>3 DEF AtMostOne
  <2>10. Guarded(t)'
    BY <1>0, <1>4, <2>2, <2>6 DEF Guarded, InYield, Starting, YieldSteps, Spawn, disk, TypeOK
  <2> QED BY <2>5, <2>7, <2>8, <2>9, <2>10 DEF SingleInv
<1>5. ASSUME ~Spawn(t) PROVE SingleInv'
  <2> DEFINE Rests ==
             /\ \A d \in Daemons : \/ dstate'[d] \in {dstate[d], "gone"}
                                   \/ dstate[d] = "serving" /\ dstate'[d] = "closing"
             /\ meta' = meta \/ (meta' = None /\ \A d \in Daemons : Present(d) => dstate[d] = "booting")
             /\ pc[t] \in Waiting =>
                  /\ child'[t] = child[t]
                  /\ pc'[t] \in Waiting \/ dstate'[child[t]] # "booting"
             /\ StarterOK(t)'
  <2>1. Rests => SingleInv'
    BY <1>1, SingleLock, SingleFrame
  <2>2. Rests
    <3>e. \A d \in Daemons : Born(d) => Born(d)' /\ parent'[d] = parent[d]
      BY BornStays, ParentStays
    <3>f. Starting(t) /\ pc[t] \in YieldSteps /\ pc[t] \notin Waiting =>
            \A d \in Daemons : Present(d) => meta = d
      BY <1>3
    <3>g. seen[t] # None => seen[t] \in Daemons /\ Born(seen[t])
      BY <1>0 DEF StopOK, TypeOK
    <3> USE DEF Goto, At, End, Starting, AfterCleanup, RecordedDaemon, KillChild, Exited, Born,
       StopOK, ChildOK, StarterOK, Present, Waiting, LockSteps, YieldSteps, TypeOK, registry,
       disk, daemons, locals
    <3>1. CASE BeginStart(t)
      BY <1>0, <1>1, <3>e, <3>f, <3>g, <3>1 DEF BeginStart, Begin, RegisteredMutex
    <3>2. CASE BeginQuery(t)
      BY <1>0, <1>1, <3>e, <3>f, <3>g, <3>2 DEF BeginQuery, Begin
    <3>3. CASE Acquire(t)
      BY <1>0, <1>1, <3>e, <3>f, <3>g, <3>3 DEF Acquire
    <3>4. CASE Create(t)
      BY <1>0, <1>1, <3>e, <3>f, <3>g, <3>4 DEF Create
    <3>5. CASE Record(t)
      BY <1>0, <1>1, <3>e, <3>f, <3>g, <3>5 DEF Record
    <3>6. CASE Stat(t)
      BY <1>0, <1>1, <3>e, <3>f, <3>g, <3>6 DEF Stat
    <3>7. CASE Inspect(t)
      BY <1>0, <1>1, <3>e, <3>f, <3>g, <3>7 DEF Inspect, LockIsStale, OwnerDead
    <3>8. CASE Steal(t)
      BY <1>0, <1>1, <3>e, <3>f, <3>g, <3>8 DEF Steal
    <3>9. CASE Sleep(t)
      BY <1>0, <1>1, <3>e, <3>f, <3>g, <3>9 DEF Sleep
    <3>10. CASE ReadMeta(t)
      BY <1>0, <1>1, <3>e, <3>f, <3>g, <3>10 DEF ReadMeta
    <3>11. CASE CheckPid(t)
      BY <1>0, <1>1, <3>e, <3>f, <3>g, <3>11 DEF CheckPid, PidAlive, Running, DaemonStates
    <3>12. CASE CheckOwned(t)
      BY <1>0, <1>1, <3>e, <3>f, <3>g, <3>12 DEF CheckOwned
    <3>13. CASE UnlinkMeta(t)
      <4>1. /\ pc[t] = "unlink" /\ meta' = None /\ AfterCleanup(t)
            /\ UNCHANGED <<dstate, parent, op, seen, child>>
            /\ meta \notin Daemons \ {seen[t]}
        BY <3>13 DEF UnlinkMeta, Slip
      <4>2. \A d \in Daemons : Present(d) => dstate[d] = "booting"
        BY <1>0, <4>1 DEF DaemonOK
      <4>3. StarterOK(t)'
        BY <1>0, <3>f, <4>1
      <4> QED BY <4>1, <4>2, <4>3
    <3>14. CASE CheckExists(t)
      BY <1>0, <1>1, <3>e, <3>f, <3>g, <3>14 DEF CheckExists
    <3>15. CASE ReadRaw(t)
      BY <1>0, <1>1, <3>e, <3>f, <3>g, <3>15 DEF ReadRaw, PidAlive, Running
    <3>16. CASE ProbeExisting(t)
      BY <1>0, <1>1, <3>e, <3>f, <3>g, <3>16 DEF ProbeExisting, Answers, GivesUp
    <3>17. CASE Query(t)
      BY <1>0, <1>1, <3>e, <3>f, <3>g, <3>17 DEF Query, Answers, GivesUp
    <3>18. CASE SendStop(t)
      BY <1>0, <1>1, <3>e, <3>f, <3>g, <3>18 DEF SendStop, Answers
    <3>19. CASE AwaitExit(t)
      BY <1>0, <1>1, <3>e, <3>f, <3>g, <3>19 DEF AwaitExit, OwnChild, PidAlive, Running
    <3>20. CASE Spawn(t)
      BY <1>5, <3>20
    <3>21. CASE Look(t)
      BY <1>0, <1>1, <3>e, <3>f, <3>g, <3>21 DEF Look
    <3>22. CASE ProbeReady(t)
      <4>1. CASE Answers(t) /\ End(t, "ok")
        <5>1. seen[t] = child[t] /\ parent[child[t]] = t /\ seen[t] \in Daemons
          BY <1>0, <3>22, <4>1 DEF ProbeReady, Answers
        <5>2. /\ UNCHANGED <<dstate, parent, meta, child, seen, op>>
              /\ pc' = [pc EXCEPT ![t] = "release"] /\ dstate[seen[t]] = "serving"
              /\ pc[t] = "probe"
              /\ result' = [result EXCEPT ![t] = "ok"]
          BY <1>0, <3>22, <4>1 DEF ProbeReady, Answers
        <5>3. /\ pc'[t] = "release" /\ seen'[t] # None /\ Starting(t)'
              /\ ConfOf[parent'[seen'[t]]] = ConfOf[t]
          BY <1>0, <5>1, <5>2
        <5>4. StarterOK(t)'
          BY <5>3
        <5>5. pc[t] = "probe" /\ dstate'[child[t]] # "booting" /\ child'[t] = child[t]
          BY <3>22, <5>1, <5>2 DEF ProbeReady
        <5> QED BY <5>2, <5>3, <5>4, <5>5
      <4>2. CASE Goto(t, "poll") /\ UNCHANGED result
        BY <1>0, <1>1, <3>e, <3>g, <3>22, <4>2 DEF ProbeReady
      <4> QED BY <3>22, <4>1, <4>2 DEF ProbeReady
    <3>23. CASE Poll(t)
      BY <1>0, <1>1, <3>e, <3>f, <3>g, <3>23 DEF Poll
    <3>24. CASE Reap(t)
      BY <1>0, <1>1, <3>e, <3>f, <3>g, <3>24 DEF Reap
    <3>25. CASE ReRead(t)
      BY <1>0, <1>1, <3>e, <3>f, <3>g, <3>25 DEF ReRead
    <3>26. CASE Release(t)
      BY <1>0, <1>1, <3>e, <3>f, <3>g, <3>26 DEF Release
    <3>27. CASE Unlock(t)
      BY <1>0, <1>1, <3>e, <3>f, <3>g, <3>27 DEF Unlock
    <3>28. CASE Leave(t)
      BY <1>0, <1>1, <3>e, <3>f, <3>g, <3>28 DEF Leave
    <3>29. CASE Forget(t)
      BY <1>0, <1>1, <3>e, <3>f, <3>g, <3>29 DEF Forget
    <3>30. CASE LockDeadline(t)
      BY <1>0, <1>1, <3>e, <3>f, <3>g, <3>30 DEF LockDeadline
    <3>31. CASE StartDeadline(t)
      BY <1>0, <1>1, <3>e, <3>f, <3>g, <3>31 DEF StartDeadline
    <3>32. CASE StopDeadline(t)
      BY <1>0, <1>1, <3>e, <3>f, <3>g, <3>32 DEF StopDeadline, PidAlive, Running, DaemonStates
    <3>33. CASE RecordFails(t)
      BY <1>0, <1>1, <3>e, <3>f, <3>g, <3>33 DEF RecordFails
    <3>34. CASE Interrupt(t)
      BY <1>0, <1>1, <3>e, <3>f, <3>g, <3>34 DEF Interrupt
    <3> QED BY <1>5, <3>1, <3>2, <3>3, <3>4, <3>5, <3>6, <3>7, <3>8, <3>9,
       <3>10, <3>11, <3>12, <3>13, <3>14, <3>15, <3>16, <3>17, <3>18, <3>19,
       <3>20, <3>21, <3>22, <3>23, <3>24, <3>25, <3>26, <3>27, <3>28, <3>29,
       <3>30, <3>31, <3>32, <3>33, <3>34 DEF ClientStep, Step, Deadline
  <2> QED BY <2>1, <2>2
<1> QED BY <1>4, <1>5

(* A daemon that ends, or goes on to close, makes no other Present; one     *)
(* that publishes was Present already, and is the only one.                 *)
LEMMA SingleDaemonStep ==
    ASSUME AllInv, SingleInv, [Next]_vars, NEW d \in Daemons, DaemonNext(d)
    PROVE  SingleInv'
<1> USE DEF AllInv
<1>1. /\ UNCHANGED <<pc, op, seen, child, result, parent>>
      /\ \A e \in Daemons : e # d => dstate'[e] = dstate[e]
      /\ dstate'[d] \in DaemonStates
  BY DEF DaemonNext, DaemonStep, Publish, BootFails, GoIdle, DaemonChecksRecord,
     DaemonUnlinks, DaemonExits, DaemonCrash, WarmUp, locals, TypeOK, ExitState, DaemonStates
<1>2. /\ Present(d)' => Present(d)
      /\ dstate'[d] = "booting" => FALSE
      /\ Present(d)' => meta' = d
  <2> USE DEF DaemonStep, Present, TypeOK, ExitState, DaemonStates, SingleInv, DaemonOK
  <2>1. CASE Publish(d)
    BY <2>1 DEF Publish
  <2>2. CASE BootFails(d)
    BY <2>2 DEF BootFails
  <2>3. CASE GoIdle(d)
    BY <2>3 DEF GoIdle
  <2>4. CASE DaemonChecksRecord(d)
    BY <2>4 DEF DaemonChecksRecord
  <2>5. CASE DaemonUnlinks(d)
    BY <2>5 DEF DaemonUnlinks
  <2>6. CASE DaemonExits(d)
    BY <2>6 DEF DaemonExits
  <2>7. CASE DaemonCrash(d)
    BY <2>7 DEF DaemonCrash
  <2>8. CASE WarmUp(d)
    BY <2>8 DEF WarmUp, disk
  <2> QED BY <2>1, <2>2, <2>3, <2>4, <2>5, <2>6, <2>7, <2>8 DEF DaemonNext
<1>3. \A e \in Daemons : Present(e)' => Present(e)
  BY <1>1, <1>2 DEF Present
<1>4. meta' = meta \/ Present(d)
  BY DEF DaemonNext, DaemonStep, Publish, BootFails, GoIdle, DaemonChecksRecord,
     DaemonUnlinks, DaemonExits, DaemonCrash, WarmUp, Present
<1>5. ASSUME NEW e \in Daemons, e # d PROVE DaemonOK(e)'
  <2>1. CASE dstate[e] = "booting"
    BY <1>1, <1>5, <2>1 DEF SingleInv, DaemonOK
  <2>2. CASE dstate[e] # "booting"
    BY <1>1, <1>4, <1>5, <2>2 DEF SingleInv, DaemonOK, AtMostOne, Present
  <2> QED BY <2>1, <2>2
<1>6. DaemonOK(d)'
  BY <1>2 DEF DaemonOK
<1>7. ASSUME NEW t \in Threads PROVE StarterOK(t)' /\ Guarded(t)'
  <2>1. StarterOK(t)'
    BY <1>1, <1>3, StarterFrame DEF SingleInv
  <2>2. lockFile' = lockFile
    BY DEF DaemonNext, DaemonStep, Publish, BootFails, GoIdle, DaemonChecksRecord,
       DaemonUnlinks, DaemonExits, DaemonCrash, WarmUp, disk
  <2> QED BY <1>1, <2>1, <2>2 DEF SingleInv, Guarded, InYield, Starting
<1>8. AtMostOne'
  BY <1>3 DEF SingleInv, AtMostOne
<1> QED BY <1>5, <1>6, <1>7, <1>8 DEF SingleInv

(* Every step keeps the one daemon, but for a slip.                         *)
LEMMA SingleStep == AllInv /\ [Next]_vars => (slips' = {} => SingleInv')
<1> SUFFICES ASSUME AllInv, [Next]_vars, slips' = {} PROVE SingleInv'
  OBVIOUS
<1> USE DEF AllInv
<1>0. SingleInv
  BY NothingSlipped
<1>1. ASSUME NEW t \in Threads, ClientStep(t) PROVE SingleInv'
  BY <1>0, <1>1, SingleClientStep
<1>2. ASSUME NEW d \in Daemons, DaemonNext(d) PROVE SingleInv'
  BY <1>0, <1>2, SingleDaemonStep
(* A client process dies: its threads go nowhere any more, and no daemon of *)
(* theirs boots; those that serve live.                                     *)
<1>3. ASSUME NEW p \in Procs, ClientCrash(p) PROVE SingleInv'
  <2>1. /\ UNCHANGED <<op, seen, child, result, meta, lockFile>>
        /\ \A t \in Threads : pc'[t] = IF ProcOf[t] = p THEN "dead" ELSE pc[t]
        /\ \A d \in Daemons : dstate'[d] = dstate[d] \/ dstate'[d] = "gone"
    BY <1>3 DEF ClientCrash, locals, disk
  <2>2. \A t \in Threads, d \in Daemons :
           ~(ProcOf[t] = p /\ child[t] = d /\ dstate[d] = "booting")
    BY <1>3 DEF ClientCrash, Slip
  <2>3. \A d \in Daemons : Present(d)' => Present(d)
    BY <2>1 DEF Present
  <2>4. ASSUME NEW d \in Daemons PROVE DaemonOK(d)'
    <3>1. ASSUME dstate'[d] = "booting"
          PROVE  \E t \in Threads : child'[t] = d /\ pc'[t] \in Waiting
      <4>1. PICK t \in Threads : child[t] = d /\ pc[t] \in Waiting
        BY <1>0, <2>1, <3>1 DEF SingleInv, DaemonOK
      <4>2. pc'[t] = pc[t]
        BY <2>1, <2>2, <3>1, <4>1
      <4> QED BY <2>1, <4>1, <4>2
    <3>2. Present(d)' /\ dstate'[d] # "booting" => meta' = d
      BY <1>0, <2>1, <2>3 DEF SingleInv, DaemonOK, Present
    <3> QED BY <3>1, <3>2 DEF DaemonOK
  <2>5. ASSUME NEW t \in Threads PROVE StarterOK(t)' /\ Guarded(t)'
    <3>1. StarterOK(t)'
      BY <1>0, <2>1, <2>3, StarterFrame DEF SingleInv
    <3>2. Guarded(t)'
      BY <1>0, <2>1 DEF SingleInv, Guarded, InYield, Starting, YieldSteps, ReleaseSteps
    <3> QED BY <3>1, <3>2
  <2>6. AtMostOne'
    BY <1>0, <2>3 DEF SingleInv, AtMostOne
  <2> QED BY <2>4, <2>5, <2>6 DEF SingleInv
<1>4. CASE Age \/ UNCHANGED vars
  <2>1. UNCHANGED <<pc, op, seen, child, result, meta, dstate, parent>>
    BY <1>4 DEF Age, vars, disk, daemons, locals
  <2>2. ASSUME NEW t \in Threads PROVE Guarded(t)'
    <3>1. lockFile # None => /\ lockFile' # None /\ lockFile'.by = lockFile.by
                             /\ lockFile.written => lockFile'.written
      <4>1. CASE Age
        BY <4>1, FileAssumption DEF Age, TypeOK, LockFiles
      <4>2. CASE UNCHANGED vars
        BY <4>2 DEF vars, disk
      <4> QED BY <1>4, <4>1, <4>2
    <3> QED BY <1>0, <2>1, <3>1 DEF SingleInv, Guarded, InYield, Starting
  <2> QED BY <1>0, <2>1, <2>2 DEF SingleInv, DaemonOK, StarterOK, AtMostOne, Present,
             Starting, Born
<1> QED BY <1>1, <1>2, <1>3, <1>4 DEF Next

(* The invariants hold together.                                            *)
LEMMA LockInvariant == Spec => []AllInv
<1>1. Init => ChildInv /\ StopInv /\ SingleInv
  BY DEF Init, ChildInv, ChildOK, StopInv, RecordIsBorn, StopOK, Starting, LockSteps,
     YieldSteps, ReleaseSteps, SingleInv, DaemonOK, StarterOK, Guarded, InYield, AtMostOne,
     Present, Waiting
<1>2. /\ TypeOK /\ ChildInv /\ [Next]_vars => ChildInv'
      /\ TypeOK /\ ChildInv /\ StopInv /\ [Next]_vars => StopInv'
      /\ AllInv /\ [Next]_vars => (slips' = {} => SingleInv')
  BY ChildStep, StopStep, SingleStep
<1>3. Init => ChildInv /\ StopInv /\ (slips = {} => SingleInv)
  BY <1>1
<1>4. TypeOK /\ ChildInv /\ StopInv /\ (slips = {} => SingleInv) /\ [Next]_vars
        => ChildInv' /\ StopInv' /\ (slips = {} => SingleInv)'
  BY <1>2 DEF AllInv
<1> QED BY <1>3, <1>4, TypeCorrect, PTL DEF Spec, AllInv

(* However starts, queries and stops of any number of processes interleave, *)
(* whatever daemons do and whatever crashes, is interrupted or gives up, no *)
(* two daemons of a root serve as long as no start.lock has been unlinked   *)
(* under a start that held it, no record after a later one was published,   *)
(* and no start was killed while its daemon booted.                         *)
THEOREM OneDaemonHolds == Spec => []OneDaemon
<1>1. AllInv => OneDaemon
  BY DEF AllInv, SingleInv, AtMostOne, Present, OneDaemon
<1> QED BY <1>1, LockInvariant, PTL

(* The record of a daemon that serves stays: neither a start, a query, a    *)
(* stop nor another daemon unlinks or replaces it, but after a slip.        *)
THEOREM ServingIsRecordedHolds == Spec => []ServingIsRecorded
<1>1. AllInv => ServingIsRecorded
  BY DEF AllInv, SingleInv, DaemonOK, Present, ServingIsRecorded
<1> QED BY <1>1, LockInvariant, PTL

(* A start that reports success has found or spawned a daemon of its own    *)
(* configuration, although the wait for readiness never compares it; but    *)
(* after a slip.                                                            *)
THEOREM OkHasConfHolds == Spec => []OkHasConf
<1>1. AllInv => OkHasConf
  BY DEF AllInv, SingleInv, StarterOK, OkHasConf
<1> QED BY <1>1, LockInvariant, PTL
=============================================================================
