--------------------------- MODULE CacheLifecycle ---------------------------
(***************************************************************************)
(* The lifecycle of the cache daemon of ONE canonical workspace root, as   *)
(* src/delphi_lsp/agent_cache.py implements it: `cache start`, `query` and *)
(* `cache stop` run by threads of several client processes, the daemons    *)
(* they spawn, and the two files they meet on, start.lock and daemon.json. *)
(*                                                                         *)
(* One action is one step other processes can fall between: one file       *)
(* system call, one probe of a pid, one exchange with a daemon.  The model *)
(* is that of POSIX: a file may be unlinked while it is open, and a daemon *)
(* that has exited keeps its pid until the process that started it reaps   *)
(* it or exits itself.  Pids are not reused.                               *)
(***************************************************************************)
EXTENDS Naturals, FiniteSets

CONSTANTS
    Threads,    \* threads that run client operations
    Procs,      \* client processes
    Daemons,    \* identities of the daemon processes that may be spawned
    Confs,      \* configurations a start may ask for
    None,       \* no thread, no daemon, no record
    Junk,       \* a daemon.json that _read_metadata rejects and whose pid is dead
    OldRecords, \* what daemon.json may be at first: None, or Junk of an old version
    ProcOf,     \* the process of a thread
    ConfOf,     \* the configuration a thread's starts ask for
    OpsOf,      \* the operations a thread may run
    Loads,      \* BOUND: how many operations the threads may run, one of these
    Faults,     \* the kinds of fault this instance allows
    MaxFaults   \* BOUND: crashes, failed exchanges, interrupts and failed writes

Ops == {"start", "query", "stop"}
FaultKinds == {"daemonCrash", "clientCrash", "startTimeout", "exchange",
               "interrupt", "slowWrite", "writeFails"}

LockFiles == [by : Threads, written : BOOLEAN, old : BOOLEAN]

ASSUME ThreadsAssumption == /\ ProcOf \in [Threads -> Procs]
                            /\ ConfOf \in [Threads -> Confs]
                            /\ OpsOf \in [Threads -> SUBSET Ops]
ASSUME NullAssumption    == /\ None \notin Threads \cup Daemons
                            /\ Junk \notin Daemons \cup {None}
                            /\ OldRecords \subseteq {None, Junk}
ASSUME FileAssumption    == None \notin LockFiles
ASSUME BoundAssumption   == Loads \subseteq [Threads -> Nat] /\ MaxFaults \in Nat
ASSUME FaultAssumption   == Faults \subseteq FaultKinds

VARIABLES
    procAlive,  \* the client processes that run
    mutexOf,    \* _PROCESS_START_LOCKS: the mutex a process has registered for the root ...
    users,      \* ... and its user count, kept as the set of threads it counts
    lockFile,   \* start.lock
    meta,       \* daemon.json
    dstate,     \* what each daemon process is doing
    warming,    \* the daemons that have not ended their warm-up
    parent,     \* the thread that spawned a daemon
    pc,         \* the next step of a thread
    op,         \* the operation a thread runs, or ran last
    mutex,      \* local: the mutex the thread took from _PROCESS_START_LOCKS
    seen,       \* local: the daemon named by the record the thread read last
    child,      \* local: the daemon a start has spawned
    aged,       \* local: the age of start.lock, measured before its record is read
    result,     \* how the thread's last operation ended
    done,       \* operations a thread has begun
    faults,     \* faults so far
    slips       \* history: what has undone the locks so far, see SlipKinds

disk    == <<lockFile, meta>>
daemons == <<dstate, warming, parent>>
locals  == <<op, mutex, seen, child, aged, result, done>>
registry == <<mutexOf, users>>
vars == <<procAlive, registry, disk, daemons, pc, locals, faults, slips>>

DaemonStates == {"unborn", "booting", "serving", "closing", "removing",
                 "leaving", "zombie", "gone"}
Results == {"none", "ok", "startup_locked", "unavailable", "conflict",
            "startup_failed", "interrupted", "write_failed",
            "not_running", "cache_failed", "stopped", "stop_failed"}

(* The three ways the locks come to nothing.  A start.lock is unlinked that *)
(* a start holds; a daemon.json is unlinked that was published after the    *)
(* one that was judged; a start dies while the daemon it spawned boots.     *)
SlipKinds == {"lock taken", "record taken", "start killed"}

(* Where a start holds the mutex of its process, and where it believes it  *)
(* also holds start.lock: the `yield` of _start_lock, which runs           *)
(* _start_cache_unlocked, and the clean-up that follows it.                *)
LockSteps    == {"create", "record", "stat", "inspect", "steal", "wait"}
YieldSteps   == {"read", "alive", "exists", "raw", "owned", "unlink", "exchange",
                 "spawn", "loop", "probe", "poll", "reap", "reread"}
ReleaseSteps == {"release", "unlock"}
PCs == LockSteps \cup YieldSteps \cup ReleaseSteps
         \cup {"idle", "acquire", "leave", "forget", "waitexit", "dead"}

Running == {"booting", "serving", "closing", "removing", "leaving"}
Exited(d)   == dstate[d] \in {"zombie", "gone"}
PidAlive(d) == dstate[d] \in Running \cup {"zombie"}
ThreadAlive(t) == procAlive[ProcOf[t]]

Starting(t) == op[t] = "start"
InYield(t)  == Starting(t) /\ pc[t] \in YieldSteps \cup ReleaseSteps
HoldsMutex(t) == Starting(t) /\ pc[t] \in LockSteps \cup YieldSteps
                                           \cup ReleaseSteps \cup {"leave"}
UsesMutex(t)  == HoldsMutex(t) \/ (Starting(t) /\ pc[t] \in {"acquire", "forget"})

Goto(t, l) == pc' = [pc EXCEPT ![t] = l]
At(t, l)   == pc[t] = l
(* The caller of the step goes on: a start to release its locks, a query   *)
(* or a stop to its caller.                                                *)
End(t, r) == /\ result' = [result EXCEPT ![t] = r]
             /\ Goto(t, IF Starting(t) THEN "release" ELSE "idle")

CanFault(f) == f \in Faults /\ faults < MaxFaults
CountFault  == faults' = faults + 1
Slip(kind, happens) == slips' = IF happens THEN slips \cup {kind} ELSE slips

Init ==
    /\ procAlive = [p \in Procs |-> TRUE]
    /\ mutexOf = [p \in Procs |-> None]
    /\ users = [p \in Procs |-> {}]
    /\ lockFile = None
    /\ meta \in OldRecords
    /\ dstate = [d \in Daemons |-> "unborn"]
    /\ warming = Daemons
    /\ parent = [d \in Daemons |-> None]
    /\ pc = [t \in Threads |-> "idle"]
    /\ op = [t \in Threads |-> "query"]
    /\ mutex = [t \in Threads |-> None]
    /\ seen = [t \in Threads |-> None]
    /\ child = [t \in Threads |-> None]
    /\ aged = [t \in Threads |-> FALSE]
    /\ result = [t \in Threads |-> "none"]
    /\ done = [t \in Threads |-> 0]
    /\ faults = 0
    /\ slips = {}

-----------------------------------------------------------------------------
(* A client operation begins.                                               *)
Begin(t, o) ==
    /\ At(t, "idle") /\ o \in OpsOf[t]
    /\ \E load \in Loads : done[t] < load[t] /\ \A u \in Threads : done[u] <= load[u]
    /\ op' = [op EXCEPT ![t] = o]
    /\ seen' = [seen EXCEPT ![t] = None]
    /\ child' = [child EXCEPT ![t] = None]
    /\ aged' = [aged EXCEPT ![t] = FALSE]
    /\ result' = [result EXCEPT ![t] = "none"]
    /\ done' = [done EXCEPT ![t] = @ + 1]
    /\ UNCHANGED <<procAlive, slips, disk, daemons, faults>>

BeginQuery(t) ==
    /\ \E o \in {"query", "stop"} : Begin(t, o)
    /\ Goto(t, "read")
    /\ UNCHANGED <<registry, mutex>>

(* A start first registers as a user of its process's mutex for the root,   *)
(* creating the mutex (known by its creator) if there is none.              *)
RegisteredMutex(t) == IF mutexOf[ProcOf[t]] = None THEN t ELSE mutexOf[ProcOf[t]]

BeginStart(t) ==
    /\ Begin(t, "start")
    /\ mutexOf' = [mutexOf EXCEPT ![ProcOf[t]] = RegisteredMutex(t)]
    /\ users' = [users EXCEPT ![ProcOf[t]] = @ \cup {t}]
    /\ mutex' = [mutex EXCEPT ![t] = RegisteredMutex(t)]
    /\ Goto(t, "acquire")

(* `with lock:` of _process_start_lock; it has no timeout.                  *)
Acquire(t) ==
    /\ At(t, "acquire")
    /\ \A u \in Threads : HoldsMutex(u) => mutex[u] # mutex[t]
    /\ Goto(t, "create")
    /\ UNCHANGED <<procAlive, slips, registry, disk, daemons, locals, faults>>

(* os.open(O_CREAT | O_EXCL) of start.lock.                                 *)
(* A bug the properties catch: without O_EXCL a lock of another is no lock. *)
CreateOrTake(t) ==
    /\ At(t, "create")
    /\ lockFile' = [by |-> t, written |-> FALSE, old |-> FALSE]
    /\ Goto(t, "record")
    /\ UNCHANGED <<procAlive, slips, registry, meta, daemons, locals, faults>>

Create(t) ==
    /\ At(t, "create")
    /\ IF lockFile = None
       THEN /\ lockFile' = [by |-> t, written |-> FALSE, old |-> FALSE]
            /\ Goto(t, "record")
       ELSE UNCHANGED lockFile /\ Goto(t, "stat")
    /\ UNCHANGED <<procAlive, slips, registry, meta, daemons, locals, faults>>

(* The record goes through the descriptor: if the path was unlinked (and    *)
(* perhaps created again by another thread) the record is written to no     *)
(* file that anyone can read.                                               *)
Record(t) ==
    /\ At(t, "record")
    /\ lockFile' = IF lockFile # None /\ lockFile.by = t
                   THEN [lockFile EXCEPT !.written = TRUE] ELSE lockFile
    /\ Goto(t, "read")
    /\ UNCHANGED <<procAlive, slips, registry, meta, daemons, locals, faults>>

(* os.write or os.fsync raises: the empty start.lock stays behind.          *)
RecordFails(t) ==
    /\ At(t, "record") /\ CanFault("writeFails") /\ CountFault
    /\ result' = [result EXCEPT ![t] = "write_failed"]
    /\ Goto(t, "leave")
    /\ UNCHANGED <<procAlive, slips, registry, disk, daemons, op, mutex, seen, child, aged, done>>

-----------------------------------------------------------------------------
(* _start_lock_is_stale, called when start.lock exists.                     *)

Stat(t) ==
    /\ At(t, "stat")
    /\ IF lockFile = None
       THEN UNCHANGED aged /\ Goto(t, "steal")
       ELSE aged' = [aged EXCEPT ![t] = lockFile.old] /\ Goto(t, "inspect")
    /\ UNCHANGED <<procAlive, slips, registry, disk, daemons, op, mutex, seen, child,
                   result, done, faults>>

OwnerDead(f) == ~procAlive[ProcOf[f.by]]

(* A bug the properties catch: only the age of a lock makes it stale.       *)
StaleByAgeOnly(t) == aged[t]

LockIsStale(t) ==
    IF lockFile # None /\ lockFile.written THEN OwnerDead(lockFile) ELSE aged[t]

Inspect(t) ==
    /\ At(t, "inspect")
    /\ Goto(t, IF LockIsStale(t) THEN "steal" ELSE "wait")
    /\ aged' = [aged EXCEPT ![t] = FALSE]
    /\ UNCHANGED <<procAlive, slips, registry, disk, daemons, op, mutex, seen, child,
                   result, done, faults>>

(* path.unlink() of whatever start.lock is there now, then try again: the   *)
(* deadline is not looked at on this branch.                                *)
LockIsHeld == lockFile # None /\ (pc[lockFile.by] = "record" \/ InYield(lockFile.by))

Steal(t) ==
    /\ At(t, "steal")
    /\ lockFile' = None /\ Slip("lock taken", LockIsHeld)
    /\ Goto(t, "create")
    /\ UNCHANGED <<procAlive, registry, meta, daemons, locals, faults>>

Sleep(t) ==
    /\ At(t, "wait")
    /\ Goto(t, "create")
    /\ UNCHANGED <<procAlive, slips, registry, disk, daemons, locals, faults>>

LockDeadline(t) ==
    /\ At(t, "wait")
    /\ result' = [result EXCEPT ![t] = "startup_locked"]
    /\ Goto(t, "leave")
    /\ UNCHANGED <<procAlive, slips, registry, disk, daemons, op, mutex, seen, child, aged,
                   done, faults>>

-----------------------------------------------------------------------------
(* Reading daemon.json.  Every operation begins with it.                    *)

RecordedDaemon == IF meta \in Daemons THEN meta ELSE None

ReadMeta(t) ==
    /\ At(t, "read")
    /\ seen' = [seen EXCEPT ![t] = RecordedDaemon]
    /\ Goto(t, IF RecordedDaemon = None THEN "exists" ELSE "alive")
    /\ UNCHANGED <<procAlive, slips, registry, disk, daemons, op, mutex, child, aged, result,
                   done, faults>>

CheckPid(t) ==
    /\ At(t, "alive")
    /\ Goto(t, IF PidAlive(seen[t]) THEN "exchange" ELSE "owned")
    /\ UNCHANGED <<procAlive, slips, registry, disk, daemons, locals, faults>>

(* How an operation goes on when the record it read is out of the way.      *)
AfterCleanup(t) ==
    \/ /\ op[t] = "start" /\ child[t] = None
       /\ Goto(t, "spawn") /\ UNCHANGED result
    \/ op[t] = "start" /\ child[t] # None /\ End(t, "startup_failed")
    \/ op[t] = "query" /\ End(t, "not_running")
    \/ op[t] = "stop" /\ End(t, "stopped")

(* _remove_metadata_if_owned: read the record again and compare it ...      *)
CheckOwned(t) ==
    /\ At(t, "owned")
    /\ IF meta = seen[t] THEN Goto(t, "unlink") /\ UNCHANGED result
                         ELSE AfterCleanup(t)
    /\ UNCHANGED <<procAlive, slips, registry, disk, daemons, op, mutex, seen, child, aged,
                   done, faults>>

(* ... then unlink the path, whatever it names by now.                      *)
UnlinkMeta(t) ==
    /\ At(t, "unlink")
    /\ meta' = None /\ Slip("record taken", meta \in Daemons \ {seen[t]})
    /\ AfterCleanup(t)
    /\ UNCHANGED <<procAlive, registry, lockFile, daemons, op, mutex, seen, child, aged,
                   done, faults>>

(* _remove_incompatible_metadata_if_stale, which reads the record again.    *)
CheckExists(t) ==
    /\ At(t, "exists")
    /\ IF meta = None THEN AfterCleanup(t) ELSE Goto(t, "raw") /\ UNCHANGED result
    /\ UNCHANGED <<procAlive, slips, registry, disk, daemons, op, mutex, seen, child, aged,
                   done, faults>>

ReadRaw(t) ==
    /\ At(t, "raw")
    /\ seen' = [seen EXCEPT ![t] = RecordedDaemon]
    /\ IF RecordedDaemon # None /\ PidAlive(RecordedDaemon)
       THEN End(t, "unavailable")
       ELSE Goto(t, "unlink") /\ UNCHANGED result
    /\ UNCHANGED <<procAlive, slips, registry, disk, daemons, op, mutex, child, aged,
                   done, faults>>

-----------------------------------------------------------------------------
(* _client_exchange with a daemon whose pid was alive.  A serving daemon    *)
(* answers; one that has shut down, or a serving one that is out of         *)
(* connection slots or too slow ("exchange" fault), does not.               *)

Answers(t)    == dstate[seen[t]] = "serving"
GivesUp(t) == \/ ~Answers(t) /\ UNCHANGED faults
              \/ Answers(t) /\ CanFault("exchange") /\ CountFault

(* A bug the properties catch: the live daemon's configuration is ignored.  *)
ProbeWithoutConf(t) ==
    /\ At(t, "exchange") /\ Starting(t)
    /\ \/ Answers(t) /\ UNCHANGED faults /\ End(t, "ok")
       \/ GivesUp(t) /\ End(t, "unavailable")
    /\ UNCHANGED <<procAlive, slips, registry, disk, daemons, op, mutex, seen, child, aged, done>>

ProbeExisting(t) ==
    /\ At(t, "exchange") /\ Starting(t)
    /\ \/ /\ Answers(t) /\ UNCHANGED faults
          /\ End(t, IF ConfOf[parent[seen[t]]] = ConfOf[t] THEN "ok" ELSE "conflict")
       \/ GivesUp(t) /\ End(t, "unavailable")
    /\ UNCHANGED <<procAlive, slips, registry, disk, daemons, op, mutex, seen, child, aged, done>>

(* A query asks again, without a deadline, while the cache is warming;      *)
(* afterwards it has its answer, or hears that the warm-up failed.  (That   *)
(* of `cache status` is answered at once, as if the cache were warm.)       *)
IsWarming(t) == Answers(t) /\ seen[t] \in warming

Query(t) ==
    /\ At(t, "exchange") /\ op[t] = "query"
    /\ \/ /\ Answers(t) /\ UNCHANGED faults
          /\ IF IsWarming(t) THEN UNCHANGED <<pc, result>>
             ELSE End(t, "ok") \/ End(t, "cache_failed")
       \/ GivesUp(t) /\ End(t, "unavailable")
    /\ UNCHANGED <<procAlive, slips, registry, disk, daemons, op, mutex, seen, child, aged, done>>

(* The stop request sets service.shutdown; its failure is ignored.          *)
SendStop(t) ==
    /\ At(t, "exchange") /\ op[t] = "stop"
    /\ \/ /\ Answers(t) /\ UNCHANGED faults
          /\ dstate' = [dstate EXCEPT ![seen[t]] = "closing"]
       \/ GivesUp(t) /\ UNCHANGED dstate
    /\ Goto(t, "waitexit")
    /\ UNCHANGED <<procAlive, slips, registry, disk, warming, parent, locals>>

(* stop_cache polls: reap the daemon if it is a child of this process, or   *)
(* see that its pid is gone.                                                *)
OwnChild(t, d) == ProcOf[parent[d]] = ProcOf[t]

AwaitExit(t) ==
    /\ At(t, "waitexit")
    /\ LET d == seen[t]
       IN  /\ ~PidAlive(d) \/ (dstate[d] = "zombie" /\ OwnChild(t, d))
           /\ dstate' = [dstate EXCEPT ![d] = "gone"]
    /\ Goto(t, "owned")
    /\ UNCHANGED <<procAlive, slips, registry, disk, warming, parent, locals, faults>>

(* A bug the properties catch: the pid is not checked again at the deadline. *)
StopWithoutRecheck(t) ==
    /\ At(t, "waitexit") /\ Goto(t, "owned")
    /\ UNCHANGED <<procAlive, slips, registry, disk, daemons, locals, faults>>

StopDeadline(t) ==
    /\ At(t, "waitexit")
    /\ IF PidAlive(seen[t]) THEN End(t, "stop_failed")
                            ELSE Goto(t, "owned") /\ UNCHANGED result
    /\ UNCHANGED <<procAlive, slips, registry, disk, daemons, op, mutex, seen, child, aged,
                   done, faults>>

-----------------------------------------------------------------------------
(* _start_cache_unlocked after the old record is out of the way.            *)

(* subprocess.Popen; it first reaps what is left of this process's earlier  *)
(* children.  Daemons is a bound on the daemons spawned.                    *)
Spawn(t) ==
    /\ At(t, "spawn")
    /\ \E d \in Daemons :
        /\ dstate[d] = "unborn"
        /\ dstate' = [e \in Daemons |->
                        IF e = d THEN "booting"
                        ELSE IF dstate[e] = "zombie" /\ OwnChild(t, e) THEN "gone"
                        ELSE dstate[e]]
        /\ parent' = [parent EXCEPT ![d] = t]
        /\ child' = [child EXCEPT ![t] = d]
    /\ Goto(t, "loop")
    /\ UNCHANGED <<procAlive, slips, registry, disk, warming, op, mutex, seen, aged, result, done, faults>>

(* One turn of the wait for readiness: read whatever record is there ...    *)
Look(t) ==
    /\ At(t, "loop")
    /\ seen' = [seen EXCEPT ![t] = RecordedDaemon]
    /\ Goto(t, IF RecordedDaemon = None THEN "poll" ELSE "probe")
    /\ UNCHANGED <<procAlive, slips, registry, disk, daemons, op, mutex, child, aged, result,
                   done, faults>>

(* ... ask the daemon it names, whichever that is ...                       *)
ProbeReady(t) ==
    /\ At(t, "probe")
    /\ \/ Answers(t) /\ UNCHANGED faults /\ End(t, "ok")
       \/ GivesUp(t) /\ Goto(t, "poll") /\ UNCHANGED result
    /\ UNCHANGED <<procAlive, slips, registry, disk, daemons, op, mutex, seen, child, aged, done>>

(* ... and see whether the child is still there (process.poll reaps it).    *)
Poll(t) ==
    /\ At(t, "poll")
    /\ IF Exited(child[t])
       THEN dstate' = [dstate EXCEPT ![child[t]] = "gone"] /\ Goto(t, "reap")
       ELSE UNCHANGED dstate /\ Goto(t, "loop")
    /\ UNCHANGED <<procAlive, slips, registry, disk, warming, parent, locals, faults>>

(* A bug the properties catch: the deadline counts once the child exited.   *)
DeadlineAfterExit(t) ==
    /\ At(t, "loop") /\ "startTimeout" \in Faults /\ Exited(child[t])
    /\ Goto(t, "reap")
    /\ UNCHANGED <<procAlive, slips, registry, disk, daemons, locals, faults>>

StartDeadline(t) ==
    /\ At(t, "loop") /\ "startTimeout" \in Faults
    /\ Goto(t, "reap")
    /\ UNCHANGED <<procAlive, slips, registry, disk, daemons, locals, faults>>

(* A bug the properties catch: a start that gives up kills nothing.         *)
KillNothing(t) == UNCHANGED dstate

(* process.kill() unless it has exited, and process.wait().                 *)
KillChild(t) == dstate' = [dstate EXCEPT ![child[t]] = "gone"]

Reap(t) ==
    /\ At(t, "reap")
    /\ KillChild(t)
    /\ Goto(t, "reread")
    /\ UNCHANGED <<procAlive, slips, registry, disk, warming, parent, locals, faults>>

(* A bug the properties catch: the record of the killed child stays.        *)
ReReadWithoutCleanup(t) ==
    /\ At(t, "reread")
    /\ seen' = [seen EXCEPT ![t] = RecordedDaemon]
    /\ End(t, "startup_failed")
    /\ UNCHANGED <<procAlive, slips, registry, disk, daemons, op, mutex, child, aged, done, faults>>

ReRead(t) ==
    /\ At(t, "reread")
    /\ seen' = [seen EXCEPT ![t] = RecordedDaemon]
    /\ IF RecordedDaemon = child[t] THEN Goto(t, "owned") /\ UNCHANGED result
                                    ELSE End(t, "startup_failed")
    /\ UNCHANGED <<procAlive, slips, registry, disk, daemons, op, mutex, child, aged, done, faults>>

(* An exception that is no CacheClientError (a KeyboardInterrupt, say)      *)
(* leaves the wait through its `finally`: the child is killed and reaped,   *)
(* its record, if it has published one, stays.                              *)
Interrupt(t) ==
    /\ pc[t] \in {"loop", "probe", "poll"}
    /\ CanFault("interrupt") /\ CountFault
    /\ KillChild(t)
    /\ End(t, "interrupted")
    /\ UNCHANGED <<procAlive, slips, registry, disk, warming, parent, op, mutex, seen, child, aged, done>>

-----------------------------------------------------------------------------
(* Leaving: _start_lock compares the token, then unlinks the path;          *)
(* _process_start_lock releases the mutex, then forgets it when the last    *)
(* user leaves.                                                             *)

Release(t) ==
    /\ At(t, "release")
    /\ LET mine == lockFile # None /\ lockFile.by = t /\ lockFile.written
       IN  Goto(t, IF mine THEN "unlock" ELSE "leave")
    /\ UNCHANGED <<procAlive, slips, registry, disk, daemons, locals, faults>>

Unlock(t) ==
    /\ At(t, "unlock")
    /\ lockFile' = None
    /\ Goto(t, "leave")
    /\ UNCHANGED <<procAlive, slips, registry, meta, daemons, locals, faults>>

Leave(t) ==
    /\ At(t, "leave")
    /\ Goto(t, "forget")
    /\ UNCHANGED <<procAlive, slips, registry, disk, daemons, locals, faults>>

(* A bug the properties catch: whoever leaves first forgets the mutex.      *)
ForgetAtOnce(t) ==
    /\ At(t, "forget")
    /\ mutexOf' = [mutexOf EXCEPT ![ProcOf[t]] = None]
    /\ users' = [users EXCEPT ![ProcOf[t]] = @ \ {t}]
    /\ Goto(t, "idle")
    /\ UNCHANGED <<procAlive, slips, disk, daemons, locals, faults>>

Forget(t) ==
    /\ At(t, "forget")
    /\ LET p == ProcOf[t]
       IN  /\ mutexOf' = IF users[p] = {t} THEN [mutexOf EXCEPT ![p] = None] ELSE mutexOf
           /\ users' = [users EXCEPT ![p] = @ \ {t}]
    /\ Goto(t, "idle")
    /\ UNCHANGED <<procAlive, slips, disk, daemons, locals, faults>>

-----------------------------------------------------------------------------
(* run_cache_daemon.                                                        *)

(* The exit of a daemon is a zombie until the process that spawned it reaps *)
(* it; with that process gone, init reaps it at once.                       *)
ExitState(d) == IF procAlive[ProcOf[parent[d]]] THEN "zombie" ELSE "gone"
DaemonStep(d, from, to) ==
    /\ dstate[d] = from
    /\ dstate' = [dstate EXCEPT ![d] = to]
    /\ UNCHANGED <<procAlive, registry, lockFile, warming, parent, pc, locals>>

(* The listener is bound and the service built; then the record appears at  *)
(* once (os.replace) and the accept loop begins.                            *)
Publish(d)  == DaemonStep(d, "booting", "serving") /\ meta' = d /\ UNCHANGED <<faults, slips>>
BootFails(d) == DaemonStep(d, "booting", ExitState(d)) /\ UNCHANGED <<meta, faults, slips>>
(* The accept loop ends when idle_timeout has passed without a request.     *)
GoIdle(d)   == DaemonStep(d, "serving", "closing") /\ UNCHANGED <<meta, faults, slips>>
(* The `finally`: drain the pool, then remove the record if it is owned.    *)
DaemonChecksRecord(d) ==
    /\ DaemonStep(d, "closing", IF meta = d THEN "removing" ELSE "leaving")
    /\ UNCHANGED <<meta, faults, slips>>
DaemonUnlinks(d) ==
    /\ DaemonStep(d, "removing", "leaving") /\ meta' = None
    /\ Slip("record taken", meta \in Daemons \ {d}) /\ UNCHANGED faults
DaemonExits(d) == DaemonStep(d, "leaving", ExitState(d)) /\ UNCHANGED <<meta, faults, slips>>

DaemonCrash(d) ==
    /\ dstate[d] \in Running /\ CanFault("daemonCrash") /\ CountFault
    /\ DaemonStep(d, dstate[d], ExitState(d))
    /\ UNCHANGED <<meta, slips>>

(* The thread of start_prewarm ends, with or without an error.              *)
WarmUp(d) ==
    /\ dstate[d] = "serving" /\ d \in warming
    /\ warming' = warming \ {d}
    /\ UNCHANGED <<procAlive, slips, registry, disk, dstate, parent, pc, locals, faults>>

-----------------------------------------------------------------------------
(* The environment.                                                         *)

(* A client process dies with all its threads; its daemons run in sessions  *)
(* of their own and live on.                                                *)
ClientCrash(p) ==
    /\ procAlive[p] /\ CanFault("clientCrash") /\ CountFault
    /\ \E t \in Threads : ProcOf[t] = p /\ pc[t] # "idle"
    /\ procAlive' = [procAlive EXCEPT ![p] = FALSE]
    /\ pc' = [t \in Threads |-> IF ProcOf[t] = p THEN "dead" ELSE pc[t]]
    /\ dstate' = [d \in Daemons |->
                    IF dstate[d] = "zombie" /\ ProcOf[parent[d]] = p
                    THEN "gone" ELSE dstate[d]]
    /\ Slip("start killed", \E t \in Threads, d \in Daemons :
               ProcOf[t] = p /\ child[t] = d /\ dstate[d] = "booting")
    /\ UNCHANGED <<registry, disk, warming, parent, locals>>

(* start.lock stays without a record for the grace of one second: its owner *)
(* died or failed, or (a "slowWrite" fault) is just slow.                   *)
Age ==
    /\ lockFile # None
    /\ ~lockFile.written /\ ~lockFile.old
    /\ \/ OwnerDead(lockFile)
       \/ pc[lockFile.by] # "record"
       \/ "slowWrite" \in Faults
    /\ lockFile' = [lockFile EXCEPT !.old = TRUE]
    /\ UNCHANGED <<procAlive, slips, registry, meta, daemons, pc, locals, faults>>

-----------------------------------------------------------------------------
Deadline(t) == LockDeadline(t) \/ StartDeadline(t) \/ StopDeadline(t)

(* What a thread does when it is scheduled; Begin and the faults apart.     *)
Step(t) ==
    \/ Acquire(t) \/ Create(t) \/ Record(t) \/ Stat(t) \/ Inspect(t) \/ Steal(t)
    \/ Sleep(t) \/ ReadMeta(t) \/ CheckPid(t) \/ CheckOwned(t) \/ UnlinkMeta(t)
    \/ CheckExists(t) \/ ReadRaw(t) \/ ProbeExisting(t) \/ Query(t) \/ SendStop(t)
    \/ AwaitExit(t) \/ Spawn(t) \/ Look(t) \/ ProbeReady(t) \/ Poll(t) \/ Reap(t)
    \/ ReRead(t) \/ Release(t) \/ Unlock(t) \/ Leave(t) \/ Forget(t)

ClientStep(t) == BeginStart(t) \/ BeginQuery(t) \/ Step(t) \/ Deadline(t)
                 \/ RecordFails(t) \/ Interrupt(t)

DaemonNext(d) == \/ Publish(d) \/ BootFails(d) \/ GoIdle(d) \/ DaemonChecksRecord(d)
                 \/ DaemonUnlinks(d) \/ DaemonExits(d) \/ DaemonCrash(d) \/ WarmUp(d)

Next == \/ \E t \in Threads : ClientStep(t)
        \/ \E d \in Daemons : DaemonNext(d)
        \/ \E p \in Procs : ClientCrash(p)
        \/ Age

Spec == Init /\ [][Next]_vars

(* A running client is scheduled, and its clock passes every deadline it    *)
(* keeps looking at.  Nothing is assumed of a daemon: it may hang.          *)
Fairness == /\ \A t \in Threads : WF_vars(Step(t))
            /\ \A t \in Threads : SF_vars(Deadline(t))
            /\ WF_vars(Age)
FairSpec == Spec /\ Fairness

-----------------------------------------------------------------------------
(* Properties.                                                              *)

(* Every variable stays in its domain; a thread past Popen has a child and  *)
(* a spawned daemon has a parent.                                           *)
TypeOK ==
    /\ procAlive \in [Procs -> BOOLEAN]
    /\ mutexOf \in [Procs -> Threads \cup {None}]
    /\ users \in [Procs -> SUBSET Threads]
    /\ lockFile \in LockFiles \cup {None}
    /\ meta \in Daemons \cup {None, Junk}
    /\ dstate \in [Daemons -> DaemonStates]
    /\ warming \subseteq Daemons
    /\ parent \in [Daemons -> Threads \cup {None}]
    /\ pc \in [Threads -> PCs]
    /\ op \in [Threads -> Ops]
    /\ mutex \in [Threads -> Threads \cup {None}]
    /\ seen \in [Threads -> Daemons \cup {None}]
    /\ child \in [Threads -> Daemons \cup {None}]
    /\ aged \in [Threads -> BOOLEAN]
    /\ result \in [Threads -> Results]
    /\ done \in [Threads -> Nat]
    /\ faults \in 0..MaxFaults
    /\ slips \subseteq SlipKinds

(* Two threads of one process are never both inside the yield of            *)
(* _start_lock, whatever happens to start.lock: _PROCESS_START_LOCKS keeps  *)
(* one mutex per root for as long as any thread uses it.                    *)
ProcessExclusion ==
    \A t, u \in Threads :
        t # u /\ ProcOf[t] = ProcOf[u] => ~(InYield(t) /\ InYield(u))

(* The `cache` commands manage one daemon per root: whatever processes      *)
(* start, query and stop, and whatever crashes or fails, no two daemons     *)
(* serve unless a slip came before.                                         *)
OneDaemon ==
    slips = {} =>
        \A d, e \in Daemons : dstate[d] = "serving" /\ dstate[e] = "serving" => d = e

(* A serving daemon can be found: nobody has unlinked or replaced the       *)
(* record it published, so query and stop reach it, unless after a slip.    *)
ServingIsRecorded ==
    slips = {} => \A d \in Daemons : dstate[d] = "serving" => meta = d

(* A start that reports success returned a daemon with the configuration it *)
(* asked for, although the wait for readiness accepts any record and        *)
(* compares no configuration; but for a slip.                               *)
OkHasConf ==
    slips = {} =>
        \A t \in Threads :
            Starting(t) /\ result[t] = "ok" => ConfOf[parent[seen[t]]] = ConfOf[t]

(* A start that fails after Popen leaves no orphan: its child has exited,   *)
(* and after startup_failed no record names it either.                      *)
FailedStartLeavesNothing ==
    \A t \in Threads :
        /\ result[t] \in {"startup_failed", "interrupted"} => Exited(child[t])
        /\ result[t] = "startup_failed" => meta # child[t]

(* `cache stop` reports success only when the daemon it found has exited    *)
(* and its record is gone.                                                  *)
StoppedIsGone ==
    \A t \in Threads :
        result[t] = "stopped" /\ seen[t] # None => Exited(seen[t]) /\ meta # seen[t]

(* Every start and stop ends, whatever crashes or hangs around it: each of  *)
(* their waits has a deadline, and every holder releases.  A query ends,    *)
(* too, or polls a daemon that answers and has not ended its warm-up, and   *)
(* when that ends, or the daemon does, so does the query.                   *)
Polling(t) == At(t, "exchange") /\ op[t] = "query" /\ IsWarming(t)
OperationEnds ==
    \A t \in Threads : pc[t] # "idle" ~> pc[t] \in {"idle", "dead"} \/ Polling(t)

LeftBehind == lockFile # None /\ lockFile.written /\ OwnerDead(lockFile)

(* The start.lock of a process that crashed holding it is taken over by the *)
(* next start that meets it, and does not lock the root for good.           *)
CrashedHolderIsReplaced ==
    \A t \in Threads :
        pc[t] = "create" /\ LeftBehind ~> pc[t] = "dead" \/ ~LeftBehind
=============================================================================
