-------------------------- MODULE CacheServiceProofs --------------------------
(***************************************************************************)
(* What TLAPS proves of the cache service for any number of request        *)
(* threads, projects and edits.                                            *)
(***************************************************************************)
EXTENDS CacheService, TLAPS

USE ThreadAssumption, ProjectAssumption, TargetAssumption, VersionAssumption, KindAssumption

-----------------------------------------------------------------------------
(* When the context exists: before the prewarm thread has opened it nothing *)
(* can be asked of it and the watcher is silent; afterwards it always has a *)
(* project.                                                                 *)
OpenedInv ==
    /\ opened <=> project # None
    /\ state \notin {"warming", "failed"} => opened
    /\ watcher # "waiting" => opened
    /\ invalidated => opened
    /\ \A w \in Workers : pc[w] # "idle" => opened
    /\ pc[Prewarmer] \in {"refresh", "scan", "apply", "handle", "budget"} => opened
    /\ pc[Prewarmer] \in {"lock", "open"} => ~opened

(* The clauses of TypeOK by what they are about.                            *)
TypeOfSources ==
    /\ disk \in Versions /\ notified \in Versions /\ lastRev \in Versions
    /\ lapsed \in BOOLEAN /\ result \in BOOLEAN /\ opened \in BOOLEAN /\ pending \in BOOLEAN
    /\ invalidated \in BOOLEAN
    /\ watcher \in {"waiting", "watching", "dying", "failed"}
    /\ state \in {"warming", "warm", "ready", "compact", "failed"}
TypeOfCaches ==
    /\ project \in Projects \cup {None}
    /\ registry \in Registries \cup {None}
    /\ DOMAIN prepared \subseteq Keys
    /\ \A k \in DOMAIN prepared : prepared[k] \in Bodies
    /\ focus \in Focuses
TypeOfThreads ==
    /\ pc \in [Threads -> {"idle", "watch", "lock", "open", "refresh", "scan", "apply",
                           "handle", "budget"}]
    /\ req \in [Threads -> Requests \cup {Prewarm}]
    /\ must \in [Threads -> Versions] /\ rev \in [Threads -> Versions]
    /\ reply \in [Threads -> Replies \cup {None}]
LockHeld == \A t \in Threads : pc[t] \notin {"idle", "watch", "lock"} <=> lock = t

(* TypeOK is these clauses.                                                 *)
LEMMA TypeParts == TypeOK <=> TypeOfSources /\ TypeOfCaches /\ TypeOfThreads /\ LockHeld
  BY DEF TypeOK, TypeOfSources, TypeOfCaches, TypeOfThreads, LockHeld

TypeInv == TypeOfSources /\ TypeOfCaches /\ TypeOfThreads /\ LockHeld

(* A call that returns leaves its locals typed and holds no lock.           *)
LEMMA ReturnTyped ==
    ASSUME TypeOfThreads, NEW t \in Threads, Return(t)
    PROVE  TypeOfThreads'
  BY DEF TypeOfThreads, Return, Goto, Versions
(* A call that returns and gives the lock back leaves it free.              *)
LEMMA ReturnUnlocks ==
    ASSUME TypeOfThreads, LockHeld, NEW t \in Threads, Return(t), lock = t, lock' = None
    PROVE  LockHeld'
<1>1. /\ pc'[t] = "idle" /\ \A u \in Threads : u # t => pc'[u] = pc[u]
  BY DEF Return, Goto, TypeOfThreads
<1>2. None \notin Threads
  BY DEF Threads
<1> QED BY <1>1, <1>2 DEF LockHeld

(* A step within the locked part of a call keeps the lock where it is.      *)
LEMMA LockStays ==
    ASSUME TypeOfThreads, LockHeld, NEW t \in Threads, NEW l, Goto(t, l), lock' = lock,
           pc[t] \in {"idle", "watch", "lock"} <=> l \in {"idle", "watch", "lock"}
    PROVE  LockHeld'
<1>1. /\ pc'[t] = l /\ \A u \in Threads : u # t => pc'[u] = pc[u]
  BY DEF Goto, TypeOfThreads
<1> QED BY <1>1 DEF LockHeld

(* Keys and replies are typed when a worker responds.                       *)
LEMMA RespondTyped ==
    ASSUME TypeInv, NEW w \in Workers, NEW body \in Bodies, NEW f \in Focuses,
           Respond(w, body, f), req[w].kind \in Kinds, req[w] \in Requests, project \in Projects
    PROVE  TypeOfCaches' /\ TypeOfThreads'
<1>1. w \in Threads
  BY DEF Threads
<1>2. Key(w) \in Keys
  BY <1>1 DEF Key, Keys, TypeInv, TypeOfThreads
<1> DEFINE b == IF Key(w) \in DOMAIN prepared THEN prepared[Key(w)] ELSE body
           r == [kind |-> req[w].kind, rev |-> rev[w], project |-> project, body |-> b, focus |-> f]
<1>3. b \in Bodies
  BY DEF TypeInv, TypeOfCaches
<1>4. r \in Replies
  <2> HIDE DEF b
  <2> QED BY <1>1, <1>3 DEF Replies, TypeInv, TypeOfThreads
<1>5. /\ prepared' = [k \in DOMAIN prepared \cup {Key(w)} |->
                         IF k = Key(w) THEN b ELSE prepared[k]]
      /\ reply' = [reply EXCEPT ![w] = r] /\ focus' = f /\ pc' = [pc EXCEPT ![w] = "budget"]
      /\ UNCHANGED <<project, registry, req, must, rev>>
  BY DEF Respond, Goto
<1> HIDE DEF b, r
<1>6. TypeOfCaches'
  <2>1. DOMAIN prepared' = DOMAIN prepared \cup {Key(w)}
    BY <1>5
  <2>2. \A k \in DOMAIN prepared' : prepared'[k] \in Bodies
    BY <1>3, <1>5, <2>1 DEF TypeInv, TypeOfCaches
  <2> QED BY <1>2, <1>5, <2>1, <2>2 DEF TypeInv, TypeOfCaches
<1>7. TypeOfThreads'
  BY <1>1, <1>4, <1>5 DEF TypeInv, TypeOfThreads
<1> QED BY <1>6, <1>7

(* Once the context exists, nothing takes it away.                          *)
LEMMA StaysOpened ==
    ASSUME opened', project' # None, pc'[Prewarmer] \notin {"lock", "open"}
    PROVE  OpenedInv'
  BY DEF OpenedInv

(* What a thread within a call may rely on.                                 *)
LEMMA InCall ==
    ASSUME TypeInv, OpenedInv, NEW t \in Threads,
           pc[t] \in {"refresh", "scan", "apply", "handle", "budget"}
    PROVE  /\ lock = t /\ opened /\ project \in Projects
           /\ pc[Prewarmer] \notin {"lock", "open"}
<1>1. lock = t
  BY DEF TypeInv, LockHeld
<1>2. opened
  BY DEF OpenedInv, Threads
<1>3. project \in Projects
  BY <1>2 DEF OpenedInv, TypeInv, TypeOfCaches
<1> QED BY <1>1, <1>2, <1>3 DEF OpenedInv

(* Files, time and the watcher change nothing but the variables of their own. *)
LEMMA EnvironmentTyped ==
    ASSUME TypeInv, OpenedInv, Edit \/ Lapse \/ Watcher
    PROVE  TypeInv' /\ OpenedInv'
<1>1. UNCHANGED <<project, result, registry, prepared, focus, opened, state, lock, pc, locals>>
  BY DEF Edit, Lapse, Watcher, WatcherStarts, WatcherReports, WatcherDies, WatcherFails,
         Invalidate, KeepCaches, context, watch
<1>2. TypeOfCaches' /\ TypeOfThreads' /\ LockHeld'
  BY <1>1 DEF TypeInv, TypeOfCaches, TypeOfThreads, LockHeld, locals
<1>3. TypeOfSources'
  <2>1. CASE Edit
    <3>1. disk' \in Versions
      BY <2>1 DEF Edit, TypeInv, TypeOfSources, Versions
    <3>2. pending' \in BOOLEAN
      BY <2>1 DEF Edit
    <3> QED BY <2>1, <3>1, <3>2 DEF Edit, TypeInv, TypeOfSources, context
  <2>2. CASE Lapse
    BY <2>2 DEF Lapse, TypeInv, TypeOfSources, watch
  <2>3. CASE Watcher
    BY <2>3 DEF Watcher, WatcherStarts, WatcherReports, WatcherDies, WatcherFails,
                Invalidate, KeepCaches, context, TypeInv, TypeOfSources
  <2> QED BY <2>1, <2>2, <2>3
<1>4. (invalidated' => opened) /\ (watcher' # "waiting" => opened)
  BY DEF Edit, Lapse, Watcher, WatcherStarts, WatcherReports, WatcherDies, WatcherFails,
         Invalidate, KeepCaches, context, watch, OpenedInv
<1> QED BY <1>1, <1>2, <1>3, <1>4 DEF TypeInv, OpenedInv


(* The steps of _refresh_workspace, of a registry's construction and of the *)
(* budget check, by whichever thread has the lock.                          *)
LEMMA RefreshTyped ==
    ASSUME TypeInv, OpenedInv, NEW t \in Threads, Refresh(t) \/ Scan(t)
    PROVE  TypeInv' /\ OpenedInv'
<1>1. pc[t] \in {"refresh", "scan"}
  BY DEF Refresh, Scan, At
<1>2. /\ lock = t /\ opened /\ project \in Projects /\ pc[Prewarmer] \notin {"lock", "open"}
  BY <1>1, InCall
<1>3. PICK l \in {"scan", "handle", "apply"} : Goto(t, l)
  BY DEF Refresh, Scan
<1>4. /\ UNCHANGED <<disk, notified, lastRev, lapsed, result, opened, pending, watcher, state>>
      /\ UNCHANGED <<project, registry, prepared, focus, lock, req, must, reply>>
      /\ invalidated' \in {invalidated, FALSE}
  BY DEF Refresh, Scan, context, watch
<1>5. rev' \in [Threads -> Versions]
  <2>1. rev' \in {rev, [rev EXCEPT ![t] = lastRev], [rev EXCEPT ![t] = disk]}
    BY DEF Refresh, Scan
  <2> QED BY <2>1 DEF TypeInv, TypeOfSources, TypeOfThreads
<1>6. TypeOfSources' /\ TypeOfCaches'
  BY <1>4 DEF TypeInv, TypeOfSources, TypeOfCaches
<1>7. TypeOfThreads'
  BY <1>3, <1>4, <1>5 DEF TypeInv, TypeOfThreads, Goto
<1>8. LockHeld'
  BY <1>1, <1>3, <1>4, LockStays DEF TypeInv
<1>9. opened' /\ project' # None /\ pc'[Prewarmer] \notin {"lock", "open"}
  BY <1>2, <1>3, <1>4 DEF Goto, TypeInv, TypeOfThreads
<1> QED BY <1>6, <1>7, <1>8, <1>9, StaysOpened DEF TypeInv

(* The write-back keeps every domain and the lock.                          *)
LEMMA ApplyTyped ==
    ASSUME TypeInv, OpenedInv, NEW t \in Threads, Apply(t)
    PROVE  TypeInv' /\ OpenedInv'
<1>1. pc[t] = "apply" /\ Goto(t, "handle")
  BY DEF Apply, At
<1>2. /\ lock = t /\ opened /\ project \in Projects /\ pc[Prewarmer] \notin {"lock", "open"}
  BY <1>1, InCall
<1>3. /\ UNCHANGED <<disk, notified, opened, pending, invalidated, watcher, state, lock>>
      /\ UNCHANGED <<req, must, rev, reply>>
      /\ lapsed' = (lapsed /\ invalidated) /\ result' = TRUE /\ lastRev' = rev[t]
      /\ project' = Selected(t)
  BY DEF Apply, watch, locals
<1>4. Selected(t) \in Projects
  BY <1>2 DEF Selected, Asked, TypeInv, TypeOfThreads, Requests, Prewarm
<1>5. TypeOfSources'
  BY <1>3 DEF TypeInv, TypeOfSources, TypeOfThreads
<1>6. TypeOfCaches'
  <2>1. registry' \in {registry, None}
    BY DEF Apply
  <2>2. DOMAIN prepared' \subseteq Keys /\ \A k \in DOMAIN prepared' : prepared'[k] \in Bodies
    <3>1. prepared' = prepared \/ prepared' = [k \in NoKeys |-> 0]
      BY DEF Apply
    <3> QED BY <3>1 DEF NoKeys, TypeInv, TypeOfCaches
  <2>3. focus' \in Focuses
    <3>1. focus' \in {focus, [project |-> Selected(t), target |-> None]}
      BY DEF Apply
    <3> QED BY <3>1, <1>4 DEF Focuses, TypeInv, TypeOfCaches
  <2> QED BY <1>3, <1>4, <2>1, <2>2, <2>3 DEF TypeInv, TypeOfCaches
<1>7. TypeOfThreads'
  BY <1>1, <1>3 DEF TypeInv, TypeOfThreads, Goto
<1>8. LockHeld'
  BY <1>1, <1>3, LockStays DEF TypeInv
<1>9. opened' /\ project' # None /\ pc'[Prewarmer] \notin {"lock", "open"}
  BY <1>1, <1>2, <1>3, <1>4 DEF Goto, TypeInv, TypeOfThreads
<1> QED BY <1>5, <1>6, <1>7, <1>8, <1>9, StaysOpened DEF TypeInv

(* A registry is built for the active project, which exists by then.        *)
LEMMA BuildTyped ==
    ASSUME TypeInv, OpenedInv, NEW t \in Threads, Build(t)
    PROVE  TypeInv' /\ OpenedInv'
<1>1. pc[t] = "handle"
  BY DEF Build, At
<1>2. /\ opened /\ project \in Projects
  BY <1>1, InCall
<1>3. /\ UNCHANGED <<disk, notified, lastRev, lapsed, result, opened, pending, invalidated>>
      /\ UNCHANGED <<watcher, state, project, prepared, lock, pc, req, must, rev, reply>>
      /\ registry' = [project |-> project, rev |-> rev[t], content |-> disk]
      /\ focus' \in {focus, [focus EXCEPT !.target = None]}
  BY DEF Build, watch, locals
<1>4. registry' \in Registries
  BY <1>2, <1>3 DEF Registries, TypeInv, TypeOfSources, TypeOfThreads
<1>5. focus' \in Focuses
  BY <1>3 DEF Focuses, TypeInv, TypeOfCaches
<1>6. TypeOfSources' /\ TypeOfThreads' /\ LockHeld'
  BY <1>3 DEF TypeInv, TypeOfSources, TypeOfThreads, LockHeld
<1>7. TypeOfCaches'
  BY <1>3, <1>4, <1>5 DEF TypeInv, TypeOfCaches
<1> QED BY <1>3, <1>6, <1>7 DEF TypeInv, OpenedInv

(* A call that ends under the lock returns it; the context stays open.      *)
LEMMA EndTyped ==
    ASSUME TypeInv, OpenedInv, NEW t \in Threads,
           pc[t] \in {"refresh", "scan", "apply", "handle", "budget"},
           lock' = None, Return(t), UNCHANGED <<opened, project>>,
           TypeOfSources', TypeOfCaches'
    PROVE  TypeInv' /\ OpenedInv'
<1>1. /\ lock = t /\ opened /\ project \in Projects /\ pc[Prewarmer] \notin {"lock", "open"}
  BY InCall
<1>2. TypeOfThreads' /\ LockHeld'
  BY <1>1, ReturnTyped, ReturnUnlocks DEF TypeInv
<1>3. opened' /\ project' # None /\ pc'[Prewarmer] \notin {"lock", "open"}
  BY <1>1 DEF Return, Goto, TypeInv, TypeOfThreads
<1> QED BY <1>2, <1>3, StaysOpened DEF TypeInv

(* The budget check drops whole caches and ends the call.                   *)
LEMMA BudgetTyped ==
    ASSUME TypeInv, OpenedInv, NEW t \in Threads, Budget(t)
    PROVE  TypeInv' /\ OpenedInv'
<1>1. /\ pc[t] = "budget" /\ lock' = None /\ Return(t)
      /\ UNCHANGED <<disk, lapsed, invalidated, lastRev, project, opened, watcher, pending, notified>>
      /\ state' \in {"warm", "ready", "compact"} /\ result' \in {result, FALSE}
      /\ registry' \in {registry, None} /\ focus' = focus
  BY DEF Budget, At, watch, Within, DropAuxiliary, DropNavigation
<1>2. prepared' = prepared \/ prepared' = [k \in NoKeys |-> 0]
  BY DEF Budget, Within, DropAuxiliary, DropNavigation
<1>3. TypeOfSources'
  BY <1>1 DEF TypeInv, TypeOfSources
<1>4. TypeOfCaches'
  <2>1. DOMAIN prepared' \subseteq Keys /\ \A k \in DOMAIN prepared' : prepared'[k] \in Bodies
    BY <1>2 DEF NoKeys, TypeInv, TypeOfCaches
  <2> QED BY <1>1, <2>1 DEF TypeInv, TypeOfCaches
<1> QED BY <1>1, <1>3, <1>4, EndTyped

(* A request that fails ends its call with the lock released.               *)
LEMMA ErrorTyped ==
    ASSUME TypeInv, OpenedInv, NEW w \in Workers, ScanFails(w) \/ BuildFails(w) \/ TargetNotFound(w)
    PROVE  TypeInv' /\ OpenedInv'
<1>1. /\ w \in Threads /\ pc[w] \in {"scan", "handle"} /\ lock' = None /\ Return(w)
      /\ UNCHANGED <<disk, lapsed, invalidated, lastRev, project, opened, watcher, pending, notified>>
      /\ UNCHANGED <<state, result, registry, prepared>>
      /\ focus' \in {focus, [project |-> project, target |-> None]}
  BY DEF Threads, ScanFails, BuildFails, TargetNotFound, Ready, At, watch, context
<1>2. focus' \in Focuses
  BY <1>1 DEF TypeInv, TypeOfCaches, Focuses
<1>3. TypeOfSources' /\ TypeOfCaches'
  BY <1>1, <1>2 DEF TypeInv, TypeOfSources, TypeOfCaches
<1> QED BY <1>1, <1>3, EndTyped

(* The answers.                                                             *)
LEMMA AnswerTyped ==
    ASSUME TypeInv, OpenedInv, NEW w \in Workers, Find(w) \/ Open(w) \/ FocusRequest(w)
    PROVE  TypeInv' /\ OpenedInv'
<1>1. /\ w \in Threads /\ pc[w] = "handle" /\ req[w].kind \in {"find", "open", "focus", "focusTarget"}
  BY DEF Threads, Find, Open, FocusRequest, Ready, At
<1>2. /\ lock = w /\ opened /\ project \in Projects /\ pc[Prewarmer] \notin {"lock", "open"}
  BY <1>1, InCall
<1>3. req[w] \in Requests /\ req[w].kind \in Kinds
  BY <1>1 DEF TypeInv, TypeOfThreads, Requests, Prewarm
<1>4. PICK body \in Bodies, f \in Focuses : Respond(w, body, f)
  <2>1. CASE Find(w)
    <3>1. registry \in Bodies
      BY <2>1 DEF Find, Ready, NeedsRegistry, HasRegistry, TypeInv, TypeOfCaches, Bodies
    <3> QED BY <2>1, <3>1 DEF Find, TypeInv, TypeOfCaches
  <2>2. CASE Open(w)
    <3>1. [complete |-> result] \in Bodies
      BY DEF Bodies, Problems, TypeInv, TypeOfSources
    <3> QED BY <2>2, <3>1 DEF Open, TypeInv, TypeOfCaches
  <2>3. CASE FocusRequest(w)
    <3>1. NewFocus(w) \in Focuses
      BY <1>2, <2>3 DEF FocusRequest, NewFocus, Focuses, TypeInv, TypeOfCaches
    <3> QED BY <2>3, <3>1 DEF FocusRequest, Bodies
  <2> QED BY <2>1, <2>2, <2>3
<1>5. TypeOfCaches' /\ TypeOfThreads'
  BY <1>2, <1>3, <1>4, RespondTyped
<1>6. /\ Goto(w, "budget")
      /\ UNCHANGED <<disk, lapsed, invalidated, lastRev, project, result, opened, watcher, pending,
                     notified, state, lock>>
  BY <1>4 DEF Respond, watch
<1>7. TypeOfSources'
  BY <1>6 DEF TypeInv, TypeOfSources
<1>8. LockHeld'
  BY <1>1, <1>6, LockStays DEF TypeInv
<1>9. opened' /\ project' # None /\ pc'[Prewarmer] \notin {"lock", "open"}
  BY <1>1, <1>2, <1>6 DEF Goto, TypeInv, TypeOfThreads
<1> QED BY <1>5, <1>7, <1>8, <1>9, StaysOpened DEF TypeInv

(* The start of a request, up to the lock.                                  *)
LEMMA StartTyped ==
    ASSUME TypeInv, OpenedInv, NEW w \in Workers, Begin(w) \/ CheckWatcher(w) \/ TakeLock(w)
    PROVE  TypeInv' /\ OpenedInv'
<1>1. w \in Threads /\ w # Prewarmer
  BY DEF Threads
<1>2. opened
  BY DEF Begin, CheckWatcher, TakeLock, At, OpenedInv
<1>3. /\ UNCHANGED <<disk, lastRev, project, result, registry, prepared, focus, opened>>
      /\ UNCHANGED <<watcher, pending, notified, state, rev, reply>>
      /\ lapsed' \in {lapsed, TRUE} /\ invalidated' \in {invalidated, TRUE}
  BY DEF Begin, CheckWatcher, TakeLock, Invalidate, KeepCaches, context, watch, locals
<1>4. TypeOfSources' /\ TypeOfCaches'
  BY <1>3 DEF TypeInv, TypeOfSources, TypeOfCaches
<1>5. PICK l \in {"watch", "lock", "refresh"} : Goto(w, l)
  BY <1>1 DEF Begin, CheckWatcher, TakeLock
<1>6. TypeOfThreads'
  <2>1. req' \in [Threads -> Requests \cup {Prewarm}]
    <3>1. req' = req \/ \E r \in Requests : req' = [req EXCEPT ![w] = r]
      BY DEF Begin, CheckWatcher, TakeLock, locals
    <3> QED BY <3>1 DEF TypeInv, TypeOfThreads
  <2>2. must' \in [Threads -> Versions]
    <3>1. must' \in {must, [must EXCEPT ![w] = disk], [must EXCEPT ![w] = notified]}
      BY DEF Begin, CheckWatcher, TakeLock, locals
    <3> QED BY <3>1 DEF TypeInv, TypeOfThreads, TypeOfSources
  <2> QED BY <1>3, <1>5, <2>1, <2>2 DEF TypeInv, TypeOfThreads, Goto
<1>7. LockHeld'
  <2>1. CASE TakeLock(w)
    <3>1. /\ pc[w] = "lock" /\ lock = None /\ lock' = w /\ pc'[w] = "refresh"
          /\ \A u \in Threads : u # w => pc'[u] = pc[u]
      BY <1>1, <2>1 DEF TakeLock, At, Goto, TypeInv, TypeOfThreads
    <3>2. \A u \in Threads : u # None
      BY DEF Threads
    <3> QED BY <3>1, <3>2 DEF TypeInv, LockHeld
  <2>2. CASE Begin(w)
    BY <1>1, <2>2, LockStays DEF Begin, At, TypeInv
  <2>3. CASE CheckWatcher(w)
    BY <1>1, <2>3, LockStays DEF CheckWatcher, At, TypeInv
  <2> QED BY <2>1, <2>2, <2>3
<1>8. opened' /\ project' # None /\ pc'[Prewarmer] \notin {"lock", "open"}
  <2>1. pc'[Prewarmer] = pc[Prewarmer]
    BY <1>1, <1>5 DEF Goto, TypeInv, TypeOfThreads
  <2> QED BY <1>2, <1>3, <2>1 DEF OpenedInv
<1> QED BY <1>4, <1>6, <1>7, <1>8, StaysOpened DEF TypeInv

(* The prewarm thread.                                                      *)
LEMMA PrewarmTyped ==
    ASSUME TypeInv, OpenedInv, TakeLock(Prewarmer) \/ OpenContext \/ Prewarmed \/ PrewarmFails
    PROVE  TypeInv' /\ OpenedInv'
<1>1. Prewarmer \in Threads /\ Prewarmer \notin Workers /\ \A u \in Threads : u # None
  BY DEF Threads
<1>2. CASE TakeLock(Prewarmer)
  <2>1. /\ pc[Prewarmer] = "lock" /\ lock = None /\ lock' = Prewarmer /\ pc'[Prewarmer] = "open"
        /\ pc' = [pc EXCEPT ![Prewarmer] = "open"]
        /\ \A u \in Threads : u # Prewarmer => pc'[u] = pc[u]
    BY <1>1, <1>2 DEF TakeLock, At, Goto, TypeInv, TypeOfThreads
  <2>2. LockHeld'
    BY <1>1, <2>1 DEF TypeInv, LockHeld
  <2>3. UNCHANGED <<disk, context, watcher, pending, notified, state, locals>>
    BY <1>2 DEF TakeLock, watch
  <2>4. TypeOfSources' /\ TypeOfCaches' /\ TypeOfThreads'
    BY <2>1, <2>3 DEF context, locals, TypeInv, TypeOfSources, TypeOfCaches, TypeOfThreads
  <2>5. OpenedInv'
    BY <1>1, <2>1, <2>3 DEF context, OpenedInv, Threads
  <2> QED BY <2>2, <2>4, <2>5 DEF TypeInv
<1>3. CASE OpenContext
  <2>1. /\ pc[Prewarmer] = "open" /\ Goto(Prewarmer, "refresh")
        /\ opened' = TRUE /\ lapsed' = FALSE /\ lastRev' = disk /\ project' = FirstProject
        /\ result' = TRUE /\ focus' = [project |-> FirstProject, target |-> None]
        /\ UNCHANGED <<disk, invalidated, registry, prepared, watcher, pending, notified, state, lock>>
        /\ UNCHANGED <<req, must, rev, reply>>
    BY <1>3 DEF OpenContext, At, watch, locals
  <2>2. TypeOfSources'
    BY <2>1 DEF TypeInv, TypeOfSources
  <2>3. TypeOfCaches'
    BY <2>1 DEF TypeInv, TypeOfCaches, Focuses
  <2>4. TypeOfThreads'
    BY <1>1, <2>1 DEF TypeInv, TypeOfThreads, Goto
  <2>5. LockHeld'
    BY <1>1, <2>1, LockStays DEF TypeInv
  <2>6. opened' /\ project' # None /\ pc'[Prewarmer] \notin {"lock", "open"}
    BY <1>1, <2>1 DEF Goto, TypeInv, TypeOfThreads
  <2> QED BY <2>2, <2>3, <2>4, <2>5, <2>6, StaysOpened DEF TypeInv
<1>4. CASE Prewarmed
  <2>1. /\ pc[Prewarmer] = "handle" /\ Goto(Prewarmer, "budget") /\ state' = "warm"
        /\ UNCHANGED <<disk, context, watcher, pending, notified, lock, locals>>
    BY <1>4 DEF Prewarmed, Ready, At, watch
  <2>2. TypeOfSources' /\ TypeOfCaches' /\ TypeOfThreads'
    BY <1>1, <2>1 DEF context, locals, TypeInv, TypeOfSources, TypeOfCaches, TypeOfThreads, Goto
  <2>3. LockHeld'
    BY <1>1, <2>1, LockStays DEF TypeInv
  <2>4. opened /\ project \in Projects
    BY <1>1, <2>1, InCall
  <2>5. opened' /\ project' # None /\ pc'[Prewarmer] \notin {"lock", "open"}
    BY <1>1, <2>1, <2>4 DEF context, Goto, TypeInv, TypeOfThreads
  <2> QED BY <2>2, <2>3, <2>5, StaysOpened DEF TypeInv
<1>5. CASE PrewarmFails
  <2>1. /\ pc[Prewarmer] \in {"open", "refresh", "scan", "handle", "budget"}
        /\ lock' = None /\ state' = "failed" /\ Return(Prewarmer)
        /\ UNCHANGED <<disk, context, watcher, pending, notified>>
    BY <1>5 DEF PrewarmFails, watch
  <2>2. lock = Prewarmer
    BY <1>1, <2>1 DEF TypeInv, LockHeld
  <2>3. TypeOfSources' /\ TypeOfCaches'
    BY <2>1 DEF context, TypeInv, TypeOfSources, TypeOfCaches
  <2>4. TypeOfThreads' /\ LockHeld'
    BY <1>1, <2>1, <2>2, ReturnTyped, ReturnUnlocks DEF TypeInv
  <2>5. /\ pc'[Prewarmer] = "idle" /\ \A u \in Workers : pc'[u] = pc[u]
    BY <1>1, <2>1 DEF Return, Goto, TypeInv, TypeOfThreads, Threads
  <2>6. OpenedInv'
    BY <2>1, <2>5 DEF context, OpenedInv
  <2> QED BY <2>3, <2>4, <2>6 DEF TypeInv
<1> QED BY <1>2, <1>3, <1>4, <1>5

(* Nothing moves.                                                           *)
LEMMA StutterTyped ==
    ASSUME TypeInv, OpenedInv, UNCHANGED vars
    PROVE  TypeInv' /\ OpenedInv'
  BY DEF vars, context, watch, locals, TypeInv, OpenedInv, TypeOfSources, TypeOfCaches,
         TypeOfThreads, LockHeld

(* The daemon starts with every variable in its domain.                     *)
LEMMA InitTyped == Init => TypeInv /\ OpenedInv
<1> SUFFICES ASSUME Init PROVE TypeInv /\ OpenedInv
  OBVIOUS
<1> 0 \in Versions
  BY DEF Versions
<1>1. TypeOfSources
  BY DEF Init, TypeOfSources
<1>2. TypeOfCaches
  BY DEF Init, TypeOfCaches, NoKeys, Focuses
<1>3. TypeOfThreads
  BY DEF Init, TypeOfThreads, Versions
<1>4. LockHeld
  BY DEF Init, LockHeld, Threads
<1>5. OpenedInv
  BY DEF Init, OpenedInv, Threads
<1> QED BY <1>1, <1>2, <1>3, <1>4, <1>5 DEF TypeInv

(* Every step keeps the domains, the lock and the context.                  *)
LEMMA TypeStep == TypeInv /\ OpenedInv /\ [Next]_vars => TypeInv' /\ OpenedInv'
<1> SUFFICES ASSUME TypeInv, OpenedInv, [Next]_vars PROVE TypeInv' /\ OpenedInv'
  OBVIOUS
<1>1. CASE Edit \/ Lapse \/ Watcher
  BY <1>1, EnvironmentTyped
<1>2. CASE PrewarmThread
  <2>1. Prewarmer \in Threads
    BY DEF Threads
  <2> QED BY <1>2, <2>1, PrewarmTyped, RefreshTyped, ApplyTyped, BuildTyped, BudgetTyped
          DEF PrewarmThread, Locked
<1>3. ASSUME NEW w \in Workers, Begin(w) \/ Worker(w) PROVE TypeInv' /\ OpenedInv'
  <2>1. w \in Threads
    BY DEF Threads
  <2> QED BY <1>3, <2>1, StartTyped, RefreshTyped, ApplyTyped, BuildTyped, BudgetTyped,
             ErrorTyped, AnswerTyped DEF Worker, Locked
<1>4. CASE UNCHANGED vars
  BY <1>4, StutterTyped
<1> QED BY <1>1, <1>2, <1>3, <1>4 DEF Next

(* Every variable stays in its domain, and whoever works on the context     *)
(* holds the service's lock, which is one thread at most.                   *)
THEOREM ServiceTypeCorrect == Spec => []TypeOK
<1>1. Spec => [](TypeInv /\ OpenedInv)
  BY InitTyped, TypeStep, PTL DEF Spec
<1>2. TypeInv => TypeOK
  BY TypeParts DEF TypeInv
<1> QED BY <1>1, <1>2, PTL

-----------------------------------------------------------------------------
(* No invalidation is lost.  NoStaleReply speaks of the answer only; the    *)
(* invariant says what each earlier point of a request already guarantees:  *)
(* before the lock, what the request must know of has been reported to the  *)
(* service; while the last check counts, it covers what every waiting       *)
(* request must know of; a scan that ends without an invalidation in        *)
(* between covers all that, too.                                            *)
Bounded ==
    /\ notified <= disk /\ lastRev <= disk
    /\ \A t \in Threads : must[t] <= disk /\ rev[t] <= disk
Checked == (invalidated => lapsed) /\ (~lapsed => notified <= lastRev)
WaitersKnown ==
    \A t \in Threads : pc[t] = "watch" => must[t] <= notified \/ watcher = "failed"
TrustCovers ==
    \A t \in Threads : pc[t] \in {"lock", "refresh"} /\ ~lapsed => must[t] <= lastRev
RevCovers ==
    \A t \in Threads : pc[t] \in {"apply", "handle"} => must[t] <= rev[t]
ScanCounts ==
    \A t \in Threads : pc[t] = "apply" /\ ~invalidated =>
        /\ notified <= rev[t]
        /\ \A u \in Threads : pc[u] = "lock" => must[u] <= rev[t]
ReplyCovers ==
    \A t \in Threads : reply[t] # None => pc[t] = "budget" /\ must[t] <= reply[t].rev
FreshInv == /\ Bounded /\ Checked /\ WaitersKnown /\ TrustCovers
            /\ RevCovers /\ ScanCounts /\ ReplyCovers

(* The versions are numbers.                                                *)
LEMMA Numbers ==
    ASSUME TypeInv
    PROVE  /\ disk \in Nat /\ notified \in Nat /\ lastRev \in Nat
           /\ \A t \in Threads : must[t] \in Nat /\ rev[t] \in Nat
<1>1. \A v \in Versions : v \in Nat
  BY DEF Versions
<1> QED BY <1>1 DEF TypeInv, TypeOfSources, TypeOfThreads

(* Two threads are never within the locked part of a call together.         *)
LEMMA OneInside ==
    ASSUME TypeInv, NEW t \in Threads, NEW u \in Threads, t # u,
           pc[t] \notin {"idle", "watch", "lock"}
    PROVE  pc[u] \in {"idle", "watch", "lock"}
  BY DEF TypeInv, LockHeld

(* What Goto and Return do to the locals of the thread and of the others.   *)
LEMMA GotoMoves ==
    ASSUME TypeInv, NEW t \in Threads, NEW l, Goto(t, l)
    PROVE  pc'[t] = l /\ \A u \in Threads : u # t => pc'[u] = pc[u]
  BY DEF Goto, TypeInv, TypeOfThreads

(* Return clears the locals of its thread only.                             *)
LEMMA ReturnMoves ==
    ASSUME TypeInv, NEW t \in Threads, Return(t)
    PROVE  /\ pc'[t] = "idle" /\ must'[t] = 0 /\ rev'[t] = 0 /\ reply'[t] = None
           /\ \A u \in Threads : u # t =>
                pc'[u] = pc[u] /\ must'[u] = must[u] /\ rev'[u] = rev[u] /\ reply'[u] = reply[u]
  BY DEF Return, Goto, TypeInv, TypeOfThreads

(* A call that ends, with or without an answer, takes its part with it.     *)
LEMMA ReturnFresh ==
    ASSUME TypeInv, FreshInv, NEW t \in Threads, Return(t),
           UNCHANGED <<disk, lapsed, invalidated, lastRev, watcher, notified>>
    PROVE  FreshInv'
<1>1. /\ pc'[t] = "idle" /\ must'[t] = 0 /\ rev'[t] = 0 /\ reply'[t] = None
      /\ \A u \in Threads : u # t =>
           pc'[u] = pc[u] /\ must'[u] = must[u] /\ rev'[u] = rev[u] /\ reply'[u] = reply[u]
  BY ReturnMoves
<1>2. Bounded' /\ Checked' /\ WaitersKnown'
  BY <1>1, Numbers DEF FreshInv, Bounded, Checked, WaitersKnown
<1>3. TrustCovers' /\ RevCovers'
  BY <1>1 DEF FreshInv, TrustCovers, RevCovers
<1>4. ScanCounts'
  BY <1>1 DEF FreshInv, ScanCounts
<1>5. ReplyCovers'
  BY <1>1 DEF FreshInv, ReplyCovers
<1> QED BY <1>2, <1>3, <1>4, <1>5 DEF FreshInv

(* Files, time and the watcher: a report makes the last check expire and    *)
(* marks the scan that is under way.                                        *)
LEMMA EnvironmentFresh ==
    ASSUME TypeInv, FreshInv, Edit \/ Lapse \/ Watcher
    PROVE  FreshInv'
<1>1. UNCHANGED <<lastRev, pc, must, rev, reply>>
  BY DEF Edit, Lapse, Watcher, WatcherStarts, WatcherReports, WatcherDies, WatcherFails,
         Invalidate, KeepCaches, context, watch, locals
<1>2. disk <= disk'
  BY Numbers DEF Edit, Lapse, Watcher, WatcherStarts, WatcherReports, WatcherDies, WatcherFails
<1>3. disk' \in Nat
  BY Numbers DEF Edit, Lapse, Watcher, WatcherStarts, WatcherReports, WatcherDies, WatcherFails
<1>4. \/ UNCHANGED <<lapsed, invalidated, notified>>
      \/ lapsed' = TRUE /\ UNCHANGED <<invalidated, notified>>
      \/ lapsed' = TRUE /\ invalidated' = TRUE /\ notified' = disk
  BY DEF Edit, Lapse, Watcher, WatcherStarts, WatcherReports, WatcherDies, WatcherFails,
         Invalidate, context, watch
<1>5. notified <= notified' /\ notified' <= disk' /\ notified' \in Nat
  BY <1>2, <1>3, <1>4, Numbers DEF FreshInv, Bounded
<1>6. watcher = "failed" => watcher' = "failed"
  BY DEF Edit, Lapse, Watcher, WatcherStarts, WatcherReports, WatcherDies, WatcherFails, watch
<1>7. Bounded'
  BY <1>1, <1>2, <1>3, <1>5, Numbers DEF FreshInv, Bounded
<1>8. Checked'
  BY <1>1, <1>4 DEF FreshInv, Checked
<1>9. WaitersKnown'
  BY <1>1, <1>5, <1>6, Numbers DEF FreshInv, WaitersKnown
<1>10. TrustCovers' /\ RevCovers' /\ ReplyCovers'
  BY <1>1, <1>4 DEF FreshInv, TrustCovers, RevCovers, ReplyCovers
<1>11. ScanCounts'
  BY <1>1, <1>4 DEF FreshInv, ScanCounts
<1> QED BY <1>7, <1>8, <1>9, <1>10, <1>11 DEF FreshInv

(* The start of a request: what it must know of has been reported, or the   *)
(* watcher has failed and the request cancels the last check itself.        *)
LEMMA StartFresh ==
    ASSUME TypeInv, FreshInv, NEW w \in Workers, Begin(w) \/ CheckWatcher(w) \/ TakeLock(w)
    PROVE  FreshInv'
<1>1. w \in Threads
  BY DEF Threads
<1>2. CASE Begin(w)
  <2>1. /\ pc[w] = "idle" /\ Goto(w, "watch")
        /\ must' = [must EXCEPT ![w] = IF watcher = "failed" THEN disk ELSE notified]
        /\ UNCHANGED <<disk, lapsed, invalidated, lastRev, watcher, notified, rev, reply>>
    BY <1>2 DEF Begin, At, context, watch
  <2>2. pc'[w] = "watch" /\ \A u \in Threads : u # w => pc'[u] = pc[u]
    BY <1>1, <2>1, GotoMoves
  <2>3. /\ watcher # "failed" => must'[w] = notified
        /\ watcher = "failed" => must'[w] = disk
        /\ \A u \in Threads : u # w => must'[u] = must[u]
    BY <1>1, <2>1 DEF TypeInv, TypeOfThreads
  <2>4. Bounded' /\ Checked' /\ WaitersKnown'
    BY <2>1, <2>2, <2>3, Numbers DEF FreshInv, Bounded, Checked, WaitersKnown
  <2>5. TrustCovers' /\ RevCovers'
    BY <2>1, <2>2, <2>3 DEF FreshInv, TrustCovers, RevCovers
  <2>6. ScanCounts'
    BY <2>1, <2>2, <2>3 DEF FreshInv, ScanCounts
  <2>7. ReplyCovers'
    BY <2>1, <2>2, <2>3 DEF FreshInv, ReplyCovers
  <2> QED BY <2>4, <2>5, <2>6, <2>7 DEF FreshInv
<1>3. CASE CheckWatcher(w)
  <2>1. /\ pc[w] = "watch" /\ Goto(w, "lock")
        /\ UNCHANGED <<disk, lastRev, watcher, notified, must, rev, reply>>
        /\ watcher = "failed" => invalidated' = TRUE /\ lapsed' = TRUE
        /\ watcher # "failed" => UNCHANGED <<invalidated, lapsed>>
    BY <1>3 DEF CheckWatcher, At, Invalidate, KeepCaches, watch, locals
  <2>2. pc'[w] = "lock" /\ \A u \in Threads : u # w => pc'[u] = pc[u]
    BY <1>1, <2>1, GotoMoves
  <2>3. watcher # "failed" => must[w] <= notified
    BY <1>1, <2>1 DEF FreshInv, WaitersKnown
  <2>4. Bounded' /\ Checked' /\ WaitersKnown'
    BY <2>1, <2>2 DEF FreshInv, Bounded, Checked, WaitersKnown
  <2>5. TrustCovers'
    BY <1>1, <2>1, <2>2, <2>3, Numbers DEF FreshInv, TrustCovers, Checked
  <2>6. ScanCounts'
    <3> SUFFICES ASSUME NEW t \in Threads, pc'[t] = "apply", ~invalidated'
                 PROVE  notified <= rev[t] /\ \A u \in Threads : pc'[u] = "lock" => must[u] <= rev[t]
      BY <2>1 DEF ScanCounts
    <3>1. pc[t] = "apply" /\ ~invalidated /\ watcher # "failed"
      BY <2>1, <2>2
    <3>2. notified <= rev[t] /\ \A u \in Threads : pc[u] = "lock" => must[u] <= rev[t]
      BY <3>1 DEF FreshInv, ScanCounts
    <3>3. must[w] <= rev[t]
      BY <1>1, <2>3, <3>1, <3>2, Numbers
    <3> QED BY <2>2, <3>2, <3>3
  <2>7. RevCovers' /\ ReplyCovers'
    BY <2>1, <2>2 DEF FreshInv, RevCovers, ReplyCovers
  <2> QED BY <2>4, <2>5, <2>6, <2>7 DEF FreshInv
<1>4. CASE TakeLock(w)
  <2>1. /\ pc[w] = "lock" /\ \E l \in {"open", "refresh"} : Goto(w, l)
        /\ UNCHANGED <<disk, lapsed, invalidated, lastRev, watcher, notified, must, rev, reply>>
    BY <1>4 DEF TakeLock, At, context, watch, locals
  <2>2. pc'[w] \in {"open", "refresh"} /\ \A u \in Threads : u # w => pc'[u] = pc[u]
    BY <1>1, <2>1, GotoMoves
  <2>3. Bounded' /\ Checked' /\ WaitersKnown'
    BY <2>1, <2>2 DEF FreshInv, Bounded, Checked, WaitersKnown
  <2>4. TrustCovers' /\ RevCovers' /\ ReplyCovers'
    BY <2>1, <2>2 DEF FreshInv, TrustCovers, RevCovers, ReplyCovers
  <2>5. ScanCounts'
    BY <2>1, <2>2 DEF FreshInv, ScanCounts
  <2> QED BY <2>3, <2>4, <2>5 DEF FreshInv
<1> QED BY <1>2, <1>3, <1>4

(* _refresh_workspace: the revision is the last check's, or the disk's.     *)
LEMMA RefreshFresh ==
    ASSUME TypeInv, FreshInv, NEW t \in Threads, Refresh(t) \/ Scan(t)
    PROVE  FreshInv'
<1>1. CASE Refresh(t)
  <2>1. /\ pc[t] = "refresh"
        /\ UNCHANGED <<disk, lapsed, lastRev, watcher, notified, must, reply>>
    BY <1>1 DEF Refresh, At, watch
  <2>2. \A u \in Threads : u # t => pc[u] \in {"idle", "watch", "lock"}
    BY <2>1, OneInside
  <2>3. reply[t] = None
    BY <2>1 DEF FreshInv, ReplyCovers
  <2>4. CASE lapsed \/ SelectionChanges(t)
    <3>1. invalidated' = FALSE /\ Goto(t, "scan") /\ rev' = rev
      BY <1>1, <2>4 DEF Refresh
    <3>2. pc'[t] = "scan" /\ \A u \in Threads : u # t => pc'[u] = pc[u]
      BY <3>1, GotoMoves
    <3>3. Bounded' /\ Checked' /\ WaitersKnown'
      BY <2>1, <3>1, <3>2 DEF FreshInv, Bounded, Checked, WaitersKnown
    <3>4. TrustCovers' /\ RevCovers'
      BY <2>1, <3>1, <3>2 DEF FreshInv, TrustCovers, RevCovers
    <3>5. ScanCounts'
      BY <2>2, <3>2 DEF ScanCounts
    <3>6. ReplyCovers'
      BY <2>1, <2>3, <3>2 DEF FreshInv, ReplyCovers
    <3> QED BY <3>3, <3>4, <3>5, <3>6 DEF FreshInv
  <2>5. CASE ~(lapsed \/ SelectionChanges(t))
    <3>1. invalidated' = invalidated /\ Goto(t, "handle") /\ rev' = [rev EXCEPT ![t] = lastRev]
      BY <1>1, <2>5 DEF Refresh
    <3>2. /\ pc'[t] = "handle" /\ \A u \in Threads : u # t => pc'[u] = pc[u]
          /\ rev'[t] = lastRev /\ \A u \in Threads : u # t => rev'[u] = rev[u]
      BY <3>1, GotoMoves DEF TypeInv, TypeOfThreads
    <3>3. must[t] <= lastRev
      BY <2>1, <2>5 DEF FreshInv, TrustCovers
    <3>4. Bounded' /\ Checked' /\ WaitersKnown'
      BY <2>1, <3>1, <3>2 DEF FreshInv, Bounded, Checked, WaitersKnown
    <3>5. TrustCovers' /\ RevCovers'
      BY <2>1, <3>1, <3>2, <3>3 DEF FreshInv, TrustCovers, RevCovers
    <3>6. ScanCounts'
      BY <2>2, <3>2 DEF ScanCounts
    <3>7. ReplyCovers'
      BY <2>1, <2>3, <3>2 DEF FreshInv, ReplyCovers
    <3> QED BY <3>4, <3>5, <3>6, <3>7 DEF FreshInv
  <2> QED BY <2>4, <2>5
<1>2. CASE Scan(t)
  <2>1. /\ pc[t] = "scan" /\ Goto(t, "apply") /\ rev' = [rev EXCEPT ![t] = disk]
        /\ UNCHANGED <<disk, lapsed, invalidated, lastRev, watcher, notified, must, reply>>
    BY <1>2 DEF Scan, At, context, watch
  <2>2. \A u \in Threads : u # t => pc[u] \in {"idle", "watch", "lock"}
    BY <2>1, OneInside
  <2>3. /\ pc'[t] = "apply" /\ \A u \in Threads : u # t => pc'[u] = pc[u]
        /\ rev'[t] = disk /\ \A u \in Threads : u # t => rev'[u] = rev[u]
    BY <2>1, GotoMoves DEF TypeInv, TypeOfThreads
  <2>4. Bounded' /\ Checked' /\ WaitersKnown'
    BY <2>1, <2>3, Numbers DEF FreshInv, Bounded, Checked, WaitersKnown
  <2>5. TrustCovers' /\ RevCovers'
    BY <2>1, <2>3 DEF FreshInv, TrustCovers, RevCovers, Bounded
  <2>6. ScanCounts'
    BY <2>1, <2>2, <2>3 DEF FreshInv, ScanCounts, Bounded
  <2>7. ReplyCovers'
    BY <2>1, <2>3 DEF FreshInv, ReplyCovers
  <2> QED BY <2>4, <2>5, <2>6, <2>7 DEF FreshInv
<1> QED BY <1>1, <1>2

(* The write-back: the scan counts as a check only if no invalidation came  *)
(* in between, and then it covers every request that waits.                 *)
LEMMA ApplyFresh ==
    ASSUME TypeInv, FreshInv, NEW t \in Threads, Apply(t)
    PROVE  FreshInv'
<1>1. /\ pc[t] = "apply" /\ Goto(t, "handle")
      /\ lapsed' = (lapsed /\ invalidated) /\ lastRev' = rev[t]
      /\ UNCHANGED <<disk, invalidated, watcher, notified, must, rev, reply>>
  BY DEF Apply, At, watch, locals
<1>2. pc'[t] = "handle" /\ \A u \in Threads : u # t => pc'[u] = pc[u]
  BY <1>1, GotoMoves
<1>3. \A u \in Threads : u # t => pc[u] \in {"idle", "watch", "lock"}
  BY <1>1, OneInside
<1>4. ~lapsed' => /\ notified <= rev[t]
                  /\ \A u \in Threads : pc[u] = "lock" => must[u] <= rev[t]
  BY <1>1 DEF FreshInv, ScanCounts, Checked
<1>5. invalidated' => lapsed'
  BY <1>1 DEF FreshInv, Checked
<1>6. Bounded' /\ Checked' /\ WaitersKnown'
  BY <1>1, <1>2, <1>4, <1>5 DEF FreshInv, Bounded, Checked, WaitersKnown
<1>7. TrustCovers'
  BY <1>1, <1>2, <1>3, <1>4 DEF TrustCovers
<1>8. RevCovers' /\ ReplyCovers'
  BY <1>1, <1>2 DEF FreshInv, RevCovers, ReplyCovers
<1>9. ScanCounts'
  BY <1>2, <1>3 DEF ScanCounts
<1> QED BY <1>6, <1>7, <1>8, <1>9 DEF FreshInv

(* Handling and answering: the answer carries the revision of the refresh.  *)
LEMMA AnswerFresh ==
    ASSUME TypeInv, FreshInv, NEW w \in Workers, Find(w) \/ Open(w) \/ FocusRequest(w)
    PROVE  FreshInv'
<1>1. w \in Threads /\ pc[w] = "handle"
  BY DEF Threads, Find, Open, FocusRequest, Ready, At
<1>2. PICK body, f : Respond(w, body, f)
  BY DEF Find, Open, FocusRequest
<1>3. /\ Goto(w, "budget")
      /\ UNCHANGED <<disk, lapsed, invalidated, lastRev, watcher, notified, must, rev>>
      /\ \E r : reply' = [reply EXCEPT ![w] = r] /\ r.rev = rev[w]
  <2> DEFINE b == IF Key(w) \in DOMAIN prepared THEN prepared[Key(w)] ELSE body
             r == [kind |-> req[w].kind, rev |-> rev[w], project |-> project,
                   body |-> b, focus |-> f]
  <2>1. reply' = [reply EXCEPT ![w] = r]
    BY <1>2 DEF Respond
  <2>2. r.rev = rev[w]
    OBVIOUS
  <2>3. Goto(w, "budget") /\ UNCHANGED <<disk, lapsed, invalidated, lastRev, watcher, notified,
                                         must, rev>>
    BY <1>2 DEF Respond, watch
  <2> HIDE DEF r
  <2> QED BY <2>1, <2>2, <2>3
<1>4. pc'[w] = "budget" /\ \A u \in Threads : u # w => pc'[u] = pc[u]
  BY <1>1, <1>3, GotoMoves
<1>5. reply'[w].rev = rev[w] /\ \A u \in Threads : u # w => reply'[u] = reply[u]
  BY <1>1, <1>3 DEF TypeInv, TypeOfThreads
<1>6. Bounded' /\ Checked' /\ WaitersKnown'
  BY <1>3, <1>4 DEF FreshInv, Bounded, Checked, WaitersKnown
<1>7. TrustCovers' /\ RevCovers'
  BY <1>3, <1>4 DEF FreshInv, TrustCovers, RevCovers
<1>8. ScanCounts'
  BY <1>3, <1>4 DEF FreshInv, ScanCounts
<1>9. ReplyCovers'
  <2>1. must[w] <= rev[w]
    BY <1>1 DEF FreshInv, RevCovers
  <2> QED BY <1>3, <1>4, <1>5, <2>1 DEF FreshInv, ReplyCovers
<1> QED BY <1>6, <1>7, <1>8, <1>9 DEF FreshInv

(* The prewarm thread: the scan of a context that is just opened is a check *)
(* that covers all there is.                                                *)
LEMMA PrewarmFresh ==
    ASSUME TypeInv, OpenedInv, FreshInv, TakeLock(Prewarmer) \/ OpenContext \/ Prewarmed
    PROVE  FreshInv'
<1>1. Prewarmer \in Threads
  BY DEF Threads
<1>2. CASE TakeLock(Prewarmer) \/ Prewarmed
  <2>1. /\ \E l \in {"open", "budget"} : Goto(Prewarmer, l)
        /\ pc[Prewarmer] \in {"lock", "handle"}
        /\ UNCHANGED <<disk, lapsed, invalidated, lastRev, watcher, notified, must, rev, reply>>
    BY <1>2 DEF TakeLock, Prewarmed, Ready, At, context, watch, locals
  <2>2. /\ pc'[Prewarmer] \in {"open", "budget"}
        /\ \A u \in Threads : u # Prewarmer => pc'[u] = pc[u]
    BY <1>1, <2>1, GotoMoves
  <2>3. Bounded' /\ Checked' /\ WaitersKnown'
    BY <2>1, <2>2 DEF FreshInv, Bounded, Checked, WaitersKnown
  <2>4. TrustCovers' /\ RevCovers' /\ ReplyCovers'
    BY <2>1, <2>2 DEF FreshInv, TrustCovers, RevCovers, ReplyCovers
  <2>5. ScanCounts'
    BY <2>1, <2>2 DEF FreshInv, ScanCounts
  <2> QED BY <2>3, <2>4, <2>5 DEF FreshInv
<1>3. CASE OpenContext
  <2>1. /\ pc[Prewarmer] = "open" /\ Goto(Prewarmer, "refresh")
        /\ lapsed' = FALSE /\ lastRev' = disk
        /\ UNCHANGED <<disk, invalidated, watcher, notified, must, rev, reply>>
    BY <1>3 DEF OpenContext, At, watch, locals
  <2>2. ~invalidated
    BY <2>1 DEF OpenedInv
  <2>3. pc'[Prewarmer] = "refresh" /\ \A u \in Threads : u # Prewarmer => pc'[u] = pc[u]
    BY <1>1, <2>1, GotoMoves
  <2>4. \A u \in Threads : pc[u] # "apply"
    BY <1>1, <2>1, OneInside
  <2>5. Bounded' /\ Checked' /\ WaitersKnown'
    BY <2>1, <2>2, <2>3, Numbers DEF FreshInv, Bounded, Checked, WaitersKnown
  <2>6. TrustCovers' /\ RevCovers'
    BY <2>1, <2>3 DEF FreshInv, TrustCovers, RevCovers, Bounded
  <2>7. ScanCounts'
    BY <2>3, <2>4 DEF ScanCounts
  <2>8. ReplyCovers'
    BY <2>1, <2>3 DEF FreshInv, ReplyCovers
  <2> QED BY <2>5, <2>6, <2>7, <2>8 DEF FreshInv
<1> QED BY <1>2, <1>3

(* Nothing has been reported when the daemon starts.                        *)
LEMMA FreshInit == Init => FreshInv
<1> SUFFICES ASSUME Init PROVE FreshInv
  OBVIOUS
<1>1. /\ disk = 0 /\ notified = 0 /\ lastRev = 0 /\ lapsed = TRUE /\ invalidated = FALSE
      /\ \A t \in Threads : must[t] = 0 /\ rev[t] = 0 /\ reply[t] = None
      /\ \A t \in Threads : pc[t] \in {"lock", "idle"}
  BY DEF Init
<1> QED BY <1>1 DEF FreshInv, Bounded, Checked, WaitersKnown, TrustCovers, RevCovers,
                    ScanCounts, ReplyCovers

(* Every step keeps what the revisions cover.                               *)
LEMMA FreshStep == TypeInv /\ OpenedInv /\ FreshInv /\ [Next]_vars => FreshInv'
<1> SUFFICES ASSUME TypeInv, OpenedInv, FreshInv, [Next]_vars PROVE FreshInv'
  OBVIOUS
<1>1. ASSUME NEW t \in Threads, Locked(t) PROVE FreshInv'
  <2>1. CASE Refresh(t) \/ Scan(t)
    BY <2>1, RefreshFresh
  <2>2. CASE Apply(t)
    BY <2>2, ApplyFresh
  <2>3. CASE Build(t)
    <3>1. UNCHANGED <<disk, lapsed, invalidated, lastRev, watcher, notified, pc, must, rev, reply>>
      BY <2>3 DEF Build, watch, locals
    <3> QED BY <3>1 DEF FreshInv, Bounded, Checked, WaitersKnown, TrustCovers, RevCovers,
                        ScanCounts, ReplyCovers
  <2>4. CASE Budget(t)
    BY <2>4, ReturnFresh DEF Budget, watch
  <2> QED BY <1>1, <2>1, <2>2, <2>3, <2>4 DEF Locked
<1>2. CASE PrewarmThread
  <2>1. Prewarmer \in Threads
    BY DEF Threads
  <2>2. CASE PrewarmFails
    BY <2>1, <2>2, ReturnFresh DEF PrewarmFails, context, watch
  <2> QED BY <1>1, <1>2, <2>1, <2>2, PrewarmFresh DEF PrewarmThread
<1>3. ASSUME NEW w \in Workers, Begin(w) \/ Worker(w) PROVE FreshInv'
  <2>1. w \in Threads
    BY DEF Threads
  <2>2. CASE ScanFails(w) \/ BuildFails(w) \/ TargetNotFound(w)
    BY <2>1, <2>2, ReturnFresh DEF ScanFails, BuildFails, TargetNotFound, context, watch
  <2> QED BY <1>1, <1>3, <2>1, <2>2, StartFresh, AnswerFresh DEF Worker
<1>4. CASE Edit \/ Lapse \/ Watcher
  BY <1>4, EnvironmentFresh
<1>5. CASE UNCHANGED vars
  BY <1>5 DEF vars, context, watch, locals, FreshInv, Bounded, Checked, WaitersKnown,
              TrustCovers, RevCovers, ScanCounts, ReplyCovers
<1> QED BY <1>2, <1>3, <1>4, <1>5 DEF Next

(* An answer's revision covers every change the watcher had reported when   *)
(* the request arrived, and every change at all once the watcher has        *)
(* failed, for any number of threads, projects and edits.                   *)
THEOREM NoStaleReplyHolds == Spec => []NoStaleReply
<1>1. Spec => [](TypeInv /\ OpenedInv /\ FreshInv)
  BY InitTyped, TypeStep, FreshInit, FreshStep, PTL DEF Spec
<1>2. TypeInv /\ FreshInv => NoStaleReply
  <2> SUFFICES ASSUME TypeInv, FreshInv, NEW w \in Workers, reply[w] # None
               PROVE  reply[w].rev >= must[w]
    BY DEF NoStaleReply
  <2>1. w \in Threads
    BY DEF Threads
  <2>2. must[w] <= reply[w].rev
    BY <2>1 DEF FreshInv, ReplyCovers
  <2>3. reply[w].rev \in Nat
    BY <2>1 DEF TypeInv, TypeOfThreads, Replies, Versions
  <2> QED BY <2>1, <2>2, <2>3, Numbers
<1> QED BY <1>1, <1>2, PTL

-----------------------------------------------------------------------------
(* What an answer of `find` is made of: the registry there is, or an answer *)
(* prepared for the same revision and project.                              *)
RegistryRead  == registry # None => registry.rev <= registry.content
PreparedMatch ==
    \A k \in DOMAIN prepared : k.kind = "find" =>
        prepared[k].project = k.project /\ k.rev <= prepared[k].content
AskedSelected ==
    \A t \in Threads : pc[t] \in {"handle", "budget"} => Asked(t) = None \/ Asked(t) = project
FoundMatch ==
    \A t \in Threads :
        reply[t] # None /\ reply[t].kind = "find" =>
            /\ reply[t].body.project = reply[t].project
            /\ reply[t].rev <= reply[t].body.content
            /\ req[t].project # None => reply[t].project = req[t].project
EnvelopeInv == RegistryRead /\ PreparedMatch /\ AskedSelected /\ FoundMatch

(* What answering does to the answers, prepared and sent.                   *)
LEMMA RespondMoves ==
    ASSUME TypeInv, NEW w \in Threads, NEW body, NEW f, Respond(w, body, f)
    PROVE  /\ Goto(w, "budget") /\ focus' = f /\ UNCHANGED <<registry, req, project>>
           /\ \A u \in Threads : u # w => reply'[u] = reply[u]
           /\ reply'[w].kind = req[w].kind /\ reply'[w].rev = rev[w]
           /\ reply'[w].project = project /\ reply'[w].body = prepared'[Key(w)]
           /\ DOMAIN prepared' = DOMAIN prepared \cup {Key(w)}
           /\ \A k \in DOMAIN prepared : prepared'[k] = prepared[k]
           /\ Key(w) \notin DOMAIN prepared => prepared'[Key(w)] = body
<1> DEFINE b == IF Key(w) \in DOMAIN prepared THEN prepared[Key(w)] ELSE body
           r == [kind |-> req[w].kind, rev |-> rev[w], project |-> project,
                 body |-> b, focus |-> f]
<1>1. /\ reply' = [reply EXCEPT ![w] = r]
      /\ prepared' = [k \in DOMAIN prepared \cup {Key(w)} |->
                        IF k = Key(w) THEN b ELSE prepared[k]]
      /\ Goto(w, "budget") /\ focus' = f /\ UNCHANGED <<registry, req, project>>
  BY DEF Respond
<1>2. r.kind = req[w].kind /\ r.rev = rev[w] /\ r.project = project /\ r.body = b
  OBVIOUS
<1>3. /\ \A k \in DOMAIN prepared : k = Key(w) => b = prepared[k]
      /\ Key(w) \notin DOMAIN prepared => b = body
  OBVIOUS
<1> HIDE DEF b, r
<1>4. DOMAIN prepared' = DOMAIN prepared \cup {Key(w)} /\ prepared'[Key(w)] = b
  BY <1>1
<1>5. \A k \in DOMAIN prepared : prepared'[k] = prepared[k]
  BY <1>1, <1>3
<1>6. reply'[w] = r /\ \A u \in Threads : u # w => reply'[u] = reply[u]
  BY <1>1 DEF TypeInv, TypeOfThreads
<1> QED BY <1>1, <1>2, <1>3, <1>4, <1>5, <1>6

(* A call that ends, whatever it drops.                                     *)
LEMMA ReturnEnvelope ==
    ASSUME TypeInv, EnvelopeInv, NEW t \in Threads, Return(t), project' = project,
           registry' \in {registry, None}, prepared' = prepared \/ prepared' = [k \in NoKeys |-> 0]
    PROVE  EnvelopeInv'
<1>1. RegistryRead'
  BY DEF EnvelopeInv, RegistryRead
<1>2. PreparedMatch'
  BY DEF EnvelopeInv, PreparedMatch, NoKeys
<1>3. \A u \in Threads : u # t => req'[u] = req[u]
  BY DEF Return, TypeInv, TypeOfThreads
<1>4. AskedSelected' /\ FoundMatch'
  BY <1>3, ReturnMoves DEF EnvelopeInv, AskedSelected, Asked, FoundMatch
<1> QED BY <1>1, <1>2, <1>4 DEF EnvelopeInv

(* An answer is filed under the key of what it was computed from.           *)
LEMMA AnswerEnvelope ==
    ASSUME TypeInv, EnvelopeInv, NEW w \in Workers, Find(w) \/ Open(w) \/ FocusRequest(w)
    PROVE  EnvelopeInv'
<1>1. w \in Threads /\ pc[w] = "handle"
  BY DEF Threads, Find, Open, FocusRequest, Ready, At
<1>2. PICK body, f :
        /\ Respond(w, body, f)
        /\ req[w].kind = "find" => body.project = project /\ rev[w] <= body.content
  <2>1. CASE Find(w)
    <3>1. registry # None /\ registry.project = project /\ registry.rev = rev[w]
      BY <2>1 DEF Find, Ready, NeedsRegistry, HasRegistry
    <3> QED BY <2>1, <3>1 DEF Find, EnvelopeInv, RegistryRead
  <2>2. CASE Open(w) \/ FocusRequest(w)
    BY <2>2 DEF Open, FocusRequest
  <2> QED BY <2>1, <2>2
<1>3. /\ Key(w).kind = req[w].kind /\ Key(w).rev = rev[w] /\ Key(w).project = project
  BY DEF Key
<1>4. /\ Goto(w, "budget") /\ UNCHANGED <<registry, req, project>>
      /\ \A u \in Threads : u # w => reply'[u] = reply[u]
      /\ reply'[w].kind = req[w].kind /\ reply'[w].rev = rev[w]
      /\ reply'[w].project = project /\ reply'[w].body = prepared'[Key(w)]
      /\ DOMAIN prepared' = DOMAIN prepared \cup {Key(w)}
      /\ \A k \in DOMAIN prepared : prepared'[k] = prepared[k]
      /\ Key(w) \notin DOMAIN prepared => prepared'[Key(w)] = body
  BY <1>1, <1>2, RespondMoves
<1>5. RegistryRead'
  BY <1>4 DEF EnvelopeInv, RegistryRead
<1>6. PreparedMatch'
  BY <1>2, <1>3, <1>4 DEF EnvelopeInv, PreparedMatch
<1>7. pc'[w] = "budget" /\ \A u \in Threads : u # w => pc'[u] = pc[u]
  BY <1>1, <1>4, GotoMoves
<1>8. AskedSelected'
  BY <1>1, <1>4, <1>7 DEF EnvelopeInv, AskedSelected, Asked
<1>9. Asked(w) = None \/ Asked(w) = project
  BY <1>1 DEF EnvelopeInv, AskedSelected
<1>10. req[w].kind = "find" =>
         prepared'[Key(w)].project = project /\ rev[w] <= prepared'[Key(w)].content
  BY <1>3, <1>4, <1>6 DEF PreparedMatch
<1>11. FoundMatch'
  BY <1>1, <1>4, <1>9, <1>10 DEF EnvelopeInv, FoundMatch, Asked
<1> QED BY <1>5, <1>6, <1>8, <1>11 DEF EnvelopeInv

(* A step within a call that reads, selects or builds.                      *)
LEMMA LockedEnvelope ==
    ASSUME TypeInv, FreshInv, EnvelopeInv, NEW t \in Threads,
           Refresh(t) \/ Scan(t) \/ Apply(t) \/ Build(t)
    PROVE  EnvelopeInv'
<1>1. UNCHANGED <<req, reply>>
  BY DEF Refresh, Scan, Apply, Build, locals
<1>2. FoundMatch'
  BY <1>1 DEF EnvelopeInv, FoundMatch
<1>3. CASE Refresh(t) \/ Scan(t)
  <2>1. /\ pc[t] \in {"refresh", "scan"} /\ UNCHANGED <<registry, prepared, project>>
        /\ \E l \in {"scan", "apply", "handle"} :
             Goto(t, l) /\ (l = "handle" => ~SelectionChanges(t))
    BY <1>3 DEF Refresh, Scan, At, context
  <2>2. /\ pc'[t] = "handle" => ~SelectionChanges(t)
        /\ pc'[t] # "budget"
        /\ \A u \in Threads : u # t => pc'[u] = pc[u]
    BY <2>1, GotoMoves
  <2>3. AskedSelected'
    BY <1>1, <2>1, <2>2 DEF EnvelopeInv, AskedSelected, SelectionChanges, Asked
  <2>4. RegistryRead' /\ PreparedMatch'
    BY <2>1 DEF EnvelopeInv, RegistryRead, PreparedMatch
  <2> QED BY <1>2, <2>3, <2>4 DEF EnvelopeInv
<1>4. CASE Apply(t)
  <2>1. /\ pc[t] = "apply" /\ Goto(t, "handle") /\ project' = Selected(t)
        /\ registry' \in {registry, None}
        /\ prepared' = prepared \/ prepared' = [k \in NoKeys |-> 0]
    BY <1>4 DEF Apply, At
  <2>2. \A u \in Threads : u # t => pc'[u] \in {"idle", "watch", "lock"}
    BY <2>1, GotoMoves, OneInside
  <2>3. AskedSelected'
    BY <1>1, <2>1, <2>2 DEF AskedSelected, Selected, Asked
  <2>4. RegistryRead' /\ PreparedMatch'
    BY <2>1 DEF EnvelopeInv, RegistryRead, PreparedMatch, NoKeys
  <2> QED BY <1>2, <2>3, <2>4 DEF EnvelopeInv
<1>5. CASE Build(t)
  <2>1. /\ UNCHANGED <<prepared, project, pc>>
        /\ registry' = [project |-> project, rev |-> rev[t], content |-> disk]
    BY <1>5 DEF Build
  <2>2. RegistryRead'
    BY <2>1 DEF FreshInv, Bounded, RegistryRead
  <2>3. PreparedMatch' /\ AskedSelected'
    BY <1>1, <2>1 DEF EnvelopeInv, PreparedMatch, AskedSelected, Asked
  <2> QED BY <1>2, <2>2, <2>3 DEF EnvelopeInv
<1> QED BY <1>3, <1>4, <1>5

(* What leaves the answers and the project alone.                           *)
LEMMA QuietEnvelope ==
    ASSUME TypeInv, OpenedInv, FreshInv, EnvelopeInv,
           \/ Edit \/ Lapse \/ Watcher \/ TakeLock(Prewarmer) \/ OpenContext \/ Prewarmed
           \/ UNCHANGED vars
           \/ \E w \in Workers : Begin(w) \/ CheckWatcher(w) \/ TakeLock(w)
    PROVE  EnvelopeInv'
<1>1. Prewarmer \in Threads
  BY DEF Threads
<1>2. CASE Edit \/ Lapse \/ Watcher \/ UNCHANGED vars
  <2>1. UNCHANGED <<registry, prepared, project, pc, req, reply>>
    BY <1>2 DEF Edit, Lapse, Watcher, WatcherStarts, WatcherReports, WatcherDies, WatcherFails,
                Invalidate, KeepCaches, vars, context, watch, locals
  <2> QED BY <2>1 DEF EnvelopeInv, RegistryRead, PreparedMatch, AskedSelected, Asked, FoundMatch
<1>3. CASE OpenContext
  <2>1. pc[Prewarmer] = "open" /\ Goto(Prewarmer, "refresh") /\ UNCHANGED <<registry, prepared, req, reply>>
    BY <1>3 DEF OpenContext, At, locals
  <2>2. pc'[Prewarmer] = "refresh" /\ \A u \in Threads : pc'[u] \notin {"handle", "budget"}
    BY <1>1, <2>1, GotoMoves, OneInside
  <2>3. RegistryRead' /\ PreparedMatch' /\ FoundMatch'
    BY <2>1 DEF EnvelopeInv, RegistryRead, PreparedMatch, FoundMatch
  <2> QED BY <2>2, <2>3 DEF EnvelopeInv, AskedSelected
<1>4. CASE TakeLock(Prewarmer) \/ Prewarmed
  <2>1. /\ UNCHANGED <<registry, prepared, project, req, reply>>
        /\ \/ Goto(Prewarmer, "open")
           \/ pc[Prewarmer] = "handle" /\ Goto(Prewarmer, "budget")
    BY <1>4 DEF TakeLock, Prewarmed, Ready, At, context, locals
  <2>2. \A u \in Threads : pc'[u] \in {"handle", "budget"} => pc[u] \in {"handle", "budget"}
    BY <1>1, <2>1, GotoMoves
  <2>3. AskedSelected'
    BY <2>1, <2>2 DEF EnvelopeInv, AskedSelected, Asked
  <2> QED BY <2>1, <2>3 DEF EnvelopeInv, RegistryRead, PreparedMatch, FoundMatch
<1>5. ASSUME NEW w \in Workers, Begin(w) \/ CheckWatcher(w) \/ TakeLock(w) PROVE EnvelopeInv'
  <2>1. w \in Threads
    BY DEF Threads
  <2>2. /\ UNCHANGED <<registry, prepared, project, reply>>
        /\ \E l \in {"watch", "lock", "open", "refresh"} : Goto(w, l)
        /\ pc[w] \in {"idle", "watch", "lock"}
    BY <1>5 DEF Begin, CheckWatcher, TakeLock, At, KeepCaches, context, locals
  <2>3. pc'[w] \notin {"handle", "budget"} /\ \A u \in Threads : u # w => pc'[u] = pc[u]
    BY <2>1, <2>2, GotoMoves
  <2>4. req' = req \/ \E r : req' = [req EXCEPT ![w] = r]
    BY <1>5 DEF Begin, CheckWatcher, TakeLock, locals
  <2>5. \A u \in Threads : u # w => req'[u] = req[u]
    BY <2>1, <2>4 DEF TypeInv, TypeOfThreads
  <2>6. reply[w] = None
    BY <2>1, <2>2 DEF FreshInv, ReplyCovers
  <2>7. FoundMatch'
    BY <2>2, <2>5, <2>6 DEF EnvelopeInv, FoundMatch
  <2>8. AskedSelected'
    BY <2>2, <2>3, <2>5 DEF EnvelopeInv, AskedSelected, Asked
  <2> QED BY <2>2, <2>7, <2>8 DEF EnvelopeInv, RegistryRead, PreparedMatch
<1> QED BY <1>2, <1>3, <1>4, <1>5

(* Symbols come from the project the request selected, and from sources at  *)
(* least as new as the revision the answer is labelled with.                *)
THEOREM FindMatchesEnvelopeHolds == Spec => []FindMatchesEnvelope
<1>1. Init => EnvelopeInv
  <2> SUFFICES ASSUME Init PROVE EnvelopeInv
    OBVIOUS
  <2>1. /\ registry = None /\ DOMAIN prepared = {}
        /\ \A t \in Threads : reply[t] = None /\ pc[t] \in {"lock", "idle"}
    BY DEF Init, NoKeys
  <2> QED BY <2>1 DEF EnvelopeInv, RegistryRead, PreparedMatch, AskedSelected, FoundMatch
<1>2. TypeInv /\ OpenedInv /\ FreshInv /\ EnvelopeInv /\ [Next]_vars => EnvelopeInv'
  <2> SUFFICES ASSUME TypeInv, OpenedInv, FreshInv, EnvelopeInv, [Next]_vars PROVE EnvelopeInv'
    OBVIOUS
  <2>1. ASSUME NEW t \in Threads, Locked(t) PROVE EnvelopeInv'
    <3>1. CASE Budget(t)
      <4>1. /\ Return(t) /\ project' = project /\ registry' \in {registry, None}
            /\ prepared' = prepared \/ prepared' = [k \in NoKeys |-> 0]
        BY <3>1 DEF Budget, Within, DropAuxiliary, DropNavigation
      <4> QED BY <4>1, ReturnEnvelope
    <3> QED BY <2>1, <3>1, LockedEnvelope DEF Locked
  <2>2. CASE PrewarmThread
    <3>1. Prewarmer \in Threads
      BY DEF Threads
    <3>2. CASE PrewarmFails
      BY <3>1, <3>2, ReturnEnvelope DEF PrewarmFails, context
    <3> QED BY <2>1, <2>2, <3>1, <3>2, QuietEnvelope DEF PrewarmThread
  <2>3. ASSUME NEW w \in Workers, Begin(w) \/ Worker(w) PROVE EnvelopeInv'
    <3>1. w \in Threads
      BY DEF Threads
    <3>2. CASE ScanFails(w) \/ BuildFails(w) \/ TargetNotFound(w)
      BY <3>1, <3>2, ReturnEnvelope DEF ScanFails, BuildFails, TargetNotFound, context
    <3> QED BY <2>1, <2>3, <3>1, <3>2, QuietEnvelope, AnswerEnvelope DEF Worker
  <2>4. CASE Edit \/ Lapse \/ Watcher \/ UNCHANGED vars
    BY <2>4, QuietEnvelope
  <2> QED BY <2>2, <2>3, <2>4 DEF Next
<1>3. TypeInv /\ EnvelopeInv => FindMatchesEnvelope
  <2> SUFFICES ASSUME TypeInv, EnvelopeInv, NEW w \in Workers,
                      reply[w] # None, reply[w].kind = "find"
               PROVE  /\ reply[w].body.project = reply[w].project
                      /\ reply[w].body.content >= reply[w].rev
                      /\ req[w].project # None => reply[w].project = req[w].project
    BY DEF FindMatchesEnvelope
  <2>1. w \in Threads
    BY DEF Threads
  <2> QED BY <2>1 DEF EnvelopeInv, FoundMatch
<1>4. Spec => [](TypeInv /\ OpenedInv /\ FreshInv /\ EnvelopeInv)
  BY <1>1, <1>2, InitTyped, TypeStep, FreshInit, FreshStep, PTL DEF Spec
<1> QED BY <1>3, <1>4, PTL

-----------------------------------------------------------------------------
(* The focus.  A registry and a focus on a target that is not in it never   *)
(* meet: whoever replaces the registry looks the target up in it.           *)
LEMMA FocusStep == TypeInv /\ FocusResolves /\ [Next]_vars => FocusResolves'
<1> SUFFICES ASSUME TypeInv, FocusResolves, [Next]_vars PROVE FocusResolves'
  OBVIOUS
<1>1. ASSUME NEW t \in Threads, Locked(t) PROVE FocusResolves'
  <2>1. CASE Refresh(t) \/ Scan(t)
    BY <2>1 DEF Refresh, Scan, context, FocusResolves
  <2>2. CASE Apply(t)
    <3>1. registry' = None \/ UNCHANGED <<registry, focus>>
      BY <2>2 DEF Apply
    <3> QED BY <3>1 DEF FocusResolves
  <2>3. CASE Build(t)
    <3>1. /\ registry' = [project |-> project, rev |-> rev[t], content |-> disk]
          /\ ~Exists(disk) => focus' = [focus EXCEPT !.target = None]
      BY <2>3 DEF Build
    <3>2. registry'.content = disk
      BY <3>1
    <3>3. ~Exists(disk) => focus'.target = None
      BY <3>1 DEF TypeInv, TypeOfCaches, Focuses
    <3> QED BY <3>2, <3>3 DEF FocusResolves
  <2>4. CASE Budget(t)
    <3>1. registry' \in {registry, None} /\ focus' = focus
      BY <2>4 DEF Budget, Within, DropAuxiliary, DropNavigation
    <3> QED BY <3>1 DEF FocusResolves
  <2> QED BY <1>1, <2>1, <2>2, <2>3, <2>4 DEF Locked
<1>2. ASSUME NEW w \in Workers, Find(w) \/ Open(w) \/ FocusRequest(w) PROVE FocusResolves'
  <2>1. w \in Threads
    BY DEF Threads
  <2>2. CASE Find(w) \/ Open(w)
    <3>1. PICK body : Respond(w, body, focus)
      BY <2>2 DEF Find, Open
    <3>2. UNCHANGED <<registry, focus>>
      BY <2>1, <3>1, RespondMoves
    <3> QED BY <3>2 DEF FocusResolves
  <2>3. CASE FocusRequest(w)
    <3>1. /\ Respond(w, NewFocus(w), NewFocus(w)) /\ req[w].kind \in {"focus", "focusTarget"}
          /\ req[w].kind = "focusTarget" => Exists(registry.content)
      BY <2>3 DEF FocusRequest
    <3>2. registry' = registry /\ focus' = NewFocus(w)
      BY <2>1, <3>1, RespondMoves
    <3>3. CASE req[w].kind = "focusTarget"
      BY <3>1, <3>2, <3>3 DEF FocusResolves
    <3>4. CASE req[w].kind = "focus"
      <4>1. NewFocus(w) \in {focus, [project |-> project, target |-> None]}
        BY <3>4 DEF NewFocus
      <4> QED BY <3>2, <4>1 DEF FocusResolves
    <3> QED BY <3>1, <3>3, <3>4
  <2> QED BY <1>2, <2>2, <2>3
<1>3. CASE PrewarmThread
  <2>1. Prewarmer \in Threads
    BY DEF Threads
  <2>2. CASE OpenContext
    BY <2>2 DEF OpenContext, FocusResolves
  <2>3. CASE TakeLock(Prewarmer) \/ Prewarmed \/ PrewarmFails
    BY <2>3 DEF TakeLock, Prewarmed, PrewarmFails, context, FocusResolves
  <2> QED BY <1>1, <1>3, <2>1, <2>2, <2>3 DEF PrewarmThread
<1>4. ASSUME NEW w \in Workers, Begin(w) \/ Worker(w) PROVE FocusResolves'
  <2>1. w \in Threads
    BY DEF Threads
  <2>2. CASE Begin(w) \/ CheckWatcher(w) \/ TakeLock(w) \/ ScanFails(w) \/ TargetNotFound(w)
    BY <2>2 DEF Begin, CheckWatcher, TakeLock, ScanFails, TargetNotFound, KeepCaches, context,
                FocusResolves
  <2>3. CASE BuildFails(w)
    <3>1. registry' = registry /\ focus' \in {focus, [project |-> project, target |-> None]}
      BY <2>3 DEF BuildFails
    <3> QED BY <3>1 DEF FocusResolves
  <2> QED BY <1>1, <1>2, <1>4, <2>1, <2>2, <2>3 DEF Worker
<1>5. CASE Edit \/ Lapse \/ Watcher \/ UNCHANGED vars
  BY <1>5 DEF Edit, Lapse, Watcher, WatcherStarts, WatcherReports, WatcherDies, WatcherFails,
              KeepCaches, vars, context, FocusResolves
<1> QED BY <1>3, <1>4, <1>5 DEF Next

(* A focused target can always be resolved in the registry that is there,   *)
(* whatever was edited, evicted and built again since it was focused.       *)
THEOREM FocusResolvesHolds == Spec => []FocusResolves
<1>1. Init => FocusResolves
  BY DEF Init, FocusResolves
<1>2. Spec => [](TypeInv /\ OpenedInv /\ FocusResolves)
  BY <1>1, InitTyped, TypeStep, FocusStep, PTL DEF Spec
<1> QED BY <1>2, PTL

(* What may take a focus away.                                              *)
FocusMayMove ==
    focus' # focus =>
        \/ project' # project
        \/ \E w \in Workers : lock = w /\ req[w].kind \in {"focus", "focusTarget"}
        \/ registry' # None /\ ~Exists(registry'.content)

(* Every step obeys it.                                                     *)
LEMMA FocusMoves == TypeInv /\ OpenedInv /\ [Next]_vars => FocusMayMove
<1> SUFFICES ASSUME TypeInv, OpenedInv, [Next]_vars, focus' # focus
             PROVE  \/ project' # project
                    \/ \E w \in Workers : lock = w /\ req[w].kind \in {"focus", "focusTarget"}
                    \/ registry' # None /\ ~Exists(registry'.content)
  BY DEF FocusMayMove
<1>1. ASSUME NEW t \in Threads, Locked(t)
      PROVE  project' # project \/ (registry' # None /\ ~Exists(registry'.content))
  <2>1. ~(Refresh(t) \/ Scan(t) \/ Budget(t))
    BY DEF Refresh, Scan, Budget, Within, DropAuxiliary, DropNavigation, context
  <2>2. CASE Apply(t)
    BY <2>2 DEF Apply
  <2>3. CASE Build(t)
    <3>1. registry' = [project |-> project, rev |-> rev[t], content |-> disk] /\ ~Exists(disk)
      BY <2>3 DEF Build
    <3>2. registry'.content = disk
      BY <3>1
    <3>3. registry' # None
      <4>1. pc[t] = "handle"
        BY <2>3 DEF Build, At
      <4>2. project \in Projects
        BY <4>1, InCall
      <4>3. registry' \in Registries
        BY <3>1, <4>2 DEF Registries, TypeInv, TypeOfSources, TypeOfThreads
      <4> QED BY <4>3, RegistryAssumption
    <3> QED BY <3>1, <3>2, <3>3
  <2> QED BY <1>1, <2>1, <2>2, <2>3 DEF Locked
<1>2. ASSUME NEW w \in Workers, Find(w) \/ Open(w) \/ FocusRequest(w) \/ BuildFails(w)
      PROVE  lock = w /\ req[w].kind \in {"focus", "focusTarget"}
  <2>1. w \in Threads
    BY DEF Threads
  <2>2. pc[w] = "handle"
    BY <1>2 DEF Find, Open, FocusRequest, BuildFails, Ready, At
  <2>3. lock = w
    BY <2>1, <2>2 DEF TypeInv, LockHeld
  <2>4. ~(Find(w) \/ Open(w))
    <3> SUFFICES ASSUME Find(w) \/ Open(w) PROVE focus' = focus
      OBVIOUS
    <3>1. PICK body : Respond(w, body, focus)
      BY DEF Find, Open
    <3> QED BY <2>1, <3>1, RespondMoves
  <2> QED BY <1>2, <2>3, <2>4 DEF FocusRequest, BuildFails
<1>3. CASE PrewarmThread
  <2>1. Prewarmer \in Threads
    BY DEF Threads
  <2>2. ~(TakeLock(Prewarmer) \/ Prewarmed \/ PrewarmFails)
    BY DEF TakeLock, Prewarmed, PrewarmFails, context
  <2>3. CASE OpenContext
    BY <2>3 DEF OpenContext, At, OpenedInv
  <2> QED BY <1>1, <1>3, <2>1, <2>2, <2>3 DEF PrewarmThread
<1>4. ASSUME NEW w \in Workers, Begin(w) \/ Worker(w)
      PROVE  \/ project' # project
             \/ lock = w /\ req[w].kind \in {"focus", "focusTarget"}
             \/ registry' # None /\ ~Exists(registry'.content)
  <2>1. w \in Threads
    BY DEF Threads
  <2>2. ~(Begin(w) \/ CheckWatcher(w) \/ TakeLock(w) \/ ScanFails(w) \/ TargetNotFound(w))
    BY DEF Begin, CheckWatcher, TakeLock, ScanFails, TargetNotFound, KeepCaches, context
  <2> QED BY <1>1, <1>2, <1>4, <2>1, <2>2 DEF Worker
<1>5. ~(Edit \/ Lapse \/ Watcher \/ UNCHANGED vars)
  BY DEF Edit, Lapse, Watcher, WatcherStarts, WatcherReports, WatcherDies, WatcherFails,
         KeepCaches, vars, context
<1> QED BY <1>3, <1>4, <1>5 DEF Next

(* The focus is only lost to a focus request, a change of project or a      *)
(* registry without its target: neither an edit nor a compaction drops it.  *)
THEOREM FocusKeptHolds == Spec => FocusKept
<1>1. Spec => [](TypeInv /\ OpenedInv)
  BY InitTyped, TypeStep, PTL DEF Spec
<1>2. TypeInv /\ OpenedInv /\ [Next]_vars => [FocusMayMove]_vars
  BY FocusMoves
<1>3. Spec => [][FocusMayMove]_vars
  BY <1>1, <1>2, PTL DEF Spec
<1> QED BY <1>3 DEF FocusKept, FocusMayMove

=============================================================================
