---------------------------- MODULE CacheService ----------------------------
(***************************************************************************)
(* Inside one cache daemon: _CacheService of src/delphi_lsp/agent_cache.py *)
(* and the AgentContext it guards (src/delphi_lsp/agent_context.py).       *)
(* Request threads of the connection pool and the prewarm thread take      *)
(* turns on one lock; the watcher thread invalidates the revision without  *)
(* it; files change at any time.                                           *)
(*                                                                         *)
(* The sources are abstracted to a version number: every edit makes the    *)
(* next version, and a revision (a fingerprint of the files) is the        *)
(* version that was fingerprinted.  What a request returns is abstracted   *)
(* to what it was computed from.  Revision check and write-back of         *)
(* _refresh_workspace are one step, as they are under CPython's lock: no   *)
(* call and no backward jump lies between them.                            *)
(***************************************************************************)
EXTENDS Naturals, FiniteSets

CONSTANTS
    Workers,      \* threads of the connection pool
    Prewarmer,    \* the prewarm thread
    Projects,     \* projects of the workspace
    FirstProject, \* the project that is selected when the workspace is opened (there always is one)
    None,         \* no project, no target, no registry, no reply
    Target,       \* a symbol a request may focus
    Lost,         \* the versions of the sources in which Target does not exist
    Kinds,        \* the kinds of requests clients send
    MaxEdits      \* BOUND: edits of the sources

ASSUME ThreadAssumption  == Prewarmer \notin Workers /\ None \notin Workers \cup {Prewarmer}
ASSUME ProjectAssumption == FirstProject \in Projects /\ None \notin Projects
ASSUME TargetAssumption  == Target # None
ASSUME VersionAssumption == MaxEdits \in Nat /\ Lost \subseteq Nat
ASSUME KindAssumption    == Kinds \subseteq {"find", "open", "focus", "focusTarget"}

VARIABLES
    disk,       \* the current version of the sources
    lapsed,     \* the revision check interval has passed, or was cancelled
    invalidated, \* _revision_epoch has moved since the last refresh noted it
    lastRev,    \* _last_revision
    project,    \* the workspace's active project
    result,     \* the workspace still has its _active_result
    registry,   \* _registry: the project and revision it is for, the version it was read from
    prepared,   \* _prepared_response_cache: what was computed for a request
    focus,      \* _focus: a project and a target
    opened,     \* the context exists: context_ready
    watcher,    \* the watcher thread
    pending,    \* changes the watcher has seen and not yet reported
    notified,   \* history: the version of the sources when it last reported
    state,      \* cache_state
    lock,       \* the holder of the service's lock
    pc,         \* the next step of a thread
    req,        \* local: the request a thread handles
    must,       \* history: the version an answer has to know of
    rev,        \* local: the revision of the refresh
    reply       \* local: the answer a worker is about to send

context == <<lapsed, invalidated, lastRev, project, result, registry, prepared, focus, opened>>
watch   == <<watcher, pending, notified>>
locals  == <<req, must, rev, reply>>
vars    == <<disk, context, watch, state, lock, pc, locals>>

Threads  == Workers \cup {Prewarmer}
Versions == 0..MaxEdits
Exists(v) == v \notin Lost
Focuses  == [project : Projects \cup {None}, target : {Target, None}]
Requests == [kind : Kinds, project : Projects \cup {None}]
Prewarm  == [kind |-> "prewarm", project |-> None]
NoKeys   == {}

(* A cached answer is keyed by revision and request fingerprint.  The       *)
(* fingerprint holds the action, the active project and the target asked    *)
(* for; not the project asked for, and not the focus.                       *)
Key(t) == [rev |-> rev[t], project |-> project, kind |-> req[t].kind]
Keys   == [rev : Versions, project : Projects, kind : Kinds]
Registries == [project : Projects, rev : Versions, content : Versions]
ASSUME RegistryAssumption == None \notin Registries
Problems == [complete : BOOLEAN]
Bodies == Registries \cup Problems \cup Focuses
Replies == [kind : Kinds, rev : Versions, project : Projects, body : Bodies, focus : Focuses]

Goto(t, l) == pc' = [pc EXCEPT ![t] = l]

(* The call is over: its locals are gone.                                   *)
Return(t) ==
    /\ Goto(t, "idle")
    /\ req' = [req EXCEPT ![t] = Prewarm] /\ must' = [must EXCEPT ![t] = 0]
    /\ rev' = [rev EXCEPT ![t] = 0]
    /\ reply' = [reply EXCEPT ![t] = None]

At(t, l)   == pc[t] = l

Init ==
    /\ disk = 0
    /\ lapsed = TRUE /\ invalidated = FALSE /\ lastRev = 0 /\ project = None /\ result = FALSE
    /\ registry = None /\ prepared = [k \in NoKeys |-> 0]
    /\ focus = [project |-> None, target |-> None] /\ opened = FALSE
    /\ watcher = "waiting" /\ pending = FALSE /\ notified = 0
    /\ state = "warming" /\ lock = None
    /\ pc = [t \in Threads |-> IF t = Prewarmer THEN "lock" ELSE "idle"]
    /\ req = [t \in Threads |-> Prewarm]
    /\ must = [t \in Threads |-> 0]
    /\ rev = [t \in Threads |-> 0]
    /\ reply = [t \in Threads |-> None]

-----------------------------------------------------------------------------
(* Files and time.                                                          *)

Edit ==
    /\ disk < MaxEdits
    /\ disk' = disk + 1
    /\ pending' = (pending \/ watcher = "watching")
    /\ UNCHANGED <<context, watcher, notified, state, lock, pc, locals>>

(* An hour passes (_CACHE_REVISION_CHECK_INTERVAL_SECONDS).                 *)
Lapse ==
    /\ opened /\ ~lapsed
    /\ lapsed' = TRUE
    /\ UNCHANGED <<disk, invalidated, lastRev, project, result, registry, prepared, focus,
                   opened, watch, state, lock, pc, locals>>

-----------------------------------------------------------------------------
(* The watcher thread.                                                      *)

(* invalidate_revision_cache *)
Invalidate == invalidated' = TRUE /\ lapsed' = TRUE
KeepCaches == UNCHANGED <<lastRev, project, result, registry, prepared, focus, opened>>

(* _watch_workspace waits for the context, then watch() registers.          *)
WatcherStarts ==
    /\ watcher = "waiting" /\ opened
    /\ watcher' = "watching"
    /\ UNCHANGED <<disk, context, pending, notified, state, lock, pc, locals>>

WatcherReports ==
    /\ watcher = "watching" /\ pending
    /\ Invalidate /\ KeepCaches
    /\ pending' = FALSE /\ notified' = disk
    /\ UNCHANGED <<disk, watcher, state, lock, pc, locals>>

(* watch() raises, at registration or later: the watcher invalidates once   *)
(* more, and the thread's `finally` sets watcher_failed after that.         *)
WatcherDies ==
    /\ watcher = "watching" \/ (watcher = "waiting" /\ opened)
    /\ watcher' = "dying"
    /\ Invalidate /\ KeepCaches
    /\ pending' = FALSE /\ notified' = disk
    /\ UNCHANGED <<disk, state, lock, pc, locals>>

WatcherFails ==
    /\ watcher = "dying"
    /\ watcher' = "failed"
    /\ UNCHANGED <<disk, context, pending, notified, state, lock, pc, locals>>

-----------------------------------------------------------------------------
(* The prewarm thread.                                                      *)

(* _initialize_context: the workspace is scanned, then the context takes    *)
(* the scan for a revision check made now.                                  *)
OpenContext ==
    /\ At(Prewarmer, "open")
    /\ opened' = TRUE /\ lapsed' = FALSE
    /\ lastRev' = disk /\ project' = FirstProject /\ result' = TRUE
    /\ focus' = [project |-> FirstProject, target |-> None]
    /\ Goto(Prewarmer, "refresh")
    /\ UNCHANGED <<disk, invalidated, registry, prepared, watch, state, lock, locals>>

(* Any exception of prewarm: the lock is released and the state is failed.  *)
PrewarmFails ==
    /\ pc[Prewarmer] \in {"open", "refresh", "scan", "handle", "budget"}
    /\ lock' = None /\ state' = "failed"
    /\ Return(Prewarmer)
    /\ UNCHANGED <<disk, context, watch>>

-----------------------------------------------------------------------------
(* request: what happens before the lock is taken.                          *)

(* While the cache warms, or when warming failed, a request is refused and  *)
(* leaves everything as it is.                                              *)
Begin(w) ==
    /\ At(w, "idle")
    /\ state \notin {"warming", "failed"}
    /\ \E r \in Requests : req' = [req EXCEPT ![w] = r]
    /\ must' = [must EXCEPT ![w] = IF watcher = "failed" THEN disk ELSE notified]
    /\ Goto(w, "watch")
    /\ UNCHANGED <<disk, context, watch, state, lock, rev, reply>>

(* watcher_ready.wait(1 s), then distrust the revision if the watcher died. *)
CheckWatcher(w) ==
    /\ At(w, "watch")
    /\ IF watcher = "failed" THEN Invalidate ELSE UNCHANGED <<invalidated, lapsed>>
    /\ KeepCaches
    /\ Goto(w, "lock")
    /\ UNCHANGED <<disk, watch, state, lock, locals>>

-----------------------------------------------------------------------------
(* Under the lock.                                                          *)

TakeLock(t) ==
    /\ At(t, "lock") /\ lock = None
    /\ lock' = t
    /\ Goto(t, IF t = Prewarmer THEN "open" ELSE "refresh")
    /\ UNCHANGED <<disk, context, watch, state, locals>>

(* _refresh_workspace: nothing is read from the disk while the last check   *)
(* counts and no other project is asked for.                                *)
Asked(t) == req[t].project
(* A bug the properties catch: a fresh revision answers for any project.    *)
SelectionIgnored(t) == t \notin Threads
SelectionChanges(t) == Asked(t) # None /\ Asked(t) # project
Selected(t) == IF Asked(t) = None THEN project ELSE Asked(t)

Refresh(t) ==
    /\ At(t, "refresh")
    /\ IF lapsed \/ SelectionChanges(t)
       THEN /\ invalidated' = FALSE
            /\ Goto(t, "scan")
            /\ UNCHANGED rev
       ELSE /\ rev' = [rev EXCEPT ![t] = lastRev]
            /\ Goto(t, "handle")
            /\ UNCHANGED invalidated
    /\ UNCHANGED <<disk, lapsed, lastRev, project, result, registry, prepared, focus,
                   opened, watch, state, lock, req, must, reply>>

(* The index and the fingerprint taken after it are one step: nothing this  *)
(* module observes is read from the index (WorkspaceRevision keeps them     *)
(* apart).                                                                  *)
Scan(t) ==
    /\ At(t, "scan")
    /\ rev' = [rev EXCEPT ![t] = disk]
    /\ Goto(t, "apply")
    /\ UNCHANGED <<disk, context, watch, state, lock, req, must, reply>>

(* The scan raises: source_unavailable, and nothing has changed.            *)
ScanFails(w) ==
    /\ At(w, "scan")
    /\ lock' = None
    /\ Return(w)
    /\ UNCHANGED <<disk, context, watch, state>>

(* A bug the properties catch: the scan counts as a check whatever came in between. *)
ApplyAlways(t) ==
    /\ At(t, "apply")
    /\ lapsed' = FALSE
    /\ project' = Selected(t) /\ result' = TRUE
    /\ lastRev' = rev[t]
    /\ LET switch == Selected(t) # project
       IN  /\ IF switch \/ rev[t] # lastRev
              THEN registry' = None /\ prepared' = [k \in NoKeys |-> 0]
              ELSE UNCHANGED <<registry, prepared>>
           /\ focus' = IF switch THEN [project |-> Selected(t), target |-> None] ELSE focus
    /\ Goto(t, "handle")
    /\ UNCHANGED <<disk, invalidated, opened, watch, state, lock, locals>>

(* The scan counts as a check unless an invalidation came in between; a     *)
(* change of project or of revision drops what was built for the old one.   *)
Apply(t) ==
    /\ At(t, "apply")
    /\ lapsed' = (lapsed /\ invalidated)
    /\ project' = Selected(t) /\ result' = TRUE
    /\ lastRev' = rev[t]
    /\ LET switch == Selected(t) # project
       IN  /\ IF switch \/ rev[t] # lastRev
              THEN registry' = None /\ prepared' = [k \in NoKeys |-> 0]
              ELSE UNCHANGED <<registry, prepared>>
           /\ focus' = IF switch THEN [project |-> Selected(t), target |-> None] ELSE focus
    /\ Goto(t, "handle")
    /\ UNCHANGED <<disk, invalidated, opened, watch, state, lock, locals>>

-----------------------------------------------------------------------------
(* handle                                                                   *)

NeedsRegistry(t) ==
    \/ req[t].kind \in {"prewarm", "find", "focusTarget"}
    \/ req[t].kind = "focus" /\ Asked(t) # None
HasRegistry(t) ==
    registry # None /\ registry.project = project /\ registry.rev = rev[t]

(* A bug the properties catch: a target that is gone stays focused.         *)
BuildKeepingFocus(t) ==
    /\ At(t, "handle") /\ NeedsRegistry(t) /\ ~HasRegistry(t)
    /\ registry' = [project |-> project, rev |-> rev[t], content |-> disk]
    /\ UNCHANGED <<disk, lapsed, invalidated, lastRev, project, result, prepared, focus,
                   opened, watch, state, lock, pc, locals>>

(* _require_registry: read the sources as they are now; a focused target    *)
(* that is gone is dropped.                                                 *)
Build(t) ==
    /\ At(t, "handle") /\ NeedsRegistry(t) /\ ~HasRegistry(t)
    /\ registry' = [project |-> project, rev |-> rev[t], content |-> disk]
    /\ focus' = IF Exists(disk) THEN focus ELSE [focus EXCEPT !.target = None]
    /\ UNCHANGED <<disk, lapsed, invalidated, lastRev, project, result, prepared, opened,
                   watch, state, lock, pc, locals>>

(* A selected source cannot be read: source_unavailable.  The old registry  *)
(* stays; a focus on a project has been set by then.                        *)
BuildFails(w) ==
    /\ At(w, "handle") /\ NeedsRegistry(w) /\ ~HasRegistry(w)
    /\ focus' = IF req[w].kind = "focus"
                THEN [project |-> project, target |-> None] ELSE focus
    /\ lock' = None
    /\ Return(w)
    /\ UNCHANGED <<disk, lapsed, invalidated, lastRev, project, result, registry, prepared,
                   opened, watch, state>>

Ready(t) == At(t, "handle") /\ (NeedsRegistry(t) => HasRegistry(t))

(* _response: an answer prepared under the same key is used again.          *)
Respond(t, body, f) ==
    LET b == IF Key(t) \in DOMAIN prepared THEN prepared[Key(t)] ELSE body
    IN  /\ prepared' = [k \in DOMAIN prepared \cup {Key(t)} |->
                          IF k = Key(t) THEN b ELSE prepared[k]]
        /\ reply' = [reply EXCEPT ![t] = [kind |-> req[t].kind, rev |-> rev[t],
                                          project |-> project, body |-> b, focus |-> f]]
        /\ focus' = f
        /\ Goto(t, "budget")
        /\ UNCHANGED <<disk, lapsed, invalidated, lastRev, project, result, registry, opened,
                       watch, state, lock, req, must, rev>>

(* The symbols of the registry.                                             *)
Find(w) == Ready(w) /\ req[w].kind = "find" /\ Respond(w, registry, focus)

(* The workspace's problems are complete only while it has its result.      *)
Open(w) == Ready(w) /\ req[w].kind = "open" /\ Respond(w, [complete |-> result], focus)

NewFocus(w) ==
    CASE req[w].kind = "focusTarget" -> [project |-> project, target |-> Target]
      [] req[w].kind = "focus" /\ Asked(w) # None -> [project |-> project, target |-> None]
      [] OTHER -> focus

FocusRequest(w) ==
    /\ Ready(w) /\ req[w].kind \in {"focus", "focusTarget"}
    /\ req[w].kind = "focusTarget" => Exists(registry.content)
    /\ Respond(w, NewFocus(w), NewFocus(w))

(* A bug the properties catch: the lock is not released when the target is not found. *)
TargetNotFoundLocked(w) ==
    /\ Ready(w) /\ req[w].kind = "focusTarget" /\ ~Exists(registry.content)
    /\ Return(w)
    /\ UNCHANGED <<disk, context, watch, state, lock>>

(* target_not_found: no answer, and no budget check either.                 *)
TargetNotFound(w) ==
    /\ Ready(w) /\ req[w].kind = "focusTarget" /\ ~Exists(registry.content)
    /\ lock' = None
    /\ Return(w)
    /\ UNCHANGED <<disk, context, watch, state>>

(* AgentWorkspace.open selects a project and nothing deselects it, so that   *)
(* prewarming is never told project_required.                               *)
Prewarmed ==
    /\ Ready(Prewarmer) /\ req[Prewarmer].kind = "prewarm"
    /\ state' = "warm"
    /\ Goto(Prewarmer, "budget")
    /\ UNCHANGED <<disk, context, watch, lock, locals>>

-----------------------------------------------------------------------------
(* CacheBudget.enforce, the new cache_state and the release of the lock.    *)
(* What is measured is the process: any outcome is possible.                *)

Within == UNCHANGED <<registry, result, prepared, focus>>
DropAuxiliary == prepared' = [k \in NoKeys |-> 0] /\ UNCHANGED <<registry, result, focus>>
DropNavigation ==
    /\ registry' = None /\ result' = FALSE /\ prepared' = [k \in NoKeys |-> 0]
    /\ UNCHANGED focus

Budget(t) ==
    /\ At(t, "budget")
    /\ \/ Within /\ state' = IF registry # None THEN "warm" ELSE "ready"
       \/ (DropAuxiliary \/ DropNavigation) /\ state' = "compact"
    /\ lock' = None
    /\ Return(t)
    /\ UNCHANGED <<disk, lapsed, invalidated, lastRev, project, opened, watch>>

-----------------------------------------------------------------------------
Locked(t) == Refresh(t) \/ Scan(t) \/ Apply(t) \/ Build(t) \/ Budget(t)

Worker(w) == \/ CheckWatcher(w) \/ TakeLock(w) \/ Locked(w) \/ ScanFails(w)
             \/ BuildFails(w) \/ Find(w) \/ Open(w) \/ FocusRequest(w) \/ TargetNotFound(w)

PrewarmThread == \/ TakeLock(Prewarmer) \/ OpenContext \/ Locked(Prewarmer)
                 \/ Prewarmed \/ PrewarmFails

Watcher == WatcherStarts \/ WatcherReports \/ WatcherDies \/ WatcherFails

Next == \/ Edit \/ Lapse \/ Watcher \/ PrewarmThread
        \/ \E w \in Workers : Begin(w) \/ Worker(w)

Spec == Init /\ [][Next]_vars

(* Threads of a running daemon are scheduled, and threading.Lock is not     *)
(* kept from a thread for ever (strong fairness on taking it).              *)
Fairness == /\ \A w \in Workers : WF_vars(Worker(w)) /\ SF_vars(TakeLock(w))
            /\ WF_vars(PrewarmThread)
FairSpec == Spec /\ Fairness

-----------------------------------------------------------------------------
(* Properties.                                                              *)

(* Every variable stays in its domain; only one thread works under the lock *)
(* and it is the one that holds it.                                         *)
TypeOK ==
    /\ disk \in Versions /\ notified \in Versions /\ lastRev \in Versions
    /\ lapsed \in BOOLEAN /\ result \in BOOLEAN /\ opened \in BOOLEAN /\ pending \in BOOLEAN
    /\ invalidated \in BOOLEAN
    /\ project \in Projects \cup {None}
    /\ registry \in Registries \cup {None}
    /\ DOMAIN prepared \subseteq Keys
    /\ \A k \in DOMAIN prepared : prepared[k] \in Bodies
    /\ focus \in Focuses
    /\ watcher \in {"waiting", "watching", "dying", "failed"}
    /\ state \in {"warming", "warm", "ready", "compact", "failed"}
    /\ pc \in [Threads -> {"idle", "watch", "lock", "open", "refresh", "scan", "apply",
                           "handle", "budget"}]
    /\ \A t \in Threads : pc[t] \notin {"idle", "watch", "lock"} <=> lock = t
    /\ req \in [Threads -> Requests \cup {Prewarm}]
    /\ must \in [Threads -> Versions] /\ rev \in [Threads -> Versions]
    /\ reply \in [Threads -> Replies \cup {None}]

(* No invalidation is lost: an answer's revision covers every change the    *)
(* watcher had reported when the request arrived, and every change at all   *)
(* once the watcher has failed.  A refresh that overlaps the invalidation   *)
(* must not count as a check made after it.                                 *)
NoStaleReply ==
    \A w \in Workers : reply[w] # None => reply[w].rev >= must[w]

(* Symbols come from the project the request selected, and from sources at  *)
(* least as new as the revision the answer is labelled with.                *)
FindMatchesEnvelope ==
    \A w \in Workers :
        reply[w] # None /\ reply[w].kind = "find" =>
            /\ reply[w].body.project = reply[w].project
            /\ reply[w].body.content >= reply[w].rev
            /\ req[w].project # None => reply[w].project = req[w].project

(* A focused target can always be resolved in the registry that is there,   *)
(* whatever was edited, evicted and built again since it was focused.       *)
FocusResolves ==
    registry # None /\ focus.target # None => Exists(registry.content)

(* The focus is only lost to a focus request, a change of project or a      *)
(* registry without its target: neither an edit nor a compaction drops it.  *)
FocusKept ==
    [][focus' # focus =>
         \/ project' # project
         \/ \E w \in Workers : lock = w /\ req[w].kind \in {"focus", "focusTarget"}
         \/ registry' # None /\ ~Exists(registry'.content)]_vars

(* Every request is answered or refused.                                    *)
RequestsEnd == \A w \in Workers : pc[w] # "idle" ~> pc[w] = "idle"

=============================================================================
