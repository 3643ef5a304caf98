# A verification project for python-delphi-lsp

TLA+ modules that model the state of `delphi_lsp`, TLC configurations that check
them on small instances, and TLAPS proofs of what matters most for every
instance. Paths below are relative to the repository root; line numbers of
single definitions are in `PROJECT.json` under `map`.

    tlc -config cache_processes.cfg MCCacheLifecycle    # one run
    tlapm CacheLifecycleProofs.tla                      # one module of proofs

## 1. The system

`delphi_lsp` parses Delphi sources and answers questions about them, to editors
(an LSP server) and to coding agents (a CLI, an NDJSON worker, and a cache daemon
per workspace).

| Part | State it keeps | Operations | Interacts with |
|---|---|---|---|
| cache daemon lifecycle (`agent_cache.py`) | `start.lock`, `daemon.json`, a mutex per root in each process, child processes | `start_cache`, `query_cache`, `stop_cache`, `run_cache_daemon` | other client processes and daemons, through the two files, pids and a socket |
| cache service (`agent_cache.py`) | `cache_state`, counters, the budget's last status, `watcher_failed` | `request`, `status`, `prewarm`, the watcher | the agent context, under one lock; the watcher invalidates without it |
| agent context (`agent_context.py`) | revision, registry, focus, prepared answers, relation, metrics and graph caches, loaded sources | `handle` (open, find, focus, inspect, trace, cpg, metrics, problems), eviction, invalidation | workspace, navigation store, parallel outline |
| agent workspace (`agent_workspace.py`) | discovery, active project, result and fingerprint per project | refresh, select, problems, evict | project discovery and indexer |
| parallel outline (`parallel_outline.py`) | the futures of one batch | `run_outline_tasks` | a process pool; the context's `on_complete` |
| navigation store (`navigation_cache.py`) | shard files | load, store, prune | context; `cache clear` |
| agent protocol (`agent_protocol.py`) | none; cursors are tokens | parse, paginate | context, CLI |
| agent CLI (`agent_cli.py`) | the framing state of the NDJSON worker | commands, `_serve_worker`, `cache clear` | cache client, context |
| installer (`agent_templates.py`) | files being replaced; in the plugin it installs: a client, a queue and a worker per root | install with rollback; execute, abort, compaction, dispose | file system; the NDJSON worker |
| wiki (`agent_wiki.py`) | the bundle being replaced | export | file system |
| LSP server (`lsp_server.py`, `workspace.py`) | documents, snapshots, models, query cache | didOpen, didChange, didClose, symbols, references, rename, completion | a pool of notification threads |
| project indexer, discovery, configuration | parsed units, problems | `index`, discover | preprocessor, parser |
| preprocessor (`preprocessor.py`) | the stack of conditionals, defines | process | include loader |
| semantic model, relations (`semantic.py`, `semantic_builder.py`, `agent_relations.py`) | scopes, symbols, references of one build | build, resolve, trace | parser |
| code property graph (`agent_cpg_builder.py`, `agent_cpg.py`) | none between calls | build, select | parser |
| parser, metrics, serialisation | none between calls | functions of trees | |

What is hard here: client processes that meet only on files and pids, and may
die at any line; threads of a daemon that share one context under one lock
while a watcher changes it from outside; caches whose keys, revisions and
positions have to agree with files that change under them; a process pool that
fails half way through a batch that has effects; builders that share a
directory without a lock; a queue of requests on a pipe whose other end may
hang. `PROJECT.json` lists these hazards line by line. The properties below are
there for them.

What makes each part correct: the lifecycle runs one daemon per root, which can
be found, and leaves nothing behind; the service answers for a revision that
covers what it has been told, and always frees its lock; the context answers
from its caches what it would answer from none; the outline batch delivers each
result at most once; the store never serves a shard of other text; the LSP
server ends with the texts of the last notifications; the indexer accounts for
every dependency and an unchanged fingerprint means an unchanged index; a name
finds the nearest declaration whatever the order of the files; a graph has the
flow the source has; rollback restores every file.

## 2. The modules

| Module | Models | Uses |
|---|---|---|
| `CacheLifecycle` | start, query and stop against the daemons of one root | |
| `CacheService` | one daemon from inside: `_CacheService`, `AgentContext`, the workspace's revision | |
| `BatchDelivery`, `ParallelOutline` | what a batch promises its callers (abstract); `run_outline_tasks` and its pool | `ParallelOutline` refines `BatchDelivery` |
| `BuildPromise`, `NavigationStore` | what a navigation build promises (abstract); the shard store and the build on it | `NavigationStore` refines `BuildPromise` |
| `ProjectDiscovery`, `ProjectIndexer`, `WorkspaceRevision` | projects and settings; the walk over units; selection, index and fingerprint | each extends the one before |
| `Preprocessor`, `OutlineSource`, `OutlineModel` | conditionals and includes; what an outline hides; the symbols of an outline | each extends the one before |
| `SourceSpans`, `SymbolRegistry` | spans of declarations and bodies; the registry of a project | `OutlineModel`, `SourceSpans` |
| `SymbolTable`, `SemanticBuilder`, `SemanticModel` | scopes and lookup; the passes over a tree; the models of a project | each extends the one before |
| `RelationIndex`, `Pagination`, `AgentRequests` | relations of targets; cards, chunks, pages and cursors; requests over the caches of a context | `AgentRequests` uses both |
| `EditorFeatures`, `LanguageServer` | what a position of a text means; documents, models and answers | `LanguageServer` uses `EditorFeatures` |
| `StatementTrees`, `CodeGraph` | bodies as both parsers build them; the graph of one target | `CodeGraph` extends `StatementTrees` |
| `WorkerFraming`, `WorkerSession` | records on the worker's input; a session of the plugin with its workers | `WorkerSession` extends `WorkerFraming` |
| `OpencodeInstall`, `WikiBundle` | installation with rollback; replacement of a wiki | |
| `MC...` | constants of the instances, reference definitions | one each, `MCAgentSupport` for three |
| `...Proofs` | theorems about the module they are named after, `InstallationProofs` about `OpencodeInstall` and `WikiBundle` | |

Modules with `RECURSIVE` operators (trees, token lists, walks) are for TLC only.

### CacheLifecycle

One action is one step another process can fall between: one file system call,
one probe of a pid, one exchange. A thread's `pc` names its next step. A start
goes through `_process_start_lock` (`BeginStart`, `Acquire`, ..., `Leave`,
`Forget`), `_start_lock` (`Create`, `Record`, the staleness test `Stat` and
`Inspect`, `Steal`, and `Release`, `Unlock` on the way out) and
`_start_cache_unlocked` (`ReadMeta` to `UnlinkMeta` for the old record,
`Spawn`, the wait `Look`, `ProbeReady`, `Poll`, and `Reap`, `ReRead` when it
fails). `query` and `stop` share the reading of the record. A daemon boots,
publishes its record, serves, closes, checks and unlinks its record, and exits.
While it serves it warms up (`warming`, `WarmUp`), and a query asks again for as
long as it does, as the loop of `query_cache` has no deadline (`Query`).

`lockFile` is who created the file, whether its record is written, and whether
the incomplete file is older than the grace period. A record written through
the descriptor of a file somebody else has unlinked reaches nobody (`Record`).
`meta` is the daemon the record names, nothing, or `Junk`: a record that
`_read_metadata` rejects and whose pid is dead. A daemon that has exited is a
`zombie` until its parent reaps it, and `os.kill(pid, 0)` still finds it: this
is why `PidAlive` holds of zombies.

`slips` is history, the steps by which the locks come to nothing: a `start.lock`
is unlinked that a start holds (`Steal`), a `daemon.json` is unlinked that was
published after the one that was judged (`UnlinkMeta`, `DaemonUnlinks`), a client
dies while the daemon of its start boots (`ClientCrash`). All three happen, and no
step reads `slips`; three properties speak of the behaviours without one, and say
that nothing else goes wrong.

Left out: the content of exchanges (`cache status` is a query of a warm cache), the
token comparison (identity of the daemon), directories and permissions,
Windows. Pids are not reused.

### CacheService

The sources are one version number `disk`; `Edit` makes the next. A revision is
the version that was fingerprinted. What an answer was computed from takes the
place of what it says: the symbols of a `find` are the registry's project,
revision and version. Targets are one symbol, gone in the versions of `Lost`.

A request is `Begin`, `CheckWatcher`, `TakeLock`, `Refresh`, perhaps `Scan` and
`Apply`, `Build` when the registry does not fit, one of `Find`, `Open`,
`FocusRequest`, and `Budget`, where `CacheBudget.enforce` may evict auxiliary
caches or navigation state. `ScanFails`, `BuildFails` and `TargetNotFound` are
the error paths. `Refresh` to `Apply` is `_refresh_workspace`: the revision
epoch, which only moves forward and is only compared, is the Boolean
`invalidated`. The comparison and the write of the check time are one step:
CPython does not switch threads between them, which is what `NOTES.md` relies on.
Index and fingerprint are one step here and two in `WorkspaceRevision`.

### ParallelOutline and BatchDelivery

`Submit` fills the window, `Take` takes any finished future, `Deliver` calls
`on_complete`, `Refill` submits one more. `RetryOrRaise` is what both handlers
do with a failing pool; `nested` remembers that the fallback of a failed future
runs inside the `try` block, whose handlers still watch over it
(`SerialCallbackOSError`). `calls`, `retries` and `objection` are history.
`KeepsPromise` is `BatchDelivery!Spec` with `outcome` read off `pc`; an OSError
of the callback makes the outcome `void`, from which nothing is promised.

### NavigationStore and BuildPromise

Builders are a daemon and workers that share the directory. A build reads each
text (`Read`), looks its key up (`Load`), sends the rest to the pool, whose
worker reads the file again (`Parse`), stores each result (`Write`, `Evict`) and
prunes what is not of the project (`Prune`). A key is the pair of text and
defines; a shard is the outline it holds, or `Bad`. Edits, failing and crashing
writes, crashes of a builder and `cache clear` (`ClearBegins`, `ClearEnds`)
happen at any step. In `BuildPromise` there is no store: a finished build has,
for each unit, an outline of a text the unit had since the build began.

### The workspace

`ProjectDiscovery` maps a disk (a text and a stamp per file) to projects and
settings; `ProjectIndexer` walks the units with a stack of frames instead of
the recursion, so that files may change between two units; `WorkspaceRevision`
is `_select_project_with_revision`, with the index and the fingerprint as two
steps and a cached result per project. Path handling and the readers of project
files are abstracted to what they find.

### The registry

`Preprocessor` and `OutlineSource` work on elements (words, comments,
directives) instead of characters, `OutlineModel` and `SourceSpans` on lines of
tokens. `SymbolRegistry` delivers the parsed files in any order, shards first,
assembles the registry, and answers requests for spans whose caches grow with
each question. `AgentRequests` is the level above: one request at a time over
the caches of a context, with `Refresh` and `Answer` as two steps so that a
file can change between the scan and what is read afterwards. `Serve` is
written over the context it is given, so the same definition from an empty
context is the cold start the properties compare with. `RelationIndex` and
`Pagination` say what the answers are and how they are cut.

### Semantic models

`SemanticBuilder` declares and resolves a tree as its two passes do, with the
scopes of `SymbolTable`; `SemanticModel` builds the models of all files in the
order of a dictionary, which is any order.

### The language server

`LanguageServer` keeps documents, disk, snapshots, models and the query cache;
notifications run in a pool of threads and answers on the main thread. A model
is named by the text it was built from. `EditorFeatures` says what the
patterns of the outline and the full parse make of a position. A name that the
scopes of a file do not know is looked up in an index of names: that of the last
rebuild, which holds the unit scopes of all files, or, for a file whose model a
search has used again, that of the matches of the search (`indexed`, `shared`).
The index lists files in the order they were registered, which the model leaves
open: any file that declares the name may be the one. `ordered` and `fresh` are
history, they change no step. The lines that are
kept to count columns in are those of any number of files, where the code keeps
eight and reads the others again; every write gives a file another `mtime`.

### Code property graph

`StatementTrees` builds the body of a routine as the native and as the legacy
parser do; `CodeGraph` makes control flow, definitions and uses, the sweeps of
the reaching-definitions analysis in both orders of the hashed names, calls and
the cut to a limit.

### Support files

`WorkerFraming` cuts bytes into records; `WorkerSession` runs the plugin's
queue, timeouts, aborts and its lookup before a compaction against workers that
may answer, refuse, hang or die; `OpencodeInstall` and `WikiBundle` are the
writes and renames of an installation with failures, and with crashes between
two of them. `MCAgentSupport` sets these scenes side by side, each from its own
initial states.

## 3. The runs

| Run | Instance | Shows |
|---|---|---|
| `cache_processes` | two threads of a process that start, one of them twice; or one start beside two starts, queries or stops of another process; two configurations, two daemons, an old record or none, one fault of any kind | `ProcessExclusion`; but for a slip, `OneDaemon`, `ServingIsRecorded`, `OkHasConf`: one daemon serves, can be found, and is of the configuration asked for |
| `cache_recovery` | a start of one process beside a start, query or stop of another, one crash, failed write, lost exchange or interrupt; fair | `FailedStartLeavesNothing`, `StoppedIsGone`; every start and stop ends, a query ends or polls a daemon that is still warming (`OperationEnds`); the lock of a dead process is replaced |
| `service_requests` | a worker, the prewarm thread and the watcher, two projects, one edit that removes the target; fair | `NoStaleReply`, `FindMatchesEnvelope`, `FocusResolves`; every request ends |
| `outline_batch` | four tasks; automatic, one and two workers; every fault; fair | the window holds, the promise of `BatchDelivery`, the call ends |
| `navigation_builds` | a daemon and a worker, one file, three texts, one edit, one fault; fair | `ShardsAreTrue`, the promise of `BuildPromise`, builds end up warm |
| `workspace_revisions` | two directories, two projects, every small disk, one edit between any two steps | an equal fingerprint means an equal index; the walk accounts for every dependency |
| `symbol_registry` | every program of up to four line forms, programs with conditional directives, units with common names | order of delivery and history are invisible; only taken branches show; outlines hide only bodies |
| `semantic_models` | classes, interfaces and aliases under every inheritance of three types, cycles included | names do not depend on the order of the files; members are the nearest |
| `language_server` | two files, each of which may be opened, two notifications on two threads and two searches, or a search and a question about one of eight positions of a text; or one notification, a write to disk and a question around two searches | `WorkspaceIsCurrent`, `AnswersAreCurrent`: documents, models and lists of symbols are of the newest texts, as far as notifications did not overlap; `RenameReplacesAll`: the document of a rename keeps no whole word of the old name in the scope of its declaration; another file is touched only where it declares the name |
| `agent_requests` | two units, three contents, menus of requests, one edit, evictions | answers and traces are those of a cold context; pages are whole |
| `agent_support` | two calls and a compaction over workers; an installation with one fault; three exporters with two failures; every short input | answers match their calls, calls settle; records are framed; installs and bundles are whole |
| `code_graphs` | every routine of a few statements, every unit of a few routines | flow and reaching definitions are those of the runs of the source; calls with parentheses are drawn or counted by their first identifier; a cut answer says so |

### Bounds

`Loads` (of the cache and of the language server: the numbers of operations an
instance may reach together, as a set of choices), `MaxFaults`, `MaxEdits`,
`MaxAsks`, `MaxBuilds`, `MaxFailures`, the sets `Daemons`, `Threads`,
`Workers`, `Builders`, `Files`, `Calls`, `Exporters`, and `Count`, `Size` and
`Sections` bound the instances; nothing else does. Two actors are enough for
every race found: the shared state is one file, one lock or one directory, and
a third actor only repeats what one of the two can do. Two operations per
thread reach a second start over what the first left. `cache_processes` follows
what comes after a slip only where one process starts alone (`AloneAfterSlip`):
the three properties about all processes claim nothing there, and the exclusion
within a process does not depend on another. Before the bounds were drawn that
tight, two starts of each thread of the process, or each process with one
operation, were run to the end without that constraint. One fault at a time is
what the code guards against, and it can strike at every step; the three
exporters of a wiki get two each, because the second strikes while the first is
undone. Two daemons are the least number that could violate `OneDaemon`. One
edit, placed anywhere, makes an answer stale, and removes the target. Four tasks
with a window of two submit, fill, refill and drain the window. Programs of four
line forms hold a routine with a body inside another and a class before it;
three types have every shape of a cycle. What is proved below does not depend on
any of these bounds.

Deadlock is not checked: all instances stop when their operations, edits or
tasks are used up.

### Fairness

`CacheLifecycle`: a running client is scheduled (`WF` of its steps) and its
clock passes every deadline it looks at again and again (`SF` of the deadlines:
between two looks the thread is elsewhere in its loop). An incomplete lock ages.
No daemon is assumed to do anything, nor to end its warm-up: starts and stops
must end against one that hangs.
`CacheService`: threads of a running daemon are scheduled, and
`threading.Lock` does not keep one thread out for ever while others come and go
(`SF` of `TakeLock`). Nothing is assumed of edits, time or the watcher.
`ParallelOutline`: the caller runs, and a worker process ends its task or dies
(`WF` of `Finish`), as the executor promises for each future. `NavigationStore`:
a build and a clear run to their end and requests keep coming. `WorkerSession`:
the event loop runs what is due, timers among it; a worker may hang for ever.

## 4. The proofs

`CacheLifecycleProofs`, for any number of threads, processes and daemons, any
bounds and any set of faults, from the assumptions `CacheLifecycle` names on its
constants:

- `TypeCorrect`: `TypeOK` is inductive.
- `ProcessExclusionHolds`. The property does not say that the mutex a thread
  holds is the one its process still has registered, so a thread that forgot the
  mutex too early would break it one step later. `MutexInv` adds that every
  thread between registering and forgetting is counted as a user and has the
  registered mutex, and that no two threads hold the same one. Nothing in the
  invariant mentions `start.lock`: the exclusion holds whatever happens to it.
- `FailedStartLeavesNothingHolds`. `ChildInv` follows the child of a start from
  `Popen` to the result. `ExitIsFinal` (a daemon that has exited stays so, and
  no record comes to name it again) keeps it under the steps of all others.
- `StoppedIsGoneHolds`. `StopInv` carries what a `stop` knows of the daemon its
  record named through every step to the answer; it also says that a record only
  names daemons that were spawned (`BornStays`), without which `PidAlive` of a
  daemon still to come would be a false "gone".
- `OneDaemonHolds`, `ServingIsRecordedHolds` and `OkHasConfHolds`, of starts,
  queries and stops of any number of processes, under any crashes and faults.
  They say what holds until one of the three `slips`; without that the statements
  are false (section 5). `SingleInv` is stronger than what is asked: as long as
  nothing slipped, a start past the creation of `start.lock` is the one that file
  is of (`Guarded`), so that there is one such start in all processes
  (`OneStarter`); a daemon that has published is the recorded one, and one that
  has not is the child of a start that still waits for it (`DaemonOK`); at most
  one daemon is even `Present`, from `Popen` to the unlink of its record; and
  `StarterOK` follows what a start knows of the daemons at each of its steps. A
  query or a stop unlinks the record of a daemon only when that is gone, which
  `StopInv` says.

`CacheServiceProofs`, for any number of request threads, projects and edits and
every set of lost versions and request kinds. The constants are only assumed to
be told apart (`None` is no thread, project or registry):

- `ServiceTypeCorrect`: the domains, and that the one thread past `lock` is the
  holder of the lock. `OpenedInv` is the strengthening it needs: nobody reaches
  the context before the prewarm thread has opened it, and from then on it has a
  project.
- `NoStaleReplyHolds`. The property speaks of answers only. `FreshInv` says what
  each earlier point guarantees: before the lock, what a request must know of has
  been reported, or the watcher has failed (`WaitersKnown`); while the last check
  counts, it covers what every waiting request must know of (`TrustCovers`); a
  scan during which no invalidation came covers all of that (`ScanCounts`), which
  is why the write-back may restart the interval then and only then. `OpenedInv`
  is needed once: the scan of a context that is just opened meets no invalidation.
- `FindMatchesEnvelopeHolds`. `EnvelopeInv` adds that prepared answers match
  their keys, that the registry is no older than its revision, and that the
  project asked for is the selected one from `handle` on.
- `FocusResolvesHolds` is inductive given the domains; `FocusKeptHolds` is an
  action property that follows from the lock and `OpenedInv`.

`ParallelOutlineProofs`, for any number of tasks and processors and every fault:

- `BatchTypeCorrect` and `WindowIsBoundedHolds`. `BatchInv` says where each task
  is (to come, submitted, accepted) and that the count of completed tasks is the
  size of the set of accepted ones.
- `KeepsPromiseHolds`, the refinement of `BatchDelivery`, and `CallbackErrorHolds`.
  `DeliveryInv` relates the calls of `on_complete` to the accepted results on
  every path into the serial fallbacks; with it each step is one of
  `BatchDelivery` or a stutter.

`NavigationStoreProofs`, for any number of builders, files, texts, edits, faults
and clears, and any size of store. `None` is assumed to be no value a build has
seen:

- `ShardsAreTrueHolds`. The property is about the shards; what is stored comes
  from what a build holds in `work`, so `StoreInv` says of everything a build
  has collected, and of what it holds between two steps, that it is the outline,
  under its own defines, of a text the file has had since the build began.
- `KeepsBuildPromiseHolds`, the refinement of `BuildPromise`. With `StoreInv`
  each step maps to an edit, the begin, the end or the loss of a build, or to a
  stutter; pruning, damaged records and `cache clear` are stutters. `OneBuilder`
  reduces a step to the builder that takes it.

`LanguageServerProofs`, for any files, texts, requests, notifications and writes:

- `WorkspaceIsCurrentHolds`, for any number of threads and any overlap. Two
  variables of history say what can be claimed: `ordered` of a file whose last
  notification arrived with none of its own under way (`OrderOK`: it has no other
  by now, and that one will leave what the editor shows, whatever those of other
  files do), and `fresh` of a rebuild that ran alone (`AloneOK`: how far the only
  notification has come, what its sources are, and that nothing else is built).
  Without them the statement is false (section 5). `None` is assumed to be no text.
- `AnswersAreCurrentHolds`, likewise, for any queries and size of the query
  cache. A list is claimed to be current only when it was gathered in
  quiet, so `SymbolInv` says what was begun in quiet and may still be served: the
  index, the query cache and a search under way conform (`Conforms`) to the
  documents, and to what the other files were since the last change of a
  document, which clears them. For that, what stands for a file is among its
  recent texts; a snapshot taken under the stamp a file has now holds what the
  file holds now, as every write renews the stamp (`StampsOK`; in the code, its
  `mtime`); and the lines that are kept of a document are its own, except between
  a change of it and the end of the rebuild that follows (`LinesOK`). The index may serve any query
  because the empty query, which made it, matches every text. Assumed are that
  positions ask one of the four questions, and that `None` is no number.

`InstallationProofs`. Of the wiki, for any number of exporters, failures and
crashes:

- `BundleIsNeverTornHolds`. `AsideAt` says what is true of one exporter at each
  step: its bundle is complete before it is installed, what it has set aside is
  whole while it may be put back, and it keeps it only after two renames failed,
  by themselves or because the place was taken. `PlacedOK` adds that the bundle of
  an exporter that is done is kept. `ChangeKeeps` reduces each step to what it does
  to its exporter and the place: no step takes a wiki from the place without
  putting another there or holding it.

and of the support files, for any disk, either kind of installation and any
number of failures:

- `InstallIsAllOrNothingHolds`. `InstallInv` is about the steps that are left:
  they are a plan (`IsPlan`: a staging file is moved into its place by the very
  next step, and while undoing only what was not there is removed), and a file
  that is not yet as it should be has a step left that makes it so (`Pending`).
  `StepsPlan` and `UndoingPlan` show it of the two plans when they are made,
  `PlanTail` of what is left of a plan after its first step. The skill alone has no
  undoing; `SkillOK` says that its legacy is removed last, so that a failure finds
  everything but the skill as it was.

`WorkerSessionProofs`, for any roots, calls and clients and any limit of a
record. A request is assumed to be a line of text: it is not empty and holds
neither line end (`JSON.stringify` sees to that):

- `AnswersMatchHolds`. The property speaks of calls that are settled;
  `SessionInv` says what a worker owes before: a client that is running has the
  request at the head of its queue in the pipe, or its answer, and nothing else
  but the rest of a record that was refused (`Pending`, `Idle`); a client that is
  not running owes nothing. `ServeRecord`, `ServeRest`, `ServeIdle` and
  `ServePending` are the lemmas about one turn of `_serve_worker` it needs: a
  record above the limit is refused once and the turns that discard it stop at
  its own line feed, so that the next request is read whole.
- `NoWorkerIsLostHolds`, for which `SettleKeeps` follows a failed request through
  `removeClient` and the lookup before a compaction.

`AgentRequestsProofs`, for any files and contents, any requests of the protocol,
any number of edits and any limits of the caches, from the assumptions
`AgentRequests` names (requests have the fields and one of the actions of the
protocol, limits are numbers):

- `AnswersAreColdHolds`. Two facts meet in it. What `Serve` answers is a function
  of the files, the request and the focus (`ColdAnswer`, `FocusAfter`,
  `ColdTarget`), whatever the context has kept, as long as the context is
  coherent; and `ContextInv` (`ContextIsCoherent`) says that it is: while the
  revision of a context is that of the files, the registry, the metrics, the
  ranked cards, the loaded texts, the graphs and the prepared items each hold
  what would be computed from the files now, and the focus is a target of the
  registry. A scan that sees another revision forgets all of them, an edit makes
  every context out of date, so nothing is claimed of it until the next scan.
  Prepared items are claimed for `Lasting` requests only: not for traces, not for
  the bare focus, and for `open` and `problems` only where no scan is spared,
  which is what the property leaves aside. Their key names the target a request
  was resolved to; `Aimed` shows that such a request is answered the same under
  any focus. Making room needs that there is a least number of entries that
  suffices, the one place where the proofs use well-founded minima.

Each inductive invariant was model-checked on the constants of its run first.

Only model-checked:

- the liveness properties (fairness and ENABLED are out of the prover's reach);
- everything about modules with `RECURSIVE` operators: the semantic models, the
  registry, the graphs, and `EqualFingerprintEqualIndex`, whose reference
  definition is recursive;
- `WalkIsComplete` and `RenameReplacesAll`: the search for a unit and the UTF-16
  units of a column are filters and folds over sequences, and what they compute
  for every input is induction over data;
- `RecordsAreFramed`, about a recursive reading of the input: what it computes
  for every input needs it, too;
- `PagesAreWhole`, of which the traces are a part (`TracesAreCold`): relations,
  parts and pages are folds over sequences, too. `AgentRequestsProofs` needs only that a trace or a
  cut is a function of its inputs.

## 5. Where the code and its documents differ

Some statements of the documents are false of the code; the properties above are
stated so that they hold, and this is what they leave out.

- *Two daemons.* Between the staleness test of `start.lock` and its unlink
  (`agent_cache.py:580`) another process may take the lock; two processes then
  start a daemon each, without any fault. `README.md:178` promises one daemon per
  root. `OneDaemon` says that this takes such an unlink or one of the next two slips.
- *A lost record.* `_remove_incompatible_metadata_if_stale`
  (`agent_cache.py:487`) judges a record and then unlinks the path: a query can
  remove the record a start has published in between. The bounded-cache design
  (`docs/superpowers/specs/2026-07-23-bounded-cli-cache-daemon-design.md:200`)
  says that clean-up verifies ownership first. The daemon goes on serving, and the
  next start spawns a second.
- *A start that is killed while its daemon boots.* The daemon lives on in a session
  of its own (`agent_cache.py:684`), unrecorded, while the `start.lock` of a dead
  process is at once replaced: the next start finds no record and spawns another.
- *A query without a deadline.* `query_cache` asks again for as long as the answer
  is `cache_warming` (`agent_cache.py:1264`): a warm-up that hangs keeps every query.
  `OperationEnds` lets a query poll a daemon that answers and is warming, no other.
- *A missed edit.* The watcher registers after the workspace is scanned
  (`agent_cache.py:972`); an edit in between is reported by nobody until the
  check interval has passed (`README.md:400`).
- *Lost problems.* A compaction drops the workspace result
  (`agent_workspace.py:222`) and a fresh revision check does not restore it, so
  `open` answers without the problems of the index (`README.md:396`). The answer
  stays prepared after the eviction.
- *A stale focus.* The answer of a bare `focus` is prepared under a key without
  the focus (`agent_context.py:1404`; `README.md:444`). `AnswersAreCold` leaves
  the bare focus aside.
- *A batch run twice.* An OSError of `on_complete` is taken for a failure of the
  pool, wrapped, or the batch is run again and delivers twice
  (`parallel_outline.py:213`; `README.md:369`). `BatchDelivery` calls this `void`.
- *A stale catalogue.* The catalogue of the `workspace` project, which has no
  project file, is not read again when sources change (`agent_workspace.py:361`; `README.md:400`).
- *Overlapping notifications.* A change and a close of one file handled at once
  can leave the older text or the file open, and of two rebuilds the older may
  store its models last: the workspace is then without the newer document
  (`docs/release-3.1.1.md:10`), until the next notification. `WorkspaceIsCurrent`
  claims nothing of such a file, and of the models only after a rebuild that ran
  alone. The query cache keeps a
  symbol answer until the next change, and files of the workspace are scanned
  once. A file that is gone keeps the snapshot last read of it
  (`lsp_server.py:268`) and goes on being shown as that; `AnswersAreCurrent`
  allows it. A statement that allowed only what the disk has held since the last
  change of a document is false, but only two writes show it: TLC found it with
  two writes in `Loads`, where the property as it stands has been run, too.
- *Renames.* A rename edits one document and the declaration: what other files
  say of the name stays, and so do, for a name of a class or a routine, uses
  outside it. A name of a unit found through the index of names has its edit in
  the file that declares it, which may be any that does, and if that was indexed
  by a search, where it stood on disk then; a field of a class is not in the index,
  so it is not found from outside. The name of a unit itself is taken to stand on
  the first line (`lsp_server.py:962`). `RenameReplacesAll` says what is left:
  the document itself, and that nothing else is edited by mistake.
- *Parents and warm starts.* The parent of a symbol depends on the order in
  which files were delivered, and a registry from shards differs from one that
  is parsed (`agent_context.py:1592`, `:1507`), against the prewarming design
  (`docs/superpowers/specs/2026-07-23-parallel-cache-prewarming-design.md:152`);
  `DeliveryOrderIsInvisible` leaves parents out.
- *Units without a header.* The names in a shard begin with the unit's name, and
  of a unit without a header that is the name of its file
  (`agent_context.py:1778`), which is not in the key (`navigation_cache.py:17`):
  of two such files with one text the second to be built is shown under the
  name of the first. `NavigationStore` has units with headers only.
- *Calls by their first identifier.* A call is looked up by the first identifier
  below it (`agent_cpg_builder.py:611`), which of `x.Foo(a)` is `x`: the call is
  drawn to a routine that happens to be named `x`, otherwise it counts as
  unresolved, and `Foo` is never looked up (it is taken for a name the call
  uses). A routine called without parentheses is an identifier
  (`delphiast_parser.py:1206`): neither drawn nor counted, and no node of the
  control flow. `CallsAreAccounted` states the first and leaves the second out;
  a call on the result of a call, `F(a).G(b)`, is not modelled.
- *A call condition.* In `if Foo(a) then a := 1 else Bar(a)` the parser makes the
  call a statement, and the graph takes it for the `then` branch
  (`agent_cpg_builder.py:436`; the plan `docs/superpowers/plans/2026-07-24-hybrid-cpg.md:223`).
- *A late answer.* A request that is aborted while it waits closes the healthy
  worker and fails those behind it, and a late failure closes a fresh worker
  (`README.md:510`).
- *A third exporter.* One exporter sets the old wiki aside, a second puts its own
  in the gap, and the first fails to replace it. A third sets aside what the second
  has put; the first restores the old wiki, so that the third can neither put its
  own nor restore. No operation has failed of itself, and the finished bundle is in
  a backup nobody looks for (`agent_wiki.py:365`). `BundleIsNeverTorn` calls it
  kept there: it allows a wiki that is set aside by an exporter that was killed
  between its renames, or of whose renames two failed or found the place taken.
- *A mode that is not restored.* A legacy support file that is removed and
  restored loses its permissions.
- *A skill beside its legacy.* `install_skill` has no rollback: when the legacy
  skill cannot be removed (`agent_templates.py:24`) the new one stays beside it.
  `InstallIsAllOrNothing` says that this is all that a failure can leave.

Observed along the way, and modelled as they are:

- Indexer: dotted unit names never get `.pas` appended; an include of another
  extension in an earlier directory does not change the fingerprint; a file
  that is locked while it is indexed is not tried again until it is edited.
- Preprocessor: conditional frames cross the borders of includes, an
  unterminated `$IFDEF` is no problem, and an unknown `$IF` is false.
- Semantic models: base types are resolved in the scope of use; members of a
  type local to a routine and of an alias never resolve; the body of
  `procedure TFoo.Bar` does not see the members of `TFoo`; what `a.b.c` means is
  looked up in the class that contains `b`, and depends on the file order.
- Language server: renaming a name of the unit also renames locals that shadow it.
- Requests: a cursor is malformed when its list has shrunk; with a check
  interval, pages under one revision can mix two texts.
- Plugin and installer: rollback stops at the first file it cannot restore, which
  may be the one whose writing failed; a crash between the two renames of a wiki leaves the old one in its backup only.
- Graph: try, finally and except are alternative branches; a `case` without
  `else` cannot be passed by; `break`, `exit` and native `raise` are no flow;
  `arr[i] := x` defines `arr` and `i`; a nested routine's body counts as the
  outer's; and the two parsers give different graphs of one source.

## 6. Not modelled

Lexer, declarations and expressions of the parsers, and the tree serialisation:
sequential translations without state, which the golden snapshots test. Metrics
but for complexity, progress reports, hover and semantic tokens, JSON wording,
rendering of the wiki: output without state. The counters and one-time warning
of the cache budget and its connection slots (an exchange may fail instead).
The POSIX lifecycle only; Windows takes other paths. Scripts, templates, tests.
