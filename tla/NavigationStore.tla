--------------------------- MODULE NavigationStore ---------------------------
(***************************************************************************)
(* The persistent navigation shards: NavigationShardStore of               *)
(* src/delphi_lsp/navigation_cache.py, and the navigation build of         *)
(* src/delphi_lsp/agent_context.py that reads, writes and prunes it.       *)
(* A cache daemon and NDJSON workers of one root share the directory       *)
(* without any lock, sources are edited while they build, processes die in *)
(* the middle of a write, and `cache clear` removes the directory.         *)
(*                                                                         *)
(* Every text has a unit header: the outline of one without it also holds  *)
(* the name of its file, which its key does not.                           *)
(*                                                                         *)
(* A text is a value, an outline is the text and the defines it was made   *)
(* from, and the key of a shard (a hash of both) is that pair itself.  A   *)
(* shard that is no valid record of its key is Bad.  The pool that parses  *)
(* the units is ParallelOutline's: here every parse ends.                  *)
(***************************************************************************)
EXTENDS Naturals, FiniteSets, SequencesExt

CONSTANTS
    Builders,   \* processes with an AgentContext on this root
    Daemon,     \* the one of them that is the cache daemon
    Files,      \* the units of the project
    Texts,      \* the texts a unit can have
    FirstTexts, \* the text of each unit to begin with
    EditedTo,   \* the texts an edit can leave, Gone among them if it may delete
    Gone,       \* the file does not exist
    None,       \* nothing here
    Bad,        \* a shard that is not a valid record of its key
    Defines,    \* the defines of each builder's project
    Huge,       \* texts whose record is over _MAX_SHARD_BYTES
    Size,       \* the size of a text's record
    MaxBytes,   \* --max-disk-cache
    MaxEdits,   \* BOUND: edits of the sources
    MaxFaults   \* BOUND: crashes, failing writes, damaged records and clears

ASSUME TextAssumption == FirstTexts \in [Files -> Texts]
ASSUME BuilderAssumption == Daemon \in Builders
ASSUME EditAssumption == EditedTo \subseteq Texts \cup {Gone} /\ Gone \notin Texts
ASSUME KeyAssumption  ==
    {None, Bad} \cap [text : Texts, defines : {Defines[b] : b \in Builders}] = {} /\ None # Bad
ASSUME NoneAssumption == None \notin [Files -> SUBSET (Texts \cup {Gone})]

VARIABLES
    disk,      \* the text of each source file
    shard,     \* the store: per key the outline in its record, None or Bad
    age,       \* the keys of the store, oldest file first
    temp,      \* the builder's temporary file is in the store's directory
    orphans,   \* temporary files whose owner died
    edits, faults, \* counters of the bounds
    pc,        \* what a builder is doing
    todo,      \* units whose shard has not been looked for
    work,      \* the unit and text, or outline, a builder holds between two steps
    missing,   \* pending_tasks: units to be parsed, with the key looked for
    parsed,    \* outlines the pool has made and the builder has not consumed
    live,      \* live_navigation_keys
    got,       \* raw_symbols: an outline per consumed unit
    scan,      \* prune: the shards found in the store and not yet dealt with, oldest first
    bytes,     \* prune: retained_bytes
    registry,  \* the registry of the builder's context
    missed,    \* navigation_disk_misses of its last finished build
    seen,      \* history: the texts each unit has had since the build began
    clearing   \* `cache clear`: idle, or the step it is at

sources == <<disk, seen, edits>>
store   == <<shard, age, temp, orphans>>
build   == <<pc, todo, work, missing, parsed, live, got, scan, bytes>>
outcome == <<registry, missed>>
vars    == <<sources, store, build, outcome, faults, clearing>>

Keys == [text : Texts, defines : {Defines[b] : b \in Builders}]

(* navigation_cache_key                                                    *)
Key(b, t) == [text |-> t, defines |-> Defines[b]]

(* _parse_navigation_task: the outline the worker makes of the text it has *)
(* read itself, and the key its record is stored under: the key of that    *)
(* text, whichever key the parent had looked for.                          *)
Outline(b, t) == [text |-> t, defines |-> Defines[b]]
StoreKeyOfParent(b, o, asked) == IF asked = None THEN Key(b, o.text) ELSE asked
StoreKey(b, o, asked)         == Key(b, o.text)

NoFiles == [f \in {} |-> None]

(* raw_symbols and the pending tasks grow by one unit.                     *)
With(fn, f, v) == [g \in DOMAIN fn \cup {f} |-> IF g = f THEN v ELSE fn[g]]

Idle(b) ==
    /\ pc' = [pc EXCEPT ![b] = "idle"]
    /\ todo' = [todo EXCEPT ![b] = {}] /\ work' = [work EXCEPT ![b] = None]
    /\ missing' = [missing EXCEPT ![b] = NoFiles] /\ parsed' = [parsed EXCEPT ![b] = NoFiles]
    /\ live' = [live EXCEPT ![b] = {}] /\ got' = [got EXCEPT ![b] = NoFiles]
    /\ scan' = [scan EXCEPT ![b] = <<>>] /\ bytes' = [bytes EXCEPT ![b] = 0]
    /\ seen' = [seen EXCEPT ![b] = None]
    /\ UNCHANGED <<disk, edits>>

Init ==
    /\ disk = FirstTexts
    /\ shard = [k \in Keys |-> None] /\ age = <<>>
    /\ temp = [b \in Builders |-> FALSE] /\ orphans = 0
    /\ edits = 0 /\ faults = 0
    /\ pc = [b \in Builders |-> "idle"]
    /\ todo = [b \in Builders |-> {}] /\ work = [b \in Builders |-> None]
    /\ missing = [b \in Builders |-> NoFiles] /\ parsed = [b \in Builders |-> NoFiles]
    /\ live = [b \in Builders |-> {}] /\ got = [b \in Builders |-> NoFiles]
    /\ scan = [b \in Builders |-> <<>>] /\ bytes = [b \in Builders |-> 0]
    /\ registry = [b \in Builders |-> None] /\ missed = [b \in Builders |-> {}]
    /\ seen = [b \in Builders |-> None]
    /\ clearing = "idle"

-----------------------------------------------------------------------------
(* The environment.                                                        *)

Edit(f, t) ==
    /\ edits < MaxEdits /\ disk[f] # t
    /\ edits' = edits + 1
    /\ disk' = [disk EXCEPT ![f] = t]
    /\ seen' = [b \in Builders |->
                   IF seen[b] = None THEN None ELSE [seen[b] EXCEPT ![f] = @ \cup {t}]]
    /\ UNCHANGED <<store, build, outcome, faults, clearing>>

(* A record is damaged: cut short, of another schema or key, or made       *)
(* readable for others.                                                    *)
Damage(k) ==
    /\ faults < MaxFaults /\ shard[k] \notin {None, Bad}
    /\ faults' = faults + 1
    /\ shard' = [shard EXCEPT ![k] = Bad]
    /\ UNCHANGED <<sources, age, temp, orphans, build, outcome, clearing>>

(* The process ends; a temporary file it was writing stays.                *)
Dies(b) ==
    /\ Idle(b)
    /\ registry' = [registry EXCEPT ![b] = None] /\ missed' = [missed EXCEPT ![b] = {}]
    /\ temp' = [temp EXCEPT ![b] = FALSE]
    /\ orphans' = IF temp[b] THEN orphans + 1 ELSE orphans

Crash(b) ==
    /\ faults < MaxFaults /\ (pc[b] # "idle" \/ registry[b] # None)
    /\ faults' = faults + 1
    /\ Dies(b)
    /\ UNCHANGED <<shard, age, clearing>>

-----------------------------------------------------------------------------
(* _build_registry                                                         *)

Begin(b) ==
    /\ pc[b] = "idle"
    /\ pc' = [pc EXCEPT ![b] = "probe"]
    /\ todo' = [todo EXCEPT ![b] = Files]
    /\ seen' = [seen EXCEPT ![b] = [f \in Files |-> {disk[f]}]]
    /\ UNCHANGED <<disk, edits, store, work, missing, parsed, live, got, scan, bytes, outcome,
                   faults, clearing>>

(* The parent reads the unit for its key; one it cannot read is a miss.    *)
Read(b, f) ==
    /\ pc[b] = "probe" /\ f \in todo[b]
    /\ todo' = [todo EXCEPT ![b] = @ \ {f}]
    /\ \/ /\ disk[f] = Gone
          /\ missing' = [missing EXCEPT ![b] = With(@, f, None)]
          /\ UNCHANGED <<pc, work, live>>
       \/ /\ disk[f] # Gone
          /\ pc' = [pc EXCEPT ![b] = "load"]
          /\ work' = [work EXCEPT ![b] = [file |-> f, key |-> Key(b, disk[f])]]
          /\ live' = [live EXCEPT ![b] = @ \cup {Key(b, disk[f])}]
          /\ UNCHANGED missing
    /\ UNCHANGED <<sources, store, parsed, got, scan, bytes, outcome, faults, clearing>>

(* NavigationShardStore.load: only a valid record of the key is used.      *)
AnyRecord(rec) == rec # None
Usable(rec)    == rec \notin {None, Bad}

Load(b) ==
    /\ pc[b] = "load"
    /\ pc' = [pc EXCEPT ![b] = "probe"] /\ work' = [work EXCEPT ![b] = None]
    /\ LET held == work[b]
       IN  \/ /\ ~Usable(shard[held.key])
              /\ missing' = [missing EXCEPT ![b] = With(@, held.file, held.key)]
              /\ UNCHANGED got
           \/ /\ Usable(shard[held.key])
              /\ got' = [got EXCEPT ![b] = With(@, held.file, shard[held.key])]
              /\ UNCHANGED missing
    /\ UNCHANGED <<sources, store, todo, parsed, live, scan, bytes, outcome, faults, clearing>>

(* The pool: a worker reads the unit again and parses what it read.  A     *)
(* unit it cannot read ends the build with source_unavailable.             *)
Unparsed(b) ==
    DOMAIN missing[b] \ (DOMAIN parsed[b] \cup DOMAIN got[b])

Parse(b, f) ==
    /\ pc[b] = "probe" /\ todo[b] = {} /\ f \in Unparsed(b)
    /\ parsed' = [parsed EXCEPT ![b] =
                      With(@, f, IF disk[f] = Gone THEN None ELSE Outline(b, disk[f]))]
    /\ UNCHANGED <<sources, store, pc, todo, work, missing, live, got, scan, bytes, outcome,
                   faults, clearing>>

SourceUnavailable(b) ==
    /\ pc[b] = "probe" /\ None \in Range(parsed[b])
    /\ Idle(b)
    /\ UNCHANGED <<store, outcome, faults, clearing>>

(* NavigationShardStore.store, called as results arrive: the record goes   *)
(* to a temporary file of the bucket, which then replaces the shard.  A    *)
(* record that is too large is not written.                                *)
Consume(b, f) ==
    /\ pc[b] = "probe" /\ f \in DOMAIN parsed[b] /\ parsed[b][f] # None
    /\ parsed' = [parsed EXCEPT ![b] = [g \in DOMAIN @ \ {f} |-> @[g]]]
    /\ \/ /\ parsed[b][f].text \in Huge
          /\ got' = [got EXCEPT ![b] = With(@, f, parsed[b][f])]
          /\ UNCHANGED <<pc, work, temp>>
       \/ /\ parsed[b][f].text \notin Huge
          /\ pc' = [pc EXCEPT ![b] = "temp"]
          /\ work' = [work EXCEPT ![b] = [file |-> f, outline |-> parsed[b][f]]]
          /\ temp' = [temp EXCEPT ![b] = TRUE]
          /\ UNCHANGED got
    /\ UNCHANGED <<sources, shard, age, orphans, todo, missing, live, scan, bytes, outcome,
                   faults, clearing>>

WriteAgain(k, o) == shard' = [shard EXCEPT ![k] = o] /\ age' = Append(age, k)
Write(k, o) ==
    /\ shard' = [shard EXCEPT ![k] = o]
    /\ age' = Append(Remove(age, k), k)

(* os.replace, or an OSError (the file is gone, the disk is full), which   *)
(* the build ignores; either way the temporary file is unlinked.           *)
Stored(b) ==
    /\ pc[b] = "temp"
    /\ pc' = [pc EXCEPT ![b] = "probe"] /\ work' = [work EXCEPT ![b] = None]
    /\ LET held == work[b]
       IN  /\ got' = [got EXCEPT ![b] = With(@, held.file, held.outline)]
           /\ \/ /\ temp[b]
                 /\ Write(StoreKey(b, held.outline, missing[b][held.file]), held.outline)
                 /\ UNCHANGED faults
              \/ /\ ~temp[b] /\ UNCHANGED <<shard, age, faults>>
              \/ /\ faults < MaxFaults /\ faults' = faults + 1 /\ UNCHANGED <<shard, age>>
    /\ temp' = [temp EXCEPT ![b] = FALSE]
    /\ UNCHANGED <<sources, orphans, todo, missing, parsed, live, scan, bytes, outcome, clearing>>

-----------------------------------------------------------------------------
(* NavigationShardStore.prune                                              *)

Unlink(k) ==
    /\ shard' = [shard EXCEPT ![k] = None]
    /\ age' = Remove(age, k)

Sizes(ks) == FoldSet(LAMBDA k, n : n + Size[k.text], 0, ks)

(* The buckets are listed: every regular .json file, whatever is in it.    *)
PruneScan(b) ==
    /\ pc[b] = "probe" /\ todo[b] = {} /\ DOMAIN got[b] = Files
    /\ pc' = [pc EXCEPT ![b] = "prune"]
    /\ scan' = [scan EXCEPT ![b] = age]
    /\ bytes' = [bytes EXCEPT ![b] = Sizes({k \in live[b] : shard[k] # None})]
    /\ UNCHANGED <<sources, store, todo, work, missing, parsed, live, got, outcome, faults,
                   clearing>>

(* Shards of no live key go first,                                         *)
DeadOrNew(b) ==
    SelectSeq(scan[b], LAMBDA k : k \notin live[b] \ Range(missing[b]))
Dead(b) == SelectSeq(scan[b], LAMBDA k : k \notin live[b])

PruneDead(b) ==
    /\ pc[b] = "prune" /\ Dead(b) # <<>>
    /\ scan' = [scan EXCEPT ![b] = Remove(@, Head(Dead(b)))]
    /\ Unlink(Head(Dead(b)))
    /\ UNCHANGED <<sources, temp, orphans, pc, todo, work, missing, parsed, live, got, bytes,
                   outcome, faults, clearing>>

(* then the oldest until the rest fits; one that is gone already is not    *)
(* subtracted.                                                             *)
Over(b) == scan[b] # <<>> /\ bytes[b] > MaxBytes

PruneOldest(b) ==
    /\ pc[b] = "prune" /\ Dead(b) = <<>> /\ Over(b)
    /\ LET k == Head(scan[b])
       IN  /\ bytes' = [bytes EXCEPT ![b] = IF shard[k] = None THEN @ ELSE @ - Size[k.text]]
           /\ Unlink(k)
    /\ scan' = [scan EXCEPT ![b] = Tail(@)]
    /\ UNCHANGED <<sources, temp, orphans, pc, todo, work, missing, parsed, live, got, outcome,
                   faults, clearing>>

(* The registry is complete.                                               *)
Finish(b) ==
    /\ pc[b] = "prune" /\ Dead(b) = <<>> /\ ~Over(b)
    /\ registry' = [registry EXCEPT ![b] = got[b]]
    /\ missed' = [missed EXCEPT ![b] = DOMAIN missing[b]]
    /\ Idle(b)
    /\ UNCHANGED <<store, faults, clearing>>

-----------------------------------------------------------------------------
(* `cache clear` (src/delphi_lsp/agent_cli.py): the daemon is stopped,     *)
(* then the directory is removed file by file, without start.lock; another *)
(* daemon or a worker may go on building in it.                            *)

ClearBegins ==
    /\ clearing = "idle" /\ faults < MaxFaults
    /\ faults' = faults + 1
    /\ clearing' = "removing"
    /\ Dies(Daemon)
    /\ UNCHANGED <<shard, age>>

ClearRemoves ==
    /\ clearing = "removing"
    /\ \/ \E k \in Keys : shard[k] # None /\ Unlink(k) /\ UNCHANGED temp
       \/ \E b \in Builders : temp[b] /\ temp' = [temp EXCEPT ![b] = FALSE]
                              /\ UNCHANGED <<shard, age>>
    /\ UNCHANGED <<sources, orphans, build, outcome, faults, clearing>>

(* The directories are removed; when something was written in between,     *)
(* rmtree raises and the command reports an I/O error.                     *)
ClearEnds ==
    /\ clearing = "removing"
    /\ clearing' = "idle" /\ orphans' = 0
    /\ UNCHANGED <<sources, shard, age, temp, build, outcome, faults>>

-----------------------------------------------------------------------------
Step(b) ==
    \/ \E f \in Files : Read(b, f) \/ Parse(b, f) \/ Consume(b, f)
    \/ Load(b) \/ SourceUnavailable(b) \/ Stored(b)
    \/ PruneScan(b) \/ PruneDead(b) \/ PruneOldest(b) \/ Finish(b)

Next ==
    \/ \E f \in Files, t \in EditedTo : Edit(f, t)
    \/ \E k \in Keys : Damage(k)
    \/ \E b \in Builders : Begin(b) \/ Step(b) \/ Crash(b)
    \/ ClearBegins \/ ClearRemoves \/ ClearEnds

(* A build runs to its end, a clear too, and requests for the registry of  *)
(* a changed workspace keep coming.                                        *)
Fairness ==
    /\ \A b \in Builders : WF_vars(Begin(b)) /\ WF_vars(Step(b))
    /\ WF_vars(ClearEnds)

Spec == Init /\ [][Next]_vars /\ Fairness

-----------------------------------------------------------------------------
TypeOK ==
    /\ disk \in [Files -> Texts \cup {Gone}]
    /\ shard \in [Keys -> Keys \cup {None, Bad}]
    /\ Range(age) = {k \in Keys : shard[k] # None} /\ IsInjective(age)
    /\ temp \in [Builders -> BOOLEAN] /\ orphans \in 0..MaxFaults
    /\ edits \in 0..MaxEdits /\ faults \in 0..MaxFaults
    /\ pc \in [Builders -> {"idle", "probe", "load", "temp", "prune"}]
    /\ \A b \in Builders :
          /\ todo[b] \subseteq Files /\ DOMAIN missing[b] \subseteq Files
          /\ DOMAIN parsed[b] \subseteq DOMAIN missing[b]
          /\ live[b] \subseteq Keys /\ scan[b] \in Seq(Keys) /\ bytes[b] \in 0..Sizes(Keys)
          /\ got[b] \in UNION {[D -> Keys] : D \in SUBSET Files}
          /\ temp[b] => pc[b] = "temp"
    /\ clearing \in {"idle", "removing"}

(* A record that load accepts holds the outline of the very text and       *)
(* defines its key stands for, although the key was looked up for the text *)
(* the parent read and the record is made from the one the worker read     *)
(* (navigation_cache.py: "content-addressed").                             *)
ShardsAreTrue ==
    \A k \in Keys : shard[k] \in {None, Bad, k}

(* With shards, concurrent builders, faults and `cache clear`, a build     *)
(* still gives what a build without any store could give.                  *)
Promise == INSTANCE BuildPromise
KeepsBuildPromise == Promise!Spec

(* Once sources and faults are at rest, builds find every shard on disk:   *)
(* two builders of the same project do not go on pruning each other's      *)
(* records (README.md: a restarted daemon reuses unchanged units), unless  *)
(* a unit stays away or the records cannot all be kept.                    *)
Storable ==
    /\ \A f \in Files : disk[f] \notin Huge \cup {Gone}
    /\ \A b \in Builders : Sizes({Key(b, disk[f]) : f \in Files}) <= MaxBytes

EventuallyWarm ==
    \/ \A b \in Builders : <>[](missed[b] = {})
    \/ <>[]~Storable
=============================================================================
