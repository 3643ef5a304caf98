-------------------------- MODULE WorkspaceRevision --------------------------
(***************************************************************************)
(* AgentWorkspace (src/delphi_lsp/agent_workspace.py): the selection of a  *)
(* project, its cache of index results, and the fingerprint that decides   *)
(* whether a cached result is used again.  Files may be edited between any *)
(* two steps of a selection, and between two units of the walk             *)
(* (ProjectIndexer).  The store of a selection is per project; Workspace is the *)
(* workspace itself, which catalogues the sources without reading them.    *)
(***************************************************************************)
EXTENDS ProjectIndexer

CONSTANTS
    TextsOf,            \* the texts each file may get, Absent to be removed
    FirstDisk,          \* the files when the workspace is opened
    Workspace,          \* the workspace itself, as a project
    NoProject,
    MaxEdits            \* bound on the edits

\* AgentWorkspace.open: the projects are those found when it is opened.
Projects == ProjectCandidates(FirstDisk, LoadConfig(FirstDisk))
Selectable == IF Cardinality(Projects) = 1 THEN Projects ELSE Projects \cup {Workspace}
NoResult == [units |-> {}, incs |-> {}, problems |-> <<>>, notFound |-> {}]
NotCached == [result |-> NoResult, revision |-> {}, clean |-> TRUE, known |-> FALSE]

VARIABLES
    disk,       \* the files
    edits,      \* how many edits there were
    pc,         \* "idle", "check", "index" or "label": where select_project is
    chosen,     \* the project being selected
    found,      \* the discovery of this selection
    ix,         \* the walk of this selection
    clean,      \* no edit since this selection began
    cache,      \* _project_cache
    catalogue,  \* _discovery
    active,     \* the project, discovery and result that are active
    revision    \* _current_revision

vars == <<disk, edits, pc, chosen, found, ix, clean, cache, catalogue, active, revision>>

-----------------------------------------------------------------------------
Discover(p, d) == IF p = Workspace THEN DiscoverWorkspace(d) ELSE DiscoverProject(p, d)
DiscoveryFails(p, d) == IF p = Workspace THEN ConfigBroken(d) ELSE DiscoverRaises(p, d)

\* _catalog_workspace_sources: units under the stem of their file, no trees
Catalog(disc) ==
    [NoResult EXCEPT !.units = {[name |-> Stem(f), file |-> f, tree |-> <<>>] :
                                    f \in {g \in disc.sources : Ext(g) \in UnitExts}},
                     !.incs = {f \in disc.sources : Ext(f) = "inc"}]

Settings(p, disc) ==
    [home |-> Dir(p), search |-> disc.search, include |-> disc.include, config |-> disc.config]

-----------------------------------------------------------------------------
(* _selection_fingerprint                                                   *)

\* Mutant: only whether the file is there.
PresenceOnly(f, d) == IF Exists(d, f) THEN 1 ELSE 0

\* _file_records: size and modification time, None for a missing file
Stamp(f, d) == IF Exists(d, f) THEN d[f].stamp ELSE 0
FileRecords(files, d) == {<<f, Stamp(f, d)>> : f \in files}

\* _explicit_dependency_paths
ExplicitPaths(result) ==
    {u[2] : u \in UNION {Range(Head(unit.tree).uses) :
                            unit \in {v \in result.units : v.tree # <<>>}}} \ {NoFile}

\* _selection_paths
SelectionPaths(disc, result) ==
    (disc.projects \cup disc.configs \cup disc.sources \cup {u.file : u \in result.units}
        \cup result.incs \cup ExplicitPaths(result)) \ disc.config.hidden

\* _selection_snapshot_specs: which extensions of which directory are listed
UnitDirExts == UnitExts \cup {"inc"}
ProjectDirExts == UnitDirExts \cup {"dproj", "cfg", "dof"}
SnapshotSpecs(disc, result) ==
    ({Dir(f) : f \in disc.projects} \X ProjectDirExts)
    \cup (Range(disc.search) \X UnitDirExts)
    \cup (Range(disc.include) \X SourceExts)
    \cup ({Dir(f) : f \in {u.file : u \in result.units} \cup result.incs} \X UnitDirExts)

\* _directory_snapshots
Listed(dir, specs, disc, d) ==
    {f \in Walk(d, disc.config) : Dir(f) = dir /\ <<dir, Ext(f)>> \in specs}
Snapshots(specs, disc, d) ==
    {<<s[1], FileRecords(Listed(s[1], specs, disc, d), d)>> : s \in specs}

Fingerprint(disc, result, d) ==
    {<<"files", FileRecords(SelectionPaths(disc, result), d)>>,
     <<"paths", <<disc.search, disc.include, Range(disc.defines)>>>>,
     <<"directories", Snapshots(SnapshotSpecs(disc, result), disc, d)>>}

-----------------------------------------------------------------------------
Init ==
    /\ disk = FirstDisk /\ edits = 0
    /\ pc = "idle" /\ chosen = NoProject /\ found = NoDiscovery /\ clean = TRUE
    /\ ix = Start(ConfigFile)
    /\ cache = [p \in Selectable |-> NotCached]
    /\ catalogue = NoDiscovery
    /\ active = [project |-> NoProject, found |-> NoDiscovery, result |-> NoResult]
    /\ revision = {}

\* select_project begins: the project is discovered; the workspace takes the
\* last catalogue when nothing is cached for it and the catalogue is not empty.
FromCatalogue(p) == p = Workspace /\ ~cache[p].known /\ catalogue.sources # {}

Select(p) ==
    /\ pc = "idle"
    /\ FromCatalogue(p) \/ ~DiscoveryFails(p, disk)
    /\ found' = IF FromCatalogue(p) THEN catalogue ELSE Discover(p, disk)
    /\ pc' = "check" /\ chosen' = p /\ clean' = TRUE
    /\ UNCHANGED <<disk, edits, ix, cache, catalogue, active, revision>>

\* What select_project knew is gone when it returns or raises.
Leave ==
    /\ pc' = "idle" /\ chosen' = NoProject /\ found' = NoDiscovery /\ clean' = TRUE
    /\ ix' = Start(ConfigFile)

\* _activate_project
Activate(result, rev) ==
    /\ active' = [project |-> chosen, found |-> found, result |-> result]
    /\ catalogue' = IF chosen = Workspace THEN found ELSE catalogue
    /\ revision' = rev
    /\ Leave

Fits(c) == c.known /\ Fingerprint(found, c.result, disk) = c.revision

Reuse ==
    /\ pc = "check" /\ Fits(cache[chosen])
    /\ Activate(cache[chosen].result, cache[chosen].revision)
    /\ UNCHANGED <<disk, edits, cache>>

BeginIndex ==
    /\ pc = "check" /\ ~Fits(cache[chosen])
    /\ pc' = IF chosen = Workspace THEN "label" ELSE "index"
    /\ ix' = IF chosen = Workspace THEN ix ELSE Start(chosen)
    /\ UNCHANGED <<disk, edits, chosen, found, clean, cache, catalogue, active, revision>>

IndexTurn ==
    /\ pc = "index" /\ ~Finished(ix)
    /\ ix' = Turn(ix, disk, Settings(chosen, found))
    /\ UNCHANGED <<disk, edits, pc, chosen, found, clean, cache, catalogue, active, revision>>

\* RecursionError outside the parser: it leaves select_project
IndexFails ==
    /\ pc = "index" /\ Len(ix.stack) > RecursionLimit
    /\ Leave
    /\ UNCHANGED <<disk, edits, cache, catalogue, active, revision>>

IndexEnds ==
    /\ pc = "index" /\ Finished(ix)
    /\ pc' = "label"
    /\ UNCHANGED <<disk, edits, chosen, found, ix, clean, cache, catalogue, active, revision>>

\* The result is fingerprinted after it was made, cached and activated.
Label ==
    /\ pc = "label"
    /\ LET result == IF chosen = Workspace THEN Catalog(found) ELSE Result(ix)
           rev    == Fingerprint(found, result, disk)
       IN /\ cache' = [cache EXCEPT ![chosen] = [result |-> result, revision |-> rev,
                                                 clean |-> clean /\ found = Discover(chosen, disk),
                                                 known |-> TRUE]]
          /\ Activate(result, rev)
    /\ UNCHANGED <<disk, edits>>

\* refresh_revision: the project is discovered again, the result is the active
\* one (the workspace is catalogued anew).
Refresh ==
    /\ pc = "idle" /\ active.project # NoProject /\ ~DiscoveryFails(active.project, disk)
    /\ LET disc   == Discover(active.project, disk)
           result == IF active.project = Workspace THEN Catalog(disc) ELSE active.result
       IN revision' = Fingerprint(disc, result, disk)
    /\ UNCHANGED <<disk, edits, pc, chosen, found, ix, clean, cache, catalogue, active>>

\* evict_recomputable_caches
Evict ==
    /\ pc = "idle"
    /\ cache' = [p \in Selectable |-> NotCached]
    /\ active' = [active EXCEPT !.result = NoResult]
    /\ UNCHANGED <<disk, edits, pc, chosen, found, ix, clean, catalogue, revision>>

\* A file is written, created or removed; its stamp is new.
Edit(f) ==
    /\ edits < MaxEdits
    /\ \E t \in TextsOf[f] :
           /\ t # Absent => ~(Exists(disk, f) /\ disk[f].text = t)
           /\ t = Absent => Exists(disk, f)
           /\ disk' = [disk EXCEPT ![f] = IF t = Absent THEN Absent
                                          ELSE [text |-> t, stamp |-> edits + 2]]
    /\ edits' = edits + 1
    /\ clean' = (pc = "idle")
    /\ UNCHANGED <<pc, chosen, found, ix, cache, catalogue, active, revision>>

Next ==
    \/ \E p \in Selectable : Select(p)
    \/ Reuse \/ BeginIndex \/ IndexTurn \/ IndexFails \/ IndexEnds \/ Label
    \/ Refresh \/ Evict
    \/ \E f \in DOMAIN disk : Edit(f)

Spec == Init /\ [][Next]_vars

-----------------------------------------------------------------------------
\* Types of the fields of AgentWorkspace and of the walk.
TypeOK ==
    /\ pc \in {"idle", "check", "index", "label"} /\ edits \in 0 .. MaxEdits
    /\ \A f \in DOMAIN disk : Exists(disk, f) => disk[f].text \in TextsOf[f]
    /\ chosen \in Selectable \cup {NoProject}
    /\ active.project \in Selectable \cup {NoProject}
    /\ \A n \in DOMAIN ix.parsed : ix.parsed[n].name = n
    /\ ix.incs \subseteq {f \in DOMAIN disk : Ext(f) = "inc"}

\* A walk without an edit leaves no dependency unaccounted for: it is parsed,
\* reported, or its file cannot be read or declares another name.  And no walk is
\* deeper than there are units, unless a file declares another name than the one
\* it is found under: parsed units are looked up under the name asked for and
\* recorded under the name declared (_parse_unit).
WalkIsComplete ==
    /\ Len(ix.stack) > Cardinality(Names) + 1 => \E u \in Range(ix.parsed) : u.name # Stem(u.file)
    /\ (pc = "label" /\ chosen # Workspace /\ clean) =>
        \A u \in Range(ix.parsed) : u.tree # <<>> =>
            \A dep \in Range(Head(u.tree).uses) :
                LET file == ResolveUnit(disk, dep, Dir(u.file), Settings(chosen, found))
                IN \/ dep[1] \in DOMAIN ix.parsed \cup ix.notFound
                   \/ <<"cant_open", file>> \in Range(ix.problems)
                   \/ file # NoFile /\ disk[file].text.declares # dep[1]
=============================================================================
