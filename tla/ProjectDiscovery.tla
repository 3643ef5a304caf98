--------------------------- MODULE ProjectDiscovery ---------------------------
(***************************************************************************)
(* Which projects a workspace has and what their settings are              *)
(* (src/delphi_lsp/project_discovery.py, project_config.py).               *)
(*                                                                         *)
(* A file is <<directory, stem, extension>>, directories are flat, names   *)
(* are casefolded.  A disk maps every file to Absent or to its text and    *)
(* stamp (the size and the modification time stat reports).  A text is     *)
(* what the readers make of it:                                            *)
(*   parse     "ok", "partial" (the parser reports a problem), "raises",   *)
(*             or "undecodable" (the file cannot be read as text)          *)
(*   declares  the unit name in its header, NoName when it has none        *)
(*   uses      the dependencies, <<name, path>> with NoFile for no path    *)
(*   includes  the stems of the .inc files it includes                     *)
(*   items     the settings of a .dproj, .cfg or .dof file, <<kind, value>>*)
(*             with a directory, file or define; Unresolved is a value     *)
(*             with an unknown macro or a Windows path                     *)
(*   only, without, hidden   the files the patterns of .delphi-lsp.toml    *)
(*             match: projects.include, projects.exclude, workspace.exclude*)
(*             (which may hide a directory too)                            *)
(***************************************************************************)
EXTENDS Naturals, Sequences, SequencesExt, FiniteSets, Functions

CONSTANTS
    Names,          \* stems of files, names of units
    Absent, NoFile, NoName, Unresolved,
    ConfigFile      \* .delphi-lsp.toml in the root

Dir(f) == f[1]
Stem(f) == f[2]
Ext(f) == f[3]
UnitExts == {"pas", "dpr", "dpk"}
ProjectExts == {"dpr", "dpk"}
SourceExts == UnitExts \cup {"inc"}

Exists(disk, f) == f \in DOMAIN disk /\ disk[f] # Absent
WithExt(f, e) == <<Dir(f), Stem(f), e>>

-----------------------------------------------------------------------------
(* ProjectPathConfig                                                        *)

NoConfig == [known |-> FALSE, only |-> {}, without |-> {}, hidden |-> {}]

ConfigBroken(disk) == Exists(disk, ConfigFile) /\ disk[ConfigFile].text.parse # "ok"

\* load_project_path_config, when it does not raise
LoadConfig(disk) ==
    IF ~Exists(disk, ConfigFile) THEN NoConfig
    ELSE LET text == disk[ConfigFile].text
         IN [known |-> TRUE, only |-> text.only, without |-> text.without, hidden |-> text.hidden]

Excludes(config, f) == f \in config.hidden
HasFilters(config) == config.only # {} \/ config.without # {}
Selects(config, files) ==
    /\ config.only # {} => files \cap config.only # {}
    /\ files \cap config.without = {}

-----------------------------------------------------------------------------
(* _project_candidates: the projects of a workspace                         *)

\* _walk_files
Walk(disk, config) == {f \in DOMAIN disk : Exists(disk, f) /\ ~Excludes(config, f)}

\* _main_source_from_dproj
Mains(disk, f) ==
    IF disk[f].text.parse # "ok" THEN {}
    ELSE {i[2] : i \in {j \in Range(disk[f].text.items) : j[1] = "main"}}

EntriesOf(disk, config) ==
    LET walked == Walk(disk, config)
        named  == UNION {Mains(disk, f) : f \in {g \in walked : Ext(g) = "dproj"}}
    IN {f \in {g \in walked : Ext(g) \in ProjectExts} \cup named :
            Exists(disk, f) /\ ~Excludes(config, f)}

\* The names a project goes by: itself, the .dproj beside it, and every .dproj
\* that names it as its main source.
Aliases(disk, config, f) ==
    {f} \cup {g \in {WithExt(f, "dproj")} : Exists(disk, g)}
        \cup {g \in Walk(disk, config) : Ext(g) = "dproj" /\ f \in Mains(disk, g)}

ProjectCandidates(disk, config) ==
    {f \in EntriesOf(disk, config) : Selects(config, Aliases(disk, config, f))}

\* ProjectConfigError: the file is not valid, or its filters match nothing
CandidatesRaise(disk) ==
    \/ ConfigBroken(disk)
    \/ LET config == LoadConfig(disk)
       IN HasFilters(config) /\ ProjectCandidates(disk, config) = {}

-----------------------------------------------------------------------------
(* A discovery, and what the readers add to it                              *)

NoDiscovery == [projects |-> {}, configs |-> {}, sources |-> {}, search |-> <<>>,
                include |-> <<>>, defines |-> <<>>, problems |-> <<>>,
                origins |-> {}, config |-> NoConfig]

\* _resolve_project_path, and the macros of a define
Resolves(value) == value # Unresolved

\* _add_resolved_path and add_define: each value once, with every origin
Add(disc, kind, value, origin) ==
    IF ~Resolves(value) THEN [disc EXCEPT !.problems = Append(@, <<"unresolved", origin>>)]
    ELSE IF value \in disc.config.hidden THEN disc
    ELSE [disc EXCEPT ![kind] = IF value \in Range(@) THEN @ ELSE Append(@, value),
                      !.origins = @ \cup {<<kind, value, origin>>}]

AddAll(disc, items, origin) ==
    FoldSeq(LAMBDA i, d : Add(d, i[1], i[2], origin), disc, Reverse(items))

Unreadable(disc, kind, origin) == [disc EXCEPT !.problems = Append(@, <<kind, origin>>)]

\* _read_dpr_paths: the folders of the units named with a path
ReadDpr(disc, disk, f) ==
    IF ~Exists(disk, f) \/ disk[f].text.parse = "undecodable"
    THEN Unreadable(disc, "cant_read_project", f)
    ELSE LET named == SelectSeq(disk[f].text.uses, LAMBDA u : u[2] # NoFile)
         IN AddAll(disc, [i \in DOMAIN named |-> <<"search", Dir(named[i][2])>>], f)

\* _read_dproj; a DCCReference adds the folder of its file
Setting(i) == IF i[1] = "reference" THEN <<"search", Dir(i[2])>> ELSE i
ReadDproj(disc, disk, f) ==
    IF disk[f].text.parse # "ok" THEN Unreadable(disc, "cant_read_dproj", f)
    ELSE LET items == SelectSeq(disk[f].text.items, LAMBDA i : i[1] # "main")
         IN AddAll(disc, [i \in DOMAIN items |-> Setting(items[i])], f)

\* _read_cfg: the -U, -I and -D lines
ReadCfg(disc, disk, f) ==
    IF disk[f].text.parse = "undecodable" THEN Unreadable(disc, "cant_read_config", f)
    ELSE AddAll(disc, disk[f].text.items, f)

ReadConfig(disc, disk, f) ==
    IF ~Exists(disk, f) \/ f \in disc.configs THEN disc
    ELSE [(IF Ext(f) = "dproj" THEN ReadDproj(disc, disk, f) ELSE ReadCfg(disc, disk, f))
              EXCEPT !.configs = @ \cup {f}]

\* discover_delphi_project for one project file
DiscoverProject(p, disk) ==
    LET config == LoadConfig(disk)
        start  == [NoDiscovery EXCEPT !.projects = {p}, !.config = config,
                       !.configs = IF config.known THEN {ConfigFile} ELSE {}]
    IN FoldSeq(LAMBDA e, d : ReadConfig(d, disk, WithExt(p, e)), ReadDpr(start, disk, p),
               <<"dof", "cfg", "dproj">>)

\* ... raises when the file is excluded or the configuration is not valid
DiscoverRaises(p, disk) == ConfigBroken(disk) \/ Excludes(LoadConfig(disk), p)

\* _scan_sources
ScanSources(disk, config) == {f \in Walk(disk, config) : Ext(f) \in SourceExts}

\* populate_workspace_sources: the folders of the sources become search paths
Populate(disc, sources) ==
    [disc EXCEPT !.sources = sources,
                 !.search  = SetToSeq({Dir(f) : f \in {g \in sources : Ext(g) # "inc"}}),
                 !.include = SetToSeq({Dir(f) : f \in {g \in sources : Ext(g) = "inc"}})]

\* discover_workspace_sources
DiscoverWorkspace(disk) ==
    LET config == LoadConfig(disk)
        start  == [NoDiscovery EXCEPT !.config = config,
                       !.configs = IF config.known THEN {ConfigFile} ELSE {}]
    IN Populate(start, ScanSources(disk, config))
=============================================================================
