---------------------------- MODULE ProjectIndexer ----------------------------
(***************************************************************************)
(* ProjectIndexer (src/delphi_lsp/project_indexer.py): the walk over the   *)
(* units a project reaches.  The recursion of _parse_unit is a stack of    *)
(* frames, one per unit whose dependencies are being visited, so that the  *)
(* files may change between two units.                                     *)
(***************************************************************************)
EXTENDS ProjectDiscovery

CONSTANTS
    Dotted,         \* the names with a dot, Path(name).suffix is not empty
    RecursionLimit  \* frames until the interpreter raises RecursionError

\* _source_is_allowed; set is the settings of the walk: home (the folder of
\* the entry file), search and include (directories), config
Allowed(f, set) == ~Excludes(set.config, f)

\* The file names _resolve_unit_path tries for a name: one with a suffix is
\* taken for a file name.
UnitFileNames(n) ==
    IF n \in Dotted THEN <<>> ELSE << <<n, "pas">>, <<n, "dpr">>, <<n, "dpk">> >>

\* The files tried for a dependency: the explicit path, then every root.
Candidates(dep, roots) ==
    (IF dep[2] = NoFile THEN <<>> ELSE <<dep[2]>>)
    \o FlattenSeq([i \in DOMAIN roots |->
            [j \in DOMAIN UnitFileNames(dep[1]) |->
                <<roots[i]>> \o UnitFileNames(dep[1])[j]]])

FirstUsable(disk, files, set) ==
    LET usable == SelectSeq(files, LAMBDA f : Exists(disk, f) /\ Allowed(f, set))
    IN IF usable = <<>> THEN NoFile ELSE usable[1]

ResolveUnit(disk, dep, from, set) ==
    FirstUsable(disk, Candidates(dep, <<from, set.home>> \o set.search \o set.include), set)

\* _default_include_loader, through the wrapper that remembers the file
ResolveInclude(disk, n, from, set) ==
    FirstUsable(disk, [i \in 1 .. 2 + Len(set.include) + Len(set.search) |->
        <<(<<from, set.home>> \o set.include \o set.search)[i], n, "inc">>], set)

-----------------------------------------------------------------------------
(* What an index run has so far: parsed maps a unit name to its record.     *)

NoUnits == [n \in {} |-> NoName]
Start(entry) ==
    [parsed |-> NoUnits, incs |-> {}, problems |-> <<>>, notFound |-> {},
     stack |-> << [dir |-> Dir(entry), deps |-> << <<Stem(entry), entry>> >>] >>]

Finished(ix) == ix.stack = <<>>

Problem(ix, kind, at) == [ix EXCEPT !.problems = Append(@, <<kind, at>>)]
Record(ix, name, unit) ==
    [ix EXCEPT !.parsed = [n \in DOMAIN @ \cup {name} |-> IF n = name THEN unit ELSE @[n]]]

\* The include files a text reaches, in order; NoFile for one not found.
IncludedBy(disk, file, set) ==
    LET names == disk[file].text.includes
    IN [i \in DOMAIN names |-> ResolveInclude(disk, names[i], Dir(file), set)]
Reached(files) == SelectSeq(files, LAMBDA f : f # NoFile)

\* At the recursion limit the error is raised inside the parser.
Raises(ix, disk, file, incs) ==
    \/ disk[file].text.parse = "raises"
    \/ \E f \in Range(incs) : disk[f].text.parse = "undecodable"
    \/ Len(ix.stack) > RecursionLimit

\* The parser raised: the unit is recorded under the name that asked for it.
ParseFailed(ix, name, file) ==
    Record(Problem(ix, "cant_parse", file), name, [name |-> name, file |-> file, tree |-> <<>>])

\* Mutant: the unit is recorded under the name it was asked for by.
ParsedUnderAskedName(ix, name, file, disk, incs) ==
    LET text == disk[file].text
    IN [Record(ix, name, [name |-> text.declares, file |-> file, tree |-> <<text>>])
            EXCEPT !.stack = Append(@, [dir |-> Dir(file), deps |-> text.uses])]

\* The unit is recorded under the name it declares, then its dependencies follow.
Parsed(ix, name, file, disk, incs) ==
    LET text   == disk[file].text
        actual == IF text.declares = NoName THEN name ELSE text.declares
        tree   == <<text>> \o [i \in DOMAIN incs |-> disk[incs[i]].text]
        seen   == IF text.parse = "partial" THEN Problem(ix, "cant_parse", file) ELSE ix
    IN [Record(seen, actual, [name |-> actual, file |-> file, tree |-> tree])
            EXCEPT !.stack = Append(@, [dir |-> Dir(file), deps |-> text.uses])]

\* _parse_unit up to its loop over the dependencies
ParseUnit(ix, name, file, disk, set) ==
    LET incs == Reached(IncludedBy(disk, file, set))
        seen == [ix EXCEPT !.incs = @ \cup Range(incs)]
    IN CASE ~Allowed(file, set)                              -> [ix EXCEPT !.notFound = @ \cup {name}]
         [] Allowed(file, set) /\ name \in DOMAIN ix.parsed  -> ix
         [] Allowed(file, set) /\ name \notin DOMAIN ix.parsed
            /\ disk[file].text.parse = "undecodable"    -> Problem(ix, "cant_open", file)
         [] OTHER -> IF Raises(ix, disk, file, incs) THEN ParseFailed(seen, name, file)
                     ELSE Parsed(seen, name, file, disk, incs)

\* Mutant: a missing unit ends the loop.
UnitNotFoundReturns(ix, name) ==
    [Problem(ix, "cant_find", name) EXCEPT !.notFound = @ \cup {name}, !.stack[Len(ix.stack)].deps = <<>>]

UnitNotFound(ix, name) ==
    [Problem(ix, "cant_find", name) EXCEPT !.notFound = @ \cup {name}]

\* The file a dependency leads to; the entry file is opened as it is given.
Target(ix, disk, set) ==
    LET frame == Last(ix.stack)  dep == Head(frame.deps)
    IN IF Len(ix.stack) = 1 THEN dep[2] ELSE ResolveUnit(disk, dep, frame.dir, set)

\* One turn of the loop over the dependencies of the unit on top.
Visit(ix, disk, set) ==
    LET dep  == Head(Last(ix.stack).deps)
        rest == [ix EXCEPT !.stack[Len(ix.stack)].deps = Tail(@)]
        file == Target(ix, disk, set)
    IN CASE file = NoFile                                       -> UnitNotFound(rest, dep[1])
         [] file # NoFile /\ Allowed(file, set) /\ ~Exists(disk, file) -> Problem(rest, "cant_open", file)
         [] OTHER                                    -> ParseUnit(rest, dep[1], file, disk, set)

Return(ix) == [ix EXCEPT !.stack = Front(@)]
Turn(ix, disk, set) == IF Last(ix.stack).deps = <<>> THEN Return(ix) ELSE Visit(ix, disk, set)

Result(ix) ==
    [units |-> Range(ix.parsed), incs |-> ix.incs, problems |-> ix.problems,
     notFound |-> ix.notFound]
=============================================================================
