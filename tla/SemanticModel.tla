----------------------------- MODULE SemanticModel -----------------------------
(***************************************************************************)
(* The semantic models of the files of a project                           *)
(* (src/delphi_lsp/workspace.py): every unit is registered, then declared, *)
(* then resolved, in the order of the files.  A project is a sequence of   *)
(* syntax trees; the order is that of a dictionary, any one.               *)
(***************************************************************************)
EXTENDS SemanticBuilder

CONSTANT Projects

VARIABLES project, order, table, scopeOf, models, done
vars == <<project, order, table, scopeOf, models, done>>

Files == DOMAIN project
Rounds == <<"register", "declare", "resolve">>
Round == Rounds[1 + (done \div Len(project))]
File == order[1 + (done % Len(project))]
Root == project[File]

NoModel == [problems |-> <<>>, refs |-> <<>>]
Orders(p) == {o \in [DOMAIN p -> DOMAIN p] : \A i, j \in DOMAIN p : o[i] = o[j] => i = j}

Init == /\ project \in Projects
        /\ order \in Orders(project)
        /\ table = EmptyTable
        /\ scopeOf = [f \in Files |-> 0]
        /\ models = [f \in Files |-> NoModel]
        /\ done = 0

\* build_workspace_semantics_from_roots
ScopeName(f, root) == IF root.name = <<>> THEN <<"file", f>> ELSE root.name

\* Mutant: the units are not known before the first is declared.
RegisteredLater(t, name, s) == t
Registered(t, name, s) == RegisterUnit(t, name, s)

Register ==
    /\ table' = Registered(AddScope(table, NewScope("unit", ScopeName(File, Root), 0, 0)),
                           ScopeName(File, Root), Len(table.scopes) + 1)
    /\ scopeOf' = [scopeOf EXCEPT ![File] = Len(table.scopes) + 1]
    /\ UNCHANGED models

DeclareFile ==
    /\ table' = DeclareUnit(table, File, Root, scopeOf[File])
    /\ UNCHANGED <<scopeOf, models>>

ResolveFile ==
    /\ table' = ResolveUnit(table, File, Root, scopeOf[File])
    /\ models' = [models EXCEPT ![File] = [problems |-> table'.problems, refs |-> table'.refs]]
    /\ UNCHANGED scopeOf

Finished == done = 3 * Len(project)
Next == /\ ~Finished
        /\ \/ Round = "register" /\ Register
           \/ Round = "declare" /\ DeclareFile
           \/ Round = "resolve" /\ ResolveFile
        /\ done' = done + 1
        /\ UNCHANGED <<project, order>>

Spec == Init /\ [][Next]_vars

-----------------------------------------------------------------------------
\* What a table says of a reference, in terms of places in the sources.
PlaceOf(t, x) == IF x = 0 THEN <<>> ELSE t.symbols[x].at
Inside(t, s) == t.scopes[s].kind # "with"
Unqualified(t, refs) ==
    {<<r.at, r.kind, PlaceOf(t, r.resolved)>> :
        r \in {r \in Range(refs) : Len(r.name) = 1 /\ Inside(t, r.scope)}}

RECURSIVE Built(_, _, _)
Built(t, p, steps) ==
    IF steps = <<>> THEN t
    ELSE Built(LET f == Head(steps).file  s == Head(steps).scope
               IN CASE Head(steps).round = "register" ->
                           RegisterUnit(AddScope(t, NewScope("unit", ScopeName(f, p[f]), 0, 0)), ScopeName(f, p[f]), s)
                    [] Head(steps).round = "declare" -> DeclareUnit(t, f, p[f], s)
                    [] Head(steps).round = "resolve" -> [ResolveUnit(t, f, p[f], s) EXCEPT !.refs = t.refs \o @],
               p, Tail(steps))
Steps(p) ==
    [i \in 1 .. 3 * Len(p) |-> [round |-> Rounds[1 + ((i - 1) \div Len(p))],
                                file |-> 1 + ((i - 1) % Len(p)), scope |-> 1 + ((i - 1) % Len(p))]]
InFileOrder(p) == Built(EmptyTable, p, Steps(p))

AllRefs == FlattenSeq([f \in Files |-> models[f].refs])
Agree(t) == /\ Unqualified(table, AllRefs) = Unqualified(t, t.refs)
            /\ Range(table.problems) = Range(t.problems)

\* Whatever order the files are in: an unqualified name outside a with
\* statement means the same declaration, and the same units and types are
\* reported as unresolved - units may use each other.
NamesIgnoreFileOrder == Finished => Agree(InFileOrder(project))

\* The types whose members a value of a type has, by their distance.
Types == {x \in DOMAIN table.symbols : table.symbols[x].bases # <<>>}
Parents(s, types) == UNION {Range(Bases(table, s, x)) : x \in types}
Level(s, x) ==
    LET level[n \in 0 .. Cardinality(Types)] == IF n = 0 THEN {x} ELSE Parents(s, level[n - 1])
    IN level
Distance(level, y) == CHOOSE n \in DOMAIN level : y \in level[n] /\ \A m \in DOMAIN level : y \in level[m] => n <= m
Nearest(lineage, level) ==
    /\ Range(lineage) = UNION Range(level)
    /\ \A i, j \in DOMAIN lineage : i < j => /\ lineage[i] # lineage[j]
                                             /\ Distance(level, lineage[i]) <= Distance(level, lineage[j])
\* iter_member_symbols: what completion offers after a name and a dot
Offered(s, x) ==
    LET scopes == MemberScopes(table, s, x)
    IN FlattenSeq([i \in DOMAIN scopes |-> table.scopes[scopes[i]].symbols])
FirstNamed(offered, name) == First(SelectSeq(offered, LAMBDA y : table.symbols[y].name = name))
ResolvesAs(s, name, y) ==
    ResolveReference(table, s, name) \in {y} \cup Range(ResolveQualified(table, name))
Spoken == {r.name : r \in Range(AllRefs)}

\* Members are looked for in a type, then in its bases, then in theirs, each
\* once, although a type may be its own ancestor; and what completion offers
\* first under a name after a dot is what the name means once it is typed,
\* unless a unit of that name declares it too.
MembersAreNearest ==
    Finished =>
        /\ \A x \in Types, f \in Files : Nearest(Lineage(table, scopeOf[f], <<x>>, <<>>), Level(scopeOf[f], x))
        /\ \A f \in Files, name \in Spoken :
              LET x == ResolveReference(table, scopeOf[f], name)
              IN x # 0 => \A y \in Range(Offered(scopeOf[f], x)) :
                              FirstNamed(Offered(scopeOf[f], x), table.symbols[y].name) = y
                                  => ResolvesAs(scopeOf[f], name \o table.symbols[y].name, y)
===============================================================================
