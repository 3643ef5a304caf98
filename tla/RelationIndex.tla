---------------------------- MODULE RelationIndex ----------------------------
(***************************************************************************)
(* The relations of the targets of a project                               *)
(* (src/delphi_lsp/agent_relations.py).  Units are numbered.  Facts[c] is  *)
(* what a parse finds in the content c: its entries, the unit itself       *)
(* first, its clauses, references and base types, and whether a strict     *)
(* parse fails.  A target is <<unit, number of the entry>>, a group all    *)
(* targets of one unit, name and kind; `known' holds the contents the      *)
(* targets were made of and `read' what is on disk.  A unit number that is *)
(* not in Units stands for a name no unit has.                             *)
(***************************************************************************)
EXTENDS Pagination, FiniteSets

CONSTANTS Units, Facts, Lightweight,  \* whether the project is a bare workspace
          ItemText                       \* type of an item -> its JSON

Routines == {"procedure", "function", "method"}
Types == {"class", "interface", "record"}

Entries(texts, u) == Facts[texts[u]].entries
Group(u, entry) == <<u, entry.name, entry.kind>>
UnitGroup(texts, u) == Group(u, Entries(texts, u)[1])
NoGroup == <<>>
\* _target_for_symbol and _relation_item: the first target of the group
FirstOf(texts, g) == SelectInSeq(Entries(texts, g[1]), LAMBDA e : Group(g[1], e) = g)
IsTarget(index, known, g) ==
    /\ g # NoGroup /\ FirstOf(known, g) > 0
    /\ index.complete \/ g[3] = "unit"

EmptyIndex(complete) ==
    [complete |-> complete, deep |-> FALSE, loaded |-> {}, edges |-> <<>>, records |-> <<>>,
     bases |-> <<>>, problems |-> <<>>, unresolved |-> 0, ambiguous |-> 0]
Problem(kind, u, line) == [kind |-> kind, unit |-> u, line |-> line]
Edge(from, to, clause, u, line) ==
    [from |-> from, to |-> to, clause |-> clause, unit |-> u, line |-> line]

\* _ensure_unit_graph and _add_lightweight_unit_edges: units are read one by
\* one when a question needs them, and what they add stays
AddClause(index, known, u, c) ==
    IF c.unit \notin Units
    THEN [index EXCEPT !.unresolved = @ + 1,
                       !.problems = Append(@, Problem("unresolved_unit", u, c.line))]
    ELSE [index EXCEPT !.edges = Append(@,
            Edge(UnitGroup(known, u), UnitGroup(known, c.unit),
                 IF c.clause = "contains" THEN "contains" ELSE "uses", u, c.line))]
LoadUnit(index, known, read, u) ==
    IF u \in index.loaded THEN index
    ELSE IF Facts[read[u]].broken
    THEN [index EXCEPT !.loaded = @ \cup {u},
                       !.problems = Append(@, Problem("cant_parse_file", u, 0))]
    ELSE FoldLeft(LAMBDA i, c : AddClause(i, known, u, c),
                  [index EXCEPT !.loaded = @ \cup {u}], Facts[read[u]].clauses)
Deduped(problems) ==
    FoldLeft(LAMBDA seen, p : IF Contains(seen, p) THEN seen ELSE Append(seen, p), <<>>, problems)
UnitGraph(index, known, read, units) ==
    IF index.deep THEN index
    ELSE LET loaded == FoldLeft(LAMBDA i, u : LoadUnit(i, known, read, u), index, units)
         IN [loaded EXCEPT !.problems = Deduped(@)]

\* What a name means in a unit: what it declares, else what the first unit it
\* uses declares; overloads are found together
DeclaredIn(read, u, name) ==
    {Group(u, e) : e \in {x \in Range(Tail(Entries(read, u))) : x.name = name}}
UsedUnits(read, u) ==
    SelectSeq(Facts[read[u]].clauses,
              LAMBDA c : c.clause = "uses" /\ c.unit \in Units /\ ~Facts[read[c.unit]].broken)
Resolved(read, u, name) ==
    IF DeclaredIn(read, u, name) # {} THEN DeclaredIn(read, u, name)
    ELSE LET declaring == SelectSeq(UsedUnits(read, u),
                                    LAMBDA c : DeclaredIn(read, c.unit, name) # {})
         IN IF declaring = <<>> THEN {} ELSE DeclaredIn(read, declaring[1].unit, name)

\* _build_graph: references, with the unit edges their clauses give
OwnerOf(index, known, read, u, ref) ==
    LET routine == IF ref.owner = 0 THEN NoGroup ELSE Group(u, Entries(read, u)[ref.owner])
    IN IF IsTarget(index, known, routine) THEN routine
       ELSE IF ref.kind # "call" /\ IsTarget(index, known, UnitGroup(read, u))
       THEN UnitGroup(read, u) ELSE NoGroup
Record(to, owner, kind, u, line) ==
    [to |-> to, owner |-> owner, kind |-> kind, unit |-> u, line |-> line]
AddReference(index, groups, owner, u, ref) ==
    IF Cardinality(groups) > 1 THEN [index EXCEPT !.ambiguous = @ + 1]
    ELSE IF groups = {} THEN [index EXCEPT !.unresolved = @ + 1]
    ELSE [index EXCEPT !.records = Append(@,
            Record(CHOOSE g \in groups : TRUE, owner, ref.kind, u, ref.line))]
Reference(index, known, read, u, ref) ==
    AddReference(index, {g \in Resolved(read, u, ref.name) : IsTarget(index, known, g)},
                 OwnerOf(index, known, read, u, ref), u, ref)
UnitReference(index, known, read, u, c) ==
    IF c.unit \notin Units \/ Facts[read[c.unit]].broken
    THEN [index EXCEPT !.unresolved = @ + 1]
    ELSE [index EXCEPT
            !.records = Append(@, Record(UnitGroup(read, c.unit), UnitGroup(read, u),
                                         "unit", u, c.line)),
            !.edges = Append(@, Edge(UnitGroup(read, u), UnitGroup(read, c.unit),
                                     "unit", u, c.line))]
\* _classify_type_relation, for the base types of one symbol
RelationOf(source, base) ==
    CASE source = base /\ source \in {"class", "interface"} -> "inherits"
      [] source \in {"class", "record"} /\ base = "interface" -> "implements"
      [] OTHER -> ""
BaseGroup(read, u, b) ==
    IF Resolved(read, u, b.base) = {} THEN NoGroup ELSE CHOOSE g \in Resolved(read, u, b.base) : TRUE
AddBase(index, known, u, from, to) ==
    IF ~IsTarget(index, known, from) THEN index
    ELSE IF ~IsTarget(index, known, to) THEN [index EXCEPT !.unresolved = @ + 1]
    ELSE IF RelationOf(from[3], to[3]) = "" THEN index
    ELSE [index EXCEPT !.bases = Append(@, Edge(from, to, RelationOf(from[3], to[3]), u, FirstOf(known, from)))]
\* _add_contains_edges
Contained(index, known, u, c) ==
    IF c.unit \notin Units THEN [index EXCEPT !.unresolved = @ + 1]
    ELSE [index EXCEPT !.edges = Append(@,
            Edge(UnitGroup(known, u), UnitGroup(known, c.unit), "contains", u, c.line))]

OfClause(read, u, clause) == SelectSeq(Facts[read[u]].clauses, LAMBDA c : c.clause = clause)
OverUnits(index, read, Step(_, _)) ==
    FoldLeft(LAMBDA i, u : IF Facts[read[u]].broken THEN i ELSE Step(i, u), index, [u \in Units |-> u])
References(index, known, read, u) ==
    FoldLeft(LAMBDA i, ref : Reference(i, known, read, u, ref),
             FoldLeft(LAMBDA i, c : UnitReference(i, known, read, u, c), index,
                      OfClause(read, u, "uses")),
             Facts[read[u]].refs)
Bases(index, known, read, u) ==
    FoldLeft(LAMBDA i, b : AddBase(i, known, u, Group(u, Entries(read, u)[b.type]),
                                   BaseGroup(read, u, b)),
             index, Facts[read[u]].bases)
Containments(index, known, read, u) ==
    FoldLeft(LAMBDA i, c : Contained(i, known, u, c), index, OfClause(read, u, "contains"))
LoadProblems(read) ==
    LET broken == SelectSeq([u \in Units |-> u], LAMBDA u : Facts[read[u]].broken)
    IN [k \in DOMAIN broken |-> Problem("cant_parse_file", broken[k], 0)]

\* _ensure_deep_graph: everything read, what was loaded lightly forgotten
DeepGraph(index, known, read) ==
    IF index.deep THEN index
    ELSE LET fresh == [EmptyIndex(index.complete) EXCEPT !.loaded = index.loaded,
                                                         !.problems = LoadProblems(read)]
             refs == OverUnits(fresh, read, LAMBDA i, u : References(i, known, read, u))
             bases == OverUnits(refs, read, LAMBDA i, u : Bases(i, known, read, u))
         IN [OverUnits(bases, read, LAMBDA i, u : Containments(i, known, read, u))
                EXCEPT !.deep = TRUE]

\* trace: which graph a question needs, and what it reads from it
Applicable(kind, relation) ==
    CASE relation \in {"callers", "callees"} -> kind \in Routines
      [] relation \in {"uses", "used_by"} -> kind = "unit"
      [] relation = "inherits" -> kind \in {"class", "interface"}
      [] relation = "implements" -> kind \in {"class", "record"}
      [] OTHER -> TRUE
GraphFor(index, known, read, u, relation) ==
    CASE Lightweight /\ relation = "uses" -> UnitGraph(index, known, read, <<u>>)
      [] Lightweight /\ relation = "used_by" -> UnitGraph(index, known, read, [v \in Units |-> v])
      [] OTHER -> DeepGraph(index, known, read)
Found(group, at, kind) == [group |-> group, unit |-> at.unit, line |-> at.line, kind |-> kind]
Related(index, g, relation) ==
    CASE relation = "references" ->
            {Found(IF r.owner = NoGroup THEN r.to ELSE r.owner, r, r.kind) :
                r \in {x \in Range(index.records) : x.to = g}}
      [] relation = "callers" ->
            {Found(r.owner, r, r.kind) : r \in {x \in Range(index.records) :
                x.to = g /\ x.kind = "call" /\ x.owner # NoGroup}}
      [] relation = "callees" ->
            {Found(r.to, r, r.kind) : r \in {x \in Range(index.records) :
                x.owner = g /\ x.kind = "call"}}
      [] relation = "uses" -> {Found(e.to, e, e.clause) : e \in {x \in Range(index.edges) : x.from = g}}
      [] relation = "used_by" ->
            {Found(e.from, e, e.clause) : e \in {x \in Range(index.edges) : x.to = g}}
      [] OTHER -> {Found(e.to, e, e.clause) : e \in {x \in Range(index.bases) :
                      x.from = g /\ x.clause = relation}}

Evidence == <<"call", "contains", "implements", "inherits", "name", "unit", "uses">>
SortKey(known, f) ==
    <<f.group[1], FirstOf(known, f.group), f.unit, f.line, SelectInSeq(Evidence, LAMBDA k : k = f.kind)>>
KeyBefore(a, b) == \E i \in DOMAIN a : a[i] < b[i] /\ \A j \in 1 .. i - 1 : a[j] = b[j]
Item(type, of) == Whole(type, <<type, of>>, ItemText[type])
RelationItem(known, f) ==
    Item("relation", <<f.group[1], FirstOf(known, f.group), f.unit, f.line, f.kind>>)
InOrder(set, Before(_, _)) ==
    [k \in 1 .. Cardinality(set) |->
        CHOOSE x \in set : Cardinality({y \in set : Before(y, x)}) = k - 1]
RelationItems(known, found) ==
    LET sorted == InOrder({f \in found : FirstOf(known, f.group) > 0},
                          LAMBDA a, b : KeyBefore(SortKey(known, a), SortKey(known, b)))
    IN [k \in DOMAIN sorted |-> RelationItem(known, sorted[k])]
Metadata(index, relation) ==
    Item("relation_metadata", <<relation, index.unresolved, index.ambiguous, Len(index.problems)>>)
ProblemItems(problems) == [k \in DOMAIN problems |-> Item("relation_problem", problems[k])]
TraceItems(index, known, g, relation) ==
    <<Metadata(index, relation)>> \o RelationItems(known, Related(index, g, relation))
        \o ProblemItems(index.problems)
================================================================================
