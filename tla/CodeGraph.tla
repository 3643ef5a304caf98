------------------------------ MODULE CodeGraph ------------------------------
(***************************************************************************)
(* The code property graph of one target                                   *)
(* (src/delphi_lsp/agent_cpg_builder.py and agent_cpg.py): syntax, control *)
(* flow, reaching definitions by sweeps in the order of the hashed node    *)
(* names, calls, the limit on records, and the part that is asked for.  A  *)
(* node of the graph is the path of its syntax below the target; <<>> is   *)
(* the target.                                                             *)
(***************************************************************************)
EXTENDS StatementTrees, FiniteSets, FiniteSetsExt

CONSTANTS Units,         \* the sources: what is declared, the routines, and the target
          Questions(_),  \* those asked of a unit: graph, direction, depth and the limit on records
          Candidates     \* name of a routine -> the targets of that name in the registry

VARIABLES unit, parser, question, order,  \* what is asked of which tree, and the order of the hashes
          flow,                           \* the reaching definitions so far
          answer

vars == <<unit, parser, question, order, flow, answer>>

Entry == <<0>>
Exit == <<-1>>
Callee(target) == IF target = unit.target THEN <<>> ELSE <<-2, target>>
Edge(label, source, target, note) == [label |-> label, source |-> source, target |-> target, note |-> note]

(***************************************************************************)
(* Syntax                                                                  *)
(***************************************************************************)
RECURSIVE At(_, _), Preorder(_)
At(tree, path) == IF path = <<>> THEN tree ELSE At(tree.kids[Head(path)], Tail(path))
Preorder(tree) ==
    <<<<>>>> \o FlattenSeq([k \in DOMAIN tree.kids |->
                   LET below == Preorder(tree.kids[k]) IN [j \in DOMAIN below |-> <<k>> \o below[j]]])

\* _select_target_syntax: of the routines of that name the one on the nearest line
Methods(tree) == SelectSeq(Preorder(tree), LAMBDA p : At(tree, p).typ = "method")
Distance(tree, p, line) == IF At(tree, p).line > line THEN At(tree, p).line - line ELSE line - At(tree, p).line
Nearer(tree, line, p, q) ==
    \/ Distance(tree, p, line) < Distance(tree, q, line)
    \/ /\ Distance(tree, p, line) = Distance(tree, q, line)
       /\ \/ Len(At(tree, p).kids) > Len(At(tree, q).kids)
          \/ Len(At(tree, p).kids) = Len(At(tree, q).kids) /\ At(tree, p).line < At(tree, q).line
SelectTarget(tree, name, line) ==
    LET named == {p \in Range(Methods(tree)) : At(tree, p).name = name}
        best == {p \in named : \A q \in named : ~Nearer(tree, line, q, p)}
    IN IF named = {} THEN <<>> ELSE <<At(tree, CHOOSE p \in best : TRUE)>>

\* the syntax below the target in the order it is met, while there is room
Known(tree, limit) ==
    LET below == Tail(Preorder(tree))
    IN Range(SubSeq(below, 1, Min({Len(below), limit \div 2})))
AstEdges(known) == {Edge("AST", Front(p), p, Last(p)) : p \in known}

Statements == {"assign", "empty", "statement", "statements"}
Controls == {"case", "case else", "except", "exception handler", "finally", "for", "goto", "if", "raise",
             "repeat", "try", "while", "with"}
IsExecutable(node) == node.typ \in Statements \cup Controls \cup {"call"}
Kids(tree, p) == [k \in DOMAIN At(tree, p).kids |-> Append(p, k)]

(***************************************************************************)
(* Control flow                                                            *)
(***************************************************************************)
Nothing == [entries |-> {}, exits |-> {}, edges |-> {}]
Fragment(entries, exits, edges) == [entries |-> entries, exits |-> exits, edges |-> edges]
CfgEdge(source, target, kind) == Edge("CFG", source, target, kind)
Leave(p, kind) == {<<p, kind>>}
\* the edges of a fragment's exits to some nodes, under the kind of the exit
Linked(exits, targets) == {CfgEdge(x[1], t, x[2]) : x \in exits, t \in targets}
Into(p, fragment, kind) == {CfgEdge(p, t, kind) : t \in fragment.entries}
Back(p, fragment, kind) == {CfgEdge(x[1], p, kind) : x \in fragment.exits}
InSequence(fragments) ==
    LET parts == SelectSeq(fragments, LAMBDA f : f.entries # {})
    IN IF parts = <<>> THEN [Nothing EXCEPT !.edges = UNION {f.edges : f \in Range(fragments)}]
       ELSE Fragment(Head(parts).entries, Last(parts).exits,
                     UNION {f.edges : f \in Range(fragments)}
                         \cup UNION {Linked(parts[k].exits, parts[k + 1].entries) : k \in 1 .. Len(parts) - 1})
\* _branch_nodes: the executable children, those of an else among them
Branches(tree, p) ==
    LET executable(list) == SelectSeq(list, LAMBDA q : IsExecutable(At(tree, q)))
    IN FlattenSeq([k \in DOMAIN At(tree, p).kids |->
           LET kid == Append(p, k)
           IN IF At(tree, kid).typ = "else" THEN executable(Kids(tree, kid)) ELSE executable(<<kid>>)])

IfFragment(p, then, else, hasElse) ==
    Fragment({p}, then.exits \cup (IF hasElse THEN else.exits ELSE Leave(p, "false")),
             then.edges \cup else.edges \cup Into(p, then, "true") \cup Into(p, else, "false"))
\* Mutant: the body of a loop does not come back to its head
OnceFragment(p, body) == Fragment({p}, Leave(p, "false"), body.edges \cup Into(p, body, "true"))
LoopFragment(p, body) ==
    Fragment({p}, Leave(p, "false"), body.edges \cup Into(p, body, "true") \cup Back(p, body, "loop_back"))
RepeatFragment(p, body) ==
    IF body.entries = {} THEN Fragment({p}, Leave(p, "true"), body.edges)
    ELSE Fragment(body.entries, Leave(p, "true"),
                  body.edges \cup Back(p, body, "loop_test") \cup Into(p, body, "loop_back"))
BranchFragment(p, parts) ==
    LET exits == UNION {f.exits : f \in Range(parts)}
    IN Fragment({p}, IF exits = {} THEN Leave(p, "next") ELSE exits,
                UNION {f.edges \cup Into(p, f, "branch") : f \in Range(parts)})

RECURSIVE FragmentOf(_, _, _)
OfBranch(tree, known, branches, k) ==
    IF k \in DOMAIN branches THEN FragmentOf(tree, known, branches[k]) ELSE Nothing
OfAll(tree, known, list) == [k \in DOMAIN list |-> FragmentOf(tree, known, list[k])]
OfControl(tree, known, p, typ, branches) ==
    CASE typ = "if" /\ branches = <<>> -> Fragment({p}, Leave(p, "false"), {})
      [] typ = "if" /\ branches # <<>> -> IfFragment(p, OfBranch(tree, known, branches, 1),
                                                     OfBranch(tree, known, branches, 2), Len(branches) > 1)
      [] typ \in {"while", "for"} -> LoopFragment(p, OfBranch(tree, known, branches, Len(branches)))
      [] typ = "repeat" -> RepeatFragment(p, InSequence(OfAll(tree, known, branches)))
      [] typ \in {"case", "try", "except", "finally"} -> BranchFragment(p, OfAll(tree, known, branches))
      [] typ \in {"raise", "goto"} -> Fragment({p}, Leave(p, "terminal"), {})
      [] OTHER -> Fragment({p}, Leave(p, "next"), {})
FragmentOf(tree, known, p) ==
    IF At(tree, p).typ = "statements"
    THEN InSequence(OfAll(tree, known, SelectSeq(Kids(tree, p), LAMBDA q : IsExecutable(At(tree, q)))))
    ELSE IF p \notin known THEN Nothing
    ELSE OfControl(tree, known, p, At(tree, p).typ, Branches(tree, p))

\* _first_descendant: the first block met, and that of a routine declared inside is met first
Bodies(tree) == SelectSeq(Tail(Preorder(tree)), LAMBDA p : At(tree, p).typ = "statements")
Cfg(tree, known) ==
    LET body == IF Bodies(tree) = <<>> THEN Nothing ELSE FragmentOf(tree, known, Head(Bodies(tree)))
    IN {CfgEdge(<<>>, Entry, "entry")} \cup body.edges
           \cup (IF body.entries = {} THEN {CfgEdge(Entry, Exit, "empty")}
                 ELSE Into(Entry, body, "next") \cup Linked(body.exits, {Exit}))

(***************************************************************************)
(* Data flow: which assignment may have given a name the value used        *)
(***************************************************************************)
\* _named_identifiers: the identifiers below some syntax, with their names
Identifiers(tree, known, p) ==
    LET below == Preorder(At(tree, p))
        found == SelectSeq([k \in DOMAIN below |-> p \o below[k]],
                           LAMBDA q : q \in known /\ At(tree, q).typ = "identifier")
    IN [k \in DOMAIN found |-> <<At(tree, found[k]).name, found[k]>>]
Side(tree, p, typ) == SelectSeq(Kids(tree, p), LAMBDA q : At(tree, q).typ = typ)
Owners(tree, known) == {p \in known : At(tree, p).typ \in Controls \cup {"assign", "call"}}
Definitions(tree, known, p) ==
    IF At(tree, p).typ = "assign" THEN Identifiers(tree, known, Side(tree, p, "LHS")[1]) ELSE <<>>
Uses(tree, known, p) ==
    LET typ == At(tree, p).typ
        plain == SelectSeq(Kids(tree, p), LAMBDA q : ~IsExecutable(At(tree, q)))
        called == Identifiers(tree, known, p)
    IN CASE typ = "assign" -> Identifiers(tree, known, Side(tree, p, "RHS")[1])
         [] typ = "call" -> IF called = <<>> THEN <<>> ELSE Tail(called)
         [] typ \in Controls -> FlattenSeq([k \in DOMAIN plain |-> Identifiers(tree, known, plain[k])])
         [] OTHER -> <<>>
Facts(tree, known, list(_, _, _)) == [p \in Owners(tree, known) |-> list(tree, known, p)]
FactEdges(label, facts) ==
    UNION {{Edge(label, <<>>, f[2], <<f[1], p>>) : f \in Range(facts[p])} : p \in DOMAIN facts}

\* Mutant: an assignment leaves the earlier definitions of its name
KeepAll(incoming, defined) == incoming \cup Range(defined)
\* what an assignment leaves of the definitions that reach it; the last of a name counts
Outgoing(incoming, defined) ==
    {d \in incoming : \A k \in DOMAIN defined : defined[k][1] # d[1]}
        \cup {defined[k] : k \in {j \in DOMAIN defined : \A i \in j + 1 .. Len(defined) : defined[i][1] # defined[j][1]}}
FlowNodes(cfg, owners) == owners \cup UNION {{e.source, e.target} : e \in cfg}
NoFlow(cfg, definitions) ==
    LET nodes == FlowNodes(cfg, DOMAIN definitions)
    IN [cfg |-> cfg, definitions |-> definitions, changed |-> TRUE, left |-> Max({1, 4 * Cardinality(nodes)}),
        incoming |-> [n \in nodes |-> {}], outgoing |-> [n \in nodes |-> {}]]
DefinedAt(f, n) == IF n \in DOMAIN f.definitions THEN f.definitions[n] ELSE <<>>
Merged(f, n) == UNION {f.outgoing[e.source] : e \in {x \in f.cfg : x.target = n}}
Updated(f, n) ==
    LET in == Merged(f, n)
        out == Outgoing(in, DefinedAt(f, n))
    IN IF f.incoming[n] = in /\ f.outgoing[n] = out THEN f
       ELSE [f EXCEPT !.incoming[n] = in, !.outgoing[n] = out, !.changed = TRUE]
RECURSIVE Through(_, _)
Through(f, nodes) ==
    IF nodes = <<>> THEN f
    ELSE LET next == Updated(f, Head(nodes))
         IN IF next.changed THEN Through(next, Tail(nodes)) ELSE Through(f, Tail(nodes))
Swept(f, nodes) == Through([f EXCEPT !.changed = FALSE, !.left = @ - 1], nodes)
Reaching(f, uses) ==
    UNION {{Edge("REACHING_DEF", d[2], u[2], <<u[1], p>>) :
                <<d, u>> \in {x \in (IF p \in DOMAIN f.incoming THEN f.incoming[p] ELSE {}) \X Range(uses[p]) :
                                  x[1][1] = x[2][1]}}
           : p \in DOMAIN uses}

(***************************************************************************)
(* Calls                                                                   *)
(***************************************************************************)
CallsIn(tree) == SelectSeq(Preorder(tree), LAMBDA p : At(tree, p).typ = "call")
Named(tree, known, p) == p \in known /\ Identifiers(tree, known, p) # <<>>
MatchesOf(name) == IF name \in DOMAIN Candidates THEN Candidates[name] ELSE {}
MatchesAt(tree, known, p) ==
    IF Named(tree, known, p) THEN MatchesOf(Identifiers(tree, known, p)[1][1]) ELSE {}
\* Mutant: of several candidates one is taken
AnyMatch(matches) == matches # {}
IsUnique(matches) == Cardinality(matches) = 1
CallEdges(tree, known) ==
    {Edge("CALL", <<>>, Callee(CHOOSE t \in MatchesAt(tree, known, p) : TRUE), <<"", p>>) :
         p \in {q \in Range(CallsIn(tree)) : IsUnique(MatchesAt(tree, known, q))}}
Unresolved(tree, known) ==
    Cardinality({p \in Range(CallsIn(tree)) : ~IsUnique(MatchesAt(tree, known, p))})

(***************************************************************************)
(* The limit, and the part that is asked for                               *)
(***************************************************************************)
Whole(nodes, edges, truncated, unresolved) ==
    [nodes |-> nodes, edges |-> edges, truncated |-> truncated, unresolved |-> unresolved]
\* Mutant: the first of the nodes are kept, the root among them or not
AnyCut(g, limit) ==
    IF Cardinality(g.nodes) + Cardinality(g.edges) <= limit THEN {g}
    ELSE {[g EXCEPT !.nodes = kept, !.edges = {}, !.truncated = TRUE] :
              kept \in kSubset(Min({limit, Cardinality(g.nodes)}), g.nodes)}
\* CpgSubgraph.create: of the hashed names any may be the first; the root stays
Cut(g, limit) ==
    IF Cardinality(g.nodes) + Cardinality(g.edges) <= limit THEN {g}
    ELSE IF Cardinality(g.nodes) > limit
    THEN {[g EXCEPT !.nodes = {<<>>} \cup others, !.edges = {}, !.truncated = TRUE] :
              others \in kSubset(limit - 1, g.nodes \ {<<>>})}
    ELSE {[g EXCEPT !.edges = kept, !.truncated = TRUE] :
              kept \in kSubset(limit - Cardinality(g.nodes), g.edges)}
Closed(g) == [g EXCEPT !.edges = {e \in @ : {e.source, e.target} \subseteq g.nodes}]

Labels(graph) == CASE graph = "ast" -> {"AST"} [] graph = "cfg" -> {"CFG"} [] graph = "call" -> {"CALL"}
                   [] graph = "dfg" -> {"DEF", "USE", "REACHING_DEF"}
                   [] graph = "full" -> {"AST", "CFG", "CALL", "DEF", "USE", "REACHING_DEF"}
Touching(edges, direction, nodes) ==
    {e \in edges : \/ direction \in {"out", "both"} /\ e.source \in nodes
                   \/ direction \in {"in", "both"} /\ e.target \in nodes}
Wider(edges, direction, nodes) ==
    nodes \cup {e.target : e \in {x \in edges : direction # "in" /\ x.source \in nodes}}
          \cup {e.source : e \in {x \in edges : direction # "out" /\ x.target \in nodes}}
RECURSIVE Within(_, _, _, _)
Within(edges, direction, nodes, depth) ==
    LET wider == Wider(edges, direction, nodes)
    IN IF depth = 0 \/ wider = nodes THEN nodes ELSE Within(edges, direction, wider, depth - 1)
Select(g, graph, direction, depth) ==
    LET edges == {e \in g.edges : e.label \in Labels(graph)}
    IN [g EXCEPT !.nodes = @ \cap Within(edges, direction, {<<>>}, depth),
                 !.edges = Touching(edges, direction, Within(edges, direction, {<<>>}, depth - 1))]

(***************************************************************************)
(* metrics.py                                                              *)
(***************************************************************************)
Decisions == {"if", "for", "while", "repeat", "case selector", "exception handler"}
DecidesAt(node) ==
    \/ node.typ \in Decisions
    \/ node.typ = "except" /\ \A k \in DOMAIN node.kids : node.kids[k].typ # "exception handler"
RECURSIVE DecisionCount(_)
DecisionCount(node) ==
    FoldLeft(LAMBDA n, kid : IF kid.typ = "method" THEN n
                             ELSE n + DecisionCount(kid) + (IF DecidesAt(kid) THEN 1 ELSE 0),
             0, node.kids)
Complexity(tree) == 1 + DecisionCount(tree)

(***************************************************************************)
(* build_cpg_subgraph                                                      *)
(***************************************************************************)
HasFlow == question.graph \in {"cfg", "dfg", "full"}
HasData == question.graph \in {"dfg", "full"}
HasCalls == question.graph \in {"call", "full"}
Cold == [step |-> "build"]
Init ==
    /\ unit \in Units
    /\ parser \in {"native", "legacy"}
    /\ question \in Questions(unit)
    /\ order \in (IF HasData THEN {"ascending", "descending"} ELSE {"ascending"})
    /\ flow = Cold
    /\ answer = {}

Built(tree, known) ==
    LET cfg == IF HasFlow THEN Cfg(tree, known) ELSE {}
        definitions == IF HasData THEN Facts(tree, known, Definitions) ELSE <<>>
        uses == IF HasData THEN Facts(tree, known, Uses) ELSE <<>>
        calls == IF HasCalls THEN CallEdges(tree, known) ELSE {}
    IN [step |-> "flow", tree |-> tree, uses |-> uses,
        graph |-> Whole({<<>>} \cup known \cup (IF HasFlow THEN {Entry, Exit} ELSE {})
                            \cup {e.target : e \in calls},
                        AstEdges(known) \cup cfg \cup calls
                            \cup FactEdges("DEF", definitions) \cup FactEdges("USE", uses),
                        Cardinality(known) < Len(Preorder(tree)) - 1,
                        IF HasCalls THEN Unresolved(tree, known) ELSE 0),
        data |-> NoFlow(cfg, definitions)]
TreeOf(u) == UnitTree(parser, u.declared, u.routines)
Build ==
    /\ flow.step = "build"
    /\ \E selected \in {SelectTarget(TreeOf(unit), unit.target.name, unit.target.line)} :
          IF selected = <<>>
          THEN flow' = [step |-> "answer", graph |-> Whole({<<>>}, {}, FALSE, 0)]
          ELSE \E known \in {Known(selected[1], question.limit)} : flow' = Built(selected[1], known)
    /\ UNCHANGED <<unit, parser, question, order, answer>>

\* sorted(flow_nodes): the names are hashes, so either order of the tree may be the order of the names
Ascending(tree, nodes) ==
    SelectSeq(<<<<>>, Entry>> \o Tail(Preorder(tree)) \o <<Exit>>, LAMBDA n : n \in nodes)
Ordered(tree, nodes) == IF order = "ascending" THEN Ascending(tree, nodes) ELSE Reverse(Ascending(tree, nodes))
Sweep ==
    /\ flow.step = "flow" /\ HasData
    /\ flow.data.changed /\ flow.data.left > 0
    /\ flow' = [flow EXCEPT !.data = Swept(@, Ordered(flow.tree, DOMAIN @.incoming))]
    /\ UNCHANGED <<unit, parser, question, order, answer>>
Settle ==
    /\ flow.step = "flow"
    /\ HasData => ~flow.data.changed \/ flow.data.left = 0
    /\ flow' = [flow EXCEPT !.step = "answer", !.graph.edges = @ \cup Reaching(flow.data, flow.uses)]
    /\ UNCHANGED <<unit, parser, question, order, answer>>
Answer ==
    /\ flow.step = "answer"
    /\ \E g \in Cut(flow.graph, question.limit) :
          answer' = {Closed(Select(Closed(g), question.graph, question.direction, question.depth))}
    /\ flow' = [flow EXCEPT !.step = "done"]
    /\ UNCHANGED <<unit, parser, question, order>>

Next == Build \/ Sweep \/ Settle \/ Answer
Spec == Init /\ [][Next]_vars
================================================================================
