----------------------------- MODULE MCCodeGraph -----------------------------
EXTENDS CodeGraph

(***************************************************************************)
(* Sources.  The children of the statement on line l are on the lines      *)
(* 10 * l + 1, 10 * l + 2, ...                                             *)
(***************************************************************************)
Stmt(kind, l, name, expr, body, other) ==
    [kind |-> kind, line |-> l, name |-> name, expr |-> expr, body |-> body, other |-> other]
A == Name("a")
Called(name, args) == [kind |-> "call", of |-> "", name |-> name, args |-> args]
AssignOf(name, e, l) == Stmt("assign", l, name, e, <<>>, <<>>)
CallOf(name, l) == Stmt("call", l, "", <<Called(name, << <<A>> >>)>>, <<>>, <<>>)
\* of.name(a), or of.name and nothing else
Qualified(kind, of, name, l) ==
    Stmt("call", l, "", <<[kind |-> kind, of |-> of, name |-> name, args |-> IF kind = "call" THEN << <<A>> >> ELSE <<>>]>>, <<>>, <<>>)
Control(kind, e, l, body, other) == Stmt(kind, l, "", e, body, other)

Simple(l) == {AssignOf("a", <<Number>>, l), AssignOf("a", <<A, Number>>, l), CallOf("Foo", l)}
Test == <<A, Number>>
Asked == <<Called("Foo", << <<A>> >>)>>
Inner(l) ==
    LET k == 10 * l IN
    Simple(l)
    \cup {Control("if", Test, l, <<s>>, other) : s \in Simple(k + 1), other \in {<<>>, <<CallOf("Bar", k + 2)>>}}
    \cup {Control("while", Test, l, <<s>>, <<>>) : s \in Simple(k + 1)}
    \cup {Control("repeat", Test, l, <<s>>, <<>>) : s \in Simple(k + 1)}
Outer(l) ==
    LET k == 10 * l
        pair == {Stmt("block", k + 1, "", <<>>, <<s, t>>, <<>>) : s \in Inner(10 * k + 11), t \in Simple(10 * k + 12)}
    IN Inner(l)
       \cup {Control("if", Test, l, <<s>>, other) : s \in pair, other \in {<<>>, <<AssignOf("a", <<Number>>, k + 2)>>}}
       \cup {Control("while", e, l, <<s>>, <<>>) : e \in {Test, Asked}, s \in pair}
       \cup {Control("repeat", Test, l, <<s, t>>, <<>>) : s \in Inner(k + 1), t \in Simple(k + 2)}
       \cup {Stmt("for", l, "i", <<Number, A>>, <<s>>, <<>>) : s \in pair}
Rare(l) ==
    LET k == 10 * l IN
    {Control("if", Asked, l, <<AssignOf("a", <<Number>>, k + 1)>>, <<CallOf("Bar", k + 2)>>)}
    \cup {Control("case", Test, l, <<s, CallOf("Bar", k + 2)>>, other) :
              s \in Simple(k + 1), other \in {<<>>, <<AssignOf("a", <<Number>>, k + 3)>>}}
    \cup {Stmt("try", l, name, <<>>, <<s, CallOf("Bar", k + 2)>>, <<AssignOf("b", <<A>>, k + 3)>>) :
              name \in {"finally", "except", "on"}, s \in Simple(k + 1)}
    \cup {Control("with", Test, l, <<s>>, <<>>) : s \in Simple(k + 1)}
    \cup {Control("raise", Asked, l, <<>>, <<>>)}
    \cup {Control("while", Test, l, <<Qualified(kind, of, name, k + 1)>>, <<>>) :
              kind \in {"call", "name"}, of \in {"", "a", "Foo", "Bar"}, name \in {"Foo", "Bar"}}
    \cup {Stmt("assign", l, "a", <<[kind |-> kind, of |-> "b", name |-> "Foo", args |-> <<>>], Number>>, <<>>, <<>>) :
              kind \in {"call", "name"}}

Run(line, nested, body) == [name |-> "Run", line |-> line, nested |-> nested, declares |-> FALSE, body |-> body]
Heading == [name |-> "Run", line |-> 1, nested |-> <<>>, declares |-> TRUE, body |-> <<>>]
Local == [name |-> "Local", line |-> 2, nested |-> <<>>, declares |-> FALSE, body |-> <<CallOf("Run", 21)>>]
UnitOf(declared, routine, line) ==
    [declared |-> declared, routines |-> <<routine>>, target |-> [name |-> "Run", line |-> line]]
Around(s) == <<AssignOf("a", <<Number>>, 31), s, AssignOf("b", <<A>>, 33)>>
Tiny == {UnitOf(<<>>, Run(3, <<>>, <<CallOf("Run", 31)>>), 3)}
AllUnits ==
    {UnitOf(<<>>, Run(3, <<>>, Around(s)), 3) : s \in Outer(32) \cup Rare(32)}
        \cup Tiny
        \cup {UnitOf(<<Heading>>, Run(3, nested, <<CallOf("Foo", 31)>>), line) : nested \in {<<>>, <<Local>>}, line \in {1, 3}}
        \cup {[UnitOf(<<Heading>>, Local, 1) EXCEPT !.target.name = "Gone"]}

Question(graph, direction, depth, limit) ==
    [graph |-> graph, direction |-> direction, depth |-> depth, limit |-> limit]
Plenty == 1000
AllQuestions(u) ==
    IF u \in Tiny
    THEN [graph : {"ast", "cfg", "dfg", "call", "full"}, direction : {"in", "out", "both"}, depth : {1, 2}, limit : {1, 4, 6, Plenty}]
    ELSE {Question("full", "out", 16, Plenty)}
TargetNamed(name, line) == [name |-> name, line |-> line]
AllCandidates ==
    [name \in {"Foo", "Bar", "Run"} |->
         CASE name = "Foo" -> {TargetNamed("Foo", 50)}
           [] name = "Bar" -> {TargetNamed("Bar", 2), TargetNamed("Bar", 60)}
           [] name = "Run" -> {TargetNamed("Run", 3)}]

(***************************************************************************)
(* What the source says                                                    *)
(***************************************************************************)
\* The lines a statement runs through; a loop is taken at most twice.
RECURSIVE Runs(_), RunsOf(_)
Joined(R, S) == {r \o s : r \in R, s \in S}
RunsOf(list) == IF list = <<>> THEN {<<>>} ELSE Joined(Runs(Head(list)), RunsOf(Tail(list)))
Runs(s) ==
    LET here == {<<s.line>>}
        body == RunsOf(s.body)
        round == CASE s.kind = "repeat" -> Joined(body, here) [] OTHER -> Joined(here, body)
    IN CASE s.kind \in {"assign", "call"} -> here
         [] s.kind = "block" -> body
         [] s.kind = "if" -> Joined(here, body \cup RunsOf(s.other))
         [] s.kind \in {"while", "for"} -> here \cup Joined(round, here) \cup Joined(round, Joined(round, here))
         [] s.kind = "repeat" -> round \cup Joined(round, round)

RECURSIVE Parts(_)
Parts(s) == {s} \cup UNION {Parts(t) : t \in Range(s.body) \cup Range(s.other)}
Source == unit.routines[1]
Written == UNION {Parts(s) : s \in Range(Source.body)}
Answered == flow.step = "done" /\ question.limit = Plenty /\ "tree" \in DOMAIN flow
\* Statements whose flow both parsers give a shape the graph can follow: a routine
\* called without parentheses is an identifier, and no step of the flow.
IsPlain ==
    /\ unit.target.line = 3 /\ Source.nested = <<>>
    /\ \A s \in Written : /\ s.kind \in {"assign", "call", "block", "if", "while", "for", "repeat"}
                          /\ s.kind = "if" => s.expr = Test
                          /\ s.kind = "call" => s.expr[1].kind = "call"
WholeRuns == Joined(Joined({<<0>>}, RunsOf(Source.body)), {<<-1>>})

RECURSIVE NamesIn(_), CallsOf(_)
\* the names an expression uses; what a call begins with is not among them
NamesIn(e) ==
    LET path(o) == SelectSeq(<<o.of, o.name>>, LAMBDA n : n # "")
        own(o) == IF o.kind = "call" THEN Tail(path(o)) ELSE path(o)
    IN UNION {Range(own(o)) \cup UNION {NamesIn(x) : x \in Range(o.args)} : o \in Range(e)}
\* the calls written with parentheses, each by the name it begins with
CallsOf(e) ==
    LET first(o) == IF o.of = "" THEN o.name ELSE o.of
    IN UNION {(IF o.kind = "call" THEN {first(o)} ELSE {}) \cup UNION {CallsOf(x) : x \in Range(o.args)} : o \in Range(e)}
Matching(name) == IF name \in DOMAIN AllCandidates THEN AllCandidates[name] ELSE {}
\* What a run gives a name and where that value is used.
Given(runs, assigned, used) ==
    UNION {{<<n, r[i], r[j]>> : <<n, i, j>> \in
                {x \in {"a", "b"} \X (DOMAIN r) \X (DOMAIN r) :
                     /\ x[2] < x[3]
                     /\ <<x[1], r[x[2]]>> \in assigned /\ <<x[1], r[x[3]]>> \in used
                     /\ \A k \in x[2] + 1 .. x[3] - 1 : <<x[1], r[k]>> \notin assigned}}
           : r \in runs}

LineOf(p) == CASE p = Entry -> 0 [] p = Exit -> -1 [] OTHER -> At(flow.tree, p).line
Drawn(label) == {e \in flow.graph.edges : e.label = label}
OwnUses == {e \in Drawn("REACHING_DEF") : LineOf(e.target) = LineOf(e.note[2])}
FlowDrawn == {e \in Drawn("CFG") : e.source # <<>>}

(***************************************************************************)
(* Properties                                                              *)
(***************************************************************************)
\* The control flow of a routine (_build_cfg) goes from one line to another
\* just when some run of the source does, whichever parser built the tree, and the
\* complexity of the routine (metrics.py, counted on the tree alone) is that of
\* this graph: edges less nodes and two.
FlowFollowsRuns ==
    Answered /\ HasFlow /\ IsPlain =>
        /\ {<<LineOf(e.source), LineOf(e.target)>> : e \in FlowDrawn}
               = UNION {{<<r[k], r[k + 1]>> : k \in 1 .. Len(r) - 1} : r \in WholeRuns}
        /\ Complexity(flow.tree)
               = Cardinality(FlowDrawn) - Cardinality(UNION {{e.source, e.target} : e \in FlowDrawn}) + 2

\* In either order of the node names the sweeps (_build_data_flow) settle before
\* their number is used up, and then an assignment reaches a use just when some
\* run of the source gives the name that value there.  (An if also claims the
\* names of its else as uses of its own: those are left aside.)
ReachingIsExact ==
    Answered /\ HasData =>
        /\ ~flow.data.changed
        /\ (IsPlain /\ \A s \in Written : s.kind # "for" /\ (s.kind = "while" => s.expr = Test)) =>
              {<<e.note[1], LineOf(e.source), LineOf(e.target)>> : e \in OwnUses}
                  = Given(WholeRuns, {<<s.name, s.line>> : s \in {t \in Written : t.kind = "assign"}},
                          UNION {NamesIn(s.expr) \X {s.line} : s \in Written})

\* A call that the source writes with parentheses is drawn to the routine that the
\* name it begins with belongs to when there is just one (_build_calls: of a
\* qualified call, x.Foo(a), that name is the qualifier x), and is counted as
\* unresolved when there is none or are several, and nothing else is, whatever the
\* parser made of the statement it stands in: a routine called without parentheses
\* is neither drawn nor counted.
CallsAreAccounted ==
    Answered /\ HasCalls =>
        LET written == Written \cup UNION {UNION {Parts(s) : s \in Range(r.body)} : r \in Range(Source.nested)}
            calls == IF unit.target.line = 1 THEN {} ELSE UNION {CallsOf(s.expr) \X {s.line} : s \in written}
            one == {c \in calls : Cardinality(Matching(c[1])) = 1}
        IN /\ {<<e.target, LineOf(e.note[2])>> : e \in Drawn("CALL")}
                  = {<<Callee(CHOOSE t \in Matching(c[1]) : TRUE), c[2]>> : c \in one}
           /\ flow.graph.unresolved = Cardinality(calls \ one)

\* Whatever the limit on records leaves out, the target is in the answer, an edge
\* joins two nodes of it, the limit holds, and an answer that is not called
\* truncated is the one without a limit (CpgSubgraph.create, select).
AnswerIsHonest ==
    \A g \in answer :
      LET whole == Closed(Select(flow.graph, question.graph, question.direction, question.depth))
      IN /\ <<>> \in g.nodes
         /\ \A e \in g.edges : {e.source, e.target} \subseteq g.nodes
         /\ Cardinality(g.nodes) + Cardinality(g.edges) <= question.limit
         /\ g.nodes \subseteq whole.nodes /\ g.edges \subseteq whole.edges
         /\ g.truncated \/ (g.nodes = whole.nodes /\ g.edges = whole.edges)

=============================================================================
