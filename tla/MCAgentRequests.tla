--------------------------- MODULE MCAgentRequests ---------------------------
(***************************************************************************)
(* Two units: the first has three contents, a class with two overloads,    *)
(* the same after an edit, and a text that does not parse; the second uses *)
(* the first, and a unit that is missing.                                  *)
(***************************************************************************)
EXTENDS AgentRequests

Entry(name, kind, parent, card, from, to, bodyFrom, bodyTo) ==
    [name |-> name, kind |-> kind, parent |-> parent, card |-> card, from |-> from, to |-> to,
     bodyFrom |-> bodyFrom, bodyTo |-> bodyTo]
Clause(clause, unit, line) == [clause |-> clause, unit |-> unit, line |-> line]
Ref(kind, name, owner, line) == [kind |-> kind, name |-> name, owner |-> owner, line |-> line]
Fact(text, entries, clauses, refs, bases, broken) ==
    [text |-> text, entries |-> entries, clauses |-> clauses, refs |-> refs, bases |-> bases,
     broken |-> broken]

Lines(n) == [k \in 1 .. n |-> IF k % 3 = 0 THEN 2 ELSE 1]
Wide(n) == [k \in 1 .. n |-> 1 + ((k \div 2) % 2)]

MCFacts == [c \in {"first", "edited", "broken", "second"} |->
    CASE c = "first" -> Fact(Lines(11),
            <<Entry("One", "unit", 0, Wide(12), 0, 2, 0, 0),
              Entry("Base", "class", 1, Wide(15), 1, 4, 0, 0),
              Entry("Run", "procedure", 2, Wide(9), 4, 7, 6, 11),
              Entry("Run", "procedure", 1, Wide(19), 6, 8, 0, 0)>>,
            <<>>, <<Ref("call", "Run", 3, 2), Ref("name", "Base", 0, 1)>>, <<>>, FALSE)
      [] c = "edited" -> Fact(Lines(13),
            <<Entry("One", "unit", 0, Wide(12), 0, 2, 0, 0),
              Entry("Base", "class", 1, Wide(15), 2, 5, 0, 0),
              Entry("Run", "procedure", 2, Wide(9), 5, 9, 7, 13)>>,
            <<Clause("uses", 2, 1)>>, <<Ref("call", "Go", 3, 1)>>, <<>>, FALSE)
      [] c = "broken" -> Fact(Lines(5),
            <<Entry("One", "unit", 0, Wide(12), 0, 2, 0, 0)>>, <<>>, <<>>, <<>>, TRUE)
      [] c = "second" -> Fact(Lines(8),
            <<Entry("Two", "unit", 0, Wide(10), 0, 1, 0, 0),
              Entry("Child", "class", 1, Wide(11), 1, 5, 2, 5),
              Entry("Go", "procedure", 1, Wide(14), 5, 8, 0, 0),
              Entry("Limit", "const", 1, Wide(6), 5, 6, 0, 0)>>,
            <<Clause("uses", 1, 1), Clause("uses", 9, 2)>>,
            <<Ref("call", "Run", 3, 1), Ref("call", "Go", 3, 2), Ref("name", "Lost", 3, 2)>>,
            <<[type |-> 2, base |-> "Base"]>>, FALSE)]

MCItemText == [type \in {"relation", "relation_metadata", "relation_problem", "cpg_node", "cpg_metadata",
                         "unit_metrics", "project_metrics", "problem", "project", "unit", "focus"} |->
                  IF type \in {"relation", "project_metrics", "cpg_metadata"} THEN Wide(17) ELSE Wide(8)]
MCMatchOf(name, query) == IF name = query THEN 0 ELSE IF query = "n" /\ name \in {"One", "Run"} THEN 2 ELSE 3

One == <<1, "One", "unit">>
Two == <<2, "Two", "unit">>
Run == <<1, "Run", "procedure">>
Go == <<2, "Go", "procedure">>
Base == <<1, "Base", "class">>
Child == <<2, "Child", "class">>
Q(action, query, target, detail, relation, depth, items, chars) ==
    Request(action, query, target, detail, relation, "full", depth, items, chars)
Search(query, items, chars) == Q("find", query, NoTarget, "summary", "", 1, items, chars)
Show(target, detail, items, chars) == Q("inspect", "", target, detail, "", 1, items, chars)
Relate(target, relation, items) == Q("trace", "", target, "summary", relation, 1, items, 18)
Graph(target, depth, items) == Q("cpg", "", target, "summary", "", depth, items, 20)
Measure(query, target, detail, items) == Q("metrics", query, target, detail, "", 1, items, 20)
Point(target) == Q("focus", "", target, "summary", "", 1, 1, 20)
Plain(action, items) == Q(action, "", NoTarget, "summary", "", 1, items, 20)

MCMenus ==
    {{Search("", 2, 16), Search("n", 2, 16)}, {Search("", 3, 8)},
     {Search("", 3, 20), Show(Base, "members", 2, 14)},
     {Show(Run, "body", 2, 24), Show(Go, "declaration", 2, 24), Point(Base)},
     {Show(NoTarget, "body", 2, 20), Point(Run), Show(Run, "summary", 3, 16)},
     {Show(Run, "context", 2, 26), Show(Run, "implementations", 1, 26), Show(Run, "declaration", 2, 18)},
     {Relate(Go, "callees", 2), Relate(Base, "references", 2)}, {Relate(Run, "callers", 2)},
     {Relate(Two, "uses", 2), Relate(Run, "callers", 3)}, {Relate(One, "used_by", 1), Relate(Two, "uses", 3)},
     {Relate(Child, "inherits", 1), Relate(Child, "implements", 1), Relate(Go, "uses", 1)},
     {Graph(Run, 1, 2), Graph(Run, 2, 2), Graph(Go, 2, 2)},
     {Measure("", NoTarget, "members", 2), Measure("", One, "summary", 1), Measure("n", NoTarget, "body", 2)},
     {Plain("open", 2), Plain("problems", 1), Point(NoTarget)},
     {Plain("trace", 1), Show(<<2, "Gone", "class">>, "summary", 1, 20)},
     {Measure("", Run, "summary", 1), Graph(<<2, "Limit", "const">>, 1, 1)},
     {Show(Go, "body", 1, 30)}}
MCUnits == 1 .. 2
MCContents == <<{"first", "edited", "broken"}, {"second"}>>
================================================================================
