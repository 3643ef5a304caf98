---------------------------- MODULE StatementTrees ----------------------------
(***************************************************************************)
(* The syntax trees of routine bodies, as the native parser builds them    *)
(* (src/delphi_lsp/delphiast_parser.py) and as the legacy one does         *)
(* (src/delphi_lsp/lark_builder.py): the same source has two shapes.  A    *)
(* statement of the source has a kind, a line, a name, an expression (a    *)
(* sequence of operands between operators), a body and another body.       *)
(***************************************************************************)
EXTENDS Integers, Sequences, SequencesExt

Node(typ, name, line, kids) == [typ |-> typ, name |-> name, line |-> line, kids |-> kids]
Leaf(typ, name, line) == Node(typ, name, line, <<>>)
Group(typ, s, kids) == Node(typ, "", s.line, kids)

(***************************************************************************)
(* Expressions                                                             *)
(***************************************************************************)
\* a name, or a name of something: o.of says of what, or nothing
Designator(o, line) ==
    IF o.of = "" THEN Leaf("identifier", o.name, line)
    ELSE Node("dot", "", line, <<Leaf("identifier", o.of, line), Leaf("identifier", o.name, line)>>)
RECURSIVE Expression(_, _, _)
CallNode(parser, o, line) ==
    LET argument(e) == Node("argument", "", line, <<Expression(parser, e, line)>>)
    IN Node("call", "", line,
            <<Designator(o, line),
              Node("arguments", "", line, [i \in DOMAIN o.args |-> argument(o.args[i])])>>)
\* a routine called without parentheses is a name like another
Operand(parser, o, line) ==
    CASE o.kind = "number" -> Leaf("literal", "", line)
      [] o.kind = "name" -> Designator(o, line)
      [] o.kind = "call" -> CallNode(parser, o, line)
Operands(parser, e, line) == [i \in DOMAIN e |-> Operand(parser, e[i], line)]
\* _expression_node: operators are dropped, the operands stand side by side
Flat(e, line) == Node("expression", "", line, Operands("native", e, line))
\* _binary_chain: a node per operator
Chain(operands, line) ==
    FoldLeft(LAMBDA left, right : Node("expression", "", line, <<left, right>>), Head(operands), Tail(operands))
\* _expression_direct: an operand alone stands for the expression
Expression(parser, e, line) ==
    IF Len(e) = 1 THEN Operand(parser, e[1], line)
    ELSE IF parser = "native" THEN Flat(e, line) ELSE Chain(Operands(parser, e, line), line)
Condition(parser, s) == Expression(parser, s.expr, s.line)

(***************************************************************************)
(* Statements                                                              *)
(***************************************************************************)
RECURSIVE Statement(_, _)
Each(parser, list) == [i \in DOMAIN list |-> Statement(parser, list[i])]
\* the grammar's ?statement_list: a statement alone stands for the list
StatementList(s, kids) == IF Len(kids) <= 1 THEN kids ELSE <<Group("statements", s, kids)>>
Listed(parser, s, list) ==
    IF parser = "native" THEN Each(parser, list) ELSE StatementList(s, Each(parser, list))
Block(parser, s) == Group("statements", s, Listed(parser, s, s.body))

Number == [kind |-> "number", of |-> "", name |-> "", args |-> <<>>]
Name(n) == [kind |-> "name", of |-> "", name |-> n, args |-> <<>>]
AssignNode(s, target, value) == Group("assign", s, <<Group("LHS", s, <<target>>), Group("RHS", s, <<value>>)>>)
\* what stands before := on the line of the arm is part of the left side
Labelled(s, labels) == AssignNode(s, Flat(labels \o <<Name(s.name)>>, s.line), Flat(s.expr, s.line))
Assign(parser, s) ==
    IF parser = "native" THEN Labelled(s, <<>>)
    ELSE AssignNode(s, Leaf("identifier", s.name, s.line), Condition(parser, s))
ElseOf(parser, s) ==
    IF s.other = <<>> THEN <<>>
    ELSE IF parser = "native" THEN <<Group("else", s, Each(parser, s.other))>> ELSE Each(parser, s.other)
Header(parser, s) ==
    IF parser = "native" THEN <<Flat(<<Name(s.name), s.expr[1], Name("to"), s.expr[2]>>, s.line)>>
    ELSE <<AssignNode(s, Leaf("identifier", s.name, s.line), Operand(parser, s.expr[1], s.line)),
           Operand(parser, s.expr[2], s.line)>>
Arm(parser, s) ==
    IF parser = "legacy"
    THEN Group("case selector", s, <<Group("case labels", s, <<>>), Statement(parser, s)>>)
    ELSE IF s.kind = "assign" THEN Labelled(s, <<Number>>) ELSE Flat(<<Number>> \o s.expr, s.line)
Case(parser, s) ==
    LET arms == [i \in DOMAIN s.body |-> Arm(parser, s.body[i])]
    IN IF parser = "native"
       THEN <<Group("case selector", s, <<Condition(parser, s)>>)>> \o arms \o Each(parser, s.other)
       ELSE <<Condition(parser, s)>> \o arms
                \o (IF s.other = <<>> THEN <<>> ELSE <<Group("case else", s, Listed(parser, s, s.other))>>)
With(parser, s) ==
    IF parser = "native" THEN <<Condition(parser, s)>> \o Each(parser, s.body)
    ELSE Each(parser, s.body) \o <<Group("expressions", s, <<Condition(parser, s)>>)>>
Handled(parser, s) ==
    CASE s.name = "finally" -> Group("finally", s, Listed(parser, s, s.other))
      [] s.name = "except" -> Group("except", s, Listed(parser, s, s.other))
      [] s.name = "on" -> Group("except", s, <<Group("exception handler", s, Listed(parser, s, s.other))>>)
Raise(parser, s) ==
    IF parser = "native" THEN Flat(<<Name("raise")>> \o s.expr, s.line)
    ELSE Group("raise", s, <<Condition(parser, s)>>)

\* _parse_statement, and the methods of the legacy builder
Statement(parser, s) ==
    CASE s.kind = "assign" -> Assign(parser, s)
      [] s.kind = "call" -> Condition(parser, s)
      [] s.kind = "block" -> Block(parser, s)
      [] s.kind = "if" -> Group("if", s, <<Condition(parser, s)>> \o Each(parser, s.body) \o ElseOf(parser, s))
      [] s.kind = "while" -> Group("while", s, <<Condition(parser, s)>> \o Each(parser, s.body))
      [] s.kind = "for" -> Group("for", s, Header(parser, s) \o Each(parser, s.body))
      [] s.kind = "repeat" -> Group("repeat", s, Listed(parser, s, s.body) \o <<Condition(parser, s)>>)
      [] s.kind = "case" -> Group("case", s, Case(parser, s))
      [] s.kind = "with" -> Group("with", s, With(parser, s))
      [] s.kind = "try" -> Group("try", s, Listed(parser, s, s.body) \o <<Handled(parser, s)>>)
      [] s.kind = "raise" -> Raise(parser, s)

\* _parse_routine: what is declared inside stands before the body
RECURSIVE Routine(_, _)
Routine(parser, r) ==
    Node("method", r.name, r.line,
         [i \in DOMAIN r.nested |-> Routine(parser, r.nested[i])]
             \o (IF r.declares THEN <<>> ELSE <<Block(parser, r)>>))
UnitTree(parser, declared, routines) ==
    LET section(list) == [i \in DOMAIN list |-> Routine(parser, list[i])]
    IN Node("unit", "", 0, <<Node("interface", "", 0, section(declared)),
                             Node("implementation", "", 0, section(routines))>>)
================================================================================
