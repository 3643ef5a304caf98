--------------------------- MODULE MCSemanticModel ---------------------------
EXTENDS SemanticModel

Node(typ, name, tag, pos, kids) == [typ |-> typ, name |-> name, tag |-> tag, pos |-> pos, kids |-> kids]
Uses(units, pos) == Node("uses", <<>>, "", pos, [i \in DOMAIN units |-> Node("unit", units[i], "", pos + i, <<>>)])
OfType(name, pos) == Node("type", name, "", pos, <<>>)
Class(name, pos, bases, members) ==
    Node("typedecl", <<name>>, "", pos,
         << Node("type", <<>>, "class", pos + 1, [i \in DOMAIN bases |-> OfType(bases[i], pos + 1 + i)] \o members) >>)
Field(name, pos, type) == Node("field", <<name>>, "", pos, <<OfType(type, pos + 1)>>)
Variable(name, pos, type) == Node("variables", <<>>, "", pos, << Node("variable", <<name>>, "", pos + 1, <<OfType(type, pos + 2)>>) >>)
Name(name, pos) == Node("identifier", <<name>>, "", pos, <<>>)
Dot(a, b, pos) == Node("dot", <<>>, "", pos, << a, b >>)
Call(f, args, pos) == Node("call", <<>>, "", pos, <<f>> \o args)

\* Classes T and S of a unit, either a base of the other, of the unit's own or
\* of the other unit's classes, and a variable of one of them.
Library(unit, other, bases, type) ==
    Node("program", unit, "", 0,
         << Uses(<<other>>, 10),
            Node("typesection", <<>>, "", 20,
                 << Class("T", 21, bases, << Node("public", <<>>, "", 25, <<Field("m", 26, <<"S">>)>>) >>),
                    Class("S", 30, << <<"T">> >>,
                          << Node("method", <<"f">>, "function", 34,
                                  << Node("parameters", <<>>, "", 35,
                                          << Node("parameter", <<"p">>, "", 36, <<OfType(type, 37)>>) >>),
                                     Node("returntype", <<>>, "", 38, <<OfType(<<"T">>, 39)>>) >>),
                             Node("property", <<"q">>, "", 40,
                                  << OfType(<<"T">>, 41), Node("read", <<>>, "", 42, <<Name("m", 43)>>) >>) >>) >>),
            Variable("x", 50, type) >>)

\* A unit that uses both, in either order, and names what they declare.
Main(name, units) ==
    Node("program", name, "", 0,
         << Uses(units, 10),
            Node("typesection", <<>>, "", 20,
                 << Node("typedecl", <<"E">>, "", 21, << Node("type", <<"enum">>, "enum", 22, << Node("enum", <<"v">>, "", 23, <<>>) >>) >>),
                    Node("typedecl", <<"G">>, "", 24,
                         << Node("typeparams", <<>>, "", 25,
                                 << Node("typeparam", <<"K">>, "", 26,
                                         << Node("constraints", <<>>, "", 27, <<OfType(<<"T">>, 28)>>) >>) >>),
                            Node("type", <<>>, "array", 29, <<OfType(<<"K">>, 30)>>) >>) >>),
            Node("constants", <<>>, "", 40,
                 << Node("constant", <<"c">>, "", 41, << Node("value", <<>>, "", 42, <<Name("v", 43)>>) >>) >>),
            Node("variables", <<>>, "", 50,
                 << Node("variable", <<"y">>, "", 51,
                         << Node("type", <<"G">>, "", 52, << Node("typeargs", <<>>, "", 53, <<OfType(<<"A", "S">>, 54)>>) >>) >>),
                    Node("variable", <<"z">>, "", 55, <<OfType(<<"S">>, 56)>>) >>),
            Node("method", <<"f">>, "procedure", 60, << Node("parameters", <<>>, "", 61, <<>>) >>),
            Node("method", <<"f">>, "procedure", 70,
                 << Node("parameters", <<>>, "", 71, << Node("parameter", <<"x">>, "", 72, <<OfType(<<"T">>, 73)>>) >>),
                    Node("label", <<"l">>, "", 74, <<>>),
                    Variable("w", 75, <<"B", "T">>),
                    Node("statements", <<>>, "", 80,
                         << Node("variable", <<"i">>, "", 81, <<>>),
                            Call(Dot(Name("x", 82), Name("m", 83), 84), <<Name("y", 85), Name("c", 86)>>, 87),
                            Node("with", <<>>, "", 90,
                                 << Node("expressions", <<>>, "", 91, <<Name("z", 92), Name("nowhere", 93)>>),
                                    Node("statement", <<>>, "", 94,
                                         <<Call(Name("f", 95), <<>>, 96),
                                           Dot(Name("w", 97), Dot(Name("m", 98), Name("q", 99), 100), 101)>>) >>),
                            Dot(Name("A", 102), Name("x", 103), 104),
                            Dot(Dot(Name("B", 105), Name("x", 106), 107), Name("m", 108), 109),
                            Name("x", 110), Name("S", 111), Dot(Name("z", 113), Name("f", 114), 115),
                            Node("goto", <<"l">>, "", 112, <<>>) >>) >>) >>)

Unit(name) == <<name>>
BasesOfA == { <<>>, << <<"S">> >>, << <<"B", "T">> >>, << <<"B", "S">>, <<"S">> >>, << <<"B", "T">>, <<"S">> >> }
BasesOfB == { << <<"B", "S">> >>, << <<"A", "T">> >>, << <<"tobject">>, <<"R">> >> }
Libraries(name, other, bases, types) == {Library(Unit(name), o, b, t) : o \in other, b \in bases, t \in types}
AllProjects ==
    {<<a, b, m>> : a \in Libraries("A", {Unit("B")}, BasesOfA, { <<"T">>, <<"B", "S">> }),
                   b \in Libraries("B", {Unit("A"), Unit("Gone")}, BasesOfB, { <<"S">> }),
                   m \in { Main(Unit("M"), << <<"A">>, <<"B">> >>), Main(<<>>, << <<"B">>, <<"Gone">>, <<"Gone">>, <<"A">> >>) }}
==============================================================================
