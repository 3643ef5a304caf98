-------------------------- MODULE MCLanguageServer --------------------------
EXTENDS LanguageServer

CONSTANTS u, v, first, second, library

L(form, word, name, col, chars) == [form |-> form, word |-> word, name |-> name, col |-> col, chars |-> chars]
Other(chars) == L("other", "", <<>>, 0, chars)
Section(word) == L("section", word, <<>>, 0, <<>>)

\* A class with a field, a variable behind a wide character, and a routine with
\* a local of the name of the variable; the full parse finds a parameter.
UnitText(shift) ==
    [lines |-> shift \o <<
        L("unit", "", <<"a">>, 2, <<"-", "a">>),
        Section("type"),
        L("type", "class", <<"b">>, 1, <<"b", "-">>),
        L("variable", "", <<"m">>, 2, <<"-", "m", "-", "b">>),
        Section("end"),
        Section("var"),
        L("variable", "", <<"c">>, 1, <<"c", "-", "wide", "c">>),
        L("routine", "", <<"f">>, 3, <<"wide", "-", "f", "-", "a", "b">>),
        Section("var"),
        L("variable", "", <<"c">>, 1, <<"c", "-", "b">>),
        Section("begin"),
        Other(<<"wide", "m", "-", "c", "-", "c", "a", "-", "c">>),
        Section("end") >>,
     stem |-> <<"f">>,
     body |-> << [name |-> <<"a", "b">>, line |-> Len(shift) + 8, col |-> 5, last |-> Len(shift) + 8,
                  owner |-> 5, opens |-> FALSE] >>,
     uses |-> << [line |-> Len(shift) + 12, col |-> 6, name |-> <<"c", "a">>, of |-> 7] >>]

Library ==
    [lines |-> << Section("const"), L("type", "", <<"c">>, 3, <<"wide", "-", "c">>),
                  Other(<<"b", "-", "wide", "b">>) >>,
     stem |-> <<"a">>, body |-> <<>>, uses |-> <<>>]

MCContent == (first :> UnitText(<<>>)) @@ (second :> UnitText(<< Other(<<"wide", "c">>) >>)) @@ (library :> Library)
MCTextsOf == (u :> {first, second}) @@ (v :> {library})
MCFirstDisk == (u :> first) @@ (v :> library)
MCQueries == {<<>>, <<"c">>}
MCPositions ==
    ({"rename"} \X {<<12, 2>>, <<12, 6>>, <<12, 9>>, <<7, 4>>, <<3, 0>>})
    \cup {<<"definition", <<1, 1>>>>, <<"references", <<8, 6>>>>, <<"completion", <<12, 2>>>>}

\* Two notifications and two searches, or a search and a question; or one
\* notification, a write and a question around two searches.
Load(notes, writes, asked, told) == [notes |-> notes, writes |-> writes, asked |-> asked, told |-> told]
MCLoads == {Load(2, 0, 2, 0), Load(2, 0, 1, 1), Load(1, 1, 2, 1)}
=============================================================================
