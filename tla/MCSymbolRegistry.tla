--------------------------- MODULE MCSymbolRegistry ---------------------------
EXTENDS SymbolRegistry

\* Programs of up to Size of these lines, well formed or not.
CONSTANT Size
Fragments ==
    { <<"procedure", "A", ";">>, <<"procedure", "B", ";", "forward", ";">>,
      <<"begin">>, <<"end", ";">>, <<"{$}">>, <<"R", "=", "record">> }
Programs == UNION {[1 .. n -> Fragments] : n \in 1 .. Size}

\* Programs with conditional directives in and around a body.
CONSTANT Sections
Pieces ==
    { <<"procedure", "A", ";">>, <<"begin">>, <<"case", "A", "of">>, <<"end", ";">>,
      <<"{$IFDEF D}">>, <<"{$IFNDEF E}">>, <<"{$DEFINE E}">>, <<"{$ELSE}">>, <<"{$ENDIF}">> }
Rest == << <<"{$ENDIF}">>, <<"end", ";">>, <<"procedure", "A", ";">>, <<"end", ";">> >>
Conditional ==
    {start \o << <<"{$IFDEF D}">> >> \o p \o Rest :
        start \in {<<>>, << <<"begin">> >>}, p \in [1 .. Sections -> Pieces]}

ProgramProjects == {<< [path |-> "p", stem |-> "P", lines |-> p] >> : p \in Programs \cup Conditional}

\* Units with the same names in them, one of them without a header.
Class == << <<"type">>, <<"T", "=", "class">>,
            <<"procedure", "M", "(", "x", ":", "A", ")", ";">>,
            <<"procedure", "M", "(", "var", "x", ",", "y", ":", "A", ")", ";">>, <<"end", ";">> >>
Body == << <<"implementation">>,
           <<"procedure", "T", ".", "M", "(", "y", ":", "A", ")", ";">>,
           <<"const">>, <<"B", "=", "A", ";">>,
           <<"procedure", "L", ";">>, <<"begin">>, <<"end", ";">>,
           <<"begin">>, <<"case", "A", "of">>, <<"end", ";">>, <<"end", ";">>,
           <<"function", "F", ":", "A", ";", "cdecl", ";">>, <<"asm">>, <<"end", ";">> >>
Unit(name) == << <<"unit", name, ";">> >> \o Class \o Body

File(path, stem, lines) == [path |-> path, stem |-> stem, lines |-> lines]
UnitProjects ==
    { << File("p", "U", Unit("U")), File("q", "U", Unit("U")) >>,
      << File("p", "U", Unit("U")), File("q", "V", Unit("V")), File("r", "W", Class) >>,
      << File("p", "U", Class), File("q", "V", Class) >>,
      << File("p", "V", Class) >> }

AllProjects == ProgramProjects \cup UnitProjects
Asked == { <<"M">>, <<"T", ".", "M">>, <<"U", "T">>, <<"A">> }
Order == << "(", ")", ",", ".", ":", ";", "<", "=", ">", "A", "B", "F", "L", "M", "P", "R", "T", "U", "V", "W",
            "constant", "field", "p", "property", "q", "r", "routine", "type", "unit", "variable", "x", "y", "{$IFDEF D}", "{$IFNDEF E}", "{$DEFINE E}", "{$ELSE}", "{$ENDIF}", "asm", "case", "end", "of", "var",
            "cdecl", "forward", "begin", "end", "{$}", "record", "class" >>
=============================================================================
