----------------------------- MODULE OutlineModel -----------------------------
(***************************************************************************)
(* The outline of a source (build_outline_semantic_model in                *)
(* src/delphi_lsp/lsp_server.py), read line by line, and the navigation    *)
(* symbols agent_context.py makes of it.  A source is a sequence of lines, *)
(* a line a sequence of tokens.                                            *)
(***************************************************************************)
EXTENDS SourceSpans

CONSTANT Defines    \* the names the project defines

Tokens(lines) == FlattenSeq(lines)
\* The position of the first token of a line.
LineStart(lines, n) == 1 + FoldLeft(LAMBDA sum, line : sum + Len(line), 0, SubSeq(lines, 1, n - 1))
LineEnd(lines, n) == LineStart(lines, n) + Len(lines[n]) - 1

\* The elements of a text, as OutlineSource reads them.
Source == INSTANCE OutlineSource
ElementOf(t) ==
    CASE t = "{$IFDEF D}"  -> Source!Element("directive", "IFDEF", <<<<"and", FALSE, "D">>>>)
      [] t = "{$IFNDEF E}" -> Source!Element("directive", "IFNDEF", <<<<"and", FALSE, "E">>>>)
      [] t = "{$DEFINE E}" -> Source!Element("directive", "DEFINE", <<<<"and", FALSE, "E">>>>)
      [] t = "{$ELSE}"     -> Source!Element("directive", "ELSE", <<>>)
      [] t = "{$ENDIF}"    -> Source!Element("directive", "ENDIF", <<>>)
      [] t = Directive     -> Source!Element("directive", "", <<>>)
      [] OTHER             -> Source!Element("word", t, <<>>)
Elements(lines) ==
    FlattenSeq([n \in DOMAIN lines |-> Append([i \in DOMAIN lines[n] |-> ElementOf(lines[n][i])],
                                             Source!Newline)])

\* What an outline keeps of a line; directives are comments to it.
OutlineLine(lines, kept, n) ==
    LET start == LineStart(lines, n) + n - 2
    IN SelectSeq([i \in DOMAIN lines[n] |-> kept[start + i]], LAMBDA e : e.is = "word")
OutlineLines(lines) ==
    LET kept == Source!OutlineFor(Elements(lines), Defines)
    IN [n \in DOMAIN lines |->
           LET line == OutlineLine(lines, kept, n) IN [i \in DOMAIN line |-> line[i].text]]

UnitWords == {"unit", "program", "library", "package"}
OutlineSections == {"type", "var", "const", "begin", "end"} \cup PartWords
VisibilityWords == {"private", "public"}
Identifier(line, i) == i \in DOMAIN line /\ Word(line[i])

RECURSIVE QualifiedEnd(_, _)
QualifiedEnd(line, i) ==
    IF At(line, i + 1) = "." /\ Identifier(line, i + 2) THEN QualifiedEnd(line, i + 2) ELSE i

\* _ROUTINE_RE: the tokens of a qualified name after the word, <<>> for no match
RoutineName(line) ==
    LET from == IF line[1] = "class" THEN 2 ELSE 1
    IN IF At(line, from) \in RoutineWords /\ Identifier(line, from + 1)
       THEN SubSeq(line, from + 1, QualifiedEnd(line, from + 1)) ELSE <<>>

\* The regular expressions for the other lines.
IsSection(line) == line[1] \in OutlineSections
IsVariable(line) == Identifier(line, 1) /\ At(line, 2) = ":"
IsConstant(line) == Identifier(line, 1) /\ At(line, 2) = "="
IsType(line) == IsConstant(line)

\* _type_symbol_kind: what an outline calls structured gets a scope for members
DeclaredKind(line) ==
    LET rhs == IF At(line, 3) = "packed" THEN 4 ELSE 3
    IN IF At(line, rhs) \in {"class", "record", "interface"} /\ At(line, rhs + 1) # "of"
       THEN "structure" ELSE "type"
IsForward(line) == At(line, Len(line)) = ";" /\ At(line, Len(line) - 1) \in {"class", "record", "interface"}

\* _outline_unit_name: the name in the header, else the stem of the file
OutlineUnitName(lines, stem) ==
    LET headers == {n \in DOMAIN lines : At(lines[n], 1) \in UnitWords /\ Identifier(lines[n], 2)}
    IN IF headers = {} THEN stem ELSE lines[Min(headers)][2]

-----------------------------------------------------------------------------
(* The scan: section is the section of declarations, routine that a routine *)
(* is open, locals that its var section is, type the open type (its index   *)
(* in symbols, 0 for none).                                                 *)

Symbol(name, kind, n, visibility) ==
    [name |-> name, kind |-> kind, line |-> n, visibility |-> visibility, members |-> <<>>]

ScanStart == [section |-> "", routine |-> FALSE, locals |-> FALSE, type |-> 0,
              visibility |-> "public", symbols |-> <<>>]

Define(s, symbol) == [s EXCEPT !.symbols = Append(@, symbol)]
DefineMember(s, name, kind, n) ==
    [s EXCEPT !.symbols[s.type].members = Append(@, Symbol(name, kind, n, s.visibility))]

InType(s) == s.section = "type" /\ s.type # 0
TypeTakes(line) == \/ line[1] \in {"end", "property"} \cup VisibilityWords
                   \/ RoutineName(line) # <<>> \/ IsVariable(line)

\* A line inside a type that the type takes.
ScanMember(s, line, n) ==
    IF line[1] = "end" THEN [s EXCEPT !.type = 0, !.visibility = "public"]
    ELSE IF line[1] \in VisibilityWords THEN [s EXCEPT !.visibility = line[1]]
    ELSE IF RoutineName(line) # <<>> THEN DefineMember(s, <<Last(RoutineName(line))>>, "routine", n)
    ELSE IF line[1] = "property" THEN DefineMember(s, <<line[2]>>, "property", n)
    ELSE DefineMember(s, <<line[1]>>, "field", n)

\* A line with a section word.
ScanSection(s, word) ==
    IF s.routine /\ word \in {"var", "begin"} THEN [s EXCEPT !.locals = (word = "var")]
    ELSE IF s.routine /\ word = "end" THEN [s EXCEPT !.routine = FALSE, !.locals = FALSE]
    ELSE IF word \in {"type", "var", "const"} THEN [s EXCEPT !.section = word]
    ELSE IF word = "end" THEN s
    ELSE [s EXCEPT !.section = ""]

\* A declaration in the section that is open.
ScanDeclaration(s, line, n) ==
    IF s.section = "type" /\ IsType(line)
    THEN [Define(s, Symbol(<<line[1]>>, DeclaredKind(line), n, "unknown"))
            EXCEPT !.type = IF DeclaredKind(line) = "structure" /\ ~IsForward(line)
                            THEN Len(s.symbols) + 1 ELSE @,
                   !.visibility = IF DeclaredKind(line) = "structure" /\ ~IsForward(line)
                                  THEN "public" ELSE @]
    ELSE IF s.section = "const" /\ IsConstant(line) THEN Define(s, Symbol(<<line[1]>>, "constant", n, "unknown"))
    ELSE IF s.section = "var" /\ IsVariable(line) THEN Define(s, Symbol(<<line[1]>>, "variable", n, "unknown"))
    ELSE s

ScanLine(s, line, n) ==
    IF line = <<>> THEN s
    ELSE IF InType(s) /\ TypeTakes(line) THEN ScanMember(s, line, n)
    ELSE IF s.section # "type" /\ RoutineName(line) # <<>>
         THEN [Define(s, Symbol(RoutineName(line), "routine", n, "unknown"))
                  EXCEPT !.routine = TRUE, !.locals = FALSE, !.section = ""]
    ELSE IF IsSection(line) THEN ScanSection(s, line[1])
    ELSE IF s.routine /\ s.locals THEN s
    ELSE ScanDeclaration(s, line, n)

\* build_outline_semantic_model: the symbols of the unit with their members
Outline(lines) ==
    FoldLeft(LAMBDA s, n : ScanLine(s, lines[n], n), ScanStart, [n \in DOMAIN lines |-> n]).symbols

-----------------------------------------------------------------------------
(* _collect_raw_symbols                                                     *)

\* _type_declared_name: the tokens between the name and the "="
DeclaredName(lines, symbol) ==
    LET line == lines[symbol.line]  equals == EqualsIndex(line, 1)
    IN IF symbol.kind \in {"type", "structure"} /\ equals # 0 THEN SubSeq(line, 1, equals - 1)
       ELSE symbol.name

SignatureOf(lines, symbol) ==
    IF symbol.kind # "routine" THEN <<>>
    ELSE Signature(Tokens(lines), LineStart(lines, symbol.line))

\* The checkpoints of the document after the constants before symbol i.
CheckpointsBefore(lines, symbols, i) ==
    FoldLeft(LAMBDA points, s : IF s.kind # "constant" THEN points
                                ELSE CheckpointsAfter(Tokens(lines), LineStart(lines, s.line), points),
             NoCheckpoints, SubSeq(symbols, 1, i - 1))

KindOf(lines, symbols, i) ==
    IF symbols[i].kind = "structure" THEN "type"
    ELSE CorrectedKind(Tokens(lines), LineStart(lines, symbols[i].line), symbols[i].kind,
                       CheckpointsBefore(lines, symbols, i))

Raw(lines, symbol, kind, unit, owner, parent) ==
    [name |-> symbol.name, kind |-> kind,
     at |-> LineStart(lines, symbol.line), lineEnd |-> LineEnd(lines, symbol.line),
     unit |-> unit, qname |-> owner \o DeclaredName(lines, symbol), parent |-> parent,
     visibility |-> symbol.visibility, sig |-> SignatureOf(lines, symbol)]

\* Every symbol of the unit, and after a type its members.
AndMembers(lines, unit, raw, members) ==
    <<raw>> \o [j \in DOMAIN members |->
                   Raw(lines, members[j], members[j].kind, unit, raw.qname, raw.qname)]
WithMembers(lines, symbols, i, unit) ==
    AndMembers(lines, unit, Raw(lines, symbols[i], KindOf(lines, symbols, i), unit, <<unit>>, <<>>),
               symbols[i].members)

UnitSymbol(lines, unit) ==
    [name |-> <<unit>>, kind |-> "unit", at |-> 1, lineEnd |-> LineEnd(lines, 1), unit |-> unit,
     qname |-> <<unit>>, parent |-> <<>>, visibility |-> "unknown", sig |-> <<>>]

SymbolsOf(lines, symbols, unit) ==
    <<UnitSymbol(lines, unit)>>
    \o FlattenSeq([i \in DOMAIN symbols |-> WithMembers(lines, symbols, i, unit)])
CollectFrom(lines, outline, stem) == SymbolsOf(lines, Outline(outline), OutlineUnitName(outline, stem))
CollectRaw(lines, stem) == CollectFrom(lines, OutlineLines(lines), stem)

\* _parse_navigation_task: the symbols of a file without the locals
ParseNavigation(lines, stem) == ExcludeLocals(Tokens(lines), CollectRaw(lines, stem))
=============================================================================
