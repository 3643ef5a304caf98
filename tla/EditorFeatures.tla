---------------------------- MODULE EditorFeatures ----------------------------
(***************************************************************************)
(* What the language server says about a position of a text                *)
(* (src/delphi_lsp/lsp_server.py).  A text is                              *)
(*   [lines |-> sequence of [form, word, name, col, chars],                *)
(*    stem |-> the name of its file, body, uses |-> what only a full       *)
(*    parse finds: declarations [name, line, col, last, owner] and         *)
(*    references [line, col, name, of], of a symbol of Outline \o body].   *)
(* The form of a line is what the patterns see in it once outline_source   *)
(* has hidden the bodies; chars are the characters an editor shows, which  *)
(* it counts in UTF-16 code units.                                         *)
(***************************************************************************)
EXTENDS Naturals, Sequences, SequencesExt, FiniteSets

Letters == {"a", "b", "c", "f", "m"}
Width(c) == IF c = "wide" THEN 2 ELSE 1

-----------------------------------------------------------------------------
(* build_outline_semantic_model: symbols are [name, line, col, last, owner, *)
(* opens], where opens says that it has a scope of its own and owners are   *)
(* positions in the outline.  The first symbol is the unit, a member of its *)
(* own scope, which stands at the start of the file wherever its name is.   *)

UnitName(text) ==
    LET named == SelectSeq(text.lines, LAMBDA l : l.form = "unit")
    IN IF named = <<>> THEN text.stem ELSE Head(named).name
Unscanned(text) ==
    [symbols |-> << [name |-> UnitName(text), line |-> 1, col |-> 1, last |-> 1, owner |-> 1, opens |-> TRUE] >>,
     section |-> "", routine |-> 0, locals |-> FALSE, type |-> 0]

\* _define_outline_symbol
Define(s, l, n, owner, opens) ==
    [s EXCEPT !.symbols = Append(@, [name |-> l.name, line |-> n, col |-> l.col, last |-> n,
                                     owner |-> owner, opens |-> opens])]
Until(s, k, n) == [s EXCEPT !.symbols[k].last = n]

IsVariable(l) == l.form \in {"variable", "typed constant"}
IsConstant(l) == l.form \in {"type", "typed constant"}
IsMember(l) == l.form \in {"routine", "property"} \/ IsVariable(l)
Structured == {"class", "record", "interface"}

InType(s) == s.section = "type" /\ s.type # 0
InTypeScans(s, l) == InType(s) /\ (l.word = "end" \/ l.form = "visibility" \/ IsMember(l))
TypeLine(s, l, n) ==
    IF l.word = "end" THEN [Until(s, s.type, n) EXCEPT !.type = 0]
    ELSE IF IsMember(l) THEN Define(s, l, n, s.type, FALSE) ELSE s

RoutineLine(s, l, n) ==
    [Define(s, l, n, 1, TRUE) EXCEPT !.routine = Len(s.symbols) + 1, !.locals = FALSE, !.section = ""]

InRoutineWords == {"var", "begin", "end"}
SectionLine(s, l, n) ==
    IF s.routine # 0 /\ l.word \in InRoutineWords
    THEN IF l.word = "end" THEN [Until(s, s.routine, n) EXCEPT !.routine = 0, !.locals = FALSE]
         ELSE [s EXCEPT !.locals = l.word = "var"]
    ELSE IF l.word = "end" THEN s
    ELSE [s EXCEPT !.section = IF l.word \in {"type", "var", "const"} THEN l.word ELSE ""]

DeclarationLine(s, l, n) ==
    IF s.section = "type" /\ l.form = "type"
    THEN [Define(s, l, n, 1, l.word \in Structured) EXCEPT
             !.type = IF l.word \in Structured THEN Len(s.symbols) + 1 ELSE @]
    ELSE IF (s.section = "const" /\ IsConstant(l)) \/ (s.section = "var" /\ IsVariable(l)) THEN Define(s, l, n, 1, FALSE)
    ELSE s

ScanLine(s, l, n) ==
    IF InTypeScans(s, l) THEN TypeLine(s, l, n)
    ELSE IF l.form = "routine" /\ s.section # "type" THEN RoutineLine(s, l, n)
    ELSE IF l.form = "section" THEN SectionLine(s, l, n)
    ELSE IF s.routine # 0 /\ s.locals THEN IF IsVariable(l) THEN Define(s, l, n, s.routine, FALSE) ELSE s
    ELSE DeclarationLine(s, l, n)

Outline(text) ==
    FoldLeft(LAMBDA s, n : ScanLine(s, text.lines[n], n), Unscanned(text), [n \in DOMAIN text.lines |-> n]).symbols

-----------------------------------------------------------------------------
(* Positions                                                                *)

\* codepoint_to_utf16
\* Mutant: columns are sent as they are counted here.
Uncounted(line, column) == column
Units(line, column) ==
    FoldLeft(LAMBDA sum, c : sum + Width(c), 0, SubSeq(line, 1, IF column < Len(line) THEN column ELSE Len(line)))

\* utf16_to_codepoint: the last character that starts there or before
CodePoint(line, character) ==
    CHOOSE i \in 0 .. Len(line) : /\ Units(line, i) <= character
                                  /\ i = Len(line) \/ Units(line, i + 1) > character

Chars(text, line) == IF line \in DOMAIN text.lines THEN text.lines[line].chars ELSE <<>>
Column(text, line, character) == CodePoint(Chars(text, line), character) + 1

\* source_range_to_lsp, for the lines of a text
ToEditor(text, range) ==
    <<range[1], Units(Chars(text, range[1]), range[2] - 1), Units(Chars(text, range[1]), range[3] - 1)>>

\* identifier_at_position
IsLetter(chars, i) == i \in DOMAIN chars /\ chars[i] \in Letters
Touched(chars, i) == IF ~IsLetter(chars, i) /\ IsLetter(chars, i - 1) THEN i - 1 ELSE i
RunsAround(chars, i) == {r \in (1 .. i) \X (i .. Len(chars)) : \A k \in r[1] .. r[2] : IsLetter(chars, k)}
Widest(runs) == CHOOSE r \in runs : \A o \in runs : r[2] - r[1] >= o[2] - o[1]
WordAround(chars, i) ==
    IF ~IsLetter(chars, i) THEN <<>> ELSE LET r == Widest(RunsAround(chars, i)) IN SubSeq(chars, r[1], r[2])
WordNear(chars, column) ==
    IF chars = <<>> THEN <<>>
    ELSE WordAround(chars, Touched(chars, IF column < Len(chars) THEN column ELSE Len(chars)))
IdentifierAt(text, line, character) == WordNear(Chars(text, line), Column(text, line, character))

-----------------------------------------------------------------------------
(* The symbol at a position                                                 *)

Least(numbers) == IF numbers = {} THEN 0 ELSE CHOOSE n \in numbers : \A m \in numbers : n <= m
Else(n, other) == IF n # 0 THEN n ELSE other

\* find_symbol_at_position: the shortest name there
NameEnd(s) == s.col + Len(s.name)
NameCovers(s, line, col) == s.line = line /\ s.col <= col /\ col <= NameEnd(s)
Shortest(symbols, found) ==
    Least({n \in found : \A m \in found : Len(symbols[n].name) <= Len(symbols[m].name)})
SymbolAt(symbols, line, col) ==
    Shortest(symbols, {n \in DOMAIN symbols : NameCovers(symbols[n], line, col)})

\* scope_at_line: the innermost scope around the line, or the unit
Around(symbols, line) ==
    {n \in 2 .. Len(symbols) : symbols[n].opens /\ symbols[n].line <= line /\ line <= symbols[n].last}
Tightest(symbols, found) ==
    Least({n \in found : \A m \in found : symbols[n].last - symbols[n].line <= symbols[m].last - symbols[m].line})
ScopeAt(symbols, line) == Else(Tightest(symbols, Around(symbols, line)), 1)

\* Scope.resolve: the scope, then the unit
Declared(symbols, owner, name) ==
    Least({n \in DOMAIN symbols : symbols[n].name = name /\ symbols[n].owner = owner})
Resolve(symbols, scope, name) == Else(Declared(symbols, scope, name), Declared(symbols, 1, name))

\* find_identifier_symbol_at_position, but for the index of the workspace, which
\* LanguageServer asks; that of a text on its own holds its unit's scope only
IdentifierSymbol(symbols, line, name) ==
    IF name = <<>> THEN 0 ELSE Resolve(symbols, ScopeAt(symbols, line), name)

\* find_reference_at_position: the one there, else the nearest in the line
Distance(a, b) == IF a < b THEN b - a ELSE a - b
UseCovers(u, col) == u.col <= col /\ col <= u.col + Len(u.name)
UsesOf(text, line) == {i \in DOMAIN text.uses : text.uses[i].line = line}
Nearest(text, found, col) ==
    Least({i \in found : \A j \in found : Distance(text.uses[i].col, col) <= Distance(text.uses[j].col, col)})
UseAt(text, line, col) ==
    LET there == {i \in UsesOf(text, line) : UseCovers(text.uses[i], col)}
    IN Nearest(text, IF there # {} THEN there ELSE UsesOf(text, line), col)

\* _symbol_at_position_in_model: the outline of model under a position of text
OutlineSymbolAt(symbols, text, line, character) ==
    Else(SymbolAt(symbols, line, Column(text, line, character)),
         IdentifierSymbol(symbols, line, IdentifierAt(text, line, character)))

\* ... and the full parse of the text itself, whose names start where they are
StartsAt(symbols, line, col) == Least({n \in DOMAIN symbols : symbols[n].line = line /\ symbols[n].col = col})
UsedAt(text, use) == IF use = 0 THEN 0 ELSE text.uses[use].of
FullSymbolAt(symbols, text, line, character) ==
    Else(UsedAt(text, UseAt(text, line, Column(text, line, character))),
         Else(StartsAt(symbols, line, Column(text, line, character)),
              IdentifierSymbol(symbols, line, IdentifierAt(text, line, character))))

-----------------------------------------------------------------------------
(* References, renaming and completion                                      *)

\* text_references_for_symbol: whole words of the file, or of the owner's lines
Occurrences(chars, name) ==
    {i \in DOMAIN chars : /\ i + Len(name) - 1 <= Len(chars)
                          /\ SubSeq(chars, i, i + Len(name) - 1) = name
                          /\ ~IsLetter(chars, i - 1) /\ ~IsLetter(chars, i + Len(name))}
SearchLines(text, symbols, s) ==
    IF s.owner = 1 THEN DOMAIN text.lines
    ELSE (symbols[s.owner].line .. symbols[s.owner].last) \cap DOMAIN text.lines
References(text, symbols, s) ==
    UNION {{<<n, i, i + Len(s.name)>> : i \in Occurrences(Chars(text, n), s.name)} :
           n \in SearchLines(text, symbols, s)}

\* name_range of a symbol, which the full parse leaves empty
NameRange(s, inOutline) == <<s.line, s.col, IF inOutline THEN NameEnd(s) ELSE s.col>>

\* completion_items_for_scope: each name once, the parent scopes are not asked
Completions(symbols, scope) ==
    {symbols[n].name : n \in {k \in DOMAIN symbols : symbols[k].owner = scope}}
===============================================================================
