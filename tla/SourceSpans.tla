------------------------------ MODULE SourceSpans ------------------------------
(***************************************************************************)
(* The spans agent_context.py cuts out of a source text: which tokens are  *)
(* the declaration of a symbol, which the body of a routine or a type, and *)
(* which symbols are locals of a routine.                                  *)
(*                                                                         *)
(* A text is the sequence of its tokens (comments and white space have     *)
(* none), and a position is the index of a token; every declaration begins *)
(* a line, so a line is the index of its first token.  An identifier is    *)
(* any token that is no keyword and no punctuation; "&end" is the escaped  *)
(* identifier end; Directive is a compiler directive.  A span is           *)
(* <<first, last>>; NoSpan and 0 stand for None.                           *)
(***************************************************************************)
EXTENDS Naturals, Sequences, SequencesExt, FiniteSets, FiniteSetsExt, Functions

Directive == "{$}"
\* Those that select what is compiled; for spans any of them is a Directive.
Conditionals == {"{$IFDEF D}", "{$IFNDEF E}", "{$DEFINE E}", "{$ELSE}", "{$ENDIF}"}
Directives == Conditionals \cup {Directive}
NoSpan == <<0, 0>>

RoutineWords == {"procedure", "function", "operator"}
BlockWords == {"begin", "case", "try", "asm"}
StructuredWords == {"class", "record", "object", "interface"}
NoBodyWords == {"forward", "external", "abstract"}
Conventions == {"cdecl", "stdcall"}
RoutineDirectives == NoBodyWords \cup Conventions \cup {"overload", "inline"}
SectionWords == {"const", "var", "type"}
PartWords == {"implementation", "initialization", "finalization"}
Brackets == {<<"(", ")">>, <<"[", "]">>, <<"<", ">">>}
Punctuation == UNION {{b[1], b[2]} : b \in Brackets} \cup {";", ":", "=", ".", ",", "^"}

Word(t) == t \notin Punctuation \cup Directives
Value(t) == IF t = "&end" THEN "end" ELSE IF t \in Conditionals THEN Directive ELSE t
At(ts, i) == IF i \in DOMAIN ts THEN Value(ts[i]) ELSE "eof"

\* The first index from i on that satisfies P, 0 when there is none.
First(ts, i, P(_)) ==
    LET found == {j \in i .. Len(ts) : P(j)} IN IF found = {} THEN 0 ELSE Min(found)

NoDepth == [b \in Brackets |-> 0]
\* How many brackets of each kind are open after a token, never below 0.
Deeper(depth, t) ==
    [b \in Brackets |-> IF t = b[1] THEN depth[b] + 1
                        ELSE IF t = b[2] /\ depth[b] > 0 THEN depth[b] - 1 ELSE depth[b]]

RECURSIVE TopLevelFrom(_, _, _, _)
TopLevelFrom(ts, j, depth, value) ==
    IF j > Len(ts) THEN 0
    ELSE IF depth = NoDepth /\ Value(ts[j]) = value THEN j
    ELSE TopLevelFrom(ts, j + 1, Deeper(depth, ts[j]), value)

\* _top_level_semicolon_index, _top_level_token_index
TopLevelIndex(ts, i, value) == TopLevelFrom(ts, i, NoDepth, value)

RECURSIVE SplitAtTopLevel(_, _)
\* _split_tokens_at_top_level
SplitAtTopLevel(ts, value) ==
    LET cut == TopLevelIndex(ts, 1, value)
    IN IF cut = 0 THEN <<ts>>
       ELSE <<SubSeq(ts, 1, cut - 1)>> \o SplitAtTopLevel(SubSeq(ts, cut + 1, Len(ts)), value)

\* _matching_token_index: no bracket but the one given counts
Matching(ts, i, b) ==
    First(ts, i, LAMBDA j : Cardinality({k \in i .. j : ts[k] = b[1]})
                            = Cardinality({k \in i .. j : ts[k] = b[2]}))

-----------------------------------------------------------------------------
(* Openers and blocks                                                       *)

\* _is_array_of_context
ArrayOf(ts, i) ==
    LET stops == {j \in 1 .. i - 2 : Value(ts[j]) \in {"array", "procedure", "function", "reference", "=", ";"}}
    IN stops # {} /\ Value(ts[Max(stops)]) = "array"

\* _inside_generic_angles: the nearest "<" without its ">" comes before a stop
InsideAngles(ts, i) ==
    LET closed(k) == Cardinality({j \in k .. i - 1 : ts[j] = ">"})
                     - Cardinality({j \in k .. i - 1 : ts[j] = "<"})
        opens == {k \in 1 .. i - 1 : ts[k] = "<" /\ Cardinality({j \in k .. i - 1 : ts[j] = "<"})
                                        > Cardinality({j \in k .. i - 1 : ts[j] = ">"})}
        open  == Max(opens)
    IN opens # {} /\ \A j \in open + 1 .. i - 1 :
                        Value(ts[j]) \in {";", "begin", "end"} => closed(j + 1) > 0

\* _is_structured_type_opener
OpensStructure(ts, i) ==
    LET before == At(ts, i - 1)
    IN /\ ts[i] \in StructuredWords
       /\ ~(ts[i] = "class" /\ At(ts, i + 1) = "of")
       /\ IF before = "of" THEN ts[i] \in {"record", "object"} /\ ArrayOf(ts, i)
          ELSE \/ before \in {"=", "packed"}
               \/ before = ":" /\ ~InsideAngles(ts, i)
               \/ before = "^" /\ ts[i] \in {"record", "object"}

RECURSIVE BlockEnd(_, _, _)
\* The last token of the block whose openers are in stack, 0 when it does not end.
BlockEnd(ts, j, stack) ==
    LET t == ts[j]  top == Last(stack)
        opens == \/ t \in BlockWords /\ ~(t = "case" /\ top \in StructuredWords)
                 \/ t \in StructuredWords /\ OpensStructure(ts, j)
    IN IF j > Len(ts) \/ At(ts, j) = Directive THEN 0
       ELSE IF t = "end"
            THEN IF Len(stack) > 1 THEN BlockEnd(ts, j + 1, Front(stack))
                 ELSE IF At(ts, j + 1) \in {";", "."} THEN j + 1 ELSE j
       ELSE BlockEnd(ts, j + 1, IF top # "asm" /\ opens THEN Append(stack, t) ELSE stack)

\* _match_end_terminated_block
EndsBlock(ts, i) == BlockEnd(ts, i + 1, <<ts[i]>>)

-----------------------------------------------------------------------------
(* Headings                                                                 *)

\* _routine_keyword_index: one of the next six tokens
RoutineKeyword(ts, i) ==
    LET k == First(ts, i, LAMBDA j : ts[j] \in RoutineWords \/ Value(ts[j]) = ";")
    IN IF k \in i .. i + 5 /\ ts[k] # ";" THEN k ELSE 0

HeadingEnd(ts, r) == TopLevelIndex(ts, r + 1, ";")

RECURSIVE WithDirectives(_, _)
WithDirectives(ts, end) ==
    LET next == IF At(ts, end + 1) \in RoutineDirectives THEN TopLevelIndex(ts, end + 2, ";") ELSE 0
    IN IF next = 0 THEN end ELSE WithDirectives(ts, next)

\* _routine_declaration_end_index: the directives after the heading belong to it
DeclarationEnd(ts, r) == IF HeadingEnd(ts, r) = 0 THEN 0 ELSE WithDirectives(ts, HeadingEnd(ts, r))

\* _is_nested_routine_declaration
DeclaresRoutine(ts, i) ==
    \/ ts[i] = "operator"
    \/ /\ At(ts, i - 1) \notin {":", "=", "of", "to", "reference", "."}
       /\ i < Len(ts) /\ Word(ts[i + 1]) /\ Value(ts[i + 1]) \notin {"of", "object"}

RECURSIVE NameFrom(_, _, _, _)
NameFrom(ts, e, heading, op) ==
    LET g == IF At(ts, e + 1) = "<" THEN Matching(ts, e + 1, <<"<", ">">>) ELSE 0
    IN IF At(ts, e + 1) = "." /\ e + 2 < heading /\ (Word(ts[e + 2]) \/ op)
       THEN NameFrom(ts, e + 2, heading, op)
       ELSE IF g # 0 /\ g + 1 < heading /\ At(ts, g + 1) = "." THEN NameFrom(ts, g, heading, op)
       ELSE e

\* _routine_name_token_span: the last token of the name, A.B.C or A<T>.C
NameEnd(ts, r) ==
    IF HeadingEnd(ts, r) <= r + 1 THEN 0
    ELSE NameFrom(ts, r + 1, HeadingEnd(ts, r), ts[r] = "operator")

\* _normalize_parameters, _normalize_type_tokens: names and defaults do not
\* count, modes and types do
Parameters(ts) ==
    LET modes == {"const", "var", "out"}
        Group(g) ==
            LET colon == TopLevelIndex(g, 1, ":")
                names == SubSeq(g, 1, colon - 1)
                type  == SubSeq(g, colon + 1, Len(g))
                value == TopLevelIndex(type, 1, "=")
            IN IF colon = 0 THEN <<"", 0, g>>
               ELSE <<IF names # <<>> /\ names[1] \in modes THEN names[1] ELSE "",
                      1 + Cardinality({i \in DOMAIN names : names[i] = ","}),
                      IF value = 0 THEN type ELSE SubSeq(type, 1, value - 1)>>
        groups == SelectSeq(SplitAtTopLevel(ts, ";"), LAMBDA g : g # <<>>)
    IN [i \in DOMAIN groups |-> Group(groups[i])]

\* _normalize_routine_signature: sig is what follows the name, without the
\* calling conventions
Normalized(sig, open, close, colon, calls) ==
    IF open = 0 THEN <<IF colon = 0 THEN sig ELSE SubSeq(sig, 1, colon - 1), <<>>,
                       IF colon = 0 THEN <<>> ELSE SubSeq(sig, colon, Len(sig)), calls>>
    ELSE IF close = 0 THEN <<sig, calls>>
    ELSE <<SubSeq(sig, 1, open - 1), Parameters(SubSeq(sig, open + 1, close - 1)),
           IF At(sig, close + 1) = ":" THEN SubSeq(sig, close + 1, Len(sig)) ELSE <<>>, calls>>
FirstOpen(sig) == First(sig, 1, LAMBDA j : sig[j] = "(")
MatchingParen(sig, open) == IF open = 0 THEN 0 ELSE Matching(sig, open, <<"(", ")">>)
NormalizedFrom(sig, calls) ==
    Normalized(sig, FirstOpen(sig), MatchingParen(sig, FirstOpen(sig)), TopLevelIndex(sig, 1, ":"), calls)

\* _symbol_signature
SignatureAt(ts, heading, name, end) ==
    IF heading = 0 \/ name = 0 THEN <<>>
    ELSE NormalizedFrom(SubSeq(ts, name + 1, heading - 1),
                        {Value(ts[j]) : j \in heading + 1 .. end} \cap Conventions)
RoutineSignature(ts, r) ==
    IF r = 0 THEN <<>> ELSE SignatureAt(ts, HeadingEnd(ts, r), NameEnd(ts, r), DeclarationEnd(ts, r))
Signature(ts, i) == RoutineSignature(ts, RoutineKeyword(ts, i))

-----------------------------------------------------------------------------
(* The token span of a routine, with the cache of a document: spans maps a  *)
(* routine keyword to the last token of its routine, 0 for none.            *)

NoSpans == [r \in {} |-> 0]
Known(spans, r) == r \in DOMAIN spans
Remember(spans, rs, end) == [r \in rs \cup DOMAIN spans |-> IF r \in rs THEN end ELSE spans[r]]

\* reject_active_frames
Reject(frames, spans) == Remember(spans, {frames[i].routine : i \in DOMAIN frames}, 0)

Advance(frames, i) == [frames EXCEPT ![Len(frames)].at = i]

\* Mutant: a routine without a body takes the routines around it along.
BodilessRejects(frames, spans) == [frames |-> <<>>, spans |-> Reject(frames, spans)]

\* forward, external or abstract: the innermost open routine has no body
Bodiless(frames, spans) ==
    [frames |-> Front(frames), spans |-> Remember(spans, {Last(frames).routine}, 0)]

RECURSIVE WalkFrames(_, _, _)
\* The loop of _find_routine_token_span over the frames of open routines.
WalkFrames(ts, frames, spans) ==
    IF frames = <<>> THEN spans
    ELSE
    LET top    == Last(frames)
        i      == top.at
        t      == IF i > Len(ts) THEN "eof" ELSE ts[i]
        Go(j)  == WalkFrames(ts, Advance(frames, j), spans)
        Stop   == Reject(frames, spans)
        Close(end) == WalkFrames(ts, Front(frames), Remember(spans, {top.routine}, end))
        without == Bodiless(frames, spans)
        nested == t \in RoutineWords /\ DeclaresRoutine(ts, i)
        inner  == HeadingEnd(ts, i)
        ends   == EndsBlock(ts, i)
    IN CASE t \in {"eof", "end", Directive} \cup PartWords -> Stop
         [] t \in NoBodyWords -> WalkFrames(ts, without.frames, without.spans)
         [] t \in StructuredWords /\ OpensStructure(ts, i) ->
              IF At(ts, i + 1) = ";" THEN Go(i + 2) ELSE IF ends = 0 THEN Stop ELSE Go(ends + 1)
         [] t \in {"begin", "asm"} -> IF ends = 0 THEN Stop ELSE Close(ends)
         [] nested /\ ~Known(spans, i) ->
              IF inner = 0 THEN WalkFrames(ts, frames, Remember(spans, {i}, 0))
              ELSE WalkFrames(ts, Append(frames, [routine |-> i, at |-> inner + 1]), spans)
         [] nested /\ Known(spans, i) /\ spans[i] # 0 -> Go(spans[i] + 1)
         [] nested /\ Known(spans, i) /\ spans[i] = 0 /\ DeclarationEnd(ts, i) # 0 ->
              Go(DeclarationEnd(ts, i) + 1)
         [] OTHER -> Go(i + 1)

\* The cache after _find_routine_token_span for the declaration at i.
SpansAfter(ts, i, spans) ==
    LET r == RoutineKeyword(ts, i)
    IN IF r = 0 \/ Known(spans, r) THEN spans
       ELSE IF HeadingEnd(ts, r) = 0 THEN Remember(spans, {r}, 0)
       ELSE WalkFrames(ts, <<[routine |-> r, at |-> HeadingEnd(ts, r) + 1]>>, spans)

\* _routine_span: from the declaration to the end of its body
RoutineSpan(ts, i, spans) ==
    LET r == RoutineKeyword(ts, i)  after == SpansAfter(ts, i, spans)
    IN IF r = 0 \/ ~Known(after, r) \/ after[r] = 0 THEN NoSpan ELSE <<i, after[r]>>

-----------------------------------------------------------------------------
(* Declarations and bodies                                                  *)

\* _structured_type_index
StructureIndex(ts, i) ==
    LET k == First(ts, i, LAMBDA j : Value(ts[j]) = ";" \/ OpensStructure(ts, j))
    IN IF k = 0 \/ ts[k] = ";" THEN 0 ELSE k

\* _next_token_value for "="
EqualsIndex(ts, i) ==
    LET k == First(ts, i, LAMBDA j : Value(ts[j]) \in {";", "="})
    IN IF k = 0 \/ ts[k] = ";" THEN 0 ELSE k

\* _is_forward_type
IsForwardType(ts, i) ==
    LET k == StructureIndex(ts, EqualsIndex(ts, i) + 1)
    IN EqualsIndex(ts, i) # 0 /\ k # 0 /\ At(ts, k + 1) = ";"

\* _type_declaration_layout: the span and whether the type is structured itself
TypeLayout(ts, i) ==
    LET equals == EqualsIndex(ts, i)
        k      == StructureIndex(ts, equals + 1)
        direct == \A j \in equals + 1 .. k - 1 : Value(ts[j]) = "packed"
        To(end) == IF end = 0 THEN NoSpan ELSE <<i, end>>
    IN IF equals = 0 THEN <<NoSpan, FALSE>>
       ELSE IF k = 0 THEN <<To(TopLevelIndex(ts, equals + 1, ";")), FALSE>>
       ELSE IF At(ts, k + 1) = ";" THEN <<<<i, k + 1>>, TRUE>>
       ELSE <<To(EndsBlock(ts, k)), direct>>

\* _declaration_span; lineEnd is the last token of the line of the declaration
DeclarationSpan(ts, i, kind, lineEnd) ==
    LET r    == RoutineKeyword(ts, i)
        end  == IF r = 0 THEN 0 ELSE DeclarationEnd(ts, r)
        semi == First(ts, i, LAMBDA j : Value(ts[j]) = ";")
        type == TypeLayout(ts, i)
    IN IF kind = "type" THEN IF type[2] \/ type[1] = NoSpan THEN <<i, lineEnd>> ELSE type[1]
       ELSE IF kind = "routine" /\ end # 0 THEN <<i, end>>
       ELSE IF semi # 0 THEN <<i, semi>> ELSE <<i, lineEnd>>

\* A routine in the interface part has no body; a program has no such part.
InInterface(ts, i) ==
    LET part == First(ts, 1, LAMBDA j : ts[j] = "implementation")
    IN First(ts, 1, LAMBDA j : ts[j] \in {"unit", "program"}) # 0
       /\ ts[First(ts, 1, LAMBDA j : ts[j] \in {"unit", "program"})] = "unit"
       /\ (part = 0 \/ i < part)

\* _entry_body_span without the full parser, which is asked when this is NoSpan
\* or crosses a directive
WithoutDirective(ts, span) == IF \E j \in span[1] .. span[2] : At(ts, j) = Directive THEN NoSpan ELSE span
BodySpan(ts, i, kind, isMember, spans) ==
    WithoutDirective(ts,
        IF kind = "type" THEN IF IsForwardType(ts, i) THEN NoSpan ELSE TypeLayout(ts, i)[1]
        ELSE IF kind # "routine" \/ isMember \/ InInterface(ts, i) THEN NoSpan
        ELSE RoutineSpan(ts, i, spans))

-----------------------------------------------------------------------------
(* Sections of declarations, with the checkpoints of a document             *)

SectionStart == [section |-> "", depth |-> NoDepth]

\* _advance_declaration_section
AdvanceSection(state, t) ==
    IF \E b \in Brackets : t \in {b[1], b[2]} THEN [state EXCEPT !.depth = Deeper(@, t)]
    ELSE IF state.depth # NoDepth THEN state
    ELSE IF t \in SectionWords THEN [state EXCEPT !.section = t]
    ELSE IF t \in PartWords THEN [state EXCEPT !.section = ""]
    ELSE state

NoCheckpoints == [i \in {1} |-> SectionStart]

RECURSIVE SectionFrom(_, _, _, _)
SectionFrom(ts, j, i, state) ==
    IF j = i THEN state ELSE SectionFrom(ts, j + 1, i, AdvanceSection(state, ts[j]))

\* _declaration_section: from the nearest checkpoint before i
SectionState(ts, i, checkpoints) ==
    LET from == Max({j \in DOMAIN checkpoints : j <= i}) IN SectionFrom(ts, from, i, checkpoints[from])

CheckpointsAfter(ts, i, checkpoints) ==
    [j \in DOMAIN checkpoints \cup {i} |->
        IF j \in DOMAIN checkpoints THEN checkpoints[j] ELSE SectionState(ts, i, checkpoints)]

\* _correct_outline_symbol_kind: an outline takes a type for a constant
CorrectedKind(ts, i, kind, checkpoints) ==
    IF kind = "constant" /\ SectionState(ts, i, checkpoints).section = "type" /\ EqualsIndex(ts, i) # 0
       /\ EqualsIndex(ts, i) < Len(ts)
    THEN "type" ELSE kind

-----------------------------------------------------------------------------
(* Locals                                                                   *)

HasBody(ts, raw) == raw.kind = "routine" /\ raw.parent = <<>> /\ ~InInterface(ts, raw.at)

\* _raw_routine_span of every routine, each asked with the cache the ones
\* before it left
SpansOfAll(ts, raws) ==
    FoldLeft(LAMBDA spans, raw : IF HasBody(ts, raw) THEN SpansAfter(ts, raw.at, spans) ELSE spans,
             NoSpans, raws)

\* _exclude_routine_locals: what begins inside the span of another routine
\* goes (the sweep opens a span before an offset and closes it at its end)
ExcludeLocals(ts, raws) ==
    LET spans      == SpansOfAll(ts, raws)
        containers == {RoutineSpan(ts, raw.at, spans) : raw \in {r \in Range(raws) : HasBody(ts, r)}}
    IN SelectSeq(raws, LAMBDA raw : \A c \in containers : ~(c[1] < raw.at /\ raw.at <= c[2]))
=============================================================================
