---------------------------- MODULE OutlineSource ----------------------------
(***************************************************************************)
(* What an outline keeps of a source (outline_source in                    *)
(* src/delphi_lsp/lsp_server.py): everything but what stands between the   *)
(* BEGIN or ASM of a body and its END.  One pass over the elements of the  *)
(* Preprocessor finds the bodies, also where conditional directives leave  *)
(* several branches in the text; when it loses track it hides nothing.     *)
(*                                                                         *)
(* "literal" is any string; "<=" and ">=" read as "=", "<>" as ">", which  *)
(* is what they do here; a name after & is a word like any other.          *)
(***************************************************************************)
EXTENDS Preprocessor

Bodies == {"begin", "asm"}
EndTerminatedStatements == Bodies \cup {"case", "try"}
EndTerminatedTypes == {"class", "record", "object", "interface"}
MemberPrefixFollowers == {"const", "function", "of", "operator", "procedure", "property", "type", "var"}
TypePredecessors == {":", "=", "of", "packed", "to", "type", "^"}
MemberBoundaries == {";", ")", "]", "private", "public"} \cup EndTerminatedTypes
RoutineHeadings == {"function", "operator", "procedure"}
Signs == {"<", ">", "(", ")", "[", "]", ";", ":", "=", ".", ",", "^"}

\* stack: the constructs that await END; body: where one was begun, or 0; makers:
\* the PROCEDURE, FUNCTION or ARRAY a type was begun with, by bracket depth
Unscanned ==
    [stack |-> <<>>, frames |-> <<>>, body |-> 0, hidden |-> {}, prev |-> "", named |-> FALSE,
     paren |-> 0, bracket |-> 0, angle |-> 0, owner |-> FALSE, heading |-> FALSE,
     makers |-> [depth \in {} |-> ""], lost |-> FALSE]

Lost(s) == [s EXCEPT !.lost = TRUE]

-----------------------------------------------------------------------------
(* Conditional directives inside a body                                     *)

Frame(stack) == [base |-> stack, branches |-> <<>>, alternative |-> FALSE]

\* _outline_block_shape
Shape(word) == IF word \in EndTerminatedStatements THEN "statement" ELSE word
Joined(words) == IF Cardinality(words) = 1 THEN CHOOSE w \in words : TRUE ELSE "begin"
Nth(branches, k) == {b[k] : b \in branches}
Agree(branches, k) ==
    /\ \A b \in branches : k \in DOMAIN b
    /\ Cardinality({Shape(w) : w \in Nth(branches, k)}) = 1

\* _merge_conditional_outline_stacks
CanMerge(base, branches) ==
    /\ \A b \in branches : IsPrefix(base, b)
    /\ \A b, c \in branches : Len(b) = Len(c)
    /\ \A b \in branches : \A k \in DOMAIN b : k > Len(base) => Agree(branches, k)

\* _common_conditional_outline_stack: as deep as all the branches agree
CommonDepth(branches) ==
    Max({k \in 0 .. Max({Len(b) : b \in branches}) : \A j \in 1 .. k : Agree(branches, j)})
Common(branches, depth) == [k \in 1 .. depth |-> Joined(Nth(branches, k))]

\* Mutant: branches of different depth are taken for the first one.
CloseFrameTrusting(s) ==
    [s EXCEPT !.frames = Front(@), !.stack = Append(Last(s.frames).branches, s.stack)[1]]

CloseFrame(s) ==
    LET frame == Last(s.frames)
        branches == Range(frame.branches) \cup {s.stack}
                    \cup (IF frame.alternative THEN {} ELSE {frame.base})
        closed == [s EXCEPT !.frames = Front(@)]
    IN IF CanMerge(frame.base, branches)
       THEN [closed EXCEPT !.stack = Common(branches, Len(s.stack))]
       ELSE [closed EXCEPT !.stack = Common(branches, CommonDepth(branches)), !.body = 0]

Alternative(s) ==
    [s EXCEPT !.frames[Len(s.frames)] = [@ EXCEPT !.branches = Append(@, s.stack), !.alternative = TRUE],
              !.stack = Last(s.frames).base]

ScanDirective(s, name) ==
    IF s.stack = <<>> /\ s.frames = <<>> THEN s
    ELSE IF name \in Openers THEN [s EXCEPT !.frames = Append(@, Frame(s.stack))]
    ELSE IF name \notin Alternatives \cup Closers THEN s
    ELSE IF s.frames = <<>> THEN Lost(s)
    ELSE IF name \in Alternatives THEN Alternative(s)
    ELSE CloseFrame(s)

-----------------------------------------------------------------------------
(* Words and signs                                                          *)

\* _next_code_word
Skipped == {"blank", "newline", "comment", "directive"}
NextWord(es, i) ==
    LET after == {j \in i + 1 .. Len(es) : es[j].is \notin Skipped}
    IN IF after = {} THEN "" ELSE es[Min(after)].text

Maker(s) == LET depth == <<s.paren, s.bracket>>
            IN IF depth \in DOMAIN s.makers THEN s.makers[depth] ELSE ""

\* _opens_end_terminated_construct: yes, no, or lost
OpensConstruct(es, i, s) ==
    LET word == es[i].text  inType == Last(s.stack) \in EndTerminatedTypes
    IN CASE word = "object" /\ s.prev = "of" ->
                IF Maker(s) \in {"procedure", "function"} THEN "no"
                ELSE IF Maker(s) = "array" THEN "yes" ELSE "lost"
         [] word = "class" /\ NextWord(es, i) = "of" -> "no"
         [] word = "class" /\ inType /\ NextWord(es, i) \in MemberPrefixFollowers \ {"of"} ->
                IF s.prev \in TypePredecessors THEN "yes"
                ELSE IF s.prev \in MemberBoundaries THEN "no" ELSE "lost"
         [] OTHER -> IF word \in EndTerminatedTypes \/ (~inType /\ word \in EndTerminatedStatements)
                     THEN "yes" ELSE "no"

\* Whether the word opens a construct, and whether that can be told.
Opening(es, i, s) ==
    LET word == es[i].text
    IN IF s.stack = <<>> THEN IF word \in Bodies THEN "yes" ELSE "no"
       ELSE IF word = "end" \/ (s.angle > 0 /\ word \in EndTerminatedTypes) THEN "no"
       ELSE OpensConstruct(es, i, s)

\* END closes the innermost construct; with the body itself, what is between
\* its two words is hidden.
CloseConstruct(s, i) ==
    IF s.stack = <<>> THEN s
    ELSE IF Len(s.stack) = 1 /\ s.body # 0
         THEN [s EXCEPT !.stack = <<>>, !.body = 0, !.hidden = @ \cup (s.body + 1 .. i - 1)]
    ELSE [s EXCEPT !.stack = Front(@)]

Forget(makers, depth) == [d \in DOMAIN makers \ {depth} |-> makers[d]]

\* What a word does besides opening and closing.
Note(s, word, opens) ==
    LET depth == <<s.paren, s.bracket>>
        heading == [s EXCEPT !.heading = (@ \/ word \in RoutineHeadings) /\ word \notin Bodies,
                             !.owner = (opens /\ word = "class"),
                             !.prev = word, !.named = TRUE]
    IN CASE word \in Bodies -> [heading EXCEPT !.makers = [d \in {} |-> ""]]
         [] word \in {"procedure", "function", "array"} ->
                [heading EXCEPT !.makers = [d \in DOMAIN @ \cup {depth} |-> IF d = depth THEN word ELSE @[d]]]
         [] word = "var" -> [heading EXCEPT !.makers = Forget(@, depth)]
         [] OTHER -> heading

ScanWord(es, i, s) ==
    LET word == es[i].text  opening == Opening(es, i, s)
        opened == IF opening = "yes"
                  THEN [s EXCEPT !.stack = Append(@, word), !.body = IF s.stack = <<>> THEN i ELSE @]
                  ELSE IF word = "end" THEN CloseConstruct(s, i) ELSE s
    IN IF opening = "lost" THEN Lost(s) ELSE Note(opened, word, opening = "yes")

\* Angles are generic ones after a class or in a routine's heading only.
OpenAngle(s) ==
    IF s.angle > 0 THEN [s EXCEPT !.angle = @ + 1]
    ELSE IF s.owner \/ (s.heading /\ s.named /\ s.prev # "operator") THEN [s EXCEPT !.angle = 1]
    ELSE s

ScanSign(s, sign) ==
    LET depth == <<s.paren, s.bracket>>
        after == CASE sign = "<" -> [OpenAngle(s) EXCEPT !.owner = FALSE]
                   [] sign = ">" -> IF s.angle > 0 THEN [s EXCEPT !.angle = @ - 1, !.owner = FALSE] ELSE s
                   [] sign = "(" -> [s EXCEPT !.paren = @ + 1, !.owner = FALSE, !.heading = FALSE]
                   [] sign = "[" -> [s EXCEPT !.bracket = @ + 1, !.owner = FALSE]
                   [] sign = ")" -> [s EXCEPT !.makers = Forget(@, depth), !.owner = FALSE,
                                              !.paren = IF @ = 0 THEN 0 ELSE @ - 1]
                   [] sign = "]" -> [s EXCEPT !.makers = Forget(@, depth), !.owner = FALSE,
                                              !.bracket = IF @ = 0 THEN 0 ELSE @ - 1]
                   [] sign = ";" -> [s EXCEPT !.makers = Forget(@, depth), !.owner = FALSE, !.heading = FALSE]
                   [] OTHER -> [s EXCEPT !.owner = FALSE]
    IN IF sign = "<" /\ s.angle > 0 /\ ~s.named THEN Lost(s)
       ELSE [after EXCEPT !.prev = sign, !.named = FALSE]

\* A turn of the loop of _blank_compound_statement_bodies.
ScanElement(es, i, s) ==
    IF es[i].is \in Skipped \ {"directive"} THEN s
    ELSE IF es[i].is = "directive" THEN ScanDirective(s, es[i].text)
    ELSE IF es[i].text = "literal" THEN [s EXCEPT !.prev = "literal", !.named = FALSE, !.owner = FALSE]
    ELSE IF es[i].text \in Signs THEN ScanSign(s, es[i].text)
    ELSE ScanWord(es, i, s)

RECURSIVE ScanFrom(_, _, _)
ScanFrom(es, i, s) == IF s.lost \/ i > Len(es) THEN s ELSE ScanFrom(es, i + 1, ScanElement(es, i, s))

\* _blank_compound_statement_bodies: the elements that are hidden
HiddenBodies(es) ==
    LET s == ScanFrom(es, 1, Unscanned)
    IN IF s.lost \/ s.angle > 0 \/ s.frames # <<>> THEN {} ELSE s.hidden

BlankBodies(es) ==
    LET hidden == HiddenBodies(es)
    IN [i \in DOMAIN es |-> IF i \in hidden /\ es[i].is # "newline" THEN Blank ELSE es[i]]

\* outline_source with the defines of a build, and without any
OutlineFor(es, defines) == BlankBodies(ScanText(es, defines))
OutlineOfAll(es) == BlankBodies(es)
=============================================================================
