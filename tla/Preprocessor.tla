----------------------------- MODULE Preprocessor -----------------------------
(***************************************************************************)
(* Conditional compilation and includes (src/delphi_lsp/preprocessor.py).  *)
(* A text is a sequence of elements [is, text, arg]: a word, a newline, a  *)
(* comment, a directive with its name in text and its parameters in arg, a *)
(* sequence of <<operator, negated, name>>; Blank is what is left of an    *)
(* element that does not show.  Spaces are no elements, and a comment or a *)
(* directive ends on its line.  Comparisons of compiler versions are left  *)
(* out, and SCOPEDENUMS is an option like the others.                      *)
(***************************************************************************)
EXTENDS Naturals, Sequences, SequencesExt, FiniteSets, FiniteSetsExt

Element(is, text, arg) == [is |-> is, text |-> text, arg |-> arg]
Blank == Element("blank", "", <<>>)
Newline == Element("newline", "", <<>>)

Openers == {"IFDEF", "IFNDEF", "IF", "IFOPT"}
Alternatives == {"ELSE", "ELSEIF"}
Closers == {"ENDIF", "IFEND"}

NoOptions == [o \in {} |-> ""]
WithOption(options, name, state) ==
    [o \in DOMAIN options \cup {name} |-> IF o = name THEN state ELSE options[o]]
Option(p, name) == IF name \in DOMAIN p.options THEN p.options[name] ELSE ""

\* process: the files being read, innermost last, the open conditionals, and
\* what has been put out, with the file and line each line of it came from
Context(file, elements) ==
    [file |-> file, elements |-> elements, at |-> 1, line |-> 1, pending |-> <<>>]

Begin(file, elements, defines, preserve) ==
    [contexts |-> <<Context(file, elements)>>, frames |-> <<>>, defines |-> defines,
     preserve |-> preserve, options |-> NoOptions, optionStack |-> <<>>, problems |-> <<>>,
     out |-> <<>>, map |-> <<>>, needsMapping |-> TRUE, comments |-> 0]

Active(p) == p.frames = <<>> \/ Last(p.frames).active
Problem(p, kind) == [p EXCEPT !.problems = Append(@, kind)]

\* _emit_text with append_span
Emit(p, e, file, line) ==
    [p EXCEPT !.out = Append(@, e), !.needsMapping = (e.is = "newline"),
              !.map = IF p.needsMapping THEN Append(@, <<file, line>>) ELSE @]

\* Mutant: a branch that was not taken shows as well.
ShowAnyway(p, e) == e
Shown(p, e) == IF Active(p) \/ e.is = "newline" THEN e ELSE Blank
\* active_replacement of a directive
Replacement(p, e) == IF p.preserve /\ Active(p) THEN e ELSE Blank

-----------------------------------------------------------------------------
(* Conditions                                                               *)

\* _evaluate_defined_chain, from left to right; what is no chain is false
Defined(p, term) == (term[3] \in p.defines) # term[2]
Chain(p, terms) ==
    terms # <<>> /\ FoldLeft(LAMBDA value, term : IF term[1] = "or" THEN value \/ Defined(p, term)
                                                  ELSE value /\ Defined(p, term),
                             Defined(p, terms[1]), Tail(terms))

\* _evaluate_ifopt
OptionIs(p, terms) == terms # <<>> /\ Option(p, terms[1][3]) = terms[1][1]

Condition(p, e) ==
    CASE e.text = "IFDEF"  -> e.arg # <<>> /\ Defined(p, e.arg[1])
      [] e.text = "IFNDEF" -> e.arg = <<>> \/ ~Defined(p, e.arg[1])
      [] e.text = "IFOPT"  -> OptionIs(p, e.arg)
      [] OTHER             -> Chain(p, e.arg)

-----------------------------------------------------------------------------
(* _handle_directive                                                        *)

Open(p, e) ==
    LET holds == Active(p) /\ Condition(p, e)
    IN [p EXCEPT !.frames = Append(@, [parent |-> Active(p), taken |-> holds, active |-> holds])]

\* Mutant: an alternative is judged by its own condition alone.
AlternateAnyway(p, e) ==
    LET frame == Last(p.frames)
    IN [p EXCEPT !.frames[Len(p.frames)].active = frame.parent /\ (e.text = "ELSE" \/ Chain(p, e.arg))]

Alternate(p, e) ==
    LET frame == Last(p.frames)
        shows == frame.parent /\ ~frame.taken /\ (e.text = "ELSE" \/ Chain(p, e.arg))
    IN [p EXCEPT !.frames[Len(p.frames)].active = shows,
                 !.frames[Len(p.frames)].taken = @ \/ shows \/ e.text = "ELSE"]

Close(p, e) ==
    IF p.frames = <<>> THEN Problem(p, "directive") ELSE [p EXCEPT !.frames = Front(@)]

Names(e) == {e.arg[i][3] : i \in DOMAIN e.arg}

\* What a directive that is active does, conditionals and includes apart.
Effect(p, e) ==
    CASE e.text = "DEFINE"  -> [p EXCEPT !.defines = @ \cup Names(e)]
      [] e.text = "UNDEF"   -> [p EXCEPT !.defines = @ \ Names(e)]
      [] e.text = "PUSHOPT" -> [p EXCEPT !.optionStack = Append(@, p.options)]
      [] e.text = "POPOPT"  -> IF p.optionStack = <<>> THEN Problem(p, "directive")
                               ELSE [p EXCEPT !.options = Last(p.optionStack), !.optionStack = Front(@)]
      [] e.text = "OPT"     -> [p EXCEPT !.options =
                                   FoldLeft(LAMBDA o, s : WithOption(o, s[3], s[1]), @, e.arg)]
      [] OTHER              -> p

EndsWithNewline(elements) ==
    IF elements # <<>> /\ Last(elements).is = "newline" THEN elements ELSE Append(elements, Newline)

\* An include is read at once and the rest of its directive's line afterwards;
\* load maps a name to <<file, elements>>.
IncludeCycle(p, file) == \E i \in DOMAIN p.contexts : p.contexts[i].file = file
Included(p, e, load, line) ==
    LET top == Len(p.contexts)  found == load[Names(e)]
    IN [p EXCEPT !.contexts =
            Append([@ EXCEPT ![top].pending = <<Replacement(p, e), line>>],
                   Context(found[1], EndsWithNewline(found[2])))]

Directive(p, e, load) ==
    LET ctx == Last(p.contexts)
        Put(q, shown) == Emit(q, shown, ctx.file, ctx.line)
    IN IF e.text \in Openers THEN Put(Open(p, e), Blank)
       ELSE IF e.text \in Alternatives
            THEN Put(IF p.frames = <<>> THEN Problem(p, "directive") ELSE Alternate(p, e), Blank)
       ELSE IF e.text \in Closers THEN Put(Close(p, e), Blank)
       ELSE IF ~Active(p) THEN Put(p, Blank)
       ELSE IF e.text # "I" \/ e.arg = <<>> THEN Put(Effect(p, e), Replacement(p, e))
       ELSE IF Names(e) \notin DOMAIN load \/ IncludeCycle(p, load[Names(e)][1])
            THEN Put(Problem(p, "include"), Replacement(p, e))
       ELSE Included(p, e, load, ctx.line)

-----------------------------------------------------------------------------
(* The loop of process                                                      *)

Advance(p, e) ==
    LET top == Len(p.contexts)
    IN [p EXCEPT !.contexts[top].at = @ + 1,
                 !.contexts[top].line = @ + IF e.is = "newline" THEN 1 ELSE 0]

Turn(p, load) ==
    LET ctx == Last(p.contexts)  top == Len(p.contexts)
        e   == ctx.elements[ctx.at]
        \* a directive is handled after it was consumed
        over == Advance(p, e)
    IN IF ctx.pending # <<>>
       THEN Emit([p EXCEPT !.contexts[top].pending = <<>>], ctx.pending[1], ctx.file, ctx.pending[2])
       ELSE IF ctx.at > Len(ctx.elements) THEN [p EXCEPT !.contexts = Front(@)]
       ELSE IF e.is = "directive" THEN Directive(over, e, load)
       ELSE Emit([over EXCEPT !.comments = @ + IF e.is = "comment" /\ Active(p) THEN 1 ELSE 0],
                 Shown(p, e), ctx.file, ctx.line)

RECURSIVE Finish(_, _)
Finish(p, load) == IF p.contexts = <<>> THEN p ELSE Finish(Turn(p, load), load)

Process(file, elements, defines, preserve, load) ==
    Finish(Begin(file, elements, defines, preserve), load)

\* _conditional_outline_scan_text: includes are left where they are
NoFiles == [names \in {} |-> <<>>]
ScanText(elements, defines) == Process("<outline>", elements, defines, TRUE, NoFiles).out

-----------------------------------------------------------------------------
(* What conditional compilation means, without a stack: the conditionals    *)
(* around a place are those not closed before it, and a branch shows when   *)
(* its condition is the first one to hold.                                  *)

Opens(es, i) == es[i].is = "directive" /\ es[i].text \in Openers
Closes(es, i) == es[i].is = "directive" /\ es[i].text \in Closers
Alternates(es, i) == es[i].is = "directive" /\ es[i].text \in Alternatives
\* How many conditionals that begin at or after i are open before j.
Depth(es, i, j) ==
    Cardinality({k \in i .. j - 1 : Opens(es, k)}) - Cardinality({k \in i .. j - 1 : Closes(es, k)})
Within(es, i, j) == Opens(es, i) /\ i < j /\ \A k \in i + 1 .. j : Depth(es, i, k) > 0

RECURSIVE DefinesAt(_, _, _), Shows(_, _, _), Holds(_, _, _)
\* The names defined before j.
DefinesAt(es, j, defines) ==
    IF j = 1 THEN defines
    ELSE LET before == DefinesAt(es, j - 1, defines)  e == es[j - 1]
         IN IF e.is # "directive" \/ e.text \notin {"DEFINE", "UNDEF"} \/ ~Shows(es, j - 1, defines)
            THEN before
            ELSE IF e.text = "DEFINE" THEN before \cup Names(e) ELSE before \ Names(e)

\* Whether the condition of the branch that begins at b holds.
Holds(es, b, defines) ==
    \/ es[b].text = "ELSE"
    \/ Condition([defines |-> DefinesAt(es, b, defines), options |-> NoOptions], es[b])

\* The branches of the conditional at i that begin before j, in order.
Branches(es, i, j) ==
    {i} \cup {k \in i + 1 .. j - 1 : Alternates(es, k) /\ Within(es, i, k) /\ Depth(es, i, k) = 1}
Shows(es, j, defines) ==
    \A i \in 1 .. j - 1 :
        Within(es, i, j) =>
            LET branches == Branches(es, i, j)
            IN /\ Holds(es, Max(branches), defines)
               /\ \A b \in branches \ {Max(branches)} : ~Holds(es, b, defines)
=============================================================================
