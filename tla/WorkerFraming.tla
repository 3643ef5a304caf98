---------------------------- MODULE WorkerFraming ----------------------------
(***************************************************************************)
(* How the NDJSON worker cuts its input into records (_serve_worker of     *)
(* src/delphi_lsp/agent_cli.py).  The input is a sequence of bytes, LF and *)
(* CR among them; MaxRecord is _MAX_WORKER_RECORD_BYTES.                   *)
(***************************************************************************)
EXTENDS Integers, Sequences, SequencesExt, FiniteSetsExt

CONSTANTS LF, CR, MaxRecord
ASSUME FramingAssumption == LF # CR /\ MaxRecord \in Nat \ {0}

IsLF(b) == b = LF
IsText(b) == b \notin {CR, LF}
\* readline(_MAX_WORKER_RECORD_BYTES + 1)
ReadLine(in) ==
    LET newline == SelectInSeq(in, IsLF)
    IN IF newline \in 1 .. MaxRecord + 1 THEN SubSeq(in, 1, newline)
       ELSE IF Len(in) <= MaxRecord + 1 THEN in ELSE SubSeq(in, 1, MaxRecord + 1)
From(in, n) == SubSeq(in, n + 1, Len(in))
Ends(record, byte) == record # <<>> /\ Last(record) = byte
IsOver(record) == ~Ends(record, LF) /\ Len(record) > MaxRecord
\* the byte after a record that ends in CR is read to see whether it is LF
Peeked(in, record) == IsOver(record) /\ Ends(record, CR) /\ Len(in) > Len(record)
IsCrLf(in, record) == Peeked(in, record) /\ in[Len(record) + 1] = LF
Stripped(record) ==
    SubSeq(record, 1, SelectLastInSeq(record, IsText))

Said(rest, discarding, say, text) ==
    [rest |-> rest, discarding |-> discarding, say |-> say, text |-> text]
Parsed(rest, text) == Said(rest, FALSE, IF text = <<>> THEN "nothing" ELSE "answer", text)
\* Mutant: the record that ends an oversized one is taken for the next request
NeverDiscarding(in, discarding, record) ==
    IF IsOver(record) /\ ~IsCrLf(in, record)
    THEN Said(From(in, Len(record) + (IF Peeked(in, record) THEN 1 ELSE 0)), FALSE,
              "request_too_large", <<>>)
    ELSE Parsed(From(in, Len(record) + (IF IsCrLf(in, record) THEN 1 ELSE 0)), Stripped(record))
\* one turn of the loop; `rest' is what is left to read
Turned(in, discarding, record) ==
    IF discarding THEN Said(From(in, Len(record)), ~Ends(record, LF), "nothing", <<>>)
    ELSE IF IsOver(record) /\ ~IsCrLf(in, record)
    THEN Said(From(in, Len(record) + (IF Peeked(in, record) THEN 1 ELSE 0)), TRUE,
              "request_too_large", <<>>)
    ELSE Parsed(From(in, Len(record) + (IF IsCrLf(in, record) THEN 1 ELSE 0)), Stripped(record))
ServeOne(in, discarding) == Turned(in, discarding, ReadLine(in))

\* all that is said of an input that ends
Answers(bytes) ==
    LET serve[b \in Seq(Range(bytes)) \X BOOLEAN] ==
            IF b[1] = <<>> THEN <<>>
            ELSE LET turn == ServeOne(b[1], b[2])
                 IN (IF turn.say = "nothing" THEN <<>> ELSE <<<<turn.say, turn.text>>>>)
                        \o serve[<<turn.rest, turn.discarding>>]
    IN serve[<<bytes, FALSE>>]

(***************************************************************************)
(* What framing promises, said of whole lines                              *)
(***************************************************************************)
Lines(bytes) ==
    LET ends == {i \in DOMAIN bytes : bytes[i] = LF} \cup
                (IF bytes = <<>> \/ Last(bytes) = LF THEN {} ELSE {Len(bytes)})
        From0(e) == 1 + Max({0} \cup {i \in ends : i < e})
    IN [k \in 1 .. Cardinality(ends) |->
           LET e == CHOOSE x \in ends : Cardinality({y \in ends : y < x}) = k - 1
           IN SubSeq(bytes, From0(e), e)]
Payload(line) == IF Ends(line, LF) THEN Front(line) ELSE line
Fits(line) == \/ Len(Payload(line)) <= MaxRecord
              \/ Ends(line, LF) /\ Len(Payload(line)) = MaxRecord + 1 /\ Ends(Payload(line), CR)
ToldOf(line) == IF ~Fits(line) THEN <<"request_too_large", <<>>>>
                ELSE IF Stripped(line) = <<>> THEN <<"nothing", <<>>>> ELSE <<"answer", Stripped(line)>>
Promised(bytes) ==
    SelectSeq([k \in DOMAIN Lines(bytes) |-> ToldOf(Lines(bytes)[k])], LAMBDA t : t[1] # "nothing")
================================================================================
