------------------------------ MODULE Pagination ------------------------------
(***************************************************************************)
(* How an answer is cut into items that fit a page and into pages          *)
(* (src/delphi_lsp/agent_protocol.py and the cutting functions of          *)
(* agent_context.py).  A text is the sequence of what its characters take  *)
(* inside a JSON string: 1 for a plain one, 2 for one with an escape, and  *)
(* in a source text the only escaped one is the line feed.  Numbers are    *)
(* written in base Radix; Placeholder stands for the digits of 999999, the *)
(* number the code reserves room for while it does not know the last one.  *)
(***************************************************************************)
EXTENDS Integers, Sequences, SequencesExt

CONSTANTS ChunkWrapper,   \* characters of a card or json chunk but for text and numbers
          SourceWrapper,  \* the same for a compact source chunk
          RoleChars,      \* what role and target add to one that is not compact
          SourceChunk,    \* _SOURCE_CHUNK_CHARS
          CompactChars,   \* the 256 characters up to which a source chunk is always compact
          Radix, Placeholder

ASSUME WrapperAssumption ==
    /\ {ChunkWrapper, SourceWrapper, RoleChars, CompactChars} \subseteq Nat
    /\ {SourceChunk, Placeholder, Radix - 1} \subseteq Nat \ {0}

Digits(n) == CHOOSE d \in 1 .. n + 1 : n < Radix ^ d /\ (d = 1 \/ n >= Radix ^ (d - 1))
Chars(text) == FoldLeft(LAMBDA a, b : a + b, 0, text)
Lesser(a, b) == IF a <= b THEN a ELSE b

Good(items) == [error |-> "", items |-> items]
Failed(code) == [error |-> code, items |-> <<>>]
Joined(a, b) == IF a.error # "" THEN a ELSE IF b.error # "" THEN b
                ELSE Good(a.items \o b.items)

\* An item of an answer: what it is of, which part of how many, its text, and
\* the characters of its JSON
Whole(type, of, text) ==
    [type |-> type, of |-> of, part |-> 1, parts |-> 1, text |-> text, chars |-> Len(text)]
Chunk(type, of, i, n, text) ==
    [type |-> type, of |-> of, part |-> i, parts |-> n, text |-> text,
     chars |-> ChunkWrapper + Digits(i - 1) + Digits(n) + Chars(text)]

\* the binary search both cutting functions use: the last middle that fits
BinarySearch(from, to, none, Fits(_)) ==
    LET search[b \in Int \X Int \X Int] ==
            LET middle == (b[1] + b[2]) \div 2
            IN IF b[1] > b[2] THEN b[3]
               ELSE IF Fits(middle) THEN search[<<middle + 1, b[2], middle>>]
               ELSE search[<<b[1], middle - 1, b[3]>>]
    IN search[<<from, to, none>>]

\* a text cut from one offset to the next; a cut that gains nothing is the last
Spans(from, to, End(_, _)) ==
    LET cut[c \in Nat \X Nat] ==
            IF c[1] >= to THEN <<>>
            ELSE LET end == End(c[1], c[2])
                 IN IF end <= c[1] THEN <<<<c[1], c[1]>>>> ELSE <<<<c[1], end>>>> \o cut[<<end, c[2] + 1>>]
    IN cut[<<from, 0>>]
Stuck(spans, k) == spans[k][2] <= spans[k][1]

\* _json_chunks and _prepare_items: the type follows from what is cut
Targeted == {"card", "counterpart", "relation", "cpg_metadata", "focus"}
ChunkTypeOf(item) == CASE item.type \in {"source", "source_chunk"} -> "source_chunk"
                       [] item.type \in Targeted -> "card_chunk"
                       [] OTHER -> "json_chunk"
JsonFits(item, max, offset, index, size) ==
    ChunkWrapper + Digits(index) + Placeholder
        + Chars(SubSeq(item.text, offset + 1, offset + size)) + 2 <= max
JsonSpans(item, max) ==
    Spans(0, Len(item.text), LAMBDA offset, index :
        offset + BinarySearch(1, Len(item.text) - offset, 0,
                              LAMBDA size : JsonFits(item, max, offset, index, size)))
JsonChunks(item, spans) ==
    IF \E k \in DOMAIN spans : Stuck(spans, k)
    THEN Failed("item_too_large")
    ELSE Good([k \in DOMAIN spans |->
                   Chunk(ChunkTypeOf(item), item.of, k, Len(spans),
                         SubSeq(item.text, spans[k][1] + 1, spans[k][2]))])
PrepareItem(item, max) == IF item.chars + 2 <= max THEN Good(<<item>>)
                          ELSE JsonChunks(item, JsonSpans(item, max))
PrepareItems(answer, max) ==
    IF answer.error # "" THEN answer
    ELSE FoldLeft(LAMBDA done, item : Joined(done, PrepareItem(item, max)), Good(<<>>), answer.items)

\* _SymbolCardSequence: the cards of a search, cut without looking at escapes
CardPayload(max) == (max - (ChunkWrapper + 2 * Placeholder + 2)) \div 2
\* Mutant: a last part that is not full is not counted
WholePartsOnly(card, max) == IF Len(card) + 2 <= max THEN 1 ELSE Len(card) \div CardPayload(max)
CardParts(card, max) == IF Len(card) + 2 <= max THEN 1
                        ELSE (Len(card) + CardPayload(max) - 1) \div CardPayload(max)
CardEnds(cards, max) ==
    FoldLeft(LAMBDA ends, card : Append(ends, (IF ends = <<>> THEN 0 ELSE Last(ends))
                                                  + CardParts(card.text, max)),
             <<>>, cards)
CardAt(cards, ends, max, index) ==
    LET before == Len(SelectSeq(ends, LAMBDA e : e <= index))
        card == cards[before + 1]
        first == IF before = 0 THEN 0 ELSE ends[before]
        start == (index - first) * CardPayload(max)
    IN IF Len(card.text) + 2 <= max THEN card
       ELSE Chunk("card_chunk", card.of, index - first + 1, ends[before + 1] - first,
                  SubSeq(card.text, start + 1, Lesser(start + CardPayload(max), Len(card.text))))
Cards(cards, max, ends) ==
    IF CardPayload(max) < 1 THEN Failed("item_too_large")
    ELSE Good([k \in 1 .. (IF ends = <<>> THEN 0 ELSE Last(ends)) |->
                   CardAt(cards, ends, max, k - 1)])

\* _source_items: what is written beside the text, its positions included
LinesBefore(text, offset) == Len(SelectSeq(SubSeq(text, 1, offset), LAMBDA c : c = 2))
LineStart(text, offset) == SelectLastInSeq(SubSeq(text, 1, offset), LAMBDA c : c = 2)
PositionDigits(text, offset) ==
    Digits(LinesBefore(text, offset) + 1) + Digits(offset - LineStart(text, offset) + 1)
SourceChars(text, start, end, compact) ==
    SourceWrapper + (IF compact THEN 0 ELSE RoleChars)
        + PositionDigits(text, start) + PositionDigits(text, end)
        + Chars(SubSeq(text, start + 1, end))
SourceFits(text, start, end, max, compact) ==
    SourceChars(text, start, end, compact) + 2 * Placeholder + 2 <= max
\* the longer form is chosen by what its first character needs
IsCompact(text, start, end, max) ==
    \/ max <= CompactChars
    \/ SourceChars(text, start, Lesser(end, start + 1), FALSE) + 2 * Placeholder + 2 >= max
SourceCuts(text, start, end, max, compact) ==
    Spans(start, end, LAMBDA offset, index :
        BinarySearch(offset + 1, Lesser(end, offset + SourceChunk), offset,
                     LAMBDA e : SourceFits(text, offset, e, max, compact)))
SourceItem(of, text, spans, k, compact) ==
    [type |-> IF compact THEN "source_chunk" ELSE "source",
     of |-> of, part |-> k, parts |-> Len(spans),
     text |-> SubSeq(text, spans[k][1] + 1, spans[k][2]),
     chars |-> SourceChars(text, spans[k][1], spans[k][2], compact)
                   + Digits(k - 1) + Digits(Len(spans))]
CutSource(of, text, spans, compact) ==
    IF \E k \in DOMAIN spans : Stuck(spans, k) THEN Failed("item_too_large")
    ELSE Good([k \in DOMAIN spans |-> SourceItem(of, text, spans, k, compact)])
OrEmpty(spans, start, end) == IF spans = <<>> THEN <<<<start, end>>>> ELSE spans
SourceItems(of, text, start, end, max, compact) ==
    IF start = end THEN Good(<<SourceItem(of, text, OrEmpty(<<>>, start, end), 1, compact)>>)
    ELSE CutSource(of, text, SourceCuts(text, start, end, max, compact), compact)

\* encode_cursor and decode_cursor: what a cursor is bound to
NoCursor == [revision |-> 0, offset |-> 0, fingerprint |-> <<>>]
Cursor(revision, offset, fingerprint) ==
    [revision |-> revision, offset |-> offset, fingerprint |-> fingerprint]
CursorError(cursor, revision, fingerprint) ==
    CASE cursor.offset < 0 -> "negative_cursor"
      [] cursor.offset >= 0 /\ cursor.revision # revision -> "stale_cursor"
      [] cursor.offset >= 0 /\ cursor.revision = revision /\ cursor.fingerprint # fingerprint
             -> "cursor_mismatch"
      [] OTHER -> ""

\* paginate_items: as many whole items as fit, and never none
Taken(items, offset, n) == SubSeq(items, offset + 1, offset + n)
PageChars(selected) ==
    2 + FoldLeft(LAMBDA sum, item : sum + item.chars, 0, selected)
      + (IF selected = <<>> THEN 0 ELSE Len(selected) - 1)
PageLength(items, offset, maxItems, max) ==
    CHOOSE n \in 0 .. Len(items) - offset :
        /\ n <= maxItems /\ (n = 0 \/ PageChars(Taken(items, offset, n)) <= max)
        /\ \/ n \in {maxItems, Len(items) - offset}
           \/ PageChars(Taken(items, offset, n + 1)) > max
NextOffset(offset, n) == offset + n
PageOf(items, revision, fingerprint, offset, n) ==
    [error |-> "", items |-> Taken(items, offset, n), total |-> Len(items),
     next |-> IF NextOffset(offset, n) < Len(items)
              THEN Cursor(revision, NextOffset(offset, n), fingerprint) ELSE NoCursor]
PageError(code) == [error |-> code, items |-> <<>>, total |-> 0, next |-> NoCursor]
TooLarge(items, offset, n, maxItems, max) ==
    /\ n < maxItems /\ offset + n < Len(items)
    /\ (n = 0 \/ items[offset + n + 1].chars > max)
Paginated(items, revision, fingerprint, maxItems, max, offset, n) ==
    IF TooLarge(items, offset, n, maxItems, max) THEN PageError("item_too_large")
    ELSE PageOf(items, revision, fingerprint, offset, n)
Paginate(items, revision, fingerprint, maxItems, max, cursor) ==
    IF cursor # NoCursor /\ CursorError(cursor, revision, fingerprint) # ""
    THEN PageError(CursorError(cursor, revision, fingerprint))
    ELSE IF cursor.offset > Len(items) THEN PageError("malformed_cursor")
    ELSE Paginated(items, revision, fingerprint, maxItems, max, cursor.offset,
                   PageLength(items, cursor.offset, maxItems, max))
================================================================================
