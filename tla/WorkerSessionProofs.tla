------------------------- MODULE WorkerSessionProofs -------------------------
(***************************************************************************)
(* What TLAPS proves of a session of the plugin with its workers: a call   *)
(* gets its own answer, and every worker can be found, for any number of   *)
(* roots, calls and clients and any limit of a record.                     *)
(***************************************************************************)
EXTENDS WorkerSession, SequenceTheorems, TLAPS

(* An input whose first line ends at n.                                    *)
AtFirst(in, n) == n \in 1 .. Len(in) /\ in[n] = LF /\ \A i \in 1 .. n - 1 : in[i] # LF

LEMMA FirstLine ==
    ASSUME NEW S, NEW in \in Seq(S), NEW n, AtFirst(in, n)
    PROVE  ReadLine(in) = IF n <= MaxRecord + 1 THEN SubSeq(in, 1, n)
                          ELSE SubSeq(in, 1, MaxRecord + 1)
<1> DEFINE I == {i \in 1 .. Len(in) : in[i] = LF}
<1>1. n \in I /\ \A i \in I : n <= i
  BY DEF AtFirst
<1>2. Min(I) = n
  <2> HIDE DEF I
  <2>1. \A x \in I : (\A y \in I : x <= y) => x = n
    <3> SUFFICES ASSUME NEW x \in I, x <= n PROVE x = n
      BY <1>1
    <3>1. x \in Nat /\ n \in Nat
      BY <1>1 DEF I, AtFirst
    <3> QED BY <3>1, <1>1
  <2> QED BY <1>1, <2>1 DEF Min
<1>3. SelectInSeq(in, IsLF) = n
  BY <1>1, <1>2 DEF SelectInSeq, IsLF
<1>4. n \in Nat /\ n <= Len(in) /\ Len(in) \in Nat /\ 1 <= n
  BY DEF AtFirst
<1> QED BY <1>3, <1>4, FramingAssumption DEF ReadLine

(* What has been read and what is left of it.                              *)
LEMMA Cut ==
    ASSUME NEW S, NEW in \in Seq(S), NEW n \in 1 .. Len(in)
    PROVE  /\ SubSeq(in, 1, n) \in Seq(S) /\ Len(SubSeq(in, 1, n)) = n
           /\ \A i \in 1 .. n : SubSeq(in, 1, n)[i] = in[i]
           /\ From(in, n) \in Seq(S) /\ Len(From(in, n)) = Len(in) - n
           /\ \A i \in 1 .. Len(in) - n : From(in, n)[i] = in[n + i]
<1>1. Len(in) \in Nat /\ n \in Nat /\ 1 <= n /\ n <= Len(in)
  OBVIOUS
<1>2. /\ SubSeq(in, 1, n) \in Seq(S) /\ Len(SubSeq(in, 1, n)) = n
      /\ \A i \in 1 .. n : SubSeq(in, 1, n)[i] = in[i]
  BY <1>1
<1>3. /\ From(in, n) \in Seq(S) /\ Len(From(in, n)) = Len(in) - n
      /\ \A i \in 1 .. Len(in) - n : From(in, n)[i] = in[n + i]
  BY <1>1 DEF From
<1> QED BY <1>2, <1>3

(* A record is one request and its line feed; the rest of one that was too *)
(* long ends with the first line feed.                                     *)
Record(in, r) == Len(in) > 1 /\ in[Len(in)] = LF /\ \A i \in 1 .. Len(in) - 1 : in[i] = r
Rest(in) == AtFirst(in, Len(in))
Pending(in, discarding, r) ==
    IF discarding
    THEN \E m \in Nat : /\ AtFirst(in, m) /\ Len(in) > m + 1 /\ in[Len(in)] = LF
                        /\ \A i \in m + 1 .. Len(in) - 1 : in[i] = r
    ELSE Record(in, r)
Idle(in, discarding) == IF discarding THEN Rest(in) ELSE in = <<>>

LEMMA StrippedRecord ==
    ASSUME NEW S, NEW in \in Seq(S), NEW r, r \notin {LF, CR}, Record(in, r)
    PROVE  Stripped(in) # <<>> /\ Stripped(in)[1] = r
<1> DEFINE I == {i \in 1 .. Len(in) : IsText(in[i])}
           n == Len(in) - 1
<1>1. n \in I /\ \A i \in I : i <= n
  BY FramingAssumption DEF Record, IsText
<1>2. Max(I) = n
  <2> HIDE DEF I
  <2>1. \A x \in I : (\A y \in I : x >= y) => x = n
    <3> SUFFICES ASSUME NEW x \in I, x >= n PROVE x = n
      BY <1>1
    <3>1. x \in Nat /\ n \in Nat
      BY <1>1 DEF I
    <3> HIDE DEF n
    <3> QED BY <3>1, <1>1
  <2>2. \A y \in I : n >= y
    <3> SUFFICES ASSUME NEW y \in I PROVE n >= y
      OBVIOUS
    <3>1. y \in Nat /\ n \in Nat
      BY <1>1 DEF I
    <3> HIDE DEF n
    <3> QED BY <3>1, <1>1
  <2> HIDE DEF n
  <2> QED BY <1>1, <2>1, <2>2 DEF Max
<1>3. SelectLastInSeq(in, IsText) = n
  BY <1>1, <1>2 DEF SelectLastInSeq
<1>4. n \in 1 .. Len(in)
  BY <1>1
<1> HIDE DEF n
<1>5. Stripped(in) = SubSeq(in, 1, n)
  BY <1>3 DEF Stripped
<1>6. Len(SubSeq(in, 1, n)) = n /\ SubSeq(in, 1, n)[1] = in[1]
  BY <1>4, Cut
<1>7. in[1] = r
  BY <1>1, <1>4 DEF Record, n
<1> QED BY <1>4, <1>5, <1>6, <1>7

(* One turn of a worker that reads records, and of one that discards.       *)
Reads(in, turn) == turn = ServeOne(in, FALSE)
Discards(in, turn) == turn = ServeOne(in, TRUE)

LEMMA ServeRecord ==
    ASSUME NEW S, NEW in \in Seq(S), NEW r, r \notin {LF, CR}, Record(in, r),
           NEW turn, Reads(in, turn)
    PROVE  /\ turn.rest \in Seq(S)
           /\ \/ /\ turn.say = "answer" /\ turn.text[1] = r
                 /\ turn.rest = <<>> /\ ~turn.discarding
              \/ /\ turn.say = "request_too_large"
                 /\ Rest(turn.rest) /\ turn.discarding
<1> DEFINE n == Len(in)
           record == ReadLine(in)
<1>1. AtFirst(in, n) /\ n \in Nat /\ n > 1
  BY DEF AtFirst, Record
<1>2. MaxRecord \in Nat /\ MaxRecord > 0 /\ LF # CR
  BY FramingAssumption
<1>3. CASE n <= MaxRecord + 1
  <2>1. record = SubSeq(in, 1, n)
    BY <1>1, <1>3, FirstLine
  <2>2. record = in
    BY <1>1, <2>1, Cut
  <2>3. Ends(record, LF) /\ ~IsOver(record) /\ ~IsCrLf(in, record)
    BY <1>1, <2>2 DEF Ends, Last, IsOver, IsCrLf, Peeked, Record
  <2>4. turn = Parsed(From(in, n), Stripped(in))
    BY <2>2, <2>3 DEF Reads, ServeOne, Turned
  <2>5. From(in, n) = <<>>
    BY <1>1 DEF From
  <2>6. Stripped(in) # <<>> /\ Stripped(in)[1] = r
    BY StrippedRecord
  <2> HIDE DEF record, n
  <2>7. /\ turn.rest = <<>> /\ ~turn.discarding /\ turn.say = "answer"
        /\ turn.text = Stripped(in)
    <3> DEFINE text == Stripped(in)
               say == IF text = <<>> THEN "nothing" ELSE "answer"
    <3>1. say = "answer"
      BY <2>6
    <3> HIDE DEF text, say
    <3>2. turn = Said(<<>>, FALSE, say, text)
      BY Zenon, <2>4, <2>5 DEF Parsed, text, say
    <3>3. turn.rest = <<>> /\ ~turn.discarding /\ turn.say = say /\ turn.text = text
      BY <3>2 DEF Said
    <3> QED BY <3>1, <3>3 DEF text
  <2>8. turn.rest \in Seq(S) /\ ~turn.discarding
    <3>1. <<>> \in Seq(S)
      OBVIOUS
    <3> QED BY Zenon, <2>7, <3>1
  <2> QED BY <2>6, <2>7, <2>8
<1>4. CASE ~(n <= MaxRecord + 1)
  <2> DEFINE m == MaxRecord + 1
  <2>1. m \in 1 .. Len(in) /\ m < n
    BY <1>1, <1>2, <1>4
  <2>2. record = SubSeq(in, 1, m)
    BY <1>1, <1>4, FirstLine
  <2>3. Len(record) = m /\ record[m] = r /\ record # <<>>
    <3>1. in[m] = r
      BY <1>1, <1>2, <2>1 DEF Record
    <3>2. m > 0
      BY <1>2
    <3> HIDE DEF m, record
    <3>3. Len(record) = m /\ record[m] = in[m]
      BY <2>1, <2>2, Cut
    <3> QED BY <3>1, <3>2, <3>3
  <2>4. ~Ends(record, LF) /\ ~Ends(record, CR)
    BY <2>3 DEF Ends, Last
  <2>5. IsOver(record) /\ ~IsCrLf(in, record) /\ ~Peeked(in, record)
    BY <1>2, <2>3, <2>4 DEF IsOver, IsCrLf, Peeked
  <2>6. turn = Said(From(in, m), TRUE, "request_too_large", <<>>)
    <3>1. Len(record) + 0 = m
      BY <1>2, <2>3
    <3> HIDE DEF m, record
    <3> QED BY <3>1, <2>5 DEF Reads, ServeOne, Turned, record
  <2>7. /\ turn.rest = From(in, m) /\ turn.discarding /\ turn.say = "request_too_large"
    BY <2>6 DEF Said
  <2>8. From(in, m) \in Seq(S) /\ Rest(From(in, m))
    <3> DEFINE rest == From(in, m)
    <3>1. rest \in Seq(S) /\ Len(rest) = n - m /\ \A i \in 1 .. n - m : rest[i] = in[m + i]
      BY <2>1, Cut
    <3> HIDE DEF rest
    <3>2. n - m \in Nat /\ n - m > 0 /\ m \in Nat
      BY <1>1, <1>2, <2>1
    <3>3. in[n] = LF /\ \A i \in 1 .. n - 1 : in[i] = r
      BY DEF Record
    <3> HIDE DEF m, n
    <3>4. rest[n - m] = LF
      BY <1>1, <3>1, <3>2, <3>3
    <3>5. ASSUME NEW i \in 1 .. (n - m) - 1 PROVE rest[i] = r
      <4>1. i \in 1 .. n - m /\ m + i \in 1 .. n - 1
        BY <1>1, <3>2
      <4> QED BY <3>1, <3>3, <4>1
    <3>6. Rest(rest)
      BY <3>1, <3>2, <3>4, <3>5 DEF Rest, AtFirst
    <3> QED BY <3>1, <3>6 DEF rest
  <2> QED BY <2>7, <2>8
<1> QED BY <1>3, <1>4

(* A turn that discards ends with the line feed or before it.              *)
LEMMA ServeRest ==
    ASSUME NEW S, NEW in \in Seq(S), NEW m, AtFirst(in, m), NEW turn, Discards(in, turn)
    PROVE  \E n \in 1 .. m : /\ turn.rest = From(in, n) /\ turn.say = "nothing"
                             /\ (turn.discarding <=> n # m)
<1> DEFINE record == ReadLine(in)
<1>1. m \in Nat /\ m > 0 /\ m <= Len(in)
  BY DEF AtFirst
<1>2. MaxRecord \in Nat /\ MaxRecord > 0 /\ LF # CR
  BY FramingAssumption
<1> DEFINE n == IF m <= MaxRecord + 1 THEN m ELSE MaxRecord + 1
<1>3. n \in 1 .. m /\ n \in 1 .. Len(in)
  BY <1>1, <1>2
<1>4. record = SubSeq(in, 1, n)
  BY FirstLine
<1>5. Len(record) = n /\ record[n] = in[n] /\ record # <<>>
  <2> HIDE DEF n, record
  <2>1. Len(record) = n /\ record[n] = in[n]
    BY <1>3, <1>4, Cut
  <2>2. n > 0
    BY <1>3
  <2> QED BY <2>1, <2>2
<1>6. Ends(record, LF) <=> n = m
  <2> HIDE DEF n, record
  <2>1. in[n] = LF <=> n = m
    BY <1>1, <1>3 DEF AtFirst
  <2> QED BY <1>5, <2>1 DEF Ends, Last
<1> HIDE DEF n, record
<1>7. turn = Said(From(in, n), ~Ends(record, LF), "nothing", <<>>)
  BY <1>5 DEF Discards, ServeOne, Turned, record
<1>8. turn.rest = From(in, n) /\ turn.say = "nothing" /\ (turn.discarding <=> n # m)
  <2>1. turn.rest = From(in, n) /\ turn.say = "nothing" /\ (turn.discarding <=> ~Ends(record, LF))
    <3> DEFINE b == ~Ends(record, LF)
               rest == From(in, n)
    <3>1. b \in BOOLEAN
      BY DEF Ends
    <3> HIDE DEF b, rest
    <3>2. turn = Said(rest, b, "nothing", <<>>)
      BY <1>7 DEF b, rest
    <3>3. turn.rest = rest /\ turn.say = "nothing" /\ (turn.discarding <=> b)
      BY <3>1, <3>2 DEF Said
    <3> QED BY <3>3 DEF b, rest
  <2> QED BY <1>6, <2>1
<1> QED BY <1>3, <1>8

LEMMA ServeIdle ==
    ASSUME NEW S, NEW in \in Seq(S), Rest(in), NEW turn, Discards(in, turn)
    PROVE  turn.rest \in Seq(S) /\ turn.say = "nothing" /\ Idle(turn.rest, turn.discarding)
<1>1. PICK n \in 1 .. Len(in) :
          turn.rest = From(in, n) /\ turn.say = "nothing" /\ (turn.discarding <=> n # Len(in))
  <2>1. AtFirst(in, Len(in))
    BY DEF Rest
  <2> QED BY <2>1, ServeRest
<1>2. From(in, n) \in Seq(S) /\ Len(From(in, n)) = Len(in) - n
  BY Cut
<1>3. CASE n = Len(in)
  <2>1. From(in, n) = <<>>
    BY <1>2, <1>3
  <2> QED BY <1>1, <1>2, <1>3, <2>1 DEF Idle
<1>4. CASE n # Len(in)
  <2>1. Rest(From(in, n))
    <3> DEFINE rest == From(in, n)
    <3>1. /\ rest \in Seq(S) /\ Len(rest) = Len(in) - n
          /\ \A i \in 1 .. Len(in) - n : rest[i] = in[n + i]
      BY Cut
    <3>2. in[Len(in)] = LF /\ \A i \in 1 .. Len(in) - 1 : in[i] # LF
      BY DEF Rest, AtFirst
    <3> HIDE DEF rest
    <3>3. Len(in) - n \in Nat /\ Len(in) - n > 0 /\ n \in Nat /\ Len(in) \in Nat
      BY <1>4
    <3>4. rest[Len(in) - n] = LF
      BY <3>1, <3>2, <3>3
    <3>5. ASSUME NEW i \in 1 .. (Len(in) - n) - 1 PROVE rest[i] # LF
      <4>1. i \in 1 .. Len(in) - n /\ n + i \in 1 .. Len(in) - 1
        BY <3>3
      <4> QED BY <3>1, <3>2, <4>1
    <3>6. Rest(rest)
      BY <3>1, <3>3, <3>4, <3>5 DEF Rest, AtFirst
    <3> QED BY <3>6 DEF rest
  <2> QED BY <1>1, <1>2, <1>4, <2>1 DEF Idle
<1> QED BY <1>3, <1>4

LEMMA ServePending ==
    ASSUME NEW S, NEW in \in Seq(S), NEW r, Pending(in, TRUE, r),
           NEW turn, Discards(in, turn)
    PROVE  turn.rest \in Seq(S) /\ turn.say = "nothing" /\ Pending(turn.rest, turn.discarding, r)
<1>1. PICK m \in Nat : /\ AtFirst(in, m) /\ Len(in) > m + 1 /\ in[Len(in)] = LF
                       /\ \A i \in m + 1 .. Len(in) - 1 : in[i] = r
  BY DEF Pending
<1>2. PICK n \in 1 .. m :
          turn.rest = From(in, n) /\ turn.say = "nothing" /\ (turn.discarding <=> n # m)
  <2>1. \E n \in 1 .. m : /\ turn.rest = From(in, n) /\ turn.say = "nothing"
                          /\ (turn.discarding <=> n # m)
    BY <1>1, ServeRest
  <2> QED BY <2>1
<1> DEFINE rest == From(in, n)
<1>3. n \in 1 .. Len(in) /\ n \in Nat /\ n <= m /\ Len(in) \in Nat
  BY <1>1
<1>4. /\ rest \in Seq(S) /\ Len(rest) = Len(in) - n
      /\ \A i \in 1 .. Len(in) - n : rest[i] = in[n + i]
  BY <1>3, Cut
<1> HIDE DEF rest
<1>5. CASE n = m
  <2>1. Record(rest, r)
    <3>1. Len(rest) > 1 /\ rest[Len(rest)] = LF
      BY <1>1, <1>3, <1>4, <1>5
    <3>2. ASSUME NEW i \in 1 .. Len(rest) - 1 PROVE rest[i] = r
      <4>1. i \in 1 .. Len(in) - n /\ n + i \in m + 1 .. Len(in) - 1
        BY <1>1, <1>3, <1>4, <1>5
      <4> QED BY <1>1, <1>4, <4>1
    <3> QED BY <3>1, <3>2 DEF Record
  <2> QED BY <1>2, <1>4, <1>5, <2>1 DEF Pending, rest
<1>6. CASE n # m
  <2>1. AtFirst(rest, m - n) /\ m - n \in Nat
    BY <1>1, <1>3, <1>4, <1>6 DEF AtFirst
  <2>2. Len(rest) > (m - n) + 1 /\ rest[Len(rest)] = LF
    BY <1>1, <1>3, <1>4, <1>6
  <2>3. \A i \in (m - n) + 1 .. Len(rest) - 1 : rest[i] = r
    BY <1>1, <1>3, <1>4, <1>6
  <2>4. turn.discarding => Pending(rest, turn.discarding, r)
    BY <2>1, <2>2, <2>3 DEF Pending
  <2> QED BY <1>2, <1>4, <1>6, <2>4 DEF rest
<1> QED BY <1>5, <1>6

-----------------------------------------------------------------------------
(* A client and its worker.                                                *)

Requests == Calls \cup {Lookup}

IsClient(c) ==
    /\ c = [root |-> c.root, closed |-> c.closed, queue |-> c.queue, running |-> c.running,
            alive |-> c.alive, cut |-> c.cut, in |-> c.in, discarding |-> c.discarding,
            out |-> c.out, focus |-> c.focus]
    /\ c.root \in Roots /\ c.queue \in Seq(Requests) /\ c.in \in Seq(Requests \cup {LF})
    /\ c.closed \in BOOLEAN /\ c.running \in BOOLEAN /\ c.alive \in BOOLEAN
    /\ c.discarding \in BOOLEAN

(* Whatever was refused or given up before, a worker owes an answer to the *)
(* head of its queue only: the request is still to be read, or its answer  *)
(* is, and nothing else but the rest of a refused record is on the way.    *)
IsSaidOf(line, r) == line.kind = "response" => line.of = r
NothingOwed(c) == c.out = <<>> /\ (c.alive => Idle(c.in, c.discarding))
Owes(c) ==
    \/ c.out = <<>> /\ (c.alive => Pending(c.in, c.discarding, Head(c.queue)))
    \/ /\ \E line : c.out = <<line>> /\ IsSaidOf(line, Head(c.queue))
       /\ c.alive => Idle(c.in, c.discarding)
ClientOK(c) ==
    /\ IsClient(c)
    /\ c.closed => ~c.alive /\ c.out = <<>>
    /\ IF c.running THEN c.queue # <<>> /\ Owes(c) ELSE NothingOwed(c)

LEMMA CloseClientFacts ==
    ASSUME NEW c, IsClient(c), c.closed => ~c.alive /\ c.out = <<>>,
           NEW d, d = CloseClient(c)
    PROVE  /\ IsClient(d) /\ d.closed /\ ~d.alive /\ d.out = <<>> /\ d.root = c.root
           /\ d.queue = c.queue /\ (d.running <=> c.running)
<1>1. CASE c.closed
  BY <1>1 DEF CloseClient
<1>2. CASE ~c.closed
  <2>1. d = [c EXCEPT !.closed = TRUE, !.alive = FALSE, !.in = <<>>, !.out = <<>>, !.cut = FALSE]
    BY <1>2 DEF CloseClient
  <2>2. d = [root |-> c.root, closed |-> TRUE, queue |-> c.queue, running |-> c.running,
             alive |-> FALSE, cut |-> FALSE, in |-> <<>>, discarding |-> c.discarding,
             out |-> <<>>, focus |-> c.focus]
    BY <2>1 DEF IsClient
  <2> QED BY <2>2 DEF IsClient
<1> QED BY <1>1, <1>2

LEMMA CloseClientOK == ASSUME NEW c, ClientOK(c) PROVE ClientOK(CloseClient(c))
<1> DEFINE d == CloseClient(c)
<1>1. IsClient(c) /\ (c.closed => ~c.alive /\ c.out = <<>>)
  BY DEF ClientOK
<1>2. /\ IsClient(d) /\ d.closed /\ ~d.alive /\ d.out = <<>> /\ d.queue = c.queue
      /\ (d.running <=> c.running)
  BY <1>1, CloseClientFacts
<1> HIDE DEF d
<1>3. c.running => c.queue # <<>>
  BY DEF ClientOK
<1> QED BY <1>2, <1>3 DEF ClientOK, Owes, NothingOwed, d

LEMMA EnqueueOK ==
    ASSUME NEW c, ClientOK(c), NEW r \in Requests, NEW d, d = [c EXCEPT !.queue = Append(@, r)]
    PROVE  ClientOK(d) /\ d.root = c.root /\ (d.alive <=> c.alive)
<1> DEFINE q == Append(c.queue, r)
<1>1. IsClient(c) /\ c.queue \in Seq(Requests)
  BY DEF ClientOK, IsClient
<1>2. q \in Seq(Requests) /\ q # <<>> /\ (c.queue # <<>> => Head(q) = Head(c.queue))
  BY <1>1
<1>3. d = [c EXCEPT !.queue = q]
  OBVIOUS
<1> HIDE DEF q
<1>4. d = [root |-> c.root, closed |-> c.closed, queue |-> q, running |-> c.running,
           alive |-> c.alive, cut |-> c.cut, in |-> c.in, discarding |-> c.discarding,
           out |-> c.out, focus |-> c.focus]
  BY <1>1, <1>3 DEF IsClient
<1>5. /\ d.root = c.root /\ (d.closed <=> c.closed) /\ d.queue = q /\ (d.running <=> c.running)
      /\ (d.alive <=> c.alive) /\ d.in = c.in /\ (d.discarding <=> c.discarding) /\ d.out = c.out
      /\ IsClient(d)
  <2>1. /\ d.root = c.root /\ (d.closed <=> c.closed) /\ d.queue = q /\ (d.running <=> c.running)
        /\ (d.alive <=> c.alive) /\ d.in = c.in /\ (d.discarding <=> c.discarding)
        /\ d.out = c.out
    BY <1>4
  <2>2. /\ d = [root |-> d.root, closed |-> d.closed, queue |-> d.queue, running |-> d.running,
               alive |-> d.alive, cut |-> d.cut, in |-> d.in, discarding |-> d.discarding,
               out |-> d.out, focus |-> d.focus]
        /\ d.closed \in BOOLEAN /\ d.running \in BOOLEAN /\ d.alive \in BOOLEAN
        /\ d.discarding \in BOOLEAN
    BY <1>1, <1>4 DEF IsClient
  <2> QED BY <1>1, <1>2, <2>1, <2>2 DEF IsClient
<1>6. d.discarding = c.discarding
  BY <1>1, <1>5 DEF IsClient
<1> QED BY <1>1, <1>2, <1>5, <1>6 DEF ClientOK, Owes, NothingOwed

LEMMA FreedFacts ==
    ASSUME NEW c, IsClient(c), NEW q \in Seq(Requests),
           NEW d, d = [root |-> c.root, closed |-> c.closed, queue |-> q, running |-> FALSE,
                       alive |-> c.alive, cut |-> c.cut, in |-> c.in, discarding |-> c.discarding,
                       out |-> c.out, focus |-> c.focus]
    PROVE  /\ d.root = c.root /\ (d.closed <=> c.closed) /\ d.queue = q /\ ~d.running
           /\ (d.alive <=> c.alive) /\ d.in = c.in /\ (d.discarding <=> c.discarding) /\ d.out = c.out
           /\ IsClient(d)
BY DEF IsClient

(* Settling a request that owes nothing frees the client.                  *)
Settling(c) == IsClient(c) /\ c.queue # <<>> /\ NothingOwed(c) /\ (c.closed => ~c.alive)
LEMMA DequeueOK ==
    ASSUME NEW c, Settling(c), NEW d, d = [c EXCEPT !.running = FALSE, !.queue = Tail(@)]
    PROVE  ClientOK(d) /\ d.root = c.root /\ (d.alive <=> c.alive)
<1> DEFINE q == Tail(c.queue)
<1>1. IsClient(c) /\ c.queue \in Seq(Requests) /\ c.queue # <<>>
  BY DEF Settling, IsClient
<1>2. q \in Seq(Requests)
  BY <1>1
<1>3. d = [c EXCEPT !.running = FALSE, !.queue = q]
  OBVIOUS
<1> HIDE DEF q
<1>4. d = [root |-> c.root, closed |-> c.closed, queue |-> q, running |-> FALSE,
           alive |-> c.alive, cut |-> c.cut, in |-> c.in, discarding |-> c.discarding,
           out |-> c.out, focus |-> c.focus]
  BY <1>1, <1>3 DEF IsClient
<1>5. /\ d.root = c.root /\ (d.closed <=> c.closed) /\ d.queue = q /\ ~d.running
      /\ (d.alive <=> c.alive) /\ d.in = c.in /\ (d.discarding <=> c.discarding) /\ d.out = c.out
      /\ IsClient(d)
  BY <1>1, <1>2, <1>4, FreedFacts
<1>6. d.discarding = c.discarding
  BY <1>1, <1>5 DEF IsClient
<1> QED BY <1>1, <1>5, <1>6 DEF ClientOK, Settling, NothingOwed

LEMMA BytesRecord ==
    ASSUME NEW r \in Requests
    PROVE  /\ Bytes(r) \in Seq(Requests)
           /\ Bytes(r) \o <<LF>> \in Seq(Requests \cup {LF}) /\ Record(Bytes(r) \o <<LF>>, r)
           /\ r \notin {LF, CR}
<1>1. PICK n \in Nat \ {0} : Bytes(r) = [i \in 1 .. n |-> r]
  <2>1. CASE r = Lookup
    <3>1. Bytes(r) = [i \in 1 .. 1 |-> r]
      BY <2>1 DEF Bytes
    <3> QED BY <3>1
  <2>2. CASE r # Lookup
    BY <2>2, RequestAssumption DEF Bytes, Requests
  <2> QED BY <2>1, <2>2
<1>2. r \notin {LF, CR}
  BY RequestAssumption DEF Requests
<1> DEFINE b == Bytes(r)
           t == b \o <<LF>>
<1>3. b \in Seq(Requests) /\ Len(b) = n /\ \A i \in 1 .. n : b[i] = r
  BY <1>1
<1> HIDE DEF b
<1>4. /\ t \in Seq(Requests \cup {LF}) /\ Len(t) = n + 1 /\ t[n + 1] = LF
      /\ \A i \in 1 .. n : t[i] = r
  BY <1>3
<1> HIDE DEF t
<1>5. Record(t, r)
  BY <1>4 DEF Record
<1> QED BY <1>2, <1>3, <1>4, <1>5 DEF t, b

LEMMA RunningFacts ==
    ASSUME NEW c, IsClient(c), NEW in \in Seq(Requests \cup {LF}),
           NEW d, d = [root |-> c.root, closed |-> c.closed, queue |-> c.queue, running |-> TRUE,
                       alive |-> c.alive, cut |-> c.cut, in |-> in, discarding |-> c.discarding,
                       out |-> c.out, focus |-> c.focus]
    PROVE  /\ d.root = c.root /\ (d.closed <=> c.closed) /\ d.queue = c.queue /\ d.running
           /\ (d.alive <=> c.alive) /\ d.in = in /\ (d.discarding <=> c.discarding) /\ d.out = c.out
           /\ IsClient(d)
BY DEF IsClient

LEMMA Joined ==
    ASSUME NEW r \in Requests, NEW in \in Seq(Requests \cup {LF})
    PROVE  in \o Bytes(r) \o <<LF>> = in \o (Bytes(r) \o <<LF>>)
<1> DEFINE b == Bytes(r)
           S == Requests \cup {LF}
<1>1. b \in Seq(S) /\ <<LF>> \in Seq(S)
  BY BytesRecord
<1> HIDE DEF b
<1> QED BY <1>1, ConcatAssociative DEF b

(* The request follows what a worker has not read of a refused one.        *)
LEMMA TurnOK ==
    ASSUME NEW c, ClientOK(c), ~c.running, ~c.closed, c.queue # <<>>,
           NEW d, d = [c EXCEPT !.running = TRUE, !.in = @ \o Bytes(Head(c.queue)) \o <<LF>>]
    PROVE  ClientOK(d) /\ d.root = c.root /\ (d.alive <=> c.alive)
<1> DEFINE r == Head(c.queue)
           record == Bytes(r) \o <<LF>>
           in == c.in \o Bytes(r) \o <<LF>>
<1>1. IsClient(c) /\ NothingOwed(c) /\ c.in \in Seq(Requests \cup {LF}) /\ c.queue \in Seq(Requests)
  BY DEF ClientOK, IsClient
<1>2. r \in Requests
  BY <1>1
<1> HIDE DEF r
<1>3. record \in Seq(Requests \cup {LF}) /\ Record(record, r) /\ r \notin {LF, CR}
  BY <1>2, BytesRecord
<1>4. in = c.in \o record
  BY <1>1, <1>2, Joined
<1>5. d = [c EXCEPT !.running = TRUE, !.in = in]
  BY DEF r
<1> HIDE DEF record, in
<1>6. d = [root |-> c.root, closed |-> c.closed, queue |-> c.queue, running |-> TRUE,
           alive |-> c.alive, cut |-> c.cut, in |-> in, discarding |-> c.discarding,
           out |-> c.out, focus |-> c.focus]
  BY <1>1, <1>5 DEF IsClient
<1>7. in \in Seq(Requests \cup {LF})
  BY <1>1, <1>3, <1>4
<1>8. /\ d.root = c.root /\ (d.closed <=> c.closed) /\ d.queue = c.queue /\ d.running
      /\ (d.alive <=> c.alive) /\ d.in = in /\ (d.discarding <=> c.discarding) /\ d.out = c.out
      /\ IsClient(d)
  BY <1>1, <1>6, <1>7, RunningFacts
<1>9. ASSUME c.alive PROVE Pending(in, c.discarding, r)
  <2>1. Idle(c.in, c.discarding)
    BY <1>1, <1>9 DEF NothingOwed
  <2>2. CASE ~c.discarding
    <3>1. c.in = <<>>
      BY <2>1, <2>2 DEF Idle
    <3>2. in = record
      BY <1>3, <1>4, <3>1
    <3> QED BY <1>3, <2>2, <3>2 DEF Pending
  <2>3. CASE c.discarding
    <3> DEFINE m == Len(c.in)
               n == Len(record)
    <3>1. AtFirst(c.in, m)
      BY <2>1, <2>3 DEF Idle, Rest
    <3>2. /\ Len(in) = m + n /\ \A i \in 1 .. m : in[i] = c.in[i]
          /\ \A i \in 1 .. n : in[m + i] = record[i]
      BY <1>1, <1>3, <1>4
    <3>3. m \in Nat /\ m > 0 /\ n \in Nat /\ n > 1 /\ record[n] = LF /\ \A i \in 1 .. n - 1 : record[i] = r
      BY <1>3, <3>1 DEF AtFirst, Record
    <3> HIDE DEF m, n
    <3>4. AtFirst(in, m)
      <4>1. c.in[m] = LF /\ \A i \in 1 .. m - 1 : c.in[i] # LF
      BY <3>1 DEF AtFirst
    <4>2. in[m] = LF /\ \A i \in 1 .. m - 1 : in[i] # LF
      BY <3>2, <3>3, <4>1
    <4> QED BY <3>2, <3>3, <4>2 DEF AtFirst
    <3>5. Len(in) > m + 1 /\ in[Len(in)] = LF
      BY <3>2, <3>3
    <3>6. ASSUME NEW i \in m + 1 .. Len(in) - 1 PROVE in[i] = r
      <4>1. i - m \in 1 .. n - 1 /\ i = m + (i - m)
        BY <3>2, <3>3
      <4> QED BY <3>2, <3>3, <4>1
    <3> QED BY <2>3, <3>3, <3>4, <3>5, <3>6 DEF Pending
  <2> QED BY <1>1, <2>2, <2>3 DEF IsClient
<1>10. d.discarding = c.discarding
  BY <1>1, <1>8 DEF IsClient
<1> QED BY <1>1, <1>8, <1>9, <1>10 DEF ClientOK, Owes, NothingOwed, r

-----------------------------------------------------------------------------
(* Sequences of clients.                                                   *)

LEMMA OwnRange == ASSUME NEW S, NEW s \in Seq(S) PROVE s \in Seq(Range(s))
BY DEF Range

IsPut(t, s, k, v) == t = [s EXCEPT ![k] = v]
LEMMA Replaced ==
    ASSUME NEW s, s \in Seq(Range(s)), NEW k \in DOMAIN s, NEW v, NEW t, IsPut(t, s, k, v)
    PROVE  /\ t \in Seq(Range(t)) /\ Len(t) = Len(s) /\ DOMAIN t = DOMAIN s /\ t[k] = v
           /\ \A j \in DOMAIN s \ {k} : t[j] = s[j]
<1> DEFINE S == Range(s) \cup {v}
<1>1. s \in Seq(S)
  OBVIOUS
<1> HIDE DEF S
<1>2. v \in S
  BY DEF S
<1>3. t \in Seq(S) /\ Len(t) = Len(s) /\ DOMAIN t = DOMAIN s
  BY <1>1, <1>2 DEF IsPut
<1>4. t[k] = v /\ \A j \in DOMAIN s \ {k} : t[j] = s[j]
  BY <1>1 DEF IsPut
<1>5. t \in Seq(Range(t))
  BY <1>3, OwnRange
<1> QED BY <1>3, <1>4, <1>5

IsAppend(t, s, v) == t = Append(s, v)
Appends(t, s, v) ==
    /\ t \in Seq(Range(t)) /\ Len(t) = Len(s) + 1 /\ DOMAIN t = DOMAIN s \cup {Len(s) + 1}
    /\ t[Len(s) + 1] = v /\ \A j \in DOMAIN s : t[j] = s[j]
LEMMA Appended ==
    ASSUME NEW s, s \in Seq(Range(s)), NEW v, NEW t, IsAppend(t, s, v)
    PROVE  Appends(t, s, v)
<1> DEFINE S == Range(s) \cup {v}
<1>1. s \in Seq(S)
  OBVIOUS
<1> HIDE DEF S
<1>2. v \in S
  BY DEF S
<1>3. t \in Seq(S) /\ Len(t) = Len(s) + 1 /\ t[Len(s) + 1] = v /\ \A j \in 1 .. Len(s) : t[j] = s[j]
  BY <1>1, <1>2 DEF IsAppend
<1>4. DOMAIN t = 1 .. Len(s) + 1 /\ DOMAIN s = 1 .. Len(s) /\ Len(s) \in Nat
  BY <1>1, <1>3
<1>5. t \in Seq(Range(t))
  BY <1>3, OwnRange
<1> QED BY <1>3, <1>4, <1>5 DEF Appends

-----------------------------------------------------------------------------
(* The plugin: a call that is answered has its own answer, and a worker    *)
(* that runs is the one the map has for its root.                          *)

CallsOK(c) ==
    /\ DOMAIN c = Calls
    /\ \A x \in Calls : /\ c[x] = [state |-> c[x].state, aborted |-> c[x].aborted, of |-> c[x].of]
                        /\ c[x].state = "response" => c[x].of = x
CompactionOK(c, n) ==
    /\ c = [phase |-> c.phase, left |-> c.left, restored |-> c.restored]
    /\ \A entry \in c.left : entry[2] \in 1 .. n
IsPlugin(p) ==
    p = [clients |-> p.clients, workers |-> p.workers, compaction |-> p.compaction, calls |-> p.calls]
Shape(p) ==
    /\ IsPlugin(p) /\ p.clients \in Seq(Range(p.clients))
    /\ p.workers \in [Roots -> Nat] /\ \A r \in Roots : p.workers[r] <= Len(p.clients)
    /\ CallsOK(p.calls) /\ CompactionOK(p.compaction, Len(p.clients))
IsFound(p, k) == p.clients[k].alive => p.workers[p.clients[k].root] = k
PluginOK(p) ==
    Shape(p) /\ \A k \in DOMAIN p.clients : ClientOK(p.clients[k]) /\ IsFound(p, k)

(* No worker starts between p and q.                                       *)
Quieter(p, q) ==
    /\ DOMAIN q.clients = DOMAIN p.clients
    /\ \A k \in DOMAIN p.clients : q.clients[k].alive => p.clients[k].alive

LEMMA QuieterTwice ==
    ASSUME NEW p, NEW q, NEW s, Quieter(p, q), Quieter(q, s) PROVE Quieter(p, s)
BY DEF Quieter

(* One field of the plugin changes.                                        *)
PutClients(q, p, v) == q = [p EXCEPT !.clients = v]
PutWorkers(q, p, v) == q = [p EXCEPT !.workers = v]
PutCompaction(q, p, v) == q = [p EXCEPT !.compaction = v]
PutCalls(q, p, v) == q = [p EXCEPT !.calls = v]
LEMMA WithClients ==
    ASSUME NEW p, IsPlugin(p), NEW v, NEW q, PutClients(q, p, v)
    PROVE  /\ IsPlugin(q) /\ q.clients = v /\ q.workers = p.workers
           /\ q.compaction = p.compaction /\ q.calls = p.calls
<1>1. q = [clients |-> v, workers |-> p.workers, compaction |-> p.compaction, calls |-> p.calls]
  BY DEF IsPlugin, PutClients
<1> QED BY <1>1 DEF IsPlugin
LEMMA WithWorkers ==
    ASSUME NEW p, IsPlugin(p), NEW v, NEW q, PutWorkers(q, p, v)
    PROVE  /\ IsPlugin(q) /\ q.clients = p.clients /\ q.workers = v
           /\ q.compaction = p.compaction /\ q.calls = p.calls
<1>1. q = [clients |-> p.clients, workers |-> v, compaction |-> p.compaction, calls |-> p.calls]
  BY DEF IsPlugin, PutWorkers
<1> QED BY <1>1 DEF IsPlugin
LEMMA WithCompaction ==
    ASSUME NEW p, IsPlugin(p), NEW v, NEW q, PutCompaction(q, p, v)
    PROVE  /\ IsPlugin(q) /\ q.clients = p.clients /\ q.workers = p.workers
           /\ q.compaction = v /\ q.calls = p.calls
<1>1. q = [clients |-> p.clients, workers |-> p.workers, compaction |-> v, calls |-> p.calls]
  BY DEF IsPlugin, PutCompaction
<1> QED BY <1>1 DEF IsPlugin
LEMMA WithCalls ==
    ASSUME NEW p, IsPlugin(p), NEW v, NEW q, PutCalls(q, p, v)
    PROVE  /\ IsPlugin(q) /\ q.clients = p.clients /\ q.workers = p.workers
           /\ q.compaction = p.compaction /\ q.calls = v
<1>1. q = [clients |-> p.clients, workers |-> p.workers, compaction |-> p.compaction, calls |-> v]
  BY DEF IsPlugin, PutCalls
<1> QED BY <1>1 DEF IsPlugin

(* One client changes; nothing need be known of how it was.                *)
LEMMA SetClient ==
    ASSUME NEW p, Shape(p), NEW k \in DOMAIN p.clients,
           \A j \in DOMAIN p.clients \ {k} : ClientOK(p.clients[j]) /\ IsFound(p, j),
           NEW v, ClientOK(v), v.alive => p.workers[v.root] = k,
           v.alive => p.clients[k].alive,
           NEW g, IsPut(g, p.clients, k, v), NEW q, PutClients(q, p, g)
    PROVE  PluginOK(q) /\ Quieter(p, q) /\ q.clients[k] = v /\ q.workers = p.workers
<1>1. p.clients \in Seq(Range(p.clients)) /\ IsPlugin(p)
  BY DEF Shape
<1>2. /\ g \in Seq(Range(g)) /\ Len(g) = Len(p.clients) /\ DOMAIN g = DOMAIN p.clients
      /\ g[k] = v /\ \A j \in DOMAIN p.clients \ {k} : g[j] = p.clients[j]
  BY <1>1, Replaced
<1>3. /\ IsPlugin(q) /\ q.clients = g /\ q.workers = p.workers
      /\ q.compaction = p.compaction /\ q.calls = p.calls
  BY <1>1, WithClients
<1>4. Shape(q)
  BY <1>2, <1>3 DEF Shape
<1>5. ASSUME NEW j \in DOMAIN q.clients PROVE ClientOK(q.clients[j]) /\ IsFound(q, j)
  <2>1. CASE j = k
    BY <1>2, <1>3, <2>1 DEF IsFound
  <2>2. CASE j # k
    BY <1>2, <1>3, <2>2 DEF IsFound
  <2> QED BY <2>1, <2>2
<1>6. Quieter(p, q)
  BY <1>2, <1>3 DEF Quieter
<1> QED BY <1>2, <1>3, <1>4, <1>5, <1>6 DEF PluginOK

LEMMA EnqueueKeeps ==
    ASSUME NEW p, PluginOK(p), NEW k \in DOMAIN p.clients, NEW r \in Requests,
           NEW q, q = Enqueue(p, k, r)
    PROVE  PluginOK(q) /\ Quieter(p, q)
<1> DEFINE c == p.clients[k]
           v == [c EXCEPT !.queue = Append(@, r)]
           g == [p.clients EXCEPT ![k] = v]
<1>1. ClientOK(c) /\ Shape(p)
  BY DEF PluginOK
<1>2. IsPut(g, p.clients, k, v) /\ PutClients(q, p, g)
  BY <1>1 DEF Enqueue, Shape, IsPlugin, IsPut, PutClients
<1> HIDE DEF v, g
<1>3. ClientOK(v) /\ v.root = c.root /\ (v.alive <=> c.alive)
  BY <1>1, EnqueueOK DEF v
<1>4. v.alive => p.workers[v.root] = k
  BY <1>3 DEF PluginOK, IsFound
<1> QED BY <1>1, <1>2, <1>3, <1>4, SetClient DEF PluginOK

LEMMA CloseKeeps ==
    ASSUME NEW p, PluginOK(p), NEW k \in DOMAIN p.clients, NEW q, q = Close(p, k)
    PROVE  /\ PluginOK(q) /\ Quieter(p, q) /\ q.workers = p.workers
           /\ ~q.clients[k].alive /\ q.clients[k].out = <<>>
           /\ q.clients[k].queue = p.clients[k].queue /\ q.clients[k].root = p.clients[k].root
<1> DEFINE c == p.clients[k]
           v == CloseClient(c)
           g == [p.clients EXCEPT ![k] = v]
<1>1. ClientOK(c) /\ Shape(p)
  BY DEF PluginOK
<1>2. IsPut(g, p.clients, k, v) /\ PutClients(q, p, g)
  BY <1>1 DEF Close, Shape, IsPlugin, IsPut, PutClients
<1> HIDE DEF v, g
<1>3. ClientOK(v)
  BY <1>1, CloseClientOK DEF v
<1>4. ~v.alive /\ v.out = <<>> /\ v.queue = c.queue /\ v.root = c.root
  BY <1>1, CloseClientFacts DEF v, ClientOK
<1>5. PluginOK(q) /\ Quieter(p, q) /\ q.clients[k] = v /\ q.workers = p.workers
  <2>1. \A j \in DOMAIN p.clients \ {k} : ClientOK(p.clients[j]) /\ IsFound(p, j)
    BY DEF PluginOK
  <2>2. (v.alive => p.workers[v.root] = k) /\ (v.alive => p.clients[k].alive)
    BY <1>4
  <2> QED BY <1>1, <1>2, <1>3, <2>1, <2>2, SetClient
<1> QED BY <1>4, <1>5

LEMMA RemoveClientKeeps ==
    ASSUME NEW p, PluginOK(p), NEW root \in Roots, NEW q, q = RemoveClient(p, root)
    PROVE  PluginOK(q) /\ Quieter(p, q)
<1> DEFINE w == p.workers[root]
<1>1. CASE w = 0
  BY <1>1 DEF RemoveClient, Quieter
<1>2. CASE w # 0
  <2> DEFINE s == Close(p, w)
             g == [s.workers EXCEPT ![root] = 0]
  <2>1. w \in DOMAIN p.clients
    BY <1>2 DEF PluginOK, Shape
  <2> HIDE DEF w
  <2>2. PluginOK(s) /\ Quieter(p, s) /\ s.workers = p.workers /\ ~s.clients[w].alive
    BY <2>1, CloseKeeps
  <2>3. PutWorkers(q, s, g)
    BY <1>2, <2>2 DEF RemoveClient, PluginOK, Shape, IsPlugin, w, PutWorkers
  <2> HIDE DEF s
  <2>4. /\ g \in [Roots -> Nat] /\ g[root] = 0
        /\ \A r \in Roots \ {root} : g[r] = s.workers[r]
    BY <2>2 DEF PluginOK, Shape
  <2> HIDE DEF g
  <2>5. /\ IsPlugin(q) /\ q.clients = s.clients /\ q.workers = g
        /\ q.compaction = s.compaction /\ q.calls = s.calls
    <3>1. IsPlugin(s)
      BY <2>2 DEF PluginOK, Shape
    <3> QED BY <2>3, <3>1, WithWorkers
  <2>6. Shape(q)
    <3>1. Len(s.clients) \in Nat
      BY <2>2 DEF PluginOK, Shape
    <3>2. \A r \in Roots : g[r] <= Len(s.clients)
      BY <2>2, <2>4, <3>1 DEF PluginOK, Shape
    <3> QED BY <2>2, <2>4, <2>5, <3>2 DEF PluginOK, Shape
  <2>7. ASSUME NEW j \in DOMAIN s.clients, s.clients[j].alive PROVE g[s.clients[j].root] = j
    <3>1. /\ s.workers[s.clients[j].root] = j /\ s.clients[j].root \in Roots /\ j # w
      BY <2>2, <2>7 DEF PluginOK, IsFound, ClientOK, IsClient
    <3> QED BY <2>2, <2>4, <3>1 DEF w
  <2>8. PluginOK(q)
    BY <2>2, <2>5, <2>6, <2>7 DEF PluginOK, IsFound
  <2> QED BY <2>2, <2>5, <2>8 DEF Quieter
<1> QED BY <1>1, <1>2

-----------------------------------------------------------------------------
(* What is told of a request that is settled.                              *)

LEMMA CompactionKeeps ==
    ASSUME NEW p, PluginOK(p), NEW v, CompactionOK(v, Len(p.clients)), NEW q, PutCompaction(q, p, v)
    PROVE  PluginOK(q) /\ Quieter(p, q) /\ q.clients = p.clients
<1>1. Shape(p) /\ IsPlugin(p)
  BY DEF PluginOK, Shape
<1>2. /\ IsPlugin(q) /\ q.clients = p.clients /\ q.workers = p.workers
      /\ q.compaction = v /\ q.calls = p.calls
  BY <1>1, WithCompaction
<1>3. Shape(q)
  BY <1>1, <1>2 DEF Shape
<1>4. \A j \in DOMAIN q.clients : ClientOK(q.clients[j]) /\ IsFound(q, j)
  BY <1>2 DEF PluginOK, IsFound
<1> QED BY <1>2, <1>3, <1>4 DEF PluginOK, Quieter

LEMMA CallsKeep ==
    ASSUME NEW p, PluginOK(p), NEW v, CallsOK(v), NEW q, PutCalls(q, p, v)
    PROVE  /\ PluginOK(q) /\ Quieter(p, q) /\ q.clients = p.clients /\ q.workers = p.workers
           /\ q.compaction = p.compaction /\ q.calls = v
<1>1. Shape(p) /\ IsPlugin(p)
  BY DEF PluginOK, Shape
<1>2. /\ IsPlugin(q) /\ q.clients = p.clients /\ q.workers = p.workers
      /\ q.compaction = p.compaction /\ q.calls = v
  BY <1>1, WithCalls
<1>3. Shape(q)
  BY <1>1, <1>2 DEF Shape
<1>4. \A j \in DOMAIN q.clients : ClientOK(q.clients[j]) /\ IsFound(q, j)
  BY <1>2 DEF PluginOK, IsFound
<1> QED BY <1>2, <1>3, <1>4 DEF PluginOK, Quieter

LEMMA PhaseOK ==
    ASSUME NEW n, NEW c, CompactionOK(c, n), NEW phase, NEW restored
    PROVE  /\ CompactionOK([c EXCEPT !.phase = phase], n)
           /\ CompactionOK([c EXCEPT !.phase = phase, !.restored = restored], n)
           /\ [c EXCEPT !.phase = phase].left = c.left
<1>1. c = [phase |-> c.phase, left |-> c.left, restored |-> c.restored]
  BY DEF CompactionOK
<1>2. [c EXCEPT !.phase = phase] = [phase |-> phase, left |-> c.left, restored |-> c.restored]
  BY <1>1
<1>3. [c EXCEPT !.phase = phase, !.restored = restored]
          = [phase |-> phase, left |-> c.left, restored |-> restored]
  <2> DEFINE a == [c EXCEPT !.phase = phase]
  <2>1. [c EXCEPT !.phase = phase, !.restored = restored] = [a EXCEPT !.restored = restored]
    OBVIOUS
  <2>2. a = [phase |-> phase, left |-> c.left, restored |-> c.restored]
    BY <1>2
  <2> HIDE DEF a
  <2>3. [a EXCEPT !.restored = restored] = [phase |-> phase, left |-> c.left, restored |-> restored]
    BY <2>2
  <2> QED BY <2>1, <2>3
<1> QED BY <1>2, <1>3 DEF CompactionOK

LEMMA NextRootKeeps ==
    ASSUME NEW p, PluginOK(p), NEW q, q = NextRoot(p)
    PROVE  PluginOK(q) /\ Quieter(p, q)
<1>1. PICK phase : q = [p EXCEPT !.compaction.phase = phase]
  BY DEF NextRoot
<1> DEFINE v == [p.compaction EXCEPT !.phase = phase]
<1>2. PutCompaction(q, p, v)
  BY <1>1 DEF PutCompaction, PluginOK, Shape, IsPlugin
<1>3. CompactionOK(v, Len(p.clients))
  BY PhaseOK DEF PluginOK, Shape
<1> HIDE DEF v
<1> QED BY <1>2, <1>3, CompactionKeeps

LEMMA LookedKeeps ==
    ASSUME NEW p, PluginOK(p), NEW k \in DOMAIN p.clients, NEW result, NEW q, q = Looked(p, k, result)
    PROVE  PluginOK(q) /\ Quieter(p, q)
<1>1. \/ q = NextRoot(p)
      \/ q = [p EXCEPT !.compaction.phase = "done", !.compaction.restored = TRUE]
      \/ q = Enqueue([p EXCEPT !.compaction.phase = "inspect"], k, Lookup)
  BY DEF Looked
<1>2. CompactionOK(p.compaction, Len(p.clients))
  BY DEF PluginOK, Shape
<1>3. CASE q = NextRoot(p)
  BY <1>3, NextRootKeeps
<1>4. CASE q = [p EXCEPT !.compaction.phase = "done", !.compaction.restored = TRUE]
  <2> DEFINE yes == TRUE
             v == [p.compaction EXCEPT !.phase = "done", !.restored = yes]
  <2>1. PutCompaction(q, p, v)
    BY <1>4 DEF PutCompaction, PluginOK, Shape, IsPlugin
  <2> HIDE DEF yes
  <2>2. CompactionOK(v, Len(p.clients))
    BY <1>2, PhaseOK
  <2> HIDE DEF v
  <2> QED BY <2>1, <2>2, CompactionKeeps
<1>5. CASE q = Enqueue([p EXCEPT !.compaction.phase = "inspect"], k, Lookup)
  <2> DEFINE v == [p.compaction EXCEPT !.phase = "inspect"]
             s == [p EXCEPT !.compaction.phase = "inspect"]
  <2>1. PutCompaction(s, p, v)
    BY DEF PutCompaction, PluginOK, Shape, IsPlugin
  <2>2. CompactionOK(v, Len(p.clients))
    BY <1>2, PhaseOK
  <2>3. q = Enqueue(s, k, Lookup)
    BY <1>5
  <2> HIDE DEF v, s
  <2>4. PluginOK(s) /\ Quieter(p, s) /\ s.clients = p.clients
    BY <2>1, <2>2, CompactionKeeps
  <2>5. k \in DOMAIN s.clients /\ Lookup \in Requests
    BY <2>4 DEF Requests
  <2>6. PluginOK(q) /\ Quieter(s, q)
    BY <2>3, <2>4, <2>5, EnqueueKeeps
  <2> QED BY <2>4, <2>6, QuieterTwice
<1> QED BY <1>1, <1>3, <1>4, <1>5

LEMMA CallTold ==
    ASSUME NEW c, CallsOK(c), NEW r \in Calls, NEW state, NEW of, state = "response" => of = r,
           NEW d, d = [c EXCEPT ![r].state = state, ![r].of = of]
    PROVE  CallsOK(d)
<1>1. DOMAIN c = Calls /\ c[r] = [state |-> c[r].state, aborted |-> c[r].aborted, of |-> c[r].of]
  BY DEF CallsOK
<1> DEFINE told == [state |-> state, aborted |-> c[r].aborted, of |-> of]
<1>2. d = [c EXCEPT ![r] = told]
  <2> DEFINE a == [c[r] EXCEPT !.state = state]
             b == [c EXCEPT ![r] = a]
  <2>1. d = [b EXCEPT ![r] = [b[r] EXCEPT !.of = of]]
    OBVIOUS
  <2>2. a = [state |-> state, aborted |-> c[r].aborted, of |-> c[r].of]
    BY <1>1
  <2> HIDE DEF a
  <2>3. b[r] = a
    BY <1>1
  <2>4. d = [c EXCEPT ![r] = [a EXCEPT !.of = of]]
    BY <2>1, <2>3
  <2> HIDE DEF b
  <2>5. [a EXCEPT !.of = of] = told
    BY <2>2
  <2> QED BY <2>4, <2>5
<1>3. told.state = state /\ told.of = of
      /\ told = [state |-> told.state, aborted |-> told.aborted, of |-> told.of]
  OBVIOUS
<1> HIDE DEF told
<1>4. DOMAIN d = Calls /\ d[r] = told /\ \A x \in Calls \ {r} : d[x] = c[x]
  BY <1>1, <1>2
<1> QED BY <1>3, <1>4 DEF CallsOK

LEMMA ToldKeeps ==
    ASSUME NEW p, PluginOK(p), NEW k \in DOMAIN p.clients, NEW r \in Requests,
           NEW result, IsSaidOf(result, r), NEW q, q = Told(p, k, r, result)
    PROVE  PluginOK(q) /\ Quieter(p, q)
<1>1. CASE r = Lookup
  <2>1. q = Looked(p, k, result)
    BY <1>1 DEF Told
  <2> QED BY <2>1, LookedKeeps
<1>2. CASE r # Lookup
  <2> DEFINE v == [p.calls EXCEPT ![r].state = result.kind, ![r].of = result.of]
  <2>1. r \in Calls /\ CallsOK(p.calls)
    BY <1>2 DEF Requests, PluginOK, Shape
  <2>2. PutCalls(q, p, v)
    BY <1>2, <2>1 DEF Told, PutCalls, PluginOK, Shape, IsPlugin, CallsOK
  <2>3. CallsOK(v)
    BY <2>1, CallTold DEF IsSaidOf
  <2> HIDE DEF v
  <2> QED BY <2>2, <2>3, CallsKeep
<1> QED BY <1>1, <1>2

(* Settling a request, its client found or closed and forgotten, ends well *)
(* whatever state its client was in, provided nothing is owed to it.       *)
Settles(p, k) ==
    /\ Shape(p) /\ k \in DOMAIN p.clients /\ Settling(p.clients[k])
    /\ \A j \in DOMAIN p.clients : IsFound(p, j)
    /\ \A j \in DOMAIN p.clients \ {k} : ClientOK(p.clients[j])
LEMMA SettleKeeps ==
    ASSUME NEW p, NEW k, Settles(p, k), NEW result, IsSaidOf(result, Head(p.clients[k].queue)),
           NEW q, q = Settle(p, k, result)
    PROVE  PluginOK(q) /\ Quieter(p, q)
<1> DEFINE c == p.clients[k]
           v == [c EXCEPT !.running = FALSE, !.queue = Tail(@)]
           g == [p.clients EXCEPT ![k] = v]
           free == Dequeue(p, k, result)
           gone == RemoveClient(free, c.root)
           s == IF IsReusable(result) THEN free ELSE gone
           r == Head(c.queue)
<1>1. Shape(p) /\ k \in DOMAIN p.clients /\ Settling(c) /\ c.root \in Roots
  BY DEF Settles, Settling, IsClient
<1>2. IsPut(g, p.clients, k, v) /\ PutClients(free, p, g)
  BY <1>1 DEF Dequeue, Shape, IsPlugin, IsPut, PutClients
<1>3. r \in Requests
  BY <1>1 DEF Settling, IsClient
<1>4. q = Told(s, k, r, result)
  BY DEF Settle
<1>5. ClientOK(v) /\ v.root = c.root /\ (v.alive <=> c.alive)
  BY <1>1, DequeueOK
<1> HIDE DEF v, g, free, r
<1>6. PluginOK(free) /\ Quieter(p, free)
  <2>1. \A j \in DOMAIN p.clients \ {k} : ClientOK(p.clients[j]) /\ IsFound(p, j)
    BY DEF Settles
  <2>2. (v.alive => p.workers[v.root] = k) /\ (v.alive => p.clients[k].alive)
    BY <1>1, <1>5 DEF Settles, IsFound
  <2> QED BY <1>1, <1>2, <1>5, <2>1, <2>2, SetClient
<1>7. PluginOK(s) /\ Quieter(p, s)
  <2>1. CASE IsReusable(result)
    BY <1>6, <2>1
  <2>2. CASE ~IsReusable(result)
    <3>1. PluginOK(gone) /\ Quieter(free, gone)
      BY <1>1, <1>6, RemoveClientKeeps
    <3> QED BY <1>6, <2>2, <3>1, QuieterTwice
  <2> QED BY <2>1, <2>2
<1> HIDE DEF s
<1>8. k \in DOMAIN s.clients
  BY <1>1, <1>7 DEF Quieter
<1>9. PluginOK(q) /\ Quieter(s, q)
  BY <1>3, <1>4, <1>7, <1>8, ToldKeeps DEF r
<1> QED BY <1>7, <1>9, QuieterTwice

-----------------------------------------------------------------------------
(* The client: a turn of the queue, an answer, a timeout.                  *)

LEMMA SettlesNow ==
    ASSUME NEW p, PluginOK(p), NEW k \in DOMAIN p.clients,
           p.clients[k].queue # <<>>, NothingOwed(p.clients[k])
    PROVE  Settles(p, k)
BY DEF Settles, Settling, PluginOK, ClientOK

LEMMA FailureSaid == ASSUME NEW kind, kind # "response", NEW r PROVE IsSaidOf(Failure(kind), r)
<1>1. Failure(kind).kind = kind
  BY DEF Failure, Line
<1> QED BY <1>1 DEF IsSaidOf

LEMMA InterruptKeeps ==
    ASSUME NEW p, PluginOK(p), NEW k \in DOMAIN p.clients, p.clients[k].queue # <<>>,
           NEW q, q = Interrupt(p, k)
    PROVE  PluginOK(q) /\ Quieter(p, q)
<1> DEFINE s == Close(p, k)
           failure == Failure("transport")
<1>1. /\ PluginOK(s) /\ Quieter(p, s) /\ ~s.clients[k].alive /\ s.clients[k].out = <<>>
      /\ s.clients[k].queue = p.clients[k].queue
  BY CloseKeeps
<1>2. q = Settle(s, k, failure)
  BY DEF Interrupt
<1>3. IsSaidOf(failure, Head(s.clients[k].queue))
  BY FailureSaid
<1> HIDE DEF s, failure
<1>4. k \in DOMAIN s.clients /\ s.clients[k].queue # <<>> /\ NothingOwed(s.clients[k])
  BY <1>1 DEF Quieter, NothingOwed
<1>5. Settles(s, k)
  BY <1>1, <1>4, SettlesNow
<1>6. PluginOK(q) /\ Quieter(s, q)
  BY <1>2, <1>3, <1>5, SettleKeeps
<1> QED BY <1>1, <1>6, QuieterTwice

LEMMA FailKeeps ==
    ASSUME NEW p, PluginOK(p), NEW k \in DOMAIN p.clients, p.clients[k].queue # <<>>,
           NothingOwed(p.clients[k]), NEW kind, kind # "response",
           NEW q, q = Settle(p, k, Failure(kind))
    PROVE  PluginOK(q) /\ Quieter(p, q)
<1> DEFINE failure == Failure(kind)
<1>1. IsSaidOf(failure, Head(p.clients[k].queue)) /\ q = Settle(p, k, failure)
  BY FailureSaid
<1> HIDE DEF failure
<1>2. Settles(p, k)
  BY SettlesNow
<1> QED BY <1>1, <1>2, SettleKeeps

SessionInv ==
    PluginOK(plugin) /\ (session # "live" => \A k \in DOMAIN clients : ~clients[k].alive)
Calm == PluginOK(plugin') /\ Quieter(plugin, plugin')

LEMMA TurnCalm == ASSUME SessionInv, NEW k \in DOMAIN clients, Turn(k) PROVE Calm
<1> DEFINE c == plugin.clients[k]
           r == Head(c.queue)
<1>1. /\ PluginOK(plugin) /\ Shape(plugin) /\ IsPlugin(plugin) /\ k \in DOMAIN plugin.clients
      /\ c.queue # <<>> /\ ~c.running /\ ClientOK(c) /\ NothingOwed(c)
  BY DEF SessionInv, Turn, Ready, clients, PluginOK, ClientOK, Shape
<1>2. \/ c.closed /\ plugin' = Settle(plugin, k, Failure("transport"))
      \/ plugin' = Interrupt(plugin, k)
      \/ /\ ~c.closed
         /\ plugin' = [plugin EXCEPT !.clients[k].running = TRUE,
                                     !.clients[k].in = @ \o Bytes(r) \o <<LF>>]
  BY DEF Turn, clients
<1>3. CASE plugin' = Settle(plugin, k, Failure("transport"))
  BY <1>1, <1>3, FailKeeps DEF Calm
<1>4. CASE plugin' = Interrupt(plugin, k)
  BY <1>1, <1>4, InterruptKeeps DEF Calm
<1>5. CASE /\ ~c.closed
           /\ plugin' = [plugin EXCEPT !.clients[k].running = TRUE,
                                       !.clients[k].in = @ \o Bytes(r) \o <<LF>>]
  <2> DEFINE v == [c EXCEPT !.running = TRUE, !.in = @ \o Bytes(r) \o <<LF>>]
             g == [plugin.clients EXCEPT ![k] = v]
  <2>1. IsPut(g, plugin.clients, k, v) /\ PutClients(plugin', plugin, g)
    BY <1>1, <1>5 DEF IsPlugin, IsPut, PutClients
  <2>2. ClientOK(v) /\ v.root = c.root /\ (v.alive <=> c.alive)
    BY <1>1, <1>5, TurnOK
  <2> HIDE DEF v, g
  <2>3. \A j \in DOMAIN plugin.clients \ {k} : ClientOK(plugin.clients[j]) /\ IsFound(plugin, j)
    BY <1>1 DEF PluginOK
  <2>4. (v.alive => plugin.workers[v.root] = k) /\ (v.alive => plugin.clients[k].alive)
    BY <1>1, <2>2 DEF PluginOK, IsFound
  <2> QED BY <1>1, <2>1, <2>2, <2>3, <2>4, SetClient DEF Calm
<1> QED BY <1>2, <1>3, <1>4, <1>5

LEMMA WriteFailsCalm == ASSUME SessionInv, NEW k \in DOMAIN clients, WriteFails(k) PROVE Calm
<1>1. /\ PluginOK(plugin) /\ k \in DOMAIN plugin.clients /\ plugin.clients[k].queue # <<>>
      /\ plugin' = Interrupt(plugin, k)
  BY DEF SessionInv, WriteFails, Ready, clients
<1> QED BY <1>1, InterruptKeeps DEF Calm

LEMMA TimeoutCalm == ASSUME SessionInv, NEW k \in DOMAIN clients, Timeout(k) PROVE Calm
<1>1. /\ PluginOK(plugin) /\ k \in DOMAIN plugin.clients /\ plugin.clients[k].queue # <<>>
      /\ plugin' = Interrupt(plugin, k)
  BY DEF SessionInv, Timeout, clients, PluginOK, ClientOK
<1> QED BY <1>1, InterruptKeeps DEF Calm

LEMMA ReadEndCalm == ASSUME SessionInv, NEW k \in DOMAIN clients, ReadEnd(k) PROVE Calm
<1>1. PICK kind : kind # "response" /\ plugin' = Settle(plugin, k, Failure(kind))
  BY DEF ReadEnd
<1>2. /\ PluginOK(plugin) /\ k \in DOMAIN plugin.clients /\ plugin.clients[k].queue # <<>>
      /\ NothingOwed(plugin.clients[k])
  BY DEF SessionInv, ReadEnd, clients, PluginOK, ClientOK, NothingOwed
<1> QED BY <1>1, <1>2, FailKeeps DEF Calm

LEMMA TakenFacts ==
    ASSUME NEW c, IsClient(c), NEW out,
           NEW d, d = [root |-> c.root, closed |-> c.closed, queue |-> c.queue, running |-> c.running,
                       alive |-> c.alive, cut |-> c.cut, in |-> c.in, discarding |-> c.discarding,
                       out |-> out, focus |-> c.focus]
    PROVE  /\ d.root = c.root /\ (d.closed <=> c.closed) /\ d.queue = c.queue
           /\ (d.alive <=> c.alive) /\ d.in = c.in /\ (d.discarding <=> c.discarding)
           /\ d.out = out /\ IsClient(d)
BY DEF IsClient

(* An answer is read: nothing more is owed, and the request is settled.    *)
Takes(c, d) == c.running /\ c.out # <<>> /\ d = [c EXCEPT !.out = Tail(@)]
LEMMA AnswerTaken ==
    ASSUME NEW c, ClientOK(c), NEW d, Takes(c, d)
    PROVE  /\ Settling(d) /\ d.queue = c.queue /\ d.root = c.root /\ (d.alive <=> c.alive)
           /\ IsSaidOf(Head(c.out), Head(c.queue))
<1>1. IsClient(c) /\ c.queue # <<>> /\ (c.closed => ~c.alive)
  BY DEF ClientOK, Takes
<1>2. PICK line : c.out = <<line>> /\ IsSaidOf(line, Head(c.queue)) /\ (c.alive => Idle(c.in, c.discarding))
  BY DEF ClientOK, Owes, Takes
<1>3. Tail(c.out) = <<>> /\ Head(c.out) = line
  BY <1>2
<1>4. d = [root |-> c.root, closed |-> c.closed, queue |-> c.queue, running |-> c.running,
           alive |-> c.alive, cut |-> c.cut, in |-> c.in, discarding |-> c.discarding,
           out |-> <<>>, focus |-> c.focus]
  BY <1>1, <1>3 DEF IsClient, Takes
<1>5. /\ d.root = c.root /\ (d.closed <=> c.closed) /\ d.queue = c.queue
      /\ (d.alive <=> c.alive) /\ d.in = c.in /\ (d.discarding <=> c.discarding) /\ d.out = <<>>
      /\ IsClient(d)
  <2> DEFINE none == <<>>
  <2>1. d = [root |-> c.root, closed |-> c.closed, queue |-> c.queue, running |-> c.running,
             alive |-> c.alive, cut |-> c.cut, in |-> c.in, discarding |-> c.discarding,
             out |-> none, focus |-> c.focus]
    BY <1>4
  <2> HIDE DEF none
  <2>2. /\ d.root = c.root /\ (d.closed <=> c.closed) /\ d.queue = c.queue
        /\ (d.alive <=> c.alive) /\ d.in = c.in /\ (d.discarding <=> c.discarding) /\ d.out = none
        /\ IsClient(d)
    BY <1>1, <2>1, TakenFacts
  <2> QED BY <2>2 DEF none
<1>6. d.discarding = c.discarding
  BY <1>1, <1>5 DEF IsClient
<1> QED BY <1>1, <1>2, <1>3, <1>5, <1>6 DEF Settling, NothingOwed

LEMMA ReadCalm == ASSUME SessionInv, NEW k \in DOMAIN clients, Read(k) PROVE Calm
<1> DEFINE c == plugin.clients[k]
           v == [c EXCEPT !.out = Tail(@)]
           g == [plugin.clients EXCEPT ![k] = v]
           p == [plugin EXCEPT !.clients[k].out = Tail(@)]
           line == Head(c.out)
<1>1. /\ PluginOK(plugin) /\ Shape(plugin) /\ IsPlugin(plugin) /\ k \in DOMAIN plugin.clients
      /\ c.running /\ c.out # <<>> /\ ClientOK(c)
      /\ plugin.clients \in Seq(Range(plugin.clients))
  BY DEF SessionInv, Read, clients, PluginOK, Shape
<1>2. IsPut(g, plugin.clients, k, v) /\ PutClients(p, plugin, g)
  BY <1>1 DEF IsPlugin, IsPut, PutClients
<1>3. plugin' = Settle(p, k, line)
  BY DEF Read, clients
<1>4. /\ Settling(v) /\ v.queue = c.queue /\ v.root = c.root /\ (v.alive <=> c.alive)
      /\ IsSaidOf(line, Head(c.queue))
  BY <1>1, AnswerTaken DEF Takes
<1> HIDE DEF v, g, p, line
<1>5. /\ g \in Seq(Range(g)) /\ Len(g) = Len(plugin.clients) /\ DOMAIN g = DOMAIN plugin.clients
      /\ g[k] = v /\ \A j \in DOMAIN plugin.clients \ {k} : g[j] = plugin.clients[j]
  BY <1>1, <1>2, Replaced
<1>6. /\ IsPlugin(p) /\ p.clients = g /\ p.workers = plugin.workers
      /\ p.compaction = plugin.compaction /\ p.calls = plugin.calls
  BY <1>1, <1>2, WithClients
<1>7. Shape(p)
  BY <1>1, <1>5, <1>6 DEF Shape
<1>8. Settles(p, k)
  <2>1. \A j \in DOMAIN p.clients \ {k} : ClientOK(p.clients[j])
    BY <1>1, <1>5, <1>6 DEF PluginOK
  <2>2. ASSUME NEW j \in DOMAIN p.clients PROVE IsFound(p, j)
    <3>1. IsFound(plugin, j)
      BY <1>1, <1>5, <1>6 DEF PluginOK
    <3>2. CASE j = k
      BY <1>4, <1>5, <1>6, <3>1, <3>2 DEF IsFound
    <3>3. CASE j # k
      BY <1>5, <1>6, <3>1, <3>3 DEF IsFound
    <3> QED BY <3>2, <3>3
  <2> QED BY <1>1, <1>4, <1>5, <1>6, <1>7, <2>1, <2>2 DEF Settles
<1>9. Quieter(plugin, p)
  <2>1. \A j \in DOMAIN plugin.clients : p.clients[j].alive => plugin.clients[j].alive
    BY <1>4, <1>5, <1>6
  <2> QED BY <1>5, <1>6, <2>1 DEF Quieter
<1>10. PluginOK(plugin') /\ Quieter(p, plugin')
  <2>1. IsSaidOf(line, Head(p.clients[k].queue))
    BY <1>4, <1>5, <1>6
  <2> QED BY <1>3, <1>8, <2>1, SettleKeeps
<1> QED BY <1>9, <1>10, QuieterTwice DEF Calm

-----------------------------------------------------------------------------
(* The worker: it serves a turn of its input, or it dies.                  *)

LEMMA ServeSplit ==
    ASSUME NEW in, NEW discarding \in BOOLEAN, NEW turn, turn = ServeOne(in, discarding)
    PROVE  (discarding => Discards(in, turn)) /\ (~discarding => Reads(in, turn))
<1>1. CASE discarding = TRUE
  BY Zenon, <1>1 DEF Discards
<1>2. CASE discarding = FALSE
  BY Zenon, <1>2 DEF Reads
<1> QED BY <1>1, <1>2

LEMMA TurnIsBoolean ==
    ASSUME NEW in, NEW discarding \in BOOLEAN, NEW turn, turn = ServeOne(in, discarding)
    PROVE  turn.discarding \in BOOLEAN
<1>1. ASSUME NEW rest, NEW b \in BOOLEAN, NEW say, NEW text
      PROVE  Said(rest, b, say, text).discarding \in BOOLEAN
  BY DEF Said
<1>2. \E rest, say, text : \E b \in BOOLEAN : turn = Said(rest, b, say, text)
  <2> DEFINE record == ReadLine(in)
             b == ~Ends(record, LF)
  <2>1. b \in BOOLEAN /\ TRUE \in BOOLEAN /\ FALSE \in BOOLEAN
    BY DEF Ends
  <2> HIDE DEF b
  <2>2. \/ \E rest : turn = Said(rest, b, "nothing", <<>>)
        \/ \E rest : turn = Said(rest, TRUE, "request_too_large", <<>>)
        \/ \E rest, say, text : turn = Said(rest, FALSE, say, text)
    BY DEF ServeOne, Turned, Parsed, b
  <2> QED BY Zenon, <2>1, <2>2
<1> QED BY <1>1, <1>2

LEMMA ServedFacts ==
    ASSUME NEW c, IsClient(c), NEW turn, turn.rest \in Seq(Requests \cup {LF}),
           turn.discarding \in BOOLEAN, NEW out, NEW focus,
           NEW d, d = [root |-> c.root, closed |-> c.closed, queue |-> c.queue, running |-> c.running,
                       alive |-> c.alive, cut |-> c.cut, in |-> turn.rest,
                       discarding |-> turn.discarding, out |-> out, focus |-> focus]
    PROVE  /\ d.root = c.root /\ (d.closed <=> c.closed) /\ d.queue = c.queue
           /\ (d.running <=> c.running) /\ (d.alive <=> c.alive) /\ d.in = turn.rest
           /\ (d.discarding <=> turn.discarding) /\ d.out = out /\ IsClient(d)
BY DEF IsClient

Serves(c, turn, lines, d) ==
    /\ c.alive /\ c.in # <<>> /\ turn = ServeOne(c.in, c.discarding)
    /\ lines \in Output(Worker(c, turn), turn)
    /\ d = [Worker(c, turn) EXCEPT !.out = @ \o lines]
LEMMA Served ==
    ASSUME NEW c, IsClient(c), NEW turn, NEW lines, NEW d, Serves(c, turn, lines, d),
           turn.rest \in Seq(Requests \cup {LF}), turn.discarding \in BOOLEAN
    PROVE  /\ d.root = c.root /\ (d.closed <=> c.closed) /\ d.queue = c.queue
           /\ (d.running <=> c.running) /\ (d.alive <=> c.alive) /\ d.in = turn.rest
           /\ (d.discarding <=> turn.discarding) /\ d.out = c.out \o lines /\ IsClient(d)
<1> DEFINE focus == c.focus \/ (turn.say = "answer" /\ turn.text[1] \in Calls /\ Call[turn.text[1]].focus)
           w == Worker(c, turn)
           out == c.out \o lines
<1>1. w = [c EXCEPT !.in = turn.rest, !.discarding = turn.discarding, !.focus = focus]
  BY DEF Worker
<1>2. d = [w EXCEPT !.out = @ \o lines]
  BY DEF Serves
<1> HIDE DEF focus, w
<1>3. w = [root |-> c.root, closed |-> c.closed, queue |-> c.queue, running |-> c.running,
           alive |-> c.alive, cut |-> c.cut, in |-> turn.rest,
           discarding |-> turn.discarding, out |-> c.out, focus |-> focus]
  BY <1>1 DEF IsClient
<1>4. d = [root |-> c.root, closed |-> c.closed, queue |-> c.queue, running |-> c.running,
           alive |-> c.alive, cut |-> c.cut, in |-> turn.rest,
           discarding |-> turn.discarding, out |-> out, focus |-> focus]
  BY <1>2, <1>3
<1> HIDE DEF out
<1>5. /\ d.root = c.root /\ (d.closed <=> c.closed) /\ d.queue = c.queue
      /\ (d.running <=> c.running) /\ (d.alive <=> c.alive) /\ d.in = turn.rest
      /\ (d.discarding <=> turn.discarding) /\ d.out = out /\ IsClient(d)
  BY <1>4, ServedFacts
<1> QED BY <1>5 DEF out

(* What is said of a request is said of the request that was read.         *)
LEMMA SaidOf ==
    ASSUME NEW client, NEW turn, NEW r, NEW lines \in Output(client, turn)
    PROVE  /\ turn.say = "nothing" => lines = <<>>
           /\ turn.say = "request_too_large" \/ (turn.say = "answer" /\ turn.text[1] = r)
              => \E line : lines = <<line>> /\ IsSaidOf(line, r)
<1>1. turn.say = "nothing" => lines = <<>>
  BY DEF Output
<1>2. IsSaidOf(Failure("protocol"), r)
  BY FailureSaid
<1>3. CASE turn.say = "request_too_large"
  <2>1. lines = <<Failure("protocol")>>
    BY <1>3 DEF Output
  <2> QED BY <1>2, <1>3, <2>1
<1>4. CASE turn.say = "answer" /\ turn.text[1] = r
  <2> DEFINE line == Line("response", r, client.focus)
  <2>1. lines = <<line>> \/ lines = <<Failure("protocol")>>
    BY <1>4 DEF Output
  <2>2. IsSaidOf(line, r)
    BY DEF IsSaidOf, Line
  <2> HIDE DEF line
  <2> QED BY <1>2, <1>4, <2>1, <2>2
<1> QED BY <1>1, <1>3, <1>4

LEMMA ServeOK ==
    ASSUME NEW c, ClientOK(c), NEW turn, NEW lines, NEW d, Serves(c, turn, lines, d)
    PROVE  ClientOK(d) /\ d.root = c.root /\ (d.alive <=> c.alive)
<1> DEFINE r == Head(c.queue)
           S == Requests \cup {LF}
           w == Worker(c, turn)
<1>1. /\ IsClient(c) /\ c.in \in Seq(S) /\ c.discarding \in BOOLEAN /\ c.queue \in Seq(Requests)
      /\ (c.running => c.queue # <<>>) /\ (c.closed => ~c.alive)
  BY DEF ClientOK, IsClient
<1>2. c.alive /\ c.in # <<>> /\ turn = ServeOne(c.in, c.discarding) /\ lines \in Output(w, turn)
  BY DEF Serves
<1>3. (c.discarding => Discards(c.in, turn)) /\ (~c.discarding => Reads(c.in, turn))
  BY <1>1, <1>2, ServeSplit
<1>4. turn.discarding \in BOOLEAN
  BY <1>1, <1>2, TurnIsBoolean
<1> HIDE DEF r, S, w
<1>5. ASSUME turn.rest \in Seq(S)
      PROVE  /\ d.root = c.root /\ (d.closed <=> c.closed) /\ d.queue = c.queue
             /\ (d.running <=> c.running) /\ (d.alive <=> c.alive) /\ d.in = turn.rest
             /\ d.discarding = turn.discarding /\ d.out = c.out \o lines /\ IsClient(d)
  <2>1. /\ d.root = c.root /\ (d.closed <=> c.closed) /\ d.queue = c.queue
        /\ (d.running <=> c.running) /\ (d.alive <=> c.alive) /\ d.in = turn.rest
        /\ (d.discarding <=> turn.discarding) /\ d.out = c.out \o lines /\ IsClient(d)
    BY <1>1, <1>4, <1>5, Served DEF S
  <2>2. d.discarding = turn.discarding
    BY <1>4, <2>1 DEF IsClient
  <2> QED BY <2>1, <2>2
<1>6. CASE Idle(c.in, c.discarding)
  <2>1. c.discarding /\ Rest(c.in)
    BY <1>2, <1>6 DEF Idle
  <2>2. turn.rest \in Seq(S) /\ turn.say = "nothing" /\ Idle(turn.rest, turn.discarding)
    BY <1>1, <1>3, <2>1, ServeIdle
  <2>3. lines = <<>>
    BY <1>2, <2>2, SaidOf
  <2>4. ~c.running => NothingOwed(d)
    BY <1>5, <2>2, <2>3 DEF ClientOK, NothingOwed
  <2>5. c.running /\ c.out # <<>> => Owes(d)
    <3>1. SUFFICES ASSUME c.running, c.out # <<>> PROVE Owes(d)
      OBVIOUS
    <3>2. PICK line : c.out = <<line>> /\ IsSaidOf(line, Head(c.queue))
      BY <3>1 DEF ClientOK, Owes
    <3>3. d.out = <<line>>
      BY <1>5, <2>2, <2>3, <3>2
    <3> QED BY <1>5, <2>2, <3>2, <3>3 DEF Owes
  <2>6. c.running => c.out # <<>>
    <3>1. SUFFICES ASSUME c.running, c.out = <<>> PROVE FALSE
      OBVIOUS
    <3>2. Pending(c.in, c.discarding, r)
      BY <1>2, <3>1 DEF ClientOK, Owes, r
    <3>3. PICK m \in Nat : AtFirst(c.in, m) /\ Len(c.in) > m + 1
      BY <2>1, <3>2 DEF Pending
    <3> QED BY <2>1, <3>3 DEF Rest, AtFirst
  <2> QED BY <1>1, <1>2, <1>5, <2>2, <2>4, <2>5, <2>6 DEF ClientOK
<1>7. CASE ~Idle(c.in, c.discarding)
  <2>1. c.running /\ c.out = <<>> /\ Pending(c.in, c.discarding, r)
    BY <1>2, <1>7 DEF ClientOK, NothingOwed, Owes, r
  <2>2. r \in Requests /\ r \notin {LF, CR}
    BY <1>1, <2>1, BytesRecord DEF r
  <2>3. CASE c.discarding
    <3>1. /\ turn.rest \in Seq(S) /\ turn.say = "nothing"
          /\ Pending(turn.rest, turn.discarding, r)
      <4>1. Pending(c.in, TRUE, r)
        BY <2>1, <2>3 DEF Pending
      <4> QED BY <1>1, <1>3, <2>3, <4>1, ServePending
    <3>2. lines = <<>> /\ d.out = <<>>
      <4>1. lines = <<>>
        BY <1>2, <3>1, SaidOf
      <4> QED BY <1>5, <2>1, <3>1, <4>1
    <3> QED BY <1>1, <1>2, <1>5, <2>1, <3>1, <3>2 DEF ClientOK, Owes, r
  <2>4. CASE ~c.discarding
    <3>1. Record(c.in, r)
      BY <2>1, <2>4 DEF Pending
    <3>2. /\ turn.rest \in Seq(S) /\ Idle(turn.rest, turn.discarding)
          /\ turn.say = "request_too_large" \/ (turn.say = "answer" /\ turn.text[1] = r)
      BY <1>1, <1>3, <2>2, <2>4, <3>1, ServeRecord DEF Idle
    <3>3. PICK line : lines = <<line>> /\ IsSaidOf(line, r)
      BY <1>2, <3>2, SaidOf
    <3>4. d.out = <<line>>
      BY <1>5, <2>1, <3>2, <3>3
    <3> QED BY <1>1, <1>2, <1>5, <2>1, <3>2, <3>3, <3>4 DEF ClientOK, Owes, r
  <2> QED BY <1>1, <2>3, <2>4
<1> QED BY <1>6, <1>7

LEMMA DeadFacts ==
    ASSUME NEW c, IsClient(c), NEW cut,
           NEW d, d = [root |-> c.root, closed |-> c.closed, queue |-> c.queue, running |-> c.running,
                       alive |-> FALSE, cut |-> cut, in |-> <<>>, discarding |-> c.discarding,
                       out |-> c.out, focus |-> c.focus]
    PROVE  /\ d.root = c.root /\ (d.closed <=> c.closed) /\ d.queue = c.queue
           /\ (d.running <=> c.running) /\ ~d.alive /\ d.out = c.out /\ IsClient(d)
BY DEF IsClient

LEMMA DeadOK ==
    ASSUME NEW c, ClientOK(c), NEW cut,
           NEW d, d = [c EXCEPT !.alive = FALSE, !.in = <<>>, !.cut = cut]
    PROVE  ClientOK(d) /\ ~d.alive
<1>1. IsClient(c)
  BY DEF ClientOK
<1>2. d = [root |-> c.root, closed |-> c.closed, queue |-> c.queue, running |-> c.running,
           alive |-> FALSE, cut |-> cut, in |-> <<>>, discarding |-> c.discarding,
           out |-> c.out, focus |-> c.focus]
  BY <1>1 DEF IsClient
<1>3. /\ d.root = c.root /\ (d.closed <=> c.closed) /\ d.queue = c.queue
      /\ (d.running <=> c.running) /\ ~d.alive /\ d.out = c.out /\ IsClient(d)
  BY <1>1, <1>2, DeadFacts
<1> QED BY <1>3 DEF ClientOK, Owes, NothingOwed

(* One client of the plugin changes, and starts no worker.                 *)
LEMMA ClientCalm ==
    ASSUME SessionInv, NEW k \in DOMAIN clients, NEW v, ClientOK(v),
           v.alive => v.root = clients[k].root /\ clients[k].alive,
           NEW g, IsPut(g, plugin.clients, k, v), PutClients(plugin', plugin, g)
    PROVE  Calm
<1>1. PluginOK(plugin) /\ Shape(plugin) /\ k \in DOMAIN plugin.clients
  BY DEF SessionInv, PluginOK, clients
<1>2. \A j \in DOMAIN plugin.clients \ {k} : ClientOK(plugin.clients[j]) /\ IsFound(plugin, j)
  BY <1>1 DEF PluginOK
<1>3. (v.alive => plugin.workers[v.root] = k) /\ (v.alive => plugin.clients[k].alive)
  BY <1>1 DEF PluginOK, IsFound, clients
<1> QED BY <1>1, <1>2, <1>3, SetClient DEF Calm

LEMMA WorkerDiesCalm == ASSUME SessionInv, NEW k \in DOMAIN clients, WorkerDies(k) PROVE Calm
<1> DEFINE c == plugin.clients[k]
<1>1. PICK cut : plugin' = [plugin EXCEPT !.clients[k] =
                               [@ EXCEPT !.alive = FALSE, !.in = <<>>, !.cut = cut]]
  BY DEF WorkerDies, clients
<1> DEFINE v == [c EXCEPT !.alive = FALSE, !.in = <<>>, !.cut = cut]
           g == [plugin.clients EXCEPT ![k] = v]
<1>2. ClientOK(c) /\ IsPlugin(plugin)
  BY DEF SessionInv, PluginOK, Shape, clients
<1>3. IsPut(g, plugin.clients, k, v) /\ PutClients(plugin', plugin, g)
  BY <1>1, <1>2 DEF IsPlugin, IsPut, PutClients
<1>4. ClientOK(v) /\ ~v.alive
  BY <1>2, DeadOK
<1> HIDE DEF v, g
<1>5. v.alive => v.root = clients[k].root /\ clients[k].alive
  BY <1>4
<1> QED BY <1>3, <1>4, <1>5, ClientCalm

LEMMA ServeWorkerCalm == ASSUME SessionInv, NEW k \in DOMAIN clients, ServeWorker(k) PROVE Calm
<1> DEFINE c == plugin.clients[k]
           turn == ServeOne(c.in, c.discarding)
           w == Worker(c, turn)
<1>1. PICK lines \in Output(w, turn) :
          plugin' = [plugin EXCEPT !.clients[k] = [w EXCEPT !.out = @ \o lines]]
  BY DEF ServeWorker, clients
<1> DEFINE v == [w EXCEPT !.out = @ \o lines]
           g == [plugin.clients EXCEPT ![k] = v]
<1>2. ClientOK(c) /\ IsPlugin(plugin)
  BY DEF SessionInv, PluginOK, Shape, clients
<1>3. Serves(c, turn, lines, v)
  BY <1>1 DEF Serves, ServeWorker, clients
<1> HIDE DEF turn
<1>4. IsPut(g, plugin.clients, k, v) /\ PutClients(plugin', plugin, g)
  <2> HIDE DEF w
  <2> QED BY <1>1, <1>2 DEF IsPlugin, IsPut, PutClients
<1> HIDE DEF v, g, w
<1>5. ClientOK(v) /\ v.root = c.root /\ (v.alive <=> c.alive)
  BY <1>2, <1>3, ServeOK
<1>6. v.alive => v.root = clients[k].root /\ clients[k].alive
  BY <1>5 DEF clients
<1> QED BY <1>4, <1>5, <1>6, ClientCalm

-----------------------------------------------------------------------------
(* The host: calls of the tool, aborts, compaction and the end.            *)

LEMMA CallChanged ==
    ASSUME NEW c, CallsOK(c), NEW r \in Calls, NEW told,
           told = [state |-> told.state, aborted |-> told.aborted, of |-> told.of],
           told.state = "response" => told.of = r,
           NEW d, IsPut(d, c, r, told)
    PROVE  CallsOK(d)
<1>1. DOMAIN d = Calls /\ d[r] = told /\ \A x \in Calls \ {r} : d[x] = c[x]
  BY DEF CallsOK, IsPut
<1> QED BY <1>1 DEF CallsOK

LEMMA AbortCalm == ASSUME SessionInv, NEW c \in Calls, Abort(c) PROVE Calm
<1> DEFINE yes == TRUE
           told == [plugin.calls[c] EXCEPT !.aborted = yes]
           v == [plugin.calls EXCEPT ![c] = told]
           p == [plugin EXCEPT !.calls[c].aborted = TRUE]
<1>1. PluginOK(plugin) /\ IsPlugin(plugin) /\ CallsOK(plugin.calls) /\ c \in DOMAIN plugin.calls
  BY DEF SessionInv, PluginOK, Shape, CallsOK
<1>2. PutCalls(p, plugin, v)
  BY <1>1 DEF PutCalls, IsPlugin
<1>3. plugin' = p \/ \E k \in AtWork(c) : plugin' = Interrupt(p, k)
  BY DEF Abort
<1> HIDE DEF p, yes
<1>4. IsPut(v, plugin.calls, c, told)
  BY DEF IsPut
<1>5. told = [state |-> plugin.calls[c].state, aborted |-> yes, of |-> plugin.calls[c].of]
  <2> DEFINE old == plugin.calls[c]
  <2>1. old = [state |-> old.state, aborted |-> old.aborted, of |-> old.of]
    BY <1>1 DEF CallsOK
  <2> HIDE DEF old
  <2>2. [old EXCEPT !.aborted = yes] = [state |-> old.state, aborted |-> yes, of |-> old.of]
    BY <2>1
  <2> QED BY <2>2 DEF old
<1> HIDE DEF told, v
<1>6. /\ told = [state |-> told.state, aborted |-> told.aborted, of |-> told.of]
      /\ told.state = "response" => told.of = c
  BY <1>1, <1>5 DEF CallsOK
<1>7. CallsOK(v)
  BY <1>1, <1>4, <1>6, CallChanged
<1>8. PluginOK(p) /\ Quieter(plugin, p) /\ p.clients = plugin.clients
  BY <1>1, <1>2, <1>7, CallsKeep
<1>9. ASSUME NEW k \in AtWork(c), plugin' = Interrupt(p, k) PROVE Calm
  <2>1. k \in DOMAIN p.clients /\ p.clients[k].queue # <<>>
    BY <1>1, <1>8 DEF AtWork, clients, PluginOK, ClientOK
  <2>2. PluginOK(plugin') /\ Quieter(p, plugin')
    BY <1>8, <1>9, <2>1, InterruptKeeps
  <2> QED BY <1>8, <2>2, QuieterTwice DEF Calm
<1> QED BY <1>3, <1>8, <1>9 DEF Calm

LEMMA CompactCalm == ASSUME SessionInv, Compact PROVE Calm
<1> DEFINE no == FALSE
           v == [phase |-> "next", left |-> Entered(plugin), restored |-> no]
           n == Len(plugin.clients)
<1>1. PluginOK(plugin) /\ Shape(plugin)
  BY DEF SessionInv, PluginOK
<1>2. PutCompaction(plugin', plugin, v)
  BY DEF Compact, PutCompaction
<1> HIDE DEF no
<1>3. ASSUME NEW entry \in Entered(plugin) PROVE entry[2] \in 1 .. n
  <2>1. PICK r \in Roots : plugin.workers[r] # 0 /\ entry = <<r, plugin.workers[r]>>
    BY DEF Entered
  <2>2. plugin.workers[r] \in Nat /\ plugin.workers[r] <= n /\ n \in Nat
    BY <1>1 DEF Shape
  <2> QED BY <2>1, <2>2
<1>4. CompactionOK(v, n)
  BY <1>3 DEF CompactionOK
<1> HIDE DEF v
<1> QED BY <1>1, <1>2, <1>4, CompactionKeeps DEF Calm

LEMMA LookCalm == ASSUME SessionInv, Look PROVE Calm
<1> DEFINE c == plugin.compaction
           n == Len(plugin.clients)
<1>1. PICK entry \in c.left :
          plugin' = Enqueue([plugin EXCEPT !.compaction.phase = "focus",
                                           !.compaction.left = @ \ {entry}], entry[2], Lookup)
  BY DEF Look, compaction
<1> DEFINE p == [plugin EXCEPT !.compaction.phase = "focus", !.compaction.left = @ \ {entry}]
           left == c.left \ {entry}
           v == [phase |-> "focus", left |-> left, restored |-> c.restored]
<1>2. /\ PluginOK(plugin) /\ Shape(plugin) /\ IsPlugin(plugin) /\ CompactionOK(c, n)
      /\ DOMAIN plugin.clients = 1 .. n
  BY DEF SessionInv, PluginOK, Shape
<1>3. PutCompaction(p, plugin, v)
  <2> DEFINE w == [c EXCEPT !.phase = "focus", !.left = @ \ {entry}]
  <2>1. w = v
    <3>1. c = [phase |-> c.phase, left |-> c.left, restored |-> c.restored]
      BY <1>2 DEF CompactionOK
    <3> DEFINE a == [c EXCEPT !.phase = "focus"]
    <3>2. w = [a EXCEPT !.left = left]
      OBVIOUS
    <3> HIDE DEF c, left
    <3>3. a = [phase |-> "focus", left |-> c.left, restored |-> c.restored]
      BY <3>1
    <3> HIDE DEF a
    <3>4. [a EXCEPT !.left = left] = v
      BY <3>3
    <3> QED BY <3>2, <3>4
  <2>2. p = [plugin EXCEPT !.compaction = w]
    BY <1>2 DEF IsPlugin
  <2> QED BY <2>1, <2>2 DEF PutCompaction
<1>4. CompactionOK(v, n) /\ entry[2] \in 1 .. n
  BY <1>2 DEF CompactionOK
<1>5. plugin' = Enqueue(p, entry[2], Lookup)
  BY <1>1
<1> HIDE DEF p, v
<1>6. PluginOK(p) /\ Quieter(plugin, p) /\ p.clients = plugin.clients
  BY <1>2, <1>3, <1>4, CompactionKeeps
<1>7. PluginOK(plugin') /\ Quieter(p, plugin')
  <2>1. entry[2] \in DOMAIN p.clients /\ Lookup \in Requests
    BY <1>2, <1>4, <1>6 DEF Requests
  <2> QED BY <1>5, <1>6, <2>1, EnqueueKeeps
<1> QED BY <1>6, <1>7, QuieterTwice DEF Calm

LEMMA NewClientOK ==
    ASSUME NEW root \in Roots
    PROVE  ClientOK(NewClient(root)) /\ NewClient(root).root = root
<1> DEFINE d == NewClient(root)
<1>1. d = [root |-> root, closed |-> FALSE, queue |-> <<>>, running |-> FALSE, alive |-> TRUE,
           cut |-> FALSE, in |-> <<>>, discarding |-> FALSE, out |-> <<>>, focus |-> FALSE]
  BY DEF NewClient
<1> HIDE DEF d
<1>2. /\ d.root = root /\ ~d.closed /\ d.queue = <<>> /\ ~d.running /\ d.alive
      /\ d.in = <<>> /\ ~d.discarding /\ d.out = <<>>
  BY <1>1
<1>3. /\ d.closed \in BOOLEAN /\ d.running \in BOOLEAN /\ d.alive \in BOOLEAN
      /\ d.discarding \in BOOLEAN
  BY <1>1
<1>4. d = [root |-> d.root, closed |-> d.closed, queue |-> d.queue, running |-> d.running,
           alive |-> d.alive, cut |-> d.cut, in |-> d.in, discarding |-> d.discarding,
           out |-> d.out, focus |-> d.focus]
  BY <1>1
<1>5. IsClient(d)
  BY <1>2, <1>3, <1>4 DEF IsClient
<1>6. NothingOwed(d)
  BY <1>2 DEF NothingOwed, Idle
<1> QED BY <1>2, <1>5, <1>6 DEF ClientOK, d

LEMMA WithClientKeeps ==
    ASSUME NEW p, PluginOK(p), NEW root \in Roots, NEW s, s = WithClient(p, root)
    PROVE  PluginOK(s) /\ s.workers[root] \in DOMAIN s.clients
<1> DEFINE n == Len(p.clients)
<1>1. /\ Shape(p) /\ IsPlugin(p) /\ p.clients \in Seq(Range(p.clients)) /\ n \in Nat
      /\ DOMAIN p.clients = 1 .. n /\ p.workers[root] \in Nat /\ p.workers[root] <= n
  BY DEF PluginOK, Shape
<1>2. CASE p.workers[root] # 0
  <2>1. s = p
    BY <1>2 DEF WithClient
  <2> QED BY <1>1, <1>2, <2>1
<1>3. CASE p.workers[root] = 0
  <2> DEFINE new == NewClient(root)
             v == Append(p.clients, new)
             a == [p EXCEPT !.clients = v]
             w == [p.workers EXCEPT ![root] = n + 1]
  <2>1. PutClients(a, p, v) /\ IsAppend(v, p.clients, new)
    BY DEF PutClients, IsAppend
  <2>2. PutWorkers(s, a, w)
    BY <1>1, <1>3 DEF PutWorkers, WithClient, IsPlugin
  <2>3. ClientOK(new) /\ new.root = root
    BY NewClientOK
  <2> HIDE DEF new, v, a
  <2>4. /\ v \in Seq(Range(v)) /\ Len(v) = n + 1 /\ DOMAIN v = DOMAIN p.clients \cup {n + 1}
        /\ v[n + 1] = new /\ \A j \in DOMAIN p.clients : v[j] = p.clients[j]
    <3>1. p.clients \in Seq(Range(p.clients)) /\ IsAppend(v, p.clients, new)
      BY <1>1, <2>1
    <3>2. Appends(v, p.clients, new)
      BY <3>1, Appended
    <3> QED BY <3>2 DEF Appends
  <2>5. /\ w \in [Roots -> Nat] /\ w[root] = n + 1
        /\ \A r \in Roots \ {root} : w[r] = p.workers[r] /\ w[r] <= n
    BY <1>1 DEF Shape
  <2> HIDE DEF w
  <2>6. /\ IsPlugin(a) /\ a.clients = v /\ a.workers = p.workers
        /\ a.compaction = p.compaction /\ a.calls = p.calls
    BY <1>1, <2>1, WithClients
  <2>7. /\ IsPlugin(s) /\ s.clients = v /\ s.workers = w
        /\ s.compaction = p.compaction /\ s.calls = p.calls
    BY <2>2, <2>6, WithWorkers
  <2>8. Shape(s)
    <3>1. \A r \in Roots : w[r] <= n + 1
      BY <1>1, <2>5
    <3>2. CompactionOK(p.compaction, n + 1)
      <4>1. CompactionOK(p.compaction, n)
        BY <1>1 DEF Shape
      <4> QED BY <1>1, <4>1 DEF CompactionOK
    <3> QED BY <1>1, <2>4, <2>5, <2>7, <3>1, <3>2 DEF Shape
  <2>9. ASSUME NEW j \in DOMAIN s.clients PROVE ClientOK(s.clients[j]) /\ IsFound(s, j)
    <3>1. CASE j = n + 1
      BY <2>3, <2>4, <2>5, <2>7, <3>1 DEF IsFound
    <3>2. CASE j # n + 1
      <4>1. /\ j \in DOMAIN p.clients /\ s.clients[j] = p.clients[j] /\ ClientOK(p.clients[j])
            /\ IsFound(p, j) /\ j # 0
        BY <1>1, <2>4, <2>7, <3>2 DEF PluginOK
      <4>2. p.clients[j].root \in Roots
        BY <4>1 DEF ClientOK, IsClient
      <4> QED BY <1>3, <2>5, <2>7, <4>1, <4>2 DEF IsFound
    <3> QED BY <3>1, <3>2
  <2> QED BY <2>4, <2>5, <2>7, <2>8, <2>9 DEF PluginOK
<1> QED BY <1>2, <1>3

LEMMA ExecuteOK == ASSUME SessionInv, NEW c \in Calls, Execute(c) PROVE PluginOK(plugin')
<1> DEFINE told == [plugin.calls[c] EXCEPT !.state = "sent"]
           v == [plugin.calls EXCEPT ![c] = told]
           p == [plugin EXCEPT !.calls[c].state = "sent"]
           root == Call[c].root
           s == WithClient(p, root)
           k == s.workers[root]
<1>1. /\ PluginOK(plugin) /\ IsPlugin(plugin) /\ CallsOK(plugin.calls)
      /\ c \in DOMAIN plugin.calls /\ root \in Roots
  BY RequestAssumption DEF SessionInv, PluginOK, Shape, CallsOK
<1>2. PutCalls(p, plugin, v)
  BY <1>1 DEF PutCalls, IsPlugin
<1>3. plugin' = Enqueue(s, k, c)
  BY DEF Execute, Sent
<1> HIDE DEF p, root
<1>4. IsPut(v, plugin.calls, c, told)
  BY DEF IsPut
<1>5. told = [state |-> "sent", aborted |-> plugin.calls[c].aborted, of |-> plugin.calls[c].of]
  <2> DEFINE old == plugin.calls[c]
  <2>1. old = [state |-> old.state, aborted |-> old.aborted, of |-> old.of]
    BY <1>1 DEF CallsOK
  <2> HIDE DEF old
  <2>2. [old EXCEPT !.state = "sent"] = [state |-> "sent", aborted |-> old.aborted, of |-> old.of]
    BY <2>1
  <2> QED BY <2>2 DEF old
<1> HIDE DEF told, v
<1>6. /\ told = [state |-> told.state, aborted |-> told.aborted, of |-> told.of]
      /\ told.state # "response"
  BY <1>5
<1>7. CallsOK(v)
  BY <1>1, <1>4, <1>6, CallChanged
<1>8. PluginOK(p)
  BY <1>1, <1>2, <1>7, CallsKeep
<1>9. PluginOK(s) /\ k \in DOMAIN s.clients
  BY <1>1, <1>8, WithClientKeeps
<1> HIDE DEF s, k
<1> QED BY <1>3, <1>9, EnqueueKeeps DEF Requests

(* A worker that runs is in the map, so the end of the session closes it.  *)
LEMMA CloseSessionOK ==
    ASSUME SessionInv, CloseSession
    PROVE  PluginOK(plugin') /\ \A k \in DOMAIN clients' : ~clients'[k].alive
<1> DEFINE p == plugin
           g == [k \in DOMAIN p.clients |->
                    IF k \in Range(p.workers) THEN CloseClient(p.clients[k]) ELSE p.clients[k]]
           w == [r \in Roots |-> 0]
           a == [p EXCEPT !.clients = g]
<1>1. /\ PluginOK(p) /\ Shape(p) /\ IsPlugin(p) /\ p.clients \in Seq(Range(p.clients))
      /\ Len(p.clients) \in Nat /\ DOMAIN p.clients = 1 .. Len(p.clients)
  BY DEF SessionInv, PluginOK, Shape
<1>2. PutClients(a, p, g) /\ PutWorkers(plugin', a, w)
  BY <1>1 DEF PutClients, PutWorkers, CloseSession, CloseAll, IsPlugin
<1> HIDE DEF a
<1>3. /\ g \in Seq(Range(g)) /\ Len(g) = Len(p.clients) /\ DOMAIN g = DOMAIN p.clients
  BY <1>1 DEF Range
<1>4. ASSUME NEW k \in DOMAIN p.clients PROVE ClientOK(g[k]) /\ ~g[k].alive
  <2> DEFINE c == p.clients[k]
  <2>1. ClientOK(c) /\ IsFound(p, k) /\ c.root \in Roots /\ DOMAIN p.workers = Roots
    BY <1>1 DEF PluginOK, ClientOK, IsClient, Shape
  <2>2. CASE k \in Range(p.workers)
    <3>1. g[k] = CloseClient(c)
      BY <2>2
    <3>2. ~CloseClient(c).alive
      BY <2>1, CloseClientFacts DEF ClientOK
    <3> QED BY <2>1, <3>1, <3>2, CloseClientOK
  <2>3. CASE k \notin Range(p.workers)
    <3>1. g[k] = c
      BY <2>3
    <3>2. ~c.alive
      BY <2>1, <2>3 DEF IsFound, Range
    <3> QED BY <2>1, <3>1, <3>2
  <2> QED BY <2>2, <2>3
<1>5. w \in [Roots -> Nat] /\ \A r \in Roots : w[r] <= Len(p.clients)
  BY <1>1
<1> HIDE DEF g, w
<1>6. /\ IsPlugin(a) /\ a.clients = g /\ a.workers = p.workers
      /\ a.compaction = p.compaction /\ a.calls = p.calls
  BY <1>1, <1>2, WithClients
<1>7. /\ IsPlugin(plugin') /\ plugin'.clients = g /\ plugin'.workers = w
      /\ plugin'.compaction = p.compaction /\ plugin'.calls = p.calls
  BY <1>2, <1>6, WithWorkers
<1>8. Shape(plugin')
  BY <1>1, <1>3, <1>5, <1>7 DEF Shape
<1>9. \A k \in DOMAIN plugin'.clients :
          ClientOK(plugin'.clients[k]) /\ IsFound(plugin', k) /\ ~plugin'.clients[k].alive
  BY <1>3, <1>4, <1>7 DEF IsFound
<1> QED BY <1>8, <1>9 DEF PluginOK, clients

-----------------------------------------------------------------------------
(* The session.                                                            *)

LEMMA CallBefore ==
    ASSUME NEW state, state # "response", NEW aborted, NEW of, NEW u,
           u = [state |-> state, aborted |-> aborted, of |-> of]
    PROVE  u = [state |-> u.state, aborted |-> u.aborted, of |-> u.of] /\ u.state # "response"
OBVIOUS

LEMMA CallsBefore ==
    /\ Unsent = [state |-> Unsent.state, aborted |-> Unsent.aborted, of |-> Unsent.of]
    /\ Unsent.state # "response"
    /\ NotMade = [state |-> NotMade.state, aborted |-> NotMade.aborted, of |-> NotMade.of]
    /\ NotMade.state # "response"
<1> DEFINE no == FALSE
<1>1. Unsent = [state |-> "unsent", aborted |-> no, of |-> ""]
  BY DEF Unsent
<1>2. NotMade = [Unsent EXCEPT !.state = "not made"]
  BY DEF NotMade
<1> HIDE DEF no
<1>3. NotMade = [state |-> "not made", aborted |-> no, of |-> ""]
  BY <1>1, <1>2
<1> QED BY <1>1, <1>3, CallBefore

LEMMA InitOK == ASSUME Init PROVE SessionInv
<1>1. PICK host \in Hosts :
          plugin = [clients |-> <<>>, workers |-> [r \in Roots |-> 0], compaction |-> NoCompaction,
                    calls |-> [c \in Calls |-> IF c \in host THEN Unsent ELSE NotMade]]
  BY DEF Init
<1> DEFINE made == [c \in Calls |-> IF c \in host THEN Unsent ELSE NotMade]
           w == [r \in Roots |-> 0]
           none == <<>>
           first == NoCompaction
<1>2. CallsOK(made)
  <2>1. ASSUME NEW u, u = Unsent \/ u = NotMade
        PROVE  u = [state |-> u.state, aborted |-> u.aborted, of |-> u.of] /\ u.state # "response"
    BY <2>1, CallsBefore
  <2>2. \A x \in Calls : made[x] = Unsent \/ made[x] = NotMade
    OBVIOUS
  <2>3. DOMAIN made = Calls
    OBVIOUS
  <2> HIDE DEF made
  <2> QED BY <2>1, <2>2, <2>3 DEF CallsOK
<1>3. CompactionOK(first, 0)
  BY DEF CompactionOK, NoCompaction
<1>4. none \in Seq(Range(none)) /\ Len(none) = 0 /\ DOMAIN none = {}
  OBVIOUS
<1>5. w \in [Roots -> Nat] /\ \A r \in Roots : w[r] <= 0
  OBVIOUS
<1>6. plugin = [clients |-> none, workers |-> w, compaction |-> first, calls |-> made]
  BY <1>1
<1> HIDE DEF made, w, none, first
<1>7. /\ plugin.clients = none /\ plugin.workers = w /\ plugin.compaction = first
      /\ plugin.calls = made /\ IsPlugin(plugin)
  BY <1>6 DEF IsPlugin
<1>8. Shape(plugin)
  BY <1>2, <1>3, <1>4, <1>5, <1>7 DEF Shape
<1>9. session = "live"
  BY DEF Init
<1> QED BY <1>4, <1>7, <1>8, <1>9 DEF SessionInv, PluginOK

LEMMA StepOK == ASSUME SessionInv, Next PROVE SessionInv'
<1>1. ASSUME Calm, session' = session PROVE SessionInv'
  <2>1. PluginOK(plugin')
    BY <1>1 DEF Calm
  <2>2. session' # "live" => \A k \in DOMAIN plugin'.clients : ~plugin'.clients[k].alive
    BY <1>1 DEF Calm, Quieter, SessionInv, clients
  <2> QED BY <2>1, <2>2 DEF SessionInv, clients
<1>2. ASSUME NEW c \in Calls, Execute(c) PROVE SessionInv'
  <2>1. PluginOK(plugin') /\ session' = "live"
    BY <1>2, ExecuteOK DEF Execute
  <2> QED BY <2>1 DEF SessionInv
<1>3. ASSUME NEW c \in Calls, Abort(c) PROVE SessionInv'
  BY <1>1, <1>3, AbortCalm DEF Abort
<1>4. CASE Compact
  BY <1>1, <1>4, CompactCalm DEF Compact
<1>5. CASE Look
  BY <1>1, <1>5, LookCalm DEF Look
<1>6. CASE CloseSession
  BY <1>6, CloseSessionOK DEF SessionInv
<1>7. ASSUME NEW k \in DOMAIN clients,
             \/ Turn(k) \/ WriteFails(k) \/ Read(k) \/ ReadEnd(k) \/ Timeout(k)
             \/ ServeWorker(k) \/ WorkerDies(k)
      PROVE  SessionInv'
  <2>1. session' = session
    BY <1>7 DEF Turn, WriteFails, Read, ReadEnd, Timeout, ServeWorker, WorkerDies
  <2>2. Calm
    BY <1>7, TurnCalm, WriteFailsCalm, ReadCalm, ReadEndCalm, TimeoutCalm, ServeWorkerCalm,
       WorkerDiesCalm
  <2> QED BY <1>1, <2>1, <2>2
<1> QED BY <1>2, <1>3, <1>4, <1>5, <1>6, <1>7 DEF Next

LEMMA SessionInvHolds == SessionSpec => []SessionInv
<1>1. ASSUME SessionInv, UNCHANGED vars PROVE SessionInv'
  BY <1>1 DEF vars, SessionInv, clients
<1>2. SessionInv /\ [Next]_vars => SessionInv'
  BY <1>1, StepOK
<1> QED BY InitOK, <1>2, PTL DEF SessionSpec

(* A call is answered with what the worker said of that very call, with    *)
(* any number of roots, calls and clients and at every record limit: what  *)
(* was aborted, timed out, refused or garbled before it on the same pipe   *)
(* leaves nothing behind that could be taken for its answer (requestOne,   *)
(* interrupt and _serve_worker).                                           *)
THEOREM AnswersMatchHolds == SessionSpec => []AnswersMatch
<1>1. SessionInv => AnswersMatch
  BY DEF SessionInv, PluginOK, Shape, CallsOK, AnswersMatch, calls
<1> QED BY <1>1, SessionInvHolds, PTL

(* A worker that runs is the one the map has for its root, and none runs   *)
(* after its session has ended (removeClient, closeSession, dispose).      *)
THEOREM NoWorkerIsLostHolds == SessionSpec => []NoWorkerIsLost
<1>1. SessionInv => NoWorkerIsLost
  BY DEF SessionInv, PluginOK, IsFound, NoWorkerIsLost, clients, workers
<1> QED BY <1>1, SessionInvHolds, PTL
===============================================================================
