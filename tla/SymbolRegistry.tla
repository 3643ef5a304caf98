---------------------------- MODULE SymbolRegistry ----------------------------
(***************************************************************************)
(* The symbol registry of a project (_build_registry and what reads it in  *)
(* src/delphi_lsp/agent_context.py).  The files of a project are parsed by *)
(* a batch whose results arrive in any order, except those found in the    *)
(* shard store, which are read first and in order; then the registry is    *)
(* assembled.  Later requests ask for spans in the documents, whose caches *)
(* grow with every question and are gone when a document is evicted.       *)
(*                                                                         *)
(* A file is [path, stem, lines]; order ranks paths, names and kinds the   *)
(* way their strings sort.                                                 *)
(***************************************************************************)
EXTENDS OutlineModel

CONSTANTS
    Projects,       \* the projects, each a sequence of files
    Rebuilt,        \* those that are built again, as another one of them
    MaxBuilds,      \* bound on the builds of a store
    MaxAsks,        \* bound on the questions to a registry
    Alphabet,       \* paths, kinds and tokens in the order they sort
    Queries,        \* what find looks for, and names of routines that are called
    NoShard

Rank(x) == CHOOSE i \in DOMAIN Alphabet : Alphabet[i] = x

VARIABLES
    project,        \* the files
    store,          \* the shards on disk: the text of a file -> the result stored
    hitsLeft,       \* the files found in the store and not consumed yet
    waiting,        \* the files of the batch not delivered yet
    raws,           \* the symbols in the order they were delivered
    builds,         \* how many registries were built
    cold,           \* no file of this build was found in the store
    entries,        \* the assembled registry, <<>> before
    documents,      \* the cached spans of the documents of the files
    asks,           \* how many questions were asked
    answer          \* the last answer

vars == <<project, store, hitsLeft, waiting, raws, builds, cold, entries, documents, asks, answer>>

Files == DOMAIN project

-----------------------------------------------------------------------------
(* Shards                                                                   *)

\* A result: the symbols of a file, with its path.
ResultOf(file) == [path |-> file.path, raws |-> ParseNavigation(file.lines, file.stem)]

\* _navigation_shard_payload: all but the path; the name of the unit is that of
\* the first symbol
Payload(result) ==
    [unit |-> IF result.raws = <<>> THEN "" ELSE result.raws[1].unit, symbols |-> result.raws]

\* _navigation_result_from_shard, when every field has its type
FromShard(file, payload) ==
    [path |-> file.path,
     raws |-> [i \in DOMAIN payload.symbols |->
                 [payload.symbols[i] EXCEPT !.unit = IF payload.unit = "" THEN file.stem ELSE payload.unit]]]

\* A shard is found by the digest of the text (and the defines, the same here).
Load(file) == IF file.lines \in DOMAIN store THEN store[file.lines] ELSE NoShard

Located(result) ==
    [i \in DOMAIN result.raws |->
        [f \in DOMAIN result.raws[i] \cup {"path"} |->
            IF f = "path" THEN result.path ELSE result.raws[i][f]]]

-----------------------------------------------------------------------------
(* Assembly                                                                 *)

\* The order of tuples: by the first place they differ.
LexLess(a, b) ==
    \/ \E i \in DOMAIN a \cap DOMAIN b :
          a[i] < b[i] /\ \A j \in 1 .. i - 1 : a[j] = b[j]
    \/ Len(a) < Len(b) /\ IsPrefix(a, b)

RankAll(name) == [i \in DOMAIN name |-> Rank(name[i])]

\* Mutant: overloads are counted over all files.
IdentityWithoutPath(raw) == <<raw.kind, raw.qname, raw.sig>>

Identity(raw) == <<raw.kind, raw.path, raw.qname, raw.sig>>

\* The ordinal of a symbol among those with its identity, by position.
Ordinal(all, i) ==
    Cardinality({j \in DOMAIN all : /\ Identity(all[j]) = Identity(all[i])
                                    /\ all[j].at < all[i].at \/ (all[j].at = all[i].at /\ j < i)})

\* make_target_id, with the signature in the name of a routine
TargetId(raw, ordinal) ==
    <<raw.kind, raw.path, raw.qname, IF raw.kind = "routine" THEN raw.sig ELSE <<>>, ordinal>>

NoTarget == <<>>
\* parent_ids: the first type delivered under a qualified name
ParentId(all, qname) ==
    LET types == {j \in DOMAIN all : all[j].kind = "type" /\ all[j].qname = qname}
    IN IF qname = <<>> \/ types = {} THEN NoTarget
       ELSE TargetId(all[Min(types)], Ordinal(all, Min(types)))

Entry(all, i) ==
    [name |-> all[i].name, kind |-> all[i].kind, at |-> all[i].at, lineEnd |-> all[i].lineEnd,
     path |-> all[i].path, unit |-> all[i].unit, qname |-> all[i].qname, sig |-> all[i].sig,
     visibility |-> all[i].visibility, ordinal |-> Ordinal(all, i),
     target |-> TargetId(all[i], Ordinal(all, i)), parent |-> ParentId(all, all[i].parent)]

\* _entry_sort_key: the qualified name, then kind, path, position and ordinal
SortKey(e) == <<Rank(e.kind), Rank(e.path), e.at, e.ordinal>>
Before(a, b) == \/ LexLess(RankAll(a.qname), RankAll(b.qname))
                \/ a.qname = b.qname /\ LexLess(SortKey(a), SortKey(b))

Assembled(all) == SortSeq([i \in DOMAIN all |-> Entry(all, i)], Before)

-----------------------------------------------------------------------------
(* What requests read                                                       *)

\* _ranked_entries: 0 for the name or qualified name itself, with or without
\* the unit, 1 for a beginning of one, 2 for a part of one, 3 for none
Relative(e) == IF Len(e.qname) > 1 /\ e.qname[1] = e.unit THEN Tail(e.qname) ELSE e.qname
PartOf(q, name) == \E i, j \in DOMAIN name : SubSeq(name, i, j) = q
Match(e, q) ==
    IF q \in {e.name, e.qname, Relative(e)} THEN 0
    ELSE IF IsPrefix(q, e.name) \/ IsPrefix(q, e.qname) \/ IsPrefix(q, Relative(e)) THEN 1
    ELSE IF PartOf(q, e.name) \/ PartOf(q, e.qname) THEN 2 ELSE 3

Ranked(registry, q) ==
    IF q = <<>> THEN registry
    ELSE FlattenSeq([m \in 1 .. 3 |-> SelectSeq(registry, LAMBDA e : Match(e, q) = m - 1)])

\* _matching_counterparts
Counterparts(registry, e) ==
    SelectSeq(registry, LAMBDA c : /\ c.target # e.target /\ c.kind = e.kind
                                   /\ c.qname = e.qname /\ c.sig = e.sig)

\* The members of inspect, by the parent's id.
Members(registry, e) == SelectSeq(registry, LAMBDA m : m.parent = e.target)

\* _CpgCandidates: the routines with a name or qualified name
CpgCandidates(registry, name) ==
    SelectSeq(registry, LAMBDA e : e.kind = "routine" /\ (e.name = name \/ e.qname = name))

-----------------------------------------------------------------------------
NoAnswer == [detail |-> "none"]
Fresh(p) == [f \in DOMAIN p |-> NoSpans]

Plan(p, shards) == {f \in DOMAIN p : p[f].lines \in DOMAIN shards}

Init ==
    /\ project \in Projects
    /\ store = [text \in {} |-> NoShard]
    /\ hitsLeft = {} /\ waiting = 1 .. Len(project)
    /\ raws = <<>> /\ builds = 1 /\ cold = TRUE /\ entries = <<>>
    /\ documents = Fresh(project) /\ asks = 0 /\ answer = NoAnswer

\* Another project, or the same with other names, is built with the store there
\* is: the files whose text it knows are hits.
Rebuild(p) ==
    /\ entries # <<>> /\ builds < MaxBuilds /\ project \in Rebuilt
    /\ project' = p /\ builds' = builds + 1
    /\ hitsLeft' = Plan(p, store) /\ waiting' = DOMAIN p \ Plan(p, store)
    /\ cold' = (Plan(p, store) = {})
    /\ raws' = <<>> /\ entries' = <<>> /\ documents' = Fresh(p) /\ asks' = 0 /\ answer' = NoAnswer
    /\ UNCHANGED store

\* The hits are consumed in the order of the files, before the batch.
ConsumeHit ==
    /\ hitsLeft # {}
    /\ LET f == Min(hitsLeft)
       IN /\ raws' = raws \o Located(FromShard(project[f], Load(project[f])))
          /\ hitsLeft' = hitsLeft \ {f}
    /\ UNCHANGED <<project, store, waiting, builds, cold, entries, documents, asks, answer>>

\* The batch delivers a file it has parsed, and its shard is stored.
Deliver(f, result) ==
    /\ raws' = raws \o Located(result)
    /\ store' = [text \in DOMAIN store \cup {project[f].lines} |->
                    IF text = project[f].lines THEN Payload(result) ELSE store[text]]
ConsumeParsed(f) ==
    /\ hitsLeft = {} /\ f \in waiting
    /\ Deliver(f, ResultOf(project[f]))
    /\ waiting' = waiting \ {f}
    /\ UNCHANGED <<project, hitsLeft, builds, cold, entries, documents, asks, answer>>

\* The registry is assembled; shards of texts no file has any more are pruned.
Assemble ==
    /\ hitsLeft = {} /\ waiting = {} /\ entries = <<>>
    /\ entries' = Assembled(raws)
    /\ store' = Restrict(store, {project[f].lines : f \in Files})
    /\ UNCHANGED <<project, hitsLeft, waiting, raws, builds, cold, documents, asks, answer>>

FileOf(e) == CHOOSE f \in Files : project[f].path = e.path
TokensOf(e) == Tokens(project[FileOf(e)].lines)
OwnBody(e) == e.kind = "routine" /\ e.parent = NoTarget /\ ~InInterface(TokensOf(e), e.at)
BodyOf(e, docs) == BodySpan(TokensOf(e), e.at, e.kind, e.parent # NoTarget, docs[FileOf(e)])

Searched(e, docs) ==
    IF OwnBody(e) THEN [docs EXCEPT ![FileOf(e)] = SpansAfter(TokensOf(e), e.at, @)] ELSE docs

RECURSIVE FirstBody(_, _), TryBody(_, _, _)
\* _body_entry_and_span: the first of the candidates that has a body, with the
\* caches as the search leaves them
FirstBody(candidates, docs) ==
    IF candidates = <<>> THEN [entry |-> NoTarget, span |-> NoSpan, docs |-> docs]
    ELSE TryBody(candidates, BodyOf(candidates[1], docs), Searched(candidates[1], docs))
TryBody(candidates, span, after) ==
    IF span # NoSpan THEN [entry |-> candidates[1].target, span |-> span, docs |-> after]
    ELSE FirstBody(Tail(candidates), after)

BodyCandidates(e) == <<e>> \o IF e.kind = "routine" THEN Counterparts(entries, e) ELSE <<>>

\* inspect with the detail body; AgentContext builds the registry first
AnswerBody(i, found) ==
    /\ asks < MaxAsks /\ asks' = asks + 1
    /\ documents' = found.docs
    /\ answer' = [detail |-> "body", of |-> i, span |-> found.span, entry |-> found.entry]
    /\ UNCHANGED <<project, store, hitsLeft, waiting, raws, builds, cold, entries>>
AskBody(i) == AnswerBody(i, FirstBody(BodyCandidates(entries[i]), documents))

\* inspect with the details that read no cached span, and find
Details == {"declaration", "members", "implementations"}
Inspected(e, detail) ==
    CASE detail = "declaration" -> DeclarationSpan(TokensOf(e), e.at, e.kind, e.lineEnd)
      [] detail = "members" -> Members(entries, e)
      [] detail = "implementations" ->
            [c \in DOMAIN Counterparts(entries, e) |->
                LET other == Counterparts(entries, e)[c]
                IN <<other.target, DeclarationSpan(TokensOf(other), other.at, other.kind, other.lineEnd)>>]

Answer(new) ==
    /\ asks = 0 /\ asks' = MaxAsks /\ answer' = new
    /\ UNCHANGED <<project, store, hitsLeft, waiting, raws, builds, cold, entries, documents>>

AskOther(i) == \E d \in Details : Answer([detail |-> d, of |-> i, items |-> Inspected(entries[i], d)])
Find(q) == entries # <<>> /\ Answer([detail |-> "find", query |-> q, items |-> Ranked(entries, q)])
Callees(n) == entries # <<>> /\ Answer([detail |-> "callees", query |-> n, items |-> CpgCandidates(entries, n)])

\* evict_auxiliary_caches drops the documents
Evict ==
    /\ asks > 0 /\ documents # Fresh(project) /\ documents' = Fresh(project) /\ answer' = NoAnswer
    /\ UNCHANGED <<project, store, hitsLeft, waiting, raws, builds, cold, entries, asks>>

Next ==
    \/ \E p \in Rebuilt : Rebuild(p)
    \/ ConsumeHit
    \/ \E f \in waiting : ConsumeParsed(f)
    \/ Assemble
    \/ \E i \in DOMAIN entries : AskBody(i)
    \/ \E i \in DOMAIN entries : AskOther(i)
    \/ \E q \in Queries : Find(q)
    \/ \E q \in Queries : Callees(q)
    \/ Evict

Spec == Init /\ [][Next]_vars

-----------------------------------------------------------------------------
(* What the code promises.                                                  *)

\* The registry of a build in the order of the files without a store.
InOrder == Assembled(FlattenSeq([f \in Files |-> Located(ResultOf(project[f]))]))
WithoutParents(registry) == [i \in DOMAIN registry |-> [registry[i] EXCEPT !.parent = NoTarget]]

\* The order in which parsed files are delivered changes neither ids and
\* ordinals nor the order of the entries, and in every order the ids tell the
\* symbols apart: the registry finds every entry under its own id.
DeliveryOrderIsInvisible ==
    /\ \A i, j \in DOMAIN entries : entries[i].target = entries[j].target => i = j
    /\ entries # <<>> /\ cold /\ asks = 0 => WithoutParents(entries) = WithoutParents(InOrder)

RECURSIVE PlainEnd(_, _)
\* Where the routine that is open at j ends, by recursion and without a cache.
PlainEnd(ts, j) ==
    IF j > Len(ts) \/ At(ts, j) \in {"end", Directive} \cup PartWords \cup NoBodyWords THEN 0
    ELSE IF OpensStructure(ts, j)
         THEN IF At(ts, j + 1) = ";" THEN PlainEnd(ts, j + 2)
              ELSE IF EndsBlock(ts, j) = 0 THEN 0 ELSE PlainEnd(ts, EndsBlock(ts, j) + 1)
    ELSE IF At(ts, j) \in {"begin", "asm"} THEN EndsBlock(ts, j)
    ELSE IF At(ts, j) \in RoutineWords /\ DeclaresRoutine(ts, j) /\ HeadingEnd(ts, j) # 0
         THEN LET nested == PlainEnd(ts, HeadingEnd(ts, j) + 1)
              IN PlainEnd(ts, 1 + IF nested # 0 THEN nested ELSE DeclarationEnd(ts, j))
    ELSE PlainEnd(ts, j + 1)

\* A body does not depend on what was asked before or evicted since: it is the
\* body of the first candidate that has one, and ends where plain recursion over
\* nested routines ends it (the code walks a stack of frames, gives up all of
\* them at once and remembers what it found for each).
PlainRoutineEnd(ts, r) == IF r = 0 \/ HeadingEnd(ts, r) = 0 THEN 0 ELSE PlainEnd(ts, HeadingEnd(ts, r) + 1)
SpanTo(ts, i, end) == IF end = 0 THEN NoSpan ELSE WithoutDirective(ts, <<i, end>>)
PlainBody(e) ==
    IF e.kind = "type" THEN BodyOf(e, Fresh(project))
    ELSE IF ~OwnBody(e) THEN NoSpan
    ELSE SpanTo(TokensOf(e), e.at, PlainRoutineEnd(TokensOf(e), RoutineKeyword(TokensOf(e), e.at)))

FirstPlain(having) ==
    IF having = <<>> THEN answer.span = NoSpan
    ELSE answer.span = PlainBody(having[1]) /\ answer.entry = having[1].target
BodiesIgnoreHistory ==
    answer.detail = "body" =>
        FirstPlain(SelectSeq(BodyCandidates(entries[answer.of]), LAMBDA c : PlainBody(c) # NoSpan))

\* The texts are fixed: it is enough to look at them before any is parsed.
TextsAreNew == waiting = Files

\* The names a build may define.
Builds == SUBSET {"D", "E"}

\* A word is compiled exactly where each conditional around it is in the branch
\* whose condition is the first to hold (the code keeps a stack of frames).
OnlyTakenBranchesShow ==
    TextsAreNew => \A f \in Files : \A defines \in Builds :
        LET es == Elements(project[f].lines)  out == Source!ScanText(es, defines)
        IN /\ Len(out) = Len(es)
           /\ \A i \in DOMAIN es : es[i].is = "word" =>
                  (out[i] = es[i] <=> Source!Shows(es, i, defines))

\* Between BEGIN and its END, by counting.
InBody(es, j) ==
    LET words(b, k, set) == Cardinality({i \in b .. k : es[i].is = "word" /\ es[i].text \in set})
    IN \E b \in 1 .. j - 1 :
          /\ es[b].is = "word" /\ es[b].text \in Source!Bodies
          /\ \A k \in b .. j : words(b, k, Source!EndTerminatedStatements \cup {"record"}) > words(b, k, {"end"})

\* An outline hides no declaration: whatever it leaves out stands inside a body
\* in every build that compiles it, also when the outline is made once for all
\* builds, from a text in which every branch is still there.
OutlineHidesOnlyBodies ==
    TextsAreNew => \A f \in Files :
        LET es == Elements(project[f].lines)  ofAll == Source!OutlineOfAll(es)
        IN \A defines \in Builds :
              LET compiled == Source!ScanText(es, defines)
                  outline == Source!OutlineFor(es, defines)
              IN \A i \in DOMAIN es :
                    /\ compiled[i].is = "word"
                    /\ outline[i].is # "word" \/ ofAll[i].is # "word"
                    => InBody(compiled, i)

=============================================================================
