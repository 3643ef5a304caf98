---------------------------- MODULE AgentRequests ----------------------------
(***************************************************************************)
(* The requests an AgentContext answers from its caches                    *)
(* (src/delphi_lsp/agent_context.py), one at a time, while files change    *)
(* and memory pressure evicts.  The context is one record; a revision is   *)
(* the number of the last change a scan has seen.  Refresh and Answer are  *)
(* two steps of one request, so that a file can change between the scan    *)
(* and what is read afterwards.  Serve is written over the context it is   *)
(* given: what it answers from an empty one is what a cold start would     *)
(* answer, and the properties compare the two.  context.lazy says that     *)
(* revision_check_interval_seconds is positive.                            *)
(***************************************************************************)
EXTENDS RelationIndex

CONSTANTS Contents, Menus,      \* what each unit may hold; sets of requests one client uses
          MatchOf(_, _),        \* how a name matches a query: 0 best, 3 not at all
          MaxEdits, PreparedLimit, RankedLimit, RankedEntries, SourceBudget, CpgLimit

VARIABLES disk, stamp,   \* the files, and how often one has changed
          context,       \* AgentContext
          menu,          \* the requests of this client
          asked,         \* the request being handled, with its cursor
          reading,       \* the pages a client has joined so far
          reply

vars == <<disk, stamp, context, menu, asked, reading, reply>>

NoTarget == <<>>
NoRegistry == [revision |-> 0, texts |-> <<>>]
NoIndex == [revision |-> 0, index |-> EmptyIndex(FALSE)]
EmptyContext(texts, revision, lazy) ==
    [lazy |-> lazy, revision |-> revision, checked |-> TRUE, workspace |-> texts, indexed |-> TRUE,
     focus |-> NoTarget, registry |-> NoRegistry, ranked |-> <<>>,
     loaded |-> <<>>, loadedBytes |-> 0, relations |-> NoIndex, metrics |-> NoRegistry,
     cpg |-> <<>>, cpgBytes |-> 0, prepared |-> <<>>]

(***************************************************************************)
(* Caches ordered by last use                                              *)
(***************************************************************************)
Has(cache, key) == \E k \in DOMAIN cache : cache[k].key = key
Place(cache, key) == CHOOSE k \in DOMAIN cache : cache[k].key = key
Cached(cache, key) == cache[Place(cache, key)]
Without(cache, key) == IF Has(cache, key) THEN RemoveAt(cache, Place(cache, key)) ELSE cache
Newest(cache, n) == SubSeq(cache, IF Len(cache) > n THEN Len(cache) - n + 1 ELSE 1, Len(cache))
Touched(cache, entry) == Append(Without(cache, entry.key), entry)
BytesOf(cache) == FoldLeft(LAMBDA sum, e : sum + e.bytes, 0, cache)
\* make room for an entry, oldest first; one that is too large is not kept
Freed(cache, bytes, k) == bytes - BytesOf(SubSeq(cache, 1, k))
Suffices(cache, bytes, limit, entry, k) ==
    k = Len(cache) \/ Freed(cache, bytes, k) + entry.bytes <= limit
Victims(cache, bytes, limit, entry) ==
    CHOOSE k \in 0 .. Len(cache) :
        /\ Suffices(cache, bytes, limit, entry, k)
        /\ \A j \in 0 .. k - 1 : ~Suffices(cache, bytes, limit, entry, j)
Admit(cache, bytes, limit, entry) ==
    IF entry.bytes > limit THEN [cache |-> cache, bytes |-> bytes]
    ELSE LET k == Victims(cache, bytes, limit, entry)
         IN [cache |-> Append(SubSeq(cache, k + 1, Len(cache)), entry),
             bytes |-> Freed(cache, bytes, k) + entry.bytes]

(***************************************************************************)
(* Requests.  A target is a group of RelationIndex; <<>> is none.          *)
(***************************************************************************)
Request(action, query, target, detail, relation, graph, depth, items, chars) ==
    [action |-> action, query |-> query, target |-> target, detail |-> detail,
     relation |-> relation, graph |-> graph, depth |-> depth, items |-> items, chars |-> chars]
NoRequest == Request("", "", NoTarget, "", "", "", 0, 0, 0)
RequestActions == {"open", "problems", "find", "focus", "inspect", "metrics", "trace", "cpg"}

ASSUME RequestAssumption ==
    \A m \in Menus : \A q \in m : q.action \in RequestActions /\ DOMAIN q = DOMAIN NoRequest
ASSUME LimitAssumption == {MaxEdits, PreparedLimit, RankedLimit} \subseteq Nat

\* _request_fingerprint, with the target the request was resolved to
Fingerprint(q, target) == <<[q EXCEPT !.target = IF target = NoTarget THEN q.target ELSE target]>>

\* _evict_ and _refresh_workspace
ForgetAuxiliary(c) ==
    [c EXCEPT !.relations = NoIndex, !.metrics = NoRegistry, !.cpg = <<>>, !.cpgBytes = 0,
              !.prepared = <<>>, !.loaded = <<>>, !.loadedBytes = 0]
ForgetNavigation(c) == [ForgetAuxiliary(c) EXCEPT !.registry = NoRegistry, !.ranked = <<>>]
Scanned(c, texts, revision) ==
    [(IF revision # c.revision THEN ForgetNavigation(c) ELSE c)
        EXCEPT !.revision = revision, !.checked = TRUE, !.workspace = texts, !.indexed = TRUE]

\* _require_registry: what is built anew has to know the focus
Targets(texts) == UNION {{Group(u, e) : e \in Range(Entries(texts, u))} : u \in Units}
RequireRegistry(c, read) ==
    IF c.registry.revision = c.revision THEN c
    ELSE [c EXCEPT !.registry = [revision |-> c.revision, texts |-> read],
                   !.ranked = <<>>, !.loaded = <<>>, !.loadedBytes = 0,
                   !.focus = IF @ \in Targets(read) THEN @ ELSE NoTarget]
\* _resolve_target
Wanted(c, q) == IF q.target = NoTarget THEN c.focus ELSE q.target
TargetError(texts, target) ==
    IF target = NoTarget THEN "target_required"
    ELSE IF target \notin Targets(texts) THEN "target_not_found" ELSE ""

\* _SourceStore.__getitem__: the text of a unit, from memory or from disk
Document(c, u, read) ==
    IF Has(c.loaded, u) THEN Cached(c.loaded, u)
    ELSE [key |-> u, content |-> read[u], bytes |-> Len(Facts[read[u]].text)]
Load(c, u, read) ==
    IF Has(c.loaded, u) THEN [c EXCEPT !.loaded = Touched(@, Document(c, u, read))]
    ELSE LET room == Admit(c.loaded, c.loadedBytes, SourceBudget, Document(c, u, read))
         IN [c EXCEPT !.loaded = room.cache, !.loadedBytes = room.bytes]

Served(c, answer, target) == [context |-> c, answer |-> answer, target |-> target]
Refused(c, code) == Served(c, Failed(code), NoTarget)

(***************************************************************************)
(* find and inspect                                                        *)
(***************************************************************************)
CardOf(texts, u, i) == Whole("card", <<"card", texts[u], u, i>>, Entries(texts, u)[i].card)
Places(texts) == UNION {{<<u, i>> : i \in DOMAIN Entries(texts, u)} : u \in Units}
\* _ranked_entries: by how well they match, then by name; all for a blank query
RankKey(texts, query, at) == <<IF query = "" THEN 0 ELSE MatchOf(Entries(texts, at[1])[at[2]].name, query)>> \o at
Ranked(texts, query) ==
    LET matches == {at \in Places(texts) : RankKey(texts, query, at)[1] < 3}
        sorted == InOrder(matches, LAMBDA a, b :
                      KeyBefore(RankKey(texts, query, a), RankKey(texts, query, b)))
    IN [k \in DOMAIN sorted |-> CardOf(texts, sorted[k][1], sorted[k][2])]
FoundCards(c, query) == IF Has(c.ranked, query) THEN Cached(c.ranked, query).cards
                        ELSE Ranked(c.registry.texts, query)
\* a list longer than _RANKED_QUERY_CACHE_MAX_ENTRIES is not kept
Find(c, q) ==
    LET cards == FoundCards(c, q.query)
        entry == [key |-> q.query, cards |-> cards]
    IN Served([c EXCEPT !.ranked = IF Len(cards) <= RankedEntries THEN Newest(Touched(@, entry), RankedLimit)
                                   ELSE Without(@, q.query)],
              Cards(cards, q.chars, CardEnds(cards, q.chars)), NoTarget)

Clip(text, offset) == Lesser(offset, Len(text))
SourceOf(content, at, part, from, to, max) ==
    LET text == Facts[content].text
    IN SourceItems(<<"source", content, at, part>>, text, Clip(text, from), Clip(text, to), max,
                   IsCompact(text, Clip(text, from), Clip(text, to), max))
\* the lines around a declaration
LineBegin(text, line) ==
    IF \E o \in 0 .. Len(text) : LinesBefore(text, o) = line - 1
    THEN CHOOSE o \in 0 .. Len(text) : /\ LinesBefore(text, o) = line - 1
                                       /\ o = 0 \/ LinesBefore(text, o - 1) = line - 2
    ELSE Len(text)
ContextFrom(text, from) ==
    LineBegin(text, IF LinesBefore(text, from) < 3 THEN 1 ELSE LinesBefore(text, from) - 2)
ContextTo(text, to) == LineBegin(text, LinesBefore(text, to) + 7)
InContext(texts, at, e, max, content) ==
    LET text == Facts[content].text
    IN Joined(Good(<<CardOf(texts, at[1], at[2])>>),
              SourceOf(content, at, "context", ContextFrom(text, Clip(text, e.from)),
                       ContextTo(text, Clip(text, e.to)), max))
Counterparts(texts, g) ==
    SelectSeq([k \in DOMAIN Entries(texts, g[1]) |-> k],
              LAMBDA k : k # FirstOf(texts, g) /\ Group(g[1], Entries(texts, g[1])[k]) = g)
CounterpartItems(texts, g, k, max, content) ==
    Joined(Good(<<[CardOf(texts, g[1], k) EXCEPT !.type = "counterpart"]>>),
           SourceOf(content, <<g[1], k>>, "declaration", Entries(texts, g[1])[k].from,
                    Entries(texts, g[1])[k].to, max))
Members(texts, u, i) ==
    SelectSeq([k \in DOMAIN Entries(texts, u) |-> k], LAMBDA k : Entries(texts, u)[k].parent = i)
\* what an entry shows of itself, from the text that is in memory or on disk
Details(texts, g, i, detail, max, content) ==
    LET e == Entries(texts, g[1])[i]
    IN CASE detail = "summary" -> Good(<<CardOf(texts, g[1], i)>>)
         [] detail = "members" ->
               Good([k \in DOMAIN Members(texts, g[1], i) |->
                         CardOf(texts, g[1], Members(texts, g[1], i)[k])])
         [] detail = "declaration" ->
               SourceOf(content, <<g[1], i>>, "declaration", e.from, e.to, max)
         [] detail = "context" -> InContext(texts, <<g[1], i>>, e, max, content)
         [] detail = "body" ->
               IF e.bodyTo = 0 THEN Failed("body_unavailable")
               ELSE SourceOf(content, <<g[1], i>>, "body", e.bodyFrom, e.bodyTo, max)
         [] detail = "implementations" ->
               FoldLeft(LAMBDA done, k : Joined(done, CounterpartItems(texts, g, k, max, content)),
                        Good(<<>>), Counterparts(texts, g))
NeedsText(texts, g, detail) ==
    /\ detail \notin {"summary", "members"}
    /\ detail = "implementations" => Counterparts(texts, g) # <<>>
Inspect(c, g, q, read) ==
    Served(IF NeedsText(c.registry.texts, g, q.detail) THEN Load(c, g[1], read) ELSE c,
           Details(c.registry.texts, g, FirstOf(c.registry.texts, g), q.detail, q.chars,
                   Document(c, g[1], read).content), g)

(***************************************************************************)
(* trace, cpg, metrics, open, problems and focus                           *)
(***************************************************************************)
NeedsAll(relation) == relation \notin {"uses", "used_by"}
IndexIsUsable(c, relation) ==
    /\ c.relations.revision = c.registry.revision
    /\ NeedsAll(relation) => c.relations.index.complete
RelationsFor(c, relation) == IF IndexIsUsable(c, relation) THEN c.relations.index
                             ELSE EmptyIndex(NeedsAll(relation))
Kept(c, index) == [c EXCEPT !.relations = [revision |-> c.registry.revision, index |-> index]]
Traced(c, g, q, index) ==
    Served(Kept(c, index), Good(TraceItems(index, c.registry.texts, g, q.relation)), g)
Trace(c, g, q, read) ==
    IF ~Applicable(g[3], q.relation)
    THEN Served(Kept(c, RelationsFor(c, q.relation)), Failed("relation_not_applicable"), g)
    ELSE Traced(c, g, q, GraphFor(RelationsFor(c, q.relation), c.registry.texts, read, g[1], q.relation))

\* a subgraph of what the target reaches, as deep as asked; callees are looked
\* up among the symbols
\* Mutant: the depth is left out of the key
KeyOfTarget(c, g, q) == <<c.registry.revision, g, q.graph, 1>>
CpgKey(c, g, q) == <<c.registry.revision, g, q.graph, q.depth>>
Reached(content, depth) ==
    SelectSeq(Facts[content].refs, LAMBDA r : r.kind = "call" /\ r.line <= depth)
Nodes(texts, content, g, graph, depth) ==
    LET reached == Reached(content, depth)
    IN [k \in DOMAIN reached |->
           Item("cpg_node", <<content, g, graph, k,
                              {t \in Targets(texts) : t[2] = reached[k].name /\ t[3] \in Routines}>>)]
GraphItems(texts, content, g, graph, depth) ==
    LET nodes == Nodes(texts, content, g, graph, depth)
    IN <<Item("cpg_metadata", <<content, g, graph, depth, Len(nodes)>>)>> \o nodes
Subgraph(c, content, g, q) ==
    LET items == GraphItems(c.registry.texts, content, g, q.graph, q.depth)
    IN [key |-> CpgKey(c, g, q), bytes |-> Len(items), items |-> items]
CpgBuilt(c, g, graph, room) ==
    Served([c EXCEPT !.cpg = room.cache, !.cpgBytes = room.bytes], Good(graph.items), g)
Build(c, loaded, g, q, read) ==
    LET graph == Subgraph(c, Document(c, g[1], read).content, g, q)
    IN CpgBuilt(loaded, g, graph, Admit(c.cpg, c.cpgBytes, CpgLimit, graph))
Cpg(c, g, q, read) ==
    IF g[3] \notin Types \cup Routines \cup {"unit"} THEN Refused(c, "cpg_not_applicable")
    ELSE IF Has(c.cpg, CpgKey(c, g, q))
    THEN Served([c EXCEPT !.cpg = Touched(@, Cached(c.cpg, CpgKey(c, g, q)))],
                Good(Cached(c.cpg, CpgKey(c, g, q)).items), g)
    ELSE Build(c, Load(c, g[1], read), g, q, read)

RequireMetrics(c, read) ==
    IF c.metrics.revision = c.revision THEN c
    ELSE [c EXCEPT !.metrics = [revision |-> c.revision, texts |-> read]]
UnitMetrics(texts, u, detail) == Item("unit_metrics", <<texts[u], u, detail>>)
Measured(texts, query) ==
    SelectSeq([u \in Units |-> u],
              LAMBDA u : query = "" \/ MatchOf(Entries(texts, u)[1].name, query) # 3)
MetricItems(texts, query, detail) ==
    (IF query = "" THEN <<Item("project_metrics", <<texts>>)>> ELSE <<>>)
        \o [k \in DOMAIN Measured(texts, query) |-> UnitMetrics(texts, Measured(texts, query)[k], detail)]
Metrics(c, q) ==
    IF q.detail \notin {"summary", "members"} THEN Refused(c, "invalid_detail")
    ELSE IF q.target = NoTarget
    THEN Served(c, Good(MetricItems(c.metrics.texts, q.query, q.detail)), NoTarget)
    ELSE IF q.target[3] # "unit" THEN Refused(c, "target_not_found")
    ELSE Served(c, Good(<<UnitMetrics(c.metrics.texts, q.target[1], q.detail)>>), q.target)

Problems(texts) ==
    LET broken == SelectSeq([u \in Units |-> u], LAMBDA u : Facts[texts[u]].broken)
    IN [k \in DOMAIN broken |-> Item("problem", <<broken[k]>>)]
ProblemsOf(c) == IF c.indexed THEN Problems(c.workspace) ELSE <<>>
OpenItems(texts, problems) ==
    <<Item("project", <<>>)>>
        \o [u \in 1 .. Cardinality(Units) |-> Item("unit", <<u, Facts[texts[u]].broken>>)]
        \o problems
Focused(target) == Item("focus", <<target>>)
Focus(c, q) ==
    IF q.target = NoTarget THEN Served(c, Good(<<Focused(c.focus)>>), NoTarget)
    ELSE IF TargetError(c.registry.texts, q.target) # ""
    THEN Refused(c, TargetError(c.registry.texts, q.target))
    ELSE Served([c EXCEPT !.focus = q.target], Good(<<Focused(q.target)>>), NoTarget)

\* handle, once the workspace is refreshed
OnTarget(c, q, read) ==
    IF TargetError(c.registry.texts, Wanted(c, q)) # ""
    THEN Refused(c, TargetError(c.registry.texts, Wanted(c, q)))
    ELSE CASE q.action = "inspect" -> Inspect(c, Wanted(c, q), q, read)
           [] q.action = "trace" -> Trace(c, Wanted(c, q), q, read)
           [] q.action = "cpg" -> Cpg(c, Wanted(c, q), q, read)
Serve(c, q, read) ==
    CASE q.action \in {"inspect", "cpg"} -> OnTarget(RequireRegistry(c, read), q, read)
      [] q.action = "trace" -> IF q.relation = "" THEN Refused(c, "relation_required")
                               ELSE OnTarget(RequireRegistry(c, read), q, read)
      [] q.action = "find" -> Find(RequireRegistry(c, read), q)
      [] q.action = "open" -> Served(c, Good(OpenItems(c.workspace, ProblemsOf(c))), NoTarget)
      [] q.action = "problems" -> Served(c, Good(ProblemsOf(c)), NoTarget)
      [] q.action = "metrics" -> Metrics(IF q.detail \in {"summary", "members"}
                                         THEN RequireMetrics(c, read) ELSE c, q)
      [] q.action = "focus" -> Focus(IF q.target = NoTarget THEN c ELSE RequireRegistry(c, read), q)

(***************************************************************************)
(* _response: the items are cut once and kept under revision and request   *)
(***************************************************************************)
Key(c, q, served) == <<c.revision, Fingerprint(q, served.target)>>
Prepared(c, q, served) ==
    IF Has(c.prepared, Key(c, q, served))
    THEN Good(Cached(c.prepared, Key(c, q, served)).items)
    ELSE IF q.action = "find" THEN served.answer ELSE PrepareItems(served.answer, q.chars)
Reply(c, q, cursor, key, prepared) ==
    [request |-> q, cursor |-> cursor, revision |-> c.revision, focus |-> c.focus,
     all |-> prepared.items,
     page |-> IF prepared.error # "" THEN PageError(prepared.error)
              ELSE Paginate(prepared.items, key[1], key[2], q.items, q.chars, cursor)]
Remembered(c, key, prepared) ==
    [c EXCEPT !.prepared = IF prepared.error # "" THEN Without(@, key)
        ELSE Newest(Touched(@, [key |-> key, items |-> prepared.items]), PreparedLimit)]
Response(q, cursor, served) ==
    IF served.answer.error # ""
    THEN [context |-> served.context,
          reply |-> Reply(served.context, q, cursor, <<>>, served.answer)]
    ELSE LET c == served.context
             prepared == Prepared(c, q, served)
         IN [context |-> Remembered(c, Key(c, q, served), prepared),
             reply |-> Reply(c, q, cursor, Key(c, q, served), prepared)]

(***************************************************************************)
(* Actions                                                                 *)
(***************************************************************************)
NothingAsked == [request |-> NoRequest, cursor |-> NoCursor]
NotReading == [request |-> NoRequest, next |-> NoCursor, got |-> <<>>, whole |-> FALSE]
NoReply == [request |-> NoRequest, cursor |-> NoCursor, revision |-> 0, focus |-> NoTarget, all |-> <<>>, page |-> PageError("")]

Init == /\ disk \in {d \in [Units -> UNION Range(Contents)] : \A u \in Units : d[u] \in Contents[u]}
        /\ stamp = 1
        /\ \E lazy \in BOOLEAN : context = EmptyContext(disk, stamp, lazy)
        /\ menu \in Menus
        /\ asked = NothingAsked /\ reading = NotReading /\ reply = NoReply

Idle == asked = NothingAsked
Edit == \E u \in Units : \E c \in Contents[u] :
            /\ stamp <= MaxEdits /\ c # disk[u]
            /\ disk' = [disk EXCEPT ![u] = c] /\ stamp' = stamp + 1 /\ reply' = NoReply
            /\ UNCHANGED <<context, menu, asked, reading>>

\* a request arrives; a client may also go on with a cursor it was given
Refresh(q, cursor) ==
    /\ Idle /\ asked' = [request |-> q, cursor |-> cursor] /\ reply' = NoReply
    /\ \/ context' = Scanned(context, disk, stamp)
       \/ context.lazy /\ context.checked /\ UNCHANGED context
    /\ UNCHANGED <<disk, stamp, menu, reading>>
Ask == \E q \in menu, cursor \in {NoCursor, reading.next} : Refresh(q, cursor)

\* the client joins the pages it gets; a page without a cursor starts anew
Reading(q, cursor, page) ==
    IF page.error # "" THEN NotReading
    ELSE [request |-> q, next |-> page.next, whole |-> page.next = NoCursor,
          got |-> (IF cursor = NoCursor THEN <<>> ELSE reading.got) \o page.items]
Answered(q, cursor, result) ==
    /\ context' = result.context /\ reply' = result.reply
    /\ reading' = IF cursor = NoCursor /\ reading.next # NoCursor /\ q # reading.request THEN reading
                  ELSE Reading(q, cursor, result.reply.page)
Answer ==
    /\ ~Idle /\ asked' = NothingAsked /\ UNCHANGED <<disk, stamp, menu>>
    /\ Answered(asked.request, asked.cursor,
                Response(asked.request, asked.cursor, Serve(context, asked.request, disk)))

\* what the budget of the service does between requests, and the watcher
EvictAuxiliary == Idle /\ context' = ForgetAuxiliary(context)
EvictNavigation == Idle /\ context' = [ForgetNavigation(context) EXCEPT !.indexed = FALSE]
Invalidate == Idle /\ context.lazy /\ context' = [context EXCEPT !.checked = FALSE]
Housekeeping == /\ EvictAuxiliary \/ EvictNavigation \/ Invalidate
                /\ reply' = NoReply /\ UNCHANGED <<disk, stamp, menu, asked, reading>>

(***************************************************************************)
(* Properties                                                              *)
(***************************************************************************)
\* What a context that has just been opened would answer, with the same focus
Cold == Response(reply.request, reply.cursor,
                 Serve([EmptyContext(disk, stamp, FALSE) EXCEPT !.focus = reply.focus],
                       reply.request, disk)).reply

\* The counts and problems of a trace depend on what was loaded before, and so
\* does the clause an edge was found by; what it relates may not
Edges(items) ==
    LET edges == SelectSeq(items, LAMBDA i : i.of[1] = "relation")
    IN [k \in DOMAIN edges |-> [edges[k] EXCEPT !.of = SubSeq(edges[k].of[2], 1, 4)]]
UnitsParse == \A u \in Units : ~Facts[disk[u]].broken
Current == reply # NoReply /\ reply.revision = stamp
\* left out: the focus itself, which no fingerprint holds; problems where a scan
\* may be spared, as an eviction drops them and what is answered then is kept;
\* and uses of units that do not parse
Repeatable == /\ ~(reply.request.action = "focus" /\ reply.request.target = NoTarget)
              /\ reply.request.action \in {"open", "problems"} => ~context.lazy
              /\ ~NeedsAll(reply.request.relation) => UnitsParse

\* No cache of the context shows in an answer: whatever was asked, evicted and
\* edited before, an answer under the revision of the disk is the one a cold
\* context gives, to the page and its cursor (every cache of agent_context.py)
AnswersAreCold == Current /\ Repeatable /\ reply.request.action # "trace" => reply = Cold

\* The same of a trace, as a part of PagesAreWhole: whatever units were loaded before, and whichever index
\* was kept, it relates what a cold context relates (_require_relation_index)
TracesAreCold ==
    Current /\ Repeatable /\ reply.request.action = "trace" =>
        Edges(reply.all) = Edges(Cold.all) /\ reply.page.error = Cold.page.error

\* The text an item was cut from, and that its parts stand side by side
SpanOf(entry, part, text) ==
    CASE part = "declaration" -> SubSeq(text, entry.from + 1, entry.to)
      [] part = "body" -> SubSeq(text, entry.bodyFrom + 1, entry.bodyTo)
      [] part = "context" -> SubSeq(text, ContextFrom(text, entry.from) + 1, ContextTo(text, entry.to))
Original(of) ==
    CASE of[1] = "card" -> Facts[of[2]].entries[of[4]].card
      [] of[1] = "source" -> SpanOf(Facts[of[2]].entries[of[3][2]], of[4], Facts[of[2]].text)
      [] OTHER -> ItemText[of[1]]
PartsJoin(items) ==
    \A k \in DOMAIN items : LET i == items[k] IN
        /\ i.part > 1 => (k > 1 /\ items[k - 1].of = i.of /\ items[k - 1].part = i.part - 1)
        /\ i.part = i.parts =>
              k >= i.parts /\ FlattenSeq([j \in 1 .. i.parts |-> items[k - i.parts + j].text]) = Original(i.of)
        /\ i.part < i.parts => k < Len(items)

\* A client that follows the cursors, whatever it asks in between, has in the
\* end every item of the answer once, and can join what was cut; the pages of a
\* trace are cut from what a cold context relates; no page is longer than asked
\* for, and none is refused after the answer was cut
\* (_prepare_items, _source_items, _SymbolCardSequence and paginate_items)
PagesAreWhole ==
    /\ TracesAreCold
    /\ (reading.whole /\ Current /\ Repeatable /\ reply.request = reading.request) =>
          IF reply.request.action = "trace" THEN Edges(reading.got) = Edges(Cold.all)
          ELSE reading.got = Cold.all /\ PartsJoin(reading.got)
    /\ reply # NoReply =>
          /\ Len(reply.page.items) <= reply.request.items
          /\ PageChars(reply.page.items) <= reply.request.chars
          /\ (reply.all # <<>> => reply.page.error # "item_too_large")

Next == Edit \/ Ask \/ Answer \/ Housekeeping
Spec == Init /\ [][Next]_vars
================================================================================
