---------------------------- MODULE LanguageServer ----------------------------
(***************************************************************************)
(* The language server (src/delphi_lsp/lsp_server.py): the documents an    *)
(* editor has open, the files under the roots, the models built from both, *)
(* and the answers.  Requests run on the main thread one at a time;        *)
(* notifications run to their diagnostics in a pool of Threads threads, in *)
(* between.  A model is named by the text it was built from.               *)
(***************************************************************************)
EXTENDS EditorFeatures, Functions

CONSTANTS
    Files, Listed,      \* the files, and those under the roots
    Content,            \* the texts, by the names that stand for them here
    TextsOf,            \* the texts each file may have
    FirstDisk,          \* the files on disk at first, with a text or None
    Queries, Positions, \* what is asked: queries, and pairs of a request and a position
    None,               \* no text, no result
    Threads,            \* the threads of the pool
    CacheSize,          \* _WORKSPACE_SYMBOL_QUERY_CACHE_SIZE
    Loads               \* BOUND: how many of each of counts, one of these

ASSUME TextsAssumption == None \notin Nat /\ \A f \in Files : None \notin TextsOf[f]
ASSUME PositionsAssumption ==
    \A r \in Positions : r[1] \in {"definition", "references", "rename", "completion"}
ASSUME SizesAssumption == Threads \in Nat \ {0} /\ CacheSize \in Nat \ {0}
ASSUME LoadsAssumption == Loads \subseteq [notes : Nat, writes : Nat, asked : Nat, told : Nat]

VARIABLES
    disk,       \* [text, stamp, there] of each file
    editor,     \* what the editor shows of each file, None when it is closed
    documents,  \* the texts of documents
    built,      \* DocumentSnapshot.semantic
    workspace,  \* workspace.models
    fileCache,  \* file_cache, [text, stamp] by file
    files,      \* workspace_files
    index,      \* workspace_symbol_index
    queries,    \* workspace_symbol_query_cache, the last used at the end
    lines,      \* source_line_cache
    indexed,    \* the index the model of each file asks: see Elsewhere
    shared,     \* the files whose snapshot holds the model of the workspace
    tasks,      \* the notifications not yet handled, in order
    main,       \* the request under way
    reply,      \* the answer just given
    shown,      \* the text whose diagnostics the editor shows
    recent,     \* what a file was since caches were last cleared: see HeldBy
    ordered,    \* the last notification of a file arrived with none of its own under way
    fresh,      \* the file whose notification was last handled alone, or None
    counts      \* notifications, writes, searches and questions about positions so far

vars == <<disk, editor, documents, built, workspace, fileCache, files, index,
          queries, lines, indexed, shared, tasks, main, reply, shown, recent, ordered,
          fresh, counts>>
client == <<disk, editor, recent, ordered, fresh, counts>>
symbolCaches == <<fileCache, files, index, queries>>
lookups == <<indexed, shared>>
models == <<documents, built, workspace>>

Outlines == [t \in DOMAIN Content |-> Outline(Content[t])]
OutlineOf(t) == IF t = None THEN <<>> ELSE Outlines[t]
FullOf(t) == IF t = None THEN <<>> ELSE Outlines[t] \o Content[t].body
CharsOf(t, line) == Chars(Content[t], line)

Room(k) == \E load \in Loads : counts[k] < load[k] /\ \A o \in DOMAIN load : counts[o] <= load[o]

Nothing == [f \in Files |-> None]
Idle == [op |-> "idle"]
NoReply == [kind |-> "none"]
Over(upper, lower) == [f \in Files |-> IF upper[f] # None THEN upper[f] ELSE lower[f]]
Texts(cache) == [f \in Files |-> IF cache[f] = None THEN None ELSE cache[f].text]

\* What stands for a file: its text, or of a missing one what was last read of it
HeldBy(f, there) == IF there THEN {disk[f].text} ELSE {None, Texts(fileCache)[f]}
Held == [f \in Files |-> HeldBy(f, disk[f].there)]

Init ==
    /\ disk = [f \in Files |-> [text |-> FirstDisk[f], stamp |-> 0, there |-> FirstDisk[f] # None]]
    /\ recent = [f \in Files |-> {FirstDisk[f]}]
    /\ editor = Nothing /\ documents = Nothing /\ built = Nothing /\ workspace = Nothing
    /\ fileCache = Nothing /\ files = {} /\ index = None /\ queries = <<>>
    /\ lines = Nothing /\ tasks = <<>> /\ main = Idle /\ reply = NoReply /\ shown = Nothing
    /\ indexed = [f \in Files |-> [texts |-> Nothing, searched |-> FALSE]] /\ shared = {}
    /\ ordered = [f \in Files |-> TRUE] /\ fresh = None
    /\ counts = [notes |-> 0, writes |-> 0, asked |-> 0, told |-> 0]

-----------------------------------------------------------------------------
(* The editor and the disk                                                  *)

Task(kind, f, text, step) == [kind |-> kind, file |-> f, text |-> text, step |-> step, sources |-> Nothing]
Pending(f) == \E i \in DOMAIN tasks : tasks[i].file = f
Notify(f, text, task) ==
    /\ main = Idle /\ Room("notes")
    /\ reply' = NoReply
    /\ ordered' = [ordered EXCEPT ![f] = ~Pending(f)]
    /\ fresh' = IF tasks = <<>> THEN fresh ELSE None
    /\ editor' = [editor EXCEPT ![f] = text]
    /\ tasks' = Append(tasks, task)
    /\ counts' = [counts EXCEPT !.notes = @ + 1]
    /\ UNCHANGED <<disk, recent, models, symbolCaches, lines, lookups, main, shown>>

DidOpen(f) == \E t \in TextsOf[f] : editor[f] = None /\ Notify(f, t, Task("open", f, t, "set"))
DidChange(f) ==
    \E t \in TextsOf[f] \ {editor[f]} : editor[f] # None /\ Notify(f, t, Task("change", f, None, "read"))
DidClose(f) == editor[f] # None /\ Notify(f, None, Task("close", f, None, "set"))

\* Writes of the same text count: they renew the time of the file.
Write(f) ==
    /\ Room("writes") /\ reply' = NoReply
    /\ \E t \in TextsOf[f] :
          /\ disk' = [disk EXCEPT ![f] = [text |-> t, stamp |-> counts.writes + 1, there |-> TRUE]]
          /\ recent' = [recent EXCEPT ![f] = @ \cup {t}]
    /\ counts' = [counts EXCEPT !.writes = @ + 1]
    /\ UNCHANGED <<editor, ordered, fresh, models, symbolCaches, lines, lookups, tasks, main, shown>>

Unlink(f) ==
    /\ Room("writes") /\ disk[f].there /\ reply' = NoReply
    /\ disk' = [disk EXCEPT ![f].there = FALSE]
    /\ recent' = [recent EXCEPT ![f] = @ \cup HeldBy(f, FALSE)]
    /\ counts' = [counts EXCEPT !.writes = @ + 1]
    /\ UNCHANGED <<editor, ordered, fresh, models, symbolCaches, lines, lookups, tasks, main, shown>>

-----------------------------------------------------------------------------
(* update_document and remove_document, on a thread of the pool             *)

OnDisk(f) == IF disk[f].there THEN disk[f].text ELSE None
Running(i, step) == i \in DOMAIN tasks /\ i <= Threads /\ tasks[i].step = step
Step(i, task) == tasks' = [tasks EXCEPT ![i] = task]

\* text_for_uri
TextFor(f) ==
    IF documents[f] # None THEN documents[f]
    ELSE IF fileCache[f] # None THEN fileCache[f].text ELSE OnDisk(f)

\* semantic_for_uri, by the text of the model
ModelFor(f) ==
    IF documents[f] # None THEN built[f]
    ELSE IF workspace[f] # None THEN workspace[f] ELSE OnDisk(f)

\* did_change takes the text pygls has by now, from disk if the file is closed
ReadText(i) ==
    /\ Running(i, "read") /\ reply' = NoReply
    /\ LET text == Over(editor, [f \in Files |-> OnDisk(f)])[tasks[i].file]
       IN IF text = None THEN tasks' = RemoveAt(tasks, i)
          ELSE Step(i, [tasks[i] EXCEPT !.text = text, !.step = "set"])
    /\ UNCHANGED <<client, models, symbolCaches, lines, lookups, main, shown>>

\* Mutant: what was found for a query outlives the texts.
KeepQueries == queries
NoQueries == <<>>

SetDocument(i) ==
    /\ Running(i, "set") /\ reply' = NoReply
    /\ LET f == tasks[i].file
           known == tasks[i].kind # "close" \/ documents[f] # None
       IN /\ documents' = [documents EXCEPT ![f] = tasks[i].text]
          /\ built' = [built EXCEPT ![f] = None]
          /\ index' = IF known THEN None ELSE index
          /\ queries' = IF known THEN NoQueries ELSE queries
          /\ recent' = IF known THEN Held ELSE recent
          /\ fresh' = IF known /\ Len(tasks) = 1 THEN f ELSE fresh
          /\ Step(i, [tasks[i] EXCEPT !.step = IF known THEN "collect" ELSE "publish"])
    /\ UNCHANGED <<disk, editor, ordered, counts, workspace, fileCache, files, lines, lookups, main, shown>>

\* _collect_sources: documents over files
\* Mutant: the other way round.
FilesFirst == Over(Texts(fileCache), documents)
Sources == Over(documents, Texts(fileCache))

\* _rebuild begins: without sources there is no workspace
Collect(i) ==
    /\ Running(i, "collect") /\ reply' = NoReply
    /\ index' = None /\ queries' = NoQueries
    /\ recent' = Held
    /\ workspace' = IF Sources = Nothing THEN Nothing ELSE workspace
    /\ Step(i, [tasks[i] EXCEPT !.sources = Sources,
                                !.step = IF Sources = Nothing THEN "publish" ELSE "store"])
    /\ UNCHANGED <<disk, editor, ordered, fresh, counts, documents, built, fileCache, files, lines, lookups,
                   main, shown>>

\* ... and ends, with the documents there are by then; a snapshot of the same
\* text shares its model, and every model asks the index of all of them
Store(i) ==
    /\ Running(i, "store") /\ reply' = NoReply
    /\ indexed' = [f \in Files |-> [texts |-> tasks[i].sources, searched |-> FALSE]]
    /\ shared' = {f \in Files : fileCache[f] # None /\ tasks[i].sources[f] = fileCache[f].text}
    /\ workspace' = tasks[i].sources
    /\ built' = [f \in Files |-> IF documents[f] # None THEN tasks[i].sources[f] ELSE None]
    /\ Step(i, [tasks[i] EXCEPT !.step = "publish", !.sources = Nothing])
    /\ UNCHANGED <<client, documents, symbolCaches, lines, main, shown>>

\* source_line_cache.clear() and the diagnostics
Publish(i) ==
    /\ Running(i, "publish") /\ reply' = NoReply
    /\ lines' = Nothing
    /\ shown' = [shown EXCEPT ![tasks[i].file] =
                    IF tasks[i].kind = "close" THEN None ELSE ModelFor(tasks[i].file)]
    /\ tasks' = RemoveAt(tasks, i)
    /\ UNCHANGED <<client, models, symbolCaches, lookups, main>>

-----------------------------------------------------------------------------
(* workspace/symbol                                                         *)

Holds(chars, q) == \E i \in 0 .. Len(chars) - Len(q) : SubSeq(chars, i + 1, i + Len(q)) = q
Matches(t, q) == q = <<>> \/ \E n \in DOMAIN Content[t].lines : Holds(CharsOf(t, n), q)

\* _source_range_to_lsp: by the lines cached, or the text there is now
LinesOf(f) == IF lines[f] # None THEN lines[f] ELSE TextFor(f)
ToLsp(f, range) == IF LinesOf(f) = None THEN range ELSE ToEditor(Content[LinesOf(f)], range)
LinesRead(read) == [f \in Files |-> IF f \in read THEN LinesOf(f) ELSE lines[f]]

Found(symbols, q) == {n \in 2 .. Len(symbols) : Holds(symbols[n].name, q)}
Range1(s) == <<s.line, s.col, NameEnd(s)>>
ItemsOf(f, symbols, q) == {<<f, symbols[n].name, ToLsp(f, Range1(symbols[n]))>> : n \in Found(symbols, q)}
Items(result, q) ==
    UNION {IF result[f] = None THEN {} ELSE ItemsOf(f, OutlineOf(result[f]), q) : f \in Files}
Answered(result, clean) ==
    /\ main' = Idle
    /\ reply' = [kind |-> "symbols", query |-> main.query, result |-> result, clean |-> clean,
                 items |-> Items(result, main.query)]
    /\ lines' = LinesRead({it[1] : it \in Items(result, main.query)})

Search(query, quiet, step, stamps, result) ==
    [op |-> "symbols", query |-> query, quiet |-> quiet, step |-> step, stamps |-> stamps, result |-> result]
AskSymbols(q) ==
    /\ main = Idle /\ Room("asked") /\ reply' = NoReply
    /\ main' = Search(q, tasks = <<>>, "look", Nothing, Nothing)
    /\ counts' = [counts EXCEPT !.asked = @ + 1]
    /\ UNCHANGED <<disk, editor, recent, ordered, fresh, models, symbolCaches, lines, lookups, tasks, shown>>

At(step) == main.op = "symbols" /\ main.step = step
CachedAt(q) == {i \in DOMAIN queries : queries[i].query = q}

AnswerFromIndex ==
    /\ At("look") /\ index # None
    /\ Answered(index.result, index.clean)
    /\ UNCHANGED <<client, models, symbolCaches, lookups, tasks, shown>>

AnswerFromCache ==
    /\ At("look") /\ index = None /\ main.query # <<>>
    /\ \E i \in CachedAt(main.query) :
          /\ queries' = Append(RemoveAt(queries, i), queries[i])
          /\ Answered(queries[i].result, queries[i].clean)
    /\ UNCHANGED <<client, models, fileCache, files, index, lookups, tasks, shown>>

\* _scan_workspace_files, once; then _refresh_file_cache: what is no longer
\* listed goes, and the files are asked for their times
ScanFiles ==
    /\ At("look") /\ index = None /\ CachedAt(main.query) = {}
    /\ files' = IF files = {} THEN {f \in Listed : disk[f].there} ELSE files
    /\ fileCache' = [f \in Files |-> IF f \in files' THEN fileCache[f] ELSE None]
    /\ shared' = shared \cap files'
    /\ main' = Search(main.query, main.quiet, "read",
                      [f \in Files |-> IF disk[f].there THEN disk[f].stamp ELSE None], Nothing)
    /\ UNCHANGED <<client, models, index, queries, lines, indexed, tasks, reply, shown>>

\* ... and read if it has changed; a file that cannot be read keeps its snapshot
Snapshot(f) == [text |-> disk[f].text, stamp |-> main.stamps[f]]
Unchanged(f) == fileCache[f] # None /\ fileCache[f].stamp = main.stamps[f]
Readable(f) == f \in files /\ main.stamps[f] # None /\ disk[f].there
Refreshed == [f \in Files |-> IF Readable(f) /\ ~Unchanged(f) THEN Snapshot(f) ELSE fileCache[f]]
Matching(texts, q) == [f \in Files |-> IF texts[f] # None /\ Matches(texts[f], q) THEN texts[f] ELSE None]

ReadFiles ==
    /\ At("read")
    /\ fileCache' = Refreshed
    /\ shared' = {f \in shared : Refreshed[f] = fileCache[f]}
    /\ main' = Search(main.query, main.quiet, "put", Nothing,
                      Over(Matching(documents, main.query), Matching(Texts(Refreshed), main.query)))
    /\ UNCHANGED <<client, models, files, index, queries, lines, indexed, tasks, reply, shown>>

\* _outline_workspace_semantics gives the models it reuses the index of the list
Reindexed(result) ==
    [f \in Files |-> IF f \in shared /\ result[f] # None /\ result[f] = fileCache[f].text
                     THEN [texts |-> result, searched |-> TRUE] ELSE indexed[f]]

Trimmed(cache) == IF Len(cache) > CacheSize THEN Tail(cache) ELSE cache
Entry == [query |-> main.query, result |-> main.result, clean |-> main.quiet]
\* No entry is of this query: it was missing when asked, and only this loop adds
PutQuery ==
    /\ At("put") /\ main.query # <<>>
    /\ queries' = Trimmed(Append(queries, Entry))
    /\ indexed' = Reindexed(main.result)
    /\ Answered(main.result, main.quiet)
    /\ UNCHANGED <<client, models, fileCache, files, index, shared, tasks, shown>>
PutIndex ==
    /\ At("put") /\ main.query = <<>>
    /\ index' = IF main.result = Nothing THEN None ELSE Entry
    /\ indexed' = Reindexed(main.result)
    /\ Answered(main.result, main.quiet)
    /\ UNCHANGED <<client, models, fileCache, files, queries, shared, tasks, shown>>

-----------------------------------------------------------------------------
(* Requests about a position of a document                                  *)

Ask(kind, f, p) ==
    /\ main = Idle /\ Room("told") /\ editor[f] # None /\ reply' = NoReply
    /\ main' = [op |-> kind, file |-> f, pos |-> p, text |-> TextFor(f), quiet |-> tasks = <<>>]
    /\ counts' = [counts EXCEPT !.told = @ + 1]
    /\ UNCHANGED <<disk, editor, recent, ordered, fresh, models, symbolCaches, lines, lookups, tasks, shown>>

\* SymbolIndex.lookup: the unit scopes of the files the index is of, whose order
\* is any; a model built on the spot asks the index of its own unit, in vain
HasIndex(f) == (IF documents[f] # None THEN built[f] ELSE workspace[f]) # None
InUnit(text, name) == Declared(OutlineOf(text), 1, name)
Elsewhere(f, name) ==
    {[file |-> g, text |-> indexed[f].texts[g], n |-> InUnit(indexed[f].texts[g], name)] :
        g \in {h \in Files : HasIndex(f) /\ InUnit(indexed[f].texts[h], name) # 0}}

\* Where the name asked for is declared: [file, text, n], n in the outline of the
\* text, or in its full parse, which is asked last
InDocument == OutlineSymbolAt(OutlineOf(ModelFor(main.file)), Content[main.text], main.pos[1], main.pos[2])
InFull == FullSymbolAt(FullOf(TextFor(main.file)), Content[main.text], main.pos[1], main.pos[2])
NameAsked == IdentifierAt(Content[main.text], main.pos[1], main.pos[2])
Outlined ==
    IF InDocument # 0 THEN {[file |-> main.file, text |-> ModelFor(main.file), n |-> InDocument]}
    ELSE Elsewhere(main.file, NameAsked)

\* The ranges of the request's document, and of the file of the declaration
RangesOf(kind, symbols, s, inOutline) ==
    [here |-> IF kind = "definition" THEN {} ELSE References(Content[TextFor(main.file)], symbols, s),
     there |-> IF kind = "references" THEN {} ELSE {NameRange(s, inOutline)}]
InFile(f, ranges) == {<<f, ToLsp(f, r)>> : r \in ranges}
Told(d, symbols, inOutline) ==
    LET ranges == RangesOf(main.op, symbols, symbols[d.n], inOutline)
    IN [kind |-> main.op, found |-> d, inOutline |-> inOutline,
        ranges |-> InFile(main.file, ranges.here) \cup InFile(d.file, ranges.there)]
ToldNothing == [kind |-> main.op, ranges |-> {}]

\* definition, references and rename: the outline first, then the full parse
Answer ==
    /\ main.op \in {"definition", "references", "rename"}
    /\ IF main.text = None \/ TextFor(main.file) = None THEN reply' = ToldNothing
       ELSE IF Outlined # {} THEN \E d \in Outlined : reply' = Told(d, OutlineOf(d.text), TRUE)
       ELSE IF InFull = 0 THEN reply' = ToldNothing
       ELSE reply' = Told([file |-> main.file, text |-> TextFor(main.file), n |-> InFull],
                          FullOf(TextFor(main.file)), FALSE)
    /\ lines' = LinesRead({r[1] : r \in reply'.ranges})
    /\ main' = Idle
    /\ UNCHANGED <<client, models, symbolCaches, lookups, tasks, shown>>

\* completion builds its own model of the text, the full one unless after a dot
Complete ==
    /\ main.op = "completion"
    /\ LET full == FullOf(TextFor(main.file))
       IN reply' = [kind |-> "completion",
                    names |-> IF full = <<>> THEN {} ELSE Completions(full, ScopeAt(full, main.pos[1]))]
    /\ main' = Idle
    /\ UNCHANGED <<client, models, symbolCaches, lines, lookups, tasks, shown>>

Next ==
    \/ \E f \in Files : DidOpen(f) \/ DidChange(f) \/ DidClose(f) \/ Write(f) \/ Unlink(f)
    \/ \E i \in 1 .. Threads : ReadText(i) \/ SetDocument(i) \/ Collect(i) \/ Store(i) \/ Publish(i)
    \/ \E q \in Queries : AskSymbols(q)
    \/ AnswerFromIndex \/ AnswerFromCache \/ ScanFiles \/ ReadFiles \/ PutQuery \/ PutIndex
    \/ \E r \in Positions, f \in Files : Ask(r[1], f, r[2])
    \/ Answer \/ Complete

Spec == Init /\ [][Next]_vars
-----------------------------------------------------------------------------
(* With no notification under way, the server holds the text the editor    *)
(* shows of each file whose last notification arrived with no other of the  *)
(* file under way, whatever those of other files did meanwhile; and if the  *)
(* last rebuild ran alone, the models of all the documents are of their     *)
(* texts, and the diagnostics of the file it was for are of its text.       *)
IsModelled(f) == built[f] = documents[f] /\ (documents[f] # None => workspace[f] = documents[f])
WorkspaceIsCurrent ==
    tasks = <<>> =>
        /\ \A f \in Files : ordered[f] => documents[f] = editor[f]
        /\ fresh # None => (\A f \in Files : IsModelled(f)) /\ shown[fresh] = documents[fresh]

(* A list of symbols gathered while no notification was under way, perhaps  *)
(* for an earlier request, shows a document that mentions the query as its  *)
(* text is, columns included.  Of any other file it shows what the file     *)
(* held on disk since the last change of a document, if that mentions the   *)
(* query, and once the file is missing what was last read.                  *)
Relevant(text, q) == IF text # None /\ Matches(text, q) THEN text ELSE None
Current(f, q) == IF documents[f] # None /\ Matches(documents[f], q) THEN {documents[f]}
                 ELSE {None} \cup {Relevant(t, q) : t \in recent[f]}
PlaceOf(t, s) == <<s.line, Units(CharsOf(t, s.line), s.col - 1), Units(CharsOf(t, s.line), NameEnd(s) - 1)>>
Mentions(t, q) ==
    {<<s.name, PlaceOf(t, s)>> : s \in {OutlineOf(t)[n] : n \in Found(OutlineOf(t), q)}}
ShownOf(f, items) == {<<it[2], it[3]>> : it \in {i \in items : i[1] = f}}
SymbolsAreCurrent(answer) ==
    \A f \in Files :
        /\ Relevant(answer.result[f], answer.query) \in Current(f, answer.query)
        /\ documents[f] # None /\ Matches(documents[f], answer.query) =>
              ShownOf(f, answer.items) = Mentions(documents[f], answer.query)
AnswersAreCurrent ==
    [][ (main.op = "symbols" /\ main' = Idle /\ tasks = <<>> /\ reply'.clean) => SymbolsAreCurrent(reply') ]_vars

(* A rename of what an outline declares, asked for while no notification    *)
(* is under way and after a rebuild that ran alone, has in its document one *)
(* edit for each time the name stands as a word in the scope of the         *)
(* declaration, at the UTF-16 units it occupies.  It touches another file   *)
(* only if the scopes of the document do not know the name, and then only   *)
(* where that file declares it: if it is a document, and no search came     *)
(* between, as its text does.                                               *)
Encoded(chars) == FlattenSeq([i \in DOMAIN chars |-> IF chars[i] = "wide" THEN <<"high", "low">> ELSE <<chars[i]>>])
WordsOf(t, n, name) ==
    {<<n, i - 1, i - 1 + Len(name)>> : i \in Occurrences(Encoded(CharsOf(t, n)), name)}
WholeWords(t, d) ==
    LET s == OutlineOf(d.text)[d.n]
    IN UNION {WordsOf(t, n, s.name) : n \in SearchLines(Content[t], OutlineOf(d.text), s)}
EditsOf(f) == {r[2] : r \in {e \in reply'.ranges : e[1] = f}}
RenamesDocument(f) == EditsOf(f) = WholeWords(documents[f], reply'.found)
RenamesElsewhere(f, g) ==
    EditsOf(g) # {} =>
        /\ g = reply'.found.file /\ InDocument = 0
        /\ documents[g] # None /\ ~indexed[f].searched =>
              EditsOf(g) = {PlaceOf(documents[g], OutlineOf(documents[g])[InUnit(documents[g], NameAsked)])}
Renamed == main.op = "rename" /\ main' = Idle /\ reply'.ranges # {} /\ reply'.inOutline /\ reply'.found.n # 1
RenameReplacesAll ==
    [][ (Renamed /\ main.quiet /\ fresh # None /\ documents[main.file] # None) =>
            /\ RenamesDocument(main.file)
            /\ \A g \in Files \ {main.file} : RenamesElsewhere(main.file, g) ]_vars
===============================================================================
