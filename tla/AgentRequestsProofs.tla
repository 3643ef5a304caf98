-------------------------- MODULE AgentRequestsProofs --------------------------
(***************************************************************************)
(* What TLAPS proves of the requests of an agent context, for any files,   *)
(* clients, limits of the caches and numbers of edits: that no cache shows *)
(* in an answer.  The proof reads an answer of Serve as a function of the  *)
(* files, the request and the focus (ColdAnswer), and shows that whatever  *)
(* a context that is up to date keeps is what that function would compute. *)
(***************************************************************************)
EXTENDS AgentRequests, SequenceTheorems, WellFoundedInduction, TLAPS

-----------------------------------------------------------------------------
(* The entries of a cache, as a set; a cache is a sequence of them.         *)
IsCache(cache) == cache \in Seq(Range(cache))

(* What a cache of the entries of another and one more is made of.          *)
MadeOf(new, cache, entry) == IsCache(new) /\ Range(new) \subseteq Range(cache) \cup {entry}

(* A sequence over any set is a cache, and its entries are of that set.     *)
LEMMA SequenceIsCache ==
    ASSUME NEW S, NEW s \in Seq(S)
    PROVE  IsCache(s) /\ Range(s) \subseteq S
<1>1. Range(s) \subseteq S
  BY DEF Range
<1>2. \A k \in 1 .. Len(s) : s[k] \in Range(s)
  BY DEF Range
<1>3. s = [k \in 1 .. Len(s) |-> s[k]] /\ Len(s) \in Nat
  OBVIOUS
<1>4. s \in Seq(Range(s))
  BY <1>2, <1>3
<1> QED BY <1>1, <1>4 DEF IsCache

(* The cache that is empty.                                                 *)
LEMMA EmptyIsCache == IsCache(<<>>) /\ Range(<<>>) = {}
  BY DEF IsCache, Range

(* What a key finds is an entry of the cache with that key.                 *)
LEMMA CachedIsEntry ==
    ASSUME NEW cache, NEW key, Has(cache, key)
    PROVE  Cached(cache, key) \in Range(cache) /\ Cached(cache, key).key = key
  BY DEF Has, Cached, Place, Range

(* Dropping the entry of a key leaves entries of the cache.                 *)
LEMMA WithoutIsCache ==
    ASSUME NEW cache, IsCache(cache), NEW key
    PROVE  Without(cache, key) \in Seq(Range(cache))
<1>1. CASE ~Has(cache, key)
  BY <1>1 DEF Without, IsCache
<1>2. CASE Has(cache, key)
  <2> DEFINE k == Place(cache, key)
             S == Range(cache)
  <2>1. k \in 1 .. Len(cache) /\ cache \in Seq(S)
    BY <1>2 DEF Has, Place, IsCache
  <2> HIDE DEF k, S
  <2>2. SubSeq(cache, 1, k - 1) \in Seq(S) /\ SubSeq(cache, k + 1, Len(cache)) \in Seq(S)
    BY <2>1
  <2>3. RemoveAt(cache, k) \in Seq(S)
    BY <2>2 DEF RemoveAt
  <2> QED BY <1>2, <2>3 DEF Without, k, S
<1> QED BY <1>1, <1>2

(* An entry that is used is appended to what is left without its key.       *)
LEMMA TouchedIsMade ==
    ASSUME NEW cache, IsCache(cache), NEW entry
    PROVE  MadeOf(Touched(cache, entry), cache, entry)
<1> DEFINE S == Range(cache) \cup {entry}
           rest == Without(cache, entry.key)
<1>1. rest \in Seq(Range(cache))
  BY WithoutIsCache
<1>2. Seq(Range(cache)) \subseteq Seq(S)
  OBVIOUS
<1> HIDE DEF rest, S
<1>3. Append(rest, entry) \in Seq(S)
  BY <1>1, <1>2 DEF S
<1> QED BY <1>3, SequenceIsCache DEF Touched, MadeOf, rest, S

(* The newest entries of a cache are entries of it.                         *)
LEMMA NewestIsCache ==
    ASSUME NEW S, NEW s \in Seq(S), NEW n \in Nat
    PROVE  Newest(s, n) \in Seq(S)
  BY DEF Newest

LEMMA NewestIsMade ==
    ASSUME NEW new, NEW cache, NEW entry, MadeOf(new, cache, entry), NEW n \in Nat
    PROVE  MadeOf(Newest(new, n), cache, entry)
<1>1. Newest(new, n) \in Seq(Range(new))
  BY NewestIsCache DEF MadeOf, IsCache
<1> QED BY <1>1, SequenceIsCache DEF MadeOf

(* The entries dropped to make room are the first ones, as few as suffice.  *)
LEMMA VictimsExist ==
    ASSUME NEW cache, Len(cache) \in Nat, NEW bytes, NEW limit, NEW entry
    PROVE  Victims(cache, bytes, limit, entry) \in 0 .. Len(cache)
<1> DEFINE T == {k \in 0 .. Len(cache) : Suffices(cache, bytes, limit, entry, k)}
<1>1. Len(cache) \in T
  BY DEF Suffices
<1>2. \E k \in T : \A j \in T : ~(j < k)
  <2>1. \E k \in T : \A j \in T : ~(<<j, k>> \in OpToRel(<, Nat))
    <3>1. T \subseteq Nat /\ T # {}
      BY <1>1
    <3> HIDE DEF T
    <3> QED BY <3>1, NatLessThanWellFounded, WFMin, Zenon
  <2>2. \A j, k \in T : <<j, k>> \in OpToRel(<, Nat) <=> j < k
    <3>1. T \subseteq Nat
      OBVIOUS
    <3> HIDE DEF T
    <3> QED BY <3>1, Zenon DEF OpToRel
  <2> HIDE DEF T
  <2> QED BY <2>1, <2>2
<1>3. \E k \in 0 .. Len(cache) : /\ Suffices(cache, bytes, limit, entry, k)
                                 /\ \A j \in 0 .. k - 1 : ~Suffices(cache, bytes, limit, entry, j)
  <2>1. PICK k \in T : \A j \in T : ~(j < k)
    BY <1>2
  <2>2. \A j \in 0 .. k - 1 : j \in 0 .. Len(cache) /\ j < k
    OBVIOUS
  <2> QED BY <2>1, <2>2
<1> QED BY <1>3 DEF Victims

(* An entry that is admitted is kept after some of the others, or the cache *)
(* stays as it is.                                                          *)
LEMMA AdmitIsMade ==
    ASSUME NEW cache, IsCache(cache), NEW bytes, NEW limit, NEW entry
    PROVE  MadeOf(Admit(cache, bytes, limit, entry).cache, cache, entry)
<1> DEFINE S == Range(cache) \cup {entry}
           k == Victims(cache, bytes, limit, entry)
<1>1. CASE entry.bytes > limit
  BY <1>1 DEF Admit, MadeOf
<1>2. CASE ~(entry.bytes > limit)
  <2>1. k \in 0 .. Len(cache) /\ Len(cache) \in Nat
    BY VictimsExist DEF IsCache
  <2>2. Admit(cache, bytes, limit, entry).cache = Append(SubSeq(cache, k + 1, Len(cache)), entry)
    BY <1>2 DEF Admit
  <2>3. cache \in Seq(S) /\ entry \in S
    BY DEF IsCache
  <2> HIDE DEF k, S
  <2>4. Append(SubSeq(cache, k + 1, Len(cache)), entry) \in Seq(S)
    BY <2>1, <2>3
  <2> QED BY <2>2, <2>4, SequenceIsCache DEF MadeOf, S
<1> QED BY <1>1, <1>2

-----------------------------------------------------------------------------
(* What a request is answered with, as a function of the files, the request *)
(* and the focus.                                                           *)
TargetOf(q, focus) == IF q.target = NoTarget THEN focus ELSE q.target
OnColdTarget(q, focus, answer) ==
    IF TargetError(disk, TargetOf(q, focus)) # ""
    THEN Failed(TargetError(disk, TargetOf(q, focus))) ELSE answer
HasGraph(g) == g[3] \in Types \cup Routines \cup {"unit"}
ColdInspect(q, g) ==
    Details(disk, g, FirstOf(disk, g), q.detail, q.chars, disk[g[1]])
ColdCpg(q, g) ==
    IF HasGraph(g) THEN Good(GraphItems(disk, disk[g[1]], g, q.graph, q.depth))
    ELSE Failed("cpg_not_applicable")
ColdMetrics(q) ==
    IF q.detail \notin {"summary", "members"} THEN Failed("invalid_detail")
    ELSE IF q.target = NoTarget THEN Good(MetricItems(disk, q.query, q.detail))
    ELSE IF q.target[3] # "unit" THEN Failed("target_not_found")
    ELSE Good(<<UnitMetrics(disk, q.target[1], q.detail)>>)
ColdFind(q) ==
    Cards(Ranked(disk, q.query), q.chars, CardEnds(Ranked(disk, q.query), q.chars))
ColdFocus(q) ==
    IF TargetError(disk, q.target) # "" THEN Failed(TargetError(disk, q.target))
    ELSE Good(<<Focused(q.target)>>)
ColdAnswer(q, focus) ==
    CASE q.action = "inspect" -> OnColdTarget(q, focus, ColdInspect(q, TargetOf(q, focus)))
      [] q.action = "cpg" -> OnColdTarget(q, focus, ColdCpg(q, TargetOf(q, focus)))
      [] q.action = "find" -> ColdFind(q)
      [] q.action = "open" -> Good(OpenItems(disk, Problems(disk)))
      [] q.action = "problems" -> Good(Problems(disk))
      [] q.action = "metrics" -> ColdMetrics(q)
      [] q.action = "focus" -> ColdFocus(q)

(* The focus a request leaves behind.                                       *)
Settled(focus) == IF focus \in Targets(disk) THEN focus ELSE NoTarget
FocusAfter(q, focus) ==
    IF q.action = "focus" /\ q.target # NoTarget /\ TargetError(disk, q.target) = "" THEN q.target
    ELSE IF \/ q.action \in {"inspect", "cpg", "find"}
            \/ q.action = "focus" /\ q.target # NoTarget
    THEN Settled(focus) ELSE focus

(* How an answer is cut for its pages, and whether what was cut may be used *)
(* again by any later request of the same fingerprint.                      *)
CutItems(q, answer) == IF q.action = "find" THEN answer ELSE PrepareItems(answer, q.chars)
Lasting(q, lazy) ==
    /\ q.action # "trace" /\ ~(q.action = "focus" /\ q.target = NoTarget)
    /\ q.action \in {"open", "problems"} => ~lazy

(***************************************************************************)
(* The invariant.  What a context keeps is right only while its revision   *)
(* is the one of the files; a scan that sees another revision forgets it.  *)
(***************************************************************************)
ContextFields ==
    {"lazy", "revision", "checked", "workspace", "indexed", "focus", "registry", "ranked", "loaded",
     "loadedBytes", "relations", "metrics", "cpg", "cpgBytes", "prepared"}
IsContext(c) == DOMAIN c = ContextFields

RegistryMatches(c) ==
    c.registry.revision = c.revision =>
        c.registry.texts = disk /\ c.focus \in Targets(disk) \cup {NoTarget}
MetricsMatch(c) == c.metrics.revision = c.revision => c.metrics.texts = disk
RankedMatch(c) == IsCache(c.ranked) /\ \A e \in Range(c.ranked) : e.cards = Ranked(disk, e.key)
LoadedMatch(c) == IsCache(c.loaded) /\ \A e \in Range(c.loaded) : e.content = disk[e.key]
GraphsMatch(c) ==
    /\ IsCache(c.cpg)
    /\ \A e \in Range(c.cpg) :
          e.items = GraphItems(disk, disk[e.key[2][1]], e.key[2], e.key[3], e.key[4])
IsPrepared(items, q) ==
    /\ CutItems(q, ColdAnswer(q, NoTarget)).error = ""
    /\ items = CutItems(q, ColdAnswer(q, NoTarget)).items
PreparedMatch(c) ==
    /\ IsCache(c.prepared)
    /\ \A e \in Range(c.prepared) :
          Lasting(e.key[2][1], c.lazy) => IsPrepared(e.items, e.key[2][1])
StoresMatch(c) == RankedMatch(c) /\ LoadedMatch(c) /\ GraphsMatch(c) /\ MetricsMatch(c)
Coherent(c) ==
    /\ c.workspace = disk /\ c.revision = stamp
    /\ RegistryMatches(c) /\ StoresMatch(c) /\ PreparedMatch(c)

(* A request that is being handled is one of the menu, and a scan that is   *)
(* always made has brought the problems back.                               *)
AskedInv ==
    /\ menu \in Menus
    /\ ~Idle => asked.request \in menu /\ (context.lazy \/ context.indexed)
ContextInv ==
    /\ stamp \in Nat /\ stamp >= 1
    /\ IsContext(context) /\ context.revision \in 1 .. stamp
    /\ context.revision = stamp => Coherent(context)
    /\ AskedInv

-----------------------------------------------------------------------------
(* What a step of an answer leaves alone.                                   *)
Same(c, d) ==
    /\ IsContext(d) /\ d.lazy = c.lazy /\ d.revision = c.revision /\ d.indexed = c.indexed
    /\ d.workspace = c.workspace /\ d.prepared = c.prepared

LEMMA SameIsTransitive ==
    ASSUME NEW c, NEW d, NEW e, Same(c, d), Same(d, e)
    PROVE  Same(c, e)
  BY DEF Same
LEMMA SameAsItself ==
    ASSUME NEW c, IsContext(c)
    PROVE  Same(c, c)
  BY DEF Same

(* What a context that needs its registry becomes.                          *)
Rebuilt(c, read) ==
    [c EXCEPT !.registry = [revision |-> c.revision, texts |-> read],
              !.ranked = <<>>, !.loaded = <<>>, !.loadedBytes = 0,
              !.focus = IF @ \in Targets(read) THEN @ ELSE NoTarget]
LEMMA RebuiltFields ==
    ASSUME NEW c, IsContext(c), NEW read
    PROVE  /\ Same(c, Rebuilt(c, read))
           /\ Rebuilt(c, read).registry.revision = c.revision
           /\ Rebuilt(c, read).registry.texts = read
           /\ Rebuilt(c, read).ranked = <<>> /\ Rebuilt(c, read).loaded = <<>>
           /\ Rebuilt(c, read).cpg = c.cpg /\ Rebuilt(c, read).metrics = c.metrics
           /\ Rebuilt(c, read).focus = IF c.focus \in Targets(read) THEN c.focus ELSE NoTarget
<1> DEFINE r == [revision |-> c.revision, texts |-> read]
           f == IF c.focus \in Targets(read) THEN c.focus ELSE NoTarget
           d == [c EXCEPT !.registry = r, !.ranked = <<>>, !.loaded = <<>>, !.loadedBytes = 0,
                          !.focus = f]
<1>1. r.revision = c.revision /\ r.texts = read
  OBVIOUS
<1>2. Rebuilt(c, read) = d
  BY DEF Rebuilt
<1> HIDE DEF r, f
<1>3. /\ DOMAIN d = DOMAIN c /\ d.registry = r /\ d.ranked = <<>> /\ d.loaded = <<>> /\ d.focus = f
      /\ d.lazy = c.lazy /\ d.revision = c.revision /\ d.indexed = c.indexed
      /\ d.workspace = c.workspace /\ d.prepared = c.prepared
      /\ d.cpg = c.cpg /\ d.metrics = c.metrics
  BY DEF IsContext, ContextFields
<1> HIDE DEF d
<1> QED BY <1>1, <1>2, <1>3 DEF Same, IsContext, f

(* A registry that is required belongs to the revision of the context.      *)
LEMMA RegistryIsCurrent ==
    ASSUME NEW c, IsContext(c), NEW read
    PROVE  /\ Same(c, RequireRegistry(c, read))
           /\ RequireRegistry(c, read).registry.revision = c.revision
<1>1. RequireRegistry(c, read) = IF c.registry.revision = c.revision THEN c ELSE Rebuilt(c, read)
  BY DEF RequireRegistry, Rebuilt
<1> QED BY <1>1, RebuiltFields, SameAsItself

(* Of the files of its revision it is a registry of what is on disk, and    *)
(* the focus is forgotten when it names nothing there.                      *)
LEMMA RegistryIsOfDisk ==
    ASSUME NEW c, IsContext(c), Coherent(c)
    PROVE  /\ Coherent(RequireRegistry(c, disk))
           /\ RequireRegistry(c, disk).registry.texts = disk
           /\ RequireRegistry(c, disk).focus = Settled(c.focus)
<1> DEFINE d == RequireRegistry(c, disk)
<1>1. d = IF c.registry.revision = c.revision THEN c ELSE Rebuilt(c, disk)
  BY DEF RequireRegistry, Rebuilt
<1>2. CASE c.registry.revision = c.revision
  BY <1>1, <1>2 DEF Coherent, RegistryMatches, Settled
<1>3. CASE c.registry.revision # c.revision
  <2>1. d = Rebuilt(c, disk)
    BY <1>1, <1>3
  <2>2. /\ Same(c, d) /\ d.registry.revision = c.revision /\ d.registry.texts = disk
        /\ d.ranked = <<>> /\ d.loaded = <<>> /\ d.cpg = c.cpg /\ d.metrics = c.metrics
        /\ d.focus = Settled(c.focus)
    BY <2>1, RebuiltFields DEF Settled
  <2> HIDE DEF d
  <2>3. RegistryMatches(d)
    BY <2>2 DEF RegistryMatches, Settled
  <2>4. RankedMatch(d) /\ LoadedMatch(d)
    BY <2>2, EmptyIsCache DEF RankedMatch, LoadedMatch
  <2>5. GraphsMatch(d) /\ MetricsMatch(d) /\ PreparedMatch(d)
    BY <2>2 DEF Coherent, StoresMatch, GraphsMatch, MetricsMatch, PreparedMatch, Same
  <2>6. d.workspace = disk /\ d.revision = stamp
    BY <2>2 DEF Same, Coherent
  <2> QED BY <2>2, <2>3, <2>4, <2>5, <2>6 DEF Coherent, StoresMatch, d
<1> QED BY <1>2, <1>3

(* A context of which only some stores have changed.                        *)
ChangesOnly(c, d, fields) == IsContext(d) /\ \A x \in ContextFields \ fields : d[x] = c[x]
(* A step that needs the text of a unit, or its index, keeps a context      *)
(* coherent.                                                                *)
StaysCoherent(c, read, d) == Same(c, d) /\ (Coherent(c) /\ read = disk => Coherent(d))

LEMMA StaysIsTransitive ==
    ASSUME NEW c, NEW d, NEW e, NEW read, StaysCoherent(c, read, d), StaysCoherent(d, read, e)
    PROVE  StaysCoherent(c, read, e)
  BY SameIsTransitive DEF StaysCoherent
LEMMA StaysAsItself ==
    ASSUME NEW c, IsContext(c), NEW read
    PROVE  StaysCoherent(c, read, c)
  BY SameAsItself DEF StaysCoherent

LEMMA RegistryStays ==
    ASSUME NEW c, IsContext(c), NEW read
    PROVE  StaysCoherent(c, read, RequireRegistry(c, read))
  BY RegistryIsCurrent, RegistryIsOfDisk DEF StaysCoherent

(* A step that changes stores, and to stores of the files, stays coherent.  *)
Stores == {"ranked", "loaded", "loadedBytes", "relations", "metrics", "cpg", "cpgBytes"}
LEMMA StoresStay ==
    ASSUME NEW c, NEW d, NEW read, ChangesOnly(c, d, Stores),
           Coherent(c) /\ read = disk => StoresMatch(d)
    PROVE  StaysCoherent(c, read, d) /\ d.focus = c.focus /\ d.registry = c.registry
<1>1. Same(c, d) /\ d.focus = c.focus /\ d.registry = c.registry
  BY DEF ChangesOnly, Same, ContextFields, Stores
<1>2. ASSUME Coherent(c), read = disk
      PROVE  Coherent(d)
  <2>1. RegistryMatches(d) /\ PreparedMatch(d)
    BY <1>1, <1>2 DEF Coherent, RegistryMatches, PreparedMatch, Same
  <2>2. StoresMatch(d)
    BY <1>2
  <2> QED BY <1>1, <1>2, <2>1, <2>2 DEF Coherent, Same
<1> QED BY <1>1, <1>2 DEF StaysCoherent

(* Loading the metrics changes them alone.                                  *)
LEMMA MetricsStay ==
    ASSUME NEW c, IsContext(c), NEW read
    PROVE  /\ StaysCoherent(c, read, RequireMetrics(c, read))
           /\ RequireMetrics(c, read).focus = c.focus
           /\ Coherent(c) /\ read = disk => RequireMetrics(c, read).metrics.texts = disk
<1> DEFINE m == [revision |-> c.revision, texts |-> read]
           d == [c EXCEPT !.metrics = m]
<1>1. CASE c.metrics.revision = c.revision
  BY <1>1, StaysAsItself DEF RequireMetrics, Coherent, StoresMatch, MetricsMatch
<1>2. CASE c.metrics.revision # c.revision
  <2>1. RequireMetrics(c, read) = d
    BY <1>2 DEF RequireMetrics
  <2>2. m.revision = c.revision /\ m.texts = read
    OBVIOUS
  <2> HIDE DEF m
  <2>3. ChangesOnly(c, d, Stores) /\ d.metrics = m /\ d.ranked = c.ranked /\ d.loaded = c.loaded
        /\ d.cpg = c.cpg
    BY DEF IsContext, ChangesOnly, ContextFields, Stores
  <2> HIDE DEF d
  <2>4. ASSUME Coherent(c), read = disk
        PROVE  StoresMatch(d) /\ d.metrics.texts = disk
    BY <2>2, <2>3, <2>4 DEF Coherent, StoresMatch, MetricsMatch, RankedMatch, LoadedMatch, GraphsMatch
  <2>5. StaysCoherent(c, read, d) /\ d.focus = c.focus
    BY <2>3, <2>4, StoresStay
  <2> QED BY <2>1, <2>4, <2>5
<1> QED BY <1>1, <1>2

(* Relations are kept beside everything else.                               *)
LEMMA KeptStays ==
    ASSUME NEW c, IsContext(c), NEW read, NEW index
    PROVE  StaysCoherent(c, read, Kept(c, index))
<1> DEFINE r == [revision |-> c.registry.revision, index |-> index]
           d == [c EXCEPT !.relations = r]
<1>1. Kept(c, index) = d
  BY DEF Kept
<1> HIDE DEF r
<1>2. ChangesOnly(c, d, Stores) /\ d.ranked = c.ranked /\ d.loaded = c.loaded /\ d.cpg = c.cpg
      /\ d.metrics = c.metrics /\ d.revision = c.revision
  BY DEF IsContext, ChangesOnly, ContextFields, Stores
<1> HIDE DEF d
<1>3. ASSUME Coherent(c), read = disk
      PROVE  StoresMatch(d)
  BY <1>2, <1>3 DEF Coherent, StoresMatch, MetricsMatch, RankedMatch, LoadedMatch, GraphsMatch
<1> QED BY <1>1, <1>2, <1>3, StoresStay

(* The text of a unit is the one on disk, whether it was in memory or not.  *)
LEMMA DocumentIsOfDisk ==
    ASSUME NEW c, LoadedMatch(c), NEW u
    PROVE  Document(c, u, disk).content = disk[u] /\ Document(c, u, disk).key = u
<1>1. CASE Has(c.loaded, u)
  BY <1>1, CachedIsEntry DEF Document, LoadedMatch
<1>2. CASE ~Has(c.loaded, u)
  BY <1>2 DEF Document
<1> QED BY <1>1, <1>2

(* Loading it changes the texts in memory alone.                            *)
LEMMA LoadStays ==
    ASSUME NEW c, IsContext(c), NEW read, NEW u
    PROVE  /\ StaysCoherent(c, read, Load(c, u, read))
           /\ Load(c, u, read).focus = c.focus /\ Load(c, u, read).registry = c.registry
           /\ Load(c, u, read).cpg = c.cpg /\ ChangesOnly(c, Load(c, u, read), Stores)
<1> DEFINE e == Document(c, u, read)
           room == Admit(c.loaded, c.loadedBytes, SourceBudget, e)
           new == IF Has(c.loaded, u) THEN Touched(c.loaded, e) ELSE room.cache
<1>1. Load(c, u, read).loaded = new
  <2> HIDE DEF e
  <2>1. CASE Has(c.loaded, u)
    BY <2>1 DEF Load, e, IsContext, ContextFields
  <2>2. CASE ~Has(c.loaded, u)
    <3> DEFINE v == room.cache
               b == room.bytes
    <3>1. Load(c, u, read) = [c EXCEPT !.loaded = v, !.loadedBytes = b]
      BY <2>2 DEF Load, e
    <3>2. new = v
      BY <2>2
    <3> HIDE DEF v, b, new
    <3> QED BY <3>1, <3>2 DEF IsContext, ContextFields
  <2> QED BY <2>1, <2>2
<1>2. ChangesOnly(c, Load(c, u, read), Stores \ {"ranked", "metrics", "cpg"})
  <2> HIDE DEF e
  <2>1. CASE Has(c.loaded, u)
    <3> DEFINE v == Touched(c.loaded, e)
    <3>1. Load(c, u, read) = [c EXCEPT !.loaded = v]
      BY <2>1 DEF Load, e
    <3> HIDE DEF v
    <3> QED BY <3>1 DEF IsContext, ContextFields, ChangesOnly, Stores
  <2>2. CASE ~Has(c.loaded, u)
    <3> DEFINE v == room.cache
               b == room.bytes
    <3>1. Load(c, u, read) = [c EXCEPT !.loaded = v, !.loadedBytes = b]
      BY <2>2 DEF Load, e
    <3> HIDE DEF v, b
    <3> QED BY <3>1 DEF IsContext, ContextFields, ChangesOnly, Stores
  <2> QED BY <2>1, <2>2
<1> HIDE DEF new, e
<1> DEFINE l == Load(c, u, read)
<1> HIDE DEF l
<1>3. ChangesOnly(c, l, Stores) /\ l.ranked = c.ranked /\ l.metrics = c.metrics /\ l.cpg = c.cpg
      /\ l.revision = c.revision
  BY <1>2 DEF ChangesOnly, ContextFields, Stores, l
<1>4. ASSUME Coherent(c), read = disk
      PROVE  StoresMatch(l)
  <2>1. MadeOf(new, c.loaded, e)
    BY <1>4, TouchedIsMade, AdmitIsMade DEF new, Coherent, StoresMatch, LoadedMatch
  <2>2. e.content = disk[e.key]
    BY <1>4, DocumentIsOfDisk DEF e, Coherent, StoresMatch
  <2>3. LoadedMatch(l)
    BY <1>1, <1>4, <2>1, <2>2 DEF l, MadeOf, LoadedMatch, Coherent, StoresMatch
  <2> QED BY <1>3, <1>4, <2>3 DEF Coherent, StoresMatch, MetricsMatch, RankedMatch, GraphsMatch
<1> QED BY <1>3, <1>4, StoresStay DEF l

-----------------------------------------------------------------------------
(* What Serve returns is a context, an answer and a target.                 *)
LEMMA ServedFields ==
    ASSUME NEW c, NEW answer, NEW target
    PROVE  /\ Served(c, answer, target).context = c /\ Served(c, answer, target).answer = answer
           /\ Served(c, answer, target).target = target
  BY DEF Served
LEMMA FailedError == ASSUME NEW code PROVE Failed(code).error = code
  BY DEF Failed

LEMMA RefusedFields ==
    ASSUME NEW c, NEW code
    PROVE  /\ Refused(c, code).context = c /\ Refused(c, code).answer = Failed(code)
           /\ Refused(c, code).answer.error = code
  BY ServedFields, FailedError DEF Refused

(* The target an answer is about.                                           *)
ColdTarget(q, focus) == CASE q.action \in {"inspect", "cpg"} -> TargetOf(q, focus)
                          [] q.action = "metrics" -> q.target
                          [] OTHER -> NoTarget
Bare(q) == q.action = "focus" /\ q.target = NoTarget
(* An answer is the cold one, and is about the same target.                 *)
IsAnswer(q, focus, s) ==
    /\ q.action # "trace" /\ ~Bare(q) => s.answer = ColdAnswer(q, focus)
    /\ s.answer.error = "" => s.target = ColdTarget(q, focus)
(* The steps of a request from the context c, where the focus becomes f.    *)
Serves(c, q, read, f, s) ==
    /\ StaysCoherent(c, read, s.context)
    /\ Coherent(c) /\ read = disk => s.context.focus = f /\ IsAnswer(q, f, s)

(* find                                                                     *)
LEMMA FoundIsRanked ==
    ASSUME NEW c, RankedMatch(c), c.registry.texts = disk, NEW query
    PROVE  FoundCards(c, query) = Ranked(disk, query)
<1>1. CASE Has(c.ranked, query)
  BY <1>1, CachedIsEntry DEF FoundCards, RankedMatch
<1>2. CASE ~Has(c.ranked, query)
  BY <1>2 DEF FoundCards
<1> QED BY <1>1, <1>2

LEMMA FindServes ==
    ASSUME NEW c, IsContext(c), NEW read, NEW q, q.action = "find",
           Coherent(c) /\ read = disk => c.registry.texts = disk
    PROVE  Serves(c, q, read, c.focus, Find(c, q))
<1> DEFINE cards == FoundCards(c, q.query)
           e == [key |-> q.query, cards |-> cards]
           new == IF Len(cards) <= RankedEntries THEN Newest(Touched(c.ranked, e), RankedLimit)
                  ELSE Without(c.ranked, q.query)
           d == [c EXCEPT !.ranked = new]
           a == Cards(cards, q.chars, CardEnds(cards, q.chars))
<1>1. Find(c, q) = Served(d, a, NoTarget)
  BY DEF Find
<1>2. e.key = q.query /\ e.cards = cards
  OBVIOUS
<1> HIDE DEF e, a, cards
<1>3. IsCache(c.ranked) => MadeOf(new, c.ranked, e)
  <2> SUFFICES ASSUME IsCache(c.ranked) PROVE MadeOf(new, c.ranked, e)
    OBVIOUS
  <2>1. MadeOf(Newest(Touched(c.ranked, e), RankedLimit), c.ranked, e)
    BY TouchedIsMade, NewestIsMade, LimitAssumption
  <2>2. Without(c.ranked, q.query) \in Seq(Range(c.ranked))
    BY WithoutIsCache
  <2>3. MadeOf(Without(c.ranked, q.query), c.ranked, e)
    BY <2>2, SequenceIsCache DEF MadeOf
  <2> QED BY <2>1, <2>3
<1> HIDE DEF new
<1>4. ChangesOnly(c, d, Stores) /\ d.ranked = new /\ d.loaded = c.loaded /\ d.metrics = c.metrics
      /\ d.cpg = c.cpg /\ d.revision = c.revision
  BY DEF IsContext, ChangesOnly, ContextFields, Stores
<1> HIDE DEF d
<1>5. ASSUME Coherent(c), read = disk
      PROVE  StoresMatch(d) /\ a = ColdFind(q)
  <2>1. RankedMatch(c) /\ c.registry.texts = disk
    BY <1>5 DEF Coherent, StoresMatch
  <2>2. cards = Ranked(disk, q.query)
    BY <2>1, FoundIsRanked DEF cards
  <2>3. MadeOf(new, c.ranked, e)
    BY <1>3, <2>1 DEF RankedMatch
  <2>4. RankedMatch(d)
    BY <1>2, <1>4, <2>1, <2>2, <2>3 DEF RankedMatch, MadeOf
  <2>5. a = ColdFind(q)
    BY <2>2 DEF a, ColdFind
  <2> QED BY <1>4, <1>5, <2>4, <2>5 DEF Coherent, StoresMatch, MetricsMatch, LoadedMatch, GraphsMatch
<1>6. StaysCoherent(c, read, d) /\ d.focus = c.focus
  BY <1>4, <1>5, StoresStay
<1>7. ColdAnswer(q, c.focus) = ColdFind(q) /\ ColdTarget(q, c.focus) = NoTarget
  BY DEF ColdAnswer, ColdTarget
<1> DEFINE s == Find(c, q)
<1>8. s.context = d /\ s.answer = a /\ s.target = NoTarget
  BY <1>1, ServedFields
<1> HIDE DEF s
<1>9. Coherent(c) /\ read = disk => IsAnswer(q, c.focus, s)
  BY <1>5, <1>7, <1>8 DEF IsAnswer
<1>10. Serves(c, q, read, c.focus, s)
  BY <1>6, <1>8, <1>9 DEF Serves
<1> QED BY <1>10 DEF s

(* A request about the target g that is answered with the cold answer.      *)
Shows(c, read, g, answer, s) ==
    /\ StaysCoherent(c, read, s.context) /\ s.context.focus = c.focus
    /\ Coherent(c) /\ read = disk => s.answer = answer
    /\ s.answer.error = "" => s.target = g

(* inspect                                                                  *)
LEMMA InspectServes ==
    ASSUME NEW c, IsContext(c), NEW read, NEW q, NEW g,
           Coherent(c) /\ read = disk => c.registry.texts = disk
    PROVE  Shows(c, read, g, ColdInspect(q, g), Inspect(c, g, q, read))
<1> DEFINE d == IF NeedsText(c.registry.texts, g, q.detail) THEN Load(c, g[1], read) ELSE c
           a == Details(c.registry.texts, g, FirstOf(c.registry.texts, g), q.detail, q.chars,
                        Document(c, g[1], read).content)
<1>1. Inspect(c, g, q, read) = Served(d, a, g)
  BY DEF Inspect
<1>2. StaysCoherent(c, read, d) /\ d.focus = c.focus
  BY LoadStays, StaysAsItself
<1>3. ASSUME Coherent(c), read = disk
      PROVE  a = ColdInspect(q, g)
  BY <1>3, DocumentIsOfDisk DEF ColdInspect, Coherent, StoresMatch
<1> DEFINE s == Inspect(c, g, q, read)
<1> HIDE DEF d, a
<1>4. s.context = d /\ s.answer = a /\ s.target = g
  BY <1>1, ServedFields
<1> HIDE DEF s
<1>5. Shows(c, read, g, ColdInspect(q, g), s)
  BY <1>2, <1>3, <1>4 DEF Shows
<1> QED BY <1>5 DEF s

(* cpg: a graph that is kept is the one that would be built.                *)
ColdGraph(q, g) == GraphItems(disk, disk[g[1]], g, q.graph, q.depth)
LEMMA BuildServes ==
    ASSUME NEW c, IsContext(c), NEW l, NEW read, NEW q, NEW g,
           StaysCoherent(c, read, l), ChangesOnly(c, l, Stores), l.cpg = c.cpg,
           Coherent(c) /\ read = disk => c.registry.texts = disk
    PROVE  /\ StaysCoherent(c, read, Build(c, l, g, q, read).context)
           /\ Build(c, l, g, q, read).context.focus = c.focus
           /\ Coherent(c) /\ read = disk => Build(c, l, g, q, read).answer = Good(ColdGraph(q, g))
           /\ Build(c, l, g, q, read).target = g
<1> DEFINE graph == Subgraph(c, Document(c, g[1], read).content, g, q)
           room == Admit(c.cpg, c.cpgBytes, CpgLimit, graph)
           v == room.cache
           b == room.bytes
           d == [l EXCEPT !.cpg = v, !.cpgBytes = b]
<1>1. Build(c, l, g, q, read) = Served(d, Good(graph.items), g)
  BY DEF Build, CpgBuilt
<1>2. ASSUME Coherent(c), read = disk
      PROVE  /\ graph.key[2] = g /\ graph.key[3] = q.graph /\ graph.key[4] = q.depth
             /\ graph.items = ColdGraph(q, g)
  <2>1. Document(c, g[1], read).content = disk[g[1]] /\ c.registry.texts = disk
    BY <1>2, DocumentIsOfDisk DEF Coherent, StoresMatch
  <2> QED BY <2>1 DEF Subgraph, CpgKey, ColdGraph
<1> HIDE DEF graph
<1>3. IsCache(c.cpg) => MadeOf(v, c.cpg, graph)
  BY AdmitIsMade
<1> HIDE DEF room, v, b
<1>4. ChangesOnly(c, d, Stores) /\ d.ranked = l.ranked /\ d.loaded = l.loaded
      /\ d.metrics = l.metrics /\ d.cpg = v /\ d.revision = l.revision
  BY DEF IsContext, ChangesOnly, ContextFields, Stores
<1> HIDE DEF d
<1>5. ASSUME Coherent(c), read = disk
      PROVE  StoresMatch(d)
  <2>1. Coherent(l) /\ GraphsMatch(c)
    BY <1>5 DEF StaysCoherent, Coherent, StoresMatch
  <2>2. GraphsMatch(d)
    BY <1>2, <1>3, <1>4, <1>5, <2>1 DEF GraphsMatch, MadeOf, ColdGraph
  <2> QED BY <1>4, <2>1, <2>2 DEF Coherent, StoresMatch, MetricsMatch, RankedMatch, LoadedMatch
<1>6. StaysCoherent(c, read, d) /\ d.focus = c.focus
  BY <1>4, <1>5, StoresStay
<1> QED BY <1>1, <1>2, <1>6, ServedFields

LEMMA CpgServes ==
    ASSUME NEW c, IsContext(c), NEW read, NEW q, NEW g,
           Coherent(c) /\ read = disk => c.registry.texts = disk
    PROVE  Shows(c, read, g, ColdCpg(q, g), Cpg(c, g, q, read))
<1> DEFINE s == Cpg(c, g, q, read)
<1>1. CASE ~HasGraph(g)
  <2>1. s = Served(c, Failed("cpg_not_applicable"), NoTarget)
    BY <1>1 DEF Cpg, HasGraph, Refused
  <2>2. ColdCpg(q, g) = Failed("cpg_not_applicable")
    BY <1>1 DEF ColdCpg
  <2> HIDE DEF s
  <2>3. /\ s.context = c /\ s.answer = ColdCpg(q, g) /\ s.answer.error = "cpg_not_applicable"
    BY <2>1, <2>2, ServedFields, FailedError
  <2>4. StaysCoherent(c, read, s.context) /\ s.context.focus = c.focus
    BY <2>3, StaysAsItself
  <2>5. s.answer.error # ""
    BY <2>3
  <2> QED BY <2>3, <2>4, <2>5 DEF s, Shows
<1>2. CASE HasGraph(g) /\ Has(c.cpg, CpgKey(c, g, q))
  <2> DEFINE e == Cached(c.cpg, CpgKey(c, g, q))
             v == Touched(c.cpg, e)
             d == [c EXCEPT !.cpg = v]
  <2>1. s = Served(d, Good(e.items), g)
    BY <1>2 DEF Cpg, HasGraph
  <2>2. ColdCpg(q, g) = Good(ColdGraph(q, g))
    BY <1>2 DEF ColdCpg, ColdGraph
  <2>3. e \in Range(c.cpg) /\ e.key[2] = g /\ e.key[3] = q.graph /\ e.key[4] = q.depth
    <3>1. e \in Range(c.cpg) /\ e.key = CpgKey(c, g, q)
      BY <1>2, CachedIsEntry
    <3> HIDE DEF e
    <3> QED BY <3>1 DEF CpgKey
  <2> HIDE DEF e, s
  <2>4. IsCache(c.cpg) => MadeOf(v, c.cpg, e)
    BY TouchedIsMade
  <2> HIDE DEF v
  <2>5. ChangesOnly(c, d, Stores) /\ d.ranked = c.ranked /\ d.loaded = c.loaded
        /\ d.metrics = c.metrics /\ d.cpg = v /\ d.revision = c.revision
    BY DEF IsContext, ChangesOnly, ContextFields, Stores
  <2> HIDE DEF d
  <2>6. ASSUME Coherent(c), read = disk
        PROVE  StoresMatch(d) /\ e.items = ColdGraph(q, g)
    <3>1. GraphsMatch(c)
      BY <2>6 DEF Coherent, StoresMatch
    <3>2. e.items = ColdGraph(q, g)
      BY <2>3, <3>1 DEF GraphsMatch, ColdGraph
    <3>3. GraphsMatch(d)
      BY <2>3, <2>4, <2>5, <3>1 DEF GraphsMatch, MadeOf
    <3> QED BY <2>5, <2>6, <3>2, <3>3 DEF Coherent, StoresMatch, MetricsMatch, RankedMatch, LoadedMatch
  <2>7. StaysCoherent(c, read, d) /\ d.focus = c.focus
    BY <2>5, <2>6, StoresStay
  <2>8. s.context = d /\ s.answer = Good(e.items) /\ s.target = g
    BY <2>1, ServedFields
  <2> QED BY <2>2, <2>6, <2>7, <2>8 DEF s, Shows
<1>3. CASE HasGraph(g) /\ ~Has(c.cpg, CpgKey(c, g, q))
  <2> DEFINE l == Load(c, g[1], read)
  <2>1. s = Build(c, l, g, q, read)
    BY <1>3 DEF Cpg, HasGraph
  <2>2. ColdCpg(q, g) = Good(ColdGraph(q, g))
    BY <1>3 DEF ColdCpg, ColdGraph
  <2>3. StaysCoherent(c, read, l) /\ ChangesOnly(c, l, Stores) /\ l.cpg = c.cpg
    BY LoadStays
  <2> DEFINE b == Build(c, l, g, q, read)
  <2> HIDE DEF l
  <2>4. /\ StaysCoherent(c, read, b.context) /\ b.context.focus = c.focus /\ b.target = g
        /\ Coherent(c) /\ read = disk => b.answer = Good(ColdGraph(q, g))
    BY <2>3, BuildServes
  <2> HIDE DEF b, s
  <2>5. s = b
    BY <2>1 DEF b
  <2> QED BY <2>2, <2>4, <2>5 DEF s, Shows
<1> QED BY <1>1, <1>2, <1>3

(* metrics                                                                  *)
LEMMA MetricsServes ==
    ASSUME NEW c, IsContext(c), NEW read, NEW q, q.action = "metrics"
    PROVE  Serves(c, q, read, c.focus, Serve(c, q, read))
<1> DEFINE d == IF q.detail \in {"summary", "members"} THEN RequireMetrics(c, read) ELSE c
           s == Metrics(d, q)
<1>1. Serve(c, q, read) = s
  BY DEF Serve
<1>2. StaysCoherent(c, read, d) /\ d.focus = c.focus
  BY MetricsStay, StaysAsItself
<1>3. ASSUME Coherent(c), read = disk, q.detail \in {"summary", "members"}
      PROVE  d.metrics.texts = disk
  BY <1>3, MetricsStay
<1> HIDE DEF d
<1>4. s.context = d
  BY ServedFields DEF Metrics, Refused
<1>5. s.answer.error = "" => s.target = q.target
  <2> DEFINE all == Good(MetricItems(d.metrics.texts, q.query, q.detail))
             unit == Good(<<UnitMetrics(d.metrics.texts, q.target[1], q.detail)>>)
  <2>1. \/ s = Refused(d, "invalid_detail") \/ s = Refused(d, "target_not_found")
        \/ s = Served(d, all, NoTarget) /\ q.target = NoTarget
        \/ s = Served(d, unit, q.target)
    BY DEF Metrics
  <2>2. \A code : Refused(d, code).answer.error = code
    BY RefusedFields
  <2>3. Served(d, all, NoTarget).target = NoTarget /\ Served(d, unit, q.target).target = q.target
    BY ServedFields
  <2> HIDE DEF s, all, unit
  <2> QED BY <2>1, <2>2, <2>3
<1>6. ASSUME Coherent(c), read = disk
      PROVE  s.answer = ColdMetrics(q)
  <2>1. CASE q.detail \notin {"summary", "members"}
    BY <2>1, ServedFields DEF Metrics, Refused, ColdMetrics
  <2>2. CASE q.detail \in {"summary", "members"}
    <3>1. d.metrics.texts = disk
      BY <1>3, <1>6, <2>2
    <3> QED BY <2>2, <3>1, ServedFields DEF Metrics, Refused, ColdMetrics
  <2> QED BY <2>1, <2>2
<1>7. ColdAnswer(q, c.focus) = ColdMetrics(q) /\ ColdTarget(q, c.focus) = q.target
  BY DEF ColdAnswer, ColdTarget
<1> HIDE DEF s
<1>8. Coherent(c) /\ read = disk => IsAnswer(q, c.focus, s)
  BY <1>5, <1>6, <1>7 DEF IsAnswer
<1>9. Serves(c, q, read, c.focus, s)
  BY <1>2, <1>4, <1>8 DEF Serves
<1> QED BY <1>1, <1>9

(* open and problems, where the scan has brought the problems back          *)
LEMMA OpenServes ==
    ASSUME NEW c, IsContext(c), NEW read, NEW q, q.action \in {"open", "problems"}, c.indexed
    PROVE  Serves(c, q, read, c.focus, Serve(c, q, read))
<1> DEFINE s == Serve(c, q, read)
           open == Good(OpenItems(c.workspace, Problems(c.workspace)))
           problems == Good(Problems(c.workspace))
<1>1. s = Served(c, IF q.action = "open" THEN open ELSE problems, NoTarget)
  BY DEF Serve, ProblemsOf
<1> HIDE DEF open, problems
<1>2. /\ s.context = c /\ s.target = NoTarget
      /\ s.answer = IF q.action = "open" THEN open ELSE problems
  BY <1>1, ServedFields
<1> HIDE DEF s
<1>3. ASSUME Coherent(c)
      PROVE  ColdAnswer(q, c.focus) = IF q.action = "open" THEN open ELSE problems
  BY <1>3 DEF ColdAnswer, Coherent, open, problems
<1>4. ColdTarget(q, c.focus) = NoTarget
  BY DEF ColdTarget
<1>5. Coherent(c) => IsAnswer(q, c.focus, s)
  BY <1>2, <1>3, <1>4 DEF IsAnswer
<1>6. Serves(c, q, read, c.focus, s)
  BY <1>2, <1>5, StaysAsItself DEF Serves
<1> QED BY <1>6 DEF s

(* focus: setting it is refused for what is not there                       *)
LEMMA PointStays ==
    ASSUME NEW c, IsContext(c), NEW read, NEW target, target \in Targets(c.registry.texts)
    PROVE  StaysCoherent(c, read, [c EXCEPT !.focus = target])
<1> DEFINE d == [c EXCEPT !.focus = target]
<1>1. IsContext(d) /\ d.focus = target /\ \A x \in ContextFields \ {"focus"} : d[x] = c[x]
  BY DEF IsContext
<1> HIDE DEF d
<1>2. /\ Same(c, d) /\ d.registry = c.registry /\ d.ranked = c.ranked /\ d.loaded = c.loaded
      /\ d.metrics = c.metrics /\ d.cpg = c.cpg
  BY <1>1 DEF Same, ContextFields
<1>3. ASSUME Coherent(c), read = disk
      PROVE  Coherent(d)
  <2>1. RegistryMatches(d)
    BY <1>1, <1>2, <1>3 DEF Coherent, RegistryMatches, Same
  <2>2. StoresMatch(d) /\ PreparedMatch(d)
    BY <1>2, <1>3 DEF Coherent, StoresMatch, MetricsMatch, RankedMatch, LoadedMatch, GraphsMatch,
       PreparedMatch, Same
  <2> QED BY <1>2, <1>3, <2>1, <2>2 DEF Coherent, Same
<1>4. StaysCoherent(c, read, d)
  BY <1>2, <1>3 DEF StaysCoherent
<1> QED BY <1>4 DEF d

LEMMA TargetsAreThere ==
    ASSUME NEW texts, NEW target
    PROVE  TargetError(texts, target) = "" <=> target # NoTarget /\ target \in Targets(texts)
  BY DEF TargetError

LEMMA FocusServes ==
    ASSUME NEW c, IsContext(c), NEW read, NEW q, q.action = "focus"
    PROVE  Serves(c, q, read, FocusAfter(q, c.focus), Serve(c, q, read))
<1> DEFINE s == Serve(c, q, read)
           d == RequireRegistry(c, read)
           f == FocusAfter(q, c.focus)
<1>1. CASE q.target = NoTarget
  <2> DEFINE a == Good(<<Focused(c.focus)>>)
  <2>1. s = Served(c, a, NoTarget)
    BY <1>1 DEF Serve, Focus
  <2>2. f = c.focus /\ ColdTarget(q, f) = NoTarget /\ Bare(q)
    BY <1>1 DEF FocusAfter, ColdTarget, Bare
  <2> HIDE DEF a, s, f
  <2>3. s.context = c /\ s.target = NoTarget
    BY <2>1, ServedFields
  <2>4. IsAnswer(q, f, s)
    BY <2>2, <2>3 DEF IsAnswer
  <2>5. Serves(c, q, read, f, s)
    BY <2>2, <2>3, <2>4, StaysAsItself DEF Serves
  <2> QED BY <2>5 DEF s, f
<1>2. CASE q.target # NoTarget
  <2>1. /\ StaysCoherent(c, read, d) /\ IsContext(d)
        /\ Coherent(c) /\ read = disk =>
              Coherent(d) /\ d.registry.texts = disk /\ d.focus = Settled(c.focus)
    BY RegistryStays, RegistryIsOfDisk DEF StaysCoherent, Same
  <2>2. s = Focus(d, q)
    BY <1>2 DEF Serve
  <2>3. ColdAnswer(q, f) = ColdFocus(q) /\ ColdTarget(q, f) = NoTarget
    BY DEF ColdAnswer, ColdTarget
  <2>4. f = IF TargetError(disk, q.target) = "" THEN q.target ELSE Settled(c.focus)
    BY <1>2 DEF FocusAfter
  <2> HIDE DEF d, s, f
  <2>5. CASE TargetError(d.registry.texts, q.target) # ""
    <3> DEFINE code == TargetError(d.registry.texts, q.target)
               a == Failed(code)
    <3>1. s = Served(d, a, NoTarget)
      BY <1>2, <2>2, <2>5 DEF Focus, Refused
    <3>2. Coherent(c) /\ read = disk => a = ColdFocus(q) /\ d.focus = f
      BY <2>1, <2>4, <2>5 DEF ColdFocus
    <3> HIDE DEF a
    <3>3. s.context = d /\ s.target = NoTarget /\ s.answer = a
      BY <3>1, ServedFields
    <3>4. Coherent(c) /\ read = disk => IsAnswer(q, f, s)
      BY <2>3, <3>2, <3>3 DEF IsAnswer
    <3>5. Serves(c, q, read, f, s)
      BY <2>1, <3>2, <3>3, <3>4 DEF Serves
    <3> QED BY <3>5 DEF s, f
  <2>6. CASE TargetError(d.registry.texts, q.target) = ""
    <3> DEFINE a == Good(<<Focused(q.target)>>)
               e == [d EXCEPT !.focus = q.target]
    <3>1. s = Served(e, a, NoTarget)
      BY <1>2, <2>2, <2>6 DEF Focus
    <3>2. Coherent(c) /\ read = disk => a = ColdFocus(q) /\ f = q.target
      BY <2>1, <2>4, <2>6 DEF ColdFocus
    <3>3. StaysCoherent(d, read, e)
      BY <2>1, <2>6, PointStays, TargetsAreThere
    <3>4. e.focus = q.target
      BY <2>1 DEF IsContext, ContextFields
    <3> HIDE DEF a, e
    <3>5. s.context = e /\ s.target = NoTarget /\ s.answer = a
      BY <3>1, ServedFields
    <3>6. Coherent(c) /\ read = disk => IsAnswer(q, f, s)
      BY <2>3, <3>2, <3>5 DEF IsAnswer
    <3>7. StaysCoherent(c, read, e)
      BY <2>1, <3>3, StaysIsTransitive
    <3>8. Serves(c, q, read, f, s)
      BY <3>2, <3>4, <3>5, <3>6, <3>7 DEF Serves
    <3> QED BY <3>8 DEF s, f
  <2> QED BY <2>5, <2>6
<1> QED BY <1>1, <1>2

(* trace: the relations are kept beside everything else.                    *)
LEMMA TraceStays ==
    ASSUME NEW c, IsContext(c), NEW read, NEW q, NEW g
    PROVE  StaysCoherent(c, read, Trace(c, g, q, read).context)
<1> DEFINE i == RelationsFor(c, q.relation)
           j == GraphFor(i, c.registry.texts, read, g[1], q.relation)
           answer == Good(TraceItems(j, c.registry.texts, g, q.relation))
<1>1. CASE ~Applicable(g[3], q.relation)
  <2>1. Trace(c, g, q, read) = Served(Kept(c, i), Failed("relation_not_applicable"), g)
    BY <1>1 DEF Trace
  <2> HIDE DEF i
  <2> QED BY <2>1, ServedFields, KeptStays
<1>2. CASE Applicable(g[3], q.relation)
  <2>1. Trace(c, g, q, read) = Served(Kept(c, j), answer, g)
    BY <1>2 DEF Trace, Traced
  <2> HIDE DEF j, answer
  <2> QED BY <2>1, ServedFields, KeptStays
<1> QED BY <1>1, <1>2

(* A request about a target, with the registry it needs.                    *)
LEMMA OnTargetServes ==
    ASSUME NEW c, IsContext(c), NEW read, NEW q, q.action \in {"inspect", "trace", "cpg"},
           Coherent(c) /\ read = disk => c.registry.texts = disk
    PROVE  /\ StaysCoherent(c, read, OnTarget(c, q, read).context)
           /\ q.action # "trace" => Serves(c, q, read, c.focus, OnTarget(c, q, read))
<1> DEFINE s == OnTarget(c, q, read)
           g == TargetOf(q, c.focus)
           code == TargetError(c.registry.texts, g)
<1>1. g = Wanted(c, q)
  BY DEF Wanted, TargetOf
<1>2. ColdTarget(q, c.focus) = IF q.action = "trace" THEN NoTarget ELSE g
  BY DEF ColdTarget
<1>3. /\ q.action = "inspect" => ColdAnswer(q, c.focus) = OnColdTarget(q, c.focus, ColdInspect(q, g))
      /\ q.action = "cpg" => ColdAnswer(q, c.focus) = OnColdTarget(q, c.focus, ColdCpg(q, g))
  BY DEF ColdAnswer
<1>4. ASSUME Coherent(c), read = disk, NEW answer
      PROVE  OnColdTarget(q, c.focus, answer) = IF code # "" THEN Failed(code) ELSE answer
  BY <1>4 DEF OnColdTarget
<1>5. CASE code # ""
  <2>1. s = Refused(c, code)
    BY <1>1, <1>5 DEF OnTarget
  <2> HIDE DEF s
  <2>2. s.context = c /\ s.answer = Failed(code) /\ s.answer.error # ""
    <3> HIDE DEF code
    <3>1. Refused(c, code).answer.error = code /\ Refused(c, code).answer = Failed(code)
      BY RefusedFields
    <3>2. s.context = c
      BY <2>1, RefusedFields
    <3> QED BY <1>5, <2>1, <3>1, <3>2
  <2> HIDE DEF g, code
  <2>3. Coherent(c) /\ read = disk /\ q.action # "trace" => IsAnswer(q, c.focus, s)
    BY <1>3, <1>4, <1>5, <2>2 DEF IsAnswer
  <2>4. /\ StaysCoherent(c, read, s.context)
        /\ q.action # "trace" => Serves(c, q, read, c.focus, s)
    BY <2>2, <2>3, StaysAsItself DEF Serves
  <2> QED BY <2>4 DEF s
<1>6. CASE code = ""
  <2>1. /\ q.action = "inspect" => s = Inspect(c, g, q, read)
        /\ q.action = "trace" => s = Trace(c, g, q, read)
        /\ q.action = "cpg" => s = Cpg(c, g, q, read)
    BY <1>1, <1>6 DEF OnTarget
  <2> HIDE DEF g, code, s
  <2>2. CASE q.action = "trace"
    <3>1. StaysCoherent(c, read, s.context)
      BY <2>1, <2>2, TraceStays
    <3> QED BY <2>2, <3>1 DEF s
  <2>3. CASE q.action = "inspect"
    <3>1. Shows(c, read, g, ColdInspect(q, g), s)
      BY <2>1, <2>3, InspectServes
    <3>2. Coherent(c) /\ read = disk => IsAnswer(q, c.focus, s)
      BY <1>2, <1>3, <1>4, <1>6, <2>3, <3>1 DEF IsAnswer, Shows
    <3>3. Serves(c, q, read, c.focus, s)
      BY <3>1, <3>2 DEF Serves, Shows
    <3> QED BY <3>1, <3>3 DEF s, Shows
  <2>4. CASE q.action = "cpg"
    <3>1. Shows(c, read, g, ColdCpg(q, g), s)
      BY <2>1, <2>4, CpgServes
    <3>2. Coherent(c) /\ read = disk => IsAnswer(q, c.focus, s)
      BY <1>2, <1>3, <1>4, <1>6, <2>4, <3>1 DEF IsAnswer, Shows
    <3>3. Serves(c, q, read, c.focus, s)
      BY <3>1, <3>2 DEF Serves, Shows
    <3> QED BY <3>1, <3>3 DEF s, Shows
  <2> QED BY <2>2, <2>3, <2>4
<1> QED BY <1>5, <1>6

(* What a request does to a context, whatever it was, and what it answers   *)
(* where the context is up to date: the cold answer, with the focus left.   *)
LEMMA ServesWithRegistry ==
    ASSUME NEW c, IsContext(c), NEW read, NEW q, NEW s, q.action \in {"inspect", "cpg", "find"},
           Serves(RequireRegistry(c, read), q, read, RequireRegistry(c, read).focus, s)
    PROVE  Serves(c, q, read, FocusAfter(q, c.focus), s)
<1> DEFINE d == RequireRegistry(c, read)
<1>1. StaysCoherent(c, read, d)
  BY RegistryStays
<1>2. Coherent(c) /\ read = disk => Coherent(d) /\ d.focus = FocusAfter(q, c.focus)
  BY RegistryIsOfDisk DEF FocusAfter
<1> HIDE DEF d
<1>3. Serves(d, q, read, d.focus, s)
  BY DEF d
<1>4. StaysCoherent(c, read, s.context)
  BY <1>1, <1>3, StaysIsTransitive DEF Serves
<1> QED BY <1>2, <1>3, <1>4 DEF Serves

LEMMA ServeServes ==
    ASSUME NEW c, IsContext(c), NEW read, NEW q, q.action \in RequestActions
    PROVE  /\ StaysCoherent(c, read, Serve(c, q, read).context)
           /\ q.action # "trace" /\ (q.action \in {"open", "problems"} => c.indexed) =>
                 Serves(c, q, read, FocusAfter(q, c.focus), Serve(c, q, read))
<1> DEFINE s == Serve(c, q, read)
           d == RequireRegistry(c, read)
           f == FocusAfter(q, c.focus)
<1>1. /\ StaysCoherent(c, read, d) /\ IsContext(d)
      /\ Coherent(c) /\ read = disk => d.registry.texts = disk
  BY RegistryStays, RegistryIsOfDisk DEF StaysCoherent, Same
<1>2. CASE q.action \in {"inspect", "cpg"}
  <2>1. s = OnTarget(d, q, read)
    BY <1>2 DEF Serve
  <2>2. Coherent(d) /\ read = disk => d.registry.texts = disk
    BY RegistryIsCurrent DEF Coherent, RegistryMatches, Same
  <2> HIDE DEF d
  <2>3. Serves(d, q, read, d.focus, s)
    BY <1>1, <1>2, <2>1, <2>2, OnTargetServes
  <2> HIDE DEF s, f
  <2>4. Serves(c, q, read, f, s)
    BY <1>2, <2>3, ServesWithRegistry DEF d, f
  <2>5. StaysCoherent(c, read, s.context)
    BY <2>4 DEF Serves
  <2> QED BY <2>4, <2>5 DEF s, f
<1>3. CASE q.action = "find"
  <2>1. s = Find(d, q)
    BY <1>3 DEF Serve
  <2>2. Coherent(d) /\ read = disk => d.registry.texts = disk
    BY RegistryIsCurrent DEF Coherent, RegistryMatches, Same
  <2> HIDE DEF d
  <2>3. Serves(d, q, read, d.focus, s)
    BY <1>1, <1>3, <2>1, <2>2, FindServes
  <2> HIDE DEF s, f
  <2>4. Serves(c, q, read, f, s)
    BY <1>3, <2>3, ServesWithRegistry DEF d, f
  <2>5. StaysCoherent(c, read, s.context)
    BY <2>4 DEF Serves
  <2> QED BY <2>4, <2>5 DEF s, f
<1>4. CASE q.action = "trace"
  <2>1. s = Refused(c, "relation_required") \/ s = OnTarget(d, q, read)
    BY <1>4 DEF Serve
  <2>2. Coherent(d) /\ read = disk => d.registry.texts = disk
    BY RegistryIsCurrent DEF Coherent, RegistryMatches, Same
  <2> HIDE DEF d
  <2>3. StaysCoherent(d, read, OnTarget(d, q, read).context)
    BY <1>1, <1>4, <2>2, OnTargetServes
  <2> HIDE DEF s
  <2>4. StaysCoherent(c, read, s.context)
    BY <1>1, <2>1, <2>3, RefusedFields, StaysAsItself, StaysIsTransitive
  <2> QED BY <1>4, <2>4 DEF s
<1>5. CASE q.action = "metrics"
  <2>1. f = c.focus
    BY <1>5 DEF FocusAfter
  <2> HIDE DEF f, s
  <2>2. Serves(c, q, read, f, s)
    BY <1>5, <2>1, MetricsServes DEF s
  <2>3. StaysCoherent(c, read, s.context)
    BY <2>2 DEF Serves
  <2> QED BY <2>2, <2>3 DEF s, f
<1>6. CASE q.action = "focus"
  <2> HIDE DEF f, s
  <2>2. Serves(c, q, read, f, s)
    BY <1>6, FocusServes DEF s, f
  <2>3. StaysCoherent(c, read, s.context)
    BY <2>2 DEF Serves
  <2> QED BY <2>2, <2>3 DEF s, f
<1>7. CASE q.action \in {"open", "problems"}
  <2>1. f = c.focus
    BY <1>7 DEF FocusAfter
  <2>2. s.context = c
    <3> DEFINE open == Good(OpenItems(c.workspace, ProblemsOf(c)))
               problems == Good(ProblemsOf(c))
    <3>1. s = Served(c, open, NoTarget) \/ s = Served(c, problems, NoTarget)
      BY <1>7 DEF Serve
    <3> HIDE DEF open, problems, s
    <3> QED BY <3>1, ServedFields
  <2> HIDE DEF f, s
  <2>3. c.indexed => Serves(c, q, read, f, s)
    BY <1>7, <2>1, OpenServes DEF s
  <2>4. StaysCoherent(c, read, s.context)
    BY <2>2, StaysAsItself
  <2> QED BY <1>7, <2>3, <2>4 DEF s, f
<1> QED BY <1>2, <1>3, <1>4, <1>5, <1>6, <1>7 DEF RequestActions

-----------------------------------------------------------------------------
(* A request with the target it was resolved to (_request_fingerprint) is   *)
(* answered the same way without a focus.                                   *)
Aimed(q, target) == [q EXCEPT !.target = IF target = NoTarget THEN q.target ELSE target]
IsRequest(q) == q.action \in RequestActions /\ DOMAIN q = DOMAIN NoRequest
LEMMA AimedFields ==
    ASSUME NEW q, IsRequest(q), NEW target
    PROVE  LET r == Aimed(q, target)
           IN /\ IsRequest(r) /\ r.action = q.action /\ r.query = q.query /\ r.detail = q.detail
              /\ r.graph = q.graph /\ r.depth = q.depth /\ r.chars = q.chars
              /\ r.target = IF target = NoTarget THEN q.target ELSE target
<1> DEFINE t == IF target = NoTarget THEN q.target ELSE target
           r == [q EXCEPT !.target = t]
<1>1. Aimed(q, target) = r
  BY DEF Aimed
<1> HIDE DEF t
<1>2. DOMAIN q = {"action", "query", "target", "detail", "relation", "graph", "depth", "items", "chars"}
  BY DEF IsRequest, NoRequest, Request
<1>3. /\ DOMAIN r = DOMAIN q /\ r.action = q.action /\ r.query = q.query /\ r.detail = q.detail
      /\ r.graph = q.graph /\ r.depth = q.depth /\ r.chars = q.chars /\ r.target = t
  BY <1>2
<1> HIDE DEF r
<1>4. IsRequest(r)
  BY <1>3 DEF IsRequest
<1> QED BY <1>1, <1>3, <1>4 DEF t

LEMMA FingerprintIsAimed ==
    ASSUME NEW q, NEW target
    PROVE  Fingerprint(q, target)[1] = Aimed(q, target)
  BY DEF Fingerprint, Aimed

LEMMA AimedIsAnswered ==
    ASSUME NEW q, IsRequest(q), NEW f, NEW lazy, Lasting(q, lazy)
    PROVE  ColdAnswer(Aimed(q, ColdTarget(q, f)), NoTarget) = ColdAnswer(q, f)
<1> DEFINE r == Aimed(q, ColdTarget(q, f))
<1> SUFFICES ColdAnswer(r, NoTarget) = ColdAnswer(q, f)
  OBVIOUS
<1>1. /\ r.action = q.action /\ r.query = q.query /\ r.detail = q.detail
      /\ r.graph = q.graph /\ r.depth = q.depth /\ r.chars = q.chars
      /\ r.target = IF ColdTarget(q, f) = NoTarget THEN q.target ELSE ColdTarget(q, f)
  BY AimedFields
<1> HIDE DEF r
<1>2. CASE q.action \in {"inspect", "cpg"}
  <2> DEFINE g == TargetOf(q, f)
  <2>1. r.target = g /\ TargetOf(r, NoTarget) = g
    BY <1>1, <1>2 DEF ColdTarget, TargetOf
  <2>2. CASE q.action = "inspect"
    <3>1. ColdAnswer(q, f) = OnColdTarget(q, f, ColdInspect(q, g))
      BY <2>2 DEF ColdAnswer
    <3>2. ColdAnswer(r, NoTarget) = OnColdTarget(r, NoTarget, ColdInspect(r, TargetOf(r, NoTarget)))
      BY <1>1, <2>2 DEF ColdAnswer
    <3>3. ColdInspect(r, g) = ColdInspect(q, g)
      BY <1>1 DEF ColdInspect
    <3> QED BY <2>1, <3>1, <3>2, <3>3 DEF OnColdTarget
  <2>3. CASE q.action = "cpg"
    <3>1. ColdAnswer(q, f) = OnColdTarget(q, f, ColdCpg(q, g))
      BY <2>3 DEF ColdAnswer
    <3>2. ColdAnswer(r, NoTarget) = OnColdTarget(r, NoTarget, ColdCpg(r, TargetOf(r, NoTarget)))
      BY <1>1, <2>3 DEF ColdAnswer
    <3>3. ColdCpg(r, g) = ColdCpg(q, g)
      BY <1>1 DEF ColdCpg
    <3> QED BY <2>1, <3>1, <3>2, <3>3 DEF OnColdTarget
  <2> QED BY <1>2, <2>2, <2>3
<1>3. CASE q.action \in {"find", "open", "problems"}
  <2>1. ColdAnswer(q, f) = CASE q.action = "find" -> ColdFind(q)
                             [] q.action = "open" -> Good(OpenItems(disk, Problems(disk)))
                             [] q.action = "problems" -> Good(Problems(disk))
    BY <1>3 DEF ColdAnswer
  <2>2. ColdAnswer(r, NoTarget) = CASE q.action = "find" -> ColdFind(r)
                                    [] q.action = "open" -> Good(OpenItems(disk, Problems(disk)))
                                    [] q.action = "problems" -> Good(Problems(disk))
    BY <1>1, <1>3 DEF ColdAnswer
  <2>3. ColdFind(r) = ColdFind(q)
    BY <1>1 DEF ColdFind
  <2> QED BY <2>1, <2>2, <2>3
<1>4. CASE q.action = "metrics"
  <2>1. ColdAnswer(q, f) = ColdMetrics(q) /\ ColdAnswer(r, NoTarget) = ColdMetrics(r)
    BY <1>1, <1>4 DEF ColdAnswer
  <2>2. r.target = q.target
    BY <1>1, <1>4 DEF ColdTarget
  <2>3. ColdMetrics(r) = ColdMetrics(q)
    BY <1>1, <2>2 DEF ColdMetrics
  <2> QED BY <2>1, <2>3
<1>5. CASE q.action = "focus"
  <2>1. ColdAnswer(q, f) = ColdFocus(q) /\ ColdAnswer(r, NoTarget) = ColdFocus(r)
    BY <1>1, <1>5 DEF ColdAnswer
  <2>2. r.target = q.target
    BY <1>1, <1>5 DEF ColdTarget
  <2>3. ColdFocus(r) = ColdFocus(q)
    BY <1>1, <2>2 DEF ColdFocus
  <2> QED BY <2>1, <2>3
<1>6. q.action # "trace"
  BY DEF Lasting
<1> QED BY <1>2, <1>3, <1>4, <1>5, <1>6 DEF IsRequest, RequestActions

(* The items that are cut are the same for it, and last as long.            *)
LEMMA AimedIsCut ==
    ASSUME NEW q, IsRequest(q), NEW f, NEW lazy, NEW answer
    PROVE  /\ CutItems(Aimed(q, ColdTarget(q, f)), answer) = CutItems(q, answer)
           /\ Lasting(Aimed(q, ColdTarget(q, f)), lazy) => Lasting(q, lazy)
           /\ Lasting(q, lazy) => Lasting(Aimed(q, ColdTarget(q, f)), lazy)
<1> DEFINE r == Aimed(q, ColdTarget(q, f))
<1>1. /\ r.action = q.action /\ r.chars = q.chars
      /\ r.target = IF ColdTarget(q, f) = NoTarget THEN q.target ELSE ColdTarget(q, f)
  BY AimedFields
<1> HIDE DEF r
<1>2. CutItems(r, answer) = CutItems(q, answer)
  BY <1>1 DEF CutItems
<1>3. q.action = "focus" => r.target = q.target
  BY <1>1 DEF ColdTarget
<1>4. Lasting(r, lazy) <=> Lasting(q, lazy)
  BY <1>1, <1>3 DEF Lasting
<1> QED BY <1>2, <1>4 DEF r

-----------------------------------------------------------------------------
(* The reply to a request, as a function of the files, the request and the  *)
(* focus it leaves.                                                         *)
ColdItems(q, f) == IF ColdAnswer(q, f).error # "" THEN ColdAnswer(q, f) ELSE CutItems(q, ColdAnswer(q, f))
ColdPage(q, cursor, f) ==
    IF ColdItems(q, f).error # "" THEN PageError(ColdItems(q, f).error)
    ELSE Paginate(ColdItems(q, f).items, stamp, Fingerprint(q, ColdTarget(q, f)), q.items, q.chars, cursor)
ColdReply(q, cursor, f) ==
    [request |-> q, cursor |-> cursor, revision |-> stamp, focus |-> f, all |-> ColdItems(q, f).items,
     page |-> ColdPage(q, cursor, f)]

SameItems(a, b) == a.error = b.error /\ a.items = b.items
(* What is prepared under the fingerprint of a request is what is cut now.  *)
LEMMA PreparedIsCold ==
    ASSUME NEW c, Coherent(c), NEW q, IsRequest(q), Lasting(q, c.lazy), NEW f, NEW s,
           IsAnswer(q, f, s), s.answer.error = ""
    PROVE  SameItems(Prepared(c, q, s), CutItems(q, ColdAnswer(q, f)))
<1> DEFINE answer == ColdAnswer(q, f)
           r == Aimed(q, ColdTarget(q, f))
<1>1. s.answer = answer /\ s.target = ColdTarget(q, f)
  BY DEF IsAnswer, Lasting, Bare
<1>2. Key(c, q, s)[2][1] = r
  BY <1>1, FingerprintIsAimed DEF Key
<1>3. Lasting(r, c.lazy) /\ ColdAnswer(r, NoTarget) = answer /\ CutItems(r, answer) = CutItems(q, answer)
  BY AimedIsAnswered, AimedIsCut
<1> HIDE DEF answer, r
<1>4. CASE Has(c.prepared, Key(c, q, s))
  <2> DEFINE e == Cached(c.prepared, Key(c, q, s))
  <2>1. e \in Range(c.prepared) /\ e.key = Key(c, q, s)
    BY <1>4, CachedIsEntry
  <2>2. Prepared(c, q, s) = Good(e.items)
    BY <1>4 DEF Prepared
  <2> HIDE DEF e
  <2>3. IsPrepared(e.items, r)
    BY <1>2, <1>3, <2>1 DEF Coherent, PreparedMatch
  <2>4. CutItems(q, answer).error = "" /\ CutItems(q, answer).items = e.items
    BY <1>3, <2>3 DEF IsPrepared
  <2>5. Good(e.items).error = "" /\ Good(e.items).items = e.items
    BY DEF Good
  <2>6. Prepared(c, q, s).error = CutItems(q, answer).error
    BY <2>2, <2>4, <2>5
  <2>7. Prepared(c, q, s).items = CutItems(q, answer).items
    BY <2>2, <2>4, <2>5
  <2> QED BY <2>6, <2>7 DEF answer, SameItems
<1>5. CASE ~Has(c.prepared, Key(c, q, s))
  <2>1. Prepared(c, q, s) = CutItems(q, answer)
    BY <1>1, <1>5 DEF Prepared, CutItems
  <2> QED BY <2>1 DEF answer, SameItems
<1> QED BY <1>4, <1>5

(* The fields of a reply.                                                   *)
LEMMA ReplyIs ==
    ASSUME NEW c, NEW q, NEW cursor, NEW key, NEW prepared
    PROVE  Reply(c, q, cursor, key, prepared) =
               [request |-> q, cursor |-> cursor, revision |-> c.revision, focus |-> c.focus,
                all |-> prepared.items,
                page |-> IF prepared.error # "" THEN PageError(prepared.error)
                         ELSE Paginate(prepared.items, key[1], key[2], q.items, q.chars, cursor)]
  BY DEF Reply

(* A context that is up to date replies like a cold one.                    *)
LEMMA ResponseIsCold ==
    ASSUME NEW c, IsContext(c), Coherent(c), NEW q, IsRequest(q), Lasting(q, c.lazy), NEW cursor,
           q.action \in {"open", "problems"} => c.indexed
    PROVE  Response(q, cursor, Serve(c, q, disk)).reply = ColdReply(q, cursor, FocusAfter(q, c.focus))
<1> DEFINE s == Serve(c, q, disk)
           f == FocusAfter(q, c.focus)
           d == s.context
           p == Prepared(d, q, s)
           items == ColdItems(q, f)
           k == Key(d, q, s)
<1>1. Serves(c, q, disk, f, s)
  BY ServeServes DEF IsRequest, Lasting
<1> HIDE DEF s, f
<1>2. Coherent(d) /\ d.focus = f /\ IsAnswer(q, f, s) /\ d.revision = stamp /\ d.lazy = c.lazy
  BY <1>1 DEF Serves, StaysCoherent, Coherent, Same
<1>3. s.answer = ColdAnswer(q, f)
  BY <1>2 DEF IsAnswer, Lasting, Bare
<1>4. CASE s.answer.error # ""
  <2> DEFINE a == s.answer
  <2>1. Response(q, cursor, s).reply = Reply(d, q, cursor, <<>>, a)
    BY <1>4 DEF Response
  <2>2. items = a
    BY <1>3, <1>4 DEF ColdItems
  <2>3. a.error # ""
    BY <1>4
  <2> HIDE DEF a, d
  <2>4. Reply(d, q, cursor, <<>>, a) = ColdReply(q, cursor, f)
    BY <1>2, <2>2, <2>3, ReplyIs DEF ColdReply, ColdPage
  <2> QED BY <2>1, <2>4 DEF s, f
<1>5. CASE s.answer.error = ""
  <2>1. Response(q, cursor, s).reply = Reply(d, q, cursor, k, p)
    BY <1>5 DEF Response
  <2>2. p.error = items.error /\ p.items = items.items
    <3>1. items = CutItems(q, ColdAnswer(q, f))
      BY <1>3, <1>5 DEF ColdItems
    <3> HIDE DEF d, items
    <3>2. Lasting(q, d.lazy)
      BY <1>2
    <3>3. SameItems(p, CutItems(q, ColdAnswer(q, f)))
      BY <1>2, <1>5, <3>2, PreparedIsCold
    <3> HIDE DEF p
    <3> QED BY <3>1, <3>3 DEF SameItems
  <2>3. k[1] = stamp /\ k[2] = Fingerprint(q, ColdTarget(q, f))
    BY <1>2, <1>5 DEF Key, IsAnswer
  <2> HIDE DEF p, d, k
  <2>4. Reply(d, q, cursor, k, p) = ColdReply(q, cursor, f)
    BY <1>2, <2>2, <2>3, ReplyIs DEF ColdReply, ColdPage
  <2> QED BY <2>1, <2>4 DEF s, f
<1> QED BY <1>4, <1>5

-----------------------------------------------------------------------------
(* What a reply remembers is what any later request of its key would cut.   *)
Keeps(c, d) == IsContext(d) /\ d.lazy = c.lazy /\ d.revision = c.revision /\ d.indexed = c.indexed
LEMMA RememberedStays ==
    ASSUME NEW c, IsContext(c), NEW key, NEW prepared
    PROVE  /\ Keeps(c, Remembered(c, key, prepared))
           /\ /\ Coherent(c)
              /\ prepared.error = "" /\ Lasting(key[2][1], c.lazy) =>
                    IsPrepared(prepared.items, key[2][1])
              => Coherent(Remembered(c, key, prepared))
<1> DEFINE e == [key |-> key, items |-> prepared.items]
           new == IF prepared.error # "" THEN Without(c.prepared, key)
                  ELSE Newest(Touched(c.prepared, e), PreparedLimit)
           d == [c EXCEPT !.prepared = new]
<1>1. Remembered(c, key, prepared) = d
  BY DEF Remembered
<1>2. e.key = key /\ e.items = prepared.items
  OBVIOUS
<1> HIDE DEF e
<1>3. ASSUME IsCache(c.prepared)
      PROVE  IF prepared.error # "" THEN IsCache(new) /\ Range(new) \subseteq Range(c.prepared)
             ELSE MadeOf(new, c.prepared, e)
  BY <1>3, WithoutIsCache, SequenceIsCache, TouchedIsMade, NewestIsMade, LimitAssumption
<1> HIDE DEF new
<1>4. IsContext(d) /\ d.prepared = new /\ \A x \in ContextFields \ {"prepared"} : d[x] = c[x]
  BY DEF IsContext, ContextFields
<1> HIDE DEF d
<1>5. /\ Keeps(c, d) /\ d.workspace = c.workspace /\ d.focus = c.focus /\ d.registry = c.registry
      /\ d.ranked = c.ranked /\ d.loaded = c.loaded /\ d.metrics = c.metrics /\ d.cpg = c.cpg
  BY <1>4 DEF Keeps, ContextFields
<1>6. ASSUME Coherent(c),
             prepared.error = "" /\ Lasting(key[2][1], c.lazy) => IsPrepared(prepared.items, key[2][1])
      PROVE  Coherent(d)
  <2>1. PreparedMatch(c)
    BY <1>6 DEF Coherent
  <2>2. PreparedMatch(d)
    <3>1. CASE prepared.error # ""
      BY <1>3, <1>4, <1>5, <2>1, <3>1 DEF PreparedMatch, Keeps
    <3>2. CASE prepared.error = ""
      <4>1. Lasting(e.key[2][1], c.lazy) => IsPrepared(e.items, e.key[2][1])
        BY <1>2, <1>6, <3>2
      <4> QED BY <1>3, <1>4, <1>5, <2>1, <3>2, <4>1 DEF PreparedMatch, MadeOf, Keeps
    <3> QED BY <3>1, <3>2
  <2>3. RegistryMatches(d) /\ StoresMatch(d)
    BY <1>5, <1>6 DEF Coherent, RegistryMatches, StoresMatch, MetricsMatch, RankedMatch, LoadedMatch,
       GraphsMatch, Keeps
  <2> QED BY <1>5, <1>6, <2>2, <2>3 DEF Coherent, Keeps
<1> QED BY <1>1, <1>5, <1>6

(* What is not to be used again is not remembered under a key that is.      *)
LEMMA KeyOfTheRest ==
    ASSUME NEW q, IsRequest(q), NEW lazy, ~Lasting(q, lazy), NEW target,
           Bare(q) => target = NoTarget
    PROVE  ~Lasting(Aimed(q, target), lazy)
<1> DEFINE r == Aimed(q, target)
<1>1. r.action = q.action /\ r.target = IF target = NoTarget THEN q.target ELSE target
  BY AimedFields
<1> HIDE DEF r
<1>2. ~Lasting(r, lazy)
  BY <1>1 DEF Lasting, Bare
<1> QED BY <1>2 DEF r

(* A request that is answered leaves a coherent context coherent.           *)
LEMMA ResponseStays ==
    ASSUME NEW c, IsContext(c), NEW q, IsRequest(q), NEW cursor, c.lazy \/ c.indexed
    PROVE  /\ Keeps(c, Response(q, cursor, Serve(c, q, disk)).context)
           /\ Coherent(c) => Coherent(Response(q, cursor, Serve(c, q, disk)).context)
<1> DEFINE s == Serve(c, q, disk)
           f == FocusAfter(q, c.focus)
           d == s.context
           p == Prepared(d, q, s)
           k == Key(d, q, s)
           e == Response(q, cursor, s).context
<1>1. /\ StaysCoherent(c, disk, d)
      /\ q.action # "trace" /\ (q.action \in {"open", "problems"} => c.indexed) =>
            Serves(c, q, disk, f, s)
  BY ServeServes DEF IsRequest
<1> HIDE DEF s, f
<1>2. Keeps(c, d) /\ IsContext(d)
  BY <1>1 DEF StaysCoherent, Same, Keeps
<1>3. e = d \/ (s.answer.error = "" /\ e = Remembered(d, k, p))
  BY DEF Response
<1>4. ASSUME Coherent(c), s.answer.error = ""
      PROVE  p.error = "" /\ Lasting(k[2][1], d.lazy) => IsPrepared(p.items, k[2][1])
  <2>1. k[2][1] = Aimed(q, s.target)
    BY FingerprintIsAimed DEF Key
  <2>2. Coherent(d) /\ d.lazy = c.lazy
    BY <1>1, <1>4 DEF StaysCoherent, Same
  <2> HIDE DEF d, k
  <2>3. CASE Lasting(q, c.lazy)
    <3>1. Serves(c, q, disk, f, s)
      BY <1>1, <2>3 DEF Lasting
    <3>2. IsAnswer(q, f, s) /\ s.target = ColdTarget(q, f)
      BY <1>4, <3>1 DEF Serves, IsAnswer
    <3> DEFINE r == Aimed(q, ColdTarget(q, f))
    <3>3. k[2][1] = r
      BY <2>1, <3>2
    <3>4. SameItems(p, CutItems(q, ColdAnswer(q, f)))
      BY <1>4, <2>2, <2>3, <3>2, PreparedIsCold
    <3>5. ColdAnswer(r, NoTarget) = ColdAnswer(q, f)
      BY <2>3, AimedIsAnswered
    <3>6. CutItems(r, ColdAnswer(q, f)) = CutItems(q, ColdAnswer(q, f))
      BY AimedIsCut
    <3> HIDE DEF r, p
    <3>7. p.error = "" => IsPrepared(p.items, r)
      BY <3>4, <3>5, <3>6 DEF IsPrepared, SameItems
    <3> QED BY <3>3, <3>7
  <2>4. CASE ~Lasting(q, c.lazy)
    <3>1. Bare(q) => s.target = NoTarget
      <4>1. ASSUME Bare(q)
            PROVE  s.target = NoTarget
        <5>1. Serves(c, q, disk, f, s)
          BY <1>1, <4>1 DEF Bare
        <5>2. s.target = ColdTarget(q, f)
          BY <1>4, <5>1 DEF Serves, IsAnswer
        <5> QED BY <4>1, <5>2 DEF Bare, ColdTarget
      <4> QED BY <4>1
    <3>2. ~Lasting(k[2][1], d.lazy)
      BY <2>1, <2>2, <2>4, <3>1, KeyOfTheRest
    <3> QED BY <3>2
  <2> QED BY <2>3, <2>4
<1> HIDE DEF d, k, p, e
<1>5. CASE e = d
  <2>1. Coherent(c) => Coherent(d)
    BY <1>1 DEF StaysCoherent
  <2> QED BY <1>2, <1>5, <2>1 DEF e, s
<1>6. CASE s.answer.error = "" /\ e = Remembered(d, k, p)
  <2>1. Keeps(c, e)
    BY <1>2, <1>6, RememberedStays DEF Keeps
  <2>2. ASSUME Coherent(c)
        PROVE  Coherent(e)
    <3>1. Coherent(d)
      BY <1>1, <2>2 DEF StaysCoherent
    <3>2. p.error = "" /\ Lasting(k[2][1], d.lazy) => IsPrepared(p.items, k[2][1])
      BY <1>4, <1>6, <2>2
    <3> QED BY <1>2, <1>6, <3>1, <3>2, RememberedStays
  <2> QED BY <2>1, <2>2 DEF e, s
<1> QED BY <1>3, <1>5, <1>6

-----------------------------------------------------------------------------
(* A context that has just been opened has nothing that could be wrong.     *)
LEMMA EmptyFields ==
    ASSUME NEW texts, NEW revision, NEW lazy
    PROVE  LET c == EmptyContext(texts, revision, lazy)
           IN /\ IsContext(c) /\ c.lazy = lazy /\ c.revision = revision /\ c.indexed
              /\ c.workspace = texts /\ c.focus = NoTarget
              /\ c.registry = NoRegistry /\ c.metrics = NoRegistry
              /\ c.ranked = <<>> /\ c.loaded = <<>> /\ c.cpg = <<>> /\ c.prepared = <<>>
<1> DEFINE t == TRUE
           index == NoIndex
           c == [lazy |-> lazy, revision |-> revision, checked |-> t, workspace |-> texts,
                 indexed |-> t, focus |-> NoTarget, registry |-> NoRegistry, ranked |-> <<>>,
                 loaded |-> <<>>, loadedBytes |-> 0, relations |-> index, metrics |-> NoRegistry,
                 cpg |-> <<>>, cpgBytes |-> 0, prepared |-> <<>>]
<1>1. EmptyContext(texts, revision, lazy) = c
  BY DEF EmptyContext
<1>2. t
  OBVIOUS
<1> HIDE DEF t, index
<1>3. /\ DOMAIN c = ContextFields /\ c.lazy = lazy /\ c.revision = revision /\ c.indexed = t
      /\ c.workspace = texts /\ c.focus = NoTarget
      /\ c.registry = NoRegistry /\ c.metrics = NoRegistry
      /\ c.ranked = <<>> /\ c.loaded = <<>> /\ c.cpg = <<>> /\ c.prepared = <<>>
  BY DEF ContextFields
<1> HIDE DEF c
<1> QED BY <1>1, <1>2, <1>3 DEF IsContext

(* Stores that are empty are of any files.                                  *)
LEMMA EmptyIsCoherent ==
    ASSUME NEW c, c.workspace = disk, c.revision = stamp, stamp # 0,
           c.registry = NoRegistry, c.metrics = NoRegistry,
           c.ranked = <<>>, c.loaded = <<>>, c.cpg = <<>>, c.prepared = <<>>
    PROVE  Coherent(c)
<1>1. NoRegistry.revision = 0
  BY DEF NoRegistry
<1>2. RegistryMatches(c) /\ MetricsMatch(c)
  BY <1>1 DEF RegistryMatches, MetricsMatch
<1>3. RankedMatch(c) /\ LoadedMatch(c) /\ GraphsMatch(c) /\ PreparedMatch(c)
  BY EmptyIsCache DEF RankedMatch, LoadedMatch, GraphsMatch, PreparedMatch
<1> QED BY <1>2, <1>3 DEF Coherent, StoresMatch

(* What eviction leaves.                                                    *)
LEMMA ForgottenFields ==
    ASSUME NEW c, IsContext(c)
    PROVE  LET a == ForgetAuxiliary(c)
           IN /\ IsContext(a) /\ a.metrics = NoRegistry
              /\ a.loaded = <<>> /\ a.cpg = <<>> /\ a.prepared = <<>>
              /\ a.lazy = c.lazy /\ a.revision = c.revision /\ a.indexed = c.indexed
              /\ a.workspace = c.workspace /\ a.focus = c.focus
              /\ a.registry = c.registry /\ a.ranked = c.ranked
<1> DEFINE r == NoRegistry
           i == NoIndex
           a == [c EXCEPT !.relations = i, !.metrics = r, !.cpg = <<>>, !.cpgBytes = 0,
                          !.prepared = <<>>, !.loaded = <<>>, !.loadedBytes = 0]
<1>1. ForgetAuxiliary(c) = a
  BY DEF ForgetAuxiliary
<1> HIDE DEF r, i
<1>2. /\ DOMAIN a = DOMAIN c /\ a.metrics = r /\ a.loaded = <<>> /\ a.cpg = <<>> /\ a.prepared = <<>>
      /\ a.lazy = c.lazy /\ a.revision = c.revision /\ a.indexed = c.indexed
      /\ a.workspace = c.workspace /\ a.focus = c.focus
      /\ a.registry = c.registry /\ a.ranked = c.ranked
  BY DEF IsContext, ContextFields
<1> HIDE DEF a
<1> QED BY <1>1, <1>2 DEF IsContext, r

LEMMA NavigationFields ==
    ASSUME NEW c, IsContext(c)
    PROVE  LET n == ForgetNavigation(c)
           IN /\ IsContext(n) /\ n.metrics = NoRegistry /\ n.registry = NoRegistry
              /\ n.loaded = <<>> /\ n.cpg = <<>> /\ n.prepared = <<>> /\ n.ranked = <<>>
              /\ n.lazy = c.lazy /\ n.revision = c.revision /\ n.indexed = c.indexed
              /\ n.workspace = c.workspace
<1> DEFINE r == NoRegistry
           a == ForgetAuxiliary(c)
           n == [a EXCEPT !.registry = r, !.ranked = <<>>]
<1>1. ForgetNavigation(c) = n
  BY DEF ForgetNavigation
<1>2. /\ DOMAIN a = ContextFields /\ a.metrics = r
      /\ a.loaded = <<>> /\ a.cpg = <<>> /\ a.prepared = <<>>
      /\ a.lazy = c.lazy /\ a.revision = c.revision /\ a.indexed = c.indexed
      /\ a.workspace = c.workspace
  BY ForgottenFields DEF IsContext
<1> HIDE DEF r, a
<1>3. /\ DOMAIN n = DOMAIN a /\ n.registry = r /\ n.metrics = r
      /\ n.loaded = <<>> /\ n.cpg = <<>> /\ n.prepared = <<>> /\ n.ranked = <<>>
      /\ n.lazy = c.lazy /\ n.revision = c.revision /\ n.indexed = c.indexed
      /\ n.workspace = c.workspace
  BY <1>2 DEF ContextFields
<1> HIDE DEF n
<1> QED BY <1>1, <1>2, <1>3 DEF IsContext, r

(* A scan brings a context to the files: what it keeps it had of them.      *)
LEMMA ScanIsCoherent ==
    ASSUME NEW c, IsContext(c), c.revision = stamp => Coherent(c), stamp # 0
    PROVE  LET d == Scanned(c, disk, stamp)
           IN IsContext(d) /\ d.lazy = c.lazy /\ d.revision = stamp /\ d.indexed /\ Coherent(d)
<1> DEFINE b == IF stamp # c.revision THEN ForgetNavigation(c) ELSE c
           t == TRUE
           d == [b EXCEPT !.revision = stamp, !.checked = t, !.workspace = disk, !.indexed = t]
<1>1. Scanned(c, disk, stamp) = d
  BY DEF Scanned
<1>2. IsContext(b) /\ b.lazy = c.lazy
  BY NavigationFields
<1>3. t
  OBVIOUS
<1> HIDE DEF b, t
<1>4. /\ DOMAIN d = DOMAIN b /\ d.revision = stamp /\ d.workspace = disk /\ d.indexed = t
      /\ d.lazy = b.lazy /\ d.focus = b.focus /\ d.registry = b.registry /\ d.ranked = b.ranked
      /\ d.loaded = b.loaded /\ d.metrics = b.metrics /\ d.cpg = b.cpg /\ d.prepared = b.prepared
  BY <1>2 DEF IsContext, ContextFields
<1> HIDE DEF d
<1>5. Coherent(d)
  <2>1. CASE stamp # c.revision
    BY <1>4, <2>1, NavigationFields, EmptyIsCoherent DEF b
  <2>2. CASE stamp = c.revision
    <3>1. b = c /\ Coherent(c)
      BY <2>2 DEF b
    <3> QED BY <1>4, <3>1 DEF Coherent, RegistryMatches, StoresMatch, MetricsMatch, RankedMatch,
       LoadedMatch, GraphsMatch, PreparedMatch
  <2> QED BY <2>1, <2>2
<1> QED BY <1>1, <1>2, <1>3, <1>4, <1>5 DEF IsContext

-----------------------------------------------------------------------------
(* While the files stay as they are, a coherent context stays one.          *)
LEMMA AnswersOfSameFiles ==
    ASSUME disk' = disk, NEW q, NEW f
    PROVE  ColdAnswer(q, f)' = ColdAnswer(q, f)
<1>1. ColdFind(q)' = ColdFind(q) /\ ColdFocus(q)' = ColdFocus(q) /\ ColdMetrics(q)' = ColdMetrics(q)
  BY DEF ColdFind, ColdFocus, ColdMetrics
<1>2. \A g : ColdInspect(q, g)' = ColdInspect(q, g) /\ ColdCpg(q, g)' = ColdCpg(q, g)
  BY DEF ColdInspect, ColdCpg
<1> QED BY <1>1, <1>2 DEF ColdAnswer, OnColdTarget

LEMMA CoherentOfSameFiles ==
    ASSUME disk' = disk, stamp' = stamp, Coherent(context')
    PROVE  Coherent(context)'
<1>1. \A items, q : IsPrepared(items, q) => IsPrepared(items, q)'
  BY AnswersOfSameFiles DEF IsPrepared
<1>2. RegistryMatches(context)' /\ StoresMatch(context)'
  BY DEF Coherent, RegistryMatches, StoresMatch, MetricsMatch, RankedMatch, LoadedMatch, GraphsMatch
<1>3. PreparedMatch(context)'
  BY <1>1 DEF Coherent, PreparedMatch
<1> QED BY <1>2, <1>3 DEF Coherent

-----------------------------------------------------------------------------
(* Requests come from the menus.                                            *)
LEMMA MenusHaveRequests == \A m \in Menus : \A q \in m : IsRequest(q)
  BY RequestAssumption DEF IsRequest

LEMMA InitContext == Init => ContextInv
<1> SUFFICES ASSUME Init
             PROVE  ContextInv
  OBVIOUS
<1>1. stamp = 1 /\ menu \in Menus /\ Idle
  BY DEF Init, Idle
<1>2. PICK lazy \in BOOLEAN : context = EmptyContext(disk, stamp, lazy)
  BY DEF Init
<1>3. IsContext(context) /\ context.revision = stamp /\ Coherent(context)
  BY <1>1, <1>2, EmptyFields, EmptyIsCoherent
<1> QED BY <1>1, <1>3 DEF ContextInv, AskedInv

(* A file that changes leaves every context out of date.                    *)
LEMMA EditContext ==
    ASSUME ContextInv, Edit
    PROVE  ContextInv'
<1>1. stamp' = stamp + 1 /\ context' = context /\ menu' = menu /\ asked' = asked
  BY DEF Edit
<1>2. stamp \in Nat /\ stamp >= 1 /\ IsContext(context) /\ context.revision \in 1 .. stamp /\ AskedInv
  BY DEF ContextInv
<1>3. stamp' \in Nat /\ stamp' >= 1 /\ context.revision \in 1 .. stamp' /\ context.revision # stamp'
  BY <1>1, <1>2
<1>4. AskedInv'
  BY <1>1, <1>2 DEF AskedInv, Idle
<1>5. IsContext(context)'
  BY <1>1, <1>2 DEF IsContext
<1> QED BY <1>1, <1>3, <1>4, <1>5 DEF ContextInv

(* A step that leaves the files alone and the context coherent.             *)
LEMMA StepContext ==
    ASSUME ContextInv, UNCHANGED <<disk, stamp, menu>>, IsContext(context'),
           context'.revision \in {context.revision, stamp},
           context'.revision = stamp => Coherent(context'),
           AskedInv'
    PROVE  ContextInv'
<1>1. IsContext(context)'
  BY DEF IsContext
<1>2. stamp' \in Nat /\ stamp' >= 1 /\ context'.revision \in 1 .. stamp'
  BY DEF ContextInv
<1>3. context'.revision = stamp' => Coherent(context)'
  BY CoherentOfSameFiles
<1> QED BY <1>1, <1>2, <1>3 DEF ContextInv

LEMMA AskContext ==
    ASSUME ContextInv, NEW q \in menu, NEW cursor, Refresh(q, cursor)
    PROVE  ContextInv'
<1> DEFINE d == Scanned(context, disk, stamp)
<1>1. /\ UNCHANGED <<disk, stamp, menu>> /\ asked'.request = q
      /\ context' = d \/ (context.lazy /\ context' = context)
  BY DEF Refresh
<1>2. IsContext(context) /\ (context.revision = stamp => Coherent(context)) /\ stamp # 0
  BY DEF ContextInv
<1>3. IsContext(d) /\ d.revision = stamp /\ d.indexed /\ Coherent(d)
  BY <1>2, ScanIsCoherent
<1> HIDE DEF d
<1>4. menu' \in Menus /\ asked'.request \in menu'
  BY <1>1 DEF ContextInv, AskedInv
<1>5. CASE context' = d
  <2>1. AskedInv'
    BY <1>3, <1>4, <1>5 DEF AskedInv
  <2> QED BY <1>1, <1>3, <1>5, <2>1, StepContext
<1>6. CASE context.lazy /\ context' = context
  <2>1. AskedInv'
    BY <1>4, <1>6 DEF AskedInv
  <2> QED BY <1>1, <1>2, <1>6, <2>1, StepContext
<1> QED BY <1>1, <1>5, <1>6

(* What is handled is a request, of a context that knows the problems.      *)
LEMMA AskedIsRequest ==
    ASSUME ContextInv, ~Idle
    PROVE  IsRequest(asked.request) /\ (context.lazy \/ context.indexed)
  BY MenusHaveRequests DEF ContextInv, AskedInv

LEMMA AnswerContext ==
    ASSUME ContextInv, Answer
    PROVE  ContextInv'
<1> DEFINE r == Response(asked.request, asked.cursor, Serve(context, asked.request, disk))
           d == r.context
<1>1. UNCHANGED <<disk, stamp, menu>> /\ asked' = NothingAsked /\ ~Idle /\ context' = d
  BY DEF Answer, Answered
<1>2. IsContext(context) /\ IsRequest(asked.request) /\ (context.lazy \/ context.indexed)
  BY <1>1, AskedIsRequest DEF ContextInv
<1>3. Keeps(context, d) /\ (Coherent(context) => Coherent(d))
  BY <1>2, ResponseStays
<1> HIDE DEF d
<1>4. AskedInv'
  BY <1>1 DEF AskedInv, ContextInv, Idle
<1>5. context'.revision = stamp => Coherent(context')
  BY <1>1, <1>3 DEF Keeps, ContextInv
<1> QED BY <1>1, <1>3, <1>4, <1>5, StepContext DEF Keeps

LEMMA HousekeepingContext ==
    ASSUME ContextInv, Housekeeping
    PROVE  ContextInv'
<1>1. UNCHANGED <<disk, stamp, menu, asked>> /\ Idle
  BY DEF Housekeeping, EvictAuxiliary, EvictNavigation, Invalidate
<1>2. AskedInv'
  BY <1>1 DEF AskedInv, ContextInv, Idle
<1>3. IsContext(context) /\ (context.revision = stamp => Coherent(context)) /\ stamp # 0
  BY DEF ContextInv
<1>4. CASE context' = ForgetAuxiliary(context)
  <2> DEFINE a == ForgetAuxiliary(context)
  <2>1. /\ IsContext(a) /\ a.metrics = NoRegistry
        /\ a.loaded = <<>> /\ a.cpg = <<>> /\ a.prepared = <<>>
        /\ a.revision = context.revision /\ a.workspace = context.workspace
        /\ a.focus = context.focus /\ a.registry = context.registry /\ a.ranked = context.ranked
    BY <1>3, ForgottenFields
  <2> HIDE DEF a
  <2>2. ASSUME Coherent(context)
        PROVE  Coherent(a)
    <3>1. RegistryMatches(a) /\ RankedMatch(a)
      BY <2>1, <2>2 DEF Coherent, RegistryMatches, StoresMatch, RankedMatch
    <3>2. LoadedMatch(a) /\ GraphsMatch(a) /\ PreparedMatch(a)
      BY <2>1, EmptyIsCache DEF LoadedMatch, GraphsMatch, PreparedMatch
    <3>3. a.revision = stamp /\ a.workspace = disk
      BY <2>1, <2>2 DEF Coherent
    <3>4. MetricsMatch(a)
      BY <1>3, <2>1, <3>3 DEF MetricsMatch, NoRegistry
    <3> QED BY <3>1, <3>2, <3>3, <3>4 DEF Coherent, StoresMatch
  <2>3. context' = a
    BY <1>4 DEF a
  <2> QED BY <1>1, <1>2, <1>3, <2>1, <2>2, <2>3, StepContext
<1>5. CASE context' = [ForgetNavigation(context) EXCEPT !.indexed = FALSE]
  <2> DEFINE n == ForgetNavigation(context)
             off == FALSE
             d == [n EXCEPT !.indexed = off]
  <2>1. /\ IsContext(n) /\ n.metrics = NoRegistry /\ n.registry = NoRegistry
        /\ n.loaded = <<>> /\ n.cpg = <<>> /\ n.prepared = <<>> /\ n.ranked = <<>>
        /\ n.revision = context.revision /\ n.workspace = context.workspace
    BY <1>3, NavigationFields
  <2>2. context' = d
    BY <1>5
  <2> HIDE DEF n, off
  <2>3. /\ IsContext(d) /\ d.metrics = NoRegistry /\ d.registry = NoRegistry
        /\ d.loaded = <<>> /\ d.cpg = <<>> /\ d.prepared = <<>> /\ d.ranked = <<>>
        /\ d.revision = context.revision /\ d.workspace = context.workspace
    BY <2>1 DEF IsContext, ContextFields
  <2> HIDE DEF d
  <2>4. ASSUME Coherent(context)
        PROVE  Coherent(d)
    BY <1>3, <2>3, <2>4, EmptyIsCoherent DEF Coherent
  <2> QED BY <1>1, <1>2, <1>3, <2>2, <2>3, <2>4, StepContext
<1>6. CASE context' = [context EXCEPT !.checked = FALSE]
  <2> DEFINE off == FALSE
             d == [context EXCEPT !.checked = off]
  <2>1. context' = d
    BY <1>6
  <2> HIDE DEF off
  <2>2. IsContext(d) /\ \A x \in ContextFields \ {"checked"} : d[x] = context[x]
    BY <1>3 DEF IsContext
  <2> HIDE DEF d
  <2>3. /\ Same(context, d) /\ d.registry = context.registry /\ d.ranked = context.ranked
        /\ d.loaded = context.loaded /\ d.metrics = context.metrics /\ d.cpg = context.cpg
        /\ d.focus = context.focus
    BY <2>2 DEF Same, ContextFields
  <2>4. ASSUME Coherent(context)
        PROVE  Coherent(d)
    BY <2>3, <2>4 DEF Coherent, RegistryMatches, StoresMatch, MetricsMatch, RankedMatch,
       LoadedMatch, GraphsMatch, PreparedMatch, Same
  <2> QED BY <1>1, <1>2, <1>3, <2>1, <2>3, <2>4, StepContext DEF Same
<1> QED BY <1>4, <1>5, <1>6 DEF Housekeeping, EvictAuxiliary, EvictNavigation, Invalidate

(* What a context keeps is right whenever its revision is that of the       *)
(* files: each cache holds what would be computed from them now.            *)
THEOREM ContextIsCoherent == Spec => []ContextInv
<1>1. ContextInv /\ [Next]_vars => ContextInv'
  <2> SUFFICES ASSUME ContextInv, [Next]_vars
               PROVE  ContextInv'
    OBVIOUS
  <2>1. CASE Edit
    BY <2>1, EditContext
  <2>2. CASE Ask
    BY <2>2, AskContext DEF Ask
  <2>3. CASE Answer
    BY <2>3, AnswerContext
  <2>4. CASE Housekeeping
    BY <2>4, HousekeepingContext
  <2>5. CASE UNCHANGED vars
    <3>1. UNCHANGED <<disk, stamp, menu, asked, context>>
      BY <2>5 DEF vars
    <3>2. AskedInv'
      BY <3>1 DEF AskedInv, ContextInv, Idle
    <3> QED BY <3>1, <3>2, StepContext DEF ContextInv
  <2> QED BY <2>1, <2>2, <2>3, <2>4, <2>5 DEF Next
<1> QED BY <1>1, InitContext, PTL DEF Spec

-----------------------------------------------------------------------------
(* The focus a request leaves is one it would leave again.                  *)
LEMMA FocusIsLeft ==
    ASSUME NEW q, NEW f
    PROVE  FocusAfter(q, FocusAfter(q, f)) = FocusAfter(q, f)
  BY DEF FocusAfter, Settled

(* A cold context with a focus.                                             *)
LEMMA ColdContext ==
    ASSUME NEW lazy, ~lazy, NEW f, stamp # 0
    PROVE  LET c == [EmptyContext(disk, stamp, lazy) EXCEPT !.focus = f]
           IN IsContext(c) /\ ~c.lazy /\ c.indexed /\ c.focus = f /\ Coherent(c)
<1> DEFINE e == EmptyContext(disk, stamp, lazy)
           c == [e EXCEPT !.focus = f]
<1>1. /\ DOMAIN e = ContextFields /\ e.lazy = lazy /\ e.revision = stamp /\ e.indexed
      /\ e.workspace = disk /\ e.registry = NoRegistry /\ e.metrics = NoRegistry
      /\ e.ranked = <<>> /\ e.loaded = <<>> /\ e.cpg = <<>> /\ e.prepared = <<>>
  BY EmptyFields DEF IsContext
<1> HIDE DEF e
<1>2. /\ DOMAIN c = DOMAIN e /\ c.lazy = e.lazy /\ c.revision = e.revision /\ c.indexed = e.indexed
      /\ c.workspace = e.workspace /\ c.registry = e.registry /\ c.metrics = e.metrics
      /\ c.ranked = e.ranked /\ c.loaded = e.loaded /\ c.cpg = e.cpg /\ c.prepared = e.prepared
      /\ c.focus = f
  BY <1>1 DEF ContextFields
<1> HIDE DEF c
<1>3. Coherent(c)
  BY <1>1, <1>2, EmptyIsCoherent
<1>4. IsContext(c) /\ ~c.lazy /\ c.indexed /\ c.focus = f
  BY <1>1, <1>2 DEF IsContext
<1> QED BY <1>3, <1>4 DEF c, e

(* A reply carries what was asked and the revision of the context.          *)
LEMMA ReplyFields ==
    ASSUME NEW c, IsContext(c), NEW q, IsRequest(q), NEW cursor
    PROVE  LET r == Response(q, cursor, Serve(c, q, disk)).reply
           IN r.request = q /\ r.cursor = cursor /\ r.revision = c.revision
<1> DEFINE s == Serve(c, q, disk)
           r == Response(q, cursor, s).reply
           d == s.context
           k == Key(d, q, s)
           p == Prepared(d, q, s)
           a == s.answer
<1>1. d.revision = c.revision
  BY ServeServes DEF IsRequest, StaysCoherent, Same
<1>2. r = Reply(d, q, cursor, <<>>, a) \/ r = Reply(d, q, cursor, k, p)
  BY DEF Response
<1> HIDE DEF d, k, p, a, s
<1>3. \A key, prepared :
         LET x == Reply(d, q, cursor, key, prepared)
         IN x.request = q /\ x.cursor = cursor /\ x.revision = d.revision
  BY DEF Reply
<1> HIDE DEF r
<1>4. r.request = q /\ r.cursor = cursor /\ r.revision = c.revision
  BY <1>1, <1>2, <1>3
<1> QED BY <1>4 DEF r, s

(* An answer that is given under the revision of the files is the cold one. *)
LEMMA AnswerIsCold ==
    ASSUME ContextInv, Answer
    PROVE  AnswersAreCold'
<1> DEFINE q == asked.request
           cursor == asked.cursor
           e == Response(q, cursor, Serve(context, q, disk)).context
           r == Response(q, cursor, Serve(context, q, disk)).reply
           f == FocusAfter(q, context.focus)
           off == FALSE
           c == [EmptyContext(disk, stamp, off) EXCEPT !.focus = f]
<1>1. UNCHANGED <<disk, stamp>> /\ ~Idle /\ context' = e /\ reply' = r
  BY DEF Answer, Answered
<1>2. IsContext(context) /\ IsRequest(q) /\ (context.lazy \/ context.indexed) /\ stamp # 0
  BY <1>1, AskedIsRequest DEF ContextInv
<1>3. ~off
  OBVIOUS
<1>4. SUFFICES ASSUME Current', Repeatable', reply'.request.action # "trace"
               PROVE  reply' = Cold'
  BY DEF AnswersAreCold
<1>5. Cold' = Response(reply'.request, reply'.cursor,
                       Serve([EmptyContext(disk, stamp, off) EXCEPT !.focus = reply'.focus],
                             reply'.request, disk)).reply
  BY <1>1 DEF Cold
<1> HIDE DEF off
<1>6. r.request = q /\ r.cursor = cursor /\ r.revision = context.revision
  BY <1>2, ReplyFields
<1>7. Keeps(context, e)
  BY <1>2, ResponseStays
<1> HIDE DEF e, q, cursor
<1>8. Coherent(context)
  BY <1>1, <1>2, <1>4, <1>6 DEF Current, ContextInv
<1>9. Lasting(q, context.lazy)
  BY <1>1, <1>4, <1>6, <1>7 DEF Repeatable, Lasting, Keeps
<1>10. r = ColdReply(q, cursor, f)
  BY <1>2, <1>8, <1>9, ResponseIsCold DEF Lasting
<1> HIDE DEF r, f
<1>11. r.focus = f
  BY <1>10 DEF ColdReply
<1>12. IsContext(c) /\ ~c.lazy /\ c.indexed /\ c.focus = f /\ Coherent(c)
  BY <1>2, <1>3, ColdContext
<1>13. Cold' = Response(q, cursor, Serve(c, q, disk)).reply
  BY <1>1, <1>5, <1>6, <1>11
<1> HIDE DEF c
<1>14. Lasting(q, c.lazy)
  BY <1>9, <1>12 DEF Lasting
<1>15. Response(q, cursor, Serve(c, q, disk)).reply = ColdReply(q, cursor, FocusAfter(q, f))
  BY <1>2, <1>12, <1>14, ResponseIsCold
<1>16. FocusAfter(q, f) = f
  BY FocusIsLeft DEF f
<1> QED BY <1>1, <1>10, <1>13, <1>15, <1>16

(* No cache of the context shows in an answer: whatever was asked, evicted  *)
(* and edited before, an answer under the revision of the disk is the one a *)
(* cold context gives, to the page and its cursor.                          *)
THEOREM AnswersAreColdHolds == Spec => []AnswersAreCold
<1>1. Init => AnswersAreCold
  BY DEF Init, AnswersAreCold, Current
<1>2. ContextInv /\ AnswersAreCold /\ [Next]_vars => AnswersAreCold'
  <2> SUFFICES ASSUME ContextInv, AnswersAreCold, [Next]_vars
               PROVE  AnswersAreCold'
    OBVIOUS
  <2>1. CASE Edit \/ Ask \/ Housekeeping
    <3>1. reply' = NoReply
      BY <2>1 DEF Edit, Ask, Refresh, Housekeeping
    <3> QED BY <3>1 DEF AnswersAreCold, Current
  <2>2. CASE Answer
    BY <2>2, AnswerIsCold
  <2>3. CASE UNCHANGED vars
    BY <2>3 DEF vars, AnswersAreCold, Current, Repeatable, UnitsParse, Cold
  <2> QED BY <2>1, <2>2, <2>3 DEF Next
<1> QED BY <1>1, <1>2, ContextIsCoherent, PTL DEF Spec

================================================================================
