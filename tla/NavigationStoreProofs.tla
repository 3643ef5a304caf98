------------------------ MODULE NavigationStoreProofs ------------------------
(***************************************************************************)
(* What TLAPS proves of the navigation shards for every set of builders,   *)
(* files and texts, every size of store and any number of edits and        *)
(* faults: a shard is of its key, and builds with shards implement builds  *)
(* without them.                                                           *)
(***************************************************************************)
EXTENDS NavigationStore, TLAPS

-----------------------------------------------------------------------------
(* The inductive invariant.                                                *)

(* The variables with an entry per builder have one for each of them.      *)
Entries ==
    /\ DOMAIN pc = Builders /\ DOMAIN todo = Builders /\ DOMAIN work = Builders
    /\ DOMAIN missing = Builders /\ DOMAIN parsed = Builders /\ DOMAIN got = Builders
    /\ DOMAIN registry = Builders /\ DOMAIN seen = Builders

DiskOK == disk \in [Files -> Texts \cup {Gone}]

ShardsOK == DOMAIN shard = Keys /\ ShardsAreTrue

(* The outlines of f a build may use: those of a text f has had since the  *)
(* build began, under the builder's own defines.                           *)
Outlines(b, f) == {Key(b, t) : t \in seen[b][f] \cap Texts}

(* seen is the history of a running build and knows what is on disk.       *)
SeenOK(b) ==
    /\ seen[b] \in [Files -> SUBSET (Texts \cup {Gone})]
    /\ \A f \in Files : disk[f] \in seen[b][f]

(* What a build has collected ...                                          *)
CollectedOK(b) ==
    /\ todo[b] \subseteq Files /\ DOMAIN missing[b] \subseteq Files
    /\ DOMAIN parsed[b] \subseteq Files /\ DOMAIN got[b] \subseteq Files
    /\ got[b] = [f \in DOMAIN got[b] |-> got[b][f]]
    /\ \A f \in DOMAIN parsed[b] :
          IF parsed[b][f] = None THEN Gone \in seen[b][f] ELSE parsed[b][f] \in Outlines(b, f)
    /\ \A f \in DOMAIN got[b] : got[b][f] \in Outlines(b, f)

(* ... and what it holds between two steps.                                *)
HeldOK(b) ==
    /\ pc[b] = "load" => work[b].file \in Files /\ work[b].key \in Outlines(b, work[b].file)
    /\ pc[b] = "temp" => work[b].file \in Files /\ work[b].outline \in Outlines(b, work[b].file)
    /\ pc[b] = "prune" => DOMAIN got[b] = Files

Nothing(b) == missing[b] = NoFiles /\ parsed[b] = NoFiles /\ got[b] = NoFiles

BuildOK(b) ==
    IF pc[b] = "idle" THEN seen[b] = None /\ Nothing(b)
    ELSE SeenOK(b) /\ CollectedOK(b) /\ HeldOK(b)

StoreInv == Entries /\ DiskOK /\ ShardsOK /\ \A b \in Builders : BuildOK(b)

-----------------------------------------------------------------------------
(* The builders that take no step, and the store.                          *)

Same(c) ==
    /\ pc'[c] = pc[c] /\ todo'[c] = todo[c] /\ work'[c] = work[c] /\ missing'[c] = missing[c]
    /\ parsed'[c] = parsed[c] /\ got'[c] = got[c] /\ seen'[c] = seen[c]

LEMMA SameBuild ==
    ASSUME NEW c, Same(c), UNCHANGED disk, BuildOK(c) PROVE BuildOK(c)'
BY DEF Same, BuildOK, SeenOK, CollectedOK, HeldOK, Outlines, Key, Nothing

(* A step of one builder has to be looked at there and in the store only.  *)
LEMMA OneBuilder ==
    ASSUME NEW b \in Builders, StoreInv, Entries', ShardsOK', UNCHANGED disk, BuildOK(b)',
           \A c \in Builders \ {b} : Same(c)
    PROVE  StoreInv'
<1>1. ASSUME NEW c \in Builders PROVE BuildOK(c)'
  <2>1. CASE c = b
    BY <2>1
  <2>2. CASE c # b
    BY <2>2, SameBuild DEF StoreInv
  <2> QED BY <2>1, <2>2
<1>2. DiskOK'
  BY DEF StoreInv, DiskOK
<1> QED BY <1>1, <1>2 DEF StoreInv

(* Replacing a shard by nothing, by a damaged record or by the record of   *)
(* its key keeps the store true; so does removing it.                      *)
LEMMA ShardPut ==
    ASSUME ShardsOK, NEW k, NEW v \in {None, Bad, k}, shard' = [shard EXCEPT ![k] = v]
    PROVE  ShardsOK'
BY DEF ShardsOK, ShardsAreTrue

(* A builder that is idle again, or whose process ended.                   *)
LEMMA IdleStep ==
    ASSUME NEW b \in Builders, StoreInv, ShardsOK', Idle(b), DOMAIN registry' = Builders
    PROVE  StoreInv' /\ UNCHANGED disk /\ seen' = [seen EXCEPT ![b] = None]
<1>1. Entries'
  BY DEF StoreInv, Entries, Idle
<1>2. \A c \in Builders \ {b} : Same(c)
  BY DEF StoreInv, Entries, Idle, Same
<1>3. BuildOK(b)'
  BY DEF StoreInv, Entries, Idle, BuildOK, Nothing
<1>4. UNCHANGED disk /\ seen' = [seen EXCEPT ![b] = None]
  BY DEF Idle
<1> QED BY <1>1, <1>2, <1>3, <1>4, OneBuilder

-----------------------------------------------------------------------------
(* The steps of a build.  Each keeps the invariant and, as long as the     *)
(* build runs, changes nothing of what the promise is about.               *)

LEMMA OutlineIsKey ==
    ASSUME NEW b \in Builders, NEW f, NEW o \in Outlines(b, f)
    PROVE  o \in Keys /\ o # None /\ o # Bad /\ o = Key(b, o.text) /\ o.text \in seen[b][f] \cap Texts
<1>1. PICK t \in seen[b][f] \cap Texts : o = Key(b, t)
  BY DEF Outlines
<1>2. o = [text |-> t, defines |-> Defines[b]] /\ t \in Texts
  BY <1>1 DEF Key
<1>3. o \in Keys
  BY <1>2 DEF Keys
<1>4. o.text = t
  BY <1>2
<1>5. o # None /\ o # Bad
  BY <1>3, KeyAssumption DEF Keys
<1> QED BY <1>1, <1>3, <1>4, <1>5

LEMMA BeginStep ==
    ASSUME NEW b \in Builders, StoreInv, Begin(b)
    PROVE  StoreInv' /\ Promise!Begin(b)
<1>1. Entries' /\ ShardsOK'
  BY DEF StoreInv, Entries, Begin, store, outcome, ShardsOK, ShardsAreTrue
<1>2. \A c \in Builders \ {b} : Same(c)
  BY DEF StoreInv, Entries, Begin, Same
<1>3. seen[b] = None
  BY DEF StoreInv, BuildOK, Begin
<1>4. BuildOK(b)'
  <2>1. pc'[b] = "probe" /\ UNCHANGED <<disk, work, missing, parsed, got>>
    BY DEF StoreInv, Entries, Begin
  <2>2. seen'[b] = [f \in Files |-> {disk[f]}]
    BY DEF StoreInv, Entries, Begin
  <2>3. SeenOK(b)'
    BY <2>1, <2>2 DEF StoreInv, DiskOK, SeenOK
  <2>4. Nothing(b) /\ todo'[b] = Files
    BY DEF StoreInv, Entries, BuildOK, Begin
  <2>5. CollectedOK(b)'
    BY <2>1, <2>4 DEF CollectedOK, Nothing, NoFiles
  <2> QED BY <2>1, <2>3, <2>5 DEF BuildOK, HeldOK
<1>5. Promise!Begin(b)
  BY <1>3 DEF Begin, Promise!Begin, outcome
<1> QED BY <1>1, <1>2, <1>4, <1>5, OneBuilder DEF Begin

LEMMA ReadStep ==
    ASSUME NEW b \in Builders, NEW f \in Files, StoreInv, Read(b, f)
    PROVE  StoreInv' /\ UNCHANGED Promise!promise
<1>1. Entries' /\ ShardsOK'
  BY DEF StoreInv, Entries, Read, store, sources, outcome, ShardsOK, ShardsAreTrue
<1>2. \A c \in Builders \ {b} : Same(c)
  BY DEF StoreInv, Entries, Read, Same, sources
<1>3. UNCHANGED <<disk, seen, registry, parsed, got>>
  BY DEF Read, sources, outcome
<1>4. pc[b] = "probe" /\ SeenOK(b) /\ CollectedOK(b) /\ DiskOK
  BY DEF StoreInv, BuildOK, Read
<1>5. SeenOK(b)'
  BY <1>3, <1>4 DEF SeenOK
<1>6. todo'[b] \subseteq Files
  BY <1>4 DEF StoreInv, Entries, Read, CollectedOK
<1>7. CASE disk[f] = Gone
  <2>1. pc'[b] = "probe"
    BY <1>4, <1>7 DEF Read
  <2>2. DOMAIN missing'[b] = DOMAIN missing[b] \cup {f}
    <3>1. missing' = [missing EXCEPT ![b] = With(missing[b], f, None)]
      BY <1>7 DEF Read
    <3>2. missing'[b] = With(missing[b], f, None)
      BY <3>1 DEF StoreInv, Entries
    <3> QED BY <3>2 DEF With
  <2>3. CollectedOK(b)'
    BY <1>3, <1>4, <1>6, <2>2 DEF CollectedOK, Outlines, Key
  <2>4. BuildOK(b)'
    BY <1>5, <2>1, <2>3 DEF BuildOK, HeldOK
  <2> QED BY <1>1, <1>2, <1>3, <2>4, OneBuilder DEF Promise!promise
<1>8. CASE disk[f] # Gone
  <2>1. pc'[b] = "load" /\ missing' = missing
    BY <1>8 DEF StoreInv, Entries, Read
  <2>2. work'[b] = [file |-> f, key |-> Key(b, disk[f])]
    BY <1>8 DEF StoreInv, Entries, Read
  <2>3. CollectedOK(b)'
    BY <1>3, <1>4, <1>6, <2>1 DEF CollectedOK, Outlines, Key
  <2>4. Key(b, disk[f]) \in Outlines(b, f)
    BY <1>4, <1>8 DEF Outlines, SeenOK, DiskOK
  <2>5. HeldOK(b)'
    BY <1>3, <2>1, <2>2, <2>4 DEF HeldOK, Outlines, Key
  <2>6. BuildOK(b)'
    BY <1>5, <2>1, <2>3, <2>5 DEF BuildOK
  <2> QED BY <1>1, <1>2, <1>3, <2>6, OneBuilder DEF Promise!promise
<1> QED BY <1>7, <1>8

(* One more outline of a text the unit has had.                            *)
LEMMA GotGrows ==
    ASSUME NEW b \in Builders, CollectedOK(b), UNCHANGED <<seen, todo, missing, parsed>>,
           NEW f \in Files, NEW o \in Outlines(b, f), got'[b] = With(got[b], f, o)
    PROVE  CollectedOK(b)'
<1>1. DOMAIN got'[b] \subseteq Files /\ got'[b] = [g \in DOMAIN got'[b] |-> got'[b][g]]
  BY DEF With, CollectedOK
<1>2. ASSUME NEW g \in DOMAIN got'[b] PROVE got'[b][g] \in Outlines(b, g)
  <2>1. CASE g = f
    BY <2>1 DEF With
  <2>2. CASE g # f
    BY <2>2 DEF With, CollectedOK
  <2> QED BY <2>1, <2>2
<1> QED BY <1>1, <1>2 DEF CollectedOK, Outlines, Key

LEMMA LoadStep ==
    ASSUME NEW b \in Builders, StoreInv, Load(b)
    PROVE  StoreInv' /\ UNCHANGED Promise!promise
<1> DEFINE held == work[b]
<1>1. Entries' /\ ShardsOK'
  BY DEF StoreInv, Entries, Load, store, sources, outcome, ShardsOK, ShardsAreTrue
<1>2. \A c \in Builders \ {b} : Same(c)
  BY DEF StoreInv, Entries, Load, Same, sources
<1>3. UNCHANGED <<disk, seen, registry, parsed, todo>>
  BY DEF Load, sources, outcome
<1>4. pc[b] = "load" /\ SeenOK(b) /\ CollectedOK(b) /\ HeldOK(b)
  BY DEF StoreInv, BuildOK, Load
<1>5. SeenOK(b)' /\ pc'[b] = "probe"
  BY <1>3, <1>4 DEF StoreInv, Entries, SeenOK, Load
<1>6. held.file \in Files /\ held.key \in Outlines(b, held.file)
  BY <1>4 DEF HeldOK
<1>7. CASE ~Usable(shard[held.key])
  <2>1. missing' = [missing EXCEPT ![b] = With(missing[b], held.file, held.key)] /\ got' = got
    BY <1>7 DEF Load
  <2>2. missing'[b] = With(missing[b], held.file, held.key)
    BY <2>1 DEF StoreInv, Entries
  <2>3. DOMAIN missing'[b] \subseteq Files
    BY <2>2, <1>4, <1>6 DEF With, CollectedOK
  <2>4. CollectedOK(b)'
    BY <1>3, <1>4, <2>1, <2>3 DEF CollectedOK, Outlines, Key
  <2> QED BY <1>1, <1>2, <1>3, <1>5, <2>4, OneBuilder DEF BuildOK, HeldOK, Promise!promise
<1>8. CASE Usable(shard[held.key])
  <2>1. got' = [got EXCEPT ![b] = With(got[b], held.file, shard[held.key])] /\ missing' = missing
    BY <1>8 DEF Load
  <2>2. shard[held.key] = held.key
    BY <1>6, <1>8, OutlineIsKey DEF StoreInv, ShardsOK, ShardsAreTrue, Usable
  <2>3. got'[b] = With(got[b], held.file, held.key)
    BY <2>1, <2>2 DEF StoreInv, Entries
  <2>4. CollectedOK(b)'
    BY <1>3, <1>4, <1>6, <2>1, <2>3, GotGrows
  <2> QED BY <1>1, <1>2, <1>3, <1>5, <2>4, OneBuilder DEF BuildOK, HeldOK, Promise!promise
<1> QED BY <1>7, <1>8

LEMMA ParseStep ==
    ASSUME NEW b \in Builders, NEW f \in Files, StoreInv, Parse(b, f)
    PROVE  StoreInv' /\ UNCHANGED Promise!promise
<1> DEFINE result == IF disk[f] = Gone THEN None ELSE Outline(b, disk[f])
<1>1. Entries' /\ ShardsOK'
  BY DEF StoreInv, Entries, Parse, store, sources, outcome, ShardsOK, ShardsAreTrue
<1>2. \A c \in Builders \ {b} : Same(c)
  BY DEF StoreInv, Entries, Parse, Same, sources
<1>3. UNCHANGED <<disk, seen, registry, got, todo, pc, missing>>
  BY DEF Parse, sources, outcome
<1>4. pc[b] = "probe" /\ SeenOK(b) /\ CollectedOK(b) /\ DiskOK
  BY DEF StoreInv, BuildOK, Parse
<1>5. SeenOK(b)'
  BY <1>3, <1>4 DEF SeenOK
<1>6. parsed'[b] = With(parsed[b], f, result)
  BY DEF StoreInv, Entries, Parse
<1>7. IF result = None THEN Gone \in seen[b][f] ELSE result \in Outlines(b, f)
  <2>1. CASE disk[f] = Gone
    BY <2>1, <1>4 DEF SeenOK
  <2>2. CASE disk[f] # Gone
    <3>1. result \in Outlines(b, f)
      BY <2>2, <1>4 DEF SeenOK, DiskOK, Outlines, Outline, Key
    <3> QED BY <3>1, OutlineIsKey
  <2> QED BY <2>1, <2>2
<1> HIDE DEF result
<1>8. CollectedOK(b)'
  <2>1. DOMAIN parsed'[b] \subseteq Files
    BY <1>4, <1>6 DEF With, CollectedOK
  <2>2. ASSUME NEW g \in DOMAIN parsed'[b]
        PROVE  IF parsed'[b][g] = None THEN Gone \in seen[b][g] ELSE parsed'[b][g] \in Outlines(b, g)
    <3>1. CASE g = f
      BY <3>1, <1>6, <1>7 DEF With
    <3>2. CASE g # f
      BY <3>2, <1>4, <1>6 DEF With, CollectedOK
    <3> QED BY <3>1, <3>2
  <2> QED BY <1>3, <1>4, <2>1, <2>2 DEF CollectedOK, Outlines, Key
<1> QED BY <1>1, <1>2, <1>3, <1>4, <1>5, <1>8, OneBuilder DEF BuildOK, HeldOK, Promise!promise

LEMMA SourceUnavailableStep ==
    ASSUME NEW b \in Builders, StoreInv, SourceUnavailable(b)
    PROVE  StoreInv' /\ Promise!Fail(b)
<1>1. ShardsOK' /\ UNCHANGED registry
  BY DEF StoreInv, SourceUnavailable, store, outcome, ShardsOK, ShardsAreTrue
<1>2. DOMAIN registry' = Builders
  BY <1>1 DEF StoreInv, Entries
<1>3. StoreInv' /\ UNCHANGED disk /\ seen' = [seen EXCEPT ![b] = None]
  BY <1>1, <1>2, IdleStep DEF SourceUnavailable
<1>4. SeenOK(b) /\ CollectedOK(b)
  BY DEF StoreInv, BuildOK, SourceUnavailable
<1>5. \E f \in Files : Gone \in seen[b][f]
  BY <1>4 DEF CollectedOK, SourceUnavailable, Range
<1>6. seen[b] # None
  BY <1>4, NoneAssumption DEF SeenOK
<1> QED BY <1>1, <1>3, <1>5, <1>6 DEF Promise!Fail

LEMMA ConsumeStep ==
    ASSUME NEW b \in Builders, NEW f \in Files, StoreInv, Consume(b, f)
    PROVE  StoreInv' /\ UNCHANGED Promise!promise
<1> DEFINE o == parsed[b][f]
<1>1. Entries' /\ ShardsOK'
  BY DEF StoreInv, Entries, Consume, sources, outcome, ShardsOK, ShardsAreTrue
<1>2. \A c \in Builders \ {b} : Same(c)
  BY DEF StoreInv, Entries, Consume, Same, sources
<1>3. UNCHANGED <<disk, seen, registry, todo, missing>>
  BY DEF Consume, sources, outcome
<1>4. pc[b] = "probe" /\ SeenOK(b) /\ CollectedOK(b)
  BY DEF StoreInv, BuildOK, Consume
<1>5. SeenOK(b)'
  BY <1>3, <1>4 DEF SeenOK
<1>6. o \in Outlines(b, f)
  BY <1>4 DEF CollectedOK, Consume
<1>7. parsed'[b] = [g \in DOMAIN parsed[b] \ {f} |-> parsed[b][g]]
  BY DEF StoreInv, Entries, Consume
<1>8. CASE o.text \in Huge
  <2>1. UNCHANGED <<pc, work>> /\ got'[b] = With(got[b], f, o)
    BY <1>8 DEF Consume, StoreInv, Entries
  <2>2. DOMAIN got'[b] \subseteq Files /\ got'[b] = [g \in DOMAIN got'[b] |-> got'[b][g]]
    BY <1>4, <2>1 DEF With, CollectedOK
  <2>3. ASSUME NEW g \in DOMAIN got'[b] PROVE got'[b][g] \in Outlines(b, g)
    BY <1>4, <1>6, <2>1 DEF With, CollectedOK
  <2>4. CollectedOK(b)'
    BY <1>3, <1>4, <1>7, <2>2, <2>3 DEF CollectedOK, Outlines, Key
  <2> QED BY <1>1, <1>2, <1>3, <1>4, <1>5, <2>1, <2>4, OneBuilder
          DEF BuildOK, HeldOK, Promise!promise
<1>9. CASE o.text \notin Huge
  <2>1. pc'[b] = "temp" /\ work'[b] = [file |-> f, outline |-> o] /\ got' = got
    BY <1>9 DEF Consume, StoreInv, Entries
  <2>2. CollectedOK(b)'
    BY <1>3, <1>4, <1>7, <2>1 DEF CollectedOK, Outlines, Key
  <2>3. HeldOK(b)'
    BY <1>3, <1>6, <2>1 DEF HeldOK, Outlines, Key
  <2> QED BY <1>1, <1>2, <1>3, <1>5, <2>1, <2>2, <2>3, OneBuilder DEF BuildOK, Promise!promise
<1> QED BY <1>8, <1>9

(* The record is stored under the key of the text it was made from.        *)
LEMMA StoredStep ==
    ASSUME NEW b \in Builders, StoreInv, Stored(b)
    PROVE  StoreInv' /\ UNCHANGED Promise!promise
<1> DEFINE held == work[b]
<1>1. pc[b] = "temp" /\ SeenOK(b) /\ CollectedOK(b) /\ HeldOK(b)
  BY DEF StoreInv, BuildOK, Stored
<1>2. held.file \in Files /\ held.outline \in Outlines(b, held.file)
  BY <1>1 DEF HeldOK
<1>3. ShardsOK'
  <2>1. CASE UNCHANGED shard
    BY <2>1 DEF StoreInv, ShardsOK, ShardsAreTrue
  <2>2. CASE Write(StoreKey(b, held.outline, missing[b][held.file]), held.outline)
    <3>1. shard' = [shard EXCEPT ![Key(b, held.outline.text)] = held.outline]
      BY <2>2 DEF Write, StoreKey
    <3>2. Key(b, held.outline.text) = held.outline
      BY <1>2, OutlineIsKey
    <3> QED BY <3>1, <3>2, ShardPut DEF StoreInv
  <2> QED BY <2>1, <2>2 DEF Stored
<1>4. Entries'
  BY DEF StoreInv, Entries, Stored, sources, outcome
<1>5. \A c \in Builders \ {b} : Same(c)
  BY DEF StoreInv, Entries, Stored, Same, sources
<1>6. UNCHANGED <<disk, seen, registry, todo, missing, parsed>>
  BY DEF Stored, sources, outcome
<1>7. pc'[b] = "probe" /\ got'[b] = With(got[b], held.file, held.outline)
  BY DEF StoreInv, Entries, Stored
<1>8. SeenOK(b)'
  BY <1>1, <1>6 DEF SeenOK
<1>9. CollectedOK(b)'
  BY <1>1, <1>2, <1>6, <1>7, GotGrows
<1> QED BY <1>3, <1>4, <1>5, <1>6, <1>7, <1>8, <1>9, OneBuilder
        DEF BuildOK, HeldOK, Promise!promise

LEMMA PruneScanStep ==
    ASSUME NEW b \in Builders, StoreInv, PruneScan(b)
    PROVE  StoreInv' /\ UNCHANGED Promise!promise
<1>1. Entries' /\ ShardsOK'
  BY DEF StoreInv, Entries, PruneScan, store, sources, outcome, ShardsOK, ShardsAreTrue
<1>2. \A c \in Builders \ {b} : Same(c)
  BY DEF StoreInv, Entries, PruneScan, Same, sources
<1>3. UNCHANGED <<disk, seen, registry, todo, missing, parsed, got>>
  BY DEF PruneScan, sources, outcome
<1>4. pc[b] = "probe" /\ SeenOK(b) /\ CollectedOK(b) /\ DOMAIN got[b] = Files
  BY DEF StoreInv, BuildOK, PruneScan
<1>5. pc'[b] = "prune"
  BY DEF StoreInv, Entries, PruneScan
<1>6. SeenOK(b)' /\ CollectedOK(b)'
  BY <1>3, <1>4 DEF SeenOK, CollectedOK, Outlines, Key
<1>7. HeldOK(b)'
  BY <1>3, <1>4, <1>5 DEF HeldOK
<1> QED BY <1>1, <1>2, <1>3, <1>5, <1>6, <1>7, OneBuilder DEF BuildOK, Promise!promise

(* What changes the store only: damage, pruning, and `cache clear`.        *)
LEMMA StoreStep ==
    ASSUME StoreInv, ShardsOK',
           UNCHANGED <<disk, seen, registry, pc, todo, work, missing, parsed, got>>
    PROVE  StoreInv' /\ UNCHANGED Promise!promise
<1>1. ASSUME NEW c \in Builders PROVE BuildOK(c)'
  BY SameBuild DEF StoreInv, Same
<1>2. Entries' /\ DiskOK'
  BY DEF StoreInv, Entries, DiskOK
<1> QED BY <1>1, <1>2 DEF StoreInv, Promise!promise

LEMMA PruneStep ==
    ASSUME NEW b \in Builders, StoreInv, PruneDead(b) \/ PruneOldest(b)
    PROVE  StoreInv' /\ UNCHANGED Promise!promise
<1>1. PICK k : Unlink(k)
  BY DEF PruneDead, PruneOldest
<1>2. ShardsOK'
  BY <1>1, ShardPut DEF StoreInv, Unlink
<1>3. UNCHANGED <<disk, seen, registry, pc, todo, work, missing, parsed, got>>
  BY DEF PruneDead, PruneOldest, sources, outcome
<1> QED BY <1>2, <1>3, StoreStep

(* A finished build has, for each unit, the outline of a text it had.      *)
LEMMA FinishStep ==
    ASSUME NEW b \in Builders, StoreInv, Finish(b)
    PROVE  StoreInv' /\ Promise!Finish(b)
<1> DEFINE t == [f \in Files |-> got[b][f].text]
<1>1. registry' = [registry EXCEPT ![b] = got[b]] /\ UNCHANGED shard /\ Idle(b)
  BY DEF Finish, store
<1>2. ShardsOK' /\ DOMAIN registry' = Builders
  BY <1>1 DEF StoreInv, Entries, ShardsOK, ShardsAreTrue
<1>3. StoreInv' /\ UNCHANGED disk /\ seen' = [seen EXCEPT ![b] = None]
  BY <1>1, <1>2, IdleStep
<1>4. SeenOK(b) /\ CollectedOK(b) /\ DOMAIN got[b] = Files
  BY DEF StoreInv, BuildOK, HeldOK, Finish
<1>5. seen[b] # None
  BY <1>4, NoneAssumption DEF SeenOK
<1>6. ASSUME NEW f \in Files
      PROVE  got[b][f] = Key(b, got[b][f].text) /\ got[b][f].text \in seen[b][f] \cap Texts
  BY <1>4, <1>6, OutlineIsKey DEF CollectedOK
<1>7. t \in [Files -> Texts] /\ \A f \in Files : t[f] \in seen[b][f]
  BY <1>6
<1>8. got[b] = [f \in Files |-> [text |-> t[f], defines |-> Defines[b]]]
  <2>1. \A f \in Files : got[b][f] = [text |-> t[f], defines |-> Defines[b]]
    BY <1>6 DEF Key
  <2>2. got[b] = [f \in Files |-> got[b][f]]
    BY <1>4 DEF CollectedOK
  <2> HIDE DEF t
  <2> QED BY <2>1, <2>2
<1> HIDE DEF t
<1> QED BY <1>1, <1>3, <1>5, <1>7, <1>8 DEF Promise!Finish

(* Whatever ends a process takes its build and its registry with it.       *)
LEMMA DiesStep ==
    ASSUME NEW b \in Builders, StoreInv, Dies(b), UNCHANGED shard
    PROVE  StoreInv' /\ Promise!Crash(b)
<1>1. ShardsOK' /\ DOMAIN registry' = Builders /\ Idle(b)
  BY DEF StoreInv, Entries, Dies, ShardsOK, ShardsAreTrue
<1>2. StoreInv' /\ UNCHANGED disk /\ seen' = [seen EXCEPT ![b] = None]
  BY <1>1, IdleStep
<1> QED BY <1>2 DEF Dies, Promise!Crash

LEMMA EditStep ==
    ASSUME NEW f \in Files, NEW t \in EditedTo, StoreInv, Edit(f, t)
    PROVE  StoreInv' /\ Promise!Edit(f, t) /\ t \in Texts \cup {Gone}
<1>1. t \in Texts \cup {Gone}
  BY EditAssumption
<1>2. disk' = [disk EXCEPT ![f] = t] /\ DiskOK'
  BY <1>1 DEF StoreInv, DiskOK, Edit
<1>3. UNCHANGED <<pc, todo, work, missing, parsed, got, registry, shard>>
  BY DEF Edit, store, build, outcome
<1>4. Entries' /\ ShardsOK'
  BY <1>3 DEF StoreInv, Entries, Edit, ShardsOK, ShardsAreTrue
<1>5. ASSUME NEW b \in Builders PROVE BuildOK(b)'
  <2>1. CASE pc[b] = "idle"
    BY <1>3, <2>1 DEF StoreInv, BuildOK, Nothing, Edit
  <2>2. CASE pc[b] # "idle"
    <3>1. SeenOK(b) /\ CollectedOK(b) /\ HeldOK(b)
      BY <2>2 DEF StoreInv, BuildOK
    <3>2. seen'[b] = [seen[b] EXCEPT ![f] = @ \cup {t}]
      BY <3>1, NoneAssumption DEF SeenOK, Edit
    <3>3. \A g \in Files : seen[b][g] \subseteq seen'[b][g]
      BY <3>1, <3>2 DEF SeenOK
    <3>4. SeenOK(b)'
      <4>1. seen'[b] \in [Files -> SUBSET (Texts \cup {Gone})]
        BY <1>1, <3>1, <3>2 DEF SeenOK
      <4>2. \A g \in Files : disk'[g] \in seen'[b][g]
        BY <1>2, <3>1, <3>2 DEF SeenOK, StoreInv, DiskOK
      <4> QED BY <4>1, <4>2 DEF SeenOK
    <3>5. \A g \in Files : Outlines(b, g) \subseteq Outlines(b, g)'
      BY <3>3 DEF Outlines, Key
    <3>6. CollectedOK(b)'
      BY <1>3, <3>1, <3>3, <3>5 DEF CollectedOK
    <3>7. HeldOK(b)'
      BY <1>3, <3>1, <3>5 DEF HeldOK
    <3> QED BY <1>3, <2>2, <3>4, <3>6, <3>7 DEF BuildOK
  <2> QED BY <2>1, <2>2
<1>6. Promise!Edit(f, t)
  BY DEF Edit, Promise!Edit, outcome
<1> QED BY <1>1, <1>2, <1>4, <1>5, <1>6 DEF StoreInv

LEMMA DamageStep ==
    ASSUME NEW k \in Keys, StoreInv, Damage(k) PROVE StoreInv' /\ UNCHANGED Promise!promise
<1>1. ShardsOK'
  BY ShardPut DEF StoreInv, Damage
<1> QED BY <1>1, StoreStep DEF Damage, sources, build, outcome

LEMMA ClearRemovesStep ==
    ASSUME StoreInv, ClearRemoves PROVE StoreInv' /\ UNCHANGED Promise!promise
<1>1. UNCHANGED shard \/ \E k \in Keys : Unlink(k)
  BY DEF ClearRemoves
<1>2. ShardsOK'
  BY <1>1, ShardPut DEF StoreInv, Unlink, ShardsOK, ShardsAreTrue
<1> QED BY <1>2, StoreStep DEF ClearRemoves, sources, build, outcome

LEMMA RestStep ==
    ASSUME StoreInv, ClearEnds \/ UNCHANGED vars PROVE StoreInv' /\ UNCHANGED Promise!promise
<1>1. UNCHANGED <<shard, disk, seen, registry, pc, todo, work, missing, parsed, got>>
  BY DEF ClearEnds, vars, sources, store, build, outcome
<1>2. ShardsOK'
  BY <1>1 DEF StoreInv, ShardsOK, ShardsAreTrue
<1> QED BY <1>1, <1>2, StoreStep

-----------------------------------------------------------------------------
(* Every step.                                                             *)

LEMMA BuilderStep ==
    ASSUME NEW b \in Builders, StoreInv, Begin(b) \/ Step(b) \/ Crash(b)
    PROVE  StoreInv' /\ [Promise!Next]_(Promise!promise)
<1>1. CASE Begin(b)
  BY <1>1, BeginStep DEF Promise!Next
<1>2. CASE \E f \in Files : Read(b, f) \/ Parse(b, f) \/ Consume(b, f)
  BY <1>2, ReadStep, ParseStep, ConsumeStep
<1>3. CASE Load(b) \/ Stored(b) \/ PruneScan(b) \/ PruneDead(b) \/ PruneOldest(b)
  BY <1>3, LoadStep, StoredStep, PruneScanStep, PruneStep
<1>4. CASE SourceUnavailable(b)
  BY <1>4, SourceUnavailableStep DEF Promise!Next
<1>5. CASE Finish(b)
  BY <1>5, FinishStep DEF Promise!Next
<1>6. CASE Crash(b)
  BY <1>6, DiesStep DEF Promise!Next, Crash
<1> QED BY <1>1, <1>2, <1>3, <1>4, <1>5, <1>6 DEF Step

LEMMA StoreInvStep ==
    ASSUME StoreInv, [Next]_vars PROVE StoreInv' /\ [Promise!Next]_(Promise!promise)
<1>1. CASE \E f \in Files, t \in EditedTo : Edit(f, t)
  BY <1>1, EditStep DEF Promise!Next
<1>2. CASE \E k \in Keys : Damage(k)
  BY <1>2, DamageStep
<1>3. CASE \E b \in Builders : Begin(b) \/ Step(b) \/ Crash(b)
  BY <1>3, BuilderStep
<1>4. CASE ClearBegins
  BY <1>4, DiesStep, BuilderAssumption DEF ClearBegins, Promise!Next
<1>5. CASE ClearRemoves
  BY <1>5, ClearRemovesStep
<1>6. CASE ClearEnds \/ UNCHANGED vars
  BY <1>6, RestStep
<1> QED BY <1>1, <1>2, <1>3, <1>4, <1>5, <1>6 DEF Next

LEMMA StoreInvInit == Init => StoreInv /\ Promise!Init
<1> SUFFICES ASSUME Init PROVE StoreInv /\ Promise!Init
  OBVIOUS
<1>1. DiskOK /\ Entries
  BY TextAssumption DEF Init, DiskOK, Entries
<1>2. ShardsOK
  BY DEF Init, ShardsOK, ShardsAreTrue
<1>3. \A b \in Builders : BuildOK(b)
  BY DEF Init, BuildOK, Nothing
<1>4. Promise!Init
  BY TextAssumption DEF Init, Promise!Init
<1> QED BY <1>1, <1>2, <1>3, <1>4 DEF StoreInv

LEMMA StoreInvHolds == Spec => []StoreInv
BY StoreInvInit, StoreInvStep, PTL DEF Spec

(* However builders, edits, faults and `cache clear` interleave, a record  *)
(* that NavigationShardStore.load accepts under a key is the outline of    *)
(* the text and the defines that key was made of.                          *)
THEOREM ShardsAreTrueHolds == Spec => []ShardsAreTrue
<1>1. StoreInv => ShardsAreTrue
  BY DEF StoreInv, ShardsOK
<1> QED BY <1>1, StoreInvHolds, PTL

(* The navigation build with its shards implements the build without any:  *)
(* a finished one has for each unit the outline of a text the unit had     *)
(* since it began, and it fails only when a unit was missing.              *)
THEOREM KeepsBuildPromiseHolds == Spec => KeepsBuildPromise
<1>1. StoreInv /\ [Next]_vars => [Promise!Next]_(Promise!promise)
  BY StoreInvStep
<1> QED BY <1>1, StoreInvInit, StoreInvHolds, PTL DEF Spec, KeepsBuildPromise, Promise!Spec
=============================================================================
