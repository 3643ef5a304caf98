------------------------- MODULE LanguageServerProofs -------------------------
(***************************************************************************)
(* What TLAPS proves of the language server, for every set of files, texts *)
(* and requests, any number of threads, notifications, writes and unlinks, *)
(* and any overlap of them: what is current once no notification is under  *)
(* way, and that the lists of symbols gathered in quiet are.               *)
(***************************************************************************)
EXTENDS LanguageServer, SequenceTheorems, TLAPS

-----------------------------------------------------------------------------
(* The inductive invariant.                                                *)

Rebuilding == {"collect", "store", "publish"}
IsTask(t) ==
    /\ t = [kind |-> t.kind, file |-> t.file, text |-> t.text, step |-> t.step,
            sources |-> t.sources]
    /\ t.file \in Files /\ t.kind \in {"open", "change", "close"}
    /\ (t.kind = "close") <=> (t.step # "read" /\ t.text = None)
    /\ t.step \in {"read", "set"} \cup Rebuilding
    /\ t.step = "read" => t.kind = "change"
    /\ DOMAIN t.sources = Files
TasksOK == tasks \in Seq(Range(tasks)) /\ \A i \in DOMAIN tasks : IsTask(tasks[i])

(* A file whose last notification found none of its own has no other now,  *)
(* and that one will leave what the editor shows.                          *)
Promised(t) ==
    /\ IF t.step = "read" THEN editor[t.file] # None ELSE editor[t.file] = t.text
    /\ t.step \in Rebuilding => documents[t.file] = t.text
OrderOK ==
    \A f \in Files : ordered[f] =>
        /\ \A i, j \in DOMAIN tasks : tasks[i].file = f /\ tasks[j].file = f => i = j
        /\ \A i \in DOMAIN tasks : tasks[i].file = f => Promised(tasks[i])
        /\ ~Pending(f) => documents[f] = editor[f]

(* What is no document has no model of a document.                         *)
BuiltOK == \A f \in Files : documents[f] = None => built[f] = None

(* After a rebuild that ran alone at most one notification is under way,   *)
(* and how far that has come.                                              *)
Settled == (\A f \in Files : IsModelled(f)) /\ shown[fresh] = documents[fresh]
Alone(t) ==
    /\ t.step \in {"read", "set"} => Settled
    /\ t.step \in {"collect", "store"} => fresh = t.file /\ documents[t.file] = t.text
    /\ t.step = "store" => \A f \in Files : documents[f] # None => t.sources[f] = documents[f]
    /\ t.step = "publish" =>
          /\ \A f \in Files : IsModelled(f)
          /\ documents[t.file] = t.text
          /\ fresh = t.file \/ shown[fresh] = documents[fresh]
AloneOK ==
    fresh # None =>
        /\ Len(tasks) <= 1
        /\ IF tasks = <<>> THEN Settled ELSE Alone(tasks[1])

Shapes ==
    /\ DOMAIN editor = Files /\ DOMAIN documents = Files /\ DOMAIN built = Files
    /\ DOMAIN workspace = Files /\ DOMAIN shown = Files /\ DOMAIN ordered = Files
    /\ fresh \in Files \cup {None}

ServerInv == Shapes /\ TasksOK /\ OrderOK /\ BuiltOK /\ AloneOK

-----------------------------------------------------------------------------
(* Sequences.                                                              *)

LEMMA OwnRange == ASSUME NEW S, NEW s \in Seq(S) PROVE s \in Seq(Range(s))
BY DEF Range

(* Where an element was before the i-th was removed.                       *)
Was(i, k) == IF k < i THEN k ELSE k + 1

IsRest(r, s, i) ==
    /\ r \in Seq(Range(r))
    /\ Len(r) = Len(s) - 1 /\ DOMAIN r = 1 .. Len(s) - 1
    /\ \A k \in 1 .. Len(s) - 1 : Was(i, k) \in DOMAIN s \ {i} /\ r[k] = s[Was(i, k)]

LEMMA Removed ==
    ASSUME NEW S, NEW s \in Seq(S), NEW i \in DOMAIN s PROVE IsRest(RemoveAt(s, i), s, i)
<1> PICK r : r = RemoveAt(s, i)
  OBVIOUS
<1> DEFINE a == SubSeq(s, 1, i - 1)
           b == SubSeq(s, i + 1, Len(s))
<1>1. i \in 1 .. Len(s) /\ Len(s) \in Nat /\ i \in Nat /\ DOMAIN s = 1 .. Len(s)
  OBVIOUS
<1>2. /\ a \in Seq(S) /\ Len(a) = i - 1
      /\ \A k \in 1 .. i - 1 : a[k] = s[k]
  BY <1>1, SubSeqProperties
<1>3. b \in Seq(S) /\ Len(b) = Len(s) - i
  BY <1>1, SubSeqProperties
<1>4. \A k \in 1 .. Len(s) - i : b[k] = s[i + k]
  <2>1. CASE i + 1 <= Len(s)
    <3>1. \A k \in 1 .. Len(s) - (i + 1) + 1 : b[k] = s[(i + 1) + k - 1]
      BY <1>1, <2>1, SubSeqProperties
    <3> HIDE DEF b
    <3>2. ASSUME NEW k \in 1 .. Len(s) - i PROVE b[k] = s[i + k]
      <4>1. k \in 1 .. Len(s) - (i + 1) + 1 /\ (i + 1) + k - 1 = i + k
        BY <1>1
      <4> QED BY <3>1, <4>1
    <3> QED BY <3>2
  <2>2. CASE i = Len(s)
    BY <1>1, <2>2
  <2> QED BY <1>1, <2>1, <2>2
<1>5. r = a \o b
  BY DEF RemoveAt
<1> HIDE DEF a, b
<1>6. /\ r \in Seq(S) /\ Len(r) = Len(s) - 1
      /\ \A k \in 1 .. Len(s) - 1 : r[k] = IF k <= i - 1 THEN a[k] ELSE b[k - (i - 1)]
  <2>1. /\ r \in Seq(S) /\ Len(r) = Len(a) + Len(b)
        /\ \A k \in 1 .. Len(a) + Len(b) : r[k] = IF k <= Len(a) THEN a[k] ELSE b[k - Len(a)]
    <3>1. /\ a \o b \in Seq(S) /\ Len(a \o b) = Len(a) + Len(b)
          /\ \A k \in 1 .. Len(a) + Len(b) : (a \o b)[k] = IF k <= Len(a) THEN a[k] ELSE b[k - Len(a)]
      BY <1>2, <1>3, ConcatProperties, Zenon
    <3> QED BY <1>5, <3>1, Zenon
  <2>2. Len(a) + Len(b) = Len(s) - 1
    BY <1>1, <1>2, <1>3
  <2> QED BY <1>2, <2>1, <2>2
<1>7. DOMAIN r = 1 .. Len(s) - 1 /\ r \in Seq(Range(r))
  BY <1>6, OwnRange
<1>8. ASSUME NEW k \in 1 .. Len(s) - 1
      PROVE  Was(i, k) \in DOMAIN s \ {i} /\ r[k] = s[Was(i, k)]
  <2>1. CASE k < i
    BY <2>1, <1>1, <1>2, <1>6 DEF Was
  <2>2. CASE ~(k < i)
    <3>1. Was(i, k) = k + 1 /\ k + 1 \in 1 .. Len(s) /\ k + 1 # i
      BY <2>2, <1>1 DEF Was
    <3>2. k - (i - 1) \in 1 .. Len(s) - i /\ i + (k - (i - 1)) = k + 1 /\ ~(k <= i - 1)
      BY <2>2, <1>1
    <3> QED BY <3>1, <3>2, <1>1, <1>4, <1>6
  <2> QED BY <2>1, <2>2
<1>9. IsRest(r, s, i)
  BY <1>6, <1>7, <1>8 DEF IsRest
<1> QED BY <1>9

(* Without its entry i a sequence of n entries holds all the others, each  *)
(* once.                                                                   *)
OthersMoved(n, i) ==
    /\ \A j \in (1 .. n) \ {i} : \E k \in 1 .. n - 1 : Was(i, k) = j
    /\ \A k, l \in 1 .. n - 1 : Was(i, k) = Was(i, l) => k = l

(* ... every other element is still there, and no two are one.             *)
LEMMA RemovedOthers ==
    ASSUME NEW n \in Nat, NEW i \in 1 .. n
    PROVE  OthersMoved(n, i)
<1>1. ASSUME NEW j \in (1 .. n) \ {i} PROVE \E k \in 1 .. n - 1 : Was(i, k) = j
  <2>1. CASE j < i
    BY <2>1 DEF Was
  <2>2. CASE j > i
    <3>1. j - 1 \in 1 .. n - 1 /\ Was(i, j - 1) = j
      BY <2>2 DEF Was
    <3> QED BY <3>1
  <2> QED BY <2>1, <2>2
<1>2. \A k, l \in 1 .. n - 1 : Was(i, k) = Was(i, l) => k = l
  BY DEF Was
<1> QED BY <1>1, <1>2 DEF OthersMoved

LEMMA Appended ==
    ASSUME NEW S, NEW s \in Seq(S), NEW t
    PROVE  /\ Append(s, t) \in Seq(Range(Append(s, t)))
           /\ Len(Append(s, t)) = Len(s) + 1
           /\ DOMAIN Append(s, t) = 1 .. Len(s) + 1
           /\ \A i \in 1 .. Len(s) : Append(s, t)[i] = s[i]
           /\ Append(s, t)[Len(s) + 1] = t
<1>1. s \in Seq(S \cup {t})
  OBVIOUS
<1> DEFINE r == Append(s, t)
<1>2. r \in Seq(S \cup {t}) /\ Len(r) = Len(s) + 1 /\ DOMAIN r = 1 .. Len(s) + 1
  BY <1>1
<1>3. r[Len(s) + 1] = t /\ \A i \in 1 .. Len(s) : r[i] = s[i]
  BY <1>1
<1> HIDE DEF r
<1>4. r \in Seq(Range(r))
  BY <1>2, OwnRange
<1> QED BY <1>2, <1>3, <1>4 DEF r

LEMMA Replaced ==
    ASSUME NEW S, NEW s \in Seq(S), NEW i \in DOMAIN s, NEW t
    PROVE  /\ [s EXCEPT ![i] = t] \in Seq(Range([s EXCEPT ![i] = t]))
           /\ Len([s EXCEPT ![i] = t]) = Len(s)
           /\ DOMAIN [s EXCEPT ![i] = t] = DOMAIN s
           /\ [s EXCEPT ![i] = t][i] = t
           /\ \A k \in DOMAIN s \ {i} : [s EXCEPT ![i] = t][k] = s[k]
<1>1. s \in Seq(S \cup {t})
  OBVIOUS
<1> DEFINE r == [s EXCEPT ![i] = t]
<1>2. r \in Seq(S \cup {t}) /\ Len(r) = Len(s) /\ DOMAIN r = DOMAIN s
  BY <1>1
<1>3. r[i] = t /\ \A k \in DOMAIN s \ {i} : r[k] = s[k]
  BY <1>1
<1> HIDE DEF r
<1>4. r \in Seq(Range(r))
  BY <1>2, OwnRange
<1> QED BY <1>2, <1>3, <1>4 DEF r

-----------------------------------------------------------------------------
(* The disk and the main thread leave the documents alone.                 *)

LEMMA Untouched ==
    ASSUME ServerInv,
           UNCHANGED <<editor, documents, built, workspace, tasks, shown, ordered, fresh>>
    PROVE  ServerInv'
<1>1. Shapes' /\ TasksOK' /\ BuiltOK'
  BY DEF ServerInv, Shapes, TasksOK, BuiltOK
<1>2. \A t : Promised(t) => Promised(t)'
  BY DEF Promised
<1>3. OrderOK'
  BY <1>2 DEF ServerInv, OrderOK, Pending
<1>4. AloneOK'
  BY DEF ServerInv, AloneOK, Alone, Settled, IsModelled
<1> QED BY <1>1, <1>3, <1>4 DEF ServerInv

(* The editor notifies: the new task is the last one of its file.          *)
LEMMA NotifyStep ==
    ASSUME ServerInv, NEW f \in Files, NEW text, NEW task, Notify(f, text, task),
           IsTask(task), task.file = f, task.step \in {"read", "set"},
           IF task.step = "read" THEN text # None ELSE text = task.text
    PROVE  ServerInv'
<1> PICK n : n = Len(tasks)
  OBVIOUS
<1>1. tasks \in Seq(Range(tasks)) /\ n \in Nat /\ DOMAIN tasks = 1 .. n
  BY DEF ServerInv, TasksOK
<1>2. /\ tasks' \in Seq(Range(tasks')) /\ Len(tasks') = n + 1 /\ DOMAIN tasks' = 1 .. n + 1
      /\ \A i \in 1 .. n : tasks'[i] = tasks[i]
      /\ tasks'[n + 1] = task
  BY <1>1, Appended DEF Notify
<1>3. editor'[f] = text /\ \A g \in Files \ {f} : editor'[g] = editor[g]
  BY DEF Notify, ServerInv, Shapes
<1>4. UNCHANGED <<documents, built, workspace, shown>>
  BY DEF Notify, models
<1>5. Range(tasks)' = Range(tasks')
  BY DEF Range
<1>6. TasksOK'
  <2>1. \A i \in DOMAIN tasks' : IsTask(tasks'[i])
    BY <1>1, <1>2 DEF ServerInv, TasksOK
  <2> QED BY <1>2, <1>5, <2>1 DEF TasksOK
<1>7. /\ ordered'[f] => ~Pending(f)
      /\ \A g \in Files \ {f} : ordered'[g] = ordered[g]
      /\ DOMAIN ordered' = Files
  BY DEF Notify, ServerInv, Shapes
<1>8. OrderOK'
  <2> SUFFICES ASSUME NEW g \in Files, ordered'[g]
               PROVE  /\ \A i, j \in DOMAIN tasks' : tasks'[i].file = g /\ tasks'[j].file = g => i = j
                      /\ \A i \in DOMAIN tasks' : tasks'[i].file = g => Promised(tasks[i])'
                      /\ ~Pending(g)' => documents'[g] = editor'[g]
    BY DEF OrderOK
  <2>1. CASE g = f
    <3>1. \A i \in 1 .. n : tasks'[i].file # f
      BY <1>1, <1>2, <1>7, <2>1 DEF Pending
    <3>2. \A i \in DOMAIN tasks' : tasks'[i].file = f => i = n + 1
      BY <1>1, <1>2, <3>1
    <3>3. Promised(tasks[n + 1])'
      <4>1. /\ tasks'[n + 1].file = f /\ tasks'[n + 1].step = task.step
            /\ tasks'[n + 1].text = task.text
        BY <1>2
      <4>2. task.step \notin Rebuilding
        BY DEF Rebuilding
      <4> QED BY <4>1, <4>2, <1>3 DEF Promised
    <3>4. Pending(f)'
      <4>1. n + 1 \in DOMAIN tasks' /\ tasks'[n + 1].file = f
        BY <1>1, <1>2
      <4> QED BY <4>1 DEF Pending
    <3> QED BY <2>1, <3>2, <3>3, <3>4
  <2>2. CASE g # f
    <3>1. ordered[g]
      BY <1>7, <2>2
    <3>2. \A i \in DOMAIN tasks' : tasks'[i].file = g => i \in 1 .. n
      BY <1>1, <1>2, <2>2
    <3>3. \A i \in 1 .. n : tasks[i].file = g => Promised(tasks[i])'
      <4> SUFFICES ASSUME NEW i \in 1 .. n, tasks[i].file = g PROVE Promised(tasks[i])'
        OBVIOUS
      <4>1. Promised(tasks[i])
        BY <1>1, <3>1 DEF ServerInv, OrderOK
      <4>2. tasks'[i] = tasks[i] /\ editor'[g] = editor[g] /\ documents' = documents
        BY <1>2, <1>3, <1>4, <2>2
      <4> QED BY <4>1, <4>2 DEF Promised
    <3>4. \A i, j \in DOMAIN tasks' : tasks'[i].file = g /\ tasks'[j].file = g => i = j
      BY <1>1, <1>2, <3>1, <3>2 DEF ServerInv, OrderOK
    <3>5. ~Pending(g)' => ~Pending(g)
      BY <1>1, <1>2 DEF Pending
    <3> QED BY <1>1, <1>2, <1>3, <1>4, <2>2, <3>1, <3>2, <3>3, <3>4, <3>5 DEF ServerInv, OrderOK
  <2> QED BY <2>1, <2>2
<1>9. AloneOK'
  <2> SUFFICES ASSUME fresh' # None
               PROVE  Len(tasks') <= 1 /\ Alone(tasks[1])' /\ tasks' # <<>>
    BY DEF AloneOK
  <2>1. tasks = <<>> /\ fresh' = fresh
    BY DEF Notify
  <2>2. n = 0
    BY <2>1
  <2>3. Settled
    BY <2>1 DEF ServerInv, AloneOK
  <2>4. Settled'
    BY <1>4, <2>1, <2>3 DEF Settled, IsModelled
  <2>5. tasks'[1] = task /\ Len(tasks') = 1
    BY <1>2, <2>2
  <2>6. Alone(tasks[1])'
    BY <2>4, <2>5 DEF Alone
  <2>7. tasks' # <<>>
    <3>1. 1 \in DOMAIN tasks'
      BY <1>2, <2>2
    <3>2. 1 \notin DOMAIN <<>>
      OBVIOUS
    <3> QED BY <3>1, <3>2
  <2> QED BY <2>5, <2>6, <2>7
<1>10. Shapes' /\ BuiltOK'
  BY <1>4, <1>7 DEF Notify, ServerInv, Shapes, BuiltOK
<1> QED BY <1>6, <1>8, <1>9, <1>10 DEF ServerInv

-----------------------------------------------------------------------------
(* Steps of a task.                                                        *)

LEMMA RunningTask ==
    ASSUME ServerInv, NEW i \in 1 .. Threads, NEW step, Running(i, step)
    PROVE  /\ i \in DOMAIN tasks /\ IsTask(tasks[i]) /\ tasks[i].file \in Files
           /\ tasks[i].step = step /\ tasks # <<>>
           /\ fresh # None => i = 1 /\ Len(tasks) = 1
<1>1. tasks \in Seq(Range(tasks)) /\ i \in DOMAIN tasks /\ IsTask(tasks[i])
  BY DEF ServerInv, TasksOK, Running
<1>2. i \in 1 .. Len(tasks) /\ Len(tasks) \in Nat /\ tasks # <<>>
  BY <1>1
<1>3. fresh # None => Len(tasks) <= 1
  BY DEF ServerInv, AloneOK
<1>4. \A n \in Nat : i \in 1 .. n /\ n <= 1 => i = 1 /\ n = 1
  OBVIOUS
<1>5. fresh # None => i = 1 /\ Len(tasks) = 1
  BY <1>2, <1>3, <1>4
<1> QED BY <1>1, <1>2, <1>5 DEF Running, IsTask

(* The task goes on.                                                       *)
LEMMA TaskGoesOn ==
    ASSUME ServerInv, NEW i \in DOMAIN tasks, NEW t, Step(i, t), IsTask(t), t.file = tasks[i].file,
           UNCHANGED <<editor, ordered>>,
           \A g \in Files \ {t.file} : documents'[g] = documents[g],
           Promised(tasks[i]) => Promised(tasks[i])'
    PROVE  /\ TasksOK' /\ OrderOK' /\ tasks'[i] = t /\ Len(tasks') = Len(tasks) /\ tasks' # <<>>
           /\ DOMAIN tasks' = DOMAIN tasks /\ \A k \in DOMAIN tasks \ {i} : tasks'[k] = tasks[k]
<1>1. tasks \in Seq(Range(tasks)) /\ Len(tasks) \in Nat /\ Len(tasks) > 0
  BY DEF ServerInv, TasksOK
<1>2. /\ tasks' \in Seq(Range(tasks')) /\ Len(tasks') = Len(tasks) /\ DOMAIN tasks' = DOMAIN tasks
      /\ tasks'[i] = t /\ \A k \in DOMAIN tasks \ {i} : tasks'[k] = tasks[k]
  BY <1>1, Replaced DEF Step
<1>3. Range(tasks)' = Range(tasks') /\ tasks' # <<>>
  BY <1>1, <1>2 DEF Range
<1>4. \A k \in DOMAIN tasks : tasks'[k].file = tasks[k].file
  BY <1>2
<1>5. TasksOK'
  BY <1>2, <1>3 DEF ServerInv, TasksOK
<1>6. OrderOK'
  <2> SUFFICES ASSUME NEW g \in Files, ordered[g]
               PROVE  /\ \A k, j \in DOMAIN tasks' : tasks'[k].file = g /\ tasks'[j].file = g => k = j
                      /\ \A k \in DOMAIN tasks' : tasks'[k].file = g => Promised(tasks[k])'
                      /\ ~Pending(g)' => documents'[g] = editor'[g]
    BY DEF OrderOK
  <2>1. \A k, j \in DOMAIN tasks' : tasks'[k].file = g /\ tasks'[j].file = g => k = j
    BY <1>2, <1>4 DEF ServerInv, OrderOK
  <2>2. ASSUME NEW k \in DOMAIN tasks', tasks'[k].file = g PROVE Promised(tasks[k])'
    <3>1. Promised(tasks[k])
      BY <1>2, <1>4, <2>2 DEF ServerInv, OrderOK
    <3>2. CASE k = i
      BY <3>1, <3>2
    <3>3. CASE k # i
      <4>1. g # t.file
        BY <1>2, <1>4, <2>1, <2>2, <3>3
      <4>2. tasks'[k] = tasks[k] /\ documents'[g] = documents[g] /\ editor' = editor
        BY <1>2, <3>3, <4>1
      <4> QED BY <2>2, <3>1, <4>2 DEF Promised
    <3> QED BY <3>2, <3>3
  <2>3. ~Pending(g)' => ~Pending(g) /\ g # t.file
    BY <1>2, <1>4 DEF Pending
  <2> QED BY <2>1, <2>2, <2>3 DEF ServerInv, OrderOK
<1> QED BY <1>1, <1>2, <1>3, <1>5, <1>6

(* The task is over.                                                       *)
LEMMA TaskLeaves ==
    ASSUME ServerInv, NEW i \in DOMAIN tasks, tasks' = RemoveAt(tasks, i)
    PROVE  /\ TasksOK' /\ Len(tasks') = Len(tasks) - 1
           /\ \A k \in DOMAIN tasks' : Was(i, k) \in DOMAIN tasks /\ tasks'[k] = tasks[Was(i, k)]
           /\ \A k, l \in DOMAIN tasks' : Was(i, k) = Was(i, l) => k = l
           /\ \A j \in DOMAIN tasks \ {i} : \E k \in DOMAIN tasks' : tasks'[k] = tasks[j]
<1>1. tasks \in Seq(Range(tasks)) /\ Len(tasks) \in Nat /\ DOMAIN tasks = 1 .. Len(tasks)
  BY DEF ServerInv, TasksOK
<1>2. /\ tasks' \in Seq(Range(tasks'))
      /\ Len(tasks') = Len(tasks) - 1 /\ DOMAIN tasks' = 1 .. Len(tasks) - 1
      /\ \A k \in DOMAIN tasks' : Was(i, k) \in DOMAIN tasks \ {i} /\ tasks'[k] = tasks[Was(i, k)]
  <2>1. IsRest(tasks', tasks, i)
    BY <1>1, Removed
  <2> QED BY <2>1 DEF IsRest
<1>3. /\ \A j \in DOMAIN tasks \ {i} : \E k \in DOMAIN tasks' : Was(i, k) = j
      /\ \A k, l \in DOMAIN tasks' : Was(i, k) = Was(i, l) => k = l
  <2>1. i \in 1 .. Len(tasks)
    BY <1>1
  <2>2. PICK n \in Nat : n = Len(tasks)
    BY <1>1
  <2>3. i \in 1 .. n
    BY <2>1, <2>2
  <2>4. OthersMoved(n, i)
    BY <2>3, RemovedOthers
  <2>5. DOMAIN tasks = 1 .. n /\ DOMAIN tasks' = 1 .. n - 1
    BY <1>1, <1>2, <2>2
  <2> QED BY <2>4, <2>5 DEF OthersMoved
<1>4. Range(tasks)' = Range(tasks')
  BY DEF Range
<1>5. TasksOK'
  BY <1>2, <1>4 DEF ServerInv, TasksOK
<1>6. \A j \in DOMAIN tasks \ {i} : \E k \in DOMAIN tasks' : tasks'[k] = tasks[j]
  BY <1>2, <1>3
<1> QED BY <1>2, <1>3, <1>5, <1>6

LEMMA TaskEnds ==
    ASSUME ServerInv, NEW i \in DOMAIN tasks, tasks' = RemoveAt(tasks, i),
           UNCHANGED <<editor, ordered, documents>>,
           ordered[tasks[i].file] => documents[tasks[i].file] = editor[tasks[i].file]
    PROVE  TasksOK' /\ OrderOK' /\ Len(tasks') = Len(tasks) - 1
<1>1. TasksOK' /\ Len(tasks') = Len(tasks) - 1
  BY TaskLeaves
<1>2. \A k \in DOMAIN tasks' : Was(i, k) \in DOMAIN tasks /\ tasks'[k] = tasks[Was(i, k)]
  BY TaskLeaves
<1>3. \A k, l \in DOMAIN tasks' : Was(i, k) = Was(i, l) => k = l
  BY TaskLeaves
<1>4. \A j \in DOMAIN tasks \ {i} : \E k \in DOMAIN tasks' : tasks'[k] = tasks[j]
  BY TaskLeaves
<1>5. OrderOK'
  <2> SUFFICES ASSUME NEW g \in Files, ordered[g]
               PROVE  /\ \A k, j \in DOMAIN tasks' : tasks'[k].file = g /\ tasks'[j].file = g => k = j
                      /\ \A k \in DOMAIN tasks' : tasks'[k].file = g => Promised(tasks[k])'
                      /\ ~Pending(g)' => documents'[g] = editor'[g]
    BY DEF OrderOK
  <2>1. \A k, j \in DOMAIN tasks' : tasks'[k].file = g /\ tasks'[j].file = g => k = j
    <3> SUFFICES ASSUME NEW k \in DOMAIN tasks', NEW j \in DOMAIN tasks',
                        tasks'[k].file = g, tasks'[j].file = g
                 PROVE  k = j
      OBVIOUS
    <3>1. Was(i, k) = Was(i, j)
      BY <1>2 DEF ServerInv, OrderOK
    <3> QED BY <1>3, <3>1
  <2>2. ASSUME NEW k \in DOMAIN tasks', tasks'[k].file = g PROVE Promised(tasks[k])'
    <3>1. Promised(tasks[Was(i, k)])
      BY <1>2, <2>2 DEF ServerInv, OrderOK
    <3>2. tasks'[k] = tasks[Was(i, k)]
      BY <1>2
    <3> QED BY <3>1, <3>2 DEF Promised
  <2>3. ASSUME ~Pending(g)' PROVE documents'[g] = editor'[g]
    <3>1. CASE g = tasks[i].file
      BY <3>1
    <3>2. CASE g # tasks[i].file
      <4>1. ~Pending(g)
        BY <1>4, <2>3, <3>2 DEF Pending
      <4> QED BY <4>1 DEF ServerInv, OrderOK
    <3> QED BY <3>1, <3>2
  <2> QED BY <2>1, <2>2, <2>3
<1> QED BY <1>1, <1>5

(* A task with some of its fields changed.                                  *)
LEMMA Stepped ==
    ASSUME NEW t, IsTask(t), NEW step
    PROVE  [t EXCEPT !.step = step] =
               [kind |-> t.kind, file |-> t.file, text |-> t.text, step |-> step,
                sources |-> t.sources]
BY DEF IsTask

LEMMA WithText ==
    ASSUME NEW t, IsTask(t), NEW text, NEW step
    PROVE  [t EXCEPT !.text = text, !.step = step] =
               [kind |-> t.kind, file |-> t.file, text |-> text, step |-> step,
                sources |-> t.sources]
<1> DEFINE r == [t EXCEPT !.text = text]
<1>1. [t EXCEPT !.text = text, !.step = step] = [r EXCEPT !.step = step]
  BY DEF IsTask
<1>2. r = [kind |-> t.kind, file |-> t.file, text |-> text, step |-> t.step, sources |-> t.sources]
  BY DEF IsTask
<1> HIDE DEF r
<1>3. [r EXCEPT !.step = step] =
          [kind |-> t.kind, file |-> t.file, text |-> text, step |-> step, sources |-> t.sources]
  BY <1>2
<1> QED BY <1>1, <1>3

LEMMA WithSources ==
    ASSUME NEW t, IsTask(t), NEW v, NEW step
    PROVE  [t EXCEPT !.sources = v, !.step = step] =
               [kind |-> t.kind, file |-> t.file, text |-> t.text, step |-> step, sources |-> v]
<1> DEFINE r == [t EXCEPT !.sources = v]
<1>1. [t EXCEPT !.sources = v, !.step = step] = [r EXCEPT !.step = step]
  BY DEF IsTask
<1>2. r = [kind |-> t.kind, file |-> t.file, text |-> t.text, step |-> t.step, sources |-> v]
  BY DEF IsTask
<1> HIDE DEF r
<1>3. [r EXCEPT !.step = step] =
          [kind |-> t.kind, file |-> t.file, text |-> t.text, step |-> step, sources |-> v]
  BY <1>2
<1> QED BY <1>1, <1>3

LEMMA ReadTextStep ==
    ASSUME ServerInv, NEW i \in 1 .. Threads, ReadText(i) PROVE ServerInv'
<1> DEFINE f == tasks[i].file
           text == Over(editor, [g \in Files |-> OnDisk(g)])[f]
<1>1. /\ i \in DOMAIN tasks /\ IsTask(tasks[i]) /\ f \in Files /\ tasks[i].step = "read"
      /\ fresh # None => i = 1 /\ Len(tasks) = 1
  BY RunningTask DEF ReadText
<1>2. UNCHANGED <<editor, documents, built, workspace, shown, ordered, fresh>>
  BY DEF ReadText, client, models
<1>3. editor[f] # None => text = editor[f]
  BY <1>1 DEF Over
<1>4. ordered[f] => editor[f] # None
  BY <1>1 DEF ServerInv, OrderOK, Promised
<1>5. fresh # None => Settled
  <2>1. tasks # <<>>
    BY <1>1
  <2> QED BY <1>1, <2>1 DEF ServerInv, AloneOK, Alone
<1>6. Settled => Settled'
  BY <1>2 DEF Settled, IsModelled
<1>7. Shapes' /\ BuiltOK'
  BY <1>2 DEF ServerInv, Shapes, BuiltOK
<1>8. CASE text = None
  <2>1. tasks' = RemoveAt(tasks, i)
    BY <1>1, <1>8 DEF ReadText
  <2>2. ordered[f] => documents[f] = editor[f]
    BY <1>3, <1>4, <1>8
  <2>3. TasksOK' /\ OrderOK' /\ Len(tasks') = Len(tasks) - 1
    BY <1>1, <1>2, <2>1, <2>2, TaskEnds
  <2>4. AloneOK'
    <3>1. fresh' # None => Len(tasks') = 0 /\ Settled'
      BY <1>1, <1>2, <1>5, <1>6, <2>3
    <3>2. Len(tasks') = 0 => tasks' = <<>>
      BY <2>3 DEF TasksOK
    <3> QED BY <3>1, <3>2 DEF AloneOK
  <2> QED BY <1>7, <2>3, <2>4 DEF ServerInv
<1>9. CASE text # None
  <2> PICK t : t = [tasks[i] EXCEPT !.text = text, !.step = "set"]
    OBVIOUS
  <2>1. Step(i, t)
    BY <1>1, <1>9 DEF ReadText
  <2> HIDE DEF text
  <2>2. t = [kind |-> tasks[i].kind, file |-> f, text |-> text, step |-> "set",
             sources |-> tasks[i].sources]
    BY <1>1, WithText
  <2>3. IsTask(t) /\ t.file = f /\ t.step = "set" /\ t.text = text
    BY <1>1, <1>9, <2>2 DEF IsTask
  <2>4. tasks'[i] = t
    BY <1>1, <2>1, Replaced DEF ServerInv, TasksOK, Step
  <2>5. Promised(tasks[i]) => Promised(tasks[i])'
    BY <1>1, <1>2, <1>3, <2>3, <2>4 DEF Promised, Rebuilding
  <2>6. TasksOK' /\ OrderOK' /\ Len(tasks') = Len(tasks) /\ tasks' # <<>>
    BY <1>1, <1>2, <2>1, <2>3, <2>5, TaskGoesOn
  <2>7. AloneOK'
    <3> SUFFICES ASSUME fresh # None PROVE Len(tasks') <= 1 /\ Alone(tasks[1])'
      BY <1>2, <2>6 DEF AloneOK
    <3>1. tasks'[1].step = "set" /\ Len(tasks') = 1 /\ Settled'
      BY <1>1, <1>5, <1>6, <2>3, <2>4, <2>6
    <3> QED BY <3>1 DEF Alone
  <2> QED BY <1>7, <2>6, <2>7 DEF ServerInv
<1> QED BY <1>8, <1>9

LEMMA SetDocumentStep ==
    ASSUME ServerInv, NEW i \in 1 .. Threads, SetDocument(i) PROVE ServerInv'
<1> DEFINE f == tasks[i].file
           known == tasks[i].kind # "close" \/ documents[f] # None
           step == IF known THEN "collect" ELSE "publish"
<1> PICK t : t = [tasks[i] EXCEPT !.step = step]
  OBVIOUS
<1>1. /\ i \in DOMAIN tasks /\ IsTask(tasks[i]) /\ f \in Files /\ tasks[i].step = "set"
      /\ fresh # None => i = 1 /\ Len(tasks) = 1
  BY RunningTask DEF SetDocument
<1>2. /\ UNCHANGED <<editor, workspace, shown, ordered>> /\ Step(i, t)
      /\ documents' = [documents EXCEPT ![f] = tasks[i].text]
      /\ built' = [built EXCEPT ![f] = None]
      /\ fresh' = IF known /\ Len(tasks) = 1 THEN f ELSE fresh
  BY DEF SetDocument
<1>3. t = [kind |-> tasks[i].kind, file |-> f, text |-> tasks[i].text, step |-> step,
           sources |-> tasks[i].sources]
  BY <1>1 DEF IsTask
<1>4. /\ IsTask(t) /\ t.file = f /\ t.step = step /\ t.text = tasks[i].text
      /\ t.step \in {"collect", "publish"}
  BY <1>1, <1>3 DEF IsTask, Rebuilding
<1>5. ~known => tasks[i].text = None /\ documents[f] = None
  BY <1>1 DEF IsTask
<1>6. tasks'[i] = t
  BY <1>1, <1>2, Replaced DEF ServerInv, TasksOK, Step
<1>7. fresh # None => Settled
  <2>1. tasks # <<>>
    BY <1>1
  <2> QED BY <1>1, <2>1 DEF ServerInv, AloneOK, Alone
<1> HIDE DEF f, known
<1>8. /\ documents'[f] = t.text /\ built'[f] = None
      /\ \A g \in Files \ {f} : documents'[g] = documents[g] /\ built'[g] = built[g]
  BY <1>1, <1>2, <1>4 DEF ServerInv, Shapes
<1>9. Promised(tasks[i]) => Promised(tasks[i])'
  BY <1>1, <1>2, <1>4, <1>6, <1>8 DEF Promised, Rebuilding, f
<1>10. TasksOK' /\ OrderOK' /\ Len(tasks') = Len(tasks) /\ tasks' # <<>>
  BY <1>1, <1>2, <1>4, <1>8, <1>9, TaskGoesOn DEF f
<1>11. AloneOK'
  <2> SUFFICES ASSUME fresh' # None PROVE Len(tasks') = 1 /\ Alone(tasks[1])'
    BY <1>10 DEF AloneOK
  <2>1. Len(tasks) = 1 /\ i = 1
    <3>1. tasks \in Seq(Range(tasks))
      BY DEF ServerInv, TasksOK
    <3> QED BY <1>1, <1>2, <3>1
  <2>2. CASE known
    <3>1. fresh' = f /\ t.step = "collect"
      BY <1>2, <1>4, <2>1, <2>2
    <3> QED BY <1>4, <1>6, <1>8, <1>10, <2>1, <3>1 DEF Alone
  <2>3. CASE ~known
    <3>1. fresh' = fresh /\ Settled /\ t.step = "publish" /\ t.text = None /\ documents[f] = None
      BY <1>2, <1>4, <1>5, <1>7, <2>3
    <3>2. \A g \in Files : documents'[g] = documents[g]
      BY <1>8, <3>1
    <3>3. \A g \in Files : IsModelled(g)'
      BY <1>2, <1>8, <3>1, <3>2 DEF Settled, IsModelled
    <3>4. shown'[fresh'] = documents'[fresh']
      BY <1>2, <3>1, <3>2 DEF Settled, ServerInv, Shapes
    <3> QED BY <1>4, <1>6, <1>8, <1>10, <2>1, <3>1, <3>3, <3>4 DEF Alone
  <2> QED BY <2>2, <2>3
<1>12. Shapes' /\ BuiltOK'
  <2>1. Shapes'
    BY <1>1, <1>2 DEF ServerInv, Shapes
  <2> QED BY <1>8, <2>1 DEF ServerInv, BuiltOK
<1> QED BY <1>10, <1>11, <1>12 DEF ServerInv

LEMMA CollectStep ==
    ASSUME ServerInv, NEW i \in 1 .. Threads, Collect(i) PROVE ServerInv'
<1> DEFINE f == tasks[i].file
           step == IF Sources = Nothing THEN "publish" ELSE "store"
<1> PICK sources : sources = Sources
  OBVIOUS
<1> PICK t : t = [tasks[i] EXCEPT !.sources = sources, !.step = step]
  OBVIOUS
<1>1. /\ i \in DOMAIN tasks /\ IsTask(tasks[i]) /\ f \in Files /\ tasks[i].step = "collect"
      /\ fresh # None => i = 1 /\ Len(tasks) = 1
  BY RunningTask DEF Collect
<1>2. /\ UNCHANGED <<editor, documents, built, shown, ordered, fresh>> /\ Step(i, t)
      /\ workspace' = IF sources = Nothing THEN Nothing ELSE workspace
  BY DEF Collect
<1>3. DOMAIN sources = Files /\ \A g \in Files : documents[g] # None => sources[g] = documents[g]
  BY DEF Sources, Over
<1>4. sources = Nothing => \A g \in Files : documents[g] = None
  BY <1>3 DEF Nothing
<1>5. t = [kind |-> tasks[i].kind, file |-> f, text |-> tasks[i].text, step |-> step,
           sources |-> sources]
  BY <1>1, WithSources
<1>6. /\ IsTask(t) /\ t.file = f /\ t.step = step /\ t.text = tasks[i].text
      /\ t.step \in {"store", "publish"} /\ t.sources = sources
  BY <1>1, <1>3, <1>5 DEF IsTask, Rebuilding
<1>7. tasks'[i] = t
  BY <1>1, <1>2, Replaced DEF ServerInv, TasksOK, Step
<1>8. Promised(tasks[i]) => Promised(tasks[i])'
  BY <1>1, <1>2, <1>6, <1>7 DEF Promised, Rebuilding
<1>9. TasksOK' /\ OrderOK' /\ Len(tasks') = Len(tasks) /\ tasks' # <<>>
  BY <1>1, <1>2, <1>6, <1>8, TaskGoesOn
<1>10. AloneOK'
  <2> SUFFICES ASSUME fresh # None PROVE Len(tasks') = 1 /\ Alone(tasks[1])'
    BY <1>2, <1>9 DEF AloneOK
  <2>1. i = 1 /\ Len(tasks') = 1 /\ tasks'[1] = t
    BY <1>1, <1>7, <1>9
  <2>2. fresh = f /\ documents[f] = t.text
    <3>1. tasks # <<>>
      BY <1>1
    <3> QED BY <1>1, <1>6, <2>1, <3>1 DEF ServerInv, AloneOK, Alone
  <2> HIDE DEF f
  <2>3. CASE sources = Nothing
    <3>1. t.step = "publish"
      BY <1>6, <2>3
    <3>2. \A g \in Files : IsModelled(g)'
      BY <1>2, <1>4, <2>3 DEF ServerInv, BuiltOK, IsModelled
    <3> QED BY <1>2, <1>6, <2>1, <2>2, <3>1, <3>2 DEF Alone
  <2>4. CASE sources # Nothing
    <3>1. t.step = "store"
      BY <1>6, <2>4
    <3> QED BY <1>2, <1>3, <1>6, <2>1, <2>2, <3>1 DEF Alone
  <2> QED BY <2>3, <2>4
<1>11. Shapes' /\ BuiltOK'
  BY <1>2 DEF ServerInv, Shapes, BuiltOK, Nothing
<1> QED BY <1>9, <1>10, <1>11 DEF ServerInv

LEMMA StoreStep ==
    ASSUME ServerInv, NEW i \in 1 .. Threads, Store(i) PROVE ServerInv'
<1> DEFINE f == tasks[i].file
           sources == tasks[i].sources
<1> PICK t : t = [tasks[i] EXCEPT !.step = "publish", !.sources = Nothing]
  OBVIOUS
<1>1. /\ i \in DOMAIN tasks /\ IsTask(tasks[i]) /\ f \in Files /\ tasks[i].step = "store"
      /\ fresh # None => i = 1 /\ Len(tasks) = 1
  BY RunningTask DEF Store
<1>2. UNCHANGED <<editor, documents, shown, ordered, fresh>> /\ Step(i, t)
  BY DEF Store, client
<1>3. /\ workspace' = sources
      /\ built' = [g \in Files |-> IF documents[g] # None THEN sources[g] ELSE None]
  BY DEF Store
<1>4. t = [kind |-> tasks[i].kind, file |-> f, text |-> tasks[i].text, step |-> "publish",
           sources |-> Nothing]
  <2>1. t = [tasks[i] EXCEPT !.sources = Nothing, !.step = "publish"]
    BY <1>1 DEF IsTask
  <2> QED BY <1>1, <2>1, WithSources
<1>5. IsTask(t) /\ t.file = f /\ t.step = "publish" /\ t.text = tasks[i].text
  BY <1>1, <1>4 DEF IsTask, Nothing, Rebuilding
<1>6. DOMAIN sources = Files
  BY <1>1 DEF IsTask
<1>7. tasks'[i] = t
  BY <1>1, <1>2, Replaced DEF ServerInv, TasksOK, Step
<1>8. Promised(tasks[i]) => Promised(tasks[i])'
  BY <1>1, <1>2, <1>5, <1>7 DEF Promised, Rebuilding
<1>9. TasksOK' /\ OrderOK' /\ Len(tasks') = Len(tasks) /\ tasks' # <<>>
  BY <1>1, <1>2, <1>5, <1>8, TaskGoesOn
<1>10. AloneOK'
  <2> SUFFICES ASSUME fresh # None PROVE Len(tasks') = 1 /\ Alone(tasks[1])'
    BY <1>2, <1>9 DEF AloneOK
  <2>1. i = 1 /\ Len(tasks') = 1 /\ tasks'[1] = t
    BY <1>1, <1>7, <1>9
  <2>2. /\ fresh = f /\ documents[f] = t.text
        /\ \A g \in Files : documents[g] # None => sources[g] = documents[g]
    <3>1. tasks # <<>>
      BY <1>1
    <3> QED BY <1>1, <1>5, <2>1, <3>1 DEF ServerInv, AloneOK, Alone
  <2>3. \A g \in Files : IsModelled(g)'
    BY <1>2, <1>3, <2>2 DEF IsModelled
  <2> HIDE DEF f, sources
  <2> QED BY <1>2, <1>5, <2>1, <2>2, <2>3 DEF Alone
<1>11. Shapes' /\ BuiltOK'
  BY <1>2, <1>3, <1>6 DEF ServerInv, Shapes, BuiltOK
<1> QED BY <1>9, <1>10, <1>11 DEF ServerInv

(* The diagnostics are those of the text there is.                         *)
LEMMA PublishStep ==
    ASSUME ServerInv, NEW i \in 1 .. Threads, Publish(i) PROVE ServerInv'
<1> DEFINE f == tasks[i].file
           diagnostics == IF tasks[i].kind = "close" THEN None ELSE ModelFor(f)
<1>1. /\ i \in DOMAIN tasks /\ IsTask(tasks[i]) /\ f \in Files /\ tasks[i].step = "publish"
      /\ tasks # <<>> /\ (fresh # None => i = 1 /\ Len(tasks) = 1)
  BY RunningTask DEF Publish
<1>2. /\ UNCHANGED <<editor, documents, built, workspace, ordered, fresh>>
      /\ tasks' = RemoveAt(tasks, i)
  BY DEF Publish, client, models
<1>3. shown' = [shown EXCEPT ![f] = diagnostics]
  BY DEF Publish
<1>4. ordered[f] => documents[f] = editor[f]
  BY <1>1 DEF ServerInv, OrderOK, Promised, Rebuilding
<1>5. TasksOK' /\ OrderOK' /\ Len(tasks') = Len(tasks) - 1
  BY <1>1, <1>2, <1>4, TaskEnds
<1>6. AloneOK'
  <2> SUFFICES ASSUME fresh # None PROVE Len(tasks') = 0 /\ Settled'
    <3>1. Len(tasks') = 0 => tasks' = <<>>
      BY <1>5 DEF TasksOK
    <3> QED BY <1>2, <3>1 DEF AloneOK
  <2>1. i = 1 /\ Len(tasks') = 0
    BY <1>1, <1>5
  <2>2. Alone(tasks[1])
    BY <1>1 DEF ServerInv, AloneOK
  <2>3. /\ \A g \in Files : IsModelled(g)
        /\ documents[f] = tasks[1].text
        /\ fresh = f \/ shown[fresh] = documents[fresh]
    BY <1>1, <2>1, <2>2 DEF Alone
  <2>4. diagnostics = documents[f]
    <3>1. (tasks[1].kind = "close") <=> (tasks[1].text = None)
      BY <1>1, <2>1 DEF IsTask
    <3>2. IsModelled(f)
      BY <1>1, <2>3
    <3> QED BY <2>1, <2>3, <3>1, <3>2 DEF IsModelled, ModelFor
  <2> HIDE DEF f, diagnostics
  <2>5. shown'[f] = documents[f] /\ \A h \in Files \ {f} : shown'[h] = shown[h]
    BY <1>1, <1>3, <2>4 DEF ServerInv, Shapes
  <2>6. shown'[fresh] = documents[fresh]
    BY <2>3, <2>5 DEF ServerInv, Shapes
  <2>7. \A g \in Files : IsModelled(g)'
    BY <1>2, <2>3 DEF IsModelled
  <2> QED BY <1>2, <2>1, <2>6, <2>7 DEF Settled
<1>7. Shapes' /\ BuiltOK'
  BY <1>2, <1>3 DEF ServerInv, Shapes, BuiltOK
<1> QED BY <1>5, <1>6, <1>7 DEF ServerInv

-----------------------------------------------------------------------------
(* Every step.                                                             *)

LEMMA EditorStep ==
    ASSUME ServerInv, NEW f \in Files, DidOpen(f) \/ DidChange(f) \/ DidClose(f)
    PROVE  ServerInv'
<1> USE DEF Rebuilding
<1>1. CASE DidOpen(f)
  <2>1. PICK t \in TextsOf[f] : Notify(f, t, Task("open", f, t, "set"))
    BY <1>1 DEF DidOpen
  <2>2. t # None
    BY TextsAssumption
  <2>3. PICK task : task = Task("open", f, t, "set")
    OBVIOUS
  <2>4. IsTask(task) /\ task.file = f /\ task.step = "set" /\ task.kind = "open" /\ task.text = t
    BY <2>2, <2>3 DEF IsTask, Task, Nothing
  <2> QED BY <2>1, <2>3, <2>4, NotifyStep
<1>2. CASE DidChange(f)
  <2>1. PICK t \in TextsOf[f] : Notify(f, t, Task("change", f, None, "read"))
    BY <1>2 DEF DidChange
  <2>2. t # None
    BY TextsAssumption
  <2>3. PICK task : task = Task("change", f, None, "read")
    OBVIOUS
  <2>4. IsTask(task) /\ task.file = f /\ task.step = "read" /\ task.kind = "change"
    BY <2>3 DEF IsTask, Task, Nothing
  <2> QED BY <2>1, <2>2, <2>3, <2>4, NotifyStep
<1>3. CASE DidClose(f)
  <2>1. Notify(f, None, Task("close", f, None, "set"))
    BY <1>3 DEF DidClose
  <2>2. PICK task : task = Task("close", f, None, "set")
    OBVIOUS
  <2>3. IsTask(task) /\ task.file = f /\ task.step = "set" /\ task.kind = "close" /\ task.text = None
    BY <2>2 DEF IsTask, Task, Nothing
  <2> QED BY <2>1, <2>2, <2>3, NotifyStep
<1> QED BY <1>1, <1>2, <1>3

LEMMA MainStep ==
    ASSUME ServerInv,
           \/ \E f \in Files : Write(f) \/ Unlink(f)
           \/ \E q \in Queries : AskSymbols(q)
           \/ AnswerFromIndex \/ AnswerFromCache \/ ScanFiles \/ ReadFiles \/ PutQuery \/ PutIndex
           \/ \E r \in Positions, f \in Files : Ask(r[1], f, r[2])
           \/ Answer \/ Complete
           \/ UNCHANGED vars
    PROVE  ServerInv'
<1>1. UNCHANGED <<editor, documents, built, workspace, tasks, shown, ordered, fresh>>
  <2>1. CASE \E f \in Files : Write(f) \/ Unlink(f)
    BY <2>1 DEF Write, Unlink, models
  <2>2. CASE \E q \in Queries : AskSymbols(q)
    BY <2>2 DEF AskSymbols, models
  <2>3. CASE AnswerFromIndex \/ AnswerFromCache
    BY <2>3 DEF AnswerFromIndex, AnswerFromCache, client, models
  <2>4. CASE ScanFiles \/ ReadFiles
    BY <2>4 DEF ScanFiles, ReadFiles, client, models
  <2>5. CASE PutQuery \/ PutIndex
    BY <2>5 DEF PutQuery, PutIndex, client, models
  <2>6. CASE \E r \in Positions, f \in Files : Ask(r[1], f, r[2])
    BY <2>6 DEF Ask, models
  <2>7. CASE Answer \/ Complete
    BY <2>7 DEF Answer, Complete, client, models
  <2>8. CASE UNCHANGED vars
    BY <2>8 DEF vars
  <2> QED BY <2>1, <2>2, <2>3, <2>4, <2>5, <2>6, <2>7, <2>8
<1> QED BY <1>1, Untouched

LEMMA ServerInvInit == Init => ServerInv
<1> SUFFICES ASSUME Init PROVE ServerInv
  OBVIOUS
<1>1. tasks = <<>> /\ DOMAIN tasks = {} /\ fresh = None
  BY DEF Init
<1>2. TasksOK
  BY <1>1 DEF TasksOK
<1>3. OrderOK
  BY <1>1 DEF OrderOK, Init, Nothing
<1>4. AloneOK /\ BuiltOK
  BY <1>1 DEF AloneOK, BuiltOK, Init, Nothing
<1>5. Shapes
  BY DEF Init, Shapes, Nothing
<1> QED BY <1>2, <1>3, <1>4, <1>5 DEF ServerInv

LEMMA ServerInvStep == ASSUME ServerInv, [Next]_vars PROVE ServerInv'
<1>1. CASE \E f \in Files : DidOpen(f) \/ DidChange(f) \/ DidClose(f)
  BY <1>1, EditorStep
<1>2. CASE \E i \in 1 .. Threads : ReadText(i) \/ SetDocument(i) \/ Collect(i) \/ Store(i) \/ Publish(i)
  BY <1>2, ReadTextStep, SetDocumentStep, CollectStep, StoreStep, PublishStep
<1> QED BY <1>1, <1>2, MainStep DEF Next

(* With no notification under way, the server holds the text the editor    *)
(* shows of each file whose last one arrived with none of its own under    *)
(* way, and after a rebuild that ran alone all its models, and the diagnostics  *)
(* of the file it was for, are of the documents.                           *)
THEOREM WorkspaceIsCurrentHolds == Spec => []WorkspaceIsCurrent
<1>1. ServerInv => WorkspaceIsCurrent
  <2> SUFFICES ASSUME ServerInv, tasks = <<>>
               PROVE  /\ \A f \in Files : ordered[f] => documents[f] = editor[f]
                      /\ fresh # None => (\A f \in Files : IsModelled(f)) /\ shown[fresh] = documents[fresh]
    BY DEF WorkspaceIsCurrent
  <2>1. \A f \in Files : ~Pending(f)
    BY DEF Pending
  <2> QED BY <2>1 DEF ServerInv, OrderOK, AloneOK, Settled
<1>2. ServerInv /\ [Next]_vars => ServerInv'
  BY ServerInvStep
<1> QED BY <1>1, <1>2, ServerInvInit, PTL DEF Spec
-----------------------------------------------------------------------------
(* The answers.  What the index, the query cache and a search under way    *)
(* hold is claimed only of what was begun while no notification was under  *)
(* way: it stays right until a change of a document clears it.             *)

(* A list of symbols shows an open document that mentions the query, and   *)
(* of any other file something it was since caches were last cleared.      *)
Conforms(result, q) ==
    \A f \in Files :
        IF documents[f] # None /\ Matches(documents[f], q) THEN result[f] = documents[f]
        ELSE result[f] # None => result[f] \in recent[f]

(* What the variables of the search are made of.                           *)
IsFile(d) == d = [text |-> d.text, stamp |-> d.stamp, there |-> d.there]
SearchShapes ==
    /\ DOMAIN disk = Files /\ DOMAIN recent = Files /\ DOMAIN fileCache = Files
    /\ DOMAIN lines = Files
    /\ counts = [notes |-> counts.notes, writes |-> counts.writes,
                  asked |-> counts.asked, told |-> counts.told]
    /\ counts.writes \in Nat
    /\ queries \in Seq(Range(queries))
    /\ \A f \in Files : IsFile(disk[f])

(* A stamp tells texts apart: what was read under the stamp a file has now *)
(* is what the file holds now.                                             *)
StampsOK ==
    \A f \in Files :
        /\ disk[f].stamp \in 0 .. counts.writes
        /\ fileCache[f] # None =>
              /\ fileCache[f].stamp \in 0 .. counts.writes
              /\ fileCache[f].stamp = disk[f].stamp => fileCache[f].text = disk[f].text

(* What stands for a file now is recent.                                   *)
RecentOK ==
    \A f \in Files :
        IF disk[f].there THEN disk[f].text \in recent[f]
        ELSE fileCache[f] # None => fileCache[f].text \in recent[f]

(* The lines that are kept of a document are its own, but for the time     *)
(* between its change and the diagnostics.                                 *)
Rebuilt(f) == \E i \in DOMAIN tasks : tasks[i].file = f /\ tasks[i].step \in Rebuilding
LinesOK ==
    \A f \in Files :
        lines[f] # None /\ documents[f] # None /\ ~Rebuilt(f) => lines[f] = documents[f]

CachesOK ==
    /\ index # None /\ index.clean = TRUE => Conforms(index.result, <<>>)
    /\ \A e \in Range(queries) : e.clean = TRUE => Conforms(e.result, e.query)

(* A search that began while no notification was under way meets none, and *)
(* what it will not read again is recent.                                  *)
ToBeKept(f, stamp) == fileCache[f] # None /\ (stamp = None \/ fileCache[f].stamp = stamp)
ReadingOK(stamps, quiet) ==
    \A f \in Files :
        /\ stamps[f] # None => stamps[f] \in 0 .. counts.writes
        /\ f \notin files => fileCache[f] = None
        /\ quiet = TRUE /\ ToBeKept(f, stamps[f]) => fileCache[f].text \in recent[f]
SearchOK ==
    main.op = "symbols" =>
        /\ main = Search(main.query, main.quiet, main.step, main.stamps, main.result)
        /\ main.quiet = TRUE => tasks = <<>>
        /\ main.step = "read" => ReadingOK(main.stamps, main.quiet)
        /\ main.step = "put" /\ main.quiet = TRUE => Conforms(main.result, main.query)

SymbolInv == SearchShapes /\ StampsOK /\ RecentOK /\ LinesOK /\ CachesOK /\ SearchOK

(* What is not cleared stays right while `recent` grows.                   *)
LEMMA CachesKept ==
    ASSUME CachesOK, UNCHANGED <<index, queries>>, \A f \in Files : documents'[f] = documents[f],
           \A f \in Files : recent[f] \subseteq recent'[f]
    PROVE  CachesOK'
<1>1. \A r, q : Conforms(r, q) => Conforms(r, q)'
  BY DEF Conforms
<1> QED BY <1>1 DEF CachesOK

LEMMA LinesKept ==
    ASSUME LinesOK, UNCHANGED <<documents, lines, tasks>> PROVE LinesOK'
BY DEF LinesOK, Rebuilt

(* Nothing is searched, or the search goes on beside a step of another.    *)
LEMMA NoSearch == ASSUME main'.op # "symbols" PROVE SearchOK'
BY DEF SearchOK

LEMMA SearchKept ==
    ASSUME SearchOK, UNCHANGED <<main, documents, files, fileCache, tasks>>,
           \A f \in Files : recent[f] \subseteq recent'[f],
           counts.writes \in Nat, counts'.writes \in Nat, counts.writes <= counts'.writes
    PROVE  SearchOK'
<1> SUFFICES ASSUME main.op = "symbols" PROVE SearchOK'
  BY NoSearch
<1>1. \A r, q : Conforms(r, q) => Conforms(r, q)'
  BY DEF Conforms
<1>2. \A s, b : ReadingOK(s, b) => ReadingOK(s, b)'
  BY DEF ReadingOK, ToBeKept
<1> QED BY <1>1, <1>2 DEF SearchOK

(* A step of a task: a search that goes on was not begun in quiet.         *)
LEMMA SearchBesideTask ==
    ASSUME SearchOK, tasks # <<>>, UNCHANGED <<main, files, fileCache, counts>>
    PROVE  SearchOK'
<1> SUFFICES ASSUME main.op = "symbols" PROVE SearchOK'
  BY NoSearch
<1>1. main.quiet # TRUE
  BY DEF SearchOK
<1>2. main.step = "read" => ReadingOK(main.stamps, main.quiet)'
  BY <1>1 DEF SearchOK, ReadingOK
<1> QED BY <1>1, <1>2 DEF SearchOK

LEMMA CountsAreCounts ==
    ASSUME SearchShapes, NEW n, counts' = [counts EXCEPT !.writes = n]
    PROVE  counts' = [notes |-> counts'.notes, writes |-> counts'.writes,
                   asked |-> counts'.asked, told |-> counts'.told]
           /\ counts'.writes = n
BY DEF SearchShapes

(* The shapes, where only the disk has changed.                            *)
LEMMA DiskShapes ==
    ASSUME SearchShapes, UNCHANGED <<editor, fileCache, lines, queries>>, DOMAIN disk' = Files,
           DOMAIN recent' = Files, \A f \in Files : IsFile(disk'[f]),
           counts' = [notes |-> counts'.notes, writes |-> counts'.writes,
                   asked |-> counts'.asked, told |-> counts'.told],
           counts'.writes \in Nat
    PROVE  SearchShapes'
BY DEF SearchShapes, IsFile

LEMMA WithoutFile ==
    ASSUME NEW d, IsFile(d), NEW there, NEW e, e = [d EXCEPT !.there = there]
    PROVE  IsFile(e) /\ e.text = d.text /\ e.stamp = d.stamp /\ e.there = there
BY DEF IsFile

-----------------------------------------------------------------------------
(* Steps of the editor and the disk.                                       *)

LEMMA NotifyKeepsAnswers ==
    ASSUME ServerInv, SymbolInv, NEW f \in Files, NEW text, NEW task, Notify(f, text, task)
    PROVE  SymbolInv'
<1> USE DEF Notify, models, symbolCaches
<1>1. main.op # "symbols" /\ main' = main
  BY DEF Idle
<1>2. SearchOK'
  BY <1>1, NoSearch
<1>3. LinesOK'
  <2>1. tasks \in Seq(Range(tasks))
    BY DEF ServerInv, TasksOK
  <2>2. \A i \in DOMAIN tasks : i \in DOMAIN tasks' /\ tasks'[i] = tasks[i]
    BY <2>1, Appended
  <2>3. \A g \in Files : Rebuilt(g) => Rebuilt(g)'
    BY <2>2 DEF Rebuilt
  <2> QED BY <2>3 DEF SymbolInv, LinesOK
<1>4. SearchShapes'
  BY DEF SymbolInv, SearchShapes, IsFile
<1>5. StampsOK' /\ RecentOK'
  BY DEF SymbolInv, SearchShapes, StampsOK, RecentOK
<1>6. CachesOK'
  BY CachesKept DEF SymbolInv
<1> QED BY <1>2, <1>3, <1>4, <1>5, <1>6 DEF SymbolInv

LEMMA EditorKeepsAnswers ==
    ASSUME ServerInv, SymbolInv, NEW f \in Files, DidOpen(f) \/ DidChange(f) \/ DidClose(f)
    PROVE  SymbolInv'
<1>1. CASE DidOpen(f)
  BY <1>1, NotifyKeepsAnswers DEF DidOpen
<1>2. CASE DidChange(f)
  BY <1>2, NotifyKeepsAnswers DEF DidChange
<1>3. CASE DidClose(f)
  BY <1>3, NotifyKeepsAnswers DEF DidClose
<1> QED BY <1>1, <1>2, <1>3

(* A write has a stamp of its own.                                         *)
LEMMA WriteKeepsAnswers ==
    ASSUME SymbolInv, NEW f \in Files, Write(f) PROVE SymbolInv'
<1> USE DEF Write, models, symbolCaches
<1>1. PICK t \in TextsOf[f] :
          /\ disk' = [disk EXCEPT ![f] = [text |-> t, stamp |-> counts.writes + 1, there |-> TRUE]]
          /\ recent' = [recent EXCEPT ![f] = @ \cup {t}]
  OBVIOUS
<1>2. /\ counts.writes \in Nat /\ counts'.writes = counts.writes + 1
      /\ counts' = [notes |-> counts'.notes, writes |-> counts'.writes,
                   asked |-> counts'.asked, told |-> counts'.told]
  BY CountsAreCounts DEF SymbolInv, SearchShapes
<1>3. \A g \in Files : recent[g] \subseteq recent'[g]
  BY <1>1 DEF SymbolInv, SearchShapes
<1>4. SearchShapes'
  <2>1. \A g \in Files : IsFile(disk'[g])
    BY <1>1 DEF SymbolInv, SearchShapes, IsFile
  <2>2. DOMAIN disk' = Files /\ DOMAIN recent' = Files
    BY <1>1 DEF SymbolInv, SearchShapes
  <2>3. counts'.writes \in Nat
    BY <1>2
  <2> QED BY <1>2, <2>1, <2>2, <2>3, DiskShapes DEF SymbolInv
<1>5. StampsOK'
  BY <1>1, <1>2 DEF SymbolInv, SearchShapes, StampsOK
<1>6. RecentOK'
  BY <1>1 DEF SymbolInv, SearchShapes, RecentOK
<1>7. LinesOK' /\ CachesOK'
  BY <1>3, LinesKept, CachesKept DEF SymbolInv
<1>8. SearchOK'
  BY <1>2, <1>3, SearchKept DEF SymbolInv
<1> QED BY <1>4, <1>5, <1>6, <1>7, <1>8 DEF SymbolInv

(* A file that is removed stands for what was last read of it.             *)
LEMMA HeldIsRead ==
    ASSUME NEW f \in Files, fileCache[f] # None PROVE fileCache[f].text \in HeldBy(f, FALSE)
BY DEF HeldBy, Texts

LEMMA UnlinkKeepsAnswers ==
    ASSUME SymbolInv, NEW f \in Files, Unlink(f) PROVE SymbolInv'
<1> USE DEF Unlink, models, symbolCaches
<1>2. /\ counts.writes \in Nat /\ counts'.writes = counts.writes + 1
      /\ counts' = [notes |-> counts'.notes, writes |-> counts'.writes,
                   asked |-> counts'.asked, told |-> counts'.told]
  BY CountsAreCounts DEF SymbolInv, SearchShapes
<1>3. \A g \in Files : recent[g] \subseteq recent'[g]
  BY DEF SymbolInv, SearchShapes
<1>4. \A g \in Files : /\ IsFile(disk'[g])
                       /\ disk'[g].text = disk[g].text /\ disk'[g].stamp = disk[g].stamp
                       /\ g # f => disk'[g].there = disk[g].there
  <2>1. disk'[f] = [disk[f] EXCEPT !.there = FALSE] /\ \A g \in Files \ {f} : disk'[g] = disk[g]
    BY DEF SymbolInv, SearchShapes
  <2>2. \A g \in Files : IsFile(disk[g])
    BY DEF SymbolInv, SearchShapes
  <2>4. IsFile(disk'[f]) /\ disk'[f].text = disk[f].text /\ disk'[f].stamp = disk[f].stamp
    BY <2>1, <2>2, WithoutFile
  <2>5. \A g \in Files \ {f} : IsFile(disk'[g])
    BY <2>1, <2>2
  <2> QED BY <2>1, <2>4, <2>5
<1>5. SearchShapes'
  <2>1. DOMAIN disk' = Files /\ DOMAIN recent' = Files
    BY DEF SymbolInv, SearchShapes
  <2>2. counts'.writes \in Nat
    BY <1>2
  <2> QED BY <1>2, <1>4, <2>1, <2>2, DiskShapes DEF SymbolInv
<1>6. StampsOK'
  BY <1>2, <1>4 DEF SymbolInv, SearchShapes, StampsOK
<1>7. RecentOK'
  <2>1. disk'[f].there = FALSE
    BY DEF SymbolInv, SearchShapes, IsFile
  <2>2. recent'[f] = recent[f] \cup HeldBy(f, FALSE) /\ \A g \in Files \ {f} : recent'[g] = recent[g]
    BY DEF SymbolInv, SearchShapes
  <2> QED BY <1>4, <2>1, <2>2, HeldIsRead DEF SymbolInv, SearchShapes, RecentOK
<1>8. LinesOK' /\ CachesOK'
  BY <1>3, LinesKept, CachesKept DEF SymbolInv
<1>9. SearchOK'
  <2>1. counts.writes <= counts'.writes /\ counts'.writes \in Nat
    BY <1>2
  <2>2. UNCHANGED <<main, documents, files, fileCache, tasks>>
    OBVIOUS
  <2> QED BY <1>2, <1>3, <2>1, <2>2, SearchKept DEF SymbolInv
<1> QED BY <1>5, <1>6, <1>7, <1>8, <1>9 DEF SymbolInv

-----------------------------------------------------------------------------
(* Steps of a task.                                                        *)

(* Until the diagnostics a task excuses the lines of its file.             *)
LEMMA StepKeepsLines ==
    ASSUME ServerInv, LinesOK, NEW i \in DOMAIN tasks, NEW t, Step(i, t), t.file = tasks[i].file,
           t.step \in Rebuilding \/ (tasks[i].step \notin Rebuilding /\ documents' = documents),
           \A g \in Files \ {t.file} : documents'[g] = documents[g], lines' = lines
    PROVE  LinesOK'
<1>1. tasks \in Seq(Range(tasks))
  BY DEF ServerInv, TasksOK
<1>2. DOMAIN tasks' = DOMAIN tasks /\ tasks'[i] = t /\ \A k \in DOMAIN tasks \ {i} : tasks'[k] = tasks[k]
  BY <1>1, Replaced DEF Step
<1>3. CASE t.step \in Rebuilding
  <2>1. Rebuilt(t.file)'
    BY <1>2, <1>3 DEF Rebuilt
  <2>2. \A g \in Files \ {t.file} : Rebuilt(g) => Rebuilt(g)'
    BY <1>2 DEF Rebuilt
  <2> QED BY <2>1, <2>2 DEF LinesOK
<1>4. CASE tasks[i].step \notin Rebuilding /\ documents' = documents
  <2>1. \A g \in Files : Rebuilt(g) => Rebuilt(g)'
    BY <1>2, <1>4 DEF Rebuilt
  <2> QED BY <1>4, <2>1 DEF LinesOK
<1> QED BY <1>3, <1>4

LEMMA ReadTextKeepsAnswers ==
    ASSUME ServerInv, SymbolInv, NEW i \in 1 .. Threads, ReadText(i) PROVE SymbolInv'
<1> USE DEF ReadText, client, models, symbolCaches
<1>1. i \in DOMAIN tasks /\ tasks # <<>> /\ tasks[i].step = "read" /\ IsTask(tasks[i])
  BY RunningTask
<1>2. tasks[i].step \notin Rebuilding
  BY <1>1 DEF Rebuilding
<1>3. LinesOK'
  <2>1. CASE tasks' = RemoveAt(tasks, i)
    <3>1. \A j \in DOMAIN tasks \ {i} : \E k \in DOMAIN tasks' : tasks'[k] = tasks[j]
      BY <1>1, <2>1, TaskLeaves
    <3>2. \A g \in Files : Rebuilt(g) => Rebuilt(g)'
      BY <1>2, <3>1 DEF Rebuilt
    <3> QED BY <3>2 DEF SymbolInv, LinesOK
  <2>2. CASE \E text : Step(i, [tasks[i] EXCEPT !.text = text, !.step = "set"])
    <3>1. PICK text : Step(i, [tasks[i] EXCEPT !.text = text, !.step = "set"])
      BY <2>2
    <3>2. PICK t : t = [tasks[i] EXCEPT !.text = text, !.step = "set"]
      OBVIOUS
    <3>3. t.file = tasks[i].file
      BY <1>1, <3>2, WithText
    <3>4. Step(i, t) /\ lines' = lines /\ documents' = documents
      BY <3>1, <3>2
    <3> QED BY <1>1, <1>2, <3>3, <3>4, StepKeepsLines DEF SymbolInv
  <2> QED BY <2>1, <2>2
<1>4. SearchOK'
  BY <1>1, SearchBesideTask DEF SymbolInv
<1>5. CachesOK'
  BY CachesKept DEF SymbolInv
<1>6. SearchShapes' /\ StampsOK' /\ RecentOK'
  BY DEF SymbolInv, SearchShapes, IsFile, StampsOK, RecentOK
<1> QED BY <1>3, <1>4, <1>5, <1>6 DEF SymbolInv

(* Caches that are cleared start from what stands for each file now.       *)
LEMMA HeldIsRecent == ASSUME recent' = Held, UNCHANGED <<disk, fileCache>> PROVE RecentOK'
BY DEF Held, HeldBy, Texts, RecentOK

LEMMA NothingCached == ASSUME index' = None, queries' = <<>> PROVE CachesOK'
BY DEF CachesOK, Range

LEMMA SetDocumentKeepsAnswers ==
    ASSUME ServerInv, SymbolInv, NEW i \in 1 .. Threads, SetDocument(i) PROVE SymbolInv'
<1> DEFINE f == tasks[i].file
           known == tasks[i].kind # "close" \/ documents[f] # None
<1> PICK t : t = [tasks[i] EXCEPT !.step = IF known THEN "collect" ELSE "publish"]
  OBVIOUS
<1>1. i \in DOMAIN tasks /\ tasks # <<>> /\ tasks[i].step = "set" /\ IsTask(tasks[i]) /\ f \in Files
  BY RunningTask DEF SetDocument
<1>2. /\ documents' = [documents EXCEPT ![f] = tasks[i].text]
      /\ index' = IF known THEN None ELSE index
      /\ queries' = IF known THEN <<>> ELSE queries
      /\ recent' = IF known THEN Held ELSE recent
      /\ Step(i, t)
      /\ UNCHANGED <<disk, editor, counts, workspace, fileCache, files, lines, main, shown>>
  BY DEF SetDocument, NoQueries
<1>3. LinesOK'
  <2>1. t.file = f /\ t.step \in Rebuilding
    BY <1>1, Stepped DEF Rebuilding
  <2>2. \A g \in Files \ {f} : documents'[g] = documents[g]
    BY <1>2 DEF ServerInv, Shapes
  <2> QED BY <1>1, <1>2, <2>1, <2>2, StepKeepsLines DEF SymbolInv
<1>4. SearchOK'
  BY <1>1, <1>2, SearchBesideTask DEF SymbolInv
<1>5. StampsOK'
  BY <1>2 DEF SymbolInv, StampsOK
<1>6. CASE known
  <2>1. RecentOK' /\ CachesOK'
    BY <1>2, <1>6, HeldIsRecent, NothingCached
  <2>2. DOMAIN recent' = Files /\ queries' \in Seq(Range(queries'))
    <3>1. queries' = <<>> /\ DOMAIN recent' = Files
      BY <1>2, <1>6 DEF Held
    <3>2. <<>> \in Seq(Range(<<>>))
      OBVIOUS
    <3> QED BY <3>1, <3>2
  <2>3. SearchShapes'
    BY <1>2, <2>2 DEF SymbolInv, SearchShapes, IsFile
  <2> QED BY <1>3, <1>4, <1>5, <2>1, <2>3 DEF SymbolInv
<1>7. CASE ~known
  <2>1. \A g \in Files : documents'[g] = documents[g]
    BY <1>1, <1>2, <1>7 DEF IsTask, ServerInv, Shapes
  <2>2. RecentOK' /\ SearchShapes'
    BY <1>2, <1>7 DEF SymbolInv, RecentOK, SearchShapes, IsFile
  <2>3. CachesOK'
    BY <1>2, <1>7, <2>1, CachesKept DEF SymbolInv
  <2> QED BY <1>3, <1>4, <1>5, <2>2, <2>3 DEF SymbolInv
<1> QED BY <1>6, <1>7

LEMMA CollectKeepsAnswers ==
    ASSUME ServerInv, SymbolInv, NEW i \in 1 .. Threads, Collect(i) PROVE SymbolInv'
<1> USE DEF Collect, NoQueries
<1>1. i \in DOMAIN tasks /\ tasks # <<>> /\ tasks[i].step = "collect" /\ IsTask(tasks[i])
  BY RunningTask
<1>2. LinesOK'
  <2>1. PICK step \in {"publish", "store"} :
            Step(i, [tasks[i] EXCEPT !.sources = Sources, !.step = step])
    OBVIOUS
  <2>2. PICK t : t = [tasks[i] EXCEPT !.sources = Sources, !.step = step]
    OBVIOUS
  <2>3. t = [kind |-> tasks[i].kind, file |-> tasks[i].file, text |-> tasks[i].text,
             step |-> step, sources |-> Sources]
    BY <1>1, <2>2, WithSources
  <2>4. t.step = step /\ t.file = tasks[i].file
    BY <2>3
  <2>5. step \in Rebuilding
    BY <2>1 DEF Rebuilding
  <2>6. Step(i, t) /\ lines' = lines /\ documents' = documents
    BY <2>1, <2>2
  <2> QED BY <1>1, <2>4, <2>5, <2>6, StepKeepsLines DEF SymbolInv
<1>3. SearchOK'
  BY <1>1, SearchBesideTask DEF SymbolInv
<1>4. RecentOK' /\ CachesOK'
  BY HeldIsRecent, NothingCached
<1>5. StampsOK' /\ SearchShapes'
  BY DEF SymbolInv, StampsOK, SearchShapes, IsFile, Held
<1> QED BY <1>2, <1>3, <1>4, <1>5 DEF SymbolInv

LEMMA StoreKeepsAnswers ==
    ASSUME ServerInv, SymbolInv, NEW i \in 1 .. Threads, Store(i) PROVE SymbolInv'
<1> USE DEF Store, client, symbolCaches
<1>1. i \in DOMAIN tasks /\ tasks # <<>> /\ IsTask(tasks[i])
  BY RunningTask
<1>2. LinesOK'
  <2>1. PICK t : t = [tasks[i] EXCEPT !.step = "publish", !.sources = Nothing]
    OBVIOUS
  <2>2. t = [tasks[i] EXCEPT !.sources = Nothing, !.step = "publish"]
    BY <1>1, <2>1 DEF IsTask
  <2>3. t.step \in Rebuilding /\ t.file = tasks[i].file
    BY <1>1, <2>2, WithSources DEF Rebuilding
  <2>4. Step(i, t) /\ lines' = lines /\ documents' = documents
    BY <2>1
  <2> QED BY <1>1, <2>3, <2>4, StepKeepsLines DEF SymbolInv
<1>3. SearchOK'
  BY <1>1, SearchBesideTask DEF SymbolInv
<1>4. CachesOK'
  BY CachesKept DEF SymbolInv
<1>5. SearchShapes' /\ StampsOK' /\ RecentOK'
  BY DEF SymbolInv, SearchShapes, IsFile, StampsOK, RecentOK
<1> QED BY <1>2, <1>3, <1>4, <1>5 DEF SymbolInv

LEMMA PublishKeepsAnswers ==
    ASSUME ServerInv, SymbolInv, NEW i \in 1 .. Threads, Publish(i) PROVE SymbolInv'
<1> USE DEF Publish, client, models, symbolCaches
<1>1. tasks # <<>>
  BY RunningTask
<1>2. LinesOK'
  BY DEF LinesOK, Nothing
<1>3. SearchOK'
  BY <1>1, SearchBesideTask DEF SymbolInv
<1>4. CachesOK'
  BY CachesKept DEF SymbolInv
<1>5. SearchShapes' /\ StampsOK' /\ RecentOK'
  BY DEF SymbolInv, SearchShapes, IsFile, StampsOK, RecentOK, Nothing
<1> QED BY <1>2, <1>3, <1>4, <1>5 DEF SymbolInv

-----------------------------------------------------------------------------
(* Steps of the requests.                                                  *)

(* What a list adds to the lines is the text there is.                     *)
LEMMA LinesReadKept ==
    ASSUME LinesOK, NEW read, lines' = LinesRead(read), UNCHANGED <<documents, tasks>>
    PROVE  LinesOK' /\ DOMAIN lines' = Files
BY DEF LinesOK, LinesRead, LinesOf, TextFor, Rebuilt

LEMMA AskKeepsAnswers ==
    ASSUME SymbolInv, NEW m, main' = m, NEW n,
           counts' = [counts EXCEPT !.asked = n] \/ counts' = [counts EXCEPT !.told = n],
           UNCHANGED <<disk, editor, recent, models, symbolCaches, lines, tasks, shown>>,
           SearchOK'
    PROVE  SymbolInv'
<1> USE DEF models, symbolCaches
<1>1. counts'.writes = counts.writes
      /\ counts' = [notes |-> counts'.notes, writes |-> counts'.writes,
                   asked |-> counts'.asked, told |-> counts'.told]
  BY DEF SymbolInv, SearchShapes
<1>2. SearchShapes'
  BY <1>1, DiskShapes DEF SymbolInv, SearchShapes
<1>3. StampsOK' /\ RecentOK'
  BY <1>1 DEF SymbolInv, StampsOK, RecentOK
<1>4. LinesOK' /\ CachesOK'
  BY LinesKept, CachesKept DEF SymbolInv
<1> QED BY <1>2, <1>3, <1>4 DEF SymbolInv

LEMMA AskSymbolsKeepsAnswers ==
    ASSUME SymbolInv, NEW q, AskSymbols(q) PROVE SymbolInv'
<1> USE DEF AskSymbols
<1>1. PICK quiet : quiet = (tasks = <<>>) /\ main' = Search(q, quiet, "look", Nothing, Nothing)
  OBVIOUS
<1>2. SearchOK'
  <2>1. /\ main'.query = q /\ main'.quiet = quiet /\ main'.step = "look"
        /\ main'.stamps = Nothing /\ main'.result = Nothing
    BY <1>1 DEF Search
  <2>2. quiet = TRUE => tasks' = <<>>
    BY <1>1
  <2> QED BY <1>1, <2>1, <2>2 DEF SearchOK
<1> QED BY <1>2, AskKeepsAnswers

LEMMA AskAtKeepsAnswers ==
    ASSUME SymbolInv, NEW r \in Positions, NEW f \in Files, Ask(r[1], f, r[2]) PROVE SymbolInv'
<1>1. main'.op # "symbols"
  BY PositionsAssumption DEF Ask
<1>2. SearchOK'
  BY <1>1, NoSearch
<1> QED BY <1>2, AskKeepsAnswers DEF Ask

(* A request ends: only the lines and the caches of results may change.    *)
LEMMA EndKeepsAnswers ==
    ASSUME SymbolInv, main' = Idle, NEW read, lines' = LinesRead(read),
           UNCHANGED <<client, models, fileCache, files, tasks, shown>>,
           queries' \in Seq(Range(queries')), CachesOK'
    PROVE  SymbolInv'
<1> USE DEF client, models
<1>1. SearchOK'
  BY NoSearch DEF Idle
<1>2. LinesOK' /\ DOMAIN lines' = Files
  BY LinesReadKept DEF SymbolInv
<1>3. SearchShapes'
  BY <1>2 DEF SymbolInv, SearchShapes, IsFile
<1>4. StampsOK' /\ RecentOK'
  BY DEF SymbolInv, StampsOK, RecentOK
<1> QED BY <1>1, <1>2, <1>3, <1>4 DEF SymbolInv

LEMMA AnswerKeepsAnswers ==
    ASSUME SymbolInv, Answer PROVE SymbolInv'
<1> USE DEF Answer, models, symbolCaches
<1>1. CachesOK'
  BY CachesKept DEF SymbolInv, client
<1>2. queries' \in Seq(Range(queries'))
  BY DEF SymbolInv, SearchShapes
<1> QED BY <1>1, <1>2, EndKeepsAnswers DEF SymbolInv

LEMMA CompleteKeepsAnswers ==
    ASSUME SymbolInv, Complete PROVE SymbolInv'
<1> USE DEF Complete, client, models, symbolCaches
<1>1. CachesOK'
  BY CachesKept DEF SymbolInv
<1>2. SearchOK'
  BY NoSearch DEF Idle
<1>3. SearchShapes' /\ StampsOK' /\ RecentOK' /\ LinesOK'
  BY LinesKept DEF SymbolInv, SearchShapes, IsFile, StampsOK, RecentOK
<1> QED BY <1>1, <1>2, <1>3 DEF SymbolInv

LEMMA AnswerFromIndexKeepsAnswers ==
    ASSUME SymbolInv, AnswerFromIndex PROVE SymbolInv'
<1> USE DEF AnswerFromIndex, Answered, models, symbolCaches
<1>1. CachesOK'
  BY CachesKept DEF SymbolInv, client
<1>2. queries' \in Seq(Range(queries'))
  BY DEF SymbolInv, SearchShapes
<1> QED BY <1>1, <1>2, EndKeepsAnswers DEF SymbolInv

(* A sequence that holds only entries of another and one more.             *)
LEMMA MovedToEnd ==
    ASSUME NEW S, NEW s \in Seq(S), NEW i \in DOMAIN s, NEW r, r = Append(RemoveAt(s, i), s[i])
    PROVE  r \in Seq(Range(r)) /\ Range(r) \subseteq Range(s)
<1>1. SubSeq(s, 1, i - 1) \in Seq(Range(s)) /\ SubSeq(s, i + 1, Len(s)) \in Seq(Range(s))
  <2>1. s \in Seq(Range(s)) /\ i \in 1 .. Len(s) /\ Len(s) \in Nat
    BY OwnRange
  <2> QED BY <2>1, SubSeqProperties
<1>2. RemoveAt(s, i) \in Seq(Range(s))
  BY <1>1, ConcatProperties DEF RemoveAt
<1>3. s[i] \in Range(s)
  BY DEF Range
<1>4. r \in Seq(Range(s))
  BY <1>2, <1>3
<1>5. r \in Seq(Range(r)) /\ \A k \in DOMAIN r : r[k] \in Range(s)
  <2>1. r \in Seq(Range(r))
    BY <1>4, OwnRange
  <2>2. DOMAIN r = 1 .. Len(r) /\ \A k \in 1 .. Len(r) : r[k] \in Range(s)
    BY <1>4
  <2> QED BY <2>1, <2>2
<1> QED BY <1>5 DEF Range

LEMMA AnswerFromCacheKeepsAnswers ==
    ASSUME SymbolInv, AnswerFromCache PROVE SymbolInv'
<1> USE DEF client, models
<1>1. PICK i \in DOMAIN queries :
          queries' = Append(RemoveAt(queries, i), queries[i])
          /\ Answered(queries[i].result, queries[i].clean)
  BY DEF AnswerFromCache, CachedAt
<1>2. UNCHANGED <<client, models, fileCache, files, index, tasks, shown>>
  BY DEF AnswerFromCache
<1>3. queries \in Seq(Range(queries))
  BY DEF SymbolInv, SearchShapes
<1>4. queries' \in Seq(Range(queries')) /\ Range(queries') \subseteq Range(queries)
  BY <1>1, <1>3, MovedToEnd
<1>5. CachesOK'
  <2>1. \A r, q : Conforms(r, q) => Conforms(r, q)'
    BY <1>2 DEF Conforms
  <2> QED BY <1>2, <1>4, <2>1 DEF SymbolInv, CachesOK
<1> QED BY <1>1, <1>2, <1>4, <1>5, EndKeepsAnswers DEF Answered

LEMMA ScanFilesKeepsAnswers ==
    ASSUME SymbolInv, ScanFiles PROVE SymbolInv'
<1> USE DEF ScanFiles, client, models
<1> DEFINE stamps == [f \in Files |-> IF disk[f].there THEN disk[f].stamp ELSE None]
<1>1. main' = Search(main.query, main.quiet, "read", stamps, Nothing) /\ main.op = "symbols"
  BY DEF At
<1>2. \A f \in Files : fileCache'[f] = IF f \in files' THEN fileCache[f] ELSE None
  OBVIOUS
<1>3. StampsOK' /\ RecentOK'
  BY <1>2 DEF SymbolInv, StampsOK, RecentOK
<1>4. \A s, quiet : s = stamps => ReadingOK(s, quiet)'
  <2> SUFFICES ASSUME NEW s, s = stamps, NEW f \in Files
               PROVE  /\ s[f] # None => s[f] \in 0 .. counts.writes
                      /\ f \notin files' => fileCache'[f] = None
                      /\ ToBeKept(f, s[f])' => fileCache'[f].text \in recent[f]
    BY DEF ReadingOK
  <2>1. disk[f].stamp \in 0 .. counts.writes /\ disk[f].stamp # None
    BY TextsAssumption DEF SymbolInv, SearchShapes, StampsOK
  <2>2. ASSUME ToBeKept(f, s[f])' PROVE fileCache'[f].text \in recent[f]
    <3>1. fileCache'[f] = fileCache[f] /\ fileCache[f] # None
      BY <1>2, <2>2 DEF ToBeKept
    <3>2. CASE disk[f].there
      BY <2>1, <2>2, <3>1, <3>2 DEF SymbolInv, StampsOK, RecentOK, ToBeKept
    <3>3. CASE ~disk[f].there
      BY <3>1, <3>3 DEF SymbolInv, RecentOK
    <3> QED BY <3>2, <3>3
  <2> QED BY <1>2, <2>1, <2>2
<1> HIDE DEF stamps
<1>5. SearchOK'
  <2>1. /\ main'.query = main.query /\ main'.quiet = main.quiet /\ main'.step = "read"
        /\ main'.stamps = stamps /\ main'.result = Nothing
    BY <1>1 DEF Search
  <2>2. main'.quiet = TRUE => tasks' = <<>>
    BY <1>1, <2>1 DEF SymbolInv, SearchOK
  <2> QED BY <1>1, <1>4, <2>1, <2>2 DEF SearchOK
<1>6. LinesOK' /\ CachesOK'
  BY LinesKept, CachesKept DEF SymbolInv
<1>7. SearchShapes'
  BY DEF SymbolInv, SearchShapes, IsFile
<1> QED BY <1>3, <1>5, <1>6, <1>7 DEF SymbolInv

(* What a search that began in quiet has of a file when it has read them.  *)
LEMMA ReadIsRecent ==
    ASSUME SymbolInv, main.op = "symbols", main.step = "read", main.quiet = TRUE,
           NEW f \in Files, Refreshed[f] # None
    PROVE  Refreshed[f].text \in recent[f]
<1>1. ReadingOK(main.stamps, main.quiet)
  BY DEF SymbolInv, SearchOK
<1>2. CASE Readable(f) /\ ~Unchanged(f)
  <2>1. Refreshed[f].text = disk[f].text
    BY <1>2 DEF Refreshed, Snapshot
  <2> QED BY <1>2, <2>1 DEF SymbolInv, RecentOK, Readable
<1>3. CASE ~(Readable(f) /\ ~Unchanged(f))
  <2>1. Refreshed[f] = fileCache[f] /\ fileCache[f] # None
    BY <1>3 DEF Refreshed
  <2>2. CASE ~disk[f].there
    BY <2>1, <2>2 DEF SymbolInv, RecentOK
  <2>3. CASE main.stamps[f] = None \/ fileCache[f].stamp = main.stamps[f]
    BY <1>1, <2>1, <2>3 DEF ReadingOK, ToBeKept
  <2>4. f \in files
    BY <1>1, <2>1 DEF ReadingOK
  <2> QED BY <1>3, <2>1, <2>2, <2>3, <2>4 DEF Readable, Unchanged
<1> QED BY <1>2, <1>3

LEMMA ReadFilesKeepsAnswers ==
    ASSUME SymbolInv, ReadFiles PROVE SymbolInv'
<1> USE DEF ReadFiles, client, models
<1> DEFINE found == Over(Matching(documents, main.query), Matching(Texts(Refreshed), main.query))
<1>1. /\ main' = Search(main.query, main.quiet, "put", Nothing, found)
      /\ main.op = "symbols" /\ main.step = "read"
  BY DEF At
<1>2. ReadingOK(main.stamps, main.quiet)
  BY <1>1 DEF SymbolInv, SearchOK
<1>3. \A f \in Files : fileCache'[f] = fileCache[f] \/ (Readable(f) /\ fileCache'[f] = Snapshot(f))
  BY DEF Refreshed
<1>4. StampsOK'
  <2> SUFFICES ASSUME NEW f \in Files, Readable(f), fileCache'[f] = Snapshot(f)
               PROVE  /\ fileCache'[f].stamp \in 0 .. counts.writes
                      /\ fileCache'[f].stamp = disk[f].stamp => fileCache'[f].text = disk[f].text
    BY <1>3 DEF SymbolInv, StampsOK
  <2>1. fileCache'[f].stamp = main.stamps[f] /\ fileCache'[f].text = disk[f].text
    BY DEF Snapshot
  <2> QED BY <1>2, <2>1 DEF ReadingOK, Readable
<1>5. RecentOK'
  BY <1>3 DEF SymbolInv, RecentOK, Readable
<1>6. main.quiet = TRUE => \A r, q : r = found /\ q = main.query => Conforms(r, q)'
  <2> SUFFICES ASSUME main.quiet = TRUE, NEW f \in Files
               PROVE  IF documents[f] # None /\ Matches(documents[f], main.query)
                      THEN found[f] = documents[f]
                      ELSE found[f] # None => found[f] \in recent[f]
    BY DEF Conforms
  <2>1. CASE documents[f] # None /\ Matches(documents[f], main.query)
    BY <2>1 DEF Over, Matching
  <2>2. CASE ~(documents[f] # None /\ Matches(documents[f], main.query))
    <3>1. found[f] = Matching(Texts(Refreshed), main.query)[f]
      BY <2>2 DEF Over, Matching
    <3>2. found[f] # None => Refreshed[f] # None /\ found[f] = Refreshed[f].text
      BY <3>1 DEF Matching, Texts
    <3> QED BY <1>1, <2>2, <3>2, ReadIsRecent
  <2> QED BY <2>1, <2>2
<1> HIDE DEF found
<1>7. SearchOK'
  <2>1. /\ main'.query = main.query /\ main'.quiet = main.quiet /\ main'.step = "put"
        /\ main'.stamps = Nothing /\ main'.result = found
    BY <1>1 DEF Search
  <2>2. main'.quiet = TRUE => tasks' = <<>>
    BY <1>1, <2>1 DEF SymbolInv, SearchOK
  <2> QED BY <1>1, <1>6, <2>1, <2>2 DEF SearchOK
<1>8. LinesOK' /\ CachesOK'
  BY LinesKept, CachesKept DEF SymbolInv
<1>9. SearchShapes'
  BY DEF SymbolInv, SearchShapes, IsFile, Refreshed
<1> QED BY <1>4, <1>5, <1>7, <1>8, <1>9 DEF SymbolInv

(* What is put away is claimed only of a search that began in quiet.       *)
LEMMA EntryConforms ==
    ASSUME SymbolInv, At("put"), UNCHANGED <<documents, recent>>, NEW e, e = Entry, e.clean = TRUE
    PROVE  Conforms(e.result, e.query)'
<1>1. e.result = main.result /\ e.query = main.query /\ main.quiet = TRUE
  BY DEF Entry
<1>2. Conforms(main.result, main.query)
  BY <1>1 DEF SymbolInv, SearchOK, At
<1>3. Conforms(e.result, e.query)
  BY <1>1, <1>2
<1> QED BY <1>3 DEF Conforms

LEMMA AppendedRange ==
    ASSUME NEW S, NEW s \in Seq(S), NEW t, NEW r, r = Append(s, t)
    PROVE  r \in Seq(Range(r)) /\ r # <<>> /\ Range(r) \subseteq Range(s) \cup {t}
<1>1. /\ r \in Seq(Range(r)) /\ Len(r) = Len(s) + 1 /\ DOMAIN r = 1 .. Len(s) + 1
      /\ \A k \in 1 .. Len(s) : r[k] = s[k]
      /\ r[Len(s) + 1] = t
  BY Appended
<1>2. Len(s) \in Nat /\ DOMAIN s = 1 .. Len(s)
  OBVIOUS
<1>3. \A k \in DOMAIN r : k \in DOMAIN s \/ k = Len(s) + 1
  BY <1>1, <1>2
<1>4. Range(r) \subseteq Range(s) \cup {t}
  BY <1>1, <1>2, <1>3 DEF Range
<1> QED BY <1>1, <1>2, <1>4

LEMMA TailRange ==
    ASSUME NEW S, NEW s \in Seq(S), s # <<>>, NEW r, r = Tail(s)
    PROVE  r \in Seq(Range(r)) /\ Range(r) \subseteq Range(s)
<1>1. /\ r \in Seq(S) /\ Len(r) = Len(s) - 1 /\ Len(s) \in Nat
      /\ \A k \in 1 .. Len(r) : r[k] = s[k + 1]
  BY HeadTailProperties
<1>2. DOMAIN r = 1 .. Len(s) - 1 /\ DOMAIN s = 1 .. Len(s)
  BY <1>1
<1>3. \A k \in DOMAIN r : k + 1 \in DOMAIN s /\ r[k] = s[k + 1]
  BY <1>1, <1>2
<1>4. Range(r) \subseteq Range(s)
  BY <1>3 DEF Range
<1> QED BY <1>1, <1>4, OwnRange

LEMMA PutQueryKeepsAnswers ==
    ASSUME SymbolInv, PutQuery PROVE SymbolInv'
<1> USE DEF client, models
<1>1. /\ queries' = Trimmed(Append(queries, Entry)) /\ Answered(main.result, main.quiet)
      /\ UNCHANGED <<client, models, fileCache, files, index, tasks, shown>>
  BY DEF PutQuery
<1> PICK e : e = Entry
  OBVIOUS
<1> PICK more : more = Append(queries, e)
  OBVIOUS
<1>2. queries \in Seq(Range(queries))
  BY DEF SymbolInv, SearchShapes
<1>3. more \in Seq(Range(more)) /\ more # <<>> /\ Range(more) \subseteq Range(queries) \cup {e}
  BY <1>2, AppendedRange
<1>4. queries' \in Seq(Range(queries')) /\ Range(queries') \subseteq Range(queries) \cup {e}
  <2>1. queries' = more \/ queries' = Tail(more)
    BY <1>1 DEF Trimmed
  <2>2. CASE queries' = Tail(more)
    BY <1>3, <2>2, TailRange
  <2> QED BY <1>3, <2>1, <2>2
<1>5. e.clean = TRUE => Conforms(e.result, e.query)'
  BY <1>1, EntryConforms DEF PutQuery
<1>6. CachesOK'
  <2>1. \A r, q : Conforms(r, q) => Conforms(r, q)'
    BY <1>1 DEF Conforms
  <2> QED BY <1>1, <1>4, <1>5, <2>1 DEF SymbolInv, CachesOK
<1> QED BY <1>1, <1>4, <1>6, EndKeepsAnswers DEF Answered

LEMMA PutIndexKeepsAnswers ==
    ASSUME SymbolInv, PutIndex PROVE SymbolInv'
<1> USE DEF PutIndex, client, models
<1> PICK e : e = Entry
  OBVIOUS
<1>1. e.clean = TRUE => Conforms(e.result, e.query)'
  BY EntryConforms
<1>2. e.query = <<>> /\ (index' # None => index' = e)
  BY DEF Entry
<1>3. CachesOK'
  <2>1. \A r, q : Conforms(r, q) => Conforms(r, q)'
    BY DEF Conforms
  <2> QED BY <1>1, <1>2, <2>1 DEF SymbolInv, CachesOK
<1>4. queries' \in Seq(Range(queries'))
  BY DEF SymbolInv, SearchShapes
<1> QED BY <1>3, <1>4, EndKeepsAnswers DEF Answered

-----------------------------------------------------------------------------
LEMMA SymbolInvInit == Init => SymbolInv
<1> SUFFICES ASSUME Init PROVE SymbolInv
  OBVIOUS
<1> USE DEF Init, Nothing
<1>1. CachesOK /\ SearchOK /\ LinesOK
  BY DEF CachesOK, SearchOK, LinesOK, Idle, Range
<1>2. StampsOK /\ RecentOK
  BY DEF StampsOK, RecentOK
<1>3. SearchShapes
  BY DEF SearchShapes, IsFile
<1> QED BY <1>1, <1>2, <1>3 DEF SymbolInv

LEMMA SymbolInvStep == ASSUME ServerInv, SymbolInv, [Next]_vars PROVE SymbolInv'
<1>1. CASE \E f \in Files : DidOpen(f) \/ DidChange(f) \/ DidClose(f) \/ Write(f) \/ Unlink(f)
  BY <1>1, EditorKeepsAnswers, WriteKeepsAnswers, UnlinkKeepsAnswers
<1>2. CASE \E i \in 1 .. Threads : ReadText(i) \/ SetDocument(i) \/ Collect(i) \/ Store(i) \/ Publish(i)
  BY <1>2, ReadTextKeepsAnswers, SetDocumentKeepsAnswers, CollectKeepsAnswers, StoreKeepsAnswers,
     PublishKeepsAnswers
<1>3. CASE \E q \in Queries : AskSymbols(q)
  BY <1>3, AskSymbolsKeepsAnswers
<1>4. CASE AnswerFromIndex \/ AnswerFromCache \/ ScanFiles \/ ReadFiles \/ PutQuery \/ PutIndex
  BY <1>4, AnswerFromIndexKeepsAnswers, AnswerFromCacheKeepsAnswers, ScanFilesKeepsAnswers,
     ReadFilesKeepsAnswers, PutQueryKeepsAnswers, PutIndexKeepsAnswers
<1>5. CASE \E r \in Positions, f \in Files : Ask(r[1], f, r[2])
  BY <1>5, AskAtKeepsAnswers
<1>6. CASE Answer \/ Complete
  BY <1>6, AnswerKeepsAnswers, CompleteKeepsAnswers
<1>7. CASE UNCHANGED vars
  <2>1. LinesOK' /\ CachesOK' /\ SearchOK'
    BY <1>7, LinesKept, CachesKept, SearchKept DEF vars, SymbolInv, SearchShapes
  <2> QED BY <1>7, <2>1 DEF vars, SymbolInv, SearchShapes, IsFile, StampsOK, RecentOK
<1> QED BY <1>1, <1>2, <1>3, <1>4, <1>5, <1>6, <1>7 DEF Next

-----------------------------------------------------------------------------
(* What an answer shows.                                                   *)

(* The index, which has every text, serves any query.                      *)
LEMMA ResultIsCurrent ==
    ASSUME NEW result, NEW q, NEW p, Conforms(result, p), p = q \/ p = <<>>, NEW f \in Files
    PROVE  /\ Relevant(result[f], q) \in Current(f, q)
           /\ documents[f] # None /\ Matches(documents[f], q) => result[f] = documents[f]
<1>1. CASE documents[f] # None /\ Matches(documents[f], q)
  <2>1. Matches(documents[f], p)
    BY <1>1 DEF Matches
  <2>2. result[f] = documents[f]
    BY <1>1, <2>1 DEF Conforms
  <2> QED BY <1>1, <2>2 DEF Current, Relevant
<1>2. CASE ~(documents[f] # None /\ Matches(documents[f], q))
  <2>1. Current(f, q) = {None} \cup {Relevant(t, q) : t \in recent[f]}
    BY <1>2 DEF Current
  <2>2. CASE result[f] = None \/ result[f] = documents[f]
    BY <1>2, <2>1, <2>2 DEF Relevant
  <2>3. CASE result[f] \in recent[f]
    BY <1>2, <2>1, <2>3
  <2> QED BY <2>2, <2>3 DEF Conforms
<1> QED BY <1>1, <1>2

(* The items of a document are those of its text, at the columns an editor *)
(* counts.                                                                 *)
LEMMA ItemsAreCurrent ==
    ASSUME NEW result, NEW q, NEW f \in Files, documents[f] # None, result[f] = documents[f],
           LinesOf(f) = documents[f]
    PROVE  ShownOf(f, Items(result, q)) = Mentions(documents[f], q)
<1> DEFINE t == documents[f]
           symbols == OutlineOf(t)
           place(s) == PlaceOf(t, s)
<1>1. \A s : ToLsp(f, Range1(s)) = place(s)
  BY DEF ToLsp, Range1, ToEditor, CharsOf, PlaceOf
<1>2. \A i : i \in Items(result, q) /\ i[1] = f <=>
             \E n \in Found(symbols, q) : i = <<f, symbols[n].name, place(symbols[n])>>
  <2>1. ItemsOf(f, symbols, q) = {<<f, symbols[n].name, place(symbols[n])>> : n \in Found(symbols, q)}
    BY <1>1 DEF ItemsOf
  <2>2. \A i \in ItemsOf(f, symbols, q) : i \in Items(result, q) /\ i[1] = f
    BY <2>1 DEF Items
  <2>3. \A i \in Items(result, q) : \E g \in Files : i \in ItemsOf(g, OutlineOf(result[g]), q)
    BY DEF Items
  <2>4. \A g \in Files : \A i \in ItemsOf(g, OutlineOf(result[g]), q) : i[1] = g
    BY DEF ItemsOf
  <2>5. \A i \in Items(result, q) : i[1] = f => i \in ItemsOf(f, symbols, q)
    BY <2>3, <2>4
  <2> QED BY <2>1, <2>2, <2>5
<1> HIDE DEF place, symbols
<1>3. ShownOf(f, Items(result, q)) = {<<symbols[n].name, place(symbols[n])>> : n \in Found(symbols, q)}
  <2> DEFINE items == Items(result, q)
  <2>1. ASSUME NEW n \in Found(symbols, q)
        PROVE  <<symbols[n].name, place(symbols[n])>> \in ShownOf(f, items)
    <3> DEFINE it == <<f, symbols[n].name, place(symbols[n])>>
    <3>1. it \in items /\ it[1] = f
      BY <1>2
    <3>2. <<it[2], it[3]>> = <<symbols[n].name, place(symbols[n])>>
      OBVIOUS
    <3>3. <<it[2], it[3]>> \in ShownOf(f, items)
      BY <3>1, Zenon DEF ShownOf
    <3> QED BY <3>2, <3>3, Zenon
  <2>2. ASSUME NEW it \in items, it[1] = f
        PROVE  \E n \in Found(symbols, q) : <<it[2], it[3]>> = <<symbols[n].name, place(symbols[n])>>
    <3>1. PICK n \in Found(symbols, q) : it = <<f, symbols[n].name, place(symbols[n])>>
      BY <1>2, <2>2, Zenon
    <3>2. it[2] = symbols[n].name /\ it[3] = place(symbols[n])
      BY <3>1
    <3> QED BY <3>2
  <2> HIDE DEF items
  <2>3. ShownOf(f, items) \subseteq {<<symbols[n].name, place(symbols[n])>> : n \in Found(symbols, q)}
    BY <2>2, Zenon DEF ShownOf
  <2>4. {<<symbols[n].name, place(symbols[n])>> : n \in Found(symbols, q)} \subseteq ShownOf(f, items)
    BY <2>1, Zenon
  <2> QED BY <2>3, <2>4, Zenon DEF items
<1>4. Mentions(t, q) = {<<symbols[n].name, place(symbols[n])>> : n \in Found(symbols, q)}
  BY DEF Mentions, place, symbols
<1> QED BY <1>3, <1>4

(* A list that was gathered in quiet, and answers now, is current.         *)
LEMMA AnsweredIsCurrent ==
    ASSUME ServerInv, SymbolInv, tasks = <<>>, NEW result, NEW clean, Answered(result, clean),
           NEW p, Conforms(result, p), p = main.query \/ p = <<>>
    PROVE  SymbolsAreCurrent(reply')
<1>1. reply'.query = main.query /\ reply'.result = result /\ reply'.items = Items(result, main.query)
  BY DEF Answered
<1>3. \A f \in Files : documents[f] # None => LinesOf(f) = documents[f]
  BY DEF SymbolInv, LinesOK, LinesOf, TextFor, Rebuilt
<1>4. \A f \in Files :
          /\ Relevant(result[f], main.query) \in Current(f, main.query)
          /\ documents[f] # None /\ Matches(documents[f], main.query) => result[f] = documents[f]
  BY ResultIsCurrent
<1>5. \A f \in Files : documents[f] # None /\ Matches(documents[f], main.query) =>
          ShownOf(f, Items(result, main.query)) = Mentions(documents[f], main.query)
  BY <1>3, <1>4, ItemsAreCurrent
<1> QED BY <1>1, <1>4, <1>5 DEF SymbolsAreCurrent

(* The step that answers a search.                                         *)
AnswersNow == main.op = "symbols" /\ main' = Idle /\ tasks = <<>> /\ reply'.clean

LEMMA SearchIsAnswered ==
    ASSUME [Next]_vars, main.op = "symbols", main' = Idle
    PROVE  AnswerFromIndex \/ AnswerFromCache \/ PutQuery \/ PutIndex
<1>1. main.op # "idle" /\ main' # main /\ main # Idle
  BY DEF Idle
<1>2. \A f \in Files : ~(DidOpen(f) \/ DidChange(f) \/ DidClose(f) \/ Write(f) \/ Unlink(f))
  BY <1>1 DEF DidOpen, DidChange, DidClose, Notify, Write, Unlink
<1>3. \A i \in 1 .. Threads : ~(ReadText(i) \/ SetDocument(i) \/ Collect(i) \/ Store(i) \/ Publish(i))
  BY <1>1 DEF ReadText, SetDocument, Collect, Store, Publish
<1>4. ~(ScanFiles \/ ReadFiles)
  BY DEF ScanFiles, ReadFiles, Search, Idle
<1>5. ~(Answer \/ Complete)
  BY DEF Answer, Complete
<1>6. /\ \A q \in Queries : ~AskSymbols(q)
      /\ \A r \in Positions, f \in Files : ~Ask(r[1], f, r[2])
      /\ ~UNCHANGED vars
  BY <1>1 DEF AskSymbols, Ask, vars
<1> QED BY <1>2, <1>3, <1>4, <1>5, <1>6 DEF Next

LEMMA SearchAnswersCurrently ==
    ASSUME ServerInv, SymbolInv, [Next]_vars, AnswersNow PROVE SymbolsAreCurrent(reply')
<1> USE DEF AnswersNow
<1>1. CASE AnswerFromIndex
  <2>1. Answered(index.result, index.clean) /\ index # None
    BY <1>1 DEF AnswerFromIndex
  <2>2. Conforms(index.result, <<>>)
    BY <2>1 DEF SymbolInv, CachesOK, Answered
  <2> QED BY <2>1, <2>2, AnsweredIsCurrent
<1>2. CASE AnswerFromCache
  <2>1. PICK i \in DOMAIN queries :
            queries[i].query = main.query /\ Answered(queries[i].result, queries[i].clean)
    BY <1>2 DEF AnswerFromCache, CachedAt
  <2>2. queries[i] \in Range(queries) /\ queries[i].clean
    BY <2>1 DEF Answered, Range
  <2>3. Conforms(queries[i].result, main.query)
    BY <2>1, <2>2 DEF SymbolInv, CachesOK
  <2> QED BY <2>1, <2>3, AnsweredIsCurrent
<1>3. CASE PutQuery \/ PutIndex
  <2>1. Answered(main.result, main.quiet) /\ main.step = "put"
    BY <1>3 DEF PutQuery, PutIndex, At
  <2>2. Conforms(main.result, main.query)
    BY <2>1 DEF SymbolInv, SearchOK, Answered
  <2> QED BY <2>1, <2>2, AnsweredIsCurrent
<1> QED BY <1>1, <1>2, <1>3, SearchIsAnswered

(* A list of symbols gathered while no notification was under way shows a  *)
(* document that mentions the query as its text is, columns included, and  *)
(* of any other file what it was since the last change of a document,      *)
(* however notifications overlapped before and files are written meanwhile. *)
THEOREM AnswersAreCurrentHolds == Spec => AnswersAreCurrent
<1>1. Init => ServerInv /\ SymbolInv
  BY ServerInvInit, SymbolInvInit
<1>2. ServerInv /\ SymbolInv /\ [Next]_vars => (ServerInv /\ SymbolInv)'
  BY ServerInvStep, SymbolInvStep
<1>3. ServerInv /\ SymbolInv /\ [Next]_vars =>
          [(main.op = "symbols" /\ main' = Idle /\ tasks = <<>> /\ reply'.clean) => SymbolsAreCurrent(reply')]_vars
  BY SearchAnswersCurrently DEF AnswersNow
<1>4. Spec => [](ServerInv /\ SymbolInv)
  BY <1>1, <1>2, PTL DEF Spec
<1>5. Spec => [][(main.op = "symbols" /\ main' = Idle /\ tasks = <<>> /\ reply'.clean) => SymbolsAreCurrent(reply')]_vars
  BY <1>3, <1>4, PTL DEF Spec
<1> QED BY <1>5 DEF AnswersAreCurrent
===============================================================================
