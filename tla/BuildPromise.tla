---------------------------- MODULE BuildPromise ----------------------------
(***************************************************************************)
(* What a navigation build promises whoever asks for the registry, as if   *)
(* there were no shards on disk: a finished build holds, for every unit of *)
(* its project, the outline of a text the unit had since the build began,  *)
(* under the project's own defines; a build fails only because a unit was  *)
(* missing; a registry is never touched by anything else.                  *)
(***************************************************************************)
CONSTANTS Builders, Files, Texts, Gone, None, Defines

VARIABLES
    disk,     \* the text of each source file, Gone when it is deleted
    seen,     \* per running build, the texts each file has had; None: no build
    registry  \* the symbols of the last build: an outline per file

promise == <<disk, seen, registry>>

Init ==
    /\ disk \in [Files -> Texts]
    /\ seen = [b \in Builders |-> None]
    /\ registry = [b \in Builders |-> None]

Edit(f, t) ==
    /\ disk' = [disk EXCEPT ![f] = t]
    /\ seen' = [b \in Builders |->
                   IF seen[b] = None THEN None ELSE [seen[b] EXCEPT ![f] = @ \cup {t}]]
    /\ UNCHANGED registry

Begin(b) ==
    /\ seen[b] = None
    /\ seen' = [seen EXCEPT ![b] = [f \in Files |-> {disk[f]}]]
    /\ UNCHANGED <<disk, registry>>

Finish(b) ==
    /\ seen[b] # None
    /\ \E t \in [Files -> Texts] :
          /\ \A f \in Files : t[f] \in seen[b][f]
          /\ registry' = [registry EXCEPT ![b] =
                              [f \in Files |-> [text |-> t[f], defines |-> Defines[b]]]]
    /\ seen' = [seen EXCEPT ![b] = None]
    /\ UNCHANGED disk

Fail(b) ==
    /\ seen[b] # None
    /\ \E f \in Files : Gone \in seen[b][f]
    /\ seen' = [seen EXCEPT ![b] = None]
    /\ UNCHANGED <<disk, registry>>

(* The process ends and takes its registry with it.                        *)
Crash(b) ==
    /\ seen' = [seen EXCEPT ![b] = None]
    /\ registry' = [registry EXCEPT ![b] = None]
    /\ UNCHANGED disk

Next ==
    \/ \E f \in Files, t \in Texts \cup {Gone} : Edit(f, t)
    \/ \E b \in Builders : Begin(b) \/ Finish(b) \/ Fail(b) \/ Crash(b)

Spec == Init /\ [][Next]_promise
=============================================================================
