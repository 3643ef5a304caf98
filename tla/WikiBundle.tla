------------------------------ MODULE WikiBundle ------------------------------
(***************************************************************************)
(* The installation of a finished wiki at its place                        *)
(* (export_okf_wiki and _install_completed_bundle of                       *)
(* src/delphi_lsp/agent_wiki.py), by exporters that may run at once, fail  *)
(* at any operation, or crash.  A directory is what it holds: "none",      *)
(* "empty", "old" for what was there, the name of the exporter whose whole *)
(* bundle it is, or "part" of one.                                         *)
(***************************************************************************)
EXTENDS Integers, FiniteSets

CONSTANTS Exporters, MaxFailures

\* the bundle of an exporter is neither nothing, nor what was there, nor a part
ASSUME ExporterAssumption == Exporters \cap {"none", "empty", "old", "part"} = {}
ASSUME FailureAssumption == MaxFailures \in Nat

VARIABLES output, temporary, backup,  \* the place, and what each exporter has beside it
          export                      \* what each exporter does

bundleVars == <<output, temporary, backup, export>>

BundleInit ==
    /\ output \in {"none", "empty", "old"}
    /\ temporary = [e \in Exporters |-> "none"] /\ backup = [e \in Exporters |-> "none"]
    /\ \E force \in [Exporters -> BOOLEAN] :
           export = [e \in Exporters |-> [pc |-> "begin", force |-> force[e], failures |-> 0,
                                      taken |-> 0]]

Turns(e, pc) == export' = [export EXCEPT ![e].pc = pc]
\* a rename fails since another exporter has put something there
FindsTaken(e, pc) == export' = [export EXCEPT ![e].pc = pc, ![e].taken = @ + 1]
IsTaken(e) == output \notin {"none", "empty"} /\ ~export[e].force
\* _validate_paths, then the index and mkdtemp
Validate(e) ==
    /\ export[e].pc = "begin" /\ UNCHANGED <<output, backup>>
    /\ \/ IsTaken(e) /\ Turns(e, "refused") /\ UNCHANGED temporary
       \/ ~IsTaken(e) /\ Turns(e, "write") /\ temporary' = [temporary EXCEPT ![e] = "part"]
WriteBundle(e) == /\ export[e].pc = "write" /\ Turns(e, "install")
            /\ temporary' = [temporary EXCEPT ![e] = e] /\ UNCHANGED <<output, backup>>
\* os.replace moves a directory over nothing or over an empty one
MayReplace == output \in {"none", "empty"}
\* _install_completed_bundle: the state of the place, asked for step by step
LookAt(e) ==
    /\ export[e].pc = "install" /\ UNCHANGED <<output, temporary, backup>>
    /\ Turns(e, IF output = "none" THEN "put" ELSE IF IsTaken(e) THEN "failing" ELSE "set aside")
SetAside(e) ==
    /\ export[e].pc = "set aside"
    /\ IF output = "none" THEN Turns(e, "failing") /\ UNCHANGED <<output, backup>>
       ELSE backup' = [backup EXCEPT ![e] = output] /\ output' = "none" /\ Turns(e, "replace")
    /\ UNCHANGED temporary
PutAt(e, ok, fails) ==
    /\ IF MayReplace THEN output' = temporary[e] /\ temporary' = [temporary EXCEPT ![e] = "none"] /\ Turns(e, ok)
       ELSE UNCHANGED <<output, temporary>> /\ FindsTaken(e, fails)
    /\ UNCHANGED backup
PutNew(e) == export[e].pc = "put" /\ PutAt(e, "done", "failing")
Replace(e) == export[e].pc = "replace" /\ PutAt(e, "clean", "restore")
\* Mutant: the old bundle is not put back
LeaveBackup(e) == UNCHANGED <<output, backup>> /\ Turns(e, "failing")
PutBack(e) == IF MayReplace
              THEN output' = backup[e] /\ backup' = [backup EXCEPT ![e] = "none"] /\ Turns(e, "failing")
              ELSE UNCHANGED <<output, backup>> /\ FindsTaken(e, "failing")
Restore(e) == export[e].pc = "restore" /\ PutBack(e) /\ UNCHANGED temporary
DropBackup(e) == /\ export[e].pc = "clean" /\ Turns(e, "done")
                 /\ backup' = [backup EXCEPT ![e] = "none"] /\ UNCHANGED <<output, temporary>>
\* the handler around it all removes what was written
CleanUp(e) == /\ export[e].pc = "failing" /\ Turns(e, "failed")
              /\ temporary' = [temporary EXCEPT ![e] = "none"] /\ UNCHANGED <<output, backup>>

\* an operation fails: writing, looking, one of the renames, or the removal of the
\* backup half way
ExportFails(e) ==
    /\ export[e].failures < MaxFailures
    /\ export[e].pc \in {"write", "install", "set aside", "put", "replace", "restore", "clean"}
    /\ export' = [export EXCEPT ![e].failures = @ + 1,
                                ![e].pc = IF @ = "replace" THEN "restore" ELSE "failing"]
    /\ backup' = IF export[e].pc = "clean" THEN [backup EXCEPT ![e] = "part"] ELSE backup
    /\ UNCHANGED <<output, temporary>>
ExporterCrashes(e) == /\ export[e].pc \notin {"begin", "refused", "done", "failed", "crashed"}
            /\ Turns(e, "crashed") /\ UNCHANGED <<output, temporary, backup>>

BundleNext == \E e \in Exporters :
    \/ Validate(e) \/ WriteBundle(e) \/ LookAt(e) \/ SetAside(e) \/ PutNew(e) \/ Replace(e)
    \/ Restore(e) \/ DropBackup(e) \/ CleanUp(e) \/ ExportFails(e) \/ ExporterCrashes(e)

BundleSpec == BundleInit /\ [][BundleNext]_bundleVars

(***************************************************************************)
(* Properties                                                              *)
(***************************************************************************)
Wikis == {"old"} \cup Exporters
\* Nobody ever finds a part of a bundle at the place of the wiki
PlaceIsWhole == output # "part"
\* An exporter that is over has put back what it set aside, unless it failed twice
\* or found the place taken, or it is the removal of what was set aside that failed
FailsTwice(e) == export[e].failures + export[e].taken >= 2
GivesBack(e) ==
    export[e].pc \in {"done", "failed"} /\ backup[e] # "none" => backup[e] = "part" \/ FailsTwice(e)
\* A wiki is at its place, or set aside by an exporter that is between its renames,
\* crashed, or could not put it back
Holds(e) == /\ backup[e] \in Wikis
            /\ \/ export[e].pc \in {"replace", "restore", "crashed"}
               \/ export[e].pc \in {"failing", "failed"} /\ FailsTwice(e)
WikiIsKept == output \in Wikis \/ \E e \in Exporters : Holds(e)
\* The wiki is replaced as a whole or not at all, whatever other exporters do
\* meanwhile: its place never holds a part of one; once there is a wiki, or one is
\* done, one is kept; and an exporter that fails gives back what it set aside
\* (_install_completed_bundle)
BundleIsNeverTorn ==
    /\ []PlaceIsWhole /\ [](\A e \in Exporters : GivesBack(e))
    /\ [](WikiIsKept \/ \A e \in Exporters : export[e].pc # "done")
    /\ [][WikiIsKept => WikiIsKept']_bundleVars
================================================================================
