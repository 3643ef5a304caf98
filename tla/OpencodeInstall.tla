--------------------------- MODULE OpencodeInstall ---------------------------
(***************************************************************************)
(* The installation of the skill, the plugin and the agent                 *)
(* (install_skill and install_opencode_support of                          *)
(* src/delphi_lsp/agent_templates.py), with files that cannot be written,  *)
(* failures that pass, and a crash.  A file is what it holds: "none",      *)
(* "ours" for what would be written, "other" for anything else; of a       *)
(* legacy file "known" if it is recognised.  "link" and "directory" are    *)
(* places no file may be put.                                              *)
(***************************************************************************)
EXTENDS Integers, Sequences

CONSTANTS Disks, MaxFaults  \* the disks it may find; how many operations fail by chance

VARIABLES disk, staged,  \* the files, and those with a staging file left beside them
          installation

Files == {"skill", "plugin", "agent", "legacy tool", "legacy skill"}
Held == {"none", "ours", "known", "other", "link", "directory"}

ASSUME InstallAssumption == Disks \subseteq [Files -> Held] /\ MaxFaults \in Nat

installVars == <<disk, staged, installation>>

\* the preflights, in their order; all of them come before the first change
IsLegacy(f) == f \in {"legacy tool", "legacy skill"}
Refuses(f, force) ==
    \/ disk[f] \in {"link", "directory"}
    \/ disk[f] = "other" /\ ~force
Checked(what) == IF what = "skill" THEN {"legacy skill", "skill"} ELSE Files
Writes(what, f) == IF what = "skill" THEN f = "skill" ELSE disk[f] # "ours"
Removes(what, f) == disk[f] # "none" /\ (what = "skill" => f = "legacy skill")
Step(op, file) == [op |-> op, file |-> file]
PutFile(f) == <<Step("stage", f), Step("replace", f)>>
PutIf(f, needed) == IF needed THEN PutFile(f) ELSE <<>>
RemoveIf(f, needed) == IF needed THEN <<Step("remove", f)>> ELSE <<>>
Steps(what) ==
    PutIf("skill", Writes(what, "skill"))
        \o PutIf("plugin", Writes(what, "plugin")) \o PutIf("agent", Writes(what, "agent"))
        \o RemoveIf("legacy tool", Removes(what, "legacy tool"))
        \o RemoveIf("legacy skill", Removes(what, "legacy skill"))

\* Mutant: what was not there before is left as it is now
UndoWrites(before, f) == PutIf(f, before[f] # "none")
\* what is done for one file when the installation is undone
Undo(before, f) == IF before[f] # "none" THEN PutFile(f) ELSE RemoveIf(f, disk[f] # "none")
Undoing(before) ==
    Undo(before, "agent") \o Undo(before, "plugin") \o Undo(before, "skill")
        \o Undo(before, "legacy skill") \o Undo(before, "legacy tool")

InstallInit ==
    \E d \in Disks, what \in {"skill", "support"}, force \in BOOLEAN, stuck \in SUBSET {"skill", "agent"} :
        /\ disk = d /\ staged = {}
        /\ installation = [pc |-> "begin", what |-> what, force |-> force, stuck |-> stuck, steps |-> <<>>,
                           before |-> d, faults |-> 0]
Goes(pc, steps) == installation' = [installation EXCEPT !.pc = pc, !.steps = steps]

Begin ==
    /\ installation.pc = "begin" /\ UNCHANGED <<disk, staged>>
    /\ IF \E f \in Checked(installation.what) : Refuses(f, installation.force)
       THEN Goes("refused", <<>>) ELSE Goes("install", Steps(installation.what))

Working == installation.pc \in {"install", "undo"}
Content(f) == IF installation.pc = "undo" THEN installation.before[f] ELSE "ours"
Do(step) ==
    CASE step.op = "stage" -> staged' = staged \cup {step.file} /\ UNCHANGED disk
      [] step.op = "replace" -> /\ disk' = [disk EXCEPT ![step.file] = Content(step.file)]
                                /\ staged' = staged \ {step.file}
      [] step.op = "remove" -> disk' = [disk EXCEPT ![step.file] = "none"] /\ UNCHANGED staged
Proceed == /\ Working /\ installation.steps # <<>>
           /\ Head(installation.steps).op = "replace" => Head(installation.steps).file \notin installation.stuck
           /\ Do(Head(installation.steps))
           /\ Goes(installation.pc, Tail(installation.steps))

\* an operation fails, or an interrupt arrives; the staging file is removed.
\* Nothing is undone when only the skill is installed, and a failure while
\* undoing ends it, with what had still to be undone
RollsBack == installation.pc = "install" /\ installation.what = "support"
InstallFails ==
    /\ Working /\ installation.steps # <<>>
    /\ LET step == Head(installation.steps)
           isStuck == step.op = "replace" /\ step.file \in installation.stuck
       IN /\ isStuck \/ installation.faults < MaxFaults
          /\ staged' = staged \ {step.file} /\ UNCHANGED disk
          /\ installation' =
                [installation EXCEPT !.faults = @ + (IF isStuck THEN 0 ELSE 1),
                    !.pc = IF RollsBack THEN "undo" ELSE IF @ = "undo" THEN "half undone" ELSE "failed",
                    !.steps = IF RollsBack THEN Undoing(installation.before) ELSE @]
Finish == /\ Working /\ installation.steps = <<>> /\ UNCHANGED <<disk, staged>>
          /\ Goes(IF installation.pc = "install" THEN "installed" ELSE "undone", <<>>)
InstallCrashes == Working /\ Goes("crashed", <<>>) /\ UNCHANGED <<disk, staged>>

InstallNext == Begin \/ Proceed \/ InstallFails \/ Finish \/ InstallCrashes
InstallSpec == InstallInit /\ [][InstallNext]_installVars

(***************************************************************************)
(* Properties                                                              *)
(***************************************************************************)
StepLeft(f) == \E k \in DOMAIN installation.steps : installation.steps[k].file = f
\* An installation that is refused, or fails and is undone, leaves every file as it
\* was; one that succeeds leaves what is wanted and no legacy file.  A failure of the
\* whole support is always undone; if undoing fails in turn, it stops there, and
\* every file before the one it stopped at is as it was.  Nothing is undone when
\* the skill alone is installed: a failure leaves at most the new skill beside the
\* legacy one, which is still there.  A crash apart, no staging file is left, and even
\* a crash leaves whole files (install_skill, install_opencode_support, _write_bytes_atomic)
InstallIsAllOrNothing ==
    LET pc == installation.pc IN
    /\ pc \in {"refused", "undone"} => disk = installation.before
    /\ pc = "installed" =>
          \A f \in Checked(installation.what) : disk[f] = IF IsLegacy(f) THEN "none" ELSE "ours"
    /\ pc = "half undone" => \A f \in Files : StepLeft(f) \/ disk[f] = installation.before[f]
    /\ pc = "failed" => /\ installation.what = "skill"
                        /\ \A f \in Files \ {"skill"} : disk[f] = installation.before[f]
    /\ pc \notin {"install", "undo", "crashed"} => staged = {}
    /\ \A f \in Files : disk[f] \in {installation.before[f], IF IsLegacy(f) THEN "none" ELSE "ours"}

================================================================================
