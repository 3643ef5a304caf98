---------------------------- MODULE MCAgentSupport ----------------------------
(***************************************************************************)
(* Four scenes around the navigator, each from its own initial states: a   *)
(* session of the plugin with its workers, the installation of the plugin, *)
(* the installation of a wiki by three exporters, and the worker given every *)
(* short input.                                                            *)
(***************************************************************************)
EXTENDS WorkerSession, OpencodeInstall, WikiBundle

VARIABLES stream  \* what the worker of the last scene is given

allVars == <<vars, installVars, bundleVars, stream>>

\* the other scenes stand still
NoSession == /\ session = "closed"
             /\ plugin = [clients |-> <<>>, workers |-> [r \in Roots |-> 0],
                          compaction |-> NoCompaction, calls |-> [c \in Calls |-> NotMade]]
NoInstall == /\ disk = [f \in Files |-> "none"] /\ staged = {}
             /\ installation = [pc |-> "refused", what |-> "skill", force |-> FALSE, stuck |-> {},
                                steps |-> <<>>, before |-> disk, faults |-> 0]
NoBundle == /\ output = "none" /\ temporary = [e \in Exporters |-> "none"] /\ backup = temporary
            /\ export = [e \in Exporters |-> [pc |-> "refused", force |-> FALSE, failures |-> 0,
                                       taken |-> 0]]
Streams == UNION {[1 .. n -> {"x", LF, CR}] : n \in 1 .. 7}

SupportInit ==
    \/ Init /\ NoInstall /\ NoBundle /\ stream = <<>>
    \/ NoSession /\ InstallInit /\ NoBundle /\ stream = <<>>
    \/ NoSession /\ NoInstall /\ BundleInit /\ stream = <<>>
    \/ NoSession /\ NoInstall /\ NoBundle /\ stream \in Streams
SupportNext ==
    \/ Next /\ UNCHANGED <<installVars, bundleVars, stream>>
    \/ InstallNext /\ UNCHANGED <<vars, bundleVars, stream>>
    \/ BundleNext /\ UNCHANGED <<vars, installVars, stream>>
SupportSpec == SupportInit /\ [][SupportNext]_allVars /\ Fairness

\* Of every input the worker answers just its lines, in order: what fits with
\* either line ending is a request, what is longer is refused once, and a blank
\* line is passed over (_serve_worker)
RecordsAreFramed == Answers(stream) = Promised(stream)

MCRoots == {"app", "lib"}
MCCalls == {"open", "point", "long", "mark"}
MCCall == [c \in MCCalls |->
              CASE c = "open" -> [root |-> "app", focus |-> FALSE, length |-> 1]
                [] c = "point" -> [root |-> "app", focus |-> TRUE, length |-> 2]
                [] c = "long" -> [root |-> "app", focus |-> FALSE, length |-> 4]
                [] c = "mark" -> [root |-> "lib", focus |-> TRUE, length |-> 1]]
MCHosts == {{"open", "long"}, {"point", "mark"}}

DiskOf(skill, rest, agent, tool, legacy) ==
    [f \in Files |-> CASE f = "skill" -> skill [] f = "plugin" -> rest [] f = "agent" -> agent
                       [] f = "legacy tool" -> tool [] f = "legacy skill" -> legacy]
MCDisks == {DiskOf(s, p, a, t, l) : s \in {"none", "ours", "other"}, p \in {"none", "other", "link"},
                                    a \in {"none", "ours", "other"}, t \in {"none", "known", "directory"},
                                    l \in {"none", "known", "other"}}
================================================================================
