-------------------------- MODULE InstallationProofs --------------------------
(***************************************************************************)
(* What TLAPS proves of the two installations.  Of a wiki: for any number  *)
(* of exporters and failures nobody ever finds a part of a bundle, no      *)
(* finished wiki is lost, and who fails gives back what it set aside.      *)
(* Of the support files: whatever the disk holds and however often an      *)
(* operation fails, all of them are installed or none is.                  *)
(***************************************************************************)
EXTENDS WikiBundle, OpencodeInstall, SequenceTheorems, TLAPS

USE ExporterAssumption

(***************************************************************************)
(* The wiki                                                                *)
(***************************************************************************)

PcOf(e) == export[e].pc
FailuresOf(e) == export[e].failures
TakenOf(e) == export[e].taken

PCs == {"begin", "refused", "write", "install", "set aside", "put", "replace", "restore",
        "clean", "failing", "failed", "done", "crashed"}
Whole == {"empty", "old"} \cup Exporters  \* what a directory may hold but parts

BundleTypeOK ==
    /\ export \in [Exporters -> [pc : PCs, force : BOOLEAN, failures : Nat, taken : Nat]]
    /\ output \in Whole \cup {"none"}
    /\ temporary \in [Exporters -> {"none", "part"} \cup Exporters]
    /\ backup \in [Exporters -> Whole \cup {"none", "part"}]

(* What is true of one exporter: a bundle that is to be installed is       *)
(* complete; who has set nothing aside has no backup; what was set aside   *)
(* is whole while it may be put back; and is kept after two failures only. *)
AsideAt(e, pc, n, t, aside, beside) ==
    /\ pc \in {"install", "set aside", "put", "replace"} => beside = e
    /\ pc \in {"begin", "refused", "write", "install", "set aside", "put", "done"} => aside = "none"
    /\ pc \in {"replace", "restore"} => aside \in Whole
    /\ pc = "restore" => n + t >= 1
    /\ pc \in {"failing", "failed"} => aside \in {"none", "part"} \/ n + t >= 2
AsideOK(e) == AsideAt(e, PcOf(e), FailuresOf(e), TakenOf(e), backup[e], temporary[e])

(* The new bundle of an exporter that cleans up after it, or is done, is   *)
(* at the place or kept by another.                                        *)
PlacedOK == \A e \in Exporters : PcOf(e) \in {"clean", "done"} => WikiIsKept

BundleInv == BundleTypeOK /\ PlacedOK /\ \A e \in Exporters : AsideOK(e)

HoldsAt(pc, n, t, aside) ==
    /\ aside \in Wikis
    /\ pc \in {"replace", "restore", "crashed"} \/ (pc \in {"failing", "failed"} /\ n + t >= 2)

-----------------------------------------------------------------------------
(* What a step of an exporter changes: where it is, how often it has       *)
(* failed and found the place taken, the place, and what the exporter has  *)
(* set aside and beside it.                                                *)
Moves(e, pc, n, t, place, aside, beside) ==
    /\ export' = [export EXCEPT ![e] = [pc |-> pc, force |-> export[e].force, failures |-> n,
                                       taken |-> t]]
    /\ output' = place
    /\ backup' = [backup EXCEPT ![e] = aside]
    /\ temporary' = [temporary EXCEPT ![e] = beside]
Change(e, pc, n, t, place, aside, beside) ==
    /\ PcOf(e)' = pc /\ FailuresOf(e)' = n /\ TakenOf(e)' = t
    /\ output' = place /\ backup'[e] = aside /\ temporary'[e] = beside
    /\ \A x \in Exporters \ {e} :
          /\ PcOf(x)' = PcOf(x) /\ FailuresOf(x)' = FailuresOf(x) /\ TakenOf(x)' = TakenOf(x)
          /\ backup'[x] = backup[x] /\ temporary'[x] = temporary[x]

LEMMA Put ==
    ASSUME NEW S, NEW f \in [Exporters -> S], NEW e \in Exporters, NEW v \in S,
           NEW g, g = [f EXCEPT ![e] = v]
    PROVE  /\ g \in [Exporters -> S] /\ g[e] = v
           /\ \A x \in Exporters \ {e} : g[x] = f[x]
OBVIOUS

(* A step that keeps the kinds of what it touches keeps them all.          *)
LEMMA MovesFacts ==
    ASSUME BundleTypeOK, NEW e \in Exporters, NEW pc \in PCs, NEW n \in Nat, NEW t \in Nat,
           NEW place \in Whole \cup {"none"}, NEW aside \in Whole \cup {"none", "part"},
           NEW beside \in {"none", "part"} \cup Exporters,
           Moves(e, pc, n, t, place, aside, beside)
    PROVE  BundleTypeOK' /\ Change(e, pc, n, t, place, aside, beside)
<1> DEFINE K == [pc : PCs, force : BOOLEAN, failures : Nat, taken : Nat]
           k == [pc |-> pc, force |-> export[e].force, failures |-> n, taken |-> t]
<1>1. k \in K
  BY DEF BundleTypeOK
<1>2. /\ export' \in [Exporters -> K] /\ export'[e] = k
      /\ \A x \in Exporters \ {e} : export'[x] = export[x]
  BY <1>1 DEF Moves, BundleTypeOK
<1>3. /\ backup' \in [Exporters -> Whole \cup {"none", "part"}] /\ backup'[e] = aside
      /\ \A x \in Exporters \ {e} : backup'[x] = backup[x]
  <2> DEFINE S == Whole \cup {"none", "part"}
  <2>1. backup \in [Exporters -> S] /\ backup' = [backup EXCEPT ![e] = aside]
    BY DEF Moves, BundleTypeOK
  <2> HIDE DEF S
  <2>2. aside \in S
    BY DEF S
  <2>3. QED BY <2>1, <2>2, Put DEF S
<1>4. /\ temporary' \in [Exporters -> {"none", "part"} \cup Exporters] /\ temporary'[e] = beside
      /\ \A x \in Exporters \ {e} : temporary'[x] = temporary[x]
  <2> DEFINE S == {"none", "part"} \cup Exporters
  <2>1. temporary \in [Exporters -> S] /\ temporary' = [temporary EXCEPT ![e] = beside]
    BY DEF Moves, BundleTypeOK
  <2>2. beside \in S
    OBVIOUS
  <2> HIDE DEF S
  <2>3. QED BY <2>1, <2>2, Put DEF S
<1>5. BundleTypeOK'
  <2>1. output' \in Whole \cup {"none"}
    BY DEF Moves
  <2> QED BY <1>2, <1>3, <1>4, <2>1 DEF BundleTypeOK, Whole
<1>6. k.pc = pc /\ k.failures = n /\ k.taken = t
  OBVIOUS
<1> HIDE DEF k
<1> QED BY <1>2, <1>3, <1>4, <1>5, <1>6 DEF Moves, Change, PcOf, FailuresOf, TakenOf

LEMMA TurnsFacts ==
    ASSUME BundleTypeOK, NEW e \in Exporters, NEW pc \in PCs, Turns(e, pc)
    PROVE  export' = [export EXCEPT ![e] = [pc |-> pc, force |-> export[e].force,
                                            failures |-> FailuresOf(e), taken |-> TakenOf(e)]]
<1> DEFINE r == export[e]
<1>1. r = [pc |-> PcOf(e), force |-> r.force, failures |-> FailuresOf(e), taken |-> TakenOf(e)]
  BY DEF BundleTypeOK, PcOf, FailuresOf, TakenOf
<1>2. export' = [export EXCEPT ![e] = [r EXCEPT !.pc = pc]]
  BY DEF Turns, BundleTypeOK
<1> HIDE DEF r
<1>3. [r EXCEPT !.pc = pc]
         = [pc |-> pc, force |-> r.force, failures |-> FailuresOf(e), taken |-> TakenOf(e)]
  BY <1>1
<1> QED BY <1>2, <1>3 DEF r

LEMMA FindsTakenFacts ==
    ASSUME BundleTypeOK, NEW e \in Exporters, NEW pc \in PCs, FindsTaken(e, pc)
    PROVE  export' = [export EXCEPT ![e] = [pc |-> pc, force |-> export[e].force,
                                            failures |-> FailuresOf(e), taken |-> TakenOf(e) + 1]]
<1> DEFINE r == export[e]
           s == [r EXCEPT !.pc = pc]
<1>1. r = [pc |-> PcOf(e), force |-> r.force, failures |-> FailuresOf(e), taken |-> TakenOf(e)]
  BY DEF BundleTypeOK, PcOf, FailuresOf, TakenOf
<1>2. export' = [export EXCEPT ![e] = [s EXCEPT !.taken = TakenOf(e) + 1]]
  BY DEF FindsTaken, BundleTypeOK, TakenOf
<1> HIDE DEF r
<1>3. s = [pc |-> pc, force |-> r.force, failures |-> FailuresOf(e), taken |-> TakenOf(e)]
  BY <1>1
<1> HIDE DEF s
<1>4. [s EXCEPT !.taken = TakenOf(e) + 1]
         = [pc |-> pc, force |-> r.force, failures |-> FailuresOf(e), taken |-> TakenOf(e) + 1]
  BY <1>3
<1> QED BY <1>2, <1>4 DEF r

LEMMA KindsOf ==
    ASSUME BundleTypeOK, NEW e \in Exporters
    PROVE  /\ PcOf(e) \in PCs /\ FailuresOf(e) \in Nat /\ TakenOf(e) \in Nat /\ TakenOf(e) + 1 \in Nat
           /\ output \in Whole \cup {"none"}
           /\ backup[e] \in Whole \cup {"none", "part"}
           /\ temporary[e] \in {"none", "part"} \cup Exporters
           /\ backup = [backup EXCEPT ![e] = backup[e]]
           /\ temporary = [temporary EXCEPT ![e] = temporary[e]]
<1>1. export[e] \in [pc : PCs, force : BOOLEAN, failures : Nat, taken : Nat]
  BY DEF BundleTypeOK
<1>2. /\ PcOf(e) \in PCs /\ FailuresOf(e) \in Nat
      /\ TakenOf(e) \in Nat /\ TakenOf(e) + 1 \in Nat
  BY <1>1 DEF PcOf, FailuresOf, TakenOf
<1>3. backup = [backup EXCEPT ![e] = backup[e]] /\ temporary = [temporary EXCEPT ![e] = temporary[e]]
  BY DEF BundleTypeOK
<1> QED BY <1>2, <1>3 DEF BundleTypeOK

LEMMA ValidateChanges ==
    ASSUME BundleTypeOK, NEW e \in Exporters, AsideOK(e), Validate(e)
    PROVE  /\ BundleTypeOK'
           /\ \/ PcOf(e) = "begin" /\ IsTaken(e)
                 /\ Change(e, "refused", FailuresOf(e), TakenOf(e), output, backup[e], temporary[e])
              \/ PcOf(e) = "begin" /\ ~IsTaken(e)
                 /\ Change(e, "write", FailuresOf(e), TakenOf(e), output, backup[e], "part")
<1>1. CASE IsTaken(e)
  <2>1. Turns(e, "refused")
    BY <1>1 DEF Validate, PcOf
  <2>2. /\ PcOf(e) = "begin" /\ IsTaken(e)
        /\ output' = output
        /\ backup' = [backup EXCEPT ![e] = backup[e]]
        /\ temporary' = [temporary EXCEPT ![e] = temporary[e]]
    BY <1>1, KindsOf DEF Validate, PcOf
  <2>3. Moves(e, "refused", FailuresOf(e), TakenOf(e), output, backup[e], temporary[e])
    BY <2>1, <2>2, TurnsFacts DEF Moves, PCs
  <2>4. /\ output \in Whole \cup {"none"} /\ backup[e] \in Whole \cup {"none", "part"}
        /\ temporary[e] \in {"none", "part"} \cup Exporters
    BY <2>2, KindsOf DEF Whole, AsideOK, AsideAt
  <2>5. QED BY <2>2, <2>3, <2>4, KindsOf, MovesFacts DEF PCs
<1>2. CASE ~IsTaken(e)
  <2>1. Turns(e, "write")
    BY <1>2 DEF Validate, PcOf
  <2>2. /\ PcOf(e) = "begin" /\ ~IsTaken(e)
        /\ output' = output
        /\ backup' = [backup EXCEPT ![e] = backup[e]]
        /\ temporary' = [temporary EXCEPT ![e] = "part"]
    BY <1>2, KindsOf DEF Validate, PcOf
  <2>3. Moves(e, "write", FailuresOf(e), TakenOf(e), output, backup[e], "part")
    BY <2>1, <2>2, TurnsFacts DEF Moves, PCs
  <2>4. /\ output \in Whole \cup {"none"} /\ backup[e] \in Whole \cup {"none", "part"}
        /\ "part" \in {"none", "part"} \cup Exporters
    BY <2>2, KindsOf DEF Whole, AsideOK, AsideAt
  <2>5. QED BY <2>2, <2>3, <2>4, KindsOf, MovesFacts DEF PCs
<1> QED BY <1>1, <1>2

LEMMA WriteBundleChanges ==
    ASSUME BundleTypeOK, NEW e \in Exporters, AsideOK(e), WriteBundle(e)
    PROVE  /\ BundleTypeOK'
           /\ PcOf(e) = "write"
           /\ Change(e, "install", FailuresOf(e), TakenOf(e), output, backup[e], e)
<1>1. Turns(e, "install")
  BY DEF WriteBundle, PcOf
<1>2. /\ PcOf(e) = "write"
      /\ output' = output
      /\ backup' = [backup EXCEPT ![e] = backup[e]]
      /\ temporary' = [temporary EXCEPT ![e] = e]
  BY KindsOf DEF WriteBundle, PcOf
<1>3. Moves(e, "install", FailuresOf(e), TakenOf(e), output, backup[e], e)
  BY <1>1, <1>2, TurnsFacts DEF Moves, PCs
<1>4. /\ output \in Whole \cup {"none"} /\ backup[e] \in Whole \cup {"none", "part"}
      /\ e \in {"none", "part"} \cup Exporters
  BY <1>2, KindsOf DEF Whole, AsideOK, AsideAt
<1>5. QED BY <1>2, <1>3, <1>4, KindsOf, MovesFacts DEF PCs

LEMMA LookAtChanges ==
    ASSUME BundleTypeOK, NEW e \in Exporters, AsideOK(e), LookAt(e)
    PROVE  /\ BundleTypeOK'
           /\ \/ PcOf(e) = "install" /\ output = "none"
                 /\ Change(e, "put", FailuresOf(e), TakenOf(e), output, backup[e], temporary[e])
              \/ PcOf(e) = "install" /\ output # "none" /\ IsTaken(e)
                 /\ Change(e, "failing", FailuresOf(e), TakenOf(e), output, backup[e], temporary[e])
              \/ PcOf(e) = "install" /\ output # "none" /\ ~IsTaken(e)
                 /\ Change(e, "set aside", FailuresOf(e), TakenOf(e), output, backup[e], temporary[e])
<1>1. CASE output = "none"
  <2>1. Turns(e, "put")
    BY <1>1 DEF LookAt, PcOf
  <2>2. /\ PcOf(e) = "install" /\ output = "none"
        /\ output' = output
        /\ backup' = [backup EXCEPT ![e] = backup[e]]
        /\ temporary' = [temporary EXCEPT ![e] = temporary[e]]
    BY <1>1, KindsOf DEF LookAt, PcOf
  <2>3. Moves(e, "put", FailuresOf(e), TakenOf(e), output, backup[e], temporary[e])
    BY <2>1, <2>2, TurnsFacts DEF Moves, PCs
  <2>4. /\ output \in Whole \cup {"none"} /\ backup[e] \in Whole \cup {"none", "part"}
        /\ temporary[e] \in {"none", "part"} \cup Exporters
    BY <2>2, KindsOf DEF Whole, AsideOK, AsideAt
  <2>5. QED BY <2>2, <2>3, <2>4, KindsOf, MovesFacts DEF PCs
<1>2. CASE output # "none" /\ IsTaken(e)
  <2>1. Turns(e, "failing")
    BY <1>2 DEF LookAt, PcOf
  <2>2. /\ PcOf(e) = "install" /\ output # "none" /\ IsTaken(e)
        /\ output' = output
        /\ backup' = [backup EXCEPT ![e] = backup[e]]
        /\ temporary' = [temporary EXCEPT ![e] = temporary[e]]
    BY <1>2, KindsOf DEF LookAt, PcOf
  <2>3. Moves(e, "failing", FailuresOf(e), TakenOf(e), output, backup[e], temporary[e])
    BY <2>1, <2>2, TurnsFacts DEF Moves, PCs
  <2>4. /\ output \in Whole \cup {"none"} /\ backup[e] \in Whole \cup {"none", "part"}
        /\ temporary[e] \in {"none", "part"} \cup Exporters
    BY <2>2, KindsOf DEF Whole, AsideOK, AsideAt
  <2>5. QED BY <2>2, <2>3, <2>4, KindsOf, MovesFacts DEF PCs
<1>3. CASE output # "none" /\ ~IsTaken(e)
  <2>1. Turns(e, "set aside")
    BY <1>3 DEF LookAt, PcOf
  <2>2. /\ PcOf(e) = "install" /\ output # "none" /\ ~IsTaken(e)
        /\ output' = output
        /\ backup' = [backup EXCEPT ![e] = backup[e]]
        /\ temporary' = [temporary EXCEPT ![e] = temporary[e]]
    BY <1>3, KindsOf DEF LookAt, PcOf
  <2>3. Moves(e, "set aside", FailuresOf(e), TakenOf(e), output, backup[e], temporary[e])
    BY <2>1, <2>2, TurnsFacts DEF Moves, PCs
  <2>4. /\ output \in Whole \cup {"none"} /\ backup[e] \in Whole \cup {"none", "part"}
        /\ temporary[e] \in {"none", "part"} \cup Exporters
    BY <2>2, KindsOf DEF Whole, AsideOK, AsideAt
  <2>5. QED BY <2>2, <2>3, <2>4, KindsOf, MovesFacts DEF PCs
<1> QED BY <1>1, <1>2, <1>3

LEMMA SetAsideChanges ==
    ASSUME BundleTypeOK, NEW e \in Exporters, AsideOK(e), SetAside(e)
    PROVE  /\ BundleTypeOK'
           /\ \/ PcOf(e) = "set aside" /\ output = "none"
                 /\ Change(e, "failing", FailuresOf(e), TakenOf(e), output, backup[e], temporary[e])
              \/ PcOf(e) = "set aside" /\ output # "none"
                 /\ Change(e, "replace", FailuresOf(e), TakenOf(e), "none", output, temporary[e])
<1>1. CASE output = "none"
  <2>1. Turns(e, "failing")
    BY <1>1 DEF SetAside, PcOf
  <2>2. /\ PcOf(e) = "set aside" /\ output = "none"
        /\ output' = output
        /\ backup' = [backup EXCEPT ![e] = backup[e]]
        /\ temporary' = [temporary EXCEPT ![e] = temporary[e]]
    BY <1>1, KindsOf DEF SetAside, PcOf
  <2>3. Moves(e, "failing", FailuresOf(e), TakenOf(e), output, backup[e], temporary[e])
    BY <2>1, <2>2, TurnsFacts DEF Moves, PCs
  <2>4. /\ output \in Whole \cup {"none"} /\ backup[e] \in Whole \cup {"none", "part"}
        /\ temporary[e] \in {"none", "part"} \cup Exporters
    BY <2>2, KindsOf DEF Whole, AsideOK, AsideAt
  <2>5. QED BY <2>2, <2>3, <2>4, KindsOf, MovesFacts DEF PCs
<1>2. CASE output # "none"
  <2>1. Turns(e, "replace")
    BY <1>2 DEF SetAside, PcOf
  <2>2. /\ PcOf(e) = "set aside" /\ output # "none"
        /\ output' = "none"
        /\ backup' = [backup EXCEPT ![e] = output]
        /\ temporary' = [temporary EXCEPT ![e] = temporary[e]]
    BY <1>2, KindsOf DEF SetAside, PcOf
  <2>3. Moves(e, "replace", FailuresOf(e), TakenOf(e), "none", output, temporary[e])
    BY <2>1, <2>2, TurnsFacts DEF Moves, PCs
  <2>4. /\ "none" \in Whole \cup {"none"} /\ output \in Whole \cup {"none", "part"}
        /\ temporary[e] \in {"none", "part"} \cup Exporters
    BY <2>2, KindsOf DEF Whole, AsideOK, AsideAt
  <2>5. QED BY <2>2, <2>3, <2>4, KindsOf, MovesFacts DEF PCs
<1> QED BY <1>1, <1>2

LEMMA PutNewChanges ==
    ASSUME BundleTypeOK, NEW e \in Exporters, AsideOK(e), PutNew(e)
    PROVE  /\ BundleTypeOK'
           /\ \/ PcOf(e) = "put" /\ MayReplace
                 /\ Change(e, "done", FailuresOf(e), TakenOf(e), e, backup[e], "none")
              \/ PcOf(e) = "put" /\ ~MayReplace
                 /\ Change(e, "failing", FailuresOf(e), TakenOf(e) + 1, output, backup[e], temporary[e])
<1>1. CASE MayReplace
  <2>1. Turns(e, "done")
    BY <1>1 DEF PutNew, PutAt, AsideOK, AsideAt, PcOf
  <2>2. /\ PcOf(e) = "put" /\ MayReplace
        /\ output' = e
        /\ backup' = [backup EXCEPT ![e] = backup[e]]
        /\ temporary' = [temporary EXCEPT ![e] = "none"]
    BY <1>1, KindsOf DEF PutNew, PutAt, AsideOK, AsideAt, PcOf
  <2>3. Moves(e, "done", FailuresOf(e), TakenOf(e), e, backup[e], "none")
    BY <2>1, <2>2, TurnsFacts DEF Moves, PCs
  <2>4. /\ e \in Whole \cup {"none"} /\ backup[e] \in Whole \cup {"none", "part"}
        /\ "none" \in {"none", "part"} \cup Exporters
    BY <2>2, KindsOf DEF Whole, AsideOK, AsideAt
  <2>5. QED BY <2>2, <2>3, <2>4, KindsOf, MovesFacts DEF PCs
<1>2. CASE ~MayReplace
  <2>1. FindsTaken(e, "failing")
    BY <1>2 DEF PutNew, PutAt, AsideOK, AsideAt, PcOf
  <2>2. /\ PcOf(e) = "put" /\ ~MayReplace
        /\ output' = output
        /\ backup' = [backup EXCEPT ![e] = backup[e]]
        /\ temporary' = [temporary EXCEPT ![e] = temporary[e]]
    BY <1>2, KindsOf DEF PutNew, PutAt, AsideOK, AsideAt, PcOf
  <2>3. Moves(e, "failing", FailuresOf(e), TakenOf(e) + 1, output, backup[e], temporary[e])
    BY <2>1, <2>2, FindsTakenFacts DEF Moves, PCs
  <2>4. /\ output \in Whole \cup {"none"} /\ backup[e] \in Whole \cup {"none", "part"}
        /\ temporary[e] \in {"none", "part"} \cup Exporters
    BY <2>2, KindsOf DEF Whole, AsideOK, AsideAt
  <2>5. QED BY <2>2, <2>3, <2>4, KindsOf, MovesFacts DEF PCs
<1> QED BY <1>1, <1>2

LEMMA ReplaceChanges ==
    ASSUME BundleTypeOK, NEW e \in Exporters, AsideOK(e), Replace(e)
    PROVE  /\ BundleTypeOK'
           /\ \/ PcOf(e) = "replace" /\ MayReplace
                 /\ Change(e, "clean", FailuresOf(e), TakenOf(e), e, backup[e], "none")
              \/ PcOf(e) = "replace" /\ ~MayReplace
                 /\ Change(e, "restore", FailuresOf(e), TakenOf(e) + 1, output, backup[e], temporary[e])
<1>1. CASE MayReplace
  <2>1. Turns(e, "clean")
    BY <1>1 DEF Replace, PutAt, AsideOK, AsideAt, PcOf
  <2>2. /\ PcOf(e) = "replace" /\ MayReplace
        /\ output' = e
        /\ backup' = [backup EXCEPT ![e] = backup[e]]
        /\ temporary' = [temporary EXCEPT ![e] = "none"]
    BY <1>1, KindsOf DEF Replace, PutAt, AsideOK, AsideAt, PcOf
  <2>3. Moves(e, "clean", FailuresOf(e), TakenOf(e), e, backup[e], "none")
    BY <2>1, <2>2, TurnsFacts DEF Moves, PCs
  <2>4. /\ e \in Whole \cup {"none"} /\ backup[e] \in Whole \cup {"none", "part"}
        /\ "none" \in {"none", "part"} \cup Exporters
    BY <2>2, KindsOf DEF Whole, AsideOK, AsideAt
  <2>5. QED BY <2>2, <2>3, <2>4, KindsOf, MovesFacts DEF PCs
<1>2. CASE ~MayReplace
  <2>1. FindsTaken(e, "restore")
    BY <1>2 DEF Replace, PutAt, AsideOK, AsideAt, PcOf
  <2>2. /\ PcOf(e) = "replace" /\ ~MayReplace
        /\ output' = output
        /\ backup' = [backup EXCEPT ![e] = backup[e]]
        /\ temporary' = [temporary EXCEPT ![e] = temporary[e]]
    BY <1>2, KindsOf DEF Replace, PutAt, AsideOK, AsideAt, PcOf
  <2>3. Moves(e, "restore", FailuresOf(e), TakenOf(e) + 1, output, backup[e], temporary[e])
    BY <2>1, <2>2, FindsTakenFacts DEF Moves, PCs
  <2>4. /\ output \in Whole \cup {"none"} /\ backup[e] \in Whole \cup {"none", "part"}
        /\ temporary[e] \in {"none", "part"} \cup Exporters
    BY <2>2, KindsOf DEF Whole, AsideOK, AsideAt
  <2>5. QED BY <2>2, <2>3, <2>4, KindsOf, MovesFacts DEF PCs
<1> QED BY <1>1, <1>2

LEMMA RestoreChanges ==
    ASSUME BundleTypeOK, NEW e \in Exporters, AsideOK(e), Restore(e)
    PROVE  /\ BundleTypeOK'
           /\ \/ PcOf(e) = "restore" /\ MayReplace
                 /\ Change(e, "failing", FailuresOf(e), TakenOf(e), backup[e], "none", temporary[e])
              \/ PcOf(e) = "restore" /\ ~MayReplace
                 /\ Change(e, "failing", FailuresOf(e), TakenOf(e) + 1, output, backup[e], temporary[e])
<1>1. CASE MayReplace
  <2>1. Turns(e, "failing")
    BY <1>1 DEF Restore, PutBack, AsideOK, AsideAt, PcOf
  <2>2. /\ PcOf(e) = "restore" /\ MayReplace
        /\ output' = backup[e]
        /\ backup' = [backup EXCEPT ![e] = "none"]
        /\ temporary' = [temporary EXCEPT ![e] = temporary[e]]
    BY <1>1, KindsOf DEF Restore, PutBack, AsideOK, AsideAt, PcOf
  <2>3. Moves(e, "failing", FailuresOf(e), TakenOf(e), backup[e], "none", temporary[e])
    BY <2>1, <2>2, TurnsFacts DEF Moves, PCs
  <2>4. /\ backup[e] \in Whole \cup {"none"} /\ "none" \in Whole \cup {"none", "part"}
        /\ temporary[e] \in {"none", "part"} \cup Exporters
    BY <2>2, KindsOf DEF Whole, AsideOK, AsideAt
  <2>5. QED BY <2>2, <2>3, <2>4, KindsOf, MovesFacts DEF PCs
<1>2. CASE ~MayReplace
  <2>1. FindsTaken(e, "failing")
    BY <1>2 DEF Restore, PutBack, AsideOK, AsideAt, PcOf
  <2>2. /\ PcOf(e) = "restore" /\ ~MayReplace
        /\ output' = output
        /\ backup' = [backup EXCEPT ![e] = backup[e]]
        /\ temporary' = [temporary EXCEPT ![e] = temporary[e]]
    BY <1>2, KindsOf DEF Restore, PutBack, AsideOK, AsideAt, PcOf
  <2>3. Moves(e, "failing", FailuresOf(e), TakenOf(e) + 1, output, backup[e], temporary[e])
    BY <2>1, <2>2, FindsTakenFacts DEF Moves, PCs
  <2>4. /\ output \in Whole \cup {"none"} /\ backup[e] \in Whole \cup {"none", "part"}
        /\ temporary[e] \in {"none", "part"} \cup Exporters
    BY <2>2, KindsOf DEF Whole, AsideOK, AsideAt
  <2>5. QED BY <2>2, <2>3, <2>4, KindsOf, MovesFacts DEF PCs
<1> QED BY <1>1, <1>2

LEMMA DropBackupChanges ==
    ASSUME BundleTypeOK, NEW e \in Exporters, AsideOK(e), DropBackup(e)
    PROVE  /\ BundleTypeOK'
           /\ PcOf(e) = "clean"
           /\ Change(e, "done", FailuresOf(e), TakenOf(e), output, "none", temporary[e])
<1>1. Turns(e, "done")
  BY DEF DropBackup, PcOf
<1>2. /\ PcOf(e) = "clean"
      /\ output' = output
      /\ backup' = [backup EXCEPT ![e] = "none"]
      /\ temporary' = [temporary EXCEPT ![e] = temporary[e]]
  BY KindsOf DEF DropBackup, PcOf
<1>3. Moves(e, "done", FailuresOf(e), TakenOf(e), output, "none", temporary[e])
  BY <1>1, <1>2, TurnsFacts DEF Moves, PCs
<1>4. /\ output \in Whole \cup {"none"} /\ "none" \in Whole \cup {"none", "part"}
      /\ temporary[e] \in {"none", "part"} \cup Exporters
  BY <1>2, KindsOf DEF Whole, AsideOK, AsideAt
<1>5. QED BY <1>2, <1>3, <1>4, KindsOf, MovesFacts DEF PCs

LEMMA CleanUpChanges ==
    ASSUME BundleTypeOK, NEW e \in Exporters, AsideOK(e), CleanUp(e)
    PROVE  /\ BundleTypeOK'
           /\ PcOf(e) = "failing"
           /\ Change(e, "failed", FailuresOf(e), TakenOf(e), output, backup[e], "none")
<1>1. Turns(e, "failed")
  BY DEF CleanUp, PcOf
<1>2. /\ PcOf(e) = "failing"
      /\ output' = output
      /\ backup' = [backup EXCEPT ![e] = backup[e]]
      /\ temporary' = [temporary EXCEPT ![e] = "none"]
  BY KindsOf DEF CleanUp, PcOf
<1>3. Moves(e, "failed", FailuresOf(e), TakenOf(e), output, backup[e], "none")
  BY <1>1, <1>2, TurnsFacts DEF Moves, PCs
<1>4. /\ output \in Whole \cup {"none"} /\ backup[e] \in Whole \cup {"none", "part"}
      /\ "none" \in {"none", "part"} \cup Exporters
  BY <1>2, KindsOf DEF Whole, AsideOK, AsideAt
<1>5. QED BY <1>2, <1>3, <1>4, KindsOf, MovesFacts DEF PCs

LEMMA ExporterCrashesChanges ==
    ASSUME BundleTypeOK, NEW e \in Exporters, AsideOK(e), ExporterCrashes(e)
    PROVE  /\ BundleTypeOK'
           /\ PcOf(e) \notin {"begin", "refused", "done", "failed", "crashed"}
           /\ Change(e, "crashed", FailuresOf(e), TakenOf(e), output, backup[e], temporary[e])
<1>1. Turns(e, "crashed")
  BY DEF ExporterCrashes, PcOf
<1>2. /\ PcOf(e) \notin {"begin", "refused", "done", "failed", "crashed"}
      /\ output' = output
      /\ backup' = [backup EXCEPT ![e] = backup[e]]
      /\ temporary' = [temporary EXCEPT ![e] = temporary[e]]
  BY KindsOf DEF ExporterCrashes, PcOf
<1>3. Moves(e, "crashed", FailuresOf(e), TakenOf(e), output, backup[e], temporary[e])
  BY <1>1, <1>2, TurnsFacts DEF Moves, PCs
<1>4. /\ output \in Whole \cup {"none"} /\ backup[e] \in Whole \cup {"none", "part"}
      /\ temporary[e] \in {"none", "part"} \cup Exporters
  BY <1>2, KindsOf DEF Whole, AsideOK, AsideAt
<1>5. QED BY <1>2, <1>3, <1>4, KindsOf, MovesFacts DEF PCs

LEMMA ExportFailsChanges ==
    ASSUME BundleTypeOK, NEW e \in Exporters, AsideOK(e), ExportFails(e)
    PROVE  /\ BundleTypeOK'
           /\ \/ PcOf(e) = "replace"
                 /\ Change(e, "restore", FailuresOf(e) + 1, TakenOf(e), output, backup[e], temporary[e])
              \/ PcOf(e) = "clean"
                 /\ Change(e, "failing", FailuresOf(e) + 1, TakenOf(e), output, "part", temporary[e])
              \/ PcOf(e) \in {"write", "install", "set aside", "put", "restore"}
                 /\ Change(e, "failing", FailuresOf(e) + 1, TakenOf(e), output, backup[e], temporary[e])
<1> DEFINE pc == IF PcOf(e) = "replace" THEN "restore" ELSE "failing"
           k == [pc |-> pc, force |-> export[e].force, failures |-> FailuresOf(e) + 1, taken |-> TakenOf(e)]
           aside == IF PcOf(e) = "clean" THEN "part" ELSE backup[e]
<1>1. export' = [export EXCEPT ![e] = k]
  <2>1. export[e] = [pc |-> PcOf(e), force |-> export[e].force, failures |-> FailuresOf(e), taken |-> TakenOf(e)]
    BY DEF BundleTypeOK, PcOf, FailuresOf, TakenOf
  <2>2. export' = [export EXCEPT ![e] = [[export[e] EXCEPT !.failures = FailuresOf(e) + 1] EXCEPT !.pc = pc]]
    BY DEF ExportFails, PcOf, FailuresOf, BundleTypeOK
  <2> DEFINE r == export[e]
             b == export[e].force
  <2>4. r = [pc |-> PcOf(e), force |-> b, failures |-> FailuresOf(e), taken |-> TakenOf(e)]
    BY <2>1
  <2> HIDE DEF pc, r, b
  <2>3. [[r EXCEPT !.failures = FailuresOf(e) + 1] EXCEPT !.pc = pc]
           = [pc |-> pc, force |-> b, failures |-> FailuresOf(e) + 1, taken |-> TakenOf(e)]
    <3> DEFINE s == [r EXCEPT !.failures = FailuresOf(e) + 1]
    <3>1. s = [pc |-> PcOf(e), force |-> b, failures |-> FailuresOf(e) + 1, taken |-> TakenOf(e)]
      BY <2>4
    <3> HIDE DEF s
    <3>2. [s EXCEPT !.pc = pc] = [pc |-> pc, force |-> b, failures |-> FailuresOf(e) + 1, taken |-> TakenOf(e)]
      BY <3>1
    <3> QED BY <3>2 DEF s
  <2> QED BY <2>2, <2>3 DEF r, b
<1>2. /\ output' = output /\ backup' = [backup EXCEPT ![e] = aside]
      /\ temporary' = [temporary EXCEPT ![e] = temporary[e]]
  BY KindsOf DEF ExportFails, PcOf
<1>3. Moves(e, pc, FailuresOf(e) + 1, TakenOf(e), output, aside, temporary[e])
  BY <1>1, <1>2 DEF Moves
<1>4. aside \in Whole \cup {"none", "part"} /\ pc \in PCs /\ FailuresOf(e) + 1 \in Nat
  <2>1. aside = "part" \/ aside = backup[e]
    OBVIOUS
  <2>2. pc = "restore" \/ pc = "failing"
    OBVIOUS
  <2> HIDE DEF pc, aside
  <2>3. "part" \in Whole \cup {"none", "part"} /\ backup[e] \in Whole \cup {"none", "part"}
    BY KindsOf
  <2>4. FailuresOf(e) + 1 \in Nat
    BY KindsOf
  <2> QED BY <2>1, <2>2, <2>3, <2>4 DEF PCs
<1>5. PcOf(e) \in {"write", "install", "set aside", "put", "replace", "restore", "clean"}
  BY DEF ExportFails, PcOf
<1> HIDE DEF pc, aside, k
<1>6. BundleTypeOK' /\ Change(e, pc, FailuresOf(e) + 1, TakenOf(e), output, aside, temporary[e])
  BY <1>3, <1>4, KindsOf, MovesFacts
<1> QED BY <1>5, <1>6 DEF pc, aside

-----------------------------------------------------------------------------
(* Every step keeps the invariant, for any number of exporters.            *)

LEMMA HoldsIs ==
    ASSUME NEW e \in Exporters
    PROVE  Holds(e) <=> HoldsAt(PcOf(e), FailuresOf(e), TakenOf(e), backup[e])
  BY DEF Holds, HoldsAt, FailsTwice, PcOf, FailuresOf, TakenOf

LEMMA BundleInvInit == BundleInit => BundleInv
<1> SUFFICES ASSUME BundleInit PROVE BundleInv
  OBVIOUS
<1>1. PICK force \in [Exporters -> BOOLEAN] :
          export = [e \in Exporters |-> [pc |-> "begin", force |-> force[e], failures |-> 0, taken |-> 0]]
  BY DEF BundleInit
<1>2. BundleTypeOK
  BY <1>1 DEF BundleInit, BundleTypeOK, PCs, Whole
<1>3. \A e \in Exporters : PcOf(e) = "begin" /\ backup[e] = "none"
  BY <1>1 DEF BundleInit, PcOf
<1> QED BY <1>2, <1>3 DEF BundleInv, PlacedOK, AsideOK, AsideAt

(* A change of one exporter keeps the invariant, and the wiki, when it     *)
(* leaves this exporter as it should be, takes no wiki from the place that *)
(* it does not hold itself, and finishes only what has been put.           *)
LEMMA ChangeKeeps ==
    ASSUME BundleInv, BundleTypeOK', NEW e \in Exporters, NEW pc, NEW n, NEW t, NEW place, NEW aside,
           NEW beside, Change(e, pc, n, t, place, aside, beside),
           AsideAt(e, pc, n, t, aside, beside),
           output \in Wikis \/ Holds(e) => place \in Wikis \/ HoldsAt(pc, n, t, aside),
           pc \in {"clean", "done"} => place \in Wikis \/ PcOf(e) \in {"clean", "done"}
    PROVE  BundleInv' /\ (WikiIsKept => WikiIsKept')
<1>1. \A x \in Exporters \ {e} : AsideOK(x) <=> AsideOK(x)'
  BY DEF Change, AsideOK, AsideAt
<1>2. AsideOK(e)'
  BY DEF Change, AsideOK, AsideAt
<1>3. HoldsAt(pc, n, t, aside) => Holds(e)'
  BY HoldsIs DEF Change, HoldsAt, Holds, FailsTwice, PcOf, FailuresOf, TakenOf
<1>4. \A x \in Exporters \ {e} : Holds(x) => Holds(x)'
  BY DEF Change, Holds, FailsTwice, PcOf, FailuresOf, TakenOf
<1>5. output' = place
  BY DEF Change
<1>6. WikiIsKept => WikiIsKept'
  BY <1>3, <1>4, <1>5 DEF WikiIsKept
<1>7. PlacedOK'
  <2> SUFFICES ASSUME NEW x \in Exporters, PcOf(x)' \in {"clean", "done"}
               PROVE  WikiIsKept'
    BY DEF PlacedOK
  <2>1. CASE x = e
    BY <2>1, <1>5, <1>6 DEF Change, BundleInv, PlacedOK, WikiIsKept
  <2>2. CASE x # e
    BY <2>2, <1>6 DEF Change, BundleInv, PlacedOK
  <2> QED BY <2>1, <2>2
<1> QED BY <1>1, <1>2, <1>6, <1>7 DEF BundleInv

LEMMA ValidateKeeps ==
    ASSUME BundleInv, NEW e \in Exporters, Validate(e)
    PROVE  BundleInv' /\ (WikiIsKept => WikiIsKept')
<1>0. /\ BundleTypeOK /\ BundleTypeOK' /\ AsideOK(e)
      /\ PcOf(e) \in PCs /\ FailuresOf(e) \in Nat /\ TakenOf(e) \in Nat
      /\ output \in Whole \cup {"none"} /\ backup[e] \in Whole \cup {"none", "part"}
  BY ValidateChanges, KindsOf DEF BundleInv
<1>1. CASE /\ PcOf(e) = "begin" /\ IsTaken(e)
            /\ Change(e, "refused", FailuresOf(e), TakenOf(e), output, backup[e], temporary[e])
  <2>1. AsideAt(e, "refused", FailuresOf(e), TakenOf(e), backup[e], temporary[e])
    BY <1>0, <1>1 DEF AsideOK, AsideAt, Whole
  <2>2. output \in Wikis \/ Holds(e) =>
            output \in Wikis \/ HoldsAt("refused", FailuresOf(e), TakenOf(e), backup[e])
    BY <1>0, <1>1, HoldsIs DEF AsideOK, AsideAt, HoldsAt, Wikis, Whole, MayReplace
  <2>3. "refused" \in {"clean", "done"} => output \in Wikis \/ PcOf(e) \in {"clean", "done"}
    BY <1>1 DEF Wikis
  <2> QED BY <1>0, <1>1, <2>1, <2>2, <2>3, ChangeKeeps
<1>2. CASE /\ PcOf(e) = "begin" /\ ~IsTaken(e)
            /\ Change(e, "write", FailuresOf(e), TakenOf(e), output, backup[e], "part")
  <2>1. AsideAt(e, "write", FailuresOf(e), TakenOf(e), backup[e], "part")
    BY <1>0, <1>2 DEF AsideOK, AsideAt, Whole
  <2>2. output \in Wikis \/ Holds(e) =>
            output \in Wikis \/ HoldsAt("write", FailuresOf(e), TakenOf(e), backup[e])
    BY <1>0, <1>2, HoldsIs DEF AsideOK, AsideAt, HoldsAt, Wikis, Whole, MayReplace
  <2>3. "write" \in {"clean", "done"} => output \in Wikis \/ PcOf(e) \in {"clean", "done"}
    BY <1>2 DEF Wikis
  <2> QED BY <1>0, <1>2, <2>1, <2>2, <2>3, ChangeKeeps
<1> QED BY <1>1, <1>2, <1>0, ValidateChanges

LEMMA WriteBundleKeeps ==
    ASSUME BundleInv, NEW e \in Exporters, WriteBundle(e)
    PROVE  BundleInv' /\ (WikiIsKept => WikiIsKept')
<1>0. /\ BundleTypeOK /\ BundleTypeOK' /\ AsideOK(e)
      /\ PcOf(e) \in PCs /\ FailuresOf(e) \in Nat /\ TakenOf(e) \in Nat
      /\ output \in Whole \cup {"none"} /\ backup[e] \in Whole \cup {"none", "part"}
  BY WriteBundleChanges, KindsOf DEF BundleInv
<1>1. CASE /\ PcOf(e) = "write"
            /\ Change(e, "install", FailuresOf(e), TakenOf(e), output, backup[e], e)
  <2>1. AsideAt(e, "install", FailuresOf(e), TakenOf(e), backup[e], e)
    BY <1>0, <1>1 DEF AsideOK, AsideAt, Whole
  <2>2. output \in Wikis \/ Holds(e) =>
            output \in Wikis \/ HoldsAt("install", FailuresOf(e), TakenOf(e), backup[e])
    BY <1>0, <1>1, HoldsIs DEF AsideOK, AsideAt, HoldsAt, Wikis, Whole, MayReplace
  <2>3. "install" \in {"clean", "done"} => output \in Wikis \/ PcOf(e) \in {"clean", "done"}
    BY <1>1 DEF Wikis
  <2> QED BY <1>0, <1>1, <2>1, <2>2, <2>3, ChangeKeeps
<1> QED BY <1>1, <1>0, WriteBundleChanges

LEMMA LookAtKeeps ==
    ASSUME BundleInv, NEW e \in Exporters, LookAt(e)
    PROVE  BundleInv' /\ (WikiIsKept => WikiIsKept')
<1>0. /\ BundleTypeOK /\ BundleTypeOK' /\ AsideOK(e)
      /\ PcOf(e) \in PCs /\ FailuresOf(e) \in Nat /\ TakenOf(e) \in Nat
      /\ output \in Whole \cup {"none"} /\ backup[e] \in Whole \cup {"none", "part"}
  BY LookAtChanges, KindsOf DEF BundleInv
<1>1. CASE /\ PcOf(e) = "install" /\ output = "none"
            /\ Change(e, "put", FailuresOf(e), TakenOf(e), output, backup[e], temporary[e])
  <2>1. AsideAt(e, "put", FailuresOf(e), TakenOf(e), backup[e], temporary[e])
    BY <1>0, <1>1 DEF AsideOK, AsideAt, Whole
  <2>2. output \in Wikis \/ Holds(e) =>
            output \in Wikis \/ HoldsAt("put", FailuresOf(e), TakenOf(e), backup[e])
    BY <1>0, <1>1, HoldsIs DEF AsideOK, AsideAt, HoldsAt, Wikis, Whole, MayReplace
  <2>3. "put" \in {"clean", "done"} => output \in Wikis \/ PcOf(e) \in {"clean", "done"}
    BY <1>1 DEF Wikis
  <2> QED BY <1>0, <1>1, <2>1, <2>2, <2>3, ChangeKeeps
<1>2. CASE /\ PcOf(e) = "install" /\ output # "none" /\ IsTaken(e)
            /\ Change(e, "failing", FailuresOf(e), TakenOf(e), output, backup[e], temporary[e])
  <2>1. AsideAt(e, "failing", FailuresOf(e), TakenOf(e), backup[e], temporary[e])
    BY <1>0, <1>2 DEF AsideOK, AsideAt, Whole
  <2>2. output \in Wikis \/ Holds(e) =>
            output \in Wikis \/ HoldsAt("failing", FailuresOf(e), TakenOf(e), backup[e])
    BY <1>0, <1>2, HoldsIs DEF AsideOK, AsideAt, HoldsAt, Wikis, Whole, MayReplace
  <2>3. "failing" \in {"clean", "done"} => output \in Wikis \/ PcOf(e) \in {"clean", "done"}
    BY <1>2 DEF Wikis
  <2> QED BY <1>0, <1>2, <2>1, <2>2, <2>3, ChangeKeeps
<1>3. CASE /\ PcOf(e) = "install" /\ output # "none" /\ ~IsTaken(e)
            /\ Change(e, "set aside", FailuresOf(e), TakenOf(e), output, backup[e], temporary[e])
  <2>1. AsideAt(e, "set aside", FailuresOf(e), TakenOf(e), backup[e], temporary[e])
    BY <1>0, <1>3 DEF AsideOK, AsideAt, Whole
  <2>2. output \in Wikis \/ Holds(e) =>
            output \in Wikis \/ HoldsAt("set aside", FailuresOf(e), TakenOf(e), backup[e])
    BY <1>0, <1>3, HoldsIs DEF AsideOK, AsideAt, HoldsAt, Wikis, Whole, MayReplace
  <2>3. "set aside" \in {"clean", "done"} => output \in Wikis \/ PcOf(e) \in {"clean", "done"}
    BY <1>3 DEF Wikis
  <2> QED BY <1>0, <1>3, <2>1, <2>2, <2>3, ChangeKeeps
<1> QED BY <1>1, <1>2, <1>3, <1>0, LookAtChanges

LEMMA SetAsideKeeps ==
    ASSUME BundleInv, NEW e \in Exporters, SetAside(e)
    PROVE  BundleInv' /\ (WikiIsKept => WikiIsKept')
<1>0. /\ BundleTypeOK /\ BundleTypeOK' /\ AsideOK(e)
      /\ PcOf(e) \in PCs /\ FailuresOf(e) \in Nat /\ TakenOf(e) \in Nat
      /\ output \in Whole \cup {"none"} /\ backup[e] \in Whole \cup {"none", "part"}
  BY SetAsideChanges, KindsOf DEF BundleInv
<1>1. CASE /\ PcOf(e) = "set aside" /\ output = "none"
            /\ Change(e, "failing", FailuresOf(e), TakenOf(e), output, backup[e], temporary[e])
  <2>1. AsideAt(e, "failing", FailuresOf(e), TakenOf(e), backup[e], temporary[e])
    BY <1>0, <1>1 DEF AsideOK, AsideAt, Whole
  <2>2. output \in Wikis \/ Holds(e) =>
            output \in Wikis \/ HoldsAt("failing", FailuresOf(e), TakenOf(e), backup[e])
    BY <1>0, <1>1, HoldsIs DEF AsideOK, AsideAt, HoldsAt, Wikis, Whole, MayReplace
  <2>3. "failing" \in {"clean", "done"} => output \in Wikis \/ PcOf(e) \in {"clean", "done"}
    BY <1>1 DEF Wikis
  <2> QED BY <1>0, <1>1, <2>1, <2>2, <2>3, ChangeKeeps
<1>2. CASE /\ PcOf(e) = "set aside" /\ output # "none"
            /\ Change(e, "replace", FailuresOf(e), TakenOf(e), "none", output, temporary[e])
  <2>1. AsideAt(e, "replace", FailuresOf(e), TakenOf(e), output, temporary[e])
    BY <1>0, <1>2 DEF AsideOK, AsideAt, Whole
  <2>2. output \in Wikis \/ Holds(e) =>
            "none" \in Wikis \/ HoldsAt("replace", FailuresOf(e), TakenOf(e), output)
    BY <1>0, <1>2, HoldsIs DEF AsideOK, AsideAt, HoldsAt, Wikis, Whole, MayReplace
  <2>3. "replace" \in {"clean", "done"} => "none" \in Wikis \/ PcOf(e) \in {"clean", "done"}
    BY <1>2 DEF Wikis
  <2> QED BY <1>0, <1>2, <2>1, <2>2, <2>3, ChangeKeeps
<1> QED BY <1>1, <1>2, <1>0, SetAsideChanges

LEMMA PutNewKeeps ==
    ASSUME BundleInv, NEW e \in Exporters, PutNew(e)
    PROVE  BundleInv' /\ (WikiIsKept => WikiIsKept')
<1>0. /\ BundleTypeOK /\ BundleTypeOK' /\ AsideOK(e)
      /\ PcOf(e) \in PCs /\ FailuresOf(e) \in Nat /\ TakenOf(e) \in Nat
      /\ output \in Whole \cup {"none"} /\ backup[e] \in Whole \cup {"none", "part"}
  BY PutNewChanges, KindsOf DEF BundleInv
<1>1. CASE /\ PcOf(e) = "put" /\ MayReplace
            /\ Change(e, "done", FailuresOf(e), TakenOf(e), e, backup[e], "none")
  <2>1. AsideAt(e, "done", FailuresOf(e), TakenOf(e), backup[e], "none")
    BY <1>0, <1>1 DEF AsideOK, AsideAt, Whole
  <2>2. output \in Wikis \/ Holds(e) =>
            e \in Wikis \/ HoldsAt("done", FailuresOf(e), TakenOf(e), backup[e])
    BY <1>0, <1>1, HoldsIs DEF AsideOK, AsideAt, HoldsAt, Wikis, Whole, MayReplace
  <2>3. "done" \in {"clean", "done"} => e \in Wikis \/ PcOf(e) \in {"clean", "done"}
    BY <1>1 DEF Wikis
  <2> QED BY <1>0, <1>1, <2>1, <2>2, <2>3, ChangeKeeps
<1>2. CASE /\ PcOf(e) = "put" /\ ~MayReplace
            /\ Change(e, "failing", FailuresOf(e), TakenOf(e) + 1, output, backup[e], temporary[e])
  <2>1. AsideAt(e, "failing", FailuresOf(e), TakenOf(e) + 1, backup[e], temporary[e])
    BY <1>0, <1>2 DEF AsideOK, AsideAt, Whole
  <2>2. output \in Wikis \/ Holds(e) =>
            output \in Wikis \/ HoldsAt("failing", FailuresOf(e), TakenOf(e) + 1, backup[e])
    BY <1>0, <1>2, HoldsIs DEF AsideOK, AsideAt, HoldsAt, Wikis, Whole, MayReplace
  <2>3. "failing" \in {"clean", "done"} => output \in Wikis \/ PcOf(e) \in {"clean", "done"}
    BY <1>2 DEF Wikis
  <2> QED BY <1>0, <1>2, <2>1, <2>2, <2>3, ChangeKeeps
<1> QED BY <1>1, <1>2, <1>0, PutNewChanges

LEMMA ReplaceKeeps ==
    ASSUME BundleInv, NEW e \in Exporters, Replace(e)
    PROVE  BundleInv' /\ (WikiIsKept => WikiIsKept')
<1>0. /\ BundleTypeOK /\ BundleTypeOK' /\ AsideOK(e)
      /\ PcOf(e) \in PCs /\ FailuresOf(e) \in Nat /\ TakenOf(e) \in Nat
      /\ output \in Whole \cup {"none"} /\ backup[e] \in Whole \cup {"none", "part"}
  BY ReplaceChanges, KindsOf DEF BundleInv
<1>1. CASE /\ PcOf(e) = "replace" /\ MayReplace
            /\ Change(e, "clean", FailuresOf(e), TakenOf(e), e, backup[e], "none")
  <2>1. AsideAt(e, "clean", FailuresOf(e), TakenOf(e), backup[e], "none")
    BY <1>0, <1>1 DEF AsideOK, AsideAt, Whole
  <2>2. output \in Wikis \/ Holds(e) =>
            e \in Wikis \/ HoldsAt("clean", FailuresOf(e), TakenOf(e), backup[e])
    BY <1>0, <1>1, HoldsIs DEF AsideOK, AsideAt, HoldsAt, Wikis, Whole, MayReplace
  <2>3. "clean" \in {"clean", "done"} => e \in Wikis \/ PcOf(e) \in {"clean", "done"}
    BY <1>1 DEF Wikis
  <2> QED BY <1>0, <1>1, <2>1, <2>2, <2>3, ChangeKeeps
<1>2. CASE /\ PcOf(e) = "replace" /\ ~MayReplace
            /\ Change(e, "restore", FailuresOf(e), TakenOf(e) + 1, output, backup[e], temporary[e])
  <2>1. AsideAt(e, "restore", FailuresOf(e), TakenOf(e) + 1, backup[e], temporary[e])
    BY <1>0, <1>2 DEF AsideOK, AsideAt, Whole
  <2>2. output \in Wikis \/ Holds(e) =>
            output \in Wikis \/ HoldsAt("restore", FailuresOf(e), TakenOf(e) + 1, backup[e])
    BY <1>0, <1>2, HoldsIs DEF AsideOK, AsideAt, HoldsAt, Wikis, Whole, MayReplace
  <2>3. "restore" \in {"clean", "done"} => output \in Wikis \/ PcOf(e) \in {"clean", "done"}
    BY <1>2 DEF Wikis
  <2> QED BY <1>0, <1>2, <2>1, <2>2, <2>3, ChangeKeeps
<1> QED BY <1>1, <1>2, <1>0, ReplaceChanges

LEMMA RestoreKeeps ==
    ASSUME BundleInv, NEW e \in Exporters, Restore(e)
    PROVE  BundleInv' /\ (WikiIsKept => WikiIsKept')
<1>0. /\ BundleTypeOK /\ BundleTypeOK' /\ AsideOK(e)
      /\ PcOf(e) \in PCs /\ FailuresOf(e) \in Nat /\ TakenOf(e) \in Nat
      /\ output \in Whole \cup {"none"} /\ backup[e] \in Whole \cup {"none", "part"}
  BY RestoreChanges, KindsOf DEF BundleInv
<1>1. CASE /\ PcOf(e) = "restore" /\ MayReplace
            /\ Change(e, "failing", FailuresOf(e), TakenOf(e), backup[e], "none", temporary[e])
  <2>1. AsideAt(e, "failing", FailuresOf(e), TakenOf(e), "none", temporary[e])
    BY <1>0, <1>1 DEF AsideOK, AsideAt, Whole
  <2>2. output \in Wikis \/ Holds(e) =>
            backup[e] \in Wikis \/ HoldsAt("failing", FailuresOf(e), TakenOf(e), "none")
    BY <1>0, <1>1, HoldsIs DEF AsideOK, AsideAt, HoldsAt, Wikis, Whole, MayReplace
  <2>3. "failing" \in {"clean", "done"} => backup[e] \in Wikis \/ PcOf(e) \in {"clean", "done"}
    BY <1>1 DEF Wikis
  <2> QED BY <1>0, <1>1, <2>1, <2>2, <2>3, ChangeKeeps
<1>2. CASE /\ PcOf(e) = "restore" /\ ~MayReplace
            /\ Change(e, "failing", FailuresOf(e), TakenOf(e) + 1, output, backup[e], temporary[e])
  <2>1. AsideAt(e, "failing", FailuresOf(e), TakenOf(e) + 1, backup[e], temporary[e])
    BY <1>0, <1>2 DEF AsideOK, AsideAt, Whole
  <2>2. output \in Wikis \/ Holds(e) =>
            output \in Wikis \/ HoldsAt("failing", FailuresOf(e), TakenOf(e) + 1, backup[e])
    BY <1>0, <1>2, HoldsIs DEF AsideOK, AsideAt, HoldsAt, Wikis, Whole, MayReplace
  <2>3. "failing" \in {"clean", "done"} => output \in Wikis \/ PcOf(e) \in {"clean", "done"}
    BY <1>2 DEF Wikis
  <2> QED BY <1>0, <1>2, <2>1, <2>2, <2>3, ChangeKeeps
<1> QED BY <1>1, <1>2, <1>0, RestoreChanges

LEMMA DropBackupKeeps ==
    ASSUME BundleInv, NEW e \in Exporters, DropBackup(e)
    PROVE  BundleInv' /\ (WikiIsKept => WikiIsKept')
<1>0. /\ BundleTypeOK /\ BundleTypeOK' /\ AsideOK(e)
      /\ PcOf(e) \in PCs /\ FailuresOf(e) \in Nat /\ TakenOf(e) \in Nat
      /\ output \in Whole \cup {"none"} /\ backup[e] \in Whole \cup {"none", "part"}
  BY DropBackupChanges, KindsOf DEF BundleInv
<1>1. CASE /\ PcOf(e) = "clean"
            /\ Change(e, "done", FailuresOf(e), TakenOf(e), output, "none", temporary[e])
  <2>1. AsideAt(e, "done", FailuresOf(e), TakenOf(e), "none", temporary[e])
    BY <1>0, <1>1 DEF AsideOK, AsideAt, Whole
  <2>2. output \in Wikis \/ Holds(e) =>
            output \in Wikis \/ HoldsAt("done", FailuresOf(e), TakenOf(e), "none")
    BY <1>0, <1>1, HoldsIs DEF AsideOK, AsideAt, HoldsAt, Wikis, Whole, MayReplace
  <2>3. "done" \in {"clean", "done"} => output \in Wikis \/ PcOf(e) \in {"clean", "done"}
    BY <1>1 DEF Wikis
  <2> QED BY <1>0, <1>1, <2>1, <2>2, <2>3, ChangeKeeps
<1> QED BY <1>1, <1>0, DropBackupChanges

LEMMA CleanUpKeeps ==
    ASSUME BundleInv, NEW e \in Exporters, CleanUp(e)
    PROVE  BundleInv' /\ (WikiIsKept => WikiIsKept')
<1>0. /\ BundleTypeOK /\ BundleTypeOK' /\ AsideOK(e)
      /\ PcOf(e) \in PCs /\ FailuresOf(e) \in Nat /\ TakenOf(e) \in Nat
      /\ output \in Whole \cup {"none"} /\ backup[e] \in Whole \cup {"none", "part"}
  BY CleanUpChanges, KindsOf DEF BundleInv
<1>1. CASE /\ PcOf(e) = "failing"
            /\ Change(e, "failed", FailuresOf(e), TakenOf(e), output, backup[e], "none")
  <2>1. AsideAt(e, "failed", FailuresOf(e), TakenOf(e), backup[e], "none")
    BY <1>0, <1>1 DEF AsideOK, AsideAt, Whole
  <2>2. output \in Wikis \/ Holds(e) =>
            output \in Wikis \/ HoldsAt("failed", FailuresOf(e), TakenOf(e), backup[e])
    BY <1>0, <1>1, HoldsIs DEF AsideOK, AsideAt, HoldsAt, Wikis, Whole, MayReplace
  <2>3. "failed" \in {"clean", "done"} => output \in Wikis \/ PcOf(e) \in {"clean", "done"}
    BY <1>1 DEF Wikis
  <2> QED BY <1>0, <1>1, <2>1, <2>2, <2>3, ChangeKeeps
<1> QED BY <1>1, <1>0, CleanUpChanges

LEMMA ExportFailsKeeps ==
    ASSUME BundleInv, NEW e \in Exporters, ExportFails(e)
    PROVE  BundleInv' /\ (WikiIsKept => WikiIsKept')
<1>0. /\ BundleTypeOK /\ BundleTypeOK' /\ AsideOK(e)
      /\ PcOf(e) \in PCs /\ FailuresOf(e) \in Nat /\ TakenOf(e) \in Nat
      /\ output \in Whole \cup {"none"} /\ backup[e] \in Whole \cup {"none", "part"}
  BY ExportFailsChanges, KindsOf DEF BundleInv
<1>1. CASE /\ PcOf(e) = "replace"
            /\ Change(e, "restore", FailuresOf(e) + 1, TakenOf(e), output, backup[e], temporary[e])
  <2>1. AsideAt(e, "restore", FailuresOf(e) + 1, TakenOf(e), backup[e], temporary[e])
    BY <1>0, <1>1 DEF AsideOK, AsideAt, Whole
  <2>2. output \in Wikis \/ Holds(e) =>
            output \in Wikis \/ HoldsAt("restore", FailuresOf(e) + 1, TakenOf(e), backup[e])
    BY <1>0, <1>1, HoldsIs DEF AsideOK, AsideAt, HoldsAt, Wikis, Whole, MayReplace
  <2>3. "restore" \in {"clean", "done"} => output \in Wikis \/ PcOf(e) \in {"clean", "done"}
    BY <1>1 DEF Wikis
  <2> QED BY <1>0, <1>1, <2>1, <2>2, <2>3, ChangeKeeps
<1>2. CASE /\ PcOf(e) = "clean"
            /\ Change(e, "failing", FailuresOf(e) + 1, TakenOf(e), output, "part", temporary[e])
  <2>1. AsideAt(e, "failing", FailuresOf(e) + 1, TakenOf(e), "part", temporary[e])
    BY <1>0, <1>2 DEF AsideOK, AsideAt, Whole
  <2>2. output \in Wikis \/ Holds(e) =>
            output \in Wikis \/ HoldsAt("failing", FailuresOf(e) + 1, TakenOf(e), "part")
    BY <1>0, <1>2, HoldsIs DEF AsideOK, AsideAt, HoldsAt, Wikis, Whole, MayReplace
  <2>3. "failing" \in {"clean", "done"} => output \in Wikis \/ PcOf(e) \in {"clean", "done"}
    BY <1>2 DEF Wikis
  <2> QED BY <1>0, <1>2, <2>1, <2>2, <2>3, ChangeKeeps
<1>3. CASE /\ PcOf(e) \in {"write", "install", "set aside", "put", "restore"}
            /\ Change(e, "failing", FailuresOf(e) + 1, TakenOf(e), output, backup[e], temporary[e])
  <2>4. backup[e] = "none" \/ (PcOf(e) = "restore" /\ FailuresOf(e) + 1 + TakenOf(e) >= 2)
    <3>1. CASE PcOf(e) = "restore"
      BY <1>0, <3>1 DEF AsideOK, AsideAt
    <3>2. CASE PcOf(e) # "restore"
      BY <1>0, <1>3, <3>2 DEF AsideOK, AsideAt
    <3> QED BY <3>1, <3>2
  <2>1. AsideAt(e, "failing", FailuresOf(e) + 1, TakenOf(e), backup[e], temporary[e])
    BY <2>4 DEF AsideAt
  <2>2. output \in Wikis \/ Holds(e) =>
            output \in Wikis \/ HoldsAt("failing", FailuresOf(e) + 1, TakenOf(e), backup[e])
    <3>1. "none" \notin Wikis
      BY ExporterAssumption DEF Wikis
    <3>2. CASE backup[e] = "none"
      BY <3>1, <3>2 DEF Holds
    <3>3. CASE backup[e] # "none"
      BY <2>4, <3>3 DEF Holds, HoldsAt
    <3> QED BY <3>2, <3>3
  <2>3. "failing" \in {"clean", "done"} => output \in Wikis \/ PcOf(e) \in {"clean", "done"}
    BY <1>3 DEF Wikis
  <2> QED BY <1>0, <1>3, <2>1, <2>2, <2>3, ChangeKeeps
<1> QED BY <1>1, <1>2, <1>3, <1>0, ExportFailsChanges

LEMMA ExporterCrashesKeeps ==
    ASSUME BundleInv, NEW e \in Exporters, ExporterCrashes(e)
    PROVE  BundleInv' /\ (WikiIsKept => WikiIsKept')
<1>0. /\ BundleTypeOK /\ BundleTypeOK' /\ AsideOK(e)
      /\ PcOf(e) \in PCs /\ FailuresOf(e) \in Nat /\ TakenOf(e) \in Nat
      /\ output \in Whole \cup {"none"} /\ backup[e] \in Whole \cup {"none", "part"}
  BY ExporterCrashesChanges, KindsOf DEF BundleInv
<1>1. CASE /\ PcOf(e) \notin {"begin", "refused", "done", "failed", "crashed"}
            /\ Change(e, "crashed", FailuresOf(e), TakenOf(e), output, backup[e], temporary[e])
  <2>1. AsideAt(e, "crashed", FailuresOf(e), TakenOf(e), backup[e], temporary[e])
    BY <1>0, <1>1 DEF AsideOK, AsideAt, Whole
  <2>2. output \in Wikis \/ Holds(e) =>
            output \in Wikis \/ HoldsAt("crashed", FailuresOf(e), TakenOf(e), backup[e])
    BY <1>0, <1>1, HoldsIs DEF AsideOK, AsideAt, HoldsAt, Wikis, Whole, MayReplace
  <2>3. "crashed" \in {"clean", "done"} => output \in Wikis \/ PcOf(e) \in {"clean", "done"}
    BY <1>1 DEF Wikis
  <2> QED BY <1>0, <1>1, <2>1, <2>2, <2>3, ChangeKeeps
<1> QED BY <1>1, <1>0, ExporterCrashesChanges

-----------------------------------------------------------------------------
LEMMA BundleStep ==
    ASSUME BundleInv, [BundleNext]_bundleVars
    PROVE  BundleInv' /\ (WikiIsKept => WikiIsKept')
<1>1. CASE UNCHANGED bundleVars
  BY <1>1 DEF BundleInv, BundleTypeOK, PlacedOK, AsideOK, AsideAt, PcOf, FailuresOf, TakenOf, WikiIsKept,
              Holds, FailsTwice, bundleVars
<1>2. CASE BundleNext
  BY <1>2, ValidateKeeps, WriteBundleKeeps, LookAtKeeps, SetAsideKeeps, PutNewKeeps, ReplaceKeeps,
     RestoreKeeps, DropBackupKeeps, CleanUpKeeps, ExportFailsKeeps, ExporterCrashesKeeps
     DEF BundleNext
<1> QED BY <1>1, <1>2

(* However many exporters run at once, fail at any operation, find the     *)
(* place taken or crash: its place never holds a part of a wiki, once one  *)
(* has been put or was there one is kept, and an exporter that is over has *)
(* given back what it set aside, unless it failed twice or could not       *)
(* remove it (_install_completed_bundle).                                  *)
THEOREM BundleIsNeverTornHolds == BundleSpec => BundleIsNeverTorn
<1>1. BundleInit => BundleInv
  BY BundleInvInit
<1>2. BundleInv /\ [BundleNext]_bundleVars => BundleInv' /\ [WikiIsKept => WikiIsKept']_bundleVars
  BY BundleStep
<1>3. BundleInv => PlaceIsWhole
  BY DEF BundleInv, BundleTypeOK, Whole, PlaceIsWhole
<1>4. BundleInv => \A e \in Exporters : GivesBack(e)
  BY DEF BundleInv, AsideOK, AsideAt, GivesBack, FailsTwice, PcOf, FailuresOf, TakenOf
<1>5. BundleInv => WikiIsKept \/ \A e \in Exporters : export[e].pc # "done"
  BY DEF BundleInv, PlacedOK, PcOf
<1> QED BY <1>1, <1>2, <1>3, <1>4, <1>5, PTL DEF BundleSpec, BundleIsNeverTorn


(***************************************************************************)
(* The support files                                                       *)
(***************************************************************************)
USE InstallAssumption

PlanSteps == [op : {"stage", "replace", "remove"}, file : Files]
InstallPCs == {"begin", "refused", "install", "installed", "undo", "undone", "half undone",
               "failed", "crashed"}
Wanted(f) == IF IsLegacy(f) THEN "none" ELSE "ours"
Installations == [pc : InstallPCs, what : {"skill", "support"}, force : BOOLEAN,
                  stuck : SUBSET {"skill", "agent"}, steps : Seq(PlanSteps),
                  before : [Files -> Held], faults : Nat]
InstallTypeOK ==
    disk \in [Files -> Held] /\ staged \subseteq Files /\ installation \in Installations

(* What the steps of a plan may be, while installing and while undoing.    *)
InstallSteps == {x \in PlanSteps : IsLegacy(x.file) <=> x.op = "remove"}
UndoSteps(before) == {x \in PlanSteps : x.op = "remove" => before[x.file] = "none"}
(* A staging file is moved into its place by the very next step.           *)
Paired(steps) ==
    \A k \in DOMAIN steps : steps[k].op = "stage" =>
        k < Len(steps) /\ steps[k + 1] = Step("replace", steps[k].file)
Settles(x, f) == x.file = f /\ x.op # "stage"
Pending(steps, f) == \E k \in DOMAIN steps : Settles(steps[k], f)

IsPlan(steps, allowed) == steps \in Seq(allowed) /\ Paired(steps)
(* What is not yet as it should be has a step left that makes it so.       *)
InstallOK ==
    installation.pc = "install" =>
        /\ IsPlan(installation.steps, InstallSteps)
        /\ \A f \in Checked(installation.what) : disk[f] = Wanted(f) \/ Pending(installation.steps, f)
UndoOK ==
    installation.pc = "undo" =>
        /\ IsPlan(installation.steps, UndoSteps(installation.before))
        /\ \A f \in Files : disk[f] = installation.before[f] \/ Pending(installation.steps, f)
StagedOK ==
    installation.pc # "crashed" =>
        \A f \in staged : /\ Working /\ installation.steps # <<>>
                          /\ Head(installation.steps) = Step("replace", f)
StartOK == installation.pc = "begin" => disk = installation.before
(* When the skill alone is installed, the removal of the legacy one comes  *)
(* last: while a step is left, nothing but the skill has changed.          *)
SkillPlan(steps) ==
    \A k \in DOMAIN steps : /\ steps[k].op = "remove" => k = Len(steps)
                            /\ steps[k].op = "replace" => steps[k].file = "skill"
SkillOK ==
    installation.pc = "install" /\ installation.what = "skill" =>
        /\ SkillPlan(installation.steps)
        /\ installation.steps # <<>> =>
              \A f \in Files \ {"skill"} : disk[f] = installation.before[f]
InstallInv == /\ InstallTypeOK /\ InstallOK /\ UndoOK /\ StagedOK /\ StartOK /\ SkillOK
              /\ InstallIsAllOrNothing

-----------------------------------------------------------------------------
(* Plans                                                                   *)

LEMMA EmptyPlan ==
    ASSUME NEW S
    PROVE  IsPlan(<<>>, S)
  BY DEF IsPlan, Paired

LEMMA ReplacePlan ==
    ASSUME NEW S, NEW f, Step("stage", f) \in S, Step("replace", f) \in S
    PROVE  IsPlan(PutFile(f), S) /\ Pending(PutFile(f), f)
  <1> DEFINE p == PutFile(f)
  <1>1. /\ p \in Seq(S) /\ Len(p) = 2 /\ DOMAIN p = 1 .. 2
        /\ p[1] = Step("stage", f) /\ p[2] = Step("replace", f)
    BY DEF PutFile
  <1>2. /\ Step("stage", f).op = "stage" /\ Step("stage", f).file = f
        /\ Step("replace", f).op = "replace" /\ Step("replace", f).file = f
    BY DEF Step
  <1> HIDE DEF p
  <1>3. Paired(p)
    BY <1>1, <1>2 DEF Paired
  <1>4. Pending(p, f)
    BY <1>1, <1>2 DEF Pending, Settles
  <1> QED
    BY <1>1, <1>3, <1>4 DEF IsPlan, p

LEMMA RemovePlan ==
    ASSUME NEW S, NEW f, Step("remove", f) \in S
    PROVE  IsPlan(<<Step("remove", f)>>, S) /\ Pending(<<Step("remove", f)>>, f)
  <1> DEFINE p == <<Step("remove", f)>>
  <1>1. p \in Seq(S) /\ Len(p) = 1 /\ DOMAIN p = 1 .. 1 /\ p[1] = Step("remove", f)
    OBVIOUS
  <1>2. Step("remove", f).op = "remove" /\ Step("remove", f).file = f
    BY DEF Step
  <1> HIDE DEF p
  <1>3. Paired(p)
    BY <1>1, <1>2 DEF Paired
  <1>4. Pending(p, f)
    BY <1>1, <1>2 DEF Pending, Settles
  <1> QED
    BY <1>1, <1>3, <1>4 DEF IsPlan, p

(* One plan after another is a plan, and what was pending in one is.       *)
LEMMA PlanAfterPlan ==
    ASSUME NEW S, NEW s, NEW t, IsPlan(s, S), IsPlan(t, S)
    PROVE  /\ IsPlan(s \o t, S)
           /\ \A f : Pending(s, f) \/ Pending(t, f) => Pending(s \o t, f)
  <1> DEFINE c == s \o t
  <1>1. s \in Seq(S) /\ t \in Seq(S) /\ Paired(s) /\ Paired(t)
    BY DEF IsPlan
  <1>2. /\ c \in Seq(S) /\ Len(c) = Len(s) + Len(t)
        /\ Len(s) \in Nat /\ Len(t) \in Nat
        /\ DOMAIN s = 1 .. Len(s) /\ DOMAIN t = 1 .. Len(t) /\ DOMAIN c = 1 .. Len(s) + Len(t)
        /\ \A k \in 1 .. Len(s) : c[k] = s[k]
        /\ \A k \in 1 .. Len(t) : c[k + Len(s)] = t[k]
    BY <1>1
  <1> HIDE DEF c
  <1>3. ASSUME NEW k \in DOMAIN c, c[k].op = "stage"
        PROVE  k < Len(c) /\ c[k + 1] = Step("replace", c[k].file)
    <2>1. CASE k \in 1 .. Len(s)
      <3>1. k < Len(s) /\ s[k + 1] = Step("replace", s[k].file)
        BY <1>1, <1>2, <1>3, <2>1 DEF Paired
      <3> QED
        BY <3>1, <1>2, <2>1
    <2>2. CASE k \notin 1 .. Len(s)
      <3> DEFINE j == k - Len(s)
      <3>1. j \in 1 .. Len(t) /\ k = j + Len(s) /\ c[k] = t[j]
        <4>1. k \in Nat /\ k > Len(s) /\ k <= Len(s) + Len(t)
          BY <1>2, <2>2
        <4>2. j \in 1 .. Len(t) /\ k = j + Len(s)
          BY <4>1, <1>2
        <4> QED
          BY <4>2, <1>2
      <3> HIDE DEF j
      <3>2. j < Len(t) /\ t[j + 1] = Step("replace", t[j].file)
        BY <3>1, <1>1, <1>2, <1>3 DEF Paired
      <3>3. j + 1 \in 1 .. Len(t) /\ (j + 1) + Len(s) = k + 1
        BY <3>1, <3>2, <1>2
      <3> QED
        BY <3>1, <3>2, <3>3, <1>2
    <2> QED
      BY <2>1, <2>2
  <1>4. Paired(c)
    BY <1>3 DEF Paired
  <1>5. ASSUME NEW f, Pending(s, f) \/ Pending(t, f)
        PROVE  Pending(c, f)
    <2>1. ASSUME NEW k \in DOMAIN s, Settles(s[k], f)
          PROVE  Pending(c, f)
      BY <2>1, <1>2 DEF Pending
    <2>2. ASSUME NEW k \in DOMAIN t, Settles(t[k], f)
          PROVE  Pending(c, f)
      <3>1. k + Len(s) \in DOMAIN c /\ c[k + Len(s)] = t[k]
        BY <1>2
      <3> QED
        BY <3>1, <2>2 DEF Pending
    <2> QED
      BY <1>5, <2>1, <2>2 DEF Pending
  <1> QED
    BY <1>2, <1>4, <1>5 DEF IsPlan, c

(* Plans for five files, one after the other.                              *)
LEMMA FivePlans ==
    ASSUME NEW S, NEW p1, NEW p2, NEW p3, NEW p4, NEW p5,
           IsPlan(p1, S), IsPlan(p2, S), IsPlan(p3, S), IsPlan(p4, S), IsPlan(p5, S)
    PROVE  /\ IsPlan(p1 \o p2 \o p3 \o p4 \o p5, S)
           /\ \A f : \/ Pending(p1, f) \/ Pending(p2, f) \/ Pending(p3, f) \/ Pending(p4, f)
                     \/ Pending(p5, f)
                  => Pending(p1 \o p2 \o p3 \o p4 \o p5, f)
  <1> DEFINE a == p1 \o p2
             b == a \o p3
             c == b \o p4
             d == c \o p5
  <1>1. IsPlan(a, S) /\ \A f : Pending(p1, f) \/ Pending(p2, f) => Pending(a, f)
    BY PlanAfterPlan
  <1> HIDE DEF a
  <1>2. IsPlan(b, S) /\ \A f : Pending(a, f) \/ Pending(p3, f) => Pending(b, f)
    BY <1>1, PlanAfterPlan
  <1> HIDE DEF b
  <1>3. IsPlan(c, S) /\ \A f : Pending(b, f) \/ Pending(p4, f) => Pending(c, f)
    BY <1>2, PlanAfterPlan
  <1> HIDE DEF c
  <1>4. IsPlan(d, S) /\ \A f : Pending(c, f) \/ Pending(p5, f) => Pending(d, f)
    BY <1>3, PlanAfterPlan
  <1> HIDE DEF d
  <1>5. /\ IsPlan(d, S)
        /\ \A f : \/ Pending(p1, f) \/ Pending(p2, f) \/ Pending(p3, f) \/ Pending(p4, f)
                  \/ Pending(p5, f)
                  => Pending(d, f)
    BY <1>1, <1>2, <1>3, <1>4
  <1> QED
    BY <1>5 DEF a, b, c, d

LEMMA StepFacts ==
    ASSUME NEW f \in Files, NEW o \in {"stage", "replace", "remove"}
    PROVE  Step(o, f) \in PlanSteps /\ Step(o, f).op = o /\ Step(o, f).file = f
  BY DEF Step, PlanSteps

(* What the two plans of the installation settle.                          *)
LEMMA WritePlan ==
    ASSUME NEW f \in Files, ~IsLegacy(f), NEW what
    PROVE  /\ IsPlan(PutIf(f, Writes(what, f)), InstallSteps)
           /\ Writes(what, f) => Pending(PutIf(f, Writes(what, f)), f)
  <1>1. Step("stage", f) \in InstallSteps /\ Step("replace", f) \in InstallSteps
    BY StepFacts DEF InstallSteps
  <1>2. IsPlan(PutFile(f), InstallSteps) /\ Pending(PutFile(f), f)
    BY <1>1, ReplacePlan
  <1>3. IsPlan(<<>>, InstallSteps)
    BY EmptyPlan
  <1>4. CASE Writes(what, f)
    BY <1>4, <1>2 DEF PutIf
  <1>5. CASE ~Writes(what, f)
    BY <1>5, <1>3 DEF PutIf
  <1> QED
    BY <1>4, <1>5

LEMMA RemovalPlan ==
    ASSUME NEW f \in Files, IsLegacy(f), NEW what
    PROVE  /\ IsPlan(RemoveIf(f, Removes(what, f)), InstallSteps)
           /\ Removes(what, f) => Pending(RemoveIf(f, Removes(what, f)), f)
  <1>1. Step("remove", f) \in InstallSteps
    BY StepFacts DEF InstallSteps
  <1>2. IsPlan(<<Step("remove", f)>>, InstallSteps) /\ Pending(<<Step("remove", f)>>, f)
    BY <1>1, RemovePlan
  <1>3. IsPlan(<<>>, InstallSteps)
    BY EmptyPlan
  <1>4. CASE Removes(what, f)
    BY <1>4, <1>2 DEF RemoveIf
  <1>5. CASE ~Removes(what, f)
    BY <1>5, <1>3 DEF RemoveIf
  <1> QED
    BY <1>4, <1>5

LEMMA StepsPlan ==
    ASSUME NEW what \in {"skill", "support"}
    PROVE  /\ IsPlan(Steps(what), InstallSteps)
           /\ \A f \in Checked(what) : disk[f] = Wanted(f) \/ Pending(Steps(what), f)
  <1> DEFINE put(f) == PutIf(f, Writes(what, f))
             drop(f) == RemoveIf(f, Removes(what, f))
             steps == put("skill") \o put("plugin") \o put("agent")
                          \o drop("legacy tool") \o drop("legacy skill")
  <1>1. /\ ~IsLegacy("skill") /\ ~IsLegacy("plugin") /\ ~IsLegacy("agent")
        /\ IsLegacy("legacy tool") /\ IsLegacy("legacy skill")
    BY DEF IsLegacy
  <1>2. /\ "skill" \in Files /\ "plugin" \in Files /\ "agent" \in Files
        /\ "legacy tool" \in Files /\ "legacy skill" \in Files
    BY DEF Files
  <1>3. ASSUME NEW f \in {"skill", "plugin", "agent"}
        PROVE  IsPlan(put(f), InstallSteps) /\ (Writes(what, f) => Pending(put(f), f))
    BY <1>1, <1>2, WritePlan
  <1>4. ASSUME NEW f \in {"legacy tool", "legacy skill"}
        PROVE  IsPlan(drop(f), InstallSteps) /\ (Removes(what, f) => Pending(drop(f), f))
    BY <1>1, <1>2, RemovalPlan
  <1>5. ASSUME NEW f \in Checked(what), ~IsLegacy(f)
        PROVE  f \in {"skill", "plugin", "agent"} /\ (disk[f] = Wanted(f) \/ Writes(what, f))
    BY <1>5 DEF Checked, Files, IsLegacy, Wanted, Writes
  <1>6. ASSUME NEW f \in Checked(what), IsLegacy(f)
        PROVE  f \in {"legacy tool", "legacy skill"} /\ (disk[f] = Wanted(f) \/ Removes(what, f))
    BY <1>6 DEF Checked, Files, IsLegacy, Wanted, Removes
  <1> HIDE DEF put, drop
  <1>7. /\ IsPlan(put("skill"), InstallSteps) /\ IsPlan(put("plugin"), InstallSteps)
        /\ IsPlan(put("agent"), InstallSteps)
        /\ IsPlan(drop("legacy tool"), InstallSteps) /\ IsPlan(drop("legacy skill"), InstallSteps)
    BY <1>3, <1>4
  <1>8. /\ IsPlan(steps, InstallSteps)
        /\ \A f : \/ Pending(put("skill"), f) \/ Pending(put("plugin"), f) \/ Pending(put("agent"), f)
                  \/ Pending(drop("legacy tool"), f) \/ Pending(drop("legacy skill"), f)
                  => Pending(steps, f)
    BY <1>7, FivePlans
  <1> HIDE DEF steps
  <1>9. ASSUME NEW f \in Checked(what)
        PROVE  disk[f] = Wanted(f) \/ Pending(steps, f)
    <2>1. CASE IsLegacy(f)
      BY <2>1, <1>6, <1>4, <1>8
    <2>2. CASE ~IsLegacy(f)
      BY <2>2, <1>5, <1>3, <1>8
    <2> QED
      BY <2>1, <2>2
  <1>10. steps = Steps(what)
    BY DEF steps, put, drop, Steps
  <1> QED
    BY <1>8, <1>9, <1>10

LEMMA ShortPlans ==
    ASSUME NEW S, NEW a \in S, NEW b \in S
    PROVE  <<>> \in Seq(S) /\ <<a>> \in Seq(S) /\ <<a, b>> \in Seq(S)
  OBVIOUS

(* A file that is put, and then perhaps one that is removed.               *)
LEMMA PutThenRemove ==
    ASSUME NEW p \in Seq(PlanSteps), NEW r \in Seq(PlanSteps), NEW f,
           p = PutFile("skill"), r = <<>> \/ r = <<Step("remove", f)>>
    PROVE  SkillPlan(p \o r)
  <1> DEFINE s == p \o r
  <1>1. /\ Len(p) = 2 /\ p[1] = Step("stage", "skill") /\ p[2] = Step("replace", "skill")
    BY DEF PutFile
  <1>2. Len(r) \in {0, 1} /\ (Len(r) = 1 => r[1] = Step("remove", f))
    OBVIOUS
  <1>3. /\ s \in Seq(PlanSteps) /\ Len(s) = Len(p) + Len(r)
        /\ \A k \in 1 .. Len(p) + Len(r) : s[k] = IF k <= Len(p) THEN p[k] ELSE r[k - Len(p)]
    BY ConcatProperties
  <1>4. /\ Step("stage", "skill").op = "stage" /\ Step("replace", "skill").op = "replace"
        /\ Step("replace", "skill").file = "skill" /\ Step("remove", f).op = "remove"
    BY DEF Step
  <1> HIDE DEF s
  <1>5. ASSUME NEW k \in DOMAIN s
        PROVE  /\ s[k].op = "remove" => k = Len(s)
               /\ s[k].op = "replace" => s[k].file = "skill"
    <2>1. k \in 1 .. 2 + Len(r) /\ Len(s) = 2 + Len(r)
      BY <1>1, <1>2, <1>3
    <2>2. CASE k = 1
      BY <2>2, <2>1, <1>1, <1>2, <1>3, <1>4
    <2>3. CASE k = 2
      BY <2>3, <2>1, <1>1, <1>2, <1>3, <1>4
    <2>4. CASE k = 3 /\ Len(r) = 1
      BY <2>4, <2>1, <1>1, <1>2, <1>3, <1>4
    <2>5. k = 1 \/ k = 2 \/ (k = 3 /\ Len(r) = 1)
      <3>1. CASE Len(r) = 0
        <4>1. k \in 1 .. 2
          BY <2>1, <3>1
        <4> QED
          BY <4>1
      <3>2. CASE Len(r) = 1
        <4>1. k \in 1 .. 3
          BY <2>1, <3>2
        <4> QED
          BY <4>1, <3>2
      <3> QED
        BY <1>2, <3>1, <3>2
    <2> QED
      BY <2>2, <2>3, <2>4, <2>5
  <1> QED
    BY <1>5 DEF SkillPlan, s

LEMMA SkillPlanOfSteps == SkillPlan(Steps("skill"))
  <1> DEFINE p == PutFile("skill")
             c == Step("remove", "legacy skill")
             r == RemoveIf("legacy skill", Removes("skill", "legacy skill"))
  <1>1. /\ PutIf("skill", Writes("skill", "skill")) = p
        /\ PutIf("plugin", Writes("skill", "plugin")) = <<>>
        /\ PutIf("agent", Writes("skill", "agent")) = <<>>
        /\ RemoveIf("legacy tool", Removes("skill", "legacy tool")) = <<>>
    BY DEF Writes, Removes, PutIf, RemoveIf
  <1>2. Steps("skill") = p \o <<>> \o <<>> \o <<>> \o r
    BY <1>1 DEF Steps
  <1>3. r = <<>> \/ r = <<c>>
    BY DEF RemoveIf
  <1>4. /\ Step("stage", "skill") \in PlanSteps /\ Step("replace", "skill") \in PlanSteps
        /\ c \in PlanSteps
    BY StepFacts DEF Files
  <1>5. p \in Seq(PlanSteps)
    BY <1>4, ShortPlans DEF PutFile
  <1> HIDE DEF c, p, r
  <1>6. r \in Seq(PlanSteps)
    BY <1>3, <1>4, ShortPlans
  <1>7. p \o <<>> = p
    BY <1>5, ConcatEmptySeq
  <1>8. Steps("skill") = p \o r
    BY <1>2, <1>7
  <1> QED
    BY <1>3, <1>5, <1>6, <1>8, PutThenRemove DEF p, c

LEMMA SkillPlanTail ==
    ASSUME NEW s \in Seq(PlanSteps), s # <<>>, SkillPlan(s)
    PROVE  /\ SkillPlan(Tail(s))
           /\ Head(s).op = "remove" => Tail(s) = <<>>
           /\ Head(s).op = "replace" => Head(s).file = "skill"
  <1> DEFINE t == Tail(s)
  <1>1. /\ Head(s) = s[1] /\ Len(s) \in Nat /\ Len(s) >= 1 /\ DOMAIN s = 1 .. Len(s)
        /\ t \in Seq(PlanSteps) /\ Len(t) = Len(s) - 1 /\ DOMAIN t = 1 .. Len(s) - 1
        /\ \A k \in 1 .. Len(s) - 1 : t[k] = s[k + 1]
    OBVIOUS
  <1>2. Len(s) = 1 => t = <<>>
    BY <1>1
  <1> HIDE DEF t
  <1>3. SkillPlan(t)
    BY <1>1 DEF SkillPlan
  <1> QED
    BY <1>1, <1>2, <1>3 DEF SkillPlan, t

LEMMA UndoPlan ==
    ASSUME NEW before, NEW f \in Files
    PROVE  /\ IsPlan(Undo(before, f), UndoSteps(before))
           /\ disk[f] # before[f] => Pending(Undo(before, f), f)
  <1> DEFINE S == UndoSteps(before)
  <1>1. Step("stage", f) \in S /\ Step("replace", f) \in S
    BY StepFacts DEF UndoSteps
  <1>2. before[f] = "none" => Step("remove", f) \in S
    BY StepFacts DEF UndoSteps
  <1> HIDE DEF S
  <1>3. IsPlan(PutFile(f), S) /\ Pending(PutFile(f), f)
    BY <1>1, ReplacePlan
  <1>4. before[f] = "none" =>
            IsPlan(<<Step("remove", f)>>, S) /\ Pending(<<Step("remove", f)>>, f)
    BY <1>2, RemovePlan
  <1>5. IsPlan(<<>>, S)
    BY EmptyPlan
  <1>6. CASE before[f] # "none"
    BY <1>6, <1>3 DEF Undo, S
  <1>7. CASE before[f] = "none" /\ disk[f] # "none"
    BY <1>7, <1>4 DEF Undo, RemoveIf, S
  <1>8. CASE before[f] = "none" /\ disk[f] = "none"
    BY <1>8, <1>5 DEF Undo, RemoveIf, S
  <1> QED
    BY <1>6, <1>7, <1>8

LEMMA UndoingPlan ==
    ASSUME NEW before
    PROVE  /\ IsPlan(Undoing(before), UndoSteps(before))
           /\ \A f \in Files : disk[f] = before[f] \/ Pending(Undoing(before), f)
  <1> DEFINE undo(f) == Undo(before, f)
             S == UndoSteps(before)
             steps == undo("agent") \o undo("plugin") \o undo("skill")
                          \o undo("legacy skill") \o undo("legacy tool")
  <1>1. ASSUME NEW f \in Files
        PROVE  IsPlan(undo(f), S) /\ (disk[f] # before[f] => Pending(undo(f), f))
    BY UndoPlan
  <1> HIDE DEF undo, S
  <1>2. /\ IsPlan(undo("agent"), S) /\ IsPlan(undo("plugin"), S) /\ IsPlan(undo("skill"), S)
        /\ IsPlan(undo("legacy skill"), S) /\ IsPlan(undo("legacy tool"), S)
    BY <1>1 DEF Files
  <1>3. /\ IsPlan(steps, S)
        /\ \A f : \/ Pending(undo("agent"), f) \/ Pending(undo("plugin"), f) \/ Pending(undo("skill"), f)
                  \/ Pending(undo("legacy skill"), f) \/ Pending(undo("legacy tool"), f)
                  => Pending(steps, f)
    BY <1>2, FivePlans
  <1> HIDE DEF steps
  <1>4. ASSUME NEW f \in Files
        PROVE  disk[f] = before[f] \/ Pending(steps, f)
    BY <1>1, <1>3 DEF Files
  <1>5. steps = Undoing(before)
    BY DEF steps, undo, Undoing
  <1> QED
    BY <1>3, <1>4, <1>5 DEF S

-----------------------------------------------------------------------------
(* The first step of a plan, and what is left after it.                    *)
LEMMA PlanTail ==
    ASSUME NEW S, NEW s, IsPlan(s, S), s # <<>>
    PROVE  /\ Head(s) \in S /\ Head(s) = s[1] /\ IsPlan(Tail(s), S)
           /\ \A f : Pending(s, f) => Settles(Head(s), f) \/ Pending(Tail(s), f)
           /\ Head(s).op = "stage" =>
                 Tail(s) # <<>> /\ Head(Tail(s)) = Step("replace", Head(s).file)
  <1> DEFINE t == Tail(s)
             h == Head(s)
  <1>1. s \in Seq(S) /\ Paired(s)
    BY DEF IsPlan
  <1>2. /\ h \in S /\ h = s[1] /\ t \in Seq(S) /\ Len(s) \in Nat /\ Len(s) >= 1
        /\ Len(t) = Len(s) - 1 /\ DOMAIN t = 1 .. Len(s) - 1 /\ DOMAIN s = 1 .. Len(s)
        /\ \A k \in 1 .. Len(s) - 1 : t[k] = s[k + 1]
    BY <1>1
  <1>3. t # <<>> => Head(t) = t[1]
    BY <1>2
  <1>4. t = <<>> => Len(t) = 0
    BY <1>2
  <1> HIDE DEF t, h
  <1>5. ASSUME NEW k \in DOMAIN t, t[k].op = "stage"
        PROVE  k < Len(t) /\ t[k + 1] = Step("replace", t[k].file)
    <2>1. k + 1 \in DOMAIN s /\ s[k + 1] = t[k]
      BY <1>2
    <2>2. k + 1 < Len(s) /\ s[(k + 1) + 1] = Step("replace", s[k + 1].file)
      BY <2>1, <1>1, <1>5 DEF Paired
    <2>3. k < Len(t) /\ k + 1 \in DOMAIN t
      BY <2>2, <1>2
    <2> QED
      BY <2>1, <2>2, <2>3, <1>2
  <1>6. ASSUME NEW f, NEW k \in DOMAIN s, Settles(s[k], f)
        PROVE  Settles(h, f) \/ Pending(t, f)
    <2>1. CASE k = 1
      BY <2>1, <1>6, <1>2
    <2>2. CASE k # 1
      <3>1. k - 1 \in DOMAIN t /\ t[k - 1] = s[k]
        BY <2>2, <1>2
      <3> QED
        BY <3>1, <1>6 DEF Pending
    <2> QED
      BY <2>1, <2>2
  <1>7. ASSUME h.op = "stage"
        PROVE  t # <<>> /\ Head(t) = Step("replace", h.file)
    <2>1. 1 < Len(s) /\ s[1 + 1] = Step("replace", s[1].file)
      BY <1>1, <1>2, <1>7 DEF Paired
    <2>2. 1 \in DOMAIN t /\ t[1] = s[1 + 1] /\ t # <<>>
      BY <2>1, <1>2, <1>4
    <2> QED
      BY <2>1, <2>2, <1>2, <1>3
  <1>8. Paired(t)
    BY <1>5 DEF Paired
  <1>9. \A f : Pending(s, f) => Settles(h, f) \/ Pending(t, f)
    BY <1>6 DEF Pending
  <1> QED
    BY <1>2, <1>7, <1>8, <1>9 DEF IsPlan, t, h

-----------------------------------------------------------------------------
(* Steps of the installation                                               *)

LEMMA GoesFacts ==
    ASSUME installation \in Installations, NEW pc \in InstallPCs, NEW steps \in Seq(PlanSteps),
           Goes(pc, steps)
    PROVE  /\ installation' \in Installations
           /\ installation'.pc = pc /\ installation'.steps = steps
           /\ installation'.what = installation.what /\ installation'.before = installation.before
  <1> DEFINE T == Seq(PlanSteps)
             M == [Files -> Held]
             P == InstallPCs
             K == SUBSET {"skill", "agent"}
  <1>1. /\ installation \in [pc : P, what : {"skill", "support"}, force : BOOLEAN, stuck : K,
                             steps : T, before : M, faults : Nat]
        /\ pc \in P /\ steps \in T
        /\ installation' = [installation EXCEPT !.pc = pc, !.steps = steps]
    BY DEF Installations, Goes
  <1> HIDE DEF T, M, P, K
  <1>2. /\ installation' \in [pc : P, what : {"skill", "support"}, force : BOOLEAN, stuck : K,
                              steps : T, before : M, faults : Nat]
        /\ installation'.pc = pc /\ installation'.steps = steps
        /\ installation'.what = installation.what /\ installation'.before = installation.before
    BY <1>1
  <1> QED
    BY <1>2 DEF Installations, T, M, P, K

LEMMA FailFacts ==
    ASSUME InstallTypeOK, InstallFails
    PROVE  /\ installation' \in Installations
           /\ installation'.what = installation.what /\ installation'.before = installation.before
           /\ disk' = disk /\ staged' = staged \ {Head(installation.steps).file}
           /\ Working /\ installation.steps # <<>>
           /\ \/ /\ installation'.pc = "undo" /\ installation'.steps = Undoing(installation.before)
              \/ /\ installation.pc = "undo" /\ installation'.pc = "half undone"
                 /\ installation'.steps = installation.steps
              \/ /\ installation.pc = "install" /\ installation.what = "skill"
                 /\ installation'.pc = "failed" /\ installation'.steps = installation.steps
  <1> DEFINE T == Seq(PlanSteps)
             M == [Files -> Held]
             P == InstallPCs
             K == SUBSET {"skill", "agent"}
             x == Head(installation.steps)
             stuck == x.op = "replace" /\ x.file \in installation.stuck
             faults == installation.faults + (IF stuck THEN 0 ELSE 1)
             pc == IF RollsBack THEN "undo"
                   ELSE IF installation.pc = "undo" THEN "half undone" ELSE "failed"
             steps == IF RollsBack THEN Undoing(installation.before) ELSE installation.steps
  <1>1. installation \in Installations
    BY DEF InstallTypeOK, Installations
  <1>2. /\ installation' = [installation EXCEPT !.faults = faults, !.pc = pc, !.steps = steps]
        /\ staged' = staged \ {x.file} /\ disk' = disk
        /\ Working /\ installation.steps # <<>>
    BY DEF InstallFails
  <1>3. faults \in Nat
    BY <1>1 DEF Installations
  <1>4. \/ pc = "undo" /\ steps = Undoing(installation.before)
        \/ installation.pc = "undo" /\ pc = "half undone" /\ steps = installation.steps
        \/ /\ installation.pc = "install" /\ installation.what = "skill"
           /\ pc = "failed" /\ steps = installation.steps
    BY <1>1, <1>2 DEF RollsBack, Working, Installations
  <1>5. pc \in P
    BY DEF InstallPCs
  <1>6. steps \in T
    <2>1. IsPlan(Undoing(installation.before), UndoSteps(installation.before))
      BY UndoingPlan
    <2>2. UndoSteps(installation.before) \subseteq PlanSteps
      BY DEF UndoSteps
    <2>3. Undoing(installation.before) \in Seq(PlanSteps)
      BY <2>1, <2>2 DEF IsPlan
    <2>4. installation.steps \in Seq(PlanSteps)
      BY <1>1 DEF Installations
    <2> QED
      BY <2>3, <2>4
  <1> HIDE DEF x, stuck, faults, pc, steps
  <1>7. installation \in [pc : P, what : {"skill", "support"}, force : BOOLEAN, stuck : K,
                          steps : T, before : M, faults : Nat]
    BY <1>1 DEF Installations
  <1> HIDE DEF T, M, P, K
  <1>8. /\ installation' \in [pc : P, what : {"skill", "support"}, force : BOOLEAN, stuck : K,
                              steps : T, before : M, faults : Nat]
        /\ installation'.pc = pc /\ installation'.steps = steps
        /\ installation'.what = installation.what /\ installation'.before = installation.before
    BY <1>2, <1>3, <1>5, <1>6, <1>7
  <1>9. installation' \in Installations
    BY <1>8 DEF Installations, T, M, P, K
  <1> QED
    BY <1>2, <1>4, <1>8, <1>9 DEF x

(* The parts of the property, for the kinds of state a step leads to.      *)
Mixed(d) == \A f \in Files : d[f] \in {installation.before[f], Wanted(f)}

LEMMA PlansAreSteps ==
    /\ \A s : IsPlan(s, InstallSteps) => s \in Seq(PlanSteps)
    /\ \A before, s : IsPlan(s, UndoSteps(before)) => s \in Seq(PlanSteps)
  BY DEF IsPlan, InstallSteps, UndoSteps

LEMMA InstallFirst ==
    ASSUME InstallInit
    PROVE  InstallInv
  <1>1. PICK d \in Disks, what \in {"skill", "support"}, force \in BOOLEAN,
             stuck \in SUBSET {"skill", "agent"} :
            /\ disk = d /\ staged = {}
            /\ installation = [pc |-> "begin", what |-> what, force |-> force, stuck |-> stuck,
                               steps |-> <<>>, before |-> d, faults |-> 0]
    BY DEF InstallInit
  <1>2. d \in [Files -> Held]
    OBVIOUS
  <1>3. <<>> \in Seq(PlanSteps)
    OBVIOUS
  <1>4. installation \in Installations
    BY <1>1, <1>2, <1>3 DEF Installations, InstallPCs
  <1>5. installation.pc = "begin" /\ installation.before = d
    BY <1>1
  <1>6. disk = d /\ staged = {}
    BY <1>1
  <1> QED
    BY <1>2, <1>4, <1>5, <1>6
       DEF InstallInv, InstallTypeOK, Installations, InstallOK, UndoOK, StagedOK, StartOK, SkillOK,
           InstallIsAllOrNothing

LEMMA BeginStep ==
    ASSUME InstallInv, Begin
    PROVE  InstallInv'
  <1> USE DEF InstallInv
  <1>1. installation \in Installations /\ installation.pc = "begin" /\ disk = installation.before
        /\ installation.what \in {"skill", "support"} /\ disk \in [Files -> Held]
    BY DEF Begin, InstallTypeOK, StartOK, Installations
  <1>2. disk' = disk /\ staged' = staged /\ staged = {}
    BY <1>1 DEF Begin, StagedOK, Working
  <1>3. CASE Goes("refused", <<>>)
    <2>1. "refused" \in InstallPCs /\ <<>> \in Seq(PlanSteps)
      BY DEF InstallPCs
    <2>2. /\ installation' \in Installations /\ installation'.pc = "refused"
          /\ installation'.before = installation.before
      BY <1>1, <1>3, <2>1, GoesFacts
    <2> QED
      BY <1>1, <1>2, <2>2
         DEF InstallTypeOK, Installations, InstallOK, UndoOK, StagedOK, StartOK, SkillOK,
             InstallIsAllOrNothing
  <1>4. CASE Goes("install", Steps(installation.what))
    <2> DEFINE steps == Steps(installation.what)
    <2>1. /\ IsPlan(steps, InstallSteps)
          /\ \A f \in Checked(installation.what) : disk[f] = Wanted(f) \/ Pending(steps, f)
      BY <1>1, StepsPlan
    <2> HIDE DEF steps
    <2>2. steps \in Seq(PlanSteps) /\ "install" \in InstallPCs
      BY <2>1, PlansAreSteps DEF InstallPCs
    <2>3. Goes("install", steps)
      BY <1>4 DEF steps
    <2>4. /\ installation' \in Installations /\ installation'.pc = "install"
          /\ installation'.steps = steps /\ installation'.what = installation.what
          /\ installation'.before = installation.before
      BY <1>1, <2>2, <2>3, GoesFacts
    <2>5. InstallOK'
      BY <1>2, <2>1, <2>4 DEF InstallOK
    <2>6. SkillOK'
      BY <1>1, <1>2, <2>4, SkillPlanOfSteps DEF SkillOK, steps
    <2> QED
      BY <1>1, <1>2, <2>4, <2>5, <2>6
         DEF InstallTypeOK, Installations, UndoOK, StagedOK, StartOK, InstallIsAllOrNothing
  <1> QED
    BY <1>3, <1>4 DEF Begin

Aim(f) == IF installation.pc = "undo" THEN installation.before[f] ELSE Wanted(f)

(* One step of a plan changes no file but its own, to what was aimed at.   *)
LEMMA ProceedFacts ==
    ASSUME InstallInv, Proceed, NEW S, IsPlan(installation.steps, S),
           S \subseteq PlanSteps,
           \A x \in S : x.op = "remove" => Aim(x.file) = "none",
           \A x \in S : x.op = "replace" => Content(x.file) = Aim(x.file)
    PROVE  /\ disk' \in [Files -> Held] /\ staged' \subseteq Files
           /\ \A f \in Files : disk'[f] = IF Settles(Head(installation.steps), f) THEN Aim(f) ELSE disk[f]
           /\ \A f \in staged' : /\ Tail(installation.steps) # <<>>
                                 /\ Head(Tail(installation.steps)) = Step("replace", f)
  <1> DEFINE x == Head(installation.steps)
             t == Tail(installation.steps)
  <1>1. /\ x \in S /\ x \in PlanSteps
        /\ x.op = "stage" => t # <<>> /\ Head(t) = Step("replace", x.file)
    BY PlanTail DEF Proceed
  <1>2. x.op \in {"stage", "replace", "remove"} /\ x.file \in Files
    BY <1>1 DEF PlanSteps
  <1>3. \A f \in staged : x = Step("replace", f)
    BY DEF InstallInv, StagedOK, Proceed, Working
  <1>4. \A f \in staged : x.op = "replace" /\ x.file = f
    <2>1. \A f \in staged : Step("replace", f).op = "replace" /\ Step("replace", f).file = f
      BY StepFacts DEF InstallInv, InstallTypeOK
    <2> HIDE DEF x
    <2> QED
      BY <1>3, <2>1
  <1>5. disk \in [Files -> Held] /\ staged \subseteq Files
    BY DEF InstallInv, InstallTypeOK
  <1>6. \A f \in Files : Aim(f) \in Held
    BY DEF InstallInv, InstallTypeOK, Installations, Aim, Wanted, Held
  <1>7. Do(x)
    BY DEF Proceed
  <1>8. x.op = "remove" => Aim(x.file) = "none"
    BY <1>1
  <1>9. x.op = "replace" => Content(x.file) = Aim(x.file)
    BY <1>1
  <1> HIDE DEF x, t
  <1>10. CASE x.op = "stage"
    <2>1. disk' = disk /\ staged' = staged \cup {x.file}
      BY <1>7, <1>10 DEF Do
    <2>2. staged' = {x.file}
      BY <2>1, <1>4, <1>10
    <2>3. \A f \in Files : ~Settles(x, f)
      BY <1>10 DEF Settles
    <2> QED
      BY <2>1, <2>2, <2>3, <1>1, <1>2, <1>5, <1>10 DEF x, t
  <1>11. CASE x.op = "replace"
    <2>1. disk' = [disk EXCEPT ![x.file] = Content(x.file)] /\ staged' = staged \ {x.file}
      BY <1>7, <1>11 DEF Do
    <2>2. staged' = {}
      BY <2>1, <1>4
    <2>3. \A f \in Files : Settles(x, f) <=> f = x.file
      BY <1>11 DEF Settles
    <2> DEFINE a == Aim(x.file)
    <2>4. disk' = [disk EXCEPT ![x.file] = a] /\ a \in Held
      BY <2>1, <1>9, <1>11, <1>2, <1>6
    <2> HIDE DEF a
    <2>5. disk' \in [Files -> Held] /\ \A f \in Files : disk'[f] = IF f = x.file THEN a ELSE disk[f]
      BY <2>4, <1>5, <1>2
    <2>6. \A f \in Files : disk'[f] = IF Settles(x, f) THEN Aim(f) ELSE disk[f]
      BY <2>3, <2>5 DEF a
    <2> QED
      BY <2>2, <2>5, <2>6 DEF x
  <1>12. CASE x.op = "remove"
    <2>1. disk' = [disk EXCEPT ![x.file] = "none"] /\ staged' = staged
      BY <1>7, <1>12 DEF Do
    <2>2. staged' = {}
      BY <2>1, <1>4, <1>12
    <2>3. \A f \in Files : Settles(x, f) <=> f = x.file
      BY <1>12 DEF Settles
    <2>4. disk' \in [Files -> Held] /\ \A f \in Files : disk'[f] = IF f = x.file THEN "none" ELSE disk[f]
      BY <2>1, <1>5, <1>2 DEF Held
    <2>5. \A f \in Files : disk'[f] = IF Settles(x, f) THEN Aim(f) ELSE disk[f]
      BY <2>3, <2>4, <1>8, <1>12
    <2> QED
      BY <2>2, <2>4, <2>5 DEF x
  <1> QED
    BY <1>2, <1>10, <1>11, <1>12

LEMMA ProceedStep ==
    ASSUME InstallInv, Proceed
    PROVE  InstallInv'
  <1> DEFINE steps == installation.steps
             S == IF installation.pc = "undo" THEN UndoSteps(installation.before) ELSE InstallSteps
  <1>1. /\ installation \in Installations /\ installation.pc \in {"install", "undo"} /\ steps # <<>>
        /\ Goes(installation.pc, Tail(steps)) /\ steps \in Seq(PlanSteps)
    BY DEF Proceed, Working, InstallInv, InstallTypeOK, Installations
  <1>2. IsPlan(steps, S)
    BY <1>1 DEF InstallInv, InstallOK, UndoOK
  <1>3. S \subseteq PlanSteps
    BY DEF UndoSteps, InstallSteps
  <1>4. \A x \in S : x.op = "remove" => Aim(x.file) = "none"
    BY <1>1 DEF UndoSteps, InstallSteps, Aim, Wanted
  <1>5. \A x \in S : x.op = "replace" => Content(x.file) = Aim(x.file)
    BY <1>1 DEF UndoSteps, InstallSteps, Aim, Wanted, Content
  <1>6. /\ disk' \in [Files -> Held] /\ staged' \subseteq Files
        /\ \A f \in Files : disk'[f] = IF Settles(Head(steps), f) THEN Aim(f) ELSE disk[f]
        /\ \A f \in staged' : Tail(steps) # <<>> /\ Head(Tail(steps)) = Step("replace", f)
    <2> HIDE DEF S
    <2> QED
      BY <1>2, <1>3, <1>4, <1>5, ProceedFacts
  <1>7. /\ IsPlan(Tail(steps), S)
        /\ \A f : Pending(steps, f) => Settles(Head(steps), f) \/ Pending(Tail(steps), f)
    BY <1>1, <1>2, PlanTail
  <1>8. Tail(steps) \in Seq(PlanSteps)
    BY <1>1
  <1>9. installation.pc \in InstallPCs
    BY <1>1 DEF InstallPCs
  <1>10. /\ installation' \in Installations /\ installation'.pc = installation.pc
         /\ installation'.steps = Tail(steps) /\ installation'.what = installation.what
         /\ installation'.before = installation.before
    BY <1>1, <1>8, <1>9, GoesFacts
  <1>11. \A f \in Checked(installation.what) : f \in Files
    BY DEF Checked, Files
  <1>12. InstallOK'
    <2> SUFFICES ASSUME installation.pc = "install"
                 PROVE  /\ IsPlan(Tail(steps), InstallSteps)
                        /\ \A f \in Checked(installation.what) : disk'[f] = Wanted(f) \/ Pending(Tail(steps), f)
      BY <1>10 DEF InstallOK
    <2>1. \A f \in Checked(installation.what) : disk[f] = Wanted(f) \/ Pending(steps, f)
      BY DEF InstallInv, InstallOK
    <2>2. \A f \in Files : Aim(f) = Wanted(f)
      BY DEF Aim
    <2> HIDE DEF steps
    <2> QED
      BY <1>6, <1>7, <1>11, <2>1, <2>2
  <1>13. UndoOK'
    <2> SUFFICES ASSUME installation.pc = "undo"
                 PROVE  /\ IsPlan(Tail(steps), UndoSteps(installation.before))
                        /\ \A f \in Files : disk'[f] = installation.before[f] \/ Pending(Tail(steps), f)
      BY <1>10 DEF UndoOK
    <2>1. \A f \in Files : disk[f] = installation.before[f] \/ Pending(steps, f)
      BY DEF InstallInv, UndoOK
    <2>2. \A f \in Files : Aim(f) = installation.before[f]
      BY DEF Aim
    <2> HIDE DEF steps
    <2> QED
      BY <1>6, <1>7, <2>1, <2>2
  <1>14. StagedOK'
    BY <1>1, <1>6, <1>10 DEF StagedOK, Working
  <1>15. StartOK'
    BY <1>1, <1>10 DEF StartOK
  <1>17. SkillOK'
    <2> SUFFICES ASSUME installation.pc = "install", installation.what = "skill"
                 PROVE  /\ SkillPlan(Tail(steps))
                        /\ Tail(steps) # <<>> =>
                              \A f \in Files \ {"skill"} : disk'[f] = installation.before[f]
      BY <1>10 DEF SkillOK
    <2>1. /\ SkillPlan(steps)
          /\ \A f \in Files \ {"skill"} : disk[f] = installation.before[f]
      BY <1>1 DEF InstallInv, SkillOK
    <2>2. Head(steps) \in InstallSteps
      BY <1>1, <1>2, PlanTail
    <2> HIDE DEF steps
    <2>3. /\ SkillPlan(Tail(steps)) /\ (Head(steps).op = "remove" => Tail(steps) = <<>>)
          /\ (Head(steps).op = "replace" => Head(steps).file = "skill")
      BY <1>1, <2>1, SkillPlanTail
    <2>4. Head(steps).op \in {"stage", "replace", "remove"}
      BY <2>2 DEF InstallSteps, PlanSteps
    <2>5. ASSUME Tail(steps) # <<>>, NEW f \in Files \ {"skill"}
          PROVE  disk'[f] = installation.before[f]
      <3>1. ~Settles(Head(steps), f)
        BY <2>3, <2>4, <2>5 DEF Settles
      <3> QED
        BY <3>1, <1>6, <2>1
    <2> QED
      BY <2>3, <2>5
  <1>16. InstallIsAllOrNothing'
    <2>1. \A f \in Files : disk[f] \in {installation.before[f], Wanted(f)}
      BY DEF InstallInv, InstallIsAllOrNothing, Wanted
    <2>2. \A f \in Files : disk'[f] \in {installation.before[f], Wanted(f)}
      BY <1>6, <2>1 DEF Aim
    <2> QED
      BY <1>1, <1>10, <2>2 DEF InstallIsAllOrNothing, Wanted
  <1> QED
    BY <1>6, <1>10, <1>12, <1>13, <1>14, <1>15, <1>16, <1>17 DEF InstallInv, InstallTypeOK, Installations

LEMMA FailStep ==
    ASSUME InstallInv, InstallFails
    PROVE  InstallInv'
  <1>1. /\ installation' \in Installations
        /\ installation'.what = installation.what /\ installation'.before = installation.before
        /\ disk' = disk /\ staged' = staged \ {Head(installation.steps).file}
        /\ Working /\ installation.steps # <<>>
        /\ \/ /\ installation'.pc = "undo" /\ installation'.steps = Undoing(installation.before)
           \/ /\ installation.pc = "undo" /\ installation'.pc = "half undone"
              /\ installation'.steps = installation.steps
           \/ /\ installation.pc = "install" /\ installation.what = "skill"
              /\ installation'.pc = "failed" /\ installation'.steps = installation.steps
    BY FailFacts DEF InstallInv
  <1>2. \A f \in staged : Head(installation.steps) = Step("replace", f)
    BY <1>1 DEF InstallInv, StagedOK, Working
  <1>3. \A f \in staged : Head(installation.steps).file = f
    BY <1>2, StepFacts DEF InstallInv, InstallTypeOK
  <1>4. staged' = {}
    BY <1>1, <1>3
  <1>5. UndoOK'
    <2>1. /\ IsPlan(Undoing(installation.before), UndoSteps(installation.before))
          /\ \A f \in Files : disk[f] = installation.before[f] \/ Pending(Undoing(installation.before), f)
      BY UndoingPlan
    <2> QED
      BY <1>1, <2>1 DEF UndoOK
  <1>6. \A f \in Files : disk[f] \in {installation.before[f], Wanted(f)}
    BY DEF InstallInv, InstallIsAllOrNothing, Wanted
  <1>7. installation.pc = "undo" =>
            \A f \in Files : disk[f] = installation.before[f] \/ StepLeft(f)
    BY DEF InstallInv, UndoOK, Pending, Settles, StepLeft
  <1>8. installation.pc = "install" /\ installation.what = "skill" =>
            \A f \in Files \ {"skill"} : disk[f] = installation.before[f]
    BY <1>1 DEF InstallInv, SkillOK
  <1>9. InstallIsAllOrNothing'
    <2>1. installation'.steps = installation.steps => \A f \in Files : StepLeft(f)' = StepLeft(f)
      BY DEF StepLeft
    <2>2. CASE installation'.pc = "undo"
      BY <2>2, <1>1, <1>4, <1>6 DEF InstallIsAllOrNothing, Wanted
    <2>3. CASE installation.pc = "undo" /\ installation'.pc = "half undone"
               /\ installation'.steps = installation.steps
      BY <2>1, <2>3, <1>1, <1>4, <1>6, <1>7 DEF InstallIsAllOrNothing, Wanted
    <2>4. CASE installation.pc = "install" /\ installation.what = "skill"
               /\ installation'.pc = "failed"
      BY <2>4, <1>1, <1>4, <1>6, <1>8 DEF InstallIsAllOrNothing, Wanted
    <2> QED
      BY <1>1, <2>2, <2>3, <2>4
  <1> QED
    BY <1>1, <1>4, <1>5, <1>9
       DEF InstallInv, InstallTypeOK, Installations, InstallOK, StagedOK, StartOK, SkillOK

LEMMA FinishStep ==
    ASSUME InstallInv, Finish
    PROVE  InstallInv'
  <1> DEFINE pc == IF installation.pc = "install" THEN "installed" ELSE "undone"
  <1>1. /\ installation \in Installations /\ installation.pc \in {"install", "undo"}
        /\ installation.steps = <<>> /\ disk' = disk /\ staged' = staged /\ Goes(pc, <<>>)
    BY DEF Finish, Working, InstallInv, InstallTypeOK, Installations
  <1>2. pc \in InstallPCs /\ <<>> \in Seq(PlanSteps)
    BY DEF InstallPCs
  <1>3. /\ installation' \in Installations /\ installation'.pc = pc
        /\ installation'.what = installation.what /\ installation'.before = installation.before
    <2> HIDE DEF pc
    <2> QED
      BY <1>1, <1>2, GoesFacts
  <1>4. staged' = {}
    BY <1>1 DEF InstallInv, StagedOK
  <1>5. \A f : ~Pending(<<>>, f)
    BY DEF Pending
  <1>6. installation.pc = "install" =>
            \A f \in Checked(installation.what) : disk[f] = Wanted(f)
    BY <1>1, <1>5 DEF InstallInv, InstallOK
  <1>7. installation.pc = "undo" => disk = installation.before
    <2> SUFFICES ASSUME installation.pc = "undo"
                 PROVE  disk = installation.before
      OBVIOUS
    <2>1. \A f \in Files : disk[f] = installation.before[f]
      BY <1>1, <1>5 DEF InstallInv, UndoOK
    <2> QED
      BY <2>1, <1>1 DEF InstallInv, InstallTypeOK, Installations
  <1>8. InstallIsAllOrNothing'
    BY <1>1, <1>3, <1>4, <1>6, <1>7 DEF InstallInv, InstallIsAllOrNothing, Wanted
  <1> QED
    BY <1>1, <1>3, <1>4, <1>8
       DEF InstallInv, InstallTypeOK, Installations, InstallOK, UndoOK, StagedOK, StartOK, SkillOK

LEMMA CrashStep ==
    ASSUME InstallInv, InstallCrashes
    PROVE  InstallInv'
  <1>1. /\ installation \in Installations /\ disk' = disk /\ staged' = staged
        /\ Goes("crashed", <<>>)
    BY DEF InstallCrashes, InstallInv, InstallTypeOK, Installations
  <1>2. "crashed" \in InstallPCs /\ <<>> \in Seq(PlanSteps)
    BY DEF InstallPCs
  <1>3. /\ installation' \in Installations /\ installation'.pc = "crashed"
        /\ installation'.what = installation.what /\ installation'.before = installation.before
    BY <1>1, <1>2, GoesFacts
  <1> QED
    BY <1>1, <1>3
       DEF InstallInv, InstallTypeOK, Installations, InstallOK, UndoOK, StagedOK, StartOK, SkillOK,
           InstallIsAllOrNothing

(* Whatever the disk holds, and however often an operation fails: a        *)
(* refused or undone installation leaves every file as it was, a finished  *)
(* one leaves what is wanted; an undoing that fails has put back every     *)
(* file before the one it stopped at; the skill alone, which nothing       *)
(* undoes, leaves at most itself beside its legacy; and even a crash       *)
(* leaves whole files (install_skill, install_opencode_support).           *)
THEOREM InstallIsAllOrNothingHolds == InstallSpec => []InstallIsAllOrNothing
  <1>1. InstallInit => InstallInv
    BY InstallFirst
  <1>2. InstallInv /\ [InstallNext]_installVars => InstallInv'
    <2> SUFFICES ASSUME InstallInv, [InstallNext]_installVars
                 PROVE  InstallInv'
      OBVIOUS
    <2>1. CASE UNCHANGED installVars
      BY <2>1 DEF InstallInv, InstallTypeOK, InstallOK, UndoOK, StagedOK, StartOK, SkillOK,
                  InstallIsAllOrNothing, StepLeft, Working, installVars
    <2> QED
      BY <2>1, BeginStep, ProceedStep, FailStep, FinishStep, CrashStep DEF InstallNext
  <1>3. InstallInv => InstallIsAllOrNothing
    BY DEF InstallInv
  <1> QED
    BY <1>1, <1>2, <1>3, PTL DEF InstallSpec
===============================================================================
