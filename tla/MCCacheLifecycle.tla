-------------------------- MODULE MCCacheLifecycle --------------------------
(***************************************************************************)
(* Constant values for the instances of CacheLifecycle that TLC checks.    *)
(***************************************************************************)
EXTENDS CacheLifecycle, TLC

CONSTANTS t1, t2, t3, d1, d2, p1, p2, c1, c2

(* Two threads of a process, and one of another that asks for a different  *)
(* configuration, as does the second.                                      *)
MCThreads == {t1, t2, t3}
MCProcOf  == [t \in MCThreads |-> IF t = t3 THEN p2 ELSE p1]
MCConfOf  == [t \in MCThreads |-> IF t = t1 THEN c1 ELSE c2]
MCOpsOf   == [t \in MCThreads |-> IF t = t3 THEN Ops ELSE {"start"}]

Load(first, second, third) ==
    [t \in MCThreads |-> CASE t = t1 -> first [] t = t2 -> second [] t = t3 -> third]

(* Either the process starts alone, from both its threads and one of them  *)
(* again, or it starts once before, beside or after what the other process *)
(* does, which may start as well.                                          *)
AloneOrBeside == {Load(2, 1, 0), Load(1, 0, 2)}

(* What follows a slip is explored where the process starts alone: of two  *)
(* processes nothing is claimed then but what each does by itself.         *)
AloneAfterSlip == slips # {} => done[t3] = 0

(* Two processes that ask for the same.                                    *)
PairThreads == {t1, t3}
TwoProcs    == [t \in PairThreads |-> IF t = t1 THEN p1 ELSE p2]
SameConf    == [t \in PairThreads |-> c1]
StartAndAll == [t \in PairThreads |-> IF t = t1 THEN {"start"} ELSE Ops]
OnceEach    == {[t \in PairThreads |-> 1]}

(* Daemons come into being alike, and no liveness is asked where this is used. *)
AnyDaemon == Permutations(Daemons)
=============================================================================
