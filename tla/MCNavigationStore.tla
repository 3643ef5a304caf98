-------------------------- MODULE MCNavigationStore --------------------------
(***************************************************************************)
(* Constant values for the instances of NavigationStore that TLC checks.   *)
(***************************************************************************)
EXTENDS NavigationStore

CONSTANTS d, w, f, small, large, huge, Debug

(* Daemon and worker open the same project.                                *)
SameDefines == [b \in Builders |-> Debug]

(* The record of the unit is over the budget of the store; another text is     *)
(* even too large for a record.                                            *)
LargeText == [x \in {f} |-> large]
Sizes3   == [x \in {small, large, huge} |-> IF x = small THEN 1 ELSE 2]
=============================================================================
