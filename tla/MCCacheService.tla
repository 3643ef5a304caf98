--------------------------- MODULE MCCacheService ---------------------------
(***************************************************************************)
(* Constant values for the instance of CacheService that TLC checks.       *)
(***************************************************************************)
EXTENDS CacheService

CONSTANTS w1, P, Q

(* The focused symbol is gone in version 1.                                *)
GoneInOne == {1}

(* Kinds of requests that read navigation state.                           *)
SymbolKinds == {"find", "open", "focusTarget"}
=============================================================================
