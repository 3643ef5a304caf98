---------------------------- MODULE BatchDelivery ----------------------------
(***************************************************************************)
(* What run_outline_tasks promises its callers, who count files, extend    *)
(* symbol tables and write shards in on_complete: each task's result is    *)
(* delivered at most once, a batch is returned only when every task was    *)
(* delivered and then holds every result, and nothing is delivered once    *)
(* the call has returned or raised.  An OSError of on_complete is taken    *)
(* for a failure of the pool: from there on nothing is promised.           *)
(***************************************************************************)
EXTENDS Naturals

CONSTANT Tasks

VARIABLES
    calls,    \* how often on_complete was called with a task's result
    results,  \* the tasks whose results the returned batch holds
    outcome   \* running, returned, raised or void

batch == <<calls, results, outcome>>

Init ==
    /\ calls = [t \in Tasks |-> 0]
    /\ results = {}
    /\ outcome = "running"

(* on_complete is called; if it raises, that may be the end of the batch.  *)
Deliver(t) ==
    /\ outcome = "running" /\ calls[t] = 0
    /\ calls' = [calls EXCEPT ![t] = 1]
    /\ outcome' \in {"running", "raised", "void"}
    /\ UNCHANGED results

Return ==
    /\ outcome = "running" /\ \A t \in Tasks : calls[t] = 1
    /\ results' = Tasks
    /\ outcome' = "returned"
    /\ UNCHANGED calls

Fail ==
    /\ outcome = "running"
    /\ outcome' = "raised"
    /\ UNCHANGED <<calls, results>>

(* on_complete has raised an OSError: the batch may start over or not.      *)
Free == outcome = "void" /\ outcome' = "void"

Next == (\E t \in Tasks : Deliver(t)) \/ Return \/ Fail \/ Free

Spec == Init /\ [][Next]_batch
=============================================================================
