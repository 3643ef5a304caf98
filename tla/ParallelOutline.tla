--------------------------- MODULE ParallelOutline ---------------------------
(***************************************************************************)
(* run_outline_tasks of src/delphi_lsp/parallel_outline.py: a batch of     *)
(* source files is parsed in a pool of worker processes, through a window  *)
(* of outstanding futures, or one after the other in this process.  The    *)
(* pool may be refused, break, or lose a result; on_complete may raise.    *)
(* Sources are submitted by size, largest first: any order is possible.    *)
(* The module shows that the batch keeps the promise of BatchDelivery.     *)
(***************************************************************************)
EXTENDS Naturals, FiniteSets

CONSTANTS
    Count,     \* the number of tasks of the batch
    Settings,  \* values of configured_workers: 0 is `auto`
    Cpus,      \* processors of the machine
    Shares,    \* the memory budget in units of _WORKER_MEMORY_BYTES
    Faults     \* the kinds of fault this instance allows

FaultKinds == {"noPool", "poolBreaks", "taskError", "parse", "callback", "callbackOSError"}

ASSUME SizeAssumption    == Count \in Nat /\ Cpus \in Nat \ {0} /\ Shares \in Nat
ASSUME SettingAssumption == Settings \subseteq 0..32
ASSUME FaultAssumption   == Faults \subseteq FaultKinds

VARIABLES
    configured, \* configured_workers
    pc,         \* the next step of the call
    queue,      \* tasks not submitted yet
    futures,    \* what has become of the submitted tasks
    broken,     \* a worker process has died: the pool is unusable
    current,    \* local: the task whose result was taken last
    completed,  \* results taken from the pool
    accepted,   \* tasks whose results are retained
    next,       \* local of _run_serial: the task at hand
    nested,     \* _run_serial runs inside the try block, for a failed future
    retries,    \* history: times _run_serial was called as a fallback
    calls,      \* history: calls of on_complete with a task's result
    results,    \* the tasks of the returned batch
    raised,     \* the exception the call ended with
    objection   \* history: the exception on_complete raised

pool   == <<queue, futures, broken, current, completed>>
serial == <<next, nested, retries>>
ending == <<results, raised, objection>>
vars   == <<configured, pc, pool, accepted, serial, calls, ending>>

Tasks == 1..Count
Futures == {"none", "pending", "done", "parse", "error"}
Exceptions == {"none", "ParallelOutlineError", "callback", "OSError", "taskError"}
Least(S) == CHOOSE n \in S : \A m \in S : n <= m
AtLeastOne(n) == IF n = 0 THEN 1 ELSE n

(* resolve_worker_count                                                     *)
Workers ==
    IF Count = 0 THEN 0
    ELSE IF configured # 0 THEN Least({configured, Count})
    ELSE Least({Count, 8, AtLeastOne(Cpus - 1), AtLeastOne(Shares)})

Outstanding == {t \in Tasks : futures[t] # "none"}
NoFutures   == [t \in Tasks |-> "none"]

Init ==
    /\ configured \in Settings
    /\ pc = "begin"
    /\ queue = Tasks /\ futures = NoFutures /\ broken = FALSE
    /\ current = 0 /\ completed = 0 /\ accepted = {}
    /\ next = 1 /\ nested = FALSE /\ retries = 0
    /\ calls = [t \in Tasks |-> 0]
    /\ results = {} /\ raised = "none" /\ objection = "none"

Goto(l) == pc' = l
At(l)   == pc = l

-----------------------------------------------------------------------------
(* How the call goes on when something fails.                               *)

(* _cancel_futures, _shutdown_failed_executor, and the exception leaves.    *)
Raise(e) ==
    /\ Goto("raised") /\ raised' = e
    /\ futures' = NoFutures

(* _run_serial from the first task on; `inside` tells whether the handlers  *)
(* of the try block still watch over it.                                    *)
Fallback(inside) ==
    /\ Goto("serial") /\ next' = 1 /\ nested' = inside
    /\ retries' = retries + 1
    /\ accepted' = {}
    /\ futures' = NoFutures

(* A bug the properties catch: results already delivered do not count.      *)
MayRetryAnyway == configured = 0

MayRetry == configured = 0 /\ completed = 0

(* The pool fails: once any result was accepted the batch fails with it.    *)
RetryOrRaise(inside) ==
    \/ MayRetry /\ Fallback(inside) /\ UNCHANGED raised
    \/ ~MayRetry /\ Raise("ParallelOutlineError") /\ UNCHANGED <<accepted, serial>>

-----------------------------------------------------------------------------
(* In the pool.                                                             *)

Begin ==
    /\ At("begin")
    /\ IF Workers <= 1 THEN Goto("serial") ELSE Goto("submit")
    /\ UNCHANGED <<configured, pool, accepted, serial, calls, ending>>

(* ProcessPoolExecutor cannot be made: OSError.                             *)
NoPool ==
    /\ At("begin") /\ Workers > 1 /\ "noPool" \in Faults
    /\ RetryOrRaise(FALSE)
    /\ UNCHANGED <<configured, queue, broken, current, completed, calls, results, objection>>

(* submit raises BrokenProcessPool when a worker has died.                  *)
SubmitOne(l) ==
    /\ \E t \in queue :
        /\ queue' = queue \ {t}
        /\ futures' = [futures EXCEPT ![t] = "pending"]
    /\ Goto(l)
    /\ UNCHANGED <<configured, broken, current, completed, accepted, serial, calls, ending>>

SubmitFails ==
    /\ RetryOrRaise(FALSE)
    /\ UNCHANGED <<configured, queue, broken, current, completed, calls, results, objection>>

(* A bug the properties catch: everything is submitted at once.             *)
UnboundedWindow == FALSE

WindowIsFull == Cardinality(Outstanding) = Workers

Submit ==
    /\ At("submit")
    /\ \/ queue # {} /\ ~WindowIsFull /\ ~broken /\ SubmitOne("submit")
       \/ queue # {} /\ ~WindowIsFull /\ broken /\ SubmitFails
       \/ /\ queue = {} \/ WindowIsFull
          /\ Goto("wait")
          /\ UNCHANGED <<configured, pool, accepted, serial, calls, ending>>

(* as_completed: any future that is done.                                   *)
Take(t) ==
    /\ At("wait") /\ futures[t] = "done"
    /\ futures' = [futures EXCEPT ![t] = "none"]
    /\ current' = t
    /\ Goto("deliver")
    /\ UNCHANGED <<configured, queue, broken, completed, accepted, serial, calls, ending>>

(* A source that does not parse: ParallelOutlineError, never retried.       *)
TakeParseError(t) ==
    /\ At("wait") /\ futures[t] = "parse"
    /\ Raise("ParallelOutlineError")
    /\ UNCHANGED <<configured, queue, broken, current, completed, accepted, serial, calls,
                   results, objection>>

(* Any other exception of a future, a broken pool's among them.             *)
TakeError(t) ==
    /\ At("wait") /\ futures[t] = "error"
    /\ RetryOrRaise(TRUE)
    /\ UNCHANGED <<configured, queue, broken, current, completed, calls, results, objection>>

CountOne == completed' = completed + 1

Called(t) == calls' = [calls EXCEPT ![t] = @ + 1]

Deliver ==
    /\ At("deliver")
    /\ CountOne /\ Called(current)
    /\ accepted' = accepted \cup {current}
    /\ Goto("refill")
    /\ UNCHANGED <<configured, queue, futures, broken, current, serial, ending>>

(* A bug the properties catch: what on_complete raised is wrapped.          *)
WrapException(e) == "ParallelOutlineError"

Propagate(e) == e

(* on_complete raises: an OSError is taken for a failure of the pool (a     *)
(* result was accepted, so the batch fails), anything else goes through.    *)
DeliverRaises ==
    /\ At("deliver")
    /\ CountOne /\ Called(current)
    /\ \/ "callback" \in Faults /\ objection' = "callback" /\ Raise(Propagate("callback"))
       \/ "callbackOSError" \in Faults /\ objection' = "OSError" /\ Raise("ParallelOutlineError")
    /\ UNCHANGED <<configured, queue, broken, current, accepted, serial, results>>

(* A bug the properties catch: the empty queue is not seen.                 *)
RefillFromQueue ==
    /\ At("refill") /\ queue # {}
    /\ IF broken THEN SubmitFails ELSE SubmitOne("wait")

Refill ==
    /\ At("refill")
    /\ \/ queue # {} /\ ~broken /\ SubmitOne("wait")
       \/ queue # {} /\ broken /\ SubmitFails
       \/ /\ queue = {} /\ Goto("wait")
          /\ UNCHANGED <<configured, pool, accepted, serial, calls, ending>>

(* executor.shutdown(wait=True)                                             *)
Return ==
    /\ At("wait") /\ Outstanding = {}
    /\ Goto("returned") /\ results' = accepted
    /\ UNCHANGED <<configured, pool, accepted, serial, calls, raised, objection>>

-----------------------------------------------------------------------------
(* _run_serial                                                              *)

SerialTask ==
    /\ At("serial") /\ next <= Count
    /\ Called(next) /\ accepted' = accepted \cup {next} /\ next' = next + 1
    /\ UNCHANGED <<configured, pc, pool, nested, retries, ending>>

(* The task itself fails, with no OSError: a source that cannot be read is  *)
(* a result with a read_error.                                              *)
SerialTaskFails ==
    /\ At("serial") /\ next <= Count
    /\ \/ "parse" \in Faults /\ Raise("ParallelOutlineError")
       \/ "taskError" \in Faults /\ Raise("taskError")
    /\ UNCHANGED <<configured, queue, broken, current, completed, accepted, serial, calls,
                   results, objection>>

SerialCallbackRaises ==
    /\ At("serial") /\ next <= Count
    /\ "callback" \in Faults /\ objection' = "callback"
    /\ Called(next) /\ Raise(Propagate("callback"))
    /\ UNCHANGED <<configured, queue, broken, current, completed, accepted, serial, results>>

(* An OSError of on_complete, when the try block still watches, is taken    *)
(* for a failure of the pool: no result of the pool was counted, so the     *)
(* batch is run again from its first task.                                  *)
SerialCallbackOSError ==
    /\ At("serial") /\ next <= Count
    /\ "callbackOSError" \in Faults /\ objection' = "OSError"
    /\ Called(next)
    /\ \/ nested /\ Fallback(FALSE) /\ UNCHANGED raised
       \/ ~nested /\ Raise("OSError") /\ UNCHANGED <<accepted, serial>>
    /\ UNCHANGED <<configured, queue, broken, current, completed, results>>

SerialReturn ==
    /\ At("serial") /\ next > Count
    /\ Goto("returned") /\ results' = accepted
    /\ UNCHANGED <<configured, pool, accepted, serial, calls, raised, objection>>

-----------------------------------------------------------------------------
(* The worker processes (concurrent.futures, outside this repository).      *)

Ended == pc \in {"returned", "raised"}

Finish(t) ==
    /\ futures[t] = "pending"
    /\ \E f \in {"done"} \cup (IF "parse" \in Faults THEN {"parse"} ELSE {})
                         \cup (IF "taskError" \in Faults THEN {"error"} ELSE {}) :
        futures' = [futures EXCEPT ![t] = f]
    /\ UNCHANGED <<configured, pc, queue, broken, current, completed, accepted, serial, calls,
                   ending>>

(* A worker process dies: every pending future fails with the pool.         *)
PoolBreaks ==
    /\ pc \in {"submit", "wait", "deliver", "refill"} /\ ~broken /\ "poolBreaks" \in Faults
    /\ broken' = TRUE
    /\ futures' = [t \in Tasks |-> IF futures[t] = "pending" THEN "error" ELSE futures[t]]
    /\ UNCHANGED <<configured, pc, queue, current, completed, accepted, serial, calls, ending>>

-----------------------------------------------------------------------------
Call ==
    \/ Begin \/ NoPool \/ Submit \/ Deliver \/ DeliverRaises \/ Refill \/ Return
    \/ SerialTask \/ SerialTaskFails \/ SerialCallbackRaises \/ SerialCallbackOSError
    \/ SerialReturn
    \/ \E t \in Tasks : Take(t) \/ TakeParseError(t) \/ TakeError(t)

Next == Call \/ (\E t \in Tasks : Finish(t)) \/ PoolBreaks

Spec == Init /\ [][Next]_vars

(* The caller runs; a worker process ends its task or dies.                 *)
FairSpec == Spec /\ WF_vars(Call) /\ \A t \in Tasks : WF_vars(Finish(t))

-----------------------------------------------------------------------------
(* Properties.                                                              *)

(* Every variable stays in its domain; no more results are counted than     *)
(* there are tasks.                                                         *)
TypeOK ==
    /\ configured \in Settings
    /\ pc \in {"begin", "submit", "wait", "deliver", "refill", "serial", "returned", "raised"}
    /\ queue \subseteq Tasks
    /\ futures \in [Tasks -> Futures]
    /\ broken \in BOOLEAN
    /\ current \in 0..Count
    /\ completed \in 0..Count
    /\ accepted \subseteq Tasks
    /\ next \in 1..(Count + 1)
    /\ nested \in BOOLEAN
    /\ retries \in Nat
    /\ calls \in [Tasks -> Nat]
    /\ results \subseteq Tasks
    /\ raised \in Exceptions
    /\ objection \in Exceptions

(* The window: never more futures outstanding than workers, whatever order  *)
(* they finish in, so that results do not pile up in memory.                *)
WindowIsBounded == Cardinality(Outstanding) <= Workers

(* An OSError of on_complete is taken for a failure of the pool, which may   *)
(* start a batch over that has delivered results.                           *)
Voided == objection = "OSError" \/ retries > 1

(* Callback exceptions cancel outstanding tasks and propagate unchanged.     *)
CallbackErrorPropagates ==
    objection # "none" /\ ~Voided => pc = "raised" /\ raised = objection /\ Outstanding = {}

(* The call ends: a failing pool does not leave it waiting for a future     *)
(* that never completes.                                                    *)
BatchEnds == <>Ended

(* The batch does what BatchDelivery promises.                              *)
Promise == INSTANCE BatchDelivery
               WITH outcome <- IF Voided THEN "void" ELSE IF Ended THEN pc ELSE "running"
KeepsPromise == Promise!Spec
=============================================================================
