------------------------ MODULE ParallelOutlineProofs ------------------------
(***************************************************************************)
(* What TLAPS proves of run_outline_tasks for every number of tasks and    *)
(* processors, every memory budget and every configured worker count.      *)
(***************************************************************************)
EXTENDS ParallelOutline, FiniteSetTheorems, TLAPS

USE SizeAssumption, SettingAssumption, FaultAssumption

-----------------------------------------------------------------------------
(* Two numbers have a least one ...                                         *)
LEMMA LeastOfTwo ==
    ASSUME NEW a \in Nat, NEW b \in Nat PROVE Least({a, b}) \in {a, b}
<1>1. \E n \in {a, b} : \A m \in {a, b} : n <= m
  <2>1. CASE a <= b
    BY <2>1
  <2>2. CASE b <= a
    BY <2>2
  <2> QED BY <2>1, <2>2
<1> QED BY <1>1 DEF Least

(* ... and so have four.                                                    *)
LEMMA LeastOfFour ==
    ASSUME NEW a \in Nat, NEW b \in Nat, NEW c \in Nat, NEW d \in Nat
    PROVE  Least({a, b, c, d}) \in {a, b, c, d}
<1>1. PICK n \in {a, b} : n <= a /\ n <= b
  OBVIOUS
<1>2. PICK m \in {c, d} : m <= c /\ m <= d
  OBVIOUS
<1>3. n \in Nat /\ m \in Nat
  OBVIOUS
<1>4. \E k \in {a, b, c, d} : \A l \in {a, b, c, d} : k <= l
  <2>1. CASE n <= m
    <3>1. n <= a /\ n <= b /\ n <= c /\ n <= d
      BY <1>1, <1>2, <1>3, <2>1
    <3> QED BY <3>1, <1>1
  <2>2. CASE m <= n
    <3>1. m <= a /\ m <= b /\ m <= c /\ m <= d
      BY <1>1, <1>2, <1>3, <2>2
    <3> QED BY <3>1, <1>2
  <2> QED BY <1>3, <2>1, <2>2
<1> QED BY <1>4 DEF Least

(* The worker count is a number, whatever is configured.                    *)
LEMMA WorkersNat == configured \in Settings => Workers \in Nat
<1> SUFFICES ASSUME configured \in Settings PROVE Workers \in Nat
  OBVIOUS
<1>1. configured \in Nat
  OBVIOUS
<1>2. Least({configured, Count}) \in Nat
  BY <1>1, LeastOfTwo
<1>3. AtLeastOne(Cpus - 1) \in Nat /\ AtLeastOne(Shares) \in Nat
  BY DEF AtLeastOne
<1>4. Least({Count, 8, AtLeastOne(Cpus - 1), AtLeastOne(Shares)}) \in Nat
  <2>1. Least({Count, 8, AtLeastOne(Cpus - 1), AtLeastOne(Shares)})
          \in {Count, 8, AtLeastOne(Cpus - 1), AtLeastOne(Shares)}
    BY <1>3, LeastOfFour
  <2> QED BY <2>1, <1>3
<1> QED BY <1>2, <1>4 DEF Workers

(* The batch is finite, and so is every set of its tasks.                   *)
LEMMA TasksFinite == IsFiniteSet(Tasks) /\ Cardinality(Tasks) = Count
  BY FS_Interval DEF Tasks

(* A set of tasks has a size, and never more members than the batch.         *)
LEMMA SubsetOfTasks ==
    ASSUME NEW S \in SUBSET Tasks
    PROVE  IsFiniteSet(S) /\ Cardinality(S) \in Nat /\ Cardinality(S) <= Count
  BY TasksFinite, FS_Subset, FS_CardinalityType

-----------------------------------------------------------------------------
(* TypeOK bounds the results counted, which no step checks.  BatchInv tells *)
(* where every task is: while the pool runs, a task is queued, outstanding, *)
(* just taken or accepted, and in one of these places only; the accepted    *)
(* ones are those counted; and the window has room for what Refill submits. *)

PoolPhases == {"submit", "wait", "deliver", "refill"}
Taken == IF pc = "deliver" THEN {current} ELSE {}

TasksPlaced ==
    /\ Tasks \subseteq queue \cup Outstanding \cup accepted \cup Taken
    /\ queue \cap Outstanding = {} /\ queue \cap accepted = {}
    /\ Outstanding \cap accepted = {}
    /\ pc = "deliver" => current \in Tasks \ (queue \cup Outstanding \cup accepted)
    /\ pc = "wait" => queue = {} \/ Outstanding # {}
WindowKept ==
    /\ Workers > 1
    /\ Cardinality(Outstanding) <= Workers
    /\ pc \in {"deliver", "refill"} => Cardinality(Outstanding) < Workers
PoolInv == pc \in PoolPhases =>
    TasksPlaced /\ WindowKept /\ completed = Cardinality(accepted)
RestInv == pc \notin PoolPhases => futures = NoFutures
BeginInv == pc = "begin" => accepted = {} /\ completed = 0 /\ queue = Tasks /\ next = 1
SerialInv == pc = "serial" => accepted = 1..(next - 1)
BatchInv == PoolInv /\ RestInv /\ BeginInv /\ SerialInv

(* Without futures nothing is outstanding.                                  *)
LEMMA NoneOutstanding == futures = NoFutures => Outstanding = {} /\ Cardinality(Outstanding) = 0
  BY FS_EmptySet DEF Outstanding, NoFutures

(* Another call of on_complete is one more number in the history.           *)
LEMMA CallsTyped == ASSUME TypeOK, NEW t \in Tasks, Called(t) PROVE calls' \in [Tasks -> Nat]
  BY DEF TypeOK, Called

(* The serial fallback starts over with nothing accepted or outstanding.    *)
LEMMA StartsOver ==
    ASSUME TypeOK, NEW inside \in BOOLEAN, Fallback(inside),
           UNCHANGED <<configured, queue, broken, current, completed, results, raised>>,
           calls' \in [Tasks -> Nat], objection' \in Exceptions
    PROVE  TypeOK' /\ BatchInv'
<1>1. TypeOK'
  BY DEF TypeOK, Fallback, Goto, NoFutures, Futures
<1>2. BatchInv'
  BY DEF BatchInv, PoolInv, RestInv, BeginInv, SerialInv, Fallback, Goto, PoolPhases,
     NoFutures, Tasks
<1> QED BY <1>1, <1>2

(* A pool that fails: the call goes on in-process from the first task, or   *)
(* ends; either way nothing stays outstanding.                              *)
LEMMA PoolFails ==
    ASSUME TypeOK, NEW inside \in BOOLEAN, RetryOrRaise(inside),
           UNCHANGED <<configured, queue, broken, current, completed, calls, results, objection>>
    PROVE  TypeOK' /\ BatchInv'
<1>1. CASE MayRetry /\ Fallback(inside) /\ UNCHANGED raised
  BY <1>1, StartsOver DEF TypeOK
<1>2. CASE ~MayRetry /\ Raise("ParallelOutlineError") /\ UNCHANGED <<accepted, serial>>
  <2>1. TypeOK'
    BY <1>2 DEF TypeOK, Raise, Goto, NoFutures, Futures, Exceptions, serial
  <2>2. BatchInv'
    BY <1>2 DEF BatchInv, PoolInv, RestInv, BeginInv, SerialInv, Raise, Goto, PoolPhases,
       NoFutures, Tasks
  <2> QED BY <2>1, <2>2
<1> QED BY <1>1, <1>2 DEF RetryOrRaise

(* One more task is submitted while the window has room.                    *)
LEMMA OneSubmitted ==
    ASSUME TypeOK, BatchInv, NEW l \in {"submit", "wait"}, SubmitOne(l),
           pc \in {"submit", "refill"}, Cardinality(Outstanding) < Workers
    PROVE  TypeOK' /\ BatchInv'
<1>1. PICK t \in queue : /\ queue' = queue \ {t}
                         /\ futures' = [futures EXCEPT ![t] = "pending"]
  BY DEF SubmitOne
<1>2. /\ pc' = l /\ completed' = completed /\ accepted' = accepted /\ current' = current
      /\ configured' = configured /\ broken' = broken /\ next' = next /\ nested' = nested
      /\ retries' = retries /\ calls' = calls /\ results' = results /\ raised' = raised
      /\ objection' = objection
  BY DEF SubmitOne, Goto, serial, ending
<1>3. t \in Tasks
  BY <1>1 DEF TypeOK
<1>4. TypeOK'
  BY <1>1, <1>2, <1>3 DEF TypeOK, Futures
<1>5. Outstanding' = Outstanding \cup {t}
  BY <1>1, <1>3 DEF Outstanding, TypeOK
<1>6. t \notin Outstanding
  BY <1>1 DEF BatchInv, PoolInv, TasksPlaced, PoolPhases
<1>7. /\ Cardinality(Outstanding)' = Cardinality(Outstanding) + 1
      /\ Cardinality(Outstanding) \in Nat
  <2>1. Outstanding \in SUBSET Tasks
    BY DEF Outstanding
  <2>2. IsFiniteSet(Outstanding) /\ Cardinality(Outstanding) \in Nat
    BY <2>1, SubsetOfTasks
  <2> QED BY <2>2, <1>5, <1>6, FS_AddElement
<1>8. Workers' = Workers /\ Workers \in Nat
  BY <1>2, WorkersNat DEF Workers, TypeOK
<1>9. TasksPlaced'
  BY <1>1, <1>2, <1>3, <1>5, <1>6 DEF BatchInv, PoolInv, TasksPlaced, PoolPhases, Taken
<1>10. WindowKept'
  BY <1>2, <1>7, <1>8 DEF BatchInv, PoolInv, WindowKept, PoolPhases
<1>11. BatchInv'
  BY <1>2, <1>9, <1>10 DEF BatchInv, PoolInv, RestInv, BeginInv, SerialInv, PoolPhases
<1> QED BY <1>4, <1>11

(* An exception leaves the call.                                            *)
LEMMA CallRaises ==
    ASSUME TypeOK, NEW e \in Exceptions, Raise(e), NEW n \in Nat, n <= Count,
           completed' = n, UNCHANGED <<configured, queue, broken, current, accepted, serial>>,
           calls' \in [Tasks -> Nat], results' = results, objection' \in Exceptions
    PROVE  TypeOK' /\ BatchInv'
<1>1. TypeOK'
  BY DEF TypeOK, Raise, Goto, NoFutures, Futures, serial
<1>2. BatchInv'
  BY DEF BatchInv, PoolInv, RestInv, BeginInv, SerialInv, Raise, Goto, PoolPhases,
     NoFutures, Tasks
<1> QED BY <1>1, <1>2

(* What a worker process does moves no task to another place.               *)
LEMMA PlacesKept ==
    ASSUME TypeOK, BatchInv, NEW F, futures' = F, F \in [Tasks -> Futures],
           \A t \in Tasks : F[t] = "none" <=> futures[t] = "none",
           UNCHANGED <<configured, pc, queue, current, completed, accepted, serial, calls, ending>>,
           broken' \in BOOLEAN
    PROVE  TypeOK' /\ BatchInv'
<1> USE DEF serial, ending
<1>1. TypeOK'
  BY DEF TypeOK
<1>2. Outstanding' = Outstanding
  BY DEF Outstanding
<1>3. Workers' = Workers
  BY DEF Workers
<1>4. PoolInv'
  BY <1>2, <1>3 DEF BatchInv, PoolInv, TasksPlaced, WindowKept, Taken
<1>5. RestInv'
  BY DEF BatchInv, RestInv, NoFutures, TypeOK
<1>6. BeginInv' /\ SerialInv'
  BY DEF BatchInv, BeginInv, SerialInv
<1> QED BY <1>1, <1>4, <1>5, <1>6 DEF BatchInv

(* Every step keeps TypeOK and BatchInv, and needs each for the other.      *)
LEMMA BatchStep == TypeOK /\ BatchInv /\ [Next]_vars => TypeOK' /\ BatchInv'
<1> SUFFICES ASSUME TypeOK, BatchInv, [Next]_vars PROVE TypeOK' /\ BatchInv'
  OBVIOUS
<1>1. Workers \in Nat
  BY WorkersNat DEF TypeOK
<1>2. configured' = configured => Workers' = Workers
  BY DEF Workers
<1>3. /\ IsFiniteSet(Outstanding) /\ Cardinality(Outstanding) \in Nat
      /\ IsFiniteSet(accepted) /\ Cardinality(accepted) \in Nat
  <2>1. Outstanding \in SUBSET Tasks /\ accepted \in SUBSET Tasks
    BY DEF Outstanding, TypeOK
  <2> QED BY <2>1, SubsetOfTasks
<1>4. CASE Begin
  <2>1. /\ pc = "begin" /\ futures' = futures /\ UNCHANGED <<configured, queue, broken, current,
           completed, accepted, next, nested, retries, calls, results, raised, objection>>
    BY <1>4 DEF Begin, At, pool, serial, ending
  <2>2. accepted = {} /\ completed = 0 /\ queue = Tasks /\ next = 1 /\ futures = NoFutures
    BY <2>1 DEF BatchInv, BeginInv, RestInv, PoolPhases
  <2>3. CASE Workers <= 1 /\ pc' = "serial"
    <3>1. TypeOK'
      BY <2>1, <2>3 DEF TypeOK
    <3>2. accepted' = 1..(next' - 1)
      BY <2>1, <2>2
    <3> QED BY <2>1, <2>2, <2>3, <3>1, <3>2 DEF BatchInv, PoolInv, RestInv, BeginInv, SerialInv,
            PoolPhases, NoFutures, Tasks
  <2>4. CASE Workers > 1 /\ pc' = "submit"
    <3>1. TypeOK'
      BY <2>1, <2>4 DEF TypeOK
    <3>2. Outstanding' = {} /\ Cardinality(Outstanding') = 0 /\ Cardinality(accepted') = 0
      BY <2>1, <2>2, NoneOutstanding, FS_EmptySet DEF Outstanding
    <3>3. TasksPlaced'
      BY <2>1, <2>2, <2>4, <3>2 DEF TasksPlaced, Taken, Tasks
    <3>4. WindowKept'
      BY <1>1, <1>2, <2>1, <2>4, <3>2 DEF WindowKept
    <3> QED BY <2>1, <2>2, <2>4, <3>1, <3>2, <3>3, <3>4 DEF BatchInv, PoolInv, RestInv, BeginInv,
            SerialInv, PoolPhases
  <2> QED BY <1>1, <1>4, <2>3, <2>4 DEF Begin, Goto
<1>5. CASE NoPool
  BY <1>5, PoolFails DEF NoPool
<1>6. CASE Submit
  <2>1. pc = "submit" /\ Cardinality(Outstanding) <= Workers
    BY <1>6 DEF Submit, At, BatchInv, PoolInv, WindowKept, PoolPhases
  <2>2. CASE ~WindowIsFull /\ SubmitOne("submit")
    BY <1>1, <1>3, <2>1, <2>2, OneSubmitted DEF WindowIsFull
  <2>3. CASE SubmitFails
    BY <2>3, PoolFails DEF SubmitFails
  <2>4. CASE /\ queue = {} \/ WindowIsFull
             /\ Goto("wait")
             /\ UNCHANGED <<configured, pool, accepted, serial, calls, ending>>
    <3>1. /\ pc' = "wait" /\ Outstanding' = Outstanding /\ UNCHANGED <<configured, queue, futures,
             broken, current, completed, accepted, next, nested, retries, calls, results, raised,
             objection>>
      BY <2>4 DEF Goto, pool, serial, ending, Outstanding
    <3>2. TypeOK'
      BY <3>1 DEF TypeOK
    <3>3. queue = {} \/ Outstanding # {}
      BY <1>1, <2>1, <2>4, FS_EmptySet DEF WindowIsFull, BatchInv, PoolInv, WindowKept, PoolPhases
    <3>4. TasksPlaced'
      BY <2>1, <3>1, <3>3 DEF BatchInv, PoolInv, TasksPlaced, PoolPhases, Taken
    <3>5. WindowKept'
      BY <1>2, <2>1, <3>1 DEF BatchInv, PoolInv, WindowKept, PoolPhases
    <3> QED BY <2>1, <3>1, <3>2, <3>4, <3>5 DEF BatchInv, PoolInv, RestInv, BeginInv, SerialInv,
            PoolPhases
  <2> QED BY <1>6, <2>2, <2>3, <2>4 DEF Submit
<1>7. ASSUME NEW t \in Tasks, Take(t) PROVE TypeOK' /\ BatchInv'
  <2>1. /\ pc = "wait" /\ futures[t] = "done" /\ futures' = [futures EXCEPT ![t] = "none"]
        /\ current' = t /\ pc' = "deliver"
        /\ UNCHANGED <<configured, queue, broken, completed, accepted, next, nested, retries,
                       calls, results, raised, objection>>
    BY <1>7 DEF Take, At, Goto, serial, ending
  <2>2. TypeOK'
    BY <2>1 DEF TypeOK, Futures, Tasks
  <2>3. Outstanding' = Outstanding \ {t} /\ t \in Outstanding
    BY <2>1 DEF Outstanding, TypeOK
  <2>4. Cardinality(Outstanding)' = Cardinality(Outstanding) - 1
    BY <1>3, <2>3, FS_RemoveElement
  <2>5. TasksPlaced'
    BY <2>1, <2>3 DEF BatchInv, PoolInv, TasksPlaced, PoolPhases, Taken
  <2>6. WindowKept'
    BY <1>1, <1>2, <1>3, <2>1, <2>4 DEF BatchInv, PoolInv, WindowKept, PoolPhases
  <2> QED BY <2>1, <2>2, <2>5, <2>6 DEF BatchInv, PoolInv, RestInv, BeginInv, SerialInv, PoolPhases
<1>8. ASSUME NEW t \in Tasks, TakeParseError(t) PROVE TypeOK' /\ BatchInv'
  BY <1>8, CallRaises DEF TakeParseError, TypeOK, Exceptions
<1>9. ASSUME NEW t \in Tasks, TakeError(t) PROVE TypeOK' /\ BatchInv'
  BY <1>9, PoolFails DEF TakeError
<1>10. pc = "deliver" =>
          /\ current \in Tasks /\ current \notin accepted
          /\ Cardinality(accepted \cup {current}) = completed + 1 /\ completed + 1 <= Count
  <2> SUFFICES ASSUME pc = "deliver"
               PROVE  /\ current \in Tasks /\ current \notin accepted
                      /\ Cardinality(accepted \cup {current}) = completed + 1
                      /\ completed + 1 <= Count
    OBVIOUS
  <2>1. current \in Tasks /\ current \notin accepted /\ completed = Cardinality(accepted)
    BY DEF BatchInv, PoolInv, TasksPlaced, PoolPhases
  <2>2. Cardinality(accepted \cup {current}) = completed + 1
    BY <1>3, <2>1, FS_AddElement
  <2>3. accepted \cup {current} \in SUBSET Tasks
    BY <2>1 DEF TypeOK
  <2> QED BY <2>1, <2>2, <2>3, SubsetOfTasks
<1>11. CASE Deliver
  <2>1. /\ pc = "deliver" /\ pc' = "refill" /\ completed' = completed + 1
        /\ calls' = [calls EXCEPT ![current] = @ + 1] /\ accepted' = accepted \cup {current}
        /\ UNCHANGED <<configured, queue, futures, broken, current, next, nested, retries,
                       results, raised, objection>>
    BY <1>11 DEF Deliver, At, Goto, CountOne, Called, serial, ending
  <2>2. TypeOK'
    BY <1>10, <2>1 DEF TypeOK
  <2>3. Outstanding' = Outstanding
    BY <2>1 DEF Outstanding
  <2>4. TasksPlaced'
    BY <2>1, <2>3 DEF BatchInv, PoolInv, TasksPlaced, PoolPhases, Taken
  <2>5. WindowKept'
    BY <1>2, <2>1, <2>3 DEF BatchInv, PoolInv, WindowKept, PoolPhases
  <2>6. completed' = Cardinality(accepted')
    BY <1>10, <2>1
  <2> QED BY <2>1, <2>2, <2>4, <2>5, <2>6 DEF BatchInv, PoolInv, RestInv, BeginInv, SerialInv,
          PoolPhases
<1>12. CASE DeliverRaises
  <2>1. calls' \in [Tasks -> Nat] /\ completed' = completed + 1 /\ pc = "deliver"
    BY <1>10, <1>12, CallsTyped DEF DeliverRaises, CountOne, At
  <2>2. \E e \in Exceptions : Raise(e) /\ objection' \in Exceptions
    BY <1>12 DEF DeliverRaises, Propagate, Exceptions
  <2>3. UNCHANGED <<configured, queue, broken, current, accepted, serial, results>>
    BY <1>12 DEF DeliverRaises
  <2>4. completed + 1 \in Nat /\ completed + 1 <= Count
    BY <1>10, <2>1 DEF TypeOK
  <2> QED BY <2>1, <2>2, <2>3, <2>4, CallRaises
<1>13. CASE Refill
  <2>1. pc = "refill" /\ Cardinality(Outstanding) < Workers
    BY <1>13 DEF Refill, At, BatchInv, PoolInv, WindowKept, PoolPhases
  <2>2. CASE SubmitOne("wait")
    BY <2>1, <2>2, OneSubmitted
  <2>3. CASE SubmitFails
    BY <2>3, PoolFails DEF SubmitFails
  <2>4. CASE /\ queue = {} /\ Goto("wait")
             /\ UNCHANGED <<configured, pool, accepted, serial, calls, ending>>
    <3>1. /\ pc' = "wait" /\ Outstanding' = Outstanding /\ UNCHANGED <<configured, queue, futures,
             broken, current, completed, accepted, next, nested, retries, calls, results, raised,
             objection>>
      BY <2>4 DEF Goto, pool, serial, ending, Outstanding
    <3>2. TypeOK'
      BY <3>1 DEF TypeOK
    <3>3. TasksPlaced'
      BY <2>1, <2>4, <3>1 DEF BatchInv, PoolInv, TasksPlaced, PoolPhases, Taken
    <3>4. WindowKept'
      BY <1>2, <2>1, <3>1 DEF BatchInv, PoolInv, WindowKept, PoolPhases
    <3> QED BY <2>1, <3>1, <3>2, <3>3, <3>4 DEF BatchInv, PoolInv, RestInv, BeginInv, SerialInv,
            PoolPhases
  <2> QED BY <1>13, <2>2, <2>3, <2>4 DEF Refill
<1>14. CASE Return \/ SerialReturn
  <2>1. /\ pc' = "returned" /\ futures' = futures /\ results' = accepted
        /\ UNCHANGED <<configured, queue, broken, current, completed, accepted, next, nested,
                       retries, calls, raised, objection>>
    BY <1>14 DEF Return, SerialReturn, Goto, pool, serial
  <2>2. futures = NoFutures
    <3>1. CASE Return
      BY <3>1 DEF Return, Outstanding, NoFutures, TypeOK
    <3>2. CASE SerialReturn
      BY <3>2 DEF SerialReturn, At, BatchInv, RestInv, PoolPhases
    <3> QED BY <1>14, <3>1, <3>2
  <2>3. TypeOK'
    BY <2>1 DEF TypeOK
  <2> QED BY <2>1, <2>2, <2>3 DEF BatchInv, PoolInv, RestInv, BeginInv, SerialInv, PoolPhases,
          NoFutures, Tasks
<1>15. CASE SerialTask
  <2>1. /\ pc = "serial" /\ next <= Count /\ pc' = pc /\ futures' = futures
        /\ calls' = [calls EXCEPT ![next] = @ + 1] /\ accepted' = accepted \cup {next}
        /\ next' = next + 1
        /\ UNCHANGED <<configured, queue, broken, current, completed, nested, retries, results,
                       raised, objection>>
    BY <1>15 DEF SerialTask, At, Called, pool, ending
  <2>2. next \in Tasks /\ futures = NoFutures /\ accepted = 1..(next - 1)
    BY <2>1 DEF TypeOK, Tasks, BatchInv, RestInv, SerialInv, PoolPhases
  <2>3. TypeOK'
    BY <2>1, <2>2 DEF TypeOK, Tasks
  <2>4. accepted' = 1..(next' - 1)
    BY <2>1, <2>2 DEF Tasks
  <2> QED BY <2>1, <2>2, <2>3, <2>4 DEF BatchInv, PoolInv, RestInv, BeginInv, SerialInv,
          PoolPhases, NoFutures, Tasks
<1>16. CASE SerialTaskFails
  BY <1>16, CallRaises DEF SerialTaskFails, TypeOK, Exceptions
<1>17. CASE SerialCallbackRaises
  <2>1. calls' \in [Tasks -> Nat]
    BY <1>17, CallsTyped DEF SerialCallbackRaises, TypeOK, Tasks
  <2> QED BY <1>17, <2>1, CallRaises DEF SerialCallbackRaises, TypeOK, Propagate, Exceptions
<1>18. CASE SerialCallbackOSError
  <2>1. calls' \in [Tasks -> Nat] /\ objection' \in Exceptions
    BY <1>18, CallsTyped DEF SerialCallbackOSError, TypeOK, Tasks, Exceptions
  <2>2. CASE nested /\ Fallback(FALSE) /\ UNCHANGED raised
    BY <1>18, <2>1, <2>2, StartsOver DEF SerialCallbackOSError
  <2>3. CASE ~nested /\ Raise("OSError") /\ UNCHANGED <<accepted, serial>>
    BY <1>18, <2>1, <2>3, CallRaises DEF SerialCallbackOSError, TypeOK, Exceptions
  <2> QED BY <1>18, <2>2, <2>3 DEF SerialCallbackOSError
<1>19. ASSUME NEW t \in Tasks, Finish(t) PROVE TypeOK' /\ BatchInv'
  <2>1. PICK f \in Futures : f # "none" /\ futures' = [futures EXCEPT ![t] = f]
    BY <1>19 DEF Finish, Futures
  <2>2. UNCHANGED <<configured, pc, queue, broken, current, completed, accepted, serial, calls,
                    ending>> /\ futures[t] = "pending"
    BY <1>19 DEF Finish
  <2>3. /\ [futures EXCEPT ![t] = f] \in [Tasks -> Futures]
        /\ \A u \in Tasks : [futures EXCEPT ![t] = f][u] = "none" <=> futures[u] = "none"
    BY <2>1, <2>2 DEF TypeOK
  <2> QED BY <2>1, <2>2, <2>3, PlacesKept DEF TypeOK
<1>20. CASE PoolBreaks
  <2> DEFINE F == [t \in Tasks |-> IF futures[t] = "pending" THEN "error" ELSE futures[t]]
  <2>1. futures' = F /\ broken' \in BOOLEAN
    BY <1>20 DEF PoolBreaks
  <2>2. UNCHANGED <<configured, pc, queue, current, completed, accepted, serial, calls, ending>>
    BY <1>20 DEF PoolBreaks
  <2>3. F \in [Tasks -> Futures] /\ \A t \in Tasks : F[t] = "none" <=> futures[t] = "none"
    BY DEF TypeOK, Futures
  <2> HIDE DEF F
  <2> QED BY <2>1, <2>2, <2>3, PlacesKept
<1>21. CASE UNCHANGED vars
  <2>1. Outstanding' = Outstanding /\ Workers' = Workers
    BY <1>21 DEF vars, pool, Outstanding, Workers
  <2> QED BY <1>21, <2>1 DEF vars, pool, serial, ending, TypeOK, BatchInv, PoolInv, RestInv,
          BeginInv, SerialInv, TasksPlaced, WindowKept, Taken
<1> QED BY <1>4, <1>5, <1>6, <1>7, <1>8, <1>9, <1>11, <1>12, <1>13, <1>14, <1>15, <1>16,
        <1>17, <1>18, <1>19, <1>20, <1>21 DEF Next, Call

(* The batch begins with every task queued, none counted.                   *)
LEMMA BatchInit == Init => TypeOK /\ BatchInv
<1> SUFFICES ASSUME Init PROVE TypeOK /\ BatchInv
  OBVIOUS
<1>1. TypeOK
  <2>1. futures \in [Tasks -> Futures] /\ calls \in [Tasks -> Nat]
    BY DEF Init, NoFutures, Futures
  <2>2. next \in 1..(Count + 1) /\ current \in 0..Count /\ completed \in 0..Count
    BY DEF Init
  <2>3. raised \in Exceptions /\ objection \in Exceptions
    BY DEF Init, Exceptions
  <2> QED BY <2>1, <2>2, <2>3 DEF Init, TypeOK
<1>2. BatchInv
  BY DEF Init, BatchInv, PoolInv, RestInv, BeginInv, SerialInv, PoolPhases
<1> QED BY <1>1, <1>2

(* BatchInv holds together with TypeOK, which needs it.                     *)
LEMMA BatchHolds == Spec => [](TypeOK /\ BatchInv)
  BY BatchInit, BatchStep, PTL DEF Spec

(* Every reachable state of the batch is well typed; above all, no more     *)
(* results are ever counted than there are tasks, whatever fails.           *)
THEOREM BatchTypeCorrect == Spec => []TypeOK
  BY BatchHolds, PTL

(* The window of run_outline_tasks never holds more futures than there are  *)
(* workers, for every batch, machine and worker count.                      *)
THEOREM WindowIsBoundedHolds == Spec => []WindowIsBounded
<1>1. TypeOK /\ BatchInv => WindowIsBounded
  <2> SUFFICES ASSUME TypeOK, BatchInv PROVE WindowIsBounded
    OBVIOUS
  <2>1. CASE pc \in PoolPhases
    BY <2>1 DEF BatchInv, PoolInv, WindowKept, WindowIsBounded
  <2>2. CASE pc \notin PoolPhases
    BY <2>2, WorkersNat, NoneOutstanding DEF BatchInv, RestInv, WindowIsBounded, TypeOK
  <2> QED BY <2>1, <2>2
<1> QED BY <1>1, BatchHolds, PTL

-----------------------------------------------------------------------------
(* The promise of BatchDelivery.  An OSError that on_complete raises voids  *)
(* it: the handlers of the pool take it for a failure of the pool.          *)

(* While the call runs, the results delivered are the accepted ones, once   *)
(* each, and on_complete has not objected; only a fallback has begun anew.  *)
CallsAgree ==
    ~Ended => results = {} /\ \A t \in Tasks : calls[t] = IF t \in accepted THEN 1 ELSE 0
ObjectionInv == objection # "none" => pc = "raised" /\ raised = objection
RetryInv ==
    /\ pc \in PoolPhases \cup {"begin"} => retries = 0
    /\ nested => retries > 0
DeliveryInv ==
    /\ ~Voided => CallsAgree /\ ObjectionInv
    /\ Voided => Ended \/ retries > 1
    /\ RetryInv
Mapped == DeliveryInv' /\ [Promise!Next]_(Promise!batch)

(* A step that delivers nothing is a stutter of the promise.                *)
LEMMA Stutters ==
    ASSUME DeliveryInv, ~Voided,
           UNCHANGED <<calls, results, accepted, objection, raised, retries, nested>>,
           pc' = pc \/ (~Ended /\ ~Ended'), RetryInv'
    PROVE  Mapped
<1>1. ~Voided' /\ DeliveryInv'
  BY DEF DeliveryInv, CallsAgree, ObjectionInv, Ended, Voided
<1>2. UNCHANGED Promise!batch
  BY <1>1 DEF Promise!batch, Ended, Voided
<1> QED BY <1>1, <1>2 DEF Mapped

(* A step from one phase of the pool to another is one of them.             *)
LEMMA PoolStutters ==
    ASSUME DeliveryInv, ~Voided, UNCHANGED <<calls, accepted, serial, ending>>,
           pc \in PoolPhases \cup {"begin"}, pc' \in PoolPhases \cup {"serial"}
    PROVE  Mapped
<1>1. retries = 0 /\ ~nested
  BY DEF DeliveryInv, RetryInv
<1>2. retries' = 0 /\ nested' = nested
  BY <1>1 DEF serial
<1>3. RetryInv'
  BY <1>1, <1>2 DEF RetryInv
<1>4. ~Ended /\ ~Ended'
  BY DEF Ended, PoolPhases
<1> QED BY <1>3, <1>4, Stutters DEF serial, ending

(* An exception that is not on_complete's ends the promise's batch.         *)
LEMMA Fails ==
    ASSUME DeliveryInv, ~Voided, ~Ended, NEW e, Raise(e),
           UNCHANGED <<calls, results, objection, retries, nested>>
    PROVE  Mapped
<1>1. pc' = "raised" /\ objection' = "none" /\ ~Voided'
  BY DEF Raise, Goto, DeliveryInv, ObjectionInv, Ended, Voided
<1>2. DeliveryInv'
  BY <1>1 DEF DeliveryInv, CallsAgree, ObjectionInv, RetryInv, Ended, PoolPhases
<1>3. Promise!Fail
  BY <1>1 DEF Promise!Fail, Ended
<1> QED BY <1>2, <1>3 DEF Mapped, Promise!Next

(* A task that is not accepted has not been delivered.                      *)
LEMMA FirstCall ==
    ASSUME DeliveryInv, ~Voided, ~Ended, NEW t \in Tasks, t \notin accepted, Called(t)
    PROVE  calls[t] = 0 /\ calls' = [calls EXCEPT ![t] = 1]
<1>1. calls[t] = 0
  BY DEF DeliveryInv, CallsAgree
<1>2. calls[t] + 1 = 1
  BY <1>1
<1> QED BY <1>1, <1>2 DEF Called

(* A result that was not accepted before is delivered: the call goes on ... *)
LEMMA Delivers ==
    ASSUME TypeOK, DeliveryInv, ~Voided, ~Ended, ~Ended', NEW t \in Tasks, t \notin accepted,
           Called(t), accepted' = accepted \cup {t}, RetryInv',
           UNCHANGED <<results, raised, objection, retries>>
    PROVE  Mapped
<1>1. calls[t] = 0 /\ calls' = [calls EXCEPT ![t] = 1]
  BY FirstCall
<1>2. ~Voided'
  BY DEF Voided
<1>3. CallsAgree' /\ ObjectionInv'
  BY <1>1 DEF DeliveryInv, CallsAgree, ObjectionInv, TypeOK, Ended
<1>4. Promise!Deliver(t)
  BY <1>1, <1>2 DEF Promise!Deliver
<1> QED BY <1>2, <1>3, <1>4 DEF Mapped, DeliveryInv, Promise!Next

(* ... or on_complete objects, and what it raised leaves the call ...       *)
LEMMA Objects ==
    ASSUME TypeOK, DeliveryInv, ~Voided, ~Ended, NEW t \in Tasks, t \notin accepted, Called(t),
           NEW e, e # "OSError", Raise(e), objection' = e, UNCHANGED <<results, retries, nested>>
    PROVE  Mapped
<1>1. pc' = "raised" /\ raised' = e /\ ~Voided'
  BY DEF Raise, Goto, Voided
<1>2. calls[t] = 0 /\ calls' = [calls EXCEPT ![t] = 1]
  BY FirstCall
<1>3. DeliveryInv'
  BY <1>1 DEF DeliveryInv, CallsAgree, ObjectionInv, RetryInv, Ended, PoolPhases
<1>4. Promise!Deliver(t)
  BY <1>1, <1>2 DEF Promise!Deliver, Ended
<1> QED BY <1>3, <1>4 DEF Mapped, Promise!Next

(* ... or it raises an OSError, and nothing is promised any more.           *)
LEMMA Voids ==
    ASSUME TypeOK, DeliveryInv, ~Voided, ~Ended, NEW t \in Tasks, t \notin accepted, Called(t),
           objection' = "OSError", results' = results, RetryInv', Ended' \/ retries' > 1
    PROVE  Mapped
<1>1. Voided'
  BY DEF Voided
<1>2. calls[t] = 0 /\ calls' = [calls EXCEPT ![t] = 1]
  BY FirstCall
<1>3. Promise!Deliver(t)
  BY <1>1, <1>2 DEF Promise!Deliver
<1> QED BY <1>1, <1>3 DEF Mapped, DeliveryInv, Promise!Next

(* The batch is returned with every result.                                 *)
LEMMA Returns ==
    ASSUME DeliveryInv, ~Voided, ~Ended, accepted = Tasks, pc' = "returned", results' = accepted,
           UNCHANGED <<calls, raised, objection, retries, nested>>
    PROVE  Mapped
<1>1. ~Voided'
  BY DEF Voided
<1>2. DeliveryInv'
  BY <1>1 DEF DeliveryInv, CallsAgree, ObjectionInv, RetryInv, Ended, PoolPhases
<1>3. Promise!Return
  BY <1>1 DEF Promise!Return, DeliveryInv, CallsAgree, Ended
<1> QED BY <1>2, <1>3 DEF Mapped, Promise!Next

(* A pool that fails before any result was counted has delivered nothing.   *)
LEMMA RetriesOrFails ==
    ASSUME TypeOK, BatchInv, DeliveryInv, ~Voided, NEW inside \in BOOLEAN, RetryOrRaise(inside),
           pc \in PoolPhases \cup {"begin"}, UNCHANGED <<calls, results, objection>>
    PROVE  Mapped
<1>1. ~Ended /\ retries = 0
  BY DEF Ended, PoolPhases, DeliveryInv, RetryInv
<1>2. CASE ~MayRetry /\ Raise("ParallelOutlineError") /\ UNCHANGED <<accepted, serial>>
  BY <1>1, <1>2, Fails DEF serial
<1>3. CASE MayRetry /\ Fallback(inside) /\ UNCHANGED raised
  <2>1. accepted = {}
    <3>1. CASE pc = "begin"
      BY <3>1 DEF BatchInv, BeginInv
    <3>2. CASE pc \in PoolPhases
      <4>1. Cardinality(accepted) = 0
        BY <1>3, <3>2 DEF MayRetry, BatchInv, PoolInv
      <4>2. IsFiniteSet(accepted)
        BY SubsetOfTasks DEF TypeOK
      <4> QED BY <4>1, <4>2, FS_EmptySet
    <3> QED BY <3>1, <3>2
  <2>2. pc' = "serial" /\ accepted' = {} /\ retries' = retries + 1
    BY <1>3 DEF Fallback, Goto
  <2>3. retries' = 1
    BY <1>1, <2>2
  <2>4. ~Ended' /\ ~Voided'
    BY <2>2, <2>3 DEF Ended, Voided
  <2>5. RetryInv'
    BY <2>2, <2>3 DEF RetryInv, PoolPhases
  <2>6. CallsAgree' /\ ObjectionInv'
    BY <1>1, <1>3, <2>1, <2>2, <2>4 DEF DeliveryInv, CallsAgree, ObjectionInv, Ended
  <2>7. UNCHANGED Promise!batch
    BY <1>1, <2>4 DEF Promise!batch
  <2> QED BY <2>4, <2>5, <2>6, <2>7 DEF Mapped, DeliveryInv
<1> QED BY <1>2, <1>3 DEF RetryOrRaise

(* No step takes a retry back.                                              *)
LEMMA RetriesGrow == ASSUME TypeOK, [Next]_vars PROVE retries' \in {retries, retries + 1}
<1>1. CASE Begin \/ Submit \/ Refill \/ NoPool
  BY <1>1 DEF Begin, Submit, SubmitOne, SubmitFails, Refill, NoPool, RetryOrRaise, Fallback, serial
<1>2. CASE Deliver \/ DeliverRaises \/ Return
  BY <1>2 DEF Deliver, DeliverRaises, Return, serial
<1>3. CASE SerialTask \/ SerialTaskFails \/ SerialCallbackRaises \/ SerialCallbackOSError \/ SerialReturn
  BY <1>3 DEF SerialTask, SerialTaskFails, SerialCallbackRaises, SerialCallbackOSError, SerialReturn,
     Fallback, serial
<1>4. ASSUME NEW t \in Tasks, Take(t) \/ TakeParseError(t) \/ TakeError(t)
      PROVE  retries' \in {retries, retries + 1}
  BY <1>4 DEF Take, TakeParseError, TakeError, RetryOrRaise, Fallback, serial
<1>5. ASSUME NEW t \in Tasks, Finish(t) PROVE retries' \in {retries, retries + 1}
  BY <1>5 DEF Finish, serial
<1>6. CASE PoolBreaks \/ UNCHANGED vars
  BY <1>6 DEF PoolBreaks, vars, serial
<1> QED BY <1>1, <1>2, <1>3, <1>4, <1>5, <1>6 DEF Next, Call

(* A call that has ended takes no step.                                     *)
LEMMA EndedStays == ASSUME TypeOK, BatchInv, Ended, [Next]_vars PROVE UNCHANGED vars
<1>1. \A t \in Tasks : futures[t] # "pending"
  BY DEF BatchInv, RestInv, Ended, PoolPhases, NoFutures
<1> QED BY <1>1 DEF Ended, Next, Call, At, Begin, NoPool, Submit, Deliver, DeliverRaises, Refill,
        Return, SerialTask, SerialTaskFails, SerialCallbackRaises, SerialCallbackOSError,
        SerialReturn, Take, TakeParseError, TakeError, Finish, PoolBreaks

(* Outside the pool and the beginning the call stays outside.               *)
LEMMA OutsideStays ==
    ASSUME TypeOK, BatchInv, pc \notin PoolPhases \cup {"begin"}, [Next]_vars
    PROVE  pc' \notin PoolPhases \cup {"begin"}
<1>1. CASE UNCHANGED vars \/ \E t \in Tasks : Finish(t)
  BY <1>1 DEF vars, Finish
<1>2. CASE Call
  <2>1. SerialTask \/ SerialTaskFails \/ SerialCallbackRaises \/ SerialCallbackOSError \/ SerialReturn
    BY <1>2 DEF Call, PoolPhases, At, Begin, NoPool, Submit, Deliver, DeliverRaises, Refill, Return,
       Take, TakeParseError, TakeError
  <2>2. pc' \in {"serial", "raised", "returned"}
    BY <2>1 DEF SerialTask, SerialTaskFails, SerialCallbackRaises, SerialCallbackOSError,
       SerialReturn, At, Goto, Raise, Fallback
  <2> QED BY <2>2 DEF PoolPhases
<1>3. CASE PoolBreaks
  BY <1>3 DEF PoolBreaks, PoolPhases
<1> QED BY <1>1, <1>2, <1>3 DEF Next

(* Once nothing is promised, nothing is promised ever after.                *)
LEMMA VoidSteps ==
    ASSUME TypeOK, BatchInv, DeliveryInv, Voided, [Next]_vars PROVE Mapped
<1>1. CASE Ended
  <2>1. UNCHANGED vars
    BY <1>1, EndedStays
  <2>2. Voided' /\ Ended' /\ RetryInv' /\ UNCHANGED Promise!batch
    BY <1>1, <2>1 DEF Voided, Ended, RetryInv, DeliveryInv, Promise!batch, vars, serial, ending
  <2> QED BY <2>2 DEF Mapped, DeliveryInv
<1>2. CASE ~Ended
  <2>1. retries > 1 /\ retries \in Nat
    BY <1>2 DEF DeliveryInv, TypeOK
  <2>2. retries' > 1
    BY <2>1, RetriesGrow
  <2>3. pc \notin PoolPhases \cup {"begin"}
    <3> SUFFICES ASSUME pc \in PoolPhases \cup {"begin"} PROVE FALSE
      OBVIOUS
    <3>1. retries = 0
      BY DEF DeliveryInv, RetryInv
    <3> QED BY <2>1, <3>1
  <2>4. pc' \notin PoolPhases \cup {"begin"}
    BY <2>3, OutsideStays
  <2>5. retries' > 0
    BY <2>1, <2>2, RetriesGrow
  <2>6. RetryInv'
    BY <2>4, <2>5 DEF RetryInv
  <2>7. Voided'
    BY <2>2 DEF Voided
  <2>8. Promise!Free
    BY <2>7 DEF Promise!Free
  <2> QED BY <2>2, <2>6, <2>7, <2>8 DEF Mapped, DeliveryInv, Promise!Next
<1> QED BY <1>1, <1>2

(* Every step of the call and of its pool maps to a step of the promise.    *)
LEMMA DeliveryStep ==
    ASSUME TypeOK, BatchInv, DeliveryInv, [Next]_vars PROVE Mapped
<1> SUFFICES ASSUME ~Voided PROVE Mapped
  BY VoidSteps
<1>0. RetryInv
  BY DEF DeliveryInv
<1>1. CASE Begin
  BY <1>1, PoolStutters DEF Begin, At, Goto, PoolPhases
<1>2. CASE NoPool
  BY <1>2, RetriesOrFails DEF NoPool, At
<1>3. CASE Submit
  <2>1. pc = "submit"
    BY <1>3 DEF Submit, At
  <2>2. CASE SubmitOne("submit")
    BY <2>1, <2>2, PoolStutters DEF SubmitOne, Goto, PoolPhases
  <2>3. CASE SubmitFails
    BY <2>1, <2>3, RetriesOrFails DEF SubmitFails, PoolPhases
  <2>4. CASE Goto("wait") /\ UNCHANGED <<configured, pool, accepted, serial, calls, ending>>
    BY <2>1, <2>4, PoolStutters DEF Goto, PoolPhases
  <2> QED BY <1>3, <2>2, <2>3, <2>4 DEF Submit
<1>4. ASSUME NEW t \in Tasks, Take(t) PROVE Mapped
  BY <1>4, PoolStutters DEF Take, At, Goto, PoolPhases
<1>5. ASSUME NEW t \in Tasks, TakeParseError(t) PROVE Mapped
  BY <1>5, Fails DEF TakeParseError, At, Ended, serial
<1>6. ASSUME NEW t \in Tasks, TakeError(t) PROVE Mapped
  BY <1>6, RetriesOrFails DEF TakeError, At, PoolPhases
<1>7. pc = "deliver" => ~Ended /\ current \in Tasks /\ current \notin accepted
  BY DEF BatchInv, PoolInv, TasksPlaced, PoolPhases, Ended
<1>8. CASE Deliver
  <2>1. pc = "deliver" /\ pc' = "refill" /\ ~Ended'
    BY <1>8 DEF Deliver, At, Goto, Ended
  <2>2. /\ Called(current) /\ accepted' = accepted \cup {current}
        /\ UNCHANGED <<results, raised, objection, retries, nested>>
    BY <1>8 DEF Deliver, ending, serial
  <2>3. RetryInv'
    BY <1>0, <2>1, <2>2 DEF RetryInv, PoolPhases
  <2> QED BY <1>7, <2>1, <2>2, <2>3, Delivers
<1>9. CASE DeliverRaises
  <2>1. pc = "deliver" /\ Called(current) /\ UNCHANGED <<results, retries, nested>>
    BY <1>9 DEF DeliverRaises, At, serial
  <2>2. CASE objection' = "callback" /\ Raise("callback")
    BY <1>7, <2>1, <2>2, Objects
  <2>3. CASE objection' = "OSError" /\ Raise("ParallelOutlineError")
    <3>1. Ended' /\ RetryInv'
      BY <1>0, <2>1, <2>3 DEF Raise, Goto, Ended, RetryInv, PoolPhases
    <3> QED BY <1>7, <2>1, <2>3, <3>1, Voids
  <2> QED BY <1>9, <2>2, <2>3 DEF DeliverRaises, Propagate
<1>10. CASE Refill
  <2>1. pc = "refill"
    BY <1>10 DEF Refill, At
  <2>2. CASE SubmitOne("wait")
    BY <2>1, <2>2, PoolStutters DEF SubmitOne, Goto, PoolPhases
  <2>3. CASE SubmitFails
    BY <2>1, <2>3, RetriesOrFails DEF SubmitFails, PoolPhases
  <2>4. CASE Goto("wait") /\ UNCHANGED <<configured, pool, accepted, serial, calls, ending>>
    BY <2>1, <2>4, PoolStutters DEF Goto, PoolPhases
  <2> QED BY <1>10, <2>2, <2>3, <2>4 DEF Refill
<1>11. CASE Return
  <2>1. accepted = Tasks
    BY <1>11 DEF Return, At, BatchInv, PoolInv, TasksPlaced, PoolPhases, Taken, TypeOK
  <2> QED BY <1>11, <2>1, Returns DEF Return, At, Goto, Ended, serial
<1>12. pc = "serial" /\ next <= Count => ~Ended /\ next \in Tasks /\ next \notin accepted
  BY DEF BatchInv, SerialInv, Ended, TypeOK, Tasks
<1>13. CASE SerialTask
  <2>1. pc = "serial" /\ next <= Count /\ pc' = pc /\ ~Ended'
    BY <1>13 DEF SerialTask, At, Ended
  <2>2. /\ Called(next) /\ accepted' = accepted \cup {next}
        /\ UNCHANGED <<results, raised, objection, retries, nested>>
    BY <1>13 DEF SerialTask, ending
  <2>3. RetryInv'
    BY <1>0, <2>1, <2>2 DEF RetryInv
  <2> QED BY <1>12, <2>1, <2>2, <2>3, Delivers
<1>14. CASE SerialTaskFails
  BY <1>14, Fails DEF SerialTaskFails, At, Ended, serial
<1>15. CASE SerialCallbackRaises
  BY <1>12, <1>15, Objects DEF SerialCallbackRaises, At, Propagate, serial
<1>16. CASE SerialCallbackOSError
  <2>1. /\ pc = "serial" /\ next <= Count /\ Called(next) /\ objection' = "OSError"
        /\ results' = results
    BY <1>16 DEF SerialCallbackOSError, At
  <2>2. CASE nested /\ Fallback(FALSE)
    <3>1. retries' = retries + 1 /\ pc' = "serial" /\ retries > 0 /\ retries \in Nat
      BY <1>0, <2>2 DEF Fallback, Goto, RetryInv, TypeOK
    <3>2. retries' > 1 /\ retries' > 0
      BY <3>1
    <3>3. RetryInv'
      BY <3>1, <3>2 DEF RetryInv, PoolPhases
    <3> QED BY <1>12, <2>1, <3>2, <3>3, Voids
  <2>3. CASE ~nested /\ Raise("OSError") /\ UNCHANGED <<accepted, serial>>
    <3>1. pc' = "raised" /\ nested' = nested /\ Ended'
      BY <2>3 DEF Raise, Goto, serial, Ended
    <3>2. RetryInv'
      BY <2>3, <3>1 DEF RetryInv, PoolPhases
    <3> QED BY <1>12, <2>1, <3>1, <3>2, Voids
  <2> QED BY <1>16, <2>2, <2>3 DEF SerialCallbackOSError
<1>17. CASE SerialReturn
  <2>1. accepted = Tasks
    BY <1>17 DEF SerialReturn, At, BatchInv, SerialInv, TypeOK, Tasks
  <2> QED BY <1>17, <2>1, Returns DEF SerialReturn, At, Goto, Ended, serial
<1>18. CASE PoolBreaks
  BY <1>18, PoolStutters DEF PoolBreaks, PoolPhases
<1>19. CASE UNCHANGED vars \/ \E t \in Tasks : Finish(t)
  <2>1. UNCHANGED <<pc, calls, accepted, results, objection, raised, retries, nested>>
    BY <1>19 DEF vars, Finish, serial, ending
  <2>2. RetryInv'
    BY <1>0, <2>1 DEF RetryInv
  <2> QED BY <2>1, <2>2, Stutters
<1> QED BY <1>1, <1>2, <1>3, <1>4, <1>5, <1>6, <1>8, <1>9, <1>10, <1>11, <1>13, <1>14,
        <1>15, <1>16, <1>17, <1>18, <1>19 DEF Next, Call

(* The call begins where the promise does.                                  *)
LEMMA DeliveryInit == Init => DeliveryInv /\ Promise!Init
<1> SUFFICES ASSUME Init PROVE DeliveryInv /\ Promise!Init
  OBVIOUS
<1>1. ~Voided /\ ~Ended
  BY DEF Init, Voided, Ended
<1>2. RetryInv
  BY DEF Init, RetryInv
<1> QED BY <1>1, <1>2 DEF Init, DeliveryInv, CallsAgree, ObjectionInv, Promise!Init

(* DeliveryInv holds throughout.                                            *)
LEMMA DeliveryHolds == Spec => []DeliveryInv
<1>1. TypeOK /\ BatchInv /\ DeliveryInv /\ [Next]_vars => DeliveryInv'
  BY DeliveryStep DEF Mapped
<1> QED BY <1>1, DeliveryInit, BatchHolds, PTL DEF Spec

(* run_outline_tasks implements BatchDelivery: each result is delivered at  *)
(* most once, a returned batch is complete, and nothing is delivered after  *)
(* the end, although the pool may be refused, break, or lose results, up to *)
(* an OSError of on_complete.                                               *)
THEOREM KeepsPromiseHolds == Spec => KeepsPromise
<1>1. TypeOK /\ BatchInv /\ DeliveryInv /\ [Next]_vars => [Promise!Next]_(Promise!batch)
  BY DeliveryStep DEF Mapped
<1> QED BY <1>1, DeliveryInit, DeliveryHolds, BatchHolds, PTL
        DEF Spec, KeepsPromise, Promise!Spec

(* What on_complete raises leaves run_outline_tasks unchanged, with every   *)
(* outstanding future cancelled, unless it is an OSError.                   *)
THEOREM CallbackErrorHolds == Spec => []CallbackErrorPropagates
<1>1. TypeOK /\ BatchInv /\ DeliveryInv => CallbackErrorPropagates
  BY NoneOutstanding DEF DeliveryInv, ObjectionInv, BatchInv, RestInv, PoolPhases,
     CallbackErrorPropagates
<1> QED BY <1>1, BatchHolds, DeliveryHolds, PTL
=============================================================================
