---------------------------- MODULE WorkerSession ----------------------------
(***************************************************************************)
(* One session of the generated OpenCode plugin with its workers           *)
(* (_opencode_plugin of src/delphi_lsp/agent_templates.py): a client and a *)
(* worker process per root, requests that wait in the client's queue, time *)
(* out, are aborted or fail, the lookup before a compaction, and the end   *)
(* of the session.  The plugin runs on one thread: what it does up to its  *)
(* next wait is one step, and a request whose turn has come starts before  *)
(* the host calls again.                                                   *)
(***************************************************************************)
EXTENDS WorkerFraming, FiniteSets

CONSTANTS Roots, Calls, Call,  \* Call[c]: the root, whether it sets the focus, its length
          Hosts                \* the sets of calls a host may make

VARIABLES plugin,   \* what its thread holds, and the processes it has started
          session

vars == <<plugin, session>>
clients == plugin.clients        \* all WorkerClients so far, with their processes
workers == plugin.workers        \* root -> the client in the map of the session, 0 for none
calls == plugin.calls            \* what became of each call of the tool
compaction == plugin.compaction  \* the lookup before a compaction

Lookup == "lookup"  \* a request of the compaction hook
\* a request is a line of text: it is not empty and neither LF nor CR is in it
ASSUME RequestAssumption ==
    /\ {LF, CR} \cap (Calls \cup {Lookup}) = {}
    /\ \A c \in Calls : Call[c].root \in Roots /\ Call[c].length \in Nat \ {0}
NewClient(root) ==
    [root |-> root, closed |-> FALSE, queue |-> <<>>, running |-> FALSE, alive |-> TRUE, cut |-> FALSE,
     in |-> <<>>, discarding |-> FALSE, out |-> <<>>, focus |-> FALSE]
Line(kind, of, focus) == [kind |-> kind, of |-> of, focus |-> focus]
NoCompaction == [phase |-> "none", left |-> {}, restored |-> FALSE]
Unsent == [state |-> "unsent", aborted |-> FALSE, of |-> ""]
NotMade == [Unsent EXCEPT !.state = "not made"]

Init == /\ session = "live"
        /\ \E host \in Hosts :
               plugin = [clients |-> <<>>, workers |-> [r \in Roots |-> 0], compaction |-> NoCompaction,
                         calls |-> [c \in Calls |-> IF c \in host THEN Unsent ELSE NotMade]]

\* WorkerClient.close: the process is killed, its output is not read any more
CloseClient(client) == IF client.closed THEN client
                 ELSE [client EXCEPT !.closed = TRUE, !.alive = FALSE, !.in = <<>>, !.out = <<>>, !.cut = FALSE]
Close(p, k) == [p EXCEPT !.clients[k] = CloseClient(@)]
RemoveClient(p, root) ==
    IF p.workers[root] = 0 THEN p
    ELSE [Close(p, p.workers[root]) EXCEPT !.workers[root] = 0]
Enqueue(p, k, r) == [p EXCEPT !.clients[k].queue = Append(@, r)]

\* the compaction hook: the next root of those it found, until one has a focus
NextRoot(p) == IF p.compaction.left = {} THEN [p EXCEPT !.compaction.phase = "done"]
               ELSE [p EXCEPT !.compaction.phase = "next"]
Looked(p, k, result) ==
    CASE result.kind # "response" -> NextRoot(p)
      [] result.kind = "response" /\ p.compaction.phase = "inspect" ->
            [p EXCEPT !.compaction.phase = "done", !.compaction.restored = TRUE]
      [] result.kind = "response" /\ p.compaction.phase = "focus" /\ result.focus ->
            Enqueue([p EXCEPT !.compaction.phase = "inspect"], k, Lookup)
      [] OTHER -> NextRoot(p)

\* the request at the head of the queue is settled; a failure that is no
\* reusable protocol error has its caller remove the root's client
IsReusable(result) == result.kind \in {"response", "protocol"}
\* Mutant: a request that fails leaves the queue waiting for it
StuckOnFailure(p, k, result) ==
    [p EXCEPT !.clients[k].running = FALSE,
              !.clients[k].queue = IF result.kind = "response" THEN Tail(@) ELSE @]
Dequeue(p, k, result) ==
    [p EXCEPT !.clients[k].running = FALSE, !.clients[k].queue = Tail(@)]
Told(p, k, r, result) ==
    IF r = Lookup THEN Looked(p, k, result)
    ELSE [p EXCEPT !.calls[r].state = result.kind, !.calls[r].of = result.of]
Settle(p, k, result) ==
    LET r == Head(p.clients[k].queue)
        free == Dequeue(p, k, result)
    IN Told(IF IsReusable(result) THEN free ELSE RemoveClient(free, p.clients[k].root), k, r, result)
Failure(kind) == Line(kind, "", FALSE)

(***************************************************************************)
(* The host: calls of the tool, aborts, compaction and the end             *)
(***************************************************************************)
Ready(k) == clients[k].queue # <<>> /\ ~clients[k].running
Quiet == \A k \in DOMAIN clients : ~Ready(k)

WithClient(p, root) ==
    IF p.workers[root] # 0 THEN p
    ELSE [p EXCEPT !.clients = Append(@, NewClient(root)), !.workers[root] = Len(p.clients) + 1]
Sent(p, c) == Enqueue(p, p.workers[Call[c].root], c)
Execute(c) ==
    /\ session = "live" /\ Quiet /\ calls[c].state = "unsent"
    /\ plugin' = Sent(WithClient([plugin EXCEPT !.calls[c].state = "sent"], Call[c].root), c)
    /\ UNCHANGED session

AtWork(c) == {k \in DOMAIN clients : clients[k].running /\ Head(clients[k].queue) = c}
\* Mutant: an interrupted request is rejected but its worker is kept
JustReject(p, k) == Settle(p, k, Failure("protocol"))
Interrupt(p, k) == Settle(Close(p, k), k, Failure("transport"))
Abort(c) ==
    /\ calls[c].state = "sent" /\ ~calls[c].aborted
    /\ LET p == [plugin EXCEPT !.calls[c].aborted = TRUE]
       IN \/ AtWork(c) = {} /\ plugin' = p
          \/ \E k \in AtWork(c) : plugin' = Interrupt(p, k)
    /\ UNCHANGED session

Entered(p) == {<<r, p.workers[r]>> : r \in {x \in Roots : p.workers[x] # 0}}
Compact ==
    /\ session = "live" /\ Quiet /\ compaction.phase = "none" /\ Entered(plugin) # {}
    /\ plugin' = [plugin EXCEPT !.compaction =
           [phase |-> "next", left |-> Entered(plugin), restored |-> FALSE]]
    /\ UNCHANGED session
Look == \E entry \in compaction.left :
            /\ compaction.phase = "next"
            /\ plugin' = Enqueue([plugin EXCEPT !.compaction.phase = "focus", !.compaction.left = @ \ {entry}],
                              entry[2], Lookup)
            /\ UNCHANGED session

CloseAll(p) ==
    [p EXCEPT !.clients = [k \in DOMAIN @ |-> IF k \in Range(p.workers) THEN CloseClient(@[k]) ELSE @[k]],
              !.workers = [r \in Roots |-> 0]]
CloseSession == /\ session = "live" /\ Quiet
                /\ session' = "closed" /\ plugin' = CloseAll(plugin)

(***************************************************************************)
(* The client: a turn of the queue, an answer, a timeout                   *)
(***************************************************************************)
Bytes(r) == IF r = Lookup THEN <<r>> ELSE [i \in 1 .. Call[r].length |-> r]
IsAborted(r) == r \in Calls /\ calls[r].aborted
Turn(k) ==
    /\ Ready(k) /\ UNCHANGED session
    /\ LET r == Head(clients[k].queue) IN
       \/ clients[k].closed /\ plugin' = Settle(plugin, k, Failure("transport"))
       \/ ~clients[k].closed /\ IsAborted(r) /\ plugin' = Interrupt(plugin, k)
       \/ /\ ~clients[k].closed /\ ~IsAborted(r)
          /\ plugin' = [plugin EXCEPT !.clients[k].running = TRUE,
                                !.clients[k].in = @ \o Bytes(r) \o <<LF>>]
\* writing or flushing fails once the process is gone, or the pipe just ends
WriteFails(k) ==
    /\ Ready(k) /\ ~clients[k].closed /\ ~clients[k].alive /\ ~IsAborted(Head(clients[k].queue))
    /\ plugin' = Interrupt(plugin, k) /\ UNCHANGED session
Read(k) ==
    /\ clients[k].running /\ clients[k].out # <<>>
    /\ plugin' = Settle([plugin EXCEPT !.clients[k].out = Tail(@)], k, Head(clients[k].out))
    /\ UNCHANGED session
ReadEnd(k) ==
    /\ clients[k].running /\ clients[k].out = <<>> /\ ~clients[k].alive
    /\ plugin' = Settle(plugin, k, Failure(IF clients[k].cut THEN "broken" ELSE "transport"))
    /\ UNCHANGED session
Timeout(k) == /\ clients[k].running /\ plugin' = Interrupt(plugin, k) /\ UNCHANGED session

(***************************************************************************)
(* The worker process: _serve_worker, and how it may fail                  *)
(***************************************************************************)
Worker(client, turn) ==
    [client EXCEPT !.in = turn.rest, !.discarding = turn.discarding,
        !.focus = @ \/ (turn.say = "answer" /\ turn.text[1] \in Calls /\ Call[turn.text[1]].focus)]
Output(client, turn) ==
    CASE turn.say = "nothing" -> {<<>>}
      [] turn.say = "request_too_large" -> {<<Failure("protocol")>>}
      [] OTHER -> {<<Line("response", turn.text[1], client.focus)>>, <<Failure("protocol")>>}
ServeWorker(k) ==
    /\ clients[k].alive /\ clients[k].in # <<>>
    /\ LET turn == ServeOne(clients[k].in, clients[k].discarding)
           client == Worker(clients[k], turn)
       IN \E lines \in Output(client, turn) :
              plugin' = [plugin EXCEPT !.clients[k] = [client EXCEPT !.out = @ \o lines]]
    /\ UNCHANGED session
WorkerDies(k) ==
    /\ clients[k].alive
    /\ \E cut \in {FALSE, clients[k].in # <<>>} :
           plugin' = [plugin EXCEPT !.clients[k] = [@ EXCEPT !.alive = FALSE, !.in = <<>>, !.cut = cut]]
    /\ UNCHANGED session

Next == \/ \E c \in Calls : Execute(c) \/ Abort(c)
        \/ Compact \/ Look \/ CloseSession
        \/ \E k \in DOMAIN clients : \/ Turn(k) \/ WriteFails(k) \/ Read(k) \/ ReadEnd(k) \/ Timeout(k)
                                     \/ ServeWorker(k) \/ WorkerDies(k)
SessionSpec == Init /\ [][Next]_vars
\* the event loop runs what is due; the worker may hang for ever
Fairness == WF_vars(\E k \in DOMAIN clients : Turn(k) \/ Timeout(k))

(***************************************************************************)
(* Properties                                                              *)
(***************************************************************************)
\* A call is answered with what the worker said of that call, whatever was
\* aborted, timed out, refused or garbled on the same pipe before it
\* (requestOne, interrupt and _serve_worker)
AnswersMatch == \A c \in Calls : calls[c].state = "response" => calls[c].of = c

\* A worker that runs can be found again: it is the one the map has for its
\* root, and none outlives its session (removeClient, closeSession, dispose)
NoWorkerIsLost ==
    \A k \in DOMAIN clients : clients[k].alive => workers[clients[k].root] = k /\ session = "live"

\* Every call of the tool is settled, though the worker may hang for ever
\* (requestOne's timeout, and a queue that goes on after a failure)
CallsSettle == \A c \in Calls : calls[c].state = "sent" ~> calls[c].state # "sent"

================================================================================
