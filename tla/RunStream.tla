------------------------------ MODULE RunStream ------------------------------
(***************************************************************************)
(* The event stream of a conversation's runs.                              *)
(*                                                                         *)
(* Each request gets a response: a run task (_consume_run) drives the      *)
(* thread's agent and puts its events on the response's queue; the agents  *)
(* it delegates to report through the session's one EventQueue, whose sink *)
(* is the response bound last; the response (_sse_response) takes events   *)
(* off the queue, closes what is still open, and hands them to the client. *)
(* A client may leave at any point, and a second request may arrive while  *)
(* a run is in progress.                                                   *)
(*                                                                         *)
(* One fixed-config conversation, so its requests share a session, and they*)
(* arrive in the order of their numbers.  Text, reasoning, arguments and   *)
(* the write-back of the sessions are abstracted away.                     *)
(***************************************************************************)
EXTENDS Naturals, Sequences

CONSTANTS
  MaxRequests, \* bound on the requests of the conversation
  Calls,       \* the entry agent's tool calls
  Subs         \* the invocations of delegated agents

ASSUME RunStreamAssumption == MaxRequests \in Nat

Requests == 1..MaxRequests
Nobody == 0

VARIABLES
  stage,      \* where each request's response is
  task,       \* its run task
  unresolved, \* _consume_run's unresolved_tool_calls
  merged,     \* the response's queue
  segments,   \* SubagentStream: invocations open in the response
  sink,       \* EventQueue._sink: the response events are forwarded to
  runner,     \* the run the agent is working for
  executing,  \* entry calls the agent has yet to give a result
  paused,     \* entry calls a paused run left waiting
  working,    \* delegated invocations in progress
  complete,   \* those that reported their end
  by,         \* the request whose run announced each call
  results,    \* results the client got for each call
  shown,      \* invocations open at the client, by response
  ending,     \* the terminal event the client got, by response
  overlapped, \* a request arrived while another response was in progress
  strayed     \* an invocation's event missed its own run's response

agentVars == <<runner, executing, paused, working, complete>>
clientVars == <<results, shown, ending>>
vars == <<stage, task, unresolved, merged, segments, sink, agentVars, by,
          clientVars, overlapped, strayed>>

Busy(r) == stage[r] \in {"bound", "streaming", "leaving"}

Init ==
  /\ stage = [r \in Requests |-> "none"] /\ task = [r \in Requests |-> "none"]
  /\ unresolved = [r \in Requests |-> {}] /\ merged = [r \in Requests |-> <<>>]
  /\ segments = [r \in Requests |-> {}] /\ sink = Nobody
  /\ runner = Nobody /\ executing = {} /\ paused = {} /\ working = {}
  /\ complete = {} /\ by = [c \in Calls |-> Nobody] /\ results = [c \in Calls |-> 0]
  /\ shown = [r \in Requests |-> {}] /\ ending = [r \in Requests |-> "none"]
  /\ overlapped = FALSE /\ strayed = FALSE

Put(r, events) == merged' = [merged EXCEPT ![r] = @ \o events]

\* What only a response reads goes with it.
Reset(f, r, value) == [f EXCEPT ![r] = value]

\* A queued event, and the calls or invocation it is about.
Event(kind, about) == [kind |-> kind, about |-> about]
DONE == Event("done", {})
Results(some) == IF some = {} THEN <<>> ELSE <<Event("results", some)>>

-----------------------------------------------------------------------------
(* A request and its response.                                             *)

\* A variant with a bug: the sink of an earlier response is left in place.
Arrive_KeepSink(r) ==
  /\ stage[r] = "none" /\ \A q \in 1..(r - 1) : stage[q] # "none"
  /\ stage' = [stage EXCEPT ![r] = "bound"]
  /\ sink' = IF sink = Nobody THEN r ELSE sink
  /\ overlapped' = (overlapped \/ \E q \in Requests : Busy(q))
  /\ UNCHANGED <<task, unresolved, merged, segments, agentVars, by, clientVars, strayed>>

\* kaboo_endpoint up to the StreamingResponse: the session's queue forwards to
\* this response from now on.
Arrive(r) ==
  /\ stage[r] = "none" /\ \A q \in 1..(r - 1) : stage[q] # "none"
  /\ stage' = [stage EXCEPT ![r] = "bound"]
  /\ sink' = r
  /\ overlapped' = (overlapped \/ \E q \in Requests : Busy(q))
  /\ UNCHANGED <<task, unresolved, merged, segments, agentVars, by, clientVars, strayed>>

\* release(): stop forwarding events, and let the run's resources go.
Release(r) == stage' = [stage EXCEPT ![r] = "released"] /\ sink' = Nobody

\* A resume with no paused agent to resume: an error response, and no run.
Refuse(r) ==
  /\ stage[r] = "bound" /\ Release(r)
  /\ ending' = [ending EXCEPT ![r] = "error"]
  /\ UNCHANGED <<task, unresolved, merged, segments, agentVars, by, results, shown,
                 overlapped, strayed>>

\* The client is gone before the response is first read, so its generator
\* never starts and neither does its cleanup.
Abandon(r) ==
  /\ stage[r] = "bound" /\ stage' = [stage EXCEPT ![r] = "abandoned"]
  /\ UNCHANGED <<task, unresolved, merged, segments, sink, agentVars, by, clientVars,
                 overlapped, strayed>>

\* The response starts, and with it the run task.  A free agent takes the run
\* up: calls left waiting resume.  A busy one refuses it (Fail or Relay follows).
Start(r) ==
  /\ stage[r] = "bound" /\ stage' = [stage EXCEPT ![r] = "streaming"]
  /\ task' = [task EXCEPT ![r] = "running"]
  /\ IF runner = Nobody
       THEN runner' = r /\ executing' = paused /\ paused' = {}
       ELSE UNCHANGED <<runner, executing, paused>>
  /\ UNCHANGED <<unresolved, merged, segments, sink, working, complete, by, clientVars,
                 overlapped, strayed>>

-----------------------------------------------------------------------------
(* The run task.                                                           *)

Runs(r) == runner = r /\ task[r] = "running"

\* The entry agent calls a tool.
CallStarts(r, c) ==
  /\ Runs(r) /\ by[c] = Nobody
  /\ by' = [by EXCEPT ![c] = r]
  /\ executing' = executing \cup {c}
  /\ unresolved' = [unresolved EXCEPT ![r] = @ \cup {c}]
  /\ UNCHANGED <<stage, task, merged, segments, sink, runner, paused, working, complete,
                 clientVars,
                 overlapped, strayed>>

\* A call gets its result, in the run that made it or the one that resumed it.
CallEnds(r, c) ==
  /\ Runs(r) /\ c \in executing
  /\ executing' = executing \ {c}
  /\ unresolved' = [unresolved EXCEPT ![r] = @ \ {c}]
  /\ Put(r, Results({c}))
  /\ UNCHANGED <<stage, task, segments, sink, runner, paused, working, complete, by, clientVars,
                 overlapped, strayed>>

\* A variant with a bug: calls are closed when the run pauses, too.
Closing_Paused(r, waits) == unresolved[r]

\* The calls RUN_FINISHED closes: a paused run leaves its own open.
Closing(r, waits) == IF waits THEN {} ELSE unresolved[r]

\* RUN_FINISHED: write the sessions back, close what a finished run left open.
\* The agent pauses on the calls it has not given a result, or gave them up.
Finish(r, waits) ==
  /\ Runs(r) /\ (waits => executing # {})
  /\ Put(r, Results(Closing(r, waits))
               \o <<Event(IF waits THEN "paused" ELSE "finished", {})>>)
  /\ unresolved' = [unresolved EXCEPT ![r] = @ \ Closing(r, waits)]
  /\ paused' = (IF waits THEN executing ELSE {}) /\ executing' = {} /\ working' = {}
  /\ runner' = Nobody /\ task' = [task EXCEPT ![r] = "ending"]
  /\ UNCHANGED <<stage, segments, sink, complete, by, clientVars, overlapped, strayed>>

\* The run's task ends, having said so.
TaskEnds(r) ==
  /\ task[r] = "ending" /\ task' = [task EXCEPT ![r] = "over"]
  /\ Put(r, <<DONE>>)
  /\ UNCHANGED <<stage, unresolved, segments, sink, agentVars, by, clientVars,
                 overlapped, strayed>>

\* What a run that stops leaves of the agent's work.
Drop(r) ==
  IF runner = r
    THEN runner' = Nobody /\ executing' = {} /\ working' = {}
         /\ UNCHANGED <<paused, complete>>
    ELSE UNCHANGED agentVars

\* A variant with a bug: the error goes out with the calls still open.
Fail_LeaveOpen(r) ==
  /\ task[r] = "running" /\ Drop(r)
  /\ Put(r, <<Event("error", {}), DONE>>)
  /\ unresolved' = [unresolved EXCEPT ![r] = {}]
  /\ task' = [task EXCEPT ![r] = "over"]
  /\ UNCHANGED <<stage, segments, sink, by, clientVars, overlapped, strayed>>

\* A variant with a bug: the end of the stream is only marked after a success.
Fail_NoEnd(r) ==
  /\ task[r] = "running" /\ Drop(r)
  /\ Put(r, Results(unresolved[r]) \o <<Event("error", {})>>)
  /\ unresolved' = [unresolved EXCEPT ![r] = {}]
  /\ task' = [task EXCEPT ![r] = "over"]
  /\ UNCHANGED <<stage, segments, sink, by, clientVars, overlapped, strayed>>

\* The run raises: close every call it still has open, then the error.
Fail(r) ==
  /\ task[r] = "running" /\ Drop(r)
  /\ Put(r, Results(unresolved[r]) \o <<Event("error", {}), DONE>>)
  /\ unresolved' = [unresolved EXCEPT ![r] = {}]
  /\ task' = [task EXCEPT ![r] = "over"]
  /\ UNCHANGED <<stage, segments, sink, by, clientVars, overlapped, strayed>>

\* ag-ui-strands ends the run with an error event of its own, its last. It passes
\* through as any event does: no call is closed, and the task ends after it.
Relay(r) ==
  /\ task[r] = "running" /\ Drop(r)
  /\ Put(r, <<Event("relayed", {})>>)
  /\ task' = [task EXCEPT ![r] = "ending"]
  /\ UNCHANGED <<stage, unresolved, segments, sink, by, clientVars, overlapped, strayed>>

-----------------------------------------------------------------------------
(* Delegated agents report to the session's queue.                         *)

\* SubagentStream.translate: an event of an invocation opens its segment in
\* the response that gets it; the last one ends the segment.
Translate(r, s, ends) ==
  IF ends /\ s \notin segments[r] THEN UNCHANGED <<segments, merged>>
  ELSE /\ segments' = [segments EXCEPT ![r] = IF ends THEN @ \ {s} ELSE @ \cup {s}]
       /\ Put(r, IF ends THEN <<Event("closed", {s})>>
                 ELSE IF s \in segments[r] THEN <<>> ELSE <<Event("opened", {s})>>)

\* An invocation of the current run publishes an event: its first, one in
\* between, or its last.
Publish(s, ends) ==
  /\ runner # Nobody
  /\ working' = IF ends THEN working \ {s} ELSE working \cup {s}
  /\ IF ends THEN s \in working ELSE s \notin complete
  /\ complete' = IF ends THEN complete \cup {s} ELSE complete
  /\ IF sink = Nobody
       THEN UNCHANGED <<segments, merged>>
       ELSE Translate(sink, s, ends)
  /\ strayed' = (strayed \/ sink # runner)
  /\ UNCHANGED <<stage, task, unresolved, sink, runner, executing, paused, by,
                 clientVars, overlapped>>

-----------------------------------------------------------------------------
(* The response.                                                           *)

\* A variant with a bug: the end of a run closes no invocation.
StillOpen_None(r, kind) == {}

\* RunEvents._emit: the invocations RUN_FINISHED closes on its way out.  An
\* error closes none.
StillOpen(r, kind) == IF kind \in {"finished", "paused"} THEN segments[r] ELSE {}

\* The response takes the next event off its queue and the client gets it.
Deliver(r) ==
  /\ stage[r] = "streaming" /\ merged[r] # <<>> /\ Head(merged[r]) # DONE
  /\ merged' = [merged EXCEPT ![r] = Tail(@)]
  /\ LET e == Head(merged[r])
         closing == StillOpen(r, e.kind) IN
       /\ results' = [c \in Calls |->
            IF e.kind = "results" /\ c \in e.about THEN results[c] + 1 ELSE results[c]]
       /\ segments' = [segments EXCEPT ![r] = @ \ closing]
       /\ shown' = [shown EXCEPT ![r] =
            CASE e.kind = "opened" -> @ \cup e.about
              [] e.kind = "closed" -> @ \ e.about
              [] OTHER -> @ \ closing]
       /\ ending' = [ending EXCEPT ![r] =
            IF e.kind \in {"finished", "paused", "error", "relayed"} THEN e.kind ELSE @]
  /\ UNCHANGED <<stage, task, unresolved, sink, agentVars, by, overlapped, strayed>>

\* The response is over: the end of the stream was reached.
Close(r) ==
  /\ stage[r] = "streaming" /\ merged[r] # <<>> /\ Head(merged[r]) = DONE
  /\ Release(r)
  /\ merged' = Reset(merged, r, <<>>) /\ segments' = Reset(segments, r, {})
  /\ UNCHANGED <<task, unresolved, agentVars, by, clientVars,
                 overlapped, strayed>>

\* The client leaves: the run task is cancelled, and awaited.
Leave(r) ==
  /\ stage[r] = "streaming" /\ stage' = [stage EXCEPT ![r] = "leaving"]
  /\ merged' = Reset(merged, r, <<>>)
  /\ UNCHANGED <<task, unresolved, segments, sink, agentVars, by, clientVars,
                 overlapped, strayed>>

\* A variant with a bug: the run's resources go before its task has stopped.
Unwind_Early(r) ==
  /\ stage[r] = "leaving" /\ Release(r)
  /\ UNCHANGED <<task, unresolved, merged, segments, agentVars, by, clientVars,
                 overlapped, strayed>>

\* The cancelled task stops, and only then are the run's resources released.
Unwind(r) ==
  /\ stage[r] = "leaving" /\ Release(r) /\ Drop(r)
  /\ task' = [task EXCEPT ![r] = "over"]
  /\ unresolved' = Reset(unresolved, r, {}) /\ segments' = Reset(segments, r, {})
  /\ merged' = Reset(merged, r, <<>>)
  /\ UNCHANGED <<by, clientVars, overlapped, strayed>>

-----------------------------------------------------------------------------
Server(r) ==
  \/ Start(r) \/ TaskEnds(r) \/ Deliver(r) \/ Close(r) \/ Unwind(r)

\* The agent's run comes to an end: by itself, paused, or with an error, raised or
\* reported.
Ends(r) == Fail(r) \/ Relay(r) \/ \E waits \in BOOLEAN : Finish(r, waits)

Next ==
  \/ \E r \in Requests :
       \/ Arrive(r) \/ Refuse(r) \/ Abandon(r) \/ Leave(r)
       \/ Server(r) \/ Ends(r)
       \/ \E c \in Calls : CallStarts(r, c) \/ CallEnds(r, c)
  \/ \E s \in Subs, ends \in BOOLEAN : Publish(s, ends)

\* The event loop runs every ready task, and an agent's run ends.  Nobody owes
\* a request, a departure, or a tool call.
Fairness == \A r \in Requests : WF_vars(Server(r)) /\ WF_vars(Ends(r))

Spec == Init /\ [][Next]_vars /\ Fairness

-----------------------------------------------------------------------------
(* Properties.                                                             *)

\* Every variable holds what the code can put in it.
TypeOK ==
  /\ stage \in [Requests -> {"none", "bound", "streaming", "leaving", "released", "abandoned"}]
  /\ task \in [Requests -> {"none", "running", "ending", "over"}]
  /\ unresolved \in [Requests -> SUBSET Calls] /\ segments \in [Requests -> SUBSET Subs]
  /\ sink \in Requests \cup {Nobody} /\ runner \in Requests \cup {Nobody}
  /\ executing \subseteq Calls /\ paused \subseteq Calls /\ working \subseteq Subs
  /\ complete \subseteq Subs
  /\ by \in [Calls -> Requests \cup {Nobody}] /\ results \in [Calls -> Nat]
  /\ shown \in [Requests -> SUBSET Subs]
  /\ ending \in [Requests -> {"none", "finished", "paused", "error", "relayed"}]
  /\ overlapped \in BOOLEAN /\ strayed \in BOOLEAN

\* The client gets at most one result for a call, however many runs it spans:
\* a paused call is not closed and then given its real result.
OneResult == \A c \in Calls : results[c] <= 1

\* Once a client is told that a run finished, or that it raised, every call that run
\* announced has its result, the failure's own ahead of the error. (A run that
\* ag-ui-strands ends with an error event of its own is excepted: Relay closes no call.)
NothingDangles ==
  \A r \in Requests, c \in Calls :
    by[c] = r /\ ending[r] \in {"finished", "error"} => results[c] = 1

\* While requests take turns, a client told that a run finished or paused has
\* no invocation left open in that response, and none opens afterwards.
InvocationsClosed ==
  ~overlapped =>
    \A r \in Requests : ending[r] \in {"finished", "paused"} => shown[r] = {}

\* A released response has stopped: its run works for nobody, and no event is
\* forwarded to it any more.
ReleasedIsQuiet ==
  \A r \in Requests :
    stage[r] = "released" => runner # r /\ sink # r /\ task[r] # "running"

\* While requests take turns, an invocation's events reach the response of the
\* run they belong to.
TurnsKeepEvents == strayed => overlapped

\* A response that starts ends: its client is told, or has left, and the run's
\* resources are released.
ResponseEnds == \A r \in Requests : stage[r] = "streaming" ~> stage[r] = "released"

\* What the code says of its sink: the endpoint forwards a run's events into
\* its own response, in the order they happened.
OwnEvents == ~strayed
=============================================================================
