----------------------------- MODULE ToolCalls ------------------------------
(***************************************************************************)
(* What the hooks around an agent's tool calls do to them.                 *)
(*                                                                         *)
(* MaxToolCallsGuard and StopGuard cancel a call before it runs and stop   *)
(* the agent's loop.  ToolApprovalHook wraps a tool whose own service      *)
(* enforces approvals: a reply that asks for one pauses the run, and an    *)
(* approval in time calls the tool once more.  StateEffectsHook writes a   *)
(* successful call's result into the run's shared state and sends the      *)
(* change to the client, whose copy the next run starts from.              *)
(*                                                                         *)
(* One agent, whose model calls any of its tools in a step, at once.  Its  *)
(* runs end normally or paused; those that raise are left to RunStream, a  *)
(* resume by another process to GateResume.                                *)
(***************************************************************************)
EXTENDS Naturals, Sequences, FiniteSets, SequencesExt

CONSTANTS
  Calls,      \* the calls a step may make at once
  Keys,       \* the top-level keys of the shared state
  Patches,    \* the lists of operations effects may return
  max_calls,  \* MaxToolCallsGuard's limit
  None,
  MaxQueue    \* Bound: events a response has not sent yet when a tool replies

Ops == {"put", "drop", "misfit"}
\* A call's approval request: the person's answer, and whether it is too late.
Request == [answer : {None, "approved", "denied", "skipped"}, late : BOOLEAN]

ASSUME ToolCallsAssumption ==
  /\ IsFiniteSet(Calls) /\ None \notin Calls \cup Request
  /\ None \notin {"approved", "denied", "skipped", "refused", "limit", "stopped"}
  /\ max_calls \in Nat /\ MaxQueue \in Nat
  /\ \A p \in Patches : p \in Seq([op : Ops, key : Keys])

VARIABLES
  phase,     \* the agent: idle, model, tools, paused
  state,     \* its invocation_state: calls counted, limit hit, stop_event_loop
  stop,      \* the external stop signal
  call,      \* each call of the step: none, called, asking, again, waiting, settled
  result,    \* what the model reads of each
  ask,       \* each call's approval request: its answer, and whether it is too late
  granted,   \* the calls whose approval the service was told of
  tried,     \* how often each call reached its tool, in this step
  ran,       \* how often it did its work
  reached,   \* the calls that reached a tool in this invocation
  channel,   \* StateChannel: state, touched
  carried,   \* the state the run was sent with
  unsent,    \* keys of the run's state that the client was not told of, or could not take
  queue,     \* events on their way to the client
  client     \* the client's copy of the state

loop == <<phase, state, stop, call, result, ask, granted, tried, ran, reached>>
shared == <<channel, carried, unsent, queue, client>>
vars == <<loop, shared>>

Working == phase \in {"model", "tools"}
Fresh == [count |-> 0, limit_hit |-> FALSE, stop_event_loop |-> FALSE]
NoAsk == [c \in Calls |-> None]
Zero == [c \in Calls |-> 0]

Init ==
  /\ phase = "idle" /\ state = Fresh /\ stop = FALSE
  /\ call = [c \in Calls |-> "none"] /\ result = NoAsk /\ ask = NoAsk
  /\ granted = {} /\ tried = Zero /\ ran = Zero /\ reached = 0
  /\ client = [k \in Keys |-> None] /\ carried = client
  /\ channel = [state |-> client, touched |-> {}] /\ unsent = {} /\ queue = <<>>

-----------------------------------------------------------------------------
(* The shared state.                                                       *)

\* open_state_channel: a run's state is a copy of the client's.
OpenChannel ==
  /\ queue = <<>> /\ carried' = client
  /\ channel' = [state |-> client, touched |-> {}] /\ unsent' = {}

\* jsonpatch, in place: operations take effect up to the first that does not fit.
Patched(s, p, c) ==
  FoldLeft(LAMBDA r, o :
             IF ~r.fits \/ o.op = "misfit" \/ (o.op = "drop" /\ r.state[o.key] = None)
             THEN [r EXCEPT !.fits = FALSE]
             ELSE [r EXCEPT !.state[o.key] = IF o.op = "put" THEN c ELSE None,
                            !.keys = @ \cup {o.key}],
           [state |-> s, fits |-> TRUE, keys |-> {}], p)

\* A variant with a bug: what an effect changed is not noted.
Touch_None(touched, keys) == touched
\* apply_effect: the keys a list that applied has changed.
Touch(touched, keys) == touched \cup keys

\* apply_effect, by call c: a list that does not fit is not sent, though what it did
\* before stays; one that fits is sent as it is.
Apply(sh, p, c) ==
  LET r == Patched(sh.channel.state, p, c)
      gone == {k \in r.keys : r.state[k] = None}
  IN [channel |-> [state |-> r.state,
                   touched |-> IF r.fits THEN Touch(sh.channel.touched, r.keys)
                               ELSE sh.channel.touched],
      unsent |-> IF r.fits THEN (sh.unsent \ r.keys) \cup gone ELSE sh.unsent \cup r.keys,
      queue |-> IF p = <<>> \/ ~r.fits THEN sh.queue
                ELSE Append(sh.queue, [type |-> "delta", ops |-> p, by |-> c])]

\* _on_after_tool: each effect that matches the call's tool, in turn.
Effects(c, p, q) ==
  LET sh == Apply(Apply([channel |-> channel, unsent |-> unsent, queue |-> queue], p, c), q, c)
  IN channel' = sh.channel /\ unsent' = sh.unsent /\ queue' = sh.queue
NoEffect == UNCHANGED <<channel, unsent, queue>>

\* fold_effects: a snapshot passed on has the run's values of the keys effects
\* changed, those that still exist.
Fold(snapshot) ==
  [k \in Keys |-> IF k \in channel.touched /\ channel.state[k] # None
                  THEN channel.state[k] ELSE snapshot[k]]

\* ag-ui-strands sends the state the run carried, at any time in the run.
Snapshot ==
  /\ Working /\ Len(queue) < MaxQueue
  /\ queue' = Append(queue, [type |-> "snapshot", state |-> Fold(carried)])
  /\ UNCHANGED <<loop, channel, carried, unsent, client>>

\* The client takes an event in; one that does not fit its copy it leaves out.
Deliver ==
  /\ queue # <<>> /\ queue' = Tail(queue)
  /\ LET e == Head(queue)
         r == IF e.type = "snapshot" THEN [state |-> e.state, fits |-> TRUE]
              ELSE Patched(client, e.ops, e.by)
     IN /\ client' = IF r.fits THEN r.state ELSE client
        /\ unsent' = IF r.fits THEN unsent ELSE unsent \cup {o.key : o \in Range(e.ops)}
  /\ UNCHANGED <<loop, channel, carried>>

-----------------------------------------------------------------------------
(* The agent's loop.                                                       *)

\* A run that resumes nothing.
Start ==
  /\ phase \in {"idle", "paused"} /\ phase' = "model" /\ OpenChannel
  /\ state' = Fresh /\ stop' = FALSE /\ reached' = 0
  /\ call' = [c \in Calls |-> "none"] /\ result' = NoAsk /\ ask' = NoAsk
  /\ granted' = {} /\ tried' = Zero /\ ran' = Zero
  /\ UNCHANGED <<queue, client>>

\* A variant with a bug: the calls counted before the pause are counted again.
Resume_Count ==
  /\ phase = "paused" /\ \A c \in Calls : call[c] = "waiting" => ask[c].answer # None
  /\ phase' = "tools" /\ OpenChannel
  /\ stop' = FALSE /\ reached' = 0
  /\ call' = [c \in Calls |-> IF call[c] = "waiting" THEN "called" ELSE call[c]]
  /\ UNCHANGED <<state, result, ask, granted, tried, ran, queue, client>>

\* A run that answers every request: the calls that waited are made again, in an
\* invocation of their own.
Resume ==
  /\ phase = "paused" /\ \A c \in Calls : call[c] = "waiting" => ask[c].answer # None
  /\ phase' = "tools" /\ OpenChannel
  /\ state' = Fresh /\ stop' = FALSE /\ reached' = 0
  /\ call' = [c \in Calls |-> IF call[c] = "waiting" THEN "called" ELSE call[c]]
  /\ UNCHANGED <<result, ask, granted, tried, ran, queue, client>>

\* The person's answer; the host tells the tool's service of an approval, or fails to.
Answer(c, answer, told) ==
  /\ phase = "paused" /\ call[c] = "waiting" /\ ask[c].answer = None
  /\ ask' = [ask EXCEPT ![c].answer = answer]
  /\ granted' = IF answer = "approved" /\ told THEN granted \cup {c} ELSE granted
  /\ UNCHANGED <<phase, state, stop, call, result, tried, ran, reached, shared>>

\* A request's deadline passes, before its answer or after.
Expire(c) ==
  /\ ask[c] # None /\ call[c] \in {"waiting", "called"} /\ ~ask[c].late
  /\ ask' = [ask EXCEPT ![c].late = TRUE]
  /\ UNCHANGED <<phase, state, stop, call, result, granted, tried, ran, reached, shared>>

StopSignal ==
  /\ Working /\ ~stop /\ stop' = TRUE
  /\ UNCHANGED <<phase, state, call, result, ask, granted, tried, ran, reached, shared>>

\* The model answers: with calls, or with the run's last words.
Model(S) ==
  /\ phase = "model" /\ phase' = IF S = {} THEN "idle" ELSE "tools"
  /\ call' = [c \in Calls |-> IF c \in S THEN "called" ELSE "none"]
  /\ result' = NoAsk /\ ask' = NoAsk /\ granted' = {} /\ tried' = Zero /\ ran' = Zero
  /\ UNCHANGED <<state, stop, reached, shared>>

\* A variant with a bug: the loop goes on whatever the model does with the warning.
Count_Warn ==
  [count |-> IF state.count > max_calls THEN state.count ELSE state.count + 1,
   limit_hit |-> state.count >= max_calls, stop_event_loop |-> stop]
\* MaxToolCallsGuard, and StopGuard after it: one more call, and what it sets off.
Count ==
  [count |-> state.count + 1,
   limit_hit |-> state.limit_hit \/ state.count >= max_calls,
   stop_event_loop |-> \/ state.stop_event_loop \/ stop
                       \/ state.count >= max_calls /\ state.limit_hit]

\* What the wrapped tool makes of the person's answer, if there is one.
StoredAnswer(c) ==
  IF ask[c] = None \/ ask[c].answer = None THEN "none"
  ELSE IF ask[c].late THEN "expired" ELSE ask[c].answer

Settle(c, note) == call' = [call EXCEPT ![c] = "settled"] /\ result' = [result EXCEPT ![c] = note]

\* A call is cancelled, refused, or reaches its tool.
Begin(c) ==
  /\ phase = "tools" /\ call[c] = "called" /\ state' = Count
  /\ \/ state.count >= max_calls /\ Settle(c, "limit") /\ UNCHANGED <<tried, reached>>
     \/ state.count < max_calls /\ stop /\ Settle(c, "stopped") /\ UNCHANGED <<tried, reached>>
     \/ /\ state.count < max_calls /\ ~stop /\ StoredAnswer(c) \notin {"none", "approved"}
        /\ Settle(c, "refused") /\ UNCHANGED <<tried, reached>>
     \/ /\ state.count < max_calls /\ ~stop /\ StoredAnswer(c) \in {"none", "approved"}
        /\ call' = [call EXCEPT ![c] = IF StoredAnswer(c) = "none" THEN "asking" ELSE "again"]
        /\ tried' = [tried EXCEPT ![c] = @ + 1] /\ reached' = reached + 1
        /\ UNCHANGED result
  /\ UNCHANGED <<phase, stop, ask, granted, ran, shared>>

\* The tool does its work: the service covers the call, or was told of its approval.
Works(c) ==
  /\ call[c] \in {"asking", "again"} /\ Len(queue) < MaxQueue
  /\ ran' = [ran EXCEPT ![c] = @ + 1]
  /\ Settle(c, "ran") /\ \E p, q \in Patches : Effects(c, p, q)
  /\ UNCHANGED <<phase, state, stop, ask, granted, tried, reached, carried, client>>

\* The tool fails: nothing is written into the state.
Fails(c) ==
  /\ call[c] \in {"asking", "again"} /\ Settle(c, "failed") /\ NoEffect
  /\ UNCHANGED <<phase, state, stop, ask, granted, tried, ran, reached, carried, client>>

\* The tool asks for an approval: the run will pause, once; asked again, it is told no.
Asks(c) ==
  /\ call[c] \in {"asking", "again"} /\ c \notin granted /\ NoEffect
  /\ \/ /\ call[c] = "asking" /\ call' = [call EXCEPT ![c] = "waiting"]
        /\ ask' = [ask EXCEPT ![c] = [answer |-> None, late |-> FALSE]] /\ UNCHANGED result
     \/ call[c] = "again" /\ Settle(c, "still") /\ UNCHANGED ask
  /\ UNCHANGED <<phase, state, stop, granted, tried, ran, reached, carried, client>>

\* The step is over: the run pauses, the loop stops, or the model goes on.
EndStep ==
  /\ phase = "tools" /\ \A c \in Calls : call[c] \in {"none", "waiting", "settled"}
  /\ phase' = IF \E c \in Calls : call[c] = "waiting" THEN "paused"
              ELSE IF state.stop_event_loop THEN "idle" ELSE "model"
  /\ UNCHANGED <<state, stop, call, result, ask, granted, tried, ran, reached, shared>>

-----------------------------------------------------------------------------
Agent ==
  \/ EndStep \/ \E S \in SUBSET Calls : Model(S)
  \/ \E c \in Calls : Begin(c) \/ Works(c) \/ Fails(c) \/ Asks(c)

Next ==
  \/ Agent \/ Start \/ Resume \/ StopSignal \/ Snapshot \/ Deliver
  \/ \E c \in Calls : \/ Expire(c)
                      \/ \E answer \in {"approved", "denied", "skipped"}, told \in BOOLEAN :
                           Answer(c, answer, told)

\* The agent's loop goes on, and the response is read.  Nobody has to answer.
Fairness == WF_vars(Agent) /\ WF_vars(Deliver)
Spec == Init /\ [][Next]_vars /\ Fairness

-----------------------------------------------------------------------------
(* Properties.                                                             *)

\* The loop's variables hold what the code can put in them.
TypeOK ==
  /\ phase \in {"idle", "model", "tools", "paused"} /\ stop \in BOOLEAN
  /\ state \in [count : Nat, limit_hit : BOOLEAN, stop_event_loop : BOOLEAN]
  /\ call \in [Calls -> {"none", "called", "asking", "again", "waiting", "settled"}]
  /\ result \in [Calls -> {None, "ran", "failed", "still", "refused", "limit", "stopped"}]
  /\ ask \in [Calls -> Request \cup {None}]
  /\ granted \subseteq Calls /\ reached \in Nat
  /\ tried \in [Calls -> Nat] /\ ran \in [Calls -> Nat]

\* A call does its work at most once, and never for a person who refused it or
\* answered too late; its tool is reached at most twice, so a service that never
\* heard of the approval does not make the agent loop.
OnceApproved ==
  \A c \in Calls : /\ tried[c] <= 2 /\ ran[c] <= 1
                   /\ result[c] \in {"refused", "limit", "stopped"} => ran[c] = 0

\* At most max_calls reach a tool in an invocation, and a call the person was asked
\* about is never the one the limit cuts: a resume's calls were all within it.
WithinLimit ==
  /\ reached <= max_calls
  /\ \A c \in Calls : result[c] = "limit" => ask[c] = None

CallsKept == OnceApproved /\ WithinLimit

\* Once it has read everything, the client's state is the run's, which the agents'
\* workspace views show: except for keys an effect wrote before an operation of its
\* list did not fit, those a later list of theirs then fails on at the client, and keys
\* an effect removed, which a snapshot brings back.
CanvasFollows ==
  queue = <<>> => \A k \in Keys \ unsent : client[k] = channel.state[k]

\* An agent whose model always calls another tool still ends its run, or pauses it.
InvocationEnds == Working ~> ~Working
=============================================================================
