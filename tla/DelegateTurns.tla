---------------------------- MODULE DelegateTurns ----------------------------
(***************************************************************************)
(* Calls to one delegate, asked for several things in the same step.       *)
(*                                                                         *)
(* A coordinator's tool calls run a delegate node (_node_as_tool).  Calls  *)
(* to one node take turns on its lock.  A delegate that pauses for approval*)
(* has its requests raised on the coordinator, one at a time, by the call  *)
(* that ran it; that call's turn ends, the run pauses, and the place of the*)
(* delegate is kept for the run that resumes, possibly in another process. *)
(*                                                                         *)
(* One step of one conversation, whose runs are carried on the AG-UI state *)
(* channel.  The delegate's own model turns are abstracted: a task either  *)
(* asks for all of its gated tools at once or for none.                    *)
(***************************************************************************)
EXTENDS Naturals, FiniteSets

CONSTANTS
  Calls,        \* the coordinator's calls to the delegate
  Gates,        \* the gated tool calls their tasks make
  TaskOf,       \* the call whose task makes each of them
  Free,         \* nobody holds the delegate's turn
  MaxRuns,      \* bound on the runs
  MaxRestarts   \* bound on process restarts between runs

ASSUME DelegateTurnsAssumption ==
  /\ IsFiniteSet(Calls)
  /\ TaskOf \in [Gates -> Calls] /\ Free \notin Calls
  /\ MaxRuns \in Nat /\ MaxRestarts \in Nat

Decisions == {"approved", "denied"}
Standing == [Gates -> {"none", "open"} \cup Decisions]
NoAsk == [g \in Gates |-> "none"]

\* The delegate: whether it is paused, the task its messages are about, and
\* how its requests stand.  A place is such a record, kept for a call.
Node == [active : BOOLEAN, task : Calls \cup {Free}, ask : Standing]
CleanNode == [active |-> FALSE, task |-> Free, ask |-> NoAsk]
NoPlaces == [c \in Calls |-> CleanNode]   \* no place kept: an inactive one

VARIABLES
  phase,     \* the coordinator: idle, running, paused, over
  step,      \* the calls of its step
  gated,     \* the calls whose tasks ask for approval
  pc,        \* where each call is
  turn,      \* the holder of the delegate's lock
  node,      \* the delegate
  asks,      \* the coordinator's requests, by call and gated tool call
  resuming,  \* SessionExchange.resuming
  inbound,   \* the places the run's state carried
  places,    \* SessionExchange.delegates: the places this run keeps
  ran,       \* how often each gated tool ran
  approvals, \* how many approved cards each gated tool call got
  answer,    \* the task whose result each call returned
  queued,    \* the delegate paused while another call waited for its turn
  runs, restarts

vars == <<phase, step, gated, pc, turn, node, asks, resuming, inbound, places, ran,
          approvals, answer, queued, runs, restarts>>

Init ==
  /\ phase = "idle" /\ step = {} /\ gated = {}
  /\ pc = [c \in Calls |-> "none"] /\ turn = Free /\ node = CleanNode
  /\ asks = [c \in Calls |-> NoAsk]
  /\ resuming = FALSE /\ inbound = NoPlaces /\ places = NoPlaces
  /\ ran = [g \in Gates |-> 0] /\ approvals = [g \in Gates |-> 0]
  /\ answer = [c \in Calls |-> Free] /\ queued = FALSE /\ runs = 0 /\ restarts = 0

\* The coordinator's model calls the delegate, once or several times.
MakeStep(calls, asking) ==
  /\ phase = "idle" /\ phase' = "running" /\ runs' = runs + 1
  /\ calls # {} /\ asking \subseteq calls
  /\ step' = calls /\ gated' = asking
  /\ pc' = [c \in Calls |-> IF c \in calls THEN "waiting" ELSE "none"]
  /\ UNCHANGED <<turn, node, asks, resuming, inbound, places, ran, approvals, answer, queued,
                 restarts>>

-----------------------------------------------------------------------------
(* A call's turn.                                                          *)

\* A variant with a bug: no place is taken.
Placed_Never(c) == node

\* _restore_place: a delegate that is not paused takes the place kept for the
\* call, in a run that resumes.
Placed(c) ==
  IF resuming /\ ~node.active /\ inbound[c].active THEN inbound[c] ELSE node

Pending(n) == {g \in Gates : n.ask[g] = "open"}

\* A variant with a bug: the lock outlives the exception.
Raise_Hold(c, n) ==
  /\ \E g \in Pending(n) :
       /\ asks[c][g] = "none"
       /\ asks' = [asks EXCEPT ![c][g] = "open"]
  /\ pc' = [pc EXCEPT ![c] = "raised"] /\ UNCHANGED turn

\* _forward: raise the first request of the delegate this call has no answer
\* for.  Its turn is over: the lock goes with the exception.
Raise(c, n) ==
  /\ \E g \in Pending(n) :
       /\ asks[c][g] = "none"
       /\ asks' = [asks EXCEPT ![c][g] = "open"]
  /\ pc' = [pc EXCEPT ![c] = "raised"] /\ turn' = Free

\* A variant with a bug: only a request raised for the first time is kept.
Kept_FirstOnly(c, n) == IF resuming THEN places ELSE [places EXCEPT ![c] = n]

\* A variant with a bug: the place is kept without the delegate's messages.
Kept_NoMessages(c, n) == [places EXCEPT ![c] = [active |-> n.active, ask |-> n.ask]]

\* _save_place: keep a paused delegate's place under the call's id.
Kept(c, n) == [places EXCEPT ![c] = n]

\* A variant with a bug: a call does not wait for the one before it.
Take_NoLock(c) ==
  /\ phase = "running" /\ pc[c] = "waiting"
  /\ node' = [active |-> FALSE, task |-> c, ask |-> NoAsk]
  /\ pc' = [pc EXCEPT ![c] = "fresh"] /\ turn' = c
  /\ UNCHANGED <<phase, step, gated, resuming, inbound, places, asks, ran, approvals,
                 answer, queued, runs, restarts>>

\* The call gets its turn.  On a paused delegate it forwards what is pending,
\* and goes on only with all the answers; otherwise it hands over its input,
\* and whatever the delegate asks then is a new request.
Take(c) ==
  /\ phase = "running" /\ pc[c] = "waiting" /\ turn = Free
  /\ LET n == Placed(c) IN
       IF n.active
         THEN /\ node' = n /\ places' = Kept(c, n)
              /\ IF \A g \in Pending(n) : asks[c][g] \in Decisions
                   THEN /\ pc' = [pc EXCEPT ![c] = "answered"] /\ turn' = c
                        /\ UNCHANGED asks
                   ELSE Raise(c, n)
         ELSE /\ node' = [active |-> FALSE, task |-> c, ask |-> NoAsk]
              /\ pc' = [pc EXCEPT ![c] = "fresh"] /\ turn' = c
              /\ asks' = [asks EXCEPT ![c] = NoAsk] /\ UNCHANGED places
  /\ UNCHANGED <<phase, step, gated, resuming, inbound, ran, approvals, answer, queued,
                 runs, restarts>>

\* The call returns what the delegate made of the task it worked on.
Return(c) ==
  /\ answer' = [answer EXCEPT ![c] = node.task]
  /\ pc' = [pc EXCEPT ![c] = "result"] /\ turn' = Free

\* The delegate works on the call's input, and may pause for approval.
Invoke(c) ==
  /\ pc[c] = "fresh"
  /\ LET asked == {g \in Gates : TaskOf[g] = c /\ c \in gated}
         n == [active |-> TRUE, task |-> node.task,
               ask |-> [g \in Gates |-> IF g \in asked THEN "open" ELSE "none"]]
     IN IF asked # {}
          THEN /\ node' = n /\ places' = Kept(c, n) /\ Raise(c, n)
               /\ queued' = (queued \/ \E d \in Calls : pc[d] = "waiting")
               /\ UNCHANGED answer
          ELSE /\ Return(c) /\ UNCHANGED <<node, places, asks, queued>>
  /\ UNCHANGED <<phase, step, gated, resuming, inbound, ran, approvals, runs, restarts>>

\* A variant with a bug: an answered request runs its tool, whatever it says.
Granted_Answered(c) == {g \in Pending(node) : asks[c][g] \in Decisions}

\* The delegate's gate runs the tools the call brought an approval for.
Granted(c) == {g \in Pending(node) : asks[c][g] = "approved"}

\* The delegate goes on with the answers, and finishes its task.
Resume(c) ==
  /\ pc[c] = "answered"
  /\ ran' = [g \in Gates |-> IF g \in Granted(c) THEN ran[g] + 1 ELSE ran[g]]
  /\ node' = [active |-> FALSE, task |-> node.task, ask |-> NoAsk]
  /\ Return(c)
  /\ UNCHANGED <<phase, step, gated, asks, resuming, inbound, places, approvals, queued,
                 runs, restarts>>

-----------------------------------------------------------------------------
(* The coordinator's runs.                                                 *)

\* The step is over once every call has raised a request or returned.
EndRun ==
  /\ phase = "running" /\ \A c \in step : pc[c] \in {"raised", "result"}
  /\ phase' = IF \E c \in step : pc[c] = "raised" THEN "paused" ELSE "over"
  /\ UNCHANGED <<step, gated, pc, turn, node, asks, resuming, inbound, places, ran,
                 approvals, answer, queued, runs, restarts>>

Cards == {card \in Calls \X Gates : asks[card[1]][card[2]] = "open"}

\* The person answers every card, and the next run resumes from the places
\* this one kept.  Only the calls without a result run again.
NextRun(given) ==
  /\ phase = "paused" /\ runs < MaxRuns
  /\ phase' = "running" /\ runs' = runs + 1 /\ resuming' = TRUE
  /\ asks' = [c \in Calls |-> [g \in Gates |->
                IF <<c, g>> \in Cards THEN given[<<c, g>>] ELSE asks[c][g]]]
  /\ approvals' = [g \in Gates |->
       approvals[g] + Cardinality({c \in Calls : /\ <<c, g>> \in Cards
                                                  /\ given[<<c, g>>] = "approved"})]
  /\ inbound' = places /\ places' = NoPlaces
  /\ pc' = [c \in Calls |-> IF pc[c] = "raised" THEN "waiting" ELSE pc[c]]
  /\ UNCHANGED <<step, gated, turn, node, ran, answer, queued, restarts>>

\* Another process serves the next run: its delegate starts clean.
Restart ==
  /\ phase = "paused" /\ restarts < MaxRestarts
  /\ restarts' = restarts + 1 /\ node' = CleanNode
  /\ UNCHANGED <<phase, step, gated, pc, turn, asks, resuming, inbound, places, ran,
                 approvals, answer, queued, runs>>

Turn(c) == Take(c) \/ Invoke(c) \/ Resume(c)

Next ==
  \/ \E calls, asking \in SUBSET Calls : MakeStep(calls, asking)
  \/ \E c \in Calls : Turn(c)
  \/ EndRun
  \/ \E given \in [Cards -> Decisions] : NextRun(given)
  \/ Restart

\* A waiting call gets the free lock and the delegate's work ends; the person
\* owes nothing.
Fairness == WF_vars(EndRun) /\ \A c \in Calls : WF_vars(Turn(c))

Spec == Init /\ [][Next]_vars /\ Fairness

-----------------------------------------------------------------------------
(* Properties.                                                             *)

\* Every variable holds what the code can put in it.
TypeOK ==
  /\ phase \in {"idle", "running", "paused", "over"}
  /\ step \subseteq Calls /\ gated \subseteq Calls
  /\ pc \in [Calls -> {"none", "waiting", "fresh", "answered", "raised", "result"}]
  /\ turn \in Calls \cup {Free} /\ node \in Node /\ asks \in [Calls -> Standing]
  /\ resuming \in BOOLEAN /\ inbound \in [Calls -> Node] /\ places \in [Calls -> Node]
  /\ ran \in [Gates -> Nat] /\ approvals \in [Gates -> Nat]
  /\ answer \in [Calls -> Calls \cup {Free}] /\ queued \in BOOLEAN
  /\ runs \in Nat /\ restarts \in Nat

\* The delegate never works for two calls at once, and never for a call that
\* has not got the turn.
OneAtATime == \A c \in Calls : pc[c] \in {"fresh", "answered"} => turn = c

\* A delegate's gated tool runs at most once for each approved card of it.
OncePerCard == \A g \in Gates : ran[g] <= approvals[g]

\* Unless the delegate paused while another call waited for it, each call
\* returns its own task's result, and the person is asked about a gated tool
\* once, in as many runs and processes as the answers take.
OwnTask ==
  ~queued =>
    /\ \A c \in Calls : answer[c] \in {c, Free}
    /\ \A g \in Gates : approvals[g] <= 1

\* A paused run keeps the place of the delegate it leaves paused, in every run
\* that pauses, so that a process that never ran it can resume it.
PlaceKept ==
  phase = "paused" /\ node.active =>
    \A c \in step : pc[c] = "raised" => places[c] = node

\* A step always comes to an end or a pause: no call waits for a turn that
\* never comes.
StepSettles == phase = "running" ~> phase # "running"

\* What the code says of two things asked of one delegate in one step: the
\* second call waits for the first, so each gets its own task done, once.
EachItsOwn ==
  /\ \A c \in Calls : answer[c] \in {c, Free}
  /\ \A g \in Gates : ran[g] <= 1
=============================================================================
