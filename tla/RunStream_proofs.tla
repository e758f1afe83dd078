-------------------------- MODULE RunStream_proofs --------------------------
(***************************************************************************)
(* Proofs about RunStream, for any number of requests, calls and           *)
(* invocations.                                                            *)
(*                                                                         *)
(* Orderly says who works for whom; Ledger adds where each call's result   *)
(* is: on its client, on one queue, or still to come from the agent or     *)
(* from the run that would close it.  Tidy relates the invocations the     *)
(* client shows to those the response has open and to what is queued.      *)
(***************************************************************************)
EXTENDS RunStream, TLAPS

Kinds == {"results", "paused", "finished", "error", "relayed", "done", "opened", "closed"}
Events ==
  {e \in [kind : Kinds, about : SUBSET (Calls \cup Subs)] :
     e.kind \in {"opened", "closed"} => e.about \subseteq Subs}

\* Every variable, the queues too, holds what the code can put in it.
Typed == TypeOK /\ merged \in [Requests -> Seq(Events)]

\* The end of a stream is marked by a run's task that is over.
EndsMarked ==
  \A r \in Requests : \A i \in 1..Len(merged[r]) : merged[r][i] = DONE => task[r] = "over"

\* The agent works for a run in progress, the sink is a response someone asked
\* for, and no task starts before its response.
Placed ==
  \A r \in Requests :
    /\ stage[r] \in {"none", "bound", "abandoned"} => task[r] = "none"
    /\ runner = r => task[r] = "running" /\ stage[r] \in {"streaming", "leaving"}
    /\ sink = r => stage[r] \notin {"none", "released"}
    /\ stage[r] = "released" => task[r] # "running"

\* While requests take turns, the one response in progress has the sink.
OneSink == ~overlapped => \A r \in Requests : Busy(r) => sink = r

Orderly == Typed /\ EndsMarked /\ Placed /\ OneSink /\ TurnsKeepEvents

-----------------------------------------------------------------------------
(* The queue.                                                              *)

\* What goes on a queue is typed, and only DONE marks its end.
LEMMA EventTypes ==
  /\ DONE \in Events
  /\ \A some \in SUBSET Calls : Event("results", some) \in Events
  /\ \A kind \in {"paused", "finished", "error", "relayed"} : Event(kind, {}) \in Events
  /\ \A s \in Subs : Event("opened", {s}) \in Events /\ Event("closed", {s}) \in Events
  /\ \A some, kind : kind # "done" => Event(kind, some) # DONE
  BY DEF DONE, Event, Events, Kinds

LEMMA ResultsTypes ==
  ASSUME NEW some \in SUBSET Calls
  PROVE  /\ Results(some) \in Seq(Events)
         /\ \A i \in 1..Len(Results(some)) :
              /\ some # {} /\ i = 1 /\ Results(some)[i] = Event("results", some)
              /\ Results(some)[i] # DONE
<1>1. Event("results", some) \in Events /\ Event("results", some) # DONE
  BY EventTypes
<1>2. CASE some = {}
  BY <1>2 DEF Results
<1>3. CASE some # {}
  BY <1>1, <1>3 DEF Results
<1> QED BY <1>2, <1>3

\* Putting events that do not mark the end keeps the queues' promise; so does
\* any put once the task is over.
LEMMA PutKeeps ==
  ASSUME Typed, EndsMarked, NEW r \in Requests, NEW events \in Seq(Events), Put(r, events),
         \A q \in Requests : task[q] = "over" => task'[q] = "over",
         \/ task'[r] = "over"
         \/ \A i \in 1..Len(events) : events[i] # DONE
  PROVE  merged' \in [Requests -> Seq(Events)] /\ EndsMarked'
<1>1. merged' = [merged EXCEPT ![r] = merged[r] \o events]
  BY DEF Put
<1>2. merged' \in [Requests -> Seq(Events)]
  BY <1>1 DEF Typed
<1>3. EndsMarked'
  <2> SUFFICES ASSUME NEW q \in Requests, NEW i \in 1..Len(merged'[q]), merged'[q][i] = DONE
               PROVE  task'[q] = "over"
    BY DEF EndsMarked
  <2>1. CASE q # r
    BY <1>1, <2>1 DEF EndsMarked, Typed
  <2>2. CASE q = r
    <3>1. merged[r] \in Seq(Events) /\ merged'[r] = merged[r] \o events
      BY <1>1 DEF Typed
    <3>2. CASE i <= Len(merged[r])
      BY <2>2, <3>1, <3>2 DEF EndsMarked
    <3>3. CASE i > Len(merged[r])
      BY <2>2, <3>1, <3>3
    <3> QED BY <2>2, <3>1, <3>2, <3>3
  <2> QED BY <2>1, <2>2
<1> QED BY <1>2, <1>3

\* So does taking events off a queue.
LEMMA TakeKeeps ==
  ASSUME Typed, EndsMarked, NEW r \in Requests,
         \/ merged' = merged
         \/ merged' = [merged EXCEPT ![r] = <<>>]
         \/ merged[r] # <<>> /\ merged' = [merged EXCEPT ![r] = Tail(@)],
         \A q \in Requests : task[q] = "over" => task'[q] = "over"
  PROVE  merged' \in [Requests -> Seq(Events)] /\ EndsMarked'
<1>1. CASE merged' = merged
  BY <1>1 DEF Typed, EndsMarked
<1>2. CASE merged' = [merged EXCEPT ![r] = <<>>]
  BY <1>2 DEF Typed, EndsMarked
<1>3. CASE merged[r] # <<>> /\ merged' = [merged EXCEPT ![r] = Tail(@)]
  <2>1. /\ merged[r] \in Seq(Events) /\ Tail(merged[r]) \in Seq(Events)
        /\ Len(Tail(merged[r])) = Len(merged[r]) - 1
        /\ \A i \in 1..Len(Tail(merged[r])) : Tail(merged[r])[i] = merged[r][i + 1]
    BY <1>3 DEF Typed
  <2>2. merged' \in [Requests -> Seq(Events)]
    BY <1>3, <2>1 DEF Typed
  <2>3. ASSUME NEW q \in Requests, NEW i \in 1..Len(merged'[q]), merged'[q][i] = DONE
        PROVE  task'[q] = "over"
    <3>1. CASE q # r
      BY <1>3, <2>3, <3>1 DEF EndsMarked, Typed
    <3>2. CASE q = r
      <4>1. merged'[q] = Tail(merged[r])
        BY <1>3, <3>2 DEF Typed
      <4>2. i \in 1..Len(Tail(merged[r])) /\ Tail(merged[r])[i] = DONE
        BY <2>3, <4>1
      <4>3. Len(merged[r]) \in Nat
        BY <2>1
      <4>4. merged[r][i + 1] = DONE /\ i + 1 \in 1..Len(merged[r])
        BY <2>1, <4>2, <4>3
      <4> QED BY <3>2, <4>4 DEF EndsMarked
    <3> QED BY <3>1, <3>2
  <2> QED BY <2>2, <2>3 DEF EndsMarked
<1> QED BY <1>1, <1>2, <1>3

-----------------------------------------------------------------------------
(* The steps.                                                              *)

LEMMA OrderlyInit == Init => Orderly
<1> SUFFICES ASSUME Init PROVE Orderly
  OBVIOUS
<1> USE DEF Init
<1>1. TypeOK
  BY DEF TypeOK, Nobody
<1>2. merged \in [Requests -> Seq(Events)] /\ EndsMarked
  BY DEF EndsMarked
<1>3. Placed /\ OneSink /\ TurnsKeepEvents
  BY DEF Placed, OneSink, TurnsKeepEvents, Busy, Requests, Nobody
<1> QED BY <1>1, <1>2, <1>3 DEF Orderly, Typed

\* The agent's work left by a run that stops is typed.
LEMMA DropTypes ==
  ASSUME TypeOK, NEW r \in Requests, Drop(r)
  PROVE  /\ runner' \in Requests \cup {Nobody} /\ runner' # r
         /\ \A q \in Requests : runner' = q => runner = q
         /\ executing' \subseteq Calls /\ paused' \subseteq Calls
         /\ working' \subseteq Subs /\ complete' \subseteq Subs
  BY DEF Drop, TypeOK, agentVars, Nobody, Requests

LEMMA OrderlyNext == Orderly /\ [Next]_vars => Orderly'
<1> SUFFICES ASSUME Orderly, [Next]_vars PROVE Orderly'
  OBVIOUS
<1>t. TypeOK /\ Typed /\ EndsMarked /\ Placed
  BY DEF Orderly, Typed
<1> USE DEF agentVars, clientVars
<1>1. ASSUME NEW r \in Requests, Arrive(r) PROVE Orderly'
  <2>1. merged' \in [Requests -> Seq(Events)] /\ EndsMarked'
    BY <1>1, <1>t, TakeKeeps DEF Arrive
  <2>2. TypeOK'
    BY <1>1, <1>t DEF Arrive, TypeOK
  <2>3. Placed'
    BY <1>1, <1>t DEF Arrive, Placed, TypeOK
  <2>4. OneSink' /\ TurnsKeepEvents'
    BY <1>1, <1>t DEF Orderly, Arrive, OneSink, TurnsKeepEvents, Busy, TypeOK
  <2> QED BY <2>1, <2>2, <2>3, <2>4 DEF Orderly, Typed
<1>2. ASSUME NEW r \in Requests, Refuse(r) PROVE Orderly'
  <2>1. merged' \in [Requests -> Seq(Events)] /\ EndsMarked'
    BY <1>2, <1>t, TakeKeeps DEF Refuse
  <2>2. TypeOK'
    BY <1>2, <1>t DEF Refuse, Release, TypeOK
  <2>3. Placed'
    BY <1>2, <1>t DEF Refuse, Release, Placed, TypeOK, Requests, Nobody
  <2>4. OneSink' /\ TurnsKeepEvents'
    BY <1>2, <1>t DEF Orderly, Refuse, Release, OneSink, TurnsKeepEvents, Busy, TypeOK
  <2> QED BY <2>1, <2>2, <2>3, <2>4 DEF Orderly, Typed
<1>3. ASSUME NEW r \in Requests, Abandon(r) PROVE Orderly'
  <2>1. merged' \in [Requests -> Seq(Events)] /\ EndsMarked'
    BY <1>3, <1>t, TakeKeeps DEF Abandon
  <2>2. TypeOK'
    BY <1>3, <1>t DEF Abandon, TypeOK
  <2>3. Placed'
    BY <1>3, <1>t DEF Abandon, Placed, TypeOK
  <2>4. OneSink' /\ TurnsKeepEvents'
    BY <1>3, <1>t DEF Orderly, Abandon, OneSink, TurnsKeepEvents, Busy, TypeOK
  <2> QED BY <2>1, <2>2, <2>3, <2>4 DEF Orderly, Typed
<1>4. ASSUME NEW r \in Requests, Start(r) PROVE Orderly'
  <2>1. merged' \in [Requests -> Seq(Events)] /\ EndsMarked'
    BY <1>4, <1>t, TakeKeeps DEF Start, Placed, TypeOK
  <2>2. TypeOK'
    BY <1>4, <1>t DEF Start, TypeOK
  <2>3. Placed'
    BY <1>4, <1>t DEF Start, Placed, TypeOK
  <2>4. OneSink' /\ TurnsKeepEvents'
    BY <1>4, <1>t DEF Orderly, Start, OneSink, TurnsKeepEvents, Busy, TypeOK
  <2> QED BY <2>1, <2>2, <2>3, <2>4 DEF Orderly, Typed
<1>5. ASSUME NEW r \in Requests, Leave(r) PROVE Orderly'
  <2>1. merged' \in [Requests -> Seq(Events)] /\ EndsMarked'
    BY <1>5, <1>t, TakeKeeps DEF Leave, Reset
  <2>2. TypeOK'
    BY <1>5, <1>t DEF Leave, TypeOK
  <2>3. Placed'
    BY <1>5, <1>t DEF Leave, Placed, TypeOK
  <2>4. OneSink' /\ TurnsKeepEvents'
    BY <1>5, <1>t DEF Orderly, Leave, OneSink, TurnsKeepEvents, Busy, TypeOK
  <2> QED BY <2>1, <2>2, <2>3, <2>4 DEF Orderly, Typed
<1>6. ASSUME NEW r \in Requests, NEW c \in Calls, CallStarts(r, c) PROVE Orderly'
  <2>1. merged' \in [Requests -> Seq(Events)] /\ EndsMarked'
    BY <1>6, <1>t, TakeKeeps DEF CallStarts
  <2>2. TypeOK'
    BY <1>6, <1>t DEF CallStarts, TypeOK
  <2>3. Placed' /\ OneSink' /\ TurnsKeepEvents'
    BY <1>6, <1>t DEF Orderly, CallStarts, Placed, OneSink, TurnsKeepEvents, Busy
  <2> QED BY <2>1, <2>2, <2>3 DEF Orderly, Typed
<1>7. ASSUME NEW r \in Requests, NEW c \in Calls, CallEnds(r, c) PROVE Orderly'
  <2>1. merged' \in [Requests -> Seq(Events)] /\ EndsMarked'
    <3>1. /\ Results({c}) \in Seq(Events)
          /\ \A i \in 1..Len(Results({c})) : Results({c})[i] # DONE
      BY ResultsTypes
    <3>2. Put(r, Results({c})) /\ task' = task
      BY <1>7 DEF CallEnds
    <3> QED BY <1>t, <3>1, <3>2, PutKeeps
  <2>2. TypeOK'
    BY <1>7, <1>t DEF CallEnds, TypeOK
  <2>3. Placed' /\ OneSink' /\ TurnsKeepEvents'
    BY <1>7, <1>t DEF Orderly, CallEnds, Placed, OneSink, TurnsKeepEvents, Busy
  <2> QED BY <2>1, <2>2, <2>3 DEF Orderly, Typed
<1>8. ASSUME NEW r \in Requests, NEW waits \in BOOLEAN, Finish(r, waits) PROVE Orderly'
  <2> DEFINE kind == IF waits THEN "paused" ELSE "finished"
             events == Results(Closing(r, waits)) \o <<Event(kind, {})>>
  <2>1. Closing(r, waits) \subseteq Calls
    BY <1>t DEF Closing, TypeOK
  <2>2. events \in Seq(Events) /\ \A i \in 1..Len(events) : events[i] # DONE
    <3>1. /\ Results(Closing(r, waits)) \in Seq(Events)
          /\ \A i \in 1..Len(Results(Closing(r, waits))) : Results(Closing(r, waits))[i] # DONE
      BY <2>1, ResultsTypes
    <3>2. Event(kind, {}) \in Events /\ Event(kind, {}) # DONE
      BY EventTypes
    <3> HIDE DEF kind
    <3> QED BY <3>1, <3>2
  <2>3. merged' \in [Requests -> Seq(Events)] /\ EndsMarked'
    <3>1. Put(r, events) /\ task' = [task EXCEPT ![r] = "ending"] /\ task[r] = "running"
      BY <1>8 DEF Finish, Runs
    <3>2. \A q \in Requests : task[q] = "over" => task'[q] = "over"
      BY <1>t, <3>1 DEF TypeOK
    <3> HIDE DEF events
    <3> QED BY <1>t, <2>2, <3>1, <3>2, PutKeeps
  <2>4. TypeOK'
    BY <1>8, <1>t, <2>1 DEF Finish, TypeOK
  <2>5. Placed'
    BY <1>8, <1>t DEF Finish, Runs, Placed, TypeOK, Nobody, Requests
  <2>6. OneSink' /\ TurnsKeepEvents'
    BY <1>8, <1>t DEF Orderly, Finish, OneSink, TurnsKeepEvents, Busy
  <2> QED BY <2>3, <2>4, <2>5, <2>6 DEF Orderly, Typed
<1>9. ASSUME NEW r \in Requests, TaskEnds(r) PROVE Orderly'
  <2>1. merged' \in [Requests -> Seq(Events)] /\ EndsMarked'
    <3>1. Put(r, <<DONE>>) /\ task' = [task EXCEPT ![r] = "over"]
      BY <1>9 DEF TaskEnds
    <3>2. <<DONE>> \in Seq(Events)
      BY EventTypes
    <3>3. task'[r] = "over" /\ \A q \in Requests : task[q] = "over" => task'[q] = "over"
      BY <1>t, <3>1 DEF TypeOK
    <3> QED BY <1>t, <3>1, <3>2, <3>3, PutKeeps
  <2>2. TypeOK'
    BY <1>9, <1>t DEF TaskEnds, TypeOK
  <2>3. Placed'
    BY <1>9, <1>t DEF TaskEnds, Placed, TypeOK
  <2>4. OneSink' /\ TurnsKeepEvents'
    BY <1>9, <1>t DEF Orderly, TaskEnds, OneSink, TurnsKeepEvents, Busy
  <2> QED BY <2>1, <2>2, <2>3, <2>4 DEF Orderly, Typed
<1>10. ASSUME NEW r \in Requests, Fail(r) PROVE Orderly'
  <2> DEFINE events == Results(unresolved[r]) \o <<Event("error", {}), DONE>>
  <2>1. events \in Seq(Events)
    <3>1. Results(unresolved[r]) \in Seq(Events)
      BY <1>t, ResultsTypes DEF TypeOK
    <3>2. <<Event("error", {}), DONE>> \in Seq(Events)
      BY EventTypes
    <3> QED BY <3>1, <3>2
  <2>2. merged' \in [Requests -> Seq(Events)] /\ EndsMarked'
    <3>1. Put(r, events) /\ task' = [task EXCEPT ![r] = "over"]
      BY <1>10 DEF Fail
    <3>2. task'[r] = "over" /\ \A q \in Requests : task[q] = "over" => task'[q] = "over"
      BY <1>t, <3>1 DEF TypeOK
    <3> HIDE DEF events
    <3> QED BY <1>t, <2>1, <3>1, <3>2, PutKeeps
  <2>3. TypeOK'
    BY <1>10, <1>t, DropTypes DEF Fail, TypeOK
  <2>4. Placed'
    BY <1>10, <1>t, DropTypes DEF Fail, Placed, TypeOK
  <2>5. OneSink' /\ TurnsKeepEvents'
    BY <1>10, <1>t DEF Orderly, Fail, OneSink, TurnsKeepEvents, Busy
  <2> QED BY <2>2, <2>3, <2>4, <2>5 DEF Orderly, Typed
<1>11. ASSUME NEW r \in Requests, Deliver(r) PROVE Orderly'
  <2>1. merged' \in [Requests -> Seq(Events)] /\ EndsMarked'
    BY <1>11, <1>t, TakeKeeps DEF Deliver
  <2>2. TypeOK'
    <3> DEFINE e == Head(merged[r])
               closing == StillOpen(r, e.kind)
    <3>1. e \in Events
      BY <1>11, <1>t DEF Deliver, Typed
    <3>2. e.kind \in {"opened", "closed"} => e.about \subseteq Subs
      BY <3>1 DEF Events
    <3>3. results' \in [Calls -> Nat]
      BY <1>11, <1>t DEF Deliver, TypeOK
    <3>4. closing \subseteq Subs /\ closing \subseteq segments[r]
      BY <1>t DEF StillOpen, TypeOK
    <3>5. segments' = [segments EXCEPT ![r] = @ \ closing]
      BY <1>11 DEF Deliver
    <3>6. segments' \in [Requests -> SUBSET Subs]
      BY <1>t, <3>4, <3>5 DEF TypeOK
    <3>7. shown' \in [Requests -> SUBSET Subs]
      <4>1. shown' = [shown EXCEPT ![r] = CASE e.kind = "opened" -> @ \cup e.about
                                            [] e.kind = "closed" -> @ \ e.about
                                            [] OTHER -> @ \ closing]
        BY <1>11 DEF Deliver
      <4> HIDE DEF e, closing
      <4> QED BY <1>t, <3>2, <4>1 DEF TypeOK
    <3>8. ending' \in [Requests -> {"none", "finished", "paused", "error", "relayed"}]
      BY <1>11, <1>t DEF Deliver, TypeOK
    <3> QED BY <1>11, <1>t, <3>3, <3>6, <3>7, <3>8 DEF Deliver, TypeOK
  <2>3. Placed' /\ OneSink' /\ TurnsKeepEvents'
    BY <1>11, <1>t DEF Orderly, Deliver, Placed, OneSink, TurnsKeepEvents, Busy
  <2> QED BY <2>1, <2>2, <2>3 DEF Orderly, Typed
<1>12. ASSUME NEW r \in Requests, Close(r) PROVE Orderly'
  <2>1. merged' \in [Requests -> Seq(Events)] /\ EndsMarked'
    BY <1>12, <1>t, TakeKeeps DEF Close, Reset
  <2>2. TypeOK'
    BY <1>12, <1>t DEF Close, Release, Reset, TypeOK
  <2>3. task[r] = "over"
    <3>1. merged[r] \in Seq(Events) /\ merged[r] # <<>> /\ Head(merged[r]) = DONE
      BY <1>12, <1>t DEF Close, Typed
    <3>2. 1 \in 1..Len(merged[r]) /\ merged[r][1] = DONE
      BY <3>1
    <3> QED BY <1>t, <3>2 DEF EndsMarked
  <2>4. Placed'
    BY <1>12, <1>t, <2>3 DEF Close, Release, Placed, TypeOK, Requests, Nobody
  <2>5. OneSink' /\ TurnsKeepEvents'
    BY <1>12, <1>t DEF Orderly, Close, Release, OneSink, TurnsKeepEvents, Busy, TypeOK
  <2> QED BY <2>1, <2>2, <2>4, <2>5 DEF Orderly, Typed
<1>13. ASSUME NEW r \in Requests, Unwind(r) PROVE Orderly'
  <2>1. merged' \in [Requests -> Seq(Events)] /\ EndsMarked'
    BY <1>13, <1>t, TakeKeeps DEF Unwind, Reset, TypeOK
  <2>2. TypeOK'
    BY <1>13, <1>t, DropTypes DEF Unwind, Release, Reset, TypeOK
  <2>3. Placed'
    BY <1>13, <1>t, DropTypes DEF Unwind, Release, Placed, TypeOK, Requests, Nobody
  <2>4. OneSink' /\ TurnsKeepEvents'
    BY <1>13, <1>t DEF Orderly, Unwind, Release, OneSink, TurnsKeepEvents, Busy, TypeOK
  <2> QED BY <2>1, <2>2, <2>3, <2>4 DEF Orderly, Typed
<1>14. ASSUME NEW s \in Subs, NEW ends \in BOOLEAN, Publish(s, ends) PROVE Orderly'
  <2>1. /\ merged' \in [Requests -> Seq(Events)] /\ EndsMarked'
        /\ segments' \in [Requests -> SUBSET Subs]
    <3>1. CASE UNCHANGED <<segments, merged>>
      BY <1>14, <1>t, <3>1 DEF Publish, Typed, EndsMarked, TypeOK
    <3>2. CASE ~UNCHANGED <<segments, merged>>
      <4>1. sink \in Requests /\ Translate(sink, s, ends)
        BY <1>14, <1>t, <3>2 DEF Publish, TypeOK, Nobody
      <4> DEFINE events == IF ends THEN <<Event("closed", {s})>>
                           ELSE IF s \in segments[sink] THEN <<>>
                           ELSE <<Event("opened", {s})>>
      <4>2. Put(sink, events)
        BY <3>2, <4>1 DEF Translate
      <4>3. events \in Seq(Events) /\ \A i \in 1..Len(events) : events[i] # DONE
        <5>1. /\ Event("closed", {s}) \in Events /\ Event("opened", {s}) \in Events
              /\ Event("closed", {s}) # DONE /\ Event("opened", {s}) # DONE
          BY EventTypes
        <5> QED BY <5>1
      <4>4. task' = task
        BY <1>14 DEF Publish
      <4>5. merged' \in [Requests -> Seq(Events)] /\ EndsMarked'
        <5> HIDE DEF events
        <5> QED BY <1>t, <4>1, <4>2, <4>3, <4>4, PutKeeps
      <4>6. segments' \in [Requests -> SUBSET Subs]
        <5>1. PICK m : segments' = [segments EXCEPT ![sink] = m] /\ m \subseteq Subs
          BY <1>t, <4>1 DEF Translate, TypeOK
        <5> QED BY <1>t, <5>1 DEF TypeOK
      <4> QED BY <4>5, <4>6
    <3> QED BY <3>1, <3>2
  <2>2. strayed' = (strayed \/ sink # runner) /\ strayed' \in BOOLEAN
    BY <1>14, Zenon DEF Publish
  <2>3. TypeOK'
    BY <1>14, <1>t, <2>1, <2>2 DEF Publish, TypeOK
  <2>4. Placed' /\ OneSink'
    BY <1>14, <1>t DEF Orderly, Publish, Placed, OneSink, Busy
  <2>5. ~overlapped => sink = runner
    BY <1>14, <1>t DEF Orderly, Publish, Placed, OneSink, Busy, TypeOK
  <2>6. TurnsKeepEvents'
    BY <1>14, <1>t, <2>2, <2>5 DEF Orderly, Publish, TurnsKeepEvents, TypeOK
  <2> QED BY <2>1, <2>3, <2>4, <2>6 DEF Orderly, Typed
<1>15. ASSUME NEW r \in Requests, Relay(r) PROVE Orderly'
  <2>1. merged' \in [Requests -> Seq(Events)] /\ EndsMarked'
    <3> DEFINE events == <<Event("relayed", {})>>
    <3>1. Put(r, events) /\ task' = [task EXCEPT ![r] = "ending"] /\ task[r] = "running"
      BY <1>15 DEF Relay
    <3>2. events \in Seq(Events) /\ \A i \in 1..Len(events) : events[i] # DONE
      <4>1. Event("relayed", {}) \in Events /\ Event("relayed", {}) # DONE
        BY EventTypes
      <4> QED BY <4>1
    <3> HIDE DEF events
    <3>3. \A q \in Requests : task[q] = "over" => task'[q] = "over"
      BY <1>t, <3>1 DEF TypeOK
    <3> QED BY <1>t, <3>1, <3>2, <3>3, PutKeeps
  <2>2. TypeOK'
    BY <1>15, <1>t, DropTypes DEF Relay, TypeOK
  <2>3. Placed'
    BY <1>15, <1>t, DropTypes DEF Relay, Placed, TypeOK
  <2>4. OneSink' /\ TurnsKeepEvents'
    BY <1>15, <1>t DEF Orderly, Relay, OneSink, TurnsKeepEvents, Busy
  <2> QED BY <2>1, <2>2, <2>3, <2>4 DEF Orderly, Typed
<1>16. CASE UNCHANGED vars
  BY <1>16 DEF vars, Orderly, Typed, TypeOK, EndsMarked, Placed, OneSink, TurnsKeepEvents, Busy
<1> QED
  BY <1>1, <1>2, <1>3, <1>4, <1>5, <1>6, <1>7, <1>8, <1>9, <1>10, <1>11, <1>12, <1>13,
     <1>14, <1>15, <1>16 DEF Next, Server, Ends

-----------------------------------------------------------------------------
(* A call's result.                                                        *)

\* An event on a queue that gives a call its result, and one that ends a run.
Mentions(c, r, i) ==
  i \in 1..Len(merged[r]) /\ merged[r][i].kind = "results" /\ c \in merged[r][i].about
Terminal(r, i) == i \in 1..Len(merged[r]) /\ merged[r][i].kind \in {"finished", "error"}

\* Nobody has given the call a result, or is about to.
Untold(c) == results[c] = 0 /\ \A r \in Requests, i \in Nat : ~Mentions(c, r, i)

\* A result is on its way once, and only to a client that does not have it.
Told ==
  \A c \in Calls :
    /\ results[c] \in {0, 1}
    /\ \A q, r \in Requests, i, j \in Nat :
         Mentions(c, q, i) => results[c] = 0 /\ (Mentions(c, r, j) => r = q /\ j = i)

\* A call the agent still works on, or has yet to make, has no result.
Waiting == \A c \in Calls : (c \in executing \cup paused \/ by[c] = Nobody) => Untold(c)

\* A run in progress would close only calls the agent still works on for it.
Open ==
  /\ runner # Nobody => paused = {}
  /\ \A c \in Calls : by[c] = Nobody => c \notin executing \cup paused
  /\ \A r \in Requests :
       /\ task[r] = "none" => unresolved[r] = {}
       /\ task[r] = "running" =>
            IF runner = r THEN unresolved[r] \subseteq executing ELSE unresolved[r] = {}

\* A call of a run is answered, about to be, or still open, and no longer open
\* when the run's last event goes out.
Announced ==
  \A r \in Requests :
    /\ stage[r] \in {"none", "bound"} => ending[r] = "none"
    /\ ending[r] \in {"finished", "error"} => task[r] # "running"
    /\ \A i \in Nat : Terminal(r, i) => task[r] \notin {"none", "running"}
    /\ \A c \in Calls : by[c] = r =>
         /\ task[r] # "none"
         /\ (stage[r] = "streaming" /\ task[r] = "running") =>
              (c \in unresolved[r] \/ results[c] = 1 \/ \E i \in Nat : Mentions(c, r, i))
         /\ stage[r] = "streaming" =>
              \A i \in Nat : Terminal(r, i) =>
                (results[c] = 1 \/ \E j \in Nat : j < i /\ Mentions(c, r, j))
         /\ ending[r] \in {"finished", "error"} => results[c] = 1

Ledger == Orderly /\ Told /\ Waiting /\ Open /\ Announced

\* What a put adds to a queue: the results it gives, ahead of the rest of it.
LEMMA PutMentions ==
  ASSUME Typed, NEW r \in Requests, NEW S \in SUBSET Calls, NEW rest \in Seq(Events),
         \A i \in 1..Len(rest) : rest[i].kind # "results",
         Put(r, Results(S) \o rest)
  PROVE  /\ \A c \in Calls, q \in Requests, i \in Nat :
              Mentions(c, q, i)' <=> \/ Mentions(c, q, i)
                                     \/ c \in S /\ q = r /\ i = Len(merged[r]) + 1
         /\ \A q \in Requests, i \in Nat : Terminal(q, i)' =>
              \/ Terminal(q, i)
              \/ /\ q = r /\ i > Len(merged[r]) /\ (S # {} => i > Len(merged[r]) + 1)
                 /\ \E k \in 1..Len(rest) : rest[k].kind \in {"finished", "error"}
         /\ Len(merged[r]) \in Nat
<1> DEFINE m == merged[r]
           new == Results(S) \o rest
<1>1. /\ m \in Seq(Events) /\ Results(S) \in Seq(Events) /\ rest \in Seq(Events)
      /\ new \in Seq(Events) /\ Len(m) \in Nat
  BY ResultsTypes DEF Typed
<1>2. /\ \A q \in Requests : merged'[q] = IF q = r THEN m \o new ELSE merged[q]
      /\ m = merged[r] /\ new = Results(S) \o rest
  BY DEF Put, Typed
<1> HIDE DEF m, new
<1>3. /\ Len(Results(S)) = IF S = {} THEN 0 ELSE 1
      /\ S # {} => Results(S)[1] = Event("results", S)
  BY DEF Results
<1>4. /\ Len(m \o new) = Len(m) + Len(Results(S)) + Len(rest)
      /\ \A i \in 1..Len(m) : (m \o new)[i] = m[i]
      /\ S # {} => (m \o new)[Len(m) + 1] = Event("results", S)
      /\ \A k \in 1..Len(rest) : (m \o new)[Len(m) + Len(Results(S)) + k] = rest[k]
  <2>1. /\ Len(new) = Len(Results(S)) + Len(rest)
        /\ \A i \in 1..Len(Results(S)) : new[i] = Results(S)[i]
        /\ \A k \in 1..Len(rest) : new[Len(Results(S)) + k] = rest[k]
    BY <1>1, <1>2
  <2>2. /\ Len(m \o new) = Len(m) + Len(new)
        /\ \A i \in 1..Len(m) : (m \o new)[i] = m[i]
        /\ \A k \in 1..Len(new) : (m \o new)[Len(m) + k] = new[k]
    BY <1>1
  <2>3. Len(Results(S)) \in Nat /\ Len(rest) \in Nat /\ Len(m) \in Nat
    BY <1>1
  <2>4. \A k \in 1..Len(rest) : Len(Results(S)) + k \in 1..Len(new)
    BY <2>1, <2>3
  <2>5. \A k \in 1..Len(rest) : (m \o new)[Len(m) + (Len(Results(S)) + k)] = rest[k]
    BY <2>1, <2>2, <2>4
  <2>6. S # {} => 1 \in 1..Len(new) /\ 1 \in 1..Len(Results(S))
    BY <1>3, <2>1, <2>3
  <2> QED BY <1>3, <2>1, <2>2, <2>3, <2>5, <2>6
<1>c. /\ Len(Results(S)) \in Nat /\ Len(rest) \in Nat /\ Len(m) \in Nat
      /\ Len(m \o new) \in Nat
  BY <1>1, <1>4
<1>5. Event("results", S).kind = "results" /\ Event("results", S).about = S
  BY DEF Event
<1>6. ASSUME NEW i \in 1..Len(m \o new)
      PROVE  \/ i \in 1..Len(m)
             \/ S # {} /\ i = Len(m) + 1
             \/ \E k \in 1..Len(rest) : i = Len(m) + Len(Results(S)) + k
  <2>1. i \in Nat
    BY <1>c
  <2>2. CASE i > Len(m) + Len(Results(S))
    <3>1. i - (Len(m) + Len(Results(S))) \in 1..Len(rest)
      BY <1>4, <1>c, <2>1, <2>2
    <3>2. i = (Len(m) + Len(Results(S))) + (i - (Len(m) + Len(Results(S))))
      BY <1>c, <2>1
    <3> QED BY <3>1, <3>2
  <2>3. CASE ~(i > Len(m) + Len(Results(S)))
    BY <1>3, <1>c, <2>1, <2>3
  <2> QED BY <2>2, <2>3
<1>7. ASSUME NEW c \in Calls, NEW i \in Nat
      PROVE  (i \in 1..Len(m \o new) /\ (m \o new)[i].kind = "results" /\ c \in (m \o new)[i].about)
             <=> \/ i \in 1..Len(m) /\ m[i].kind = "results" /\ c \in m[i].about
                 \/ c \in S /\ i = Len(m) + 1
  <2>1. CASE i \in 1..Len(m)
    BY <1>4, <1>c, <2>1
  <2>2. CASE S # {} /\ i = Len(m) + 1
    BY <1>3, <1>4, <1>5, <1>c, <2>2
  <2>3. CASE \E k \in 1..Len(rest) : i = Len(m) + Len(Results(S)) + k
    <3>1. PICK k \in 1..Len(rest) : i = Len(m) + Len(Results(S)) + k
      BY <2>3
    <3>2. (m \o new)[i] = rest[k] /\ rest[k].kind # "results"
      BY <1>4, <3>1
    <3>3. i \notin 1..Len(m) /\ (S # {} => i # Len(m) + 1)
      BY <1>3, <1>c, <3>1
    <3> QED BY <3>2, <3>3
  <2>4. CASE i \notin 1..Len(m \o new)
    BY <1>3, <1>4, <1>c, <2>4
  <2> QED BY <1>6, <2>1, <2>2, <2>3, <2>4
<1>9. ASSUME NEW c \in Calls, NEW q \in Requests, NEW i \in Nat
      PROVE  Mentions(c, q, i)' <=> \/ Mentions(c, q, i)
                                    \/ c \in S /\ q = r /\ i = Len(merged[r]) + 1
  <2>1. CASE q # r
    BY <1>2, <2>1 DEF Mentions
  <2>2. CASE q = r
    BY <1>2, <1>7, <2>2 DEF Mentions
  <2> QED BY <2>1, <2>2
<1>8. ASSUME NEW q \in Requests, NEW i \in Nat, Terminal(q, i)', ~Terminal(q, i)
      PROVE  /\ q = r /\ i > Len(merged[r]) /\ (S # {} => i > Len(merged[r]) + 1)
             /\ \E k \in 1..Len(rest) : rest[k].kind \in {"finished", "error"}
  <2>1. q = r
    BY <1>2, <1>8 DEF Terminal
  <2>2. i \in 1..Len(m \o new) /\ (m \o new)[i].kind \in {"finished", "error"}
    BY <1>2, <1>8, <2>1 DEF Terminal
  <2>4. ~(i \in 1..Len(m))
    BY <1>2, <1>4, <1>8, <2>1, <2>2 DEF Terminal
  <2>5. ~(S # {} /\ i = Len(m) + 1)
    BY <1>4, <1>5, <2>2
  <2>6. PICK k \in 1..Len(rest) : i = Len(m) + Len(Results(S)) + k
    BY <1>6, <2>2, <2>4, <2>5
  <2>7. rest[k].kind \in {"finished", "error"}
    BY <1>4, <2>2, <2>6
  <2>8. i > Len(m) /\ (S # {} => i > Len(m) + 1)
    BY <1>3, <1>c, <2>6
  <2> QED BY <1>2, <2>1, <2>7, <2>8
<1> QED BY <1>1, <1>2, <1>9, <1>8

\* What taking a queue's first event, or the whole queue, leaves of it.
LEMMA TakeMentions ==
  ASSUME Typed, NEW r \in Requests, merged[r] # <<>>, merged' = [merged EXCEPT ![r] = Tail(@)]
  PROVE  /\ \A c \in Calls, q \in Requests, i \in Nat :
              Mentions(c, q, i)' <=> Mentions(c, q, IF q = r THEN i + 1 ELSE i) /\ i # 0
         /\ \A q \in Requests, i \in Nat :
              Terminal(q, i)' <=> Terminal(q, IF q = r THEN i + 1 ELSE i) /\ i # 0
<1> DEFINE m == merged[r]
<1>1. m \in Seq(Events) /\ m # <<>> /\ Len(m) \in Nat
  BY DEF Typed
<1>2. Len(Tail(m)) = Len(m) - 1 /\ \A i \in 1..Len(Tail(m)) : Tail(m)[i] = m[i + 1]
  BY <1>1
<1>3. \A q \in Requests : merged'[q] = IF q = r THEN Tail(m) ELSE merged[q]
  BY DEF Typed
<1>4. \A i \in Nat : i \in 1..Len(Tail(m)) <=> i + 1 \in 1..Len(m) /\ i # 0
  BY <1>1, <1>2
<1> HIDE DEF m
<1>5. ASSUME NEW q \in Requests, NEW i \in Nat, NEW c \in Calls
      PROVE  Mentions(c, q, i)' <=> Mentions(c, q, IF q = r THEN i + 1 ELSE i) /\ i # 0
  <2>1. CASE q = r
    BY <1>2, <1>3, <1>4, <2>1 DEF Mentions, m
  <2>2. CASE q # r
    BY <1>3, <2>2 DEF Mentions
  <2> QED BY <2>1, <2>2
<1>6. ASSUME NEW q \in Requests, NEW i \in Nat
      PROVE  Terminal(q, i)' <=> Terminal(q, IF q = r THEN i + 1 ELSE i) /\ i # 0
  <2>1. CASE q = r
    BY <1>2, <1>3, <1>4, <2>1 DEF Terminal, m
  <2>2. CASE q # r
    BY <1>3, <2>2 DEF Terminal
  <2> QED BY <2>1, <2>2
<1> QED BY <1>5, <1>6

\* Putting results of calls that have none gives nobody a second one.
LEMMA PutTold ==
  ASSUME Typed, Told, NEW r \in Requests, NEW S \in SUBSET Calls, NEW rest \in Seq(Events),
         \A i \in 1..Len(rest) : rest[i].kind # "results",
         Put(r, Results(S) \o rest), results' = results, \A c \in S : Untold(c)
  PROVE  Told' /\ \A c \in Calls : Untold(c) /\ c \notin S => Untold(c)'
<1>1. \A c \in Calls, q \in Requests, i \in Nat :
        Mentions(c, q, i)' <=> \/ Mentions(c, q, i)
                               \/ c \in S /\ q = r /\ i = Len(merged[r]) + 1
  BY PutMentions
<1>2. ASSUME NEW c \in Calls
      PROVE  /\ results'[c] \in {0, 1}
             /\ \A q, p \in Requests, i, j \in Nat :
                  Mentions(c, q, i)' =>
                    results'[c] = 0 /\ (Mentions(c, p, j)' => p = q /\ j = i)
  <2>1. CASE c \in S
    BY <1>1, <2>1 DEF Untold
  <2>2. CASE c \notin S
    BY <1>1, <2>2 DEF Told
  <2> QED BY <2>1, <2>2
<1>3. Told'
  BY <1>2 DEF Told
<1>4. \A c \in Calls : Untold(c) /\ c \notin S => Untold(c)'
  BY <1>1 DEF Untold
<1> QED BY <1>3, <1>4

\* Nor does a step that puts no result.
LEMMA LessTold ==
  ASSUME Told, results' = results,
         \A c \in Calls, q \in Requests, i \in Nat : Mentions(c, q, i)' => Mentions(c, q, i)
  PROVE  Told' /\ \A c \in Calls : Untold(c) => Untold(c)'
<1>1. Told'
  BY DEF Told
<1>2. \A c \in Calls : Untold(c) => Untold(c)'
  BY DEF Untold
<1> QED BY <1>1, <1>2

LEMMA LedgerInit == Init => Ledger
<1> SUFFICES ASSUME Init PROVE Ledger
  OBVIOUS
<1>1. \A q \in Requests, i \in Nat : ~Terminal(q, i) /\ \A c \in Calls : ~Mentions(c, q, i)
  BY DEF Init, Mentions, Terminal
<1>2. Told /\ Waiting
  BY <1>1 DEF Init, Told, Waiting, Untold
<1>3. Open
  BY DEF Init, Open, Nobody
<1>4. Announced
  BY <1>1 DEF Init, Announced, Nobody, Requests
<1> QED BY <1>2, <1>3, <1>4, OrderlyInit DEF Ledger

\* Every step keeps the ledger.
LEMMA LedgerNext == Ledger /\ [Next]_vars => Ledger'
<1> SUFFICES ASSUME Ledger, [Next]_vars PROVE Ledger'
  OBVIOUS
<1>o. Orderly'
  BY OrderlyNext DEF Ledger
<1>t. TypeOK /\ Typed /\ Placed /\ Told /\ Waiting /\ Open /\ Announced
  BY DEF Ledger, Orderly, Typed
<1> USE DEF agentVars, clientVars
<1>m. merged' = merged =>
        /\ \A c \in Calls, q \in Requests, i \in Nat : Mentions(c, q, i)' <=> Mentions(c, q, i)
        /\ \A q \in Requests, i \in Nat : Terminal(q, i)' <=> Terminal(q, i)
  BY DEF Mentions, Terminal
<1>r. \A r \in Requests : merged' = [merged EXCEPT ![r] = <<>>] =>
        /\ \A c \in Calls, q \in Requests, i \in Nat :
             Mentions(c, q, i)' <=> Mentions(c, q, i) /\ q # r
        /\ \A q \in Requests, i \in Nat : Terminal(q, i)' <=> Terminal(q, i) /\ q # r
  BY <1>t DEF Mentions, Terminal, Typed
<1>1. ASSUME NEW r \in Requests, Arrive(r) PROVE Ledger'
  <2>1. Told' /\ Waiting'
    BY <1>1, <1>m, <1>t, LessTold DEF Arrive, Waiting
  <2>2. Open'
    BY <1>1, <1>t DEF Arrive, Open
  <2>3. Announced'
    BY <1>1, <1>m, <1>t DEF Arrive, Announced, TypeOK
  <2> QED BY <1>o, <2>1, <2>2, <2>3 DEF Ledger
<1>2. ASSUME NEW r \in Requests, Refuse(r) PROVE Ledger'
  <2>1. Told' /\ Waiting'
    BY <1>2, <1>m, <1>t, LessTold DEF Refuse, Waiting
  <2>2. Open'
    BY <1>2, <1>t DEF Refuse, Open
  <2>3. Announced'
    BY <1>2, <1>m, <1>t DEF Refuse, Release, Announced, Placed, TypeOK
  <2> QED BY <1>o, <2>1, <2>2, <2>3 DEF Ledger
<1>3. ASSUME NEW r \in Requests, Abandon(r) PROVE Ledger'
  <2>1. Told' /\ Waiting'
    BY <1>3, <1>m, <1>t, LessTold DEF Abandon, Waiting
  <2>2. Open'
    BY <1>3, <1>t DEF Abandon, Open
  <2>3. Announced'
    BY <1>3, <1>m, <1>t DEF Abandon, Announced, TypeOK
  <2> QED BY <1>o, <2>1, <2>2, <2>3 DEF Ledger
<1>4. ASSUME NEW r \in Requests, Start(r) PROVE Ledger'
  <2>0. task[r] = "none"
    BY <1>4, <1>t DEF Start, Placed
  <2>1. Told' /\ Waiting'
    BY <1>4, <1>m, <1>t, LessTold DEF Start, Waiting
  <2>2. Open'
    BY <1>4, <1>t, <2>0 DEF Start, Open, Placed, TypeOK, Nobody, Requests
  <2>3. Announced'
    BY <1>4, <1>m, <1>t, <2>0 DEF Start, Announced, TypeOK
  <2> QED BY <1>o, <2>1, <2>2, <2>3 DEF Ledger
<1>5. ASSUME NEW r \in Requests, Leave(r) PROVE Ledger'
  <2>1. merged' = [merged EXCEPT ![r] = <<>>]
    BY <1>5 DEF Leave, Reset
  <2>2. Told' /\ Waiting'
    BY <1>5, <1>r, <1>t, <2>1, LessTold DEF Leave, Waiting
  <2>3. Open'
    BY <1>5, <1>t DEF Leave, Open
  <2>4. Announced'
    BY <1>5, <1>r, <1>t, <2>1 DEF Leave, Announced, TypeOK
  <2> QED BY <1>o, <2>2, <2>3, <2>4 DEF Ledger
<1>6. ASSUME NEW r \in Requests, NEW c \in Calls, CallStarts(r, c) PROVE Ledger'
  <2>1. Told' /\ Waiting'
    <3>1. Told' /\ \A d \in Calls : Untold(d) => Untold(d)'
      BY <1>6, <1>m, <1>t, LessTold DEF CallStarts
    <3>2. Waiting'
      BY <1>6, <1>t, <3>1 DEF CallStarts, Waiting, TypeOK, Nobody
    <3> QED BY <3>1, <3>2
  <2>2. Open'
    BY <1>6, <1>t DEF CallStarts, Runs, Open, TypeOK, Nobody, Requests
  <2>3. Announced'
    BY <1>6, <1>m, <1>t DEF CallStarts, Runs, Announced, TypeOK, Nobody, Requests
  <2> QED BY <1>o, <2>1, <2>2, <2>3 DEF Ledger
<1>7. ASSUME NEW r \in Requests, NEW c \in Calls, CallEnds(r, c) PROVE Ledger'
  <2> DEFINE S == {c}
             rest == <<>>
  <2>1. /\ Put(r, Results(S) \o rest) /\ S \in SUBSET Calls /\ results' = results
        /\ rest \in Seq(Events) /\ \A i \in 1..Len(rest) : rest[i].kind # "results"
    <3>1. Results({c}) \in Seq(Events)
      BY ResultsTypes
    <3>2. Results({c}) \o <<>> = Results({c})
      BY <3>1
    <3> QED BY <1>7, <3>2 DEF CallEnds
  <2>0. \A d : d \in S <=> d = c
    OBVIOUS
  <2> HIDE DEF S, rest
  <2>2. /\ \A d \in Calls, q \in Requests, i \in Nat :
             Mentions(d, q, i)' <=> \/ Mentions(d, q, i)
                                    \/ d \in S /\ q = r /\ i = Len(merged[r]) + 1
        /\ \A q \in Requests, i \in Nat : Terminal(q, i)' => Terminal(q, i)
        /\ Len(merged[r]) \in Nat
    <3>1. /\ \A d \in Calls, q \in Requests, i \in Nat :
               Mentions(d, q, i)' <=> \/ Mentions(d, q, i)
                                      \/ d \in S /\ q = r /\ i = Len(merged[r]) + 1
          /\ \A q \in Requests, i \in Nat : Terminal(q, i)' =>
               Terminal(q, i) \/ \E k \in 1..Len(rest) : rest[k].kind \in {"finished", "error"}
          /\ Len(merged[r]) \in Nat
      BY <1>t, <2>1, PutMentions
    <3> QED BY <3>1 DEF rest
  <2>3. Untold(c)
    BY <1>7, <1>t DEF CallEnds, Waiting
  <2>4. Told' /\ \A d \in Calls : Untold(d) /\ d \notin S => Untold(d)'
    BY <1>t, <2>0, <2>1, <2>3, PutTold
  <2>5. Waiting'
    BY <1>7, <1>t, <2>0, <2>4 DEF CallEnds, Runs, Waiting, Open, Nobody, Requests
  <2>6. Open'
    BY <1>7, <1>t DEF CallEnds, Runs, Open, TypeOK
  <2>7. Announced'
    BY <1>7, <1>t, <2>0, <2>2 DEF CallEnds, Announced, TypeOK
  <2> QED BY <1>o, <2>4, <2>5, <2>6, <2>7 DEF Ledger
<1>8. ASSUME NEW r \in Requests, NEW waits \in BOOLEAN, Finish(r, waits) PROVE Ledger'
  <2> DEFINE S == Closing(r, waits)
             kind == IF waits THEN "paused" ELSE "finished"
             rest == <<Event(kind, {})>>
  <2>1. S \in SUBSET Calls /\ (waits => S = {}) /\ (~waits => S = unresolved[r])
    BY <1>t DEF Closing, TypeOK
  <2>2. /\ rest \in Seq(Events) /\ \A i \in 1..Len(rest) : rest[i].kind = kind
        /\ kind # "results" /\ (waits => kind \notin {"finished", "error"})
    <3>1. Event(kind, {}) \in Events /\ Event(kind, {}).kind = kind
      BY EventTypes DEF Event
    <3>2. kind # "results" /\ (waits => kind \notin {"finished", "error"})
      OBVIOUS
    <3> HIDE DEF kind
    <3> QED BY <3>1, <3>2
  <2>3. Put(r, Results(S) \o rest) /\ results' = results
    BY <1>8 DEF Finish
  <2>4. runner = r /\ task[r] = "running"
    BY <1>8 DEF Finish, Runs
  <2>5. S \subseteq executing /\ \A c \in S : Untold(c) /\ by[c] # Nobody
    BY <1>t, <2>1, <2>4 DEF Open, Waiting
  <2> HIDE DEF S, kind, rest
  <2>6. /\ \A c \in Calls, q \in Requests, i \in Nat :
             Mentions(c, q, i)' <=> \/ Mentions(c, q, i)
                                    \/ c \in S /\ q = r /\ i = Len(merged[r]) + 1
        /\ \A q \in Requests, i \in Nat : Terminal(q, i)' =>
             \/ Terminal(q, i)
             \/ q = r /\ ~waits /\ i > Len(merged[r]) /\ (S # {} => i > Len(merged[r]) + 1)
        /\ Len(merged[r]) \in Nat
    <3>1. /\ \A c \in Calls, q \in Requests, i \in Nat :
               Mentions(c, q, i)' <=> \/ Mentions(c, q, i)
                                      \/ c \in S /\ q = r /\ i = Len(merged[r]) + 1
          /\ \A q \in Requests, i \in Nat : Terminal(q, i)' =>
               \/ Terminal(q, i)
               \/ /\ q = r /\ i > Len(merged[r]) /\ (S # {} => i > Len(merged[r]) + 1)
                  /\ \E k \in 1..Len(rest) : rest[k].kind \in {"finished", "error"}
          /\ Len(merged[r]) \in Nat
      BY <1>t, <2>1, <2>2, <2>3, PutMentions
    <3>2. waits => ~\E k \in 1..Len(rest) : rest[k].kind \in {"finished", "error"}
      BY <2>2
    <3> QED BY <3>1, <3>2
  <2>7. Told' /\ \A c \in Calls : Untold(c) /\ c \notin S => Untold(c)'
    BY <1>t, <2>1, <2>2, <2>3, <2>5, PutTold
  <2>8. Waiting'
    <3> SUFFICES ASSUME NEW c \in Calls, c \in executing' \cup paused' \/ by'[c] = Nobody
                 PROVE  Untold(c)'
      BY DEF Waiting
    <3>1. CASE waits
      BY <1>8, <1>t, <2>1, <2>7, <3>1 DEF Finish, Waiting
    <3>2. CASE ~waits
      <4>1. by[c] = Nobody
        BY <1>8, <3>2 DEF Finish
      <4> QED BY <1>t, <2>5, <2>7, <4>1 DEF Waiting
    <3> QED BY <3>1, <3>2
  <2>9. Open'
    <3>1. /\ runner' = Nobody /\ executing' = {} /\ paused' \subseteq executing /\ by' = by
          /\ task' = [task EXCEPT ![r] = "ending"]
          /\ \A q \in Requests : q # r => unresolved'[q] = unresolved[q]
      BY <1>8, <1>t DEF Finish, TypeOK
    <3>2. \A c \in Calls : by'[c] = Nobody => c \notin executing' \cup paused'
      BY <1>t, <3>1 DEF Open
    <3>3. ASSUME NEW q \in Requests
          PROVE  /\ task'[q] = "none" => unresolved'[q] = {}
                 /\ task'[q] = "running" =>
                      IF runner' = q THEN unresolved'[q] \subseteq executing'
                      ELSE unresolved'[q] = {}
      <4>1. CASE q = r
        BY <1>t, <3>1, <4>1 DEF TypeOK
      <4>2. CASE q # r
        BY <1>t, <2>4, <3>1, <4>2 DEF Open, TypeOK
      <4> QED BY <4>1, <4>2
    <3> QED BY <3>1, <3>2, <3>3 DEF Open
  <2>10. Announced'
    <3>1. /\ stage' = stage /\ ending' = ending /\ by' = by
          /\ task' = [task EXCEPT ![r] = "ending"]
          /\ \A q \in Requests : q # r => unresolved'[q] = unresolved[q]
      BY <1>8, <1>t DEF Finish, TypeOK
    <3>2. ASSUME NEW q \in Requests, NEW c \in Calls, by[c] = q, stage[q] = "streaming",
                 NEW i \in Nat, Terminal(q, i)'
          PROVE  results[c] = 1 \/ \E j \in Nat : j < i /\ Mentions(c, q, j)'
      <4>1. CASE Terminal(q, i)
        BY <1>t, <2>6, <3>2, <4>1 DEF Announced
      <4>2. CASE ~Terminal(q, i)
        <5>1. q = r /\ S = unresolved[r] /\ i > Len(merged[r])
              /\ (S # {} => i > Len(merged[r]) + 1)
          BY <2>1, <2>6, <3>2, <4>2
        <5>2. CASE c \in S
          <6>1. PICK n \in Nat : n = Len(merged[r]) + 1
            BY <2>6
          <6>2. Mentions(c, q, n)'
            BY <2>6, <5>1, <5>2, <6>1
          <6> QED BY <5>1, <5>2, <6>1, <6>2
        <5>3. CASE \E j \in Nat : Mentions(c, r, j)
          <6>1. PICK j \in Nat : Mentions(c, r, j)
            BY <5>3
          <6>2. j <= Len(merged[r])
            BY <2>6, <6>1 DEF Mentions
          <6> QED BY <2>6, <5>1, <6>1, <6>2
        <5>4. CASE results[c] = 1
          BY <5>4
        <5> QED BY <1>t, <2>4, <3>2, <5>1, <5>2, <5>3, <5>4 DEF Announced
      <4> QED BY <4>1, <4>2
    <3>3. \A q \in Requests, i \in Nat : Terminal(q, i)' => task'[q] \notin {"none", "running"}
      BY <1>t, <2>6, <3>1 DEF Announced, TypeOK
    <3>4. \A q \in Requests : task'[q] = "running" => q # r /\ task[q] = "running"
      BY <1>t, <3>1 DEF TypeOK
    <3>5. \A q \in Requests : task'[q] = "none" => task[q] = "none"
      BY <1>t, <3>1 DEF TypeOK
    <3> QED BY <1>t, <2>3, <2>6, <3>1, <3>2, <3>3, <3>4, <3>5 DEF Announced
  <2> QED BY <1>o, <2>7, <2>8, <2>9, <2>10 DEF Ledger
<1>9. ASSUME NEW r \in Requests, TaskEnds(r) PROVE Ledger'
  <2> DEFINE S == {}
             rest == <<DONE>>
  <2>1. rest \in Seq(Events) /\ \A i \in 1..Len(rest) : rest[i].kind = "done"
    <3>1. DONE \in Events /\ DONE.kind = "done"
      BY EventTypes DEF DONE, Event
    <3> QED BY <3>1
  <2>2. /\ Put(r, Results(S) \o rest) /\ results' = results
        /\ S \in SUBSET Calls /\ \A c : c \notin S
    <3>1. Put(r, rest) /\ results' = results
      BY <1>9 DEF TaskEnds
    <3> HIDE DEF rest
    <3>2. Results(S) \o rest = rest
      BY <2>1 DEF Results
    <3> QED BY <3>1, <3>2
  <2> HIDE DEF S, rest
  <2>3. /\ \A c \in Calls, q \in Requests, i \in Nat :
             Mentions(c, q, i)' <=> Mentions(c, q, i)
        /\ \A q \in Requests, i \in Nat : Terminal(q, i)' => Terminal(q, i)
    <3>1. /\ \A c \in Calls, q \in Requests, i \in Nat :
               Mentions(c, q, i)' <=> \/ Mentions(c, q, i)
                                      \/ c \in S /\ q = r /\ i = Len(merged[r]) + 1
          /\ \A q \in Requests, i \in Nat : Terminal(q, i)' =>
               Terminal(q, i) \/ \E k \in 1..Len(rest) : rest[k].kind \in {"finished", "error"}
      BY <1>t, <2>1, <2>2, PutMentions
    <3> QED BY <2>1, <2>2, <3>1
  <2>4. Told' /\ Waiting'
    BY <1>9, <1>t, <2>2, <2>3, LessTold DEF TaskEnds, Waiting
  <2>5. Open'
    BY <1>9, <1>t DEF TaskEnds, Open, TypeOK
  <2>6. Announced'
    BY <1>9, <1>t, <2>3 DEF TaskEnds, Announced, TypeOK
  <2> QED BY <1>o, <2>4, <2>5, <2>6 DEF Ledger
<1>10. ASSUME NEW r \in Requests, Fail(r) PROVE Ledger'
  <2> DEFINE S == unresolved[r]
             rest == <<Event("error", {}), DONE>>
  <2>1. S \in SUBSET Calls
    BY <1>t DEF TypeOK
  <2>2. rest \in Seq(Events) /\ \A i \in 1..Len(rest) : rest[i].kind # "results"
    <3>1. /\ Event("error", {}) \in Events /\ DONE \in Events
          /\ Event("error", {}).kind # "results" /\ DONE.kind # "results"
      BY EventTypes DEF DONE, Event
    <3> QED BY <3>1
  <2>3. Put(r, Results(S) \o rest) /\ results' = results /\ task[r] = "running"
    BY <1>10 DEF Fail
  <2>4. S # {} => runner = r
    BY <1>t, <2>3 DEF Open
  <2>5. \A c \in S : Untold(c) /\ by[c] # Nobody
    BY <1>t, <2>1, <2>3 DEF Open, Waiting
  <2> HIDE DEF S, rest
  <2>6. /\ \A c \in Calls, q \in Requests, i \in Nat :
             Mentions(c, q, i)' <=> \/ Mentions(c, q, i)
                                    \/ c \in S /\ q = r /\ i = Len(merged[r]) + 1
        /\ \A q \in Requests, i \in Nat : Terminal(q, i)' =>
             \/ Terminal(q, i)
             \/ q = r /\ i > Len(merged[r]) /\ (S # {} => i > Len(merged[r]) + 1)
        /\ Len(merged[r]) \in Nat
    BY <1>t, <2>1, <2>2, <2>3, PutMentions
  <2>7. Told' /\ \A c \in Calls : Untold(c) /\ c \notin S => Untold(c)'
    BY <1>t, <2>1, <2>2, <2>3, <2>5, PutTold
  <2>8. Waiting'
    <3> SUFFICES ASSUME NEW c \in Calls, c \in executing' \cup paused' \/ by'[c] = Nobody
                 PROVE  Untold(c)'
      BY DEF Waiting
    <3>1. by' = by
      BY <1>10 DEF Fail
    <3>2. CASE runner = r
      BY <1>10, <1>t, <2>5, <2>7, <3>1, <3>2 DEF Fail, Drop, Waiting, Open, Nobody, Requests
    <3>3. CASE runner # r
      BY <1>10, <1>t, <2>4, <2>7, <3>1, <3>3 DEF Fail, Drop, Waiting
    <3> QED BY <3>2, <3>3
  <2>9. Open'
    BY <1>10, <1>t, <2>3 DEF Fail, Drop, Open, TypeOK, Nobody, Requests
  <2>10. Announced'
    <3>1. /\ stage' = stage /\ ending' = ending /\ by' = by
          /\ task' = [task EXCEPT ![r] = "over"]
          /\ \A q \in Requests : q # r => unresolved'[q] = unresolved[q]
      BY <1>10, <1>t DEF Fail, TypeOK
    <3>2. ASSUME NEW q \in Requests, NEW c \in Calls, by[c] = q, stage[q] = "streaming",
                 NEW i \in Nat, Terminal(q, i)'
          PROVE  results[c] = 1 \/ \E j \in Nat : j < i /\ Mentions(c, q, j)'
      <4>1. CASE Terminal(q, i)
        BY <1>t, <2>6, <3>2, <4>1 DEF Announced
      <4>2. CASE ~Terminal(q, i)
        <5>1. q = r /\ S = unresolved[r] /\ i > Len(merged[r])
              /\ (S # {} => i > Len(merged[r]) + 1)
          BY <2>6, <3>2, <4>2 DEF S
        <5>2. CASE c \in S
          <6>1. PICK n \in Nat : n = Len(merged[r]) + 1
            BY <2>6
          <6>2. Mentions(c, q, n)'
            BY <2>6, <5>1, <5>2, <6>1
          <6> QED BY <5>1, <5>2, <6>1, <6>2
        <5>3. CASE \E j \in Nat : Mentions(c, r, j)
          <6>1. PICK j \in Nat : Mentions(c, r, j)
            BY <5>3
          <6>2. j <= Len(merged[r])
            BY <2>6, <6>1 DEF Mentions
          <6> QED BY <2>6, <5>1, <6>1, <6>2
        <5>4. CASE results[c] = 1
          BY <5>4
        <5> QED BY <1>t, <2>3, <3>2, <5>1, <5>2, <5>3, <5>4 DEF Announced
      <4> QED BY <4>1, <4>2
    <3>3. \A q \in Requests, i \in Nat : Terminal(q, i)' => task'[q] \notin {"none", "running"}
      BY <1>t, <2>6, <3>1 DEF Announced, TypeOK
    <3>4. \A q \in Requests : task'[q] = "running" => q # r /\ task[q] = "running"
      BY <1>t, <3>1 DEF TypeOK
    <3>5. \A q \in Requests : task'[q] = "none" => task[q] = "none"
      BY <1>t, <3>1 DEF TypeOK
    <3> QED BY <1>t, <2>3, <2>6, <3>1, <3>2, <3>3, <3>4, <3>5 DEF Announced
  <2> QED BY <1>o, <2>7, <2>8, <2>9, <2>10 DEF Ledger
<1>11. ASSUME NEW r \in Requests, Deliver(r) PROVE Ledger'
  <2> DEFINE e == Head(merged[r])
  <2>1. merged[r] # <<>> /\ merged' = [merged EXCEPT ![r] = Tail(@)]
    BY <1>11 DEF Deliver
  <2>2. /\ \A c \in Calls, q \in Requests, i \in Nat :
             Mentions(c, q, i)' <=> Mentions(c, q, IF q = r THEN i + 1 ELSE i) /\ i # 0
        /\ \A q \in Requests, i \in Nat :
             Terminal(q, i)' <=> Terminal(q, IF q = r THEN i + 1 ELSE i) /\ i # 0
    BY <1>t, <2>1, TakeMentions
  <2>3. /\ \A c \in Calls : Mentions(c, r, 1) <=> e.kind = "results" /\ c \in e.about
        /\ Terminal(r, 1) <=> e.kind \in {"finished", "error"}
        /\ \A c \in Calls, q \in Requests, i \in Nat : Mentions(c, q, i) => i # 0
        /\ \A q \in Requests, i \in Nat : Terminal(q, i) => i # 0
    <3>1. e = merged[r][1] /\ 1 \in 1..Len(merged[r])
      BY <1>t, <2>1 DEF Typed
    <3> HIDE DEF e
    <3> QED BY <3>1 DEF Mentions, Terminal
  <2>4. \A c \in Calls : results'[c] = IF Mentions(c, r, 1) THEN results[c] + 1 ELSE results[c]
    BY <1>11, <2>3 DEF Deliver
  <2>5. /\ stage' = stage /\ task' = task /\ unresolved' = unresolved /\ by' = by
        /\ stage[r] = "streaming" /\ agentVars' = agentVars
        /\ ending' = [ending EXCEPT ![r] =
                        IF e.kind \in {"finished", "paused", "error", "relayed"} THEN e.kind ELSE @]
    BY <1>11 DEF Deliver
  <2> HIDE DEF e
  <2>6. Told'
    <3> SUFFICES ASSUME NEW c \in Calls
                 PROVE  /\ results'[c] \in {0, 1}
                        /\ \A q, p \in Requests, i, j \in Nat :
                             Mentions(c, q, i)' =>
                               results'[c] = 0 /\ (Mentions(c, p, j)' => p = q /\ j = i)
      BY DEF Told
    <3>1. CASE Mentions(c, r, 1)
      <4>1. results[c] = 0 /\ \A q \in Requests, i \in Nat : Mentions(c, q, i) => q = r /\ i = 1
        BY <1>t, <3>1 DEF Told
      <4>2. \A q \in Requests, i \in Nat : ~Mentions(c, q, i)'
        BY <2>2, <2>3, <4>1
      <4> QED BY <2>4, <3>1, <4>1, <4>2
    <3>2. CASE ~Mentions(c, r, 1)
      <4>1. results'[c] = results[c] /\ results[c] \in {0, 1}
        BY <1>t, <2>4, <3>2 DEF Told
      <4>2. ASSUME NEW q \in Requests, NEW i \in Nat, Mentions(c, q, i)',
                   NEW p \in Requests, NEW j \in Nat
            PROVE  results[c] = 0 /\ (Mentions(c, p, j)' => p = q /\ j = i)
        <5> DEFINE k == IF q = r THEN i + 1 ELSE i
                   l == IF p = r THEN j + 1 ELSE j
        <5>1. k \in Nat /\ l \in Nat /\ Mentions(c, q, k) /\ (Mentions(c, p, j)' => Mentions(c, p, l))
          BY <2>2, <4>2
        <5>2. results[c] = 0 /\ (Mentions(c, p, l) => p = q /\ l = k)
          BY <1>t, <5>1 DEF Told
        <5>3. (p = q /\ l = k) => j = i
          OBVIOUS
        <5> HIDE DEF k, l
        <5> QED BY <5>1, <5>2, <5>3
      <4> QED BY <4>1, <4>2
    <3> QED BY <3>1, <3>2
  <2>7. Waiting'
    <3>1. ASSUME NEW c \in Calls, Untold(c) PROVE Untold(c)'
      <4>1. results[c] = 0 /\ \A q \in Requests, i \in Nat : ~Mentions(c, q, i)
        BY <3>1 DEF Untold
      <4>2. results'[c] = 0
        BY <2>4, <4>1
      <4>3. \A q \in Requests, i \in Nat : ~Mentions(c, q, i)'
        BY <2>2, <4>1
      <4> QED BY <4>2, <4>3 DEF Untold
    <3> QED BY <1>t, <2>5, <3>1 DEF Waiting
  <2>8. Open'
    BY <1>t, <2>5 DEF Open
  <2>9. Announced'
    <3>1. \A c \in Calls : results[c] = 1 => results'[c] = 1
      BY <1>t, <2>4 DEF Told
    <3>2. \A c \in Calls : Mentions(c, r, 1) => results'[c] = 1
      BY <1>t, <2>4 DEF Told
    <3>3. ASSUME NEW q \in Requests, NEW c \in Calls, NEW i \in Nat, Mentions(c, q, i)
          PROVE  results'[c] = 1 \/ \E j \in Nat : Mentions(c, q, j)' /\ j <= i /\ (q = r => j < i)
      <4>1. CASE q = r /\ i = 1
        BY <3>2, <3>3, <4>1
      <4>2. CASE q = r /\ i # 1
        <5>1. i - 1 \in Nat /\ i - 1 # 0 /\ (i - 1) + 1 = i
          BY <2>3, <3>3, <4>2
        <5>2. Mentions(c, q, i - 1)'
          BY <2>2, <3>3, <4>2, <5>1
        <5> QED BY <4>2, <5>1, <5>2
      <4>3. CASE q # r
        BY <2>2, <2>3, <3>3, <4>3
      <4> QED BY <4>1, <4>2, <4>3
    <3>4. \A q \in Requests, i \in Nat : Terminal(q, i)' => task'[q] \notin {"none", "running"}
      BY <1>t, <2>2, <2>5 DEF Announced
    <3>5. ASSUME NEW q \in Requests, NEW c \in Calls, by[c] = q, stage[q] = "streaming",
                 NEW i \in Nat, Terminal(q, i)'
          PROVE  results'[c] = 1 \/ \E j \in Nat : j < i /\ Mentions(c, q, j)'
      <4> DEFINE k == IF q = r THEN i + 1 ELSE i
      <4>1. k \in Nat /\ Terminal(q, k)
        BY <2>2, <3>5
      <4>2. results[c] = 1 \/ \E j \in Nat : j < k /\ Mentions(c, q, j)
        BY <1>t, <3>5, <4>1 DEF Announced
      <4>3. ASSUME NEW j \in Nat, j < k, Mentions(c, q, j)
            PROVE  results'[c] = 1 \/ \E l \in Nat : l < i /\ Mentions(c, q, l)'
        <5>1. CASE results'[c] = 1
          BY <5>1
        <5>2. CASE results'[c] # 1
          <6>1. PICK l \in Nat : Mentions(c, q, l)' /\ l <= j /\ (q = r => l < j)
            BY <3>3, <4>3, <5>2
          <6>2. l < i
            BY <4>3, <6>1
          <6> QED BY <6>1, <6>2
        <5> QED BY <5>1, <5>2
      <4> QED BY <3>1, <4>2, <4>3
    <3>6. ASSUME NEW q \in Requests, NEW c \in Calls, by[c] = q,
                 ending'[q] \in {"finished", "error"}
          PROVE  results'[c] = 1
      <4>1. CASE ending[q] \in {"finished", "error"}
        BY <1>t, <3>1, <3>6, <4>1 DEF Announced
      <4>2. CASE ~(ending[q] \in {"finished", "error"})
        <5>1. q = r /\ e.kind \in {"finished", "error"}
          BY <1>t, <2>5, <3>6, <4>2 DEF TypeOK
        <5>2. Terminal(r, 1)
          BY <2>3, <5>1
        <5>3. results[c] = 1 \/ \E j \in Nat : j < 1 /\ Mentions(c, r, j)
          BY <1>t, <2>5, <3>6, <5>1, <5>2 DEF Announced
        <5> QED BY <2>3, <3>1, <5>3
      <4> QED BY <4>1, <4>2
    <3>7. \A q \in Requests : ending'[q] \in {"finished", "error"} => task[q] # "running"
      <4>1. e.kind \in {"finished", "error"} => task[r] # "running"
        BY <1>t, <2>3 DEF Announced
      <4> QED BY <1>t, <2>5, <4>1 DEF Announced, TypeOK
    <3>8. \A q \in Requests : stage[q] \in {"none", "bound"} => ending'[q] = "none"
      BY <1>t, <2>5 DEF Announced, TypeOK
    <3>9. ASSUME NEW q \in Requests, NEW c \in Calls, by[c] = q, stage[q] = "streaming",
                 task[q] = "running"
          PROVE  c \in unresolved[q] \/ results'[c] = 1 \/ \E i \in Nat : Mentions(c, q, i)'
      BY <1>t, <3>1, <3>3, <3>9 DEF Announced
    <3>10. \A q \in Requests, c \in Calls : by[c] = q => task[q] # "none"
      BY <1>t DEF Announced
    <3> QED BY <2>5, <3>4, <3>5, <3>6, <3>7, <3>8, <3>9, <3>10 DEF Announced
  <2> QED BY <1>o, <2>6, <2>7, <2>8, <2>9 DEF Ledger
<1>12. ASSUME NEW r \in Requests, Close(r) PROVE Ledger'
  <2>1. merged' = [merged EXCEPT ![r] = <<>>]
    BY <1>12 DEF Close, Reset
  <2>2. Told' /\ Waiting'
    BY <1>12, <1>r, <1>t, <2>1, LessTold DEF Close, Waiting
  <2>3. Open'
    BY <1>12, <1>t DEF Close, Open
  <2>4. Announced'
    <3>1. /\ stage' = [stage EXCEPT ![r] = "released"] /\ task' = task /\ by' = by
          /\ unresolved' = unresolved /\ ending' = ending /\ results' = results
      BY <1>12 DEF Close, Release
    <3>2. /\ \A c \in Calls, q \in Requests, i \in Nat :
               Mentions(c, q, i)' <=> Mentions(c, q, i) /\ q # r
          /\ \A q \in Requests, i \in Nat : Terminal(q, i)' <=> Terminal(q, i) /\ q # r
      BY <1>r, <2>1
    <3> QED BY <1>t, <3>1, <3>2 DEF Announced, TypeOK
  <2> QED BY <1>o, <2>2, <2>3, <2>4 DEF Ledger
<1>13. ASSUME NEW r \in Requests, Unwind(r) PROVE Ledger'
  <2>1. merged' = [merged EXCEPT ![r] = <<>>]
    BY <1>13 DEF Unwind, Reset
  <2>2. Told' /\ Waiting'
    <3>1. Told' /\ \A c \in Calls : Untold(c) => Untold(c)'
      BY <1>13, <1>r, <1>t, <2>1, LessTold DEF Unwind
    <3>2. Waiting'
      BY <1>13, <1>t, <3>1 DEF Unwind, Drop, Waiting
    <3> QED BY <3>1, <3>2
  <2>3. Open'
    BY <1>13, <1>t DEF Unwind, Drop, Reset, Open, TypeOK, Nobody, Requests
  <2>4. Announced'
    <3>1. /\ stage' = [stage EXCEPT ![r] = "released"] /\ task' = [task EXCEPT ![r] = "over"]
          /\ by' = by /\ ending' = ending /\ results' = results
          /\ unresolved' = [unresolved EXCEPT ![r] = {}]
      BY <1>13 DEF Unwind, Release, Reset, clientVars
    <3>2. /\ \A c \in Calls, q \in Requests, i \in Nat :
               Mentions(c, q, i)' <=> Mentions(c, q, i) /\ q # r
          /\ \A q \in Requests, i \in Nat : Terminal(q, i)' <=> Terminal(q, i) /\ q # r
      BY <1>r, <2>1
    <3> QED BY <1>t, <3>1, <3>2 DEF Announced, TypeOK
  <2> QED BY <1>o, <2>2, <2>3, <2>4 DEF Ledger
<1>14. ASSUME NEW s \in Subs, NEW ends \in BOOLEAN, Publish(s, ends) PROVE Ledger'
  <2>1. /\ \A c \in Calls, q \in Requests, i \in Nat :
             Mentions(c, q, i)' <=> Mentions(c, q, i)
        /\ \A q \in Requests, i \in Nat : Terminal(q, i)' => Terminal(q, i)
    <3>1. CASE merged' = merged
      BY <1>m, <3>1
    <3>2. CASE merged' # merged
      <4>1. sink \in Requests /\ Translate(sink, s, ends)
        BY <1>14, <1>t, <3>2 DEF Publish, TypeOK, Nobody
      <4> DEFINE rest == IF ends THEN <<Event("closed", {s})>>
                         ELSE IF s \in segments[sink] THEN <<>>
                         ELSE <<Event("opened", {s})>>
      <4>2. /\ rest \in Seq(Events)
            /\ \A i \in 1..Len(rest) : rest[i].kind \in {"opened", "closed"}
        <5>1. /\ Event("closed", {s}) \in Events /\ Event("opened", {s}) \in Events
              /\ Event("closed", {s}).kind = "closed" /\ Event("opened", {s}).kind = "opened"
          BY EventTypes DEF Event
        <5>2. CASE ends
          BY <5>1, <5>2
        <5>3. CASE ~ends /\ s \in segments[sink]
          BY <5>3
        <5>4. CASE ~ends /\ s \notin segments[sink]
          BY <5>1, <5>4
        <5> QED BY <5>2, <5>3, <5>4
      <4>3. Put(sink, rest)
        BY <3>2, <4>1 DEF Translate
      <4> HIDE DEF rest
      <4> DEFINE S == {}
      <4>4. Put(sink, Results(S) \o rest) /\ S \in SUBSET Calls /\ \A c : c \notin S
        <5>1. Results({}) \o rest = rest
          BY <4>2 DEF Results
        <5> QED BY <4>3, <5>1
      <4> HIDE DEF S
      <4>5. /\ \A c \in Calls, q \in Requests, i \in Nat :
                 Mentions(c, q, i)' <=> \/ Mentions(c, q, i)
                                        \/ c \in S /\ q = sink /\ i = Len(merged[sink]) + 1
            /\ \A q \in Requests, i \in Nat : Terminal(q, i)' =>
                 Terminal(q, i) \/ \E k \in 1..Len(rest) : rest[k].kind \in {"finished", "error"}
        BY <1>t, <4>1, <4>2, <4>4, PutMentions
      <4> QED BY <4>2, <4>4, <4>5
    <3> QED BY <3>1, <3>2
  <2>2. Told' /\ Waiting'
    BY <1>14, <1>t, <2>1, LessTold DEF Publish, Waiting
  <2>3. Open'
    BY <1>14, <1>t DEF Publish, Open
  <2>4. Announced'
    BY <1>14, <1>t, <2>1 DEF Publish, Announced
  <2> QED BY <1>o, <2>2, <2>3, <2>4 DEF Ledger
<1>15. ASSUME NEW r \in Requests, Relay(r) PROVE Ledger'
  <2> DEFINE S == {}
             rest == <<Event("relayed", {})>>
  <2>1. rest \in Seq(Events) /\ \A i \in 1..Len(rest) : rest[i].kind = "relayed"
    <3>1. Event("relayed", {}) \in Events /\ Event("relayed", {}).kind = "relayed"
      BY EventTypes DEF Event
    <3> QED BY <3>1
  <2>2. /\ Put(r, Results(S) \o rest) /\ results' = results
        /\ S \in SUBSET Calls /\ \A c : c \notin S
    <3>1. Put(r, rest) /\ results' = results
      BY <1>15 DEF Relay
    <3> HIDE DEF rest
    <3>2. Results(S) \o rest = rest
      BY <2>1 DEF Results
    <3> QED BY <3>1, <3>2
  <2> HIDE DEF S, rest
  <2>3. /\ \A c \in Calls, q \in Requests, i \in Nat :
             Mentions(c, q, i)' <=> Mentions(c, q, i)
        /\ \A q \in Requests, i \in Nat : Terminal(q, i)' => Terminal(q, i)
    <3>1. /\ \A c \in Calls, q \in Requests, i \in Nat :
               Mentions(c, q, i)' <=> \/ Mentions(c, q, i)
                                      \/ c \in S /\ q = r /\ i = Len(merged[r]) + 1
          /\ \A q \in Requests, i \in Nat : Terminal(q, i)' =>
               Terminal(q, i) \/ \E k \in 1..Len(rest) : rest[k].kind \in {"finished", "error"}
      BY <1>t, <2>1, <2>2, PutMentions
    <3> QED BY <2>1, <2>2, <3>1
  <2>4. /\ task[r] = "running" /\ task' = [task EXCEPT ![r] = "ending"]
        /\ UNCHANGED <<stage, unresolved, by, ending>>
        /\ runner' = (IF runner = r THEN Nobody ELSE runner)
        /\ executing' = (IF runner = r THEN {} ELSE executing) /\ paused' = paused
    BY <1>15 DEF Relay, Drop
  <2>5. Told' /\ Waiting'
    BY <1>t, <2>2, <2>3, <2>4, LessTold DEF Waiting
  <2>6. Open'
    <3>1. runner' # Nobody => paused' = {}
      BY <1>t, <2>4 DEF Open
    <3>2. \A c \in Calls : by'[c] = Nobody => c \notin executing' \cup paused'
      BY <1>t, <2>4 DEF Open
    <3>3. ASSUME NEW q \in Requests
          PROVE  /\ task'[q] = "none" => unresolved'[q] = {}
                 /\ task'[q] = "running" =>
                      IF runner' = q THEN unresolved'[q] \subseteq executing'
                      ELSE unresolved'[q] = {}
      <4>1. CASE q = r
        BY <1>t, <2>4, <4>1 DEF TypeOK
      <4>2. CASE q # r
        <5>1. task'[q] = task[q] /\ unresolved'[q] = unresolved[q] /\ q # Nobody
          BY <1>t, <2>4, <4>2 DEF TypeOK, Requests, Nobody
        <5> QED BY <1>t, <2>4, <4>2, <5>1 DEF Open
      <4> QED BY <4>1, <4>2
    <3> QED BY <3>1, <3>2, <3>3 DEF Open
  <2>7. Announced'
    <3>1. \A q \in Requests : /\ task'[q] = "running" => task[q] = "running"
                              /\ task'[q] = "none" => task[q] = "none"
      BY <1>t, <2>4 DEF TypeOK
    <3> QED BY <1>t, <2>2, <2>3, <2>4, <3>1 DEF Announced
  <2> QED BY <1>o, <2>5, <2>6, <2>7 DEF Ledger
<1>16. CASE UNCHANGED vars
  BY <1>16, <1>o, <1>m, <1>t DEF vars, Ledger, Told, Waiting, Untold, Open, Announced
<1> QED
  BY <1>1, <1>2, <1>3, <1>4, <1>5, <1>6, <1>7, <1>8, <1>9, <1>10, <1>11, <1>12, <1>13,
     <1>14, <1>15, <1>16 DEF Next, Server, Ends

-----------------------------------------------------------------------------
(* What the client is shown.                                               *)

\* An event on a queue, and what it does to the invocations shown.
At(e, r, i) == i \in 1..Len(merged[r]) /\ merged[r][i] = e
Opens(s, r, i) == \E e \in Events : At(e, r, i) /\ e.kind = "opened" /\ s \in e.about
Shuts(s, r, i) == \E e \in Events : At(e, r, i) /\ e.kind = "closed" /\ s \in e.about
Last(r, i) == \E e \in Events : At(e, r, i) /\ e.kind \in {"finished", "paused"}

\* The client was told that the run finished or paused.
ToldOver(r) == ending[r] \in {"finished", "paused"}

\* A response that has not started has nothing for its client.
Fresh(r) == stage[r] \in {"none", "bound"} => merged[r] = <<>> /\ shown[r] = {}

\* Once a run's end is on its queue its task is past it, and no event of an
\* invocation follows.
EndIsLast(r) ==
  /\ \A i \in Nat : Last(r, i) =>
       /\ task[r] \notin {"none", "running"}
       /\ \A s \in Subs, j \in Nat : j > i => ~Opens(s, r, j) /\ ~Shuts(s, r, j)
  /\ ToldOver(r) =>
       task[r] \notin {"none", "running"} /\ \A s \in Subs, i \in Nat : ~Opens(s, r, i)

\* What the client has open, or is about to, is open in the response too, unless
\* its end is on the way.
Matched(r) ==
  \A s \in Subs :
    /\ s \in shown[r] => s \in segments[r] \/ \E j \in Nat : Shuts(s, r, j)
    /\ \A i \in Nat : Opens(s, r, i) =>
         s \in segments[r] \/ \E j \in Nat : j > i /\ Shuts(s, r, j)

Tidy ==
  ~overlapped =>
    \A r \in Requests :
      /\ Fresh(r)
      /\ ToldOver(r) => shown[r] = {}
      /\ stage[r] = "streaming" => EndIsLast(r) /\ Matched(r)

\* What a put does to the queues.
LEMMA PutAt ==
  ASSUME Typed, NEW r \in Requests, NEW events \in Seq(Events), Put(r, events)
  PROVE  /\ Len(merged[r]) \in Nat
         /\ \A q \in Requests : q # r => merged'[q] = merged[q]
         /\ \A e : \A q \in Requests, i \in Nat :
              At(e, q, i)' <=>
                \/ At(e, q, i)
                \/ q = r /\ \E k \in 1..Len(events) : i = Len(merged[r]) + k /\ e = events[k]
<1> DEFINE m == merged[r]
<1>1. m \in Seq(Events) /\ Len(m) \in Nat /\ Len(events) \in Nat
  BY DEF Typed
<1>2. \A q \in Requests : merged'[q] = IF q = r THEN m \o events ELSE merged[q]
  BY DEF Put, Typed
<1>3. /\ m \o events \in Seq(Events) /\ Len(m \o events) = Len(m) + Len(events)
      /\ \A i \in 1..Len(m) : (m \o events)[i] = m[i]
      /\ \A k \in 1..Len(events) : (m \o events)[Len(m) + k] = events[k]
  BY <1>1
<1>4. m = merged[r]
  OBVIOUS
<1> HIDE DEF m
<1>5. ASSUME NEW i \in Nat, i \notin 1..Len(m), i \in 1..Len(m \o events)
      PROVE  \E k \in 1..Len(events) : i = Len(m) + k
  <2>1. i - Len(m) \in 1..Len(events) /\ i = Len(m) + (i - Len(m))
    BY <1>1, <1>3, <1>5
  <2> QED BY <2>1
<1>6. ASSUME NEW e, NEW i \in Nat
      PROVE  (i \in 1..Len(m \o events) /\ (m \o events)[i] = e)
             <=> \/ i \in 1..Len(m) /\ m[i] = e
                 \/ \E k \in 1..Len(events) : i = Len(m) + k /\ e = events[k]
  <2>1. CASE i \in 1..Len(m)
    BY <1>1, <1>3, <2>1
  <2>2. CASE i \notin 1..Len(m)
    <3>1. ASSUME NEW k \in 1..Len(events), i = Len(m) + k
          PROVE  i \in 1..Len(m \o events) /\ (m \o events)[i] = events[k]
      BY <1>1, <1>3, <3>1
    <3> QED BY <1>5, <2>2, <3>1
  <2> QED BY <2>1, <2>2
<1>7. ASSUME NEW e, NEW q \in Requests, NEW i \in Nat
      PROVE  At(e, q, i)' <=>
               \/ At(e, q, i)
               \/ q = r /\ \E k \in 1..Len(events) : i = Len(merged[r]) + k /\ e = events[k]
  <2>1. CASE q # r
    BY <1>2, <2>1 DEF At
  <2>2. CASE q = r
    <3>1. At(e, q, i)' <=> i \in 1..Len(m \o events) /\ (m \o events)[i] = e
      BY <1>2, <2>2 DEF At
    <3>2. At(e, q, i) <=> i \in 1..Len(m) /\ m[i] = e
      BY <1>4, <2>2 DEF At
    <3>3. At(e, q, i)' <=>
            At(e, q, i) \/ \E k \in 1..Len(events) : i = Len(m) + k /\ e = events[k]
      BY <1>6, <3>1, <3>2
    <3> QED BY <1>4, <2>2, <3>3
  <2> QED BY <2>1, <2>2
<1> QED BY <1>1, <1>2, <1>4, <1>7

\* What taking its first event does to a queue.
LEMMA TakeAt ==
  ASSUME Typed, NEW r \in Requests, merged[r] # <<>>, merged' = [merged EXCEPT ![r] = Tail(@)]
  PROVE  \A e : \A q \in Requests, i \in Nat :
           At(e, q, i)' <=> At(e, q, IF q = r THEN i + 1 ELSE i) /\ i # 0
<1> DEFINE m == merged[r]
<1>1. m \in Seq(Events) /\ m # <<>> /\ Len(m) \in Nat
  BY DEF Typed
<1>2. Len(Tail(m)) = Len(m) - 1 /\ \A i \in 1..Len(Tail(m)) : Tail(m)[i] = m[i + 1]
  BY <1>1
<1>3. \A q \in Requests : merged'[q] = IF q = r THEN Tail(m) ELSE merged[q]
  BY DEF Typed
<1>4. \A i \in Nat : i \in 1..Len(Tail(m)) <=> i + 1 \in 1..Len(m) /\ i # 0
  BY <1>1, <1>2
<1>5. m = merged[r]
  OBVIOUS
<1> HIDE DEF m
<1> SUFFICES ASSUME NEW e, NEW q \in Requests, NEW i \in Nat
             PROVE  At(e, q, i)' <=> At(e, q, IF q = r THEN i + 1 ELSE i) /\ i # 0
  OBVIOUS
<1>6. CASE q = r
  BY <1>2, <1>3, <1>4, <1>5, <1>6 DEF At
<1>7. CASE q # r
  BY <1>3, <1>7 DEF At
<1> QED BY <1>6, <1>7

LEMMA PutOne ==
  ASSUME Typed, NEW r \in Requests, NEW e \in Events, Put(r, <<e>>)
  PROVE  /\ Len(merged[r]) \in Nat
         /\ \A q \in Requests : q # r => merged'[q] = merged[q]
         /\ \A d : \A q \in Requests, i \in Nat :
              At(d, q, i)' <=> At(d, q, i) \/ (q = r /\ i = Len(merged[r]) + 1 /\ d = e)
<1>1. <<e>> \in Seq(Events) /\ Len(<<e>>) = 1 /\ <<e>>[1] = e
  OBVIOUS
<1>2. PICK new \in Seq(Events) : new = <<e>>
  BY <1>1
<1>3. 1..Len(new) = {1} /\ new[1] = e
  BY <1>1, <1>2
<1>4. Put(r, new)
  BY <1>2
<1>5. /\ Len(merged[r]) \in Nat
      /\ \A q \in Requests : q # r => merged'[q] = merged[q]
      /\ \A d : \A q \in Requests, i \in Nat :
           At(d, q, i)' <=>
             \/ At(d, q, i)
             \/ q = r /\ \E k \in 1..Len(new) : i = Len(merged[r]) + k /\ d = new[k]
  BY <1>4, PutAt
<1> QED BY <1>3, <1>5

\* What an invocation's event adds to a response's queue.
LEMMA Translated ==
  ASSUME Typed, NEW r \in Requests, NEW s \in Subs, NEW ends \in BOOLEAN,
         Translate(r, s, ends), ~UNCHANGED <<segments, merged>>
  PROVE  /\ segments' = [segments EXCEPT ![r] = IF ends THEN @ \ {s} ELSE @ \cup {s}]
         /\ Len(merged[r]) \in Nat
         /\ \A q \in Requests : q # r => merged'[q] = merged[q]
         /\ \A e : \A i \in Nat : At(e, r, i) => At(e, r, i)'
         /\ ends => \E e \in Events : /\ e.kind = "closed" /\ s \in e.about
                                      /\ \A i \in Nat : i = Len(merged[r]) + 1 => At(e, r, i)'
         /\ \A e \in Events, i \in Nat : At(e, r, i)' /\ ~At(e, r, i) =>
              /\ e.kind \in {"opened", "closed"}
              /\ e.kind = "opened" => ~ends /\ e.about = {s}
<1>1. segments' = [segments EXCEPT ![r] = IF ends THEN @ \ {s} ELSE @ \cup {s}]
  BY DEF Translate
<1>2. PICK c \in Events : c = Event("closed", {s})
  BY EventTypes
<1>3. PICK o \in Events : o = Event("opened", {s})
  BY EventTypes
<1>4. c.kind = "closed" /\ s \in c.about /\ o.kind = "opened" /\ o.about = {s}
  BY <1>2, <1>3 DEF Event
<1>5. CASE ends
  <2>1. Put(r, <<c>>)
    BY <1>2, <1>5 DEF Translate
  <2>2. /\ Len(merged[r]) \in Nat
        /\ \A q \in Requests : q # r => merged'[q] = merged[q]
        /\ \A d : \A q \in Requests, i \in Nat :
             At(d, q, i)' <=> At(d, q, i) \/ (q = r /\ i = Len(merged[r]) + 1 /\ d = c)
    BY <2>1, PutOne
  <2>3. \A i \in Nat : i = Len(merged[r]) + 1 => At(c, r, i)'
    BY <2>2
  <2>4. \A e \in Events, i \in Nat : At(e, r, i)' /\ ~At(e, r, i) => e.kind = "closed"
    BY <1>4, <2>2
  <2>5. \A e : \A i \in Nat : At(e, r, i) => At(e, r, i)'
    BY <2>2
  <2> QED BY <1>1, <1>4, <2>2, <2>3, <2>4, <2>5
<1>6. CASE ~ends /\ s \in segments[r]
  <2>1. Put(r, <<>>)
    BY <1>6 DEF Translate
  <2>2. merged' = merged /\ Len(merged[r]) \in Nat
    BY <2>1 DEF Put, Typed
  <2> QED BY <1>1, <1>6, <2>2 DEF At
<1>7. CASE ~ends /\ s \notin segments[r]
  <2>1. Put(r, <<o>>)
    BY <1>3, <1>7 DEF Translate
  <2>2. /\ Len(merged[r]) \in Nat
        /\ \A q \in Requests : q # r => merged'[q] = merged[q]
        /\ \A d : \A q \in Requests, i \in Nat :
             At(d, q, i)' <=> At(d, q, i) \/ (q = r /\ i = Len(merged[r]) + 1 /\ d = o)
    BY <2>1, PutOne
  <2>3. \A e \in Events, i \in Nat : At(e, r, i)' /\ ~At(e, r, i) =>
          e.kind = "opened" /\ e.about = {s}
    BY <1>4, <2>2
  <2> QED BY <1>1, <1>7, <2>2, <2>3
<1> QED BY <1>5, <1>6, <1>7

LEMMA ResultsKind ==
  ASSUME NEW some \in SUBSET Calls
  PROVE  /\ Results(some) \in Seq(Events)
         /\ \A k \in 1..Len(Results(some)) : Results(some)[k].kind = "results"
<1>1. Event("results", some).kind = "results"
  BY DEF Event
<1>2. /\ Results(some) \in Seq(Events)
      /\ \A k \in 1..Len(Results(some)) : Results(some)[k] = Event("results", some)
  BY ResultsTypes
<1>3. ASSUME NEW k \in 1..Len(Results(some)) PROVE Results(some)[k].kind = "results"
  <2>1. Results(some)[k] = Event("results", some)
    BY <1>2
  <2> QED BY <1>1, <2>1
<1> QED BY <1>2, <1>3

\* Putting events that are about no invocation keeps the client's account, if what
\* ends the run goes out with the task past it.
LEMMA QuietPut ==
  ASSUME Typed, Tidy, NEW r \in Requests, NEW events \in Seq(Events), Put(r, events),
         \A k \in 1..Len(events) : events[k].kind \notin {"opened", "closed"},
         (\E k \in 1..Len(events) : events[k].kind \in {"finished", "paused"}) =>
           task'[r] \notin {"none", "running"},
         stage[r] \notin {"none", "bound"},
         \A q \in Requests :
           task[q] \notin {"none", "running"} => task'[q] \notin {"none", "running"},
         UNCHANGED <<stage, segments, shown, ending, overlapped>>
  PROVE  Tidy'
<1> SUFFICES ASSUME ~overlapped, NEW q \in Requests
             PROVE  /\ Fresh(q)' /\ (ToldOver(q)' => shown'[q] = {})
                    /\ stage'[q] = "streaming" => EndIsLast(q)' /\ Matched(q)'
  BY DEF Tidy
<1>1. /\ Len(merged[r]) \in Nat
      /\ \A p \in Requests : p # r => merged'[p] = merged[p]
      /\ \A e : \A p \in Requests, i \in Nat :
           At(e, p, i)' <=>
             \/ At(e, p, i)
             \/ p = r /\ \E k \in 1..Len(events) : i = Len(merged[r]) + k /\ e = events[k]
  BY PutAt
<1>2. \A s \in Subs, i \in Nat : (Opens(s, q, i)' <=> Opens(s, q, i))
                                 /\ (Shuts(s, q, i)' <=> Shuts(s, q, i))
  <2> SUFFICES ASSUME NEW s \in Subs, NEW i \in Nat
               PROVE  (Opens(s, q, i)' <=> Opens(s, q, i)) /\ (Shuts(s, q, i)' <=> Shuts(s, q, i))
    OBVIOUS
  <2>1. \A e \in Events : e.kind \in {"opened", "closed"} => (At(e, q, i)' <=> At(e, q, i))
    BY <1>1
  <2> QED BY <2>1 DEF Opens, Shuts
<1>3. ASSUME NEW i \in Nat, Last(q, i)', ~Last(q, i)
      PROVE  q = r /\ i > Len(merged[r]) /\ task'[r] \notin {"none", "running"}
  <2>1. PICK e \in Events : At(e, q, i)' /\ e.kind \in {"finished", "paused"}
    BY <1>3 DEF Last
  <2>2. ~At(e, q, i)
    BY <1>3, <2>1 DEF Last
  <2>3. q = r /\ \E k \in 1..Len(events) : i = Len(merged[r]) + k /\ e = events[k]
    BY <1>1, <2>1, <2>2
  <2>4. PICK k \in 1..Len(events) : i = Len(merged[r]) + k /\ e = events[k]
    BY <2>3
  <2>5. i > Len(merged[r])
    BY <1>1, <2>4
  <2> QED BY <2>1, <2>3, <2>4, <2>5
<1>4. \A s \in Subs, j \in Nat : Opens(s, q, j) \/ Shuts(s, q, j) => j <= Len(merged[q])
  BY DEF Opens, Shuts, At
<1>5. Len(merged[q]) \in Nat
  BY DEF Typed
<1>6. Fresh(q)' /\ (ToldOver(q)' => shown'[q] = {})
  BY <1>1 DEF Tidy, Fresh, ToldOver
<1>7. ASSUME stage[q] = "streaming" PROVE EndIsLast(q)' /\ Matched(q)'
  <2>1. EndIsLast(q) /\ Matched(q)
    BY <1>7 DEF Tidy
  <2>2. ASSUME NEW i \in Nat, Last(q, i)'
        PROVE  /\ task'[q] \notin {"none", "running"}
               /\ \A s \in Subs, j \in Nat : j > i => ~Opens(s, q, j) /\ ~Shuts(s, q, j)
    <3>1. CASE Last(q, i)
      BY <2>1, <3>1 DEF EndIsLast
    <3>2. CASE q = r /\ i > Len(merged[r]) /\ task'[r] \notin {"none", "running"}
      BY <1>4, <1>5, <3>2
    <3> QED BY <1>3, <2>2, <3>1, <3>2
  <2>3. ToldOver(q)' => /\ task'[q] \notin {"none", "running"}
                        /\ \A s \in Subs, i \in Nat : ~Opens(s, q, i)
    BY <2>1 DEF EndIsLast, ToldOver
  <2>4. EndIsLast(q)'
    BY <1>2, <2>2, <2>3 DEF EndIsLast
  <2>5. Matched(q)'
    BY <1>2, <2>1 DEF Matched
  <2> QED BY <2>4, <2>5
<1> QED BY <1>6, <1>7

\* A step that leaves the queues, and who is shown what, keeps it too.
LEMMA StillTidy ==
  ASSUME Tidy, UNCHANGED <<merged, shown, segments, ending>>, overlapped => overlapped',
         \A q \in Requests :
           /\ stage'[q] \in {"none", "bound"} => stage[q] \in {"none", "bound"}
           /\ stage'[q] = "streaming" => stage[q] = "streaming"
           /\ task[q] \notin {"none", "running"} => task'[q] \notin {"none", "running"}
  PROVE  Tidy'
<1>1. \A s \in Subs, q \in Requests, i \in Nat :
        (Opens(s, q, i)' <=> Opens(s, q, i)) /\ (Shuts(s, q, i)' <=> Shuts(s, q, i))
  BY DEF Opens, Shuts, At
<1>2. \A q \in Requests, i \in Nat : Last(q, i)' <=> Last(q, i)
  BY DEF Last, At
<1>3. \A q \in Requests : Fresh(q) => Fresh(q)'
  BY DEF Fresh
<1>4. \A q \in Requests : EndIsLast(q) => EndIsLast(q)'
  BY <1>1, <1>2 DEF EndIsLast, ToldOver
<1>5. \A q \in Requests : Matched(q) => Matched(q)'
  BY <1>1 DEF Matched
<1> QED BY <1>3, <1>4, <1>5 DEF Tidy, ToldOver

\* So does one that ends a response, whatever it takes off that one's queue.
LEMMA EndTidy ==
  ASSUME Typed, Tidy, NEW r \in Requests, stage'[r] \notin {"none", "bound", "streaming"},
         \A q \in Requests : q # r =>
           /\ merged'[q] = merged[q] /\ segments'[q] = segments[q] /\ stage'[q] = stage[q]
           /\ task'[q] = task[q] /\ ending'[q] = ending[q],
         ending'[r] = ending[r] \/ ending'[r] = "error",
         shown' = shown, overlapped' = overlapped
  PROVE  Tidy'
<1> SUFFICES ASSUME ~overlapped, NEW q \in Requests
             PROVE  /\ Fresh(q)' /\ (ToldOver(q)' => shown'[q] = {})
                    /\ stage'[q] = "streaming" => EndIsLast(q)' /\ Matched(q)'
  BY DEF Tidy
<1>1. CASE q = r
  BY <1>1 DEF Tidy, Fresh, ToldOver
<1>2. CASE q # r
  <2>1. \A s \in Subs, i \in Nat :
          (Opens(s, q, i)' <=> Opens(s, q, i)) /\ (Shuts(s, q, i)' <=> Shuts(s, q, i))
    BY <1>2 DEF Opens, Shuts, At
  <2>2. \A i \in Nat : Last(q, i)' <=> Last(q, i)
    BY <1>2 DEF Last, At
  <2>3. Fresh(q)' /\ (ToldOver(q)' => shown'[q] = {})
    BY <1>2 DEF Tidy, Fresh, ToldOver
  <2>4. EndIsLast(q) => EndIsLast(q)'
    BY <1>2, <2>1, <2>2 DEF EndIsLast, ToldOver
  <2>5. Matched(q) => Matched(q)'
    BY <1>2, <2>1 DEF Matched
  <2> QED BY <1>2, <2>3, <2>4, <2>5 DEF Tidy
<1> QED BY <1>1, <1>2

LEMMA TidyInit == Init => Tidy
<1> SUFFICES ASSUME Init PROVE Tidy
  OBVIOUS
<1> QED BY DEF Init, Tidy, Fresh, ToldOver

LEMMA TidyNext == Ledger /\ Tidy /\ [Next]_vars => Tidy'
<1> SUFFICES ASSUME Ledger, Tidy, [Next]_vars PROVE Tidy'
  OBVIOUS
<1>t. TypeOK /\ Typed /\ EndsMarked /\ Placed /\ OneSink /\ Announced
  BY DEF Ledger, Orderly, Typed
<1> USE DEF agentVars, clientVars
<1>1. ASSUME NEW r \in Requests, Arrive(r) PROVE Tidy'
  BY <1>1, <1>t, StillTidy DEF Arrive, TypeOK
<1>2. ASSUME NEW r \in Requests, Refuse(r) PROVE Tidy'
  BY <1>2, <1>t, EndTidy DEF Refuse, Release, TypeOK
<1>3. ASSUME NEW r \in Requests, Abandon(r) PROVE Tidy'
  BY <1>3, <1>t, EndTidy DEF Abandon, TypeOK
<1>4. ASSUME NEW r \in Requests, Start(r) PROVE Tidy'
  <2>1. /\ stage' = [stage EXCEPT ![r] = "streaming"] /\ stage[r] = "bound"
        /\ task' = [task EXCEPT ![r] = "running"] /\ task[r] = "none"
        /\ UNCHANGED <<merged, shown, segments, ending, overlapped>>
    BY <1>4, <1>t DEF Start, Placed
  <2> SUFFICES ASSUME ~overlapped, NEW q \in Requests
               PROVE  /\ Fresh(q)' /\ (ToldOver(q)' => shown'[q] = {})
                      /\ stage'[q] = "streaming" => EndIsLast(q)' /\ Matched(q)'
    BY <2>1 DEF Tidy
  <2>2. \A s \in Subs, i \in Nat :
          (Opens(s, q, i)' <=> Opens(s, q, i)) /\ (Shuts(s, q, i)' <=> Shuts(s, q, i))
    BY <2>1 DEF Opens, Shuts, At
  <2>3. \A i \in Nat : Last(q, i)' <=> Last(q, i)
    BY <2>1 DEF Last, At
  <2>4. CASE q = r
    <3>1. merged[r] = <<>> /\ shown[r] = {} /\ ending[r] = "none"
      BY <1>t, <2>1 DEF Tidy, Fresh, Announced
    <3>2. \A e : \A i \in Nat : ~At(e, r, i)
      BY <3>1 DEF At
    <3>3. /\ \A s \in Subs, i \in Nat : ~Opens(s, q, i)' /\ ~Shuts(s, q, i)'
          /\ \A i \in Nat : ~Last(q, i)'
      BY <2>2, <2>3, <2>4, <3>2 DEF Opens, Shuts, Last
    <3>4. ~ToldOver(q)' /\ shown'[q] = {} /\ merged'[q] = <<>>
      BY <2>1, <2>4, <3>1 DEF ToldOver
    <3> QED BY <3>3, <3>4 DEF Fresh, EndIsLast, Matched
  <2>5. CASE q # r
    <3>1. stage'[q] = stage[q] /\ task'[q] = task[q]
      BY <1>t, <2>1, <2>5 DEF TypeOK
    <3>2. Fresh(q)' /\ (ToldOver(q)' => shown'[q] = {})
      BY <2>1, <3>1 DEF Tidy, Fresh, ToldOver
    <3>3. EndIsLast(q) => EndIsLast(q)'
      BY <2>1, <2>2, <2>3, <3>1 DEF EndIsLast, ToldOver
    <3>4. Matched(q) => Matched(q)'
      BY <2>1, <2>2 DEF Matched
    <3> QED BY <3>1, <3>2, <3>3, <3>4 DEF Tidy
  <2> QED BY <2>4, <2>5
<1>5. ASSUME NEW r \in Requests, Leave(r) PROVE Tidy'
  <2>1. /\ stage' = [stage EXCEPT ![r] = "leaving"]
        /\ merged' = [merged EXCEPT ![r] = <<>>]
        /\ UNCHANGED <<task, segments, ending, shown, overlapped>>
    BY <1>5 DEF Leave, Reset
  <2> QED BY <1>t, <2>1, EndTidy DEF TypeOK, Typed
<1>6. ASSUME NEW r \in Requests, NEW c \in Calls, CallStarts(r, c) PROVE Tidy'
  BY <1>6, <1>t, StillTidy DEF CallStarts
<1>7. ASSUME NEW r \in Requests, NEW c \in Calls, CallEnds(r, c) PROVE Tidy'
  <2>1. /\ Results({c}) \in Seq(Events)
        /\ \A k \in 1..Len(Results({c})) : Results({c})[k].kind = "results"
    BY ResultsKind
  <2>2. /\ Put(r, Results({c})) /\ stage[r] \notin {"none", "bound"}
        /\ UNCHANGED <<task, stage, segments, shown, ending, overlapped>>
    BY <1>7, <1>t DEF CallEnds, Runs, Placed
  <2> HIDE DEF Results
  <2> QED BY <1>t, <2>1, <2>2, QuietPut
<1>8. ASSUME NEW r \in Requests, NEW waits \in BOOLEAN, Finish(r, waits) PROVE Tidy'
  <2> DEFINE S == Closing(r, waits)
             kind == IF waits THEN "paused" ELSE "finished"
             events == Results(S) \o <<Event(kind, {})>>
  <2>1. S \in SUBSET Calls
    BY <1>t DEF Closing, TypeOK
  <2>2. /\ events \in Seq(Events)
        /\ \A k \in 1..Len(events) : events[k].kind \in {"results", "paused", "finished"}
    <3>1. /\ Results(S) \in Seq(Events)
          /\ \A k \in 1..Len(Results(S)) : Results(S)[k].kind = "results"
      BY <2>1, ResultsKind
    <3>2. Event(kind, {}) \in Events /\ Event(kind, {}).kind \in {"paused", "finished"}
      BY EventTypes DEF Event
    <3> HIDE DEF S, kind
    <3> QED BY <3>1, <3>2
  <2>3. /\ Put(r, events) /\ task' = [task EXCEPT ![r] = "ending"]
        /\ stage[r] \notin {"none", "bound"}
        /\ UNCHANGED <<stage, segments, shown, ending, overlapped>>
    BY <1>8, <1>t DEF Finish, Runs, Placed
  <2>4. /\ task'[r] \notin {"none", "running"}
        /\ \A q \in Requests :
             task[q] \notin {"none", "running"} => task'[q] \notin {"none", "running"}
    BY <1>t, <2>3 DEF TypeOK
  <2> HIDE DEF events
  <2> QED BY <1>t, <2>2, <2>3, <2>4, QuietPut
<1>9. ASSUME NEW r \in Requests, TaskEnds(r) PROVE Tidy'
  <2>1. <<DONE>> \in Seq(Events) /\ \A k \in 1..Len(<<DONE>>) : <<DONE>>[k].kind = "done"
    BY EventTypes DEF DONE, Event
  <2>2. /\ Put(r, <<DONE>>) /\ task' = [task EXCEPT ![r] = "over"]
        /\ stage[r] \notin {"none", "bound"}
        /\ UNCHANGED <<stage, segments, shown, ending, overlapped>>
    BY <1>9, <1>t DEF TaskEnds, Placed
  <2>3. \A q \in Requests :
          task[q] \notin {"none", "running"} => task'[q] \notin {"none", "running"}
    BY <1>t, <2>2 DEF TypeOK
  <2> QED BY <1>t, <2>1, <2>2, <2>3, QuietPut
<1>10. ASSUME NEW r \in Requests, Fail(r) PROVE Tidy'
  <2> DEFINE events == Results(unresolved[r]) \o <<Event("error", {}), DONE>>
  <2>1. /\ events \in Seq(Events)
        /\ \A k \in 1..Len(events) : events[k].kind \in {"results", "error", "done"}
    <3> DEFINE A == Results(unresolved[r])
               B == <<Event("error", {}), DONE>>
    <3>1. /\ A \in Seq(Events)
          /\ \A k \in 1..Len(A) : A[k].kind = "results"
      BY <1>t, ResultsKind DEF TypeOK
    <3>2. /\ B \in Seq(Events)
          /\ \A k \in 1..Len(B) : B[k].kind \in {"error", "done"}
      BY EventTypes DEF Event, DONE
    <3>3. events = A \o B
      OBVIOUS
    <3> HIDE DEF A, B, events
    <3> QED BY <3>1, <3>2, <3>3
  <2>2. /\ Put(r, events) /\ task' = [task EXCEPT ![r] = "over"]
        /\ stage[r] \notin {"none", "bound"}
        /\ UNCHANGED <<stage, segments, shown, ending, overlapped>>
    BY <1>10, <1>t DEF Fail, Placed
  <2>3. \A q \in Requests :
          task[q] \notin {"none", "running"} => task'[q] \notin {"none", "running"}
    BY <1>t, <2>2 DEF TypeOK
  <2> HIDE DEF events
  <2> QED BY <1>t, <2>1, <2>2, <2>3, QuietPut
<1>11. ASSUME NEW r \in Requests, Deliver(r) PROVE Tidy'
  <2> DEFINE e == Head(merged[r])
             closing == StillOpen(r, e.kind)
  <2>1. /\ stage[r] = "streaming" /\ merged[r] # <<>>
        /\ merged' = [merged EXCEPT ![r] = Tail(@)]
        /\ UNCHANGED <<stage, task, overlapped>>
        /\ segments' = [segments EXCEPT ![r] = @ \ closing]
        /\ shown' = [shown EXCEPT ![r] = CASE e.kind = "opened" -> @ \cup e.about
                                           [] e.kind = "closed" -> @ \ e.about
                                           [] OTHER -> @ \ closing]
        /\ ending' = [ending EXCEPT ![r] =
                        IF e.kind \in {"finished", "paused", "error", "relayed"} THEN e.kind ELSE @]
    BY <1>11 DEF Deliver
  <2>2. e \in Events /\ At(e, r, 1)
    <3>1. merged[r] \in Seq(Events)
      BY <1>t DEF Typed
    <3> QED BY <2>1, <3>1 DEF At
  <2>3. /\ closing = IF e.kind \in {"finished", "paused"} THEN segments[r] ELSE {}
        /\ segments[r] \subseteq Subs /\ shown[r] \subseteq Subs
        /\ e.kind = "opened" => e.about \subseteq Subs
    BY <1>t, <2>2 DEF StillOpen, TypeOK, Events
  <2> HIDE DEF e, closing
  <2> SUFFICES ASSUME ~overlapped, NEW q \in Requests
               PROVE  /\ Fresh(q)' /\ (ToldOver(q)' => shown'[q] = {})
                      /\ stage'[q] = "streaming" => EndIsLast(q)' /\ Matched(q)'
    BY <2>1 DEF Tidy
  <2>4. CASE q # r
    <3>1. /\ merged'[q] = merged[q] /\ segments'[q] = segments[q] /\ shown'[q] = shown[q]
          /\ ending'[q] = ending[q] /\ stage'[q] = stage[q] /\ task'[q] = task[q]
      BY <1>t, <2>1, <2>4 DEF TypeOK, Typed
    <3>2. \A s \in Subs, i \in Nat :
            (Opens(s, q, i)' <=> Opens(s, q, i)) /\ (Shuts(s, q, i)' <=> Shuts(s, q, i))
      BY <3>1 DEF Opens, Shuts, At
    <3>3. \A i \in Nat : Last(q, i)' <=> Last(q, i)
      BY <3>1 DEF Last, At
    <3>4. Fresh(q)' /\ (ToldOver(q)' => shown'[q] = {})
      BY <3>1 DEF Tidy, Fresh, ToldOver
    <3>5. EndIsLast(q) => EndIsLast(q)'
      BY <3>1, <3>2, <3>3 DEF EndIsLast, ToldOver
    <3>6. Matched(q) => Matched(q)'
      BY <3>1, <3>2 DEF Matched
    <3> QED BY <3>1, <3>4, <3>5, <3>6 DEF Tidy
  <2>5. CASE q = r
    <3>1. EndIsLast(r) /\ Matched(r) /\ (ToldOver(r) => shown[r] = {})
      BY <2>1 DEF Tidy
    <3>2. \A d : \A i \in Nat : At(d, r, i)' <=> At(d, r, i + 1) /\ i # 0
      BY <1>t, <2>1, TakeAt
    <3>3. /\ \A s \in Subs, i \in Nat : Opens(s, r, i)' <=> Opens(s, r, i + 1) /\ i # 0
          /\ \A s \in Subs, i \in Nat : Shuts(s, r, i)' <=> Shuts(s, r, i + 1) /\ i # 0
          /\ \A i \in Nat : Last(r, i)' <=> Last(r, i + 1) /\ i # 0
      BY <3>2 DEF Opens, Shuts, Last
    <3>4. /\ \A s \in Subs : Opens(s, r, 1) <=> e.kind = "opened" /\ s \in e.about
          /\ \A s \in Subs : Shuts(s, r, 1) <=> e.kind = "closed" /\ s \in e.about
          /\ Last(r, 1) <=> e.kind \in {"finished", "paused"}
          /\ \A s \in Subs : ~Opens(s, r, 0) /\ ~Shuts(s, r, 0)
      BY <2>2 DEF Opens, Shuts, Last, At
    <3>5. /\ shown'[r] = CASE e.kind = "opened" -> shown[r] \cup e.about
                           [] e.kind = "closed" -> shown[r] \ e.about
                           [] OTHER -> shown[r] \ closing
          /\ segments'[r] = segments[r] \ closing
          /\ ending'[r] = IF e.kind \in {"finished", "paused", "error", "relayed"} THEN e.kind ELSE ending[r]
          /\ stage'[r] = "streaming" /\ task'[r] = task[r]
      BY <1>t, <2>1 DEF TypeOK
    <3>6. \A s \in Subs, i \in Nat : Shuts(s, r, i) /\ ~Shuts(s, r, 1)
            => \E j \in Nat : j + 1 = i /\ Shuts(s, r, j)'
      <4> SUFFICES ASSUME NEW s \in Subs, NEW i \in Nat, Shuts(s, r, i), ~Shuts(s, r, 1)
                   PROVE  \E j \in Nat : j + 1 = i /\ Shuts(s, r, j)'
        OBVIOUS
      <4>1. i # 0 /\ i # 1
        BY <3>4
      <4>2. i - 1 \in Nat /\ i - 1 # 0 /\ (i - 1) + 1 = i
        BY <4>1
      <4> QED BY <3>3, <4>2
    <3>7. CASE e.kind \in {"finished", "paused"}
      <4>1. /\ task[r] \notin {"none", "running"}
            /\ \A s \in Subs, j \in Nat : ~Opens(s, r, j) /\ ~Shuts(s, r, j)
        <5>1. Last(r, 1)
          BY <3>4, <3>7
        <5>2. \A j \in Nat : j = 0 \/ j = 1 \/ j > 1
          OBVIOUS
        <5>3. e.kind # "opened" /\ e.kind # "closed"
          BY <3>7
        <5> QED BY <3>1, <3>4, <5>1, <5>2, <5>3 DEF EndIsLast
      <4>2. shown'[r] = {}
        BY <2>3, <3>1, <3>5, <3>7, <4>1 DEF Matched
      <4>3. \A s \in Subs, j \in Nat : ~Opens(s, r, j)' /\ ~Shuts(s, r, j)'
        BY <3>3, <4>1
      <4> QED BY <2>5, <3>5, <4>1, <4>2, <4>3 DEF Fresh, EndIsLast, Matched
    <3>8. CASE e.kind \notin {"finished", "paused"}
      <4>1. /\ ToldOver(r)' => ToldOver(r)
            /\ segments'[r] = segments[r]
            /\ shown'[r] \subseteq IF e.kind = "opened" THEN shown[r] \cup e.about ELSE shown[r]
            /\ e.kind = "closed" => shown'[r] = shown[r] \ e.about
        BY <2>3, <3>5, <3>8 DEF ToldOver
      <4>2. ToldOver(r)' => shown'[r] = {}
        <5>1. ToldOver(r) => \A s \in Subs : ~Opens(s, r, 1)
          BY <3>1 DEF EndIsLast
        <5> QED BY <2>3, <3>1, <3>4, <4>1, <5>1
      <4>3. EndIsLast(r)'
        BY <3>1, <3>3, <3>5, <4>1 DEF EndIsLast
      <4>4. ASSUME NEW s \in Subs, s \in shown'[r], s \notin segments[r]
            PROVE  \E j \in Nat : Shuts(s, r, j)'
        <5>1. ~Shuts(s, r, 1)
          BY <3>4, <4>1, <4>4
        <5>2. \E j \in Nat : Shuts(s, r, j)
          <6>1. s \in shown[r] \/ Opens(s, r, 1)
            BY <3>4, <4>1, <4>4
          <6> QED BY <3>1, <4>4, <6>1 DEF Matched
        <5> QED BY <3>6, <5>1, <5>2
      <4>5. ASSUME NEW s \in Subs, NEW i \in Nat, Opens(s, r, i)', s \notin segments[r]
            PROVE  \E j \in Nat : j > i /\ Shuts(s, r, j)'
        <5>1. Opens(s, r, i + 1) /\ i # 0
          BY <3>3, <4>5
        <5>2. PICK k \in Nat : k > i + 1 /\ Shuts(s, r, k)
          BY <3>1, <4>5, <5>1 DEF Matched
        <5>3. k - 1 \in Nat /\ k - 1 # 0 /\ (k - 1) + 1 = k /\ k - 1 > i
          BY <5>1, <5>2
        <5>4. Shuts(s, r, k - 1)'
          BY <3>3, <5>2, <5>3
        <5> QED BY <5>3, <5>4
      <4>6. Matched(r)'
        BY <4>1, <4>4, <4>5 DEF Matched
      <4> QED BY <2>5, <3>5, <4>2, <4>3, <4>6 DEF Fresh
    <3> QED BY <3>7, <3>8
  <2> QED BY <2>4, <2>5
<1>12. ASSUME NEW r \in Requests, Close(r) PROVE Tidy'
  <2>1. /\ stage' = [stage EXCEPT ![r] = "released"]
        /\ merged' = [merged EXCEPT ![r] = <<>>]
        /\ segments' = [segments EXCEPT ![r] = {}]
        /\ UNCHANGED <<task, ending, shown, overlapped>>
    BY <1>12 DEF Close, Release, Reset
  <2> QED BY <1>t, <2>1, EndTidy DEF TypeOK, Typed
<1>13. ASSUME NEW r \in Requests, Unwind(r) PROVE Tidy'
  <2>1. /\ stage' = [stage EXCEPT ![r] = "released"]
        /\ merged' = [merged EXCEPT ![r] = <<>>]
        /\ segments' = [segments EXCEPT ![r] = {}] /\ task' = [task EXCEPT ![r] = "over"]
        /\ UNCHANGED <<ending, shown, overlapped>>
    BY <1>13 DEF Unwind, Release, Reset
  <2> QED BY <1>t, <2>1, EndTidy DEF TypeOK, Typed
<1>14. ASSUME NEW s \in Subs, NEW ends \in BOOLEAN, Publish(s, ends) PROVE Tidy'
  <2>1. UNCHANGED <<stage, task, shown, ending, overlapped>>
    BY <1>14 DEF Publish
  <2>2. CASE UNCHANGED <<segments, merged>>
    BY <2>1, <2>2, StillTidy
  <2>3. CASE ~UNCHANGED <<segments, merged>>
    <3> SUFFICES ASSUME ~overlapped PROVE Tidy'
      BY <2>1 DEF Tidy
    <3>r. PICK r \in Requests : r = runner
      BY <1>14, <1>t DEF Publish, TypeOK
    <3>1. /\ sink = r /\ Translate(r, s, ends)
          /\ task[r] = "running" /\ stage[r] \in {"streaming", "leaving"}
      BY <1>14, <1>t, <2>3, <3>r DEF Publish, Placed, OneSink, Busy, Nobody, TypeOK
    <3>2. /\ segments' = [segments EXCEPT ![r] = IF ends THEN @ \ {s} ELSE @ \cup {s}]
          /\ Len(merged[r]) \in Nat
          /\ \A q \in Requests : q # r => merged'[q] = merged[q]
          /\ \A e : \A i \in Nat : At(e, r, i) => At(e, r, i)'
          /\ ends => \E e \in Events : /\ e.kind = "closed" /\ s \in e.about
                                       /\ \A i \in Nat : i = Len(merged[r]) + 1 => At(e, r, i)'
          /\ \A e \in Events, i \in Nat : At(e, r, i)' /\ ~At(e, r, i) =>
               /\ e.kind \in {"opened", "closed"}
               /\ e.kind = "opened" => ~ends /\ e.about = {s}
      BY <1>t, <2>3, <3>1, Translated
    <3>5. ASSUME NEW q \in Requests
          PROVE  /\ Fresh(q)' /\ (ToldOver(q)' => shown'[q] = {})
                 /\ stage'[q] = "streaming" => EndIsLast(q)' /\ Matched(q)'
      <4>1. CASE q # r
        <5>1. merged'[q] = merged[q] /\ segments'[q] = segments[q]
          BY <1>t, <3>2, <4>1 DEF TypeOK
        <5>2. \A x \in Subs, i \in Nat :
                (Opens(x, q, i)' <=> Opens(x, q, i)) /\ (Shuts(x, q, i)' <=> Shuts(x, q, i))
          BY <5>1 DEF Opens, Shuts, At
        <5>3. \A i \in Nat : Last(q, i)' <=> Last(q, i)
          BY <5>1 DEF Last, At
        <5>4. Fresh(q)' /\ (ToldOver(q)' => shown'[q] = {})
          BY <2>1, <5>1 DEF Tidy, Fresh, ToldOver
        <5>5. EndIsLast(q) => EndIsLast(q)'
          BY <2>1, <5>2, <5>3 DEF EndIsLast, ToldOver
        <5>6. Matched(q) => Matched(q)'
          BY <2>1, <5>1, <5>2 DEF Matched
        <5> QED BY <2>1, <5>4, <5>5, <5>6 DEF Tidy
      <4>2. CASE q = r
        <5>1. Fresh(q)' /\ (ToldOver(q)' => shown'[q] = {})
          BY <2>1, <3>1, <4>2 DEF Tidy, Fresh, ToldOver
        <5> SUFFICES ASSUME stage[r] = "streaming" PROVE EndIsLast(r)' /\ Matched(r)'
          BY <2>1, <4>2, <5>1
        <5>2. EndIsLast(r) /\ Matched(r)
          BY <3>1 DEF Tidy
        <5>3. ~ToldOver(r) /\ \A i \in Nat : ~Last(r, i)
          BY <3>1, <5>2 DEF EndIsLast
        <5>4. \A i \in Nat : ~Last(r, i)'
          <6> SUFFICES ASSUME NEW i \in Nat, NEW e \in Events, At(e, r, i)',
                              e.kind \in {"finished", "paused"}
                       PROVE  FALSE
            BY DEF Last
          <6>1. At(e, r, i)
            BY <3>2
          <6> QED BY <5>3, <6>1 DEF Last
        <5>5. EndIsLast(r)'
          BY <2>1, <5>3, <5>4 DEF EndIsLast, ToldOver
        <5>6. /\ \A x \in Subs, i \in Nat : Shuts(x, r, i) => Shuts(x, r, i)'
              /\ \A x \in Subs, i \in Nat : Opens(x, r, i)' /\ ~Opens(x, r, i) => ~ends /\ x = s
          <6>2. \A x \in Subs, i \in Nat : Shuts(x, r, i) => Shuts(x, r, i)'
            BY <3>2 DEF Shuts
          <6>3. ASSUME NEW x \in Subs, NEW i \in Nat, Opens(x, r, i)', ~Opens(x, r, i)
                PROVE  ~ends /\ x = s
            <7>1. PICK e \in Events : At(e, r, i)' /\ e.kind = "opened" /\ x \in e.about
              BY <6>3 DEF Opens
            <7>2. ~At(e, r, i)
              BY <6>3, <7>1 DEF Opens
            <7> QED BY <3>2, <7>1, <7>2
          <6> QED BY <6>2, <6>3
        <5>7. PICK n \in Nat : n = Len(merged[r]) + 1 /\ (ends => Shuts(s, r, n)')
          BY <3>2 DEF Shuts
        <5>8. \A x \in Subs, i \in Nat : Opens(x, r, i) => n > i
          BY <3>2, <5>7 DEF Opens, At
        <5>9. segments'[r] = IF ends THEN segments[r] \ {s} ELSE segments[r] \cup {s}
          BY <1>t, <3>1, <3>2 DEF TypeOK
        <5>10. ASSUME NEW x \in Subs
               PROVE  /\ x \in shown'[r] => x \in segments'[r] \/ \E j \in Nat : Shuts(x, r, j)'
                      /\ \A i \in Nat : Opens(x, r, i)' =>
                           x \in segments'[r] \/ \E j \in Nat : j > i /\ Shuts(x, r, j)'
          <6>1. CASE ends /\ x = s
            <7>1. \A i \in Nat : Opens(x, r, i)' => n > i
              BY <5>6, <5>8, <6>1
            <7> QED BY <5>7, <6>1, <7>1
          <6>2. CASE ~ends /\ x = s
            BY <5>9, <6>2
          <6>3. CASE x # s
            <7>1. x \in segments[r] <=> x \in segments'[r]
              BY <5>9, <6>3
            <7> QED BY <2>1, <5>2, <5>6, <6>3, <7>1 DEF Matched
          <6> QED BY <6>1, <6>2, <6>3
        <5>11. Matched(r)'
          BY <5>10 DEF Matched
        <5> QED BY <5>5, <5>11
      <4> QED BY <4>1, <4>2
    <3> QED BY <3>5 DEF Tidy
  <2> QED BY <2>2, <2>3
<1>15. ASSUME NEW r \in Requests, Relay(r) PROVE Tidy'
  <2> DEFINE events == <<Event("relayed", {})>>
  <2>1. events \in Seq(Events) /\ \A k \in 1..Len(events) : events[k].kind = "relayed"
    BY EventTypes DEF Event
  <2>2. /\ Put(r, events) /\ task' = [task EXCEPT ![r] = "ending"]
        /\ stage[r] \notin {"none", "bound"}
        /\ UNCHANGED <<stage, segments, shown, ending, overlapped>>
    BY <1>15, <1>t DEF Relay, Placed
  <2>3. \A q \in Requests :
          task[q] \notin {"none", "running"} => task'[q] \notin {"none", "running"}
    BY <1>t, <2>2 DEF TypeOK
  <2> HIDE DEF events
  <2> QED BY <1>t, <2>1, <2>2, <2>3, QuietPut
<1>16. CASE UNCHANGED vars
  BY <1>16, StillTidy DEF vars
<1> QED
  BY <1>1, <1>2, <1>3, <1>4, <1>5, <1>6, <1>7, <1>8, <1>9, <1>10, <1>11, <1>12, <1>13,
     <1>14, <1>15, <1>16 DEF Next, Server, Ends

-----------------------------------------------------------------------------
(* The theorems.                                                           *)

\* Every reachable state has its place in the ledger.
LEMMA LedgerAlways == Spec => []Ledger
<1>1. Init => Ledger
  BY LedgerInit
<1>2. Ledger /\ [Next]_vars => Ledger'
  BY LedgerNext
<1> QED BY <1>1, <1>2, PTL DEF Spec

\* Every variable holds what the code can put in it, in every reachable state.
THEOREM Typing == Spec => []TypeOK
<1>1. Ledger => TypeOK
  BY DEF Ledger, Orderly, Typed
<1> QED BY <1>1, LedgerAlways, PTL

\* A response releases a run's resources once the run is over, and only its own
\* are gone: the agent works on for nobody who was released, and no event goes to
\* a response that has ended.
THEOREM ReleasedQuiet == Spec => []ReleasedIsQuiet
<1>1. Ledger => ReleasedIsQuiet
  BY DEF Ledger, Orderly, Placed, ReleasedIsQuiet
<1> QED BY <1>1, LedgerAlways, PTL

\* Requests that take turns never get each other's sub-agent events: the one
\* response in progress has the sink.
THEOREM TurnsKeep == Spec => []TurnsKeepEvents
<1>1. Ledger => TurnsKeepEvents
  BY DEF Ledger, Orderly
<1> QED BY <1>1, LedgerAlways, PTL

\* A client gets one result for a call at most: a call the agent still works on, or
\* paused on, has none on the client or on its way, and an error closes only those.
THEOREM OneResultEver == Spec => []OneResult
<1>1. Ledger => OneResult
  BY DEF Ledger, Told, OneResult
<1> QED BY <1>1, LedgerAlways, PTL

\* A client told that a run finished, or raised, has a result for each call it
\* announced: those still open go out ahead of the run's last event. (Of a run that
\* ag-ui-strands ends with an error event of its own nothing is said.)
THEOREM NoneDangles == Spec => []NothingDangles
<1>1. Ledger => NothingDangles
  BY DEF Ledger, Announced, NothingDangles
<1> QED BY <1>1, LedgerAlways, PTL

\* A client told that a run finished or paused has none of its sub-agents left open,
\* and none opens afterwards, while requests take turns: what the response has open
\* is what the client has open but for what is queued, and no invocation's event is
\* queued behind the run's end.
THEOREM LeavesNoneOpen == Spec => []InvocationsClosed
<1>1. Init => Tidy
  BY TidyInit
<1>2. Ledger /\ Tidy /\ [Next]_vars => Tidy'
  BY TidyNext
<1>3. Tidy => InvocationsClosed
  BY DEF Tidy, ToldOver, InvocationsClosed
<1> QED BY <1>1, <1>2, <1>3, LedgerAlways, PTL DEF Spec
=============================================================================
