-------------------------- MODULE ToolCalls_proofs --------------------------
(***************************************************************************)
(* Proofs about ToolCalls, for any calls of a step, any effects and any    *)
(* limit.                                                                  *)
(*                                                                         *)
(* Standing is the inductive invariant of the calls: what each has been    *)
(* through, and, against the limit, the calls of the invocation that       *)
(* reached their tool and those a resume still has to make again.          *)
(* Followed is that of the shared state: the events on their way lead what *)
(* the client has to what the run has, but for the keys it cannot know of. *)
(***************************************************************************)
EXTENDS ToolCalls, FiniteSetTheorems, WellFoundedInduction, TLAPS

\* The calls that reached their tool and have no result yet.
Pending == {c \in Calls : call[c] \in {"asking", "again", "waiting"}}

\* The calls a resume has to make again: the person was asked about them.
Left == {c \in Calls : call[c] = "called" /\ ask[c] # None}

\* What each call has been through.
Course ==
  \A c \in Calls :
    /\ call[c] # "settled" => ran[c] = 0 /\ result[c] = None
    /\ call[c] \in {"none", "asking"} => ask[c] = None
    /\ call[c] = "none" => tried[c] = 0
    /\ call[c] = "called" => IF ask[c] = None THEN tried[c] = 0
                             ELSE tried[c] = 1 /\ ask[c].answer # None
    /\ call[c] = "asking" => tried[c] = 1
    /\ call[c] = "waiting" => tried[c] = 1 /\ ask[c] # None
    /\ tried[c] <= 2 /\ ran[c] <= 1
    /\ result[c] \in {"refused", "limit", "stopped"} => ran[c] = 0
    /\ result[c] = "limit" => ask[c] = None

\* A pause holds on to nothing but the calls that wait.
Paused == phase = "paused" => \A c \in Calls : call[c] \in {"none", "waiting", "settled"}

\* Against the limit: what reached a tool, and what a resume has yet to make.
Counted ==
  /\ reached <= state.count /\ reached <= max_calls
  /\ Cardinality(Pending) <= reached
  /\ Left # {} => /\ \A c \in Calls : call[c] = "called" => c \in Left
                  /\ state.count + Cardinality(Left) <= max_calls

Standing == TypeOK /\ Course /\ Paused /\ Counted

-----------------------------------------------------------------------------
(* Counting calls.                                                         *)

\* The two sets of calls are finite.
LEMMA Finite ==
  /\ IsFiniteSet(Pending) /\ Cardinality(Pending) \in Nat
  /\ IsFiniteSet(Left) /\ Cardinality(Left) \in Nat
<1>1. IsFiniteSet(Pending) /\ IsFiniteSet(Left)
  BY ToolCallsAssumption, FS_Subset DEF Pending, Left
<1> QED BY <1>1, FS_CardinalityType

\* A step that moves no call between the two sets, or only out of the first,
\* keeps the count.
LEMMA CountKept ==
  ASSUME Counted, TypeOK, reached' = reached, state' = state,
         Pending' \subseteq Pending, Left' = Left,
         \A c \in Calls : call'[c] = "called" => call[c] = "called"
  PROVE  Counted'
<1>1. Cardinality(Pending') <= Cardinality(Pending) /\ Cardinality(Pending') \in Nat
  BY Finite, FS_Subset, FS_CardinalityType
<1> HIDE DEF Pending, Left
<1>2. Cardinality(Pending)' = Cardinality(Pending') /\ Cardinality(Left)' = Cardinality(Left')
  OBVIOUS
<1> QED BY <1>1, Finite, ToolCallsAssumption DEF Counted, TypeOK

\* No call is under way where none can be.
LEMMA StandingInit == Init => Standing
<1> SUFFICES ASSUME Init PROVE Standing
  OBVIOUS
<1>1. TypeOK
  BY DEF Init, TypeOK, Fresh, NoAsk, Zero
<1>2. Course /\ Paused
  BY ToolCallsAssumption DEF Init, Course, Paused, NoAsk, Zero
<1>3. Pending = {} /\ Left = {}
  BY DEF Init, Pending, Left
<1>4. Counted
  BY <1>3, FS_EmptySet, ToolCallsAssumption DEF Init, Counted, Fresh
<1> QED BY <1>1, <1>2, <1>4 DEF Standing

\* A step that starts over, with calls that were not asked about.
LEMMA CountAnew ==
  ASSUME TypeOK', Pending' = {}, Left' = {}, reached' <= state'.count, reached' <= max_calls
  PROVE  Counted'
<1>1. Cardinality(Pending)' = 0
  BY FS_EmptySet
<1> QED BY <1>1 DEF Counted, TypeOK

\* Every step of the loop, and of the people and effects around it, keeps it so.
LEMMA StandingNext == Standing /\ [Next]_vars => Standing'
<1> SUFFICES ASSUME Standing, [Next]_vars PROVE Standing'
  OBVIOUS
<1>t. TypeOK /\ Course /\ Paused /\ Counted
  BY DEF Standing
<1> USE DEF loop, shared
<1>1. CASE Start
  <2>1. TypeOK'
    BY <1>1, <1>t DEF Start, TypeOK, Fresh, NoAsk, Zero
  <2>2. Course' /\ Paused'
    BY <1>1, <1>t, ToolCallsAssumption DEF Start, Course, Paused, NoAsk, Zero
  <2>3. Pending' = {} /\ Left' = {}
    BY <1>1 DEF Start, Pending, Left
  <2>4. Counted'
    BY <1>1, <2>1, <2>3, CountAnew, ToolCallsAssumption DEF Start, Fresh
  <2> QED BY <2>1, <2>2, <2>4 DEF Standing
<1>2. CASE Resume
  <2>1. TypeOK'
    BY <1>2, <1>t DEF Resume, TypeOK, Fresh
  <2>2. /\ call' = [c \in Calls |-> IF call[c] = "waiting" THEN "called" ELSE call[c]]
        /\ \A c \in Calls : call[c] = "waiting" => ask[c].answer # None
        /\ UNCHANGED <<result, ask, tried, ran>> /\ phase' = "tools" /\ phase = "paused"
        /\ state' = Fresh /\ reached' = 0
    BY <1>2 DEF Resume
  <2>3. Course' /\ Paused'
    BY <1>t, <2>2 DEF Course, Paused
  <2>4. Pending' = {} /\ Left' \subseteq Pending
    BY <1>t, <2>2 DEF Paused, Pending, Left
  <2>5. \A c \in Calls : call'[c] = "called" => c \in Left'
    BY <1>t, <2>2 DEF Paused, Course, Left
  <2>6. Cardinality(Left') <= Cardinality(Pending) /\ Cardinality(Left') \in Nat
    BY <2>4, Finite, FS_Subset, FS_CardinalityType
  <2>7. Counted'
    <3>1. state'.count = 0 /\ Cardinality(Pending') = 0
      BY <2>2, <2>4, FS_EmptySet DEF Fresh
    <3>2. Cardinality(Left') <= max_calls
      BY <1>t, <2>6, Finite, ToolCallsAssumption DEF Counted, TypeOK
    <3> HIDE DEF Pending, Left
    <3>3. Cardinality(Pending)' = Cardinality(Pending') /\ Cardinality(Left)' = Cardinality(Left')
      OBVIOUS
    <3> QED BY <2>2, <2>5, <2>6, <3>1, <3>2, <3>3, ToolCallsAssumption DEF Counted
  <2> QED BY <2>1, <2>3, <2>7 DEF Standing
<1>3. CASE StopSignal
  <2>1. TypeOK' /\ Course' /\ Paused'
    BY <1>3, <1>t DEF StopSignal, TypeOK, Course, Paused
  <2>2. Counted'
    BY <1>3, <1>t, CountKept DEF StopSignal, Pending, Left
  <2> QED BY <2>1, <2>2 DEF Standing
<1>4. CASE Snapshot \/ Deliver \/ UNCHANGED vars
  <2>1. UNCHANGED <<phase, state, stop, call, result, ask, granted, tried, ran, reached>>
    BY <1>4 DEF Snapshot, Deliver, vars
  <2>2. TypeOK' /\ Course' /\ Paused'
    BY <1>t, <2>1 DEF TypeOK, Course, Paused
  <2>3. Counted'
    BY <1>t, <2>1, CountKept DEF Pending, Left
  <2> QED BY <2>2, <2>3 DEF Standing
<1>5. CASE EndStep
  <2>1. TypeOK' /\ Course'
    BY <1>5, <1>t DEF EndStep, TypeOK, Course
  <2>2. Paused'
    BY <1>5 DEF EndStep, Paused
  <2>3. Counted'
    BY <1>5, <1>t, CountKept DEF EndStep, Pending, Left
  <2> QED BY <2>1, <2>2, <2>3 DEF Standing
<1>6. ASSUME NEW S \in SUBSET Calls, Model(S) PROVE Standing'
  <2>1. TypeOK'
    BY <1>6, <1>t DEF Model, TypeOK, NoAsk, Zero
  <2>2. Course' /\ Paused'
    BY <1>6, <1>t, ToolCallsAssumption DEF Model, Course, Paused, NoAsk, Zero
  <2>3. Pending' = {} /\ Left' = {}
    BY <1>6 DEF Model, Pending, Left, NoAsk
  <2>4. Counted'
    BY <1>6, <1>t, <2>1, <2>3, CountAnew DEF Model, Counted
  <2> QED BY <2>1, <2>2, <2>4 DEF Standing
<1>7. ASSUME NEW c \in Calls, Expire(c) PROVE Standing'
  <2>1. /\ ask[c] \in Request /\ ask' = [ask EXCEPT ![c] = [ask[c] EXCEPT !.late = TRUE]]
        /\ UNCHANGED <<phase, state, stop, call, result, granted, tried, ran, reached>>
        /\ call[c] \in {"waiting", "called"}
    BY <1>7, <1>t DEF Expire, TypeOK
  <2>2. /\ [ask[c] EXCEPT !.late = TRUE] \in Request
        /\ [ask[c] EXCEPT !.late = TRUE].answer = ask[c].answer
    BY <2>1 DEF Request
  <2>3. /\ ask' \in [Calls -> Request \cup {None}] /\ ask'[c] # None /\ ask[c] # None
        /\ ask'[c].answer = ask[c].answer /\ \A d \in Calls : d # c => ask'[d] = ask[d]
    BY <1>t, <2>1, <2>2, ToolCallsAssumption DEF TypeOK
  <2>4. TypeOK' /\ Paused'
    BY <1>t, <2>1, <2>3 DEF TypeOK, Paused
  <2>5. Course'
    <3> SUFFICES ASSUME NEW d \in Calls
                 PROVE  /\ call'[d] # "settled" => ran'[d] = 0 /\ result'[d] = None
                        /\ call'[d] \in {"none", "asking"} => ask'[d] = None
                        /\ call'[d] = "none" => tried'[d] = 0
                        /\ call'[d] = "called" => IF ask'[d] = None THEN tried'[d] = 0
                                                  ELSE tried'[d] = 1 /\ ask'[d].answer # None
                        /\ call'[d] = "asking" => tried'[d] = 1
                        /\ call'[d] = "waiting" => tried'[d] = 1 /\ ask'[d] # None
                        /\ tried'[d] <= 2 /\ ran'[d] <= 1
                        /\ result'[d] \in {"refused", "limit", "stopped"} => ran'[d] = 0
                        /\ result'[d] = "limit" => ask'[d] = None
      BY DEF Course
    <3>1. CASE d = c
      BY <1>t, <2>1, <2>3, <3>1, ToolCallsAssumption DEF Course
    <3>2. CASE d # c
      BY <1>t, <2>1, <2>3, <3>2 DEF Course
    <3> QED BY <3>1, <3>2
  <2>6. Pending' = Pending /\ Left' = Left
    BY <2>1, <2>3 DEF Pending, Left
  <2>7. Counted'
    BY <1>t, <2>1, <2>6, CountKept
  <2> QED BY <2>4, <2>5, <2>7 DEF Standing
<1>8. ASSUME NEW c \in Calls, NEW answer \in {"approved", "denied", "skipped"},
             NEW told \in BOOLEAN, Answer(c, answer, told)
      PROVE  Standing'
  <2>1. /\ ask[c] # None /\ call[c] = "waiting"
        /\ ask' = [ask EXCEPT ![c] = [ask[c] EXCEPT !.answer = answer]]
        /\ UNCHANGED <<phase, state, stop, call, result, tried, ran, reached>>
    BY <1>8, <1>t DEF Answer, Course
  <2>2. [ask[c] EXCEPT !.answer = answer] \in Request
    BY <1>t, <2>1 DEF TypeOK, Request
  <2>3. /\ ask' \in [Calls -> Request \cup {None}] /\ ask'[c] # None
        /\ \A d \in Calls : d # c => ask'[d] = ask[d]
    BY <1>t, <2>1, <2>2, ToolCallsAssumption DEF TypeOK
  <2>4. granted' \subseteq Calls
    BY <1>8, <1>t DEF Answer, TypeOK
  <2>5. TypeOK' /\ Paused'
    BY <1>t, <2>1, <2>3, <2>4 DEF TypeOK, Paused
  <2>6. Course'
    <3>1. \A d \in Calls : d # c => ask'[d] = ask[d]
      BY <2>3
    <3>2. result[c] = None /\ None # "limit"
      BY <1>t, <2>1, ToolCallsAssumption DEF Course
    <3> QED BY <1>t, <2>1, <2>3, <3>1, <3>2 DEF Course
  <2>7. Pending' = Pending /\ Left' = Left
    BY <2>1, <2>3 DEF Pending, Left
  <2>8. Counted'
    BY <1>t, <2>1, <2>7, CountKept
  <2> QED BY <2>5, <2>6, <2>8 DEF Standing
<1>9. ASSUME NEW c \in Calls, Begin(c) PROVE Standing'
  <2>1. /\ phase = "tools" /\ call[c] = "called" /\ state' = Count
        /\ UNCHANGED <<phase, stop, ask, granted, ran>>
    BY <1>9 DEF Begin
  <2>2. state'.count = state.count + 1 /\ state.count \in Nat
    BY <1>t, <2>1 DEF Count, TypeOK
  <2>3. state' \in [count : Nat, limit_hit : BOOLEAN, stop_event_loop : BOOLEAN]
    <3>1. state.limit_hit \in BOOLEAN /\ state.stop_event_loop \in BOOLEAN /\ stop \in BOOLEAN
      BY <1>t DEF TypeOK
    <3>2. /\ (state.limit_hit \/ state.count >= max_calls) \in BOOLEAN
          /\ (\/ state.stop_event_loop \/ stop
              \/ state.count >= max_calls /\ state.limit_hit) \in BOOLEAN
      BY <3>1, Zenon
    <3> QED BY <2>1, <2>2, <3>2 DEF Count
  <2>4. /\ Pending \subseteq Pending' /\ c \notin Pending
        /\ Left' = Left \ {c} /\ \A d \in Calls : call'[d] = "called" => call[d] = "called" /\ d # c
        /\ \/ Pending' = Pending /\ reached' = reached
           \/ Pending' = Pending \cup {c} /\ reached' = reached + 1 /\ state.count < max_calls
    <3>1. CASE \E note : Settle(c, note) /\ reached' = reached
      BY <1>t, <2>1, <3>1 DEF Settle, Pending, Left, TypeOK
    <3>2. CASE /\ state.count < max_calls /\ reached' = reached + 1
               /\ call' = [call EXCEPT ![c] = IF StoredAnswer(c) = "none" THEN "asking" ELSE "again"]
      BY <1>t, <2>1, <3>2 DEF Pending, Left, TypeOK
    <3> QED BY <1>9, <3>1, <3>2 DEF Begin
  <2>5. Counted'
    <3>1. Cardinality(Pending \cup {c}) = Cardinality(Pending) + 1
      BY <2>4, Finite, FS_AddElement
    <3>2. Cardinality(Pending') <= reached' /\ reached' <= state'.count /\ reached' <= max_calls
      <4>1. /\ Cardinality(Pending) <= reached /\ reached <= state.count /\ reached <= max_calls
            /\ reached \in Nat /\ Cardinality(Pending) \in Nat
        BY <1>t, Finite DEF Counted, TypeOK
      <4>2. CASE Pending' = Pending /\ reached' = reached
        BY <2>2, <4>1, <4>2, ToolCallsAssumption
      <4>3. CASE Pending' = Pending \cup {c} /\ reached' = reached + 1 /\ state.count < max_calls
        <5>1. Cardinality(Pending') = Cardinality(Pending) + 1
          BY <3>1, <4>3
        <5>2. Cardinality(Pending') <= reached'
          BY <4>1, <4>3, <5>1
        <5> QED BY <2>2, <4>1, <4>3, <5>2, ToolCallsAssumption
      <4> QED BY <2>4, <4>2, <4>3
    <3>3. ASSUME Left' # {}
          PROVE  /\ \A d \in Calls : call'[d] = "called" => d \in Left'
                 /\ state'.count + Cardinality(Left') <= max_calls
      <4>1. Left # {} /\ c \in Left
        BY <1>t, <2>1, <2>4, <3>3 DEF Counted
      <4>2. Cardinality(Left \ {c}) = Cardinality(Left) - 1
        BY <4>1, Finite, FS_RemoveElement
      <4>3. state.count + Cardinality(Left) <= max_calls
            /\ \A d \in Calls : call[d] = "called" => d \in Left
        BY <1>t, <4>1 DEF Counted
      <4>4. state'.count + Cardinality(Left') <= max_calls
        BY <2>2, <2>4, <4>2, <4>3, Finite, ToolCallsAssumption
      <4>5. \A d \in Calls : call'[d] = "called" => d \in Left'
        BY <2>4, <4>3
      <4> QED BY <4>4, <4>5
    <3> HIDE DEF Pending, Left
    <3>4. Cardinality(Pending)' = Cardinality(Pending') /\ Cardinality(Left)' = Cardinality(Left')
      OBVIOUS
    <3> QED BY <3>2, <3>3, <3>4 DEF Counted
  <2>6. CASE /\ state.count < max_calls /\ StoredAnswer(c) \in {"none", "approved"}
             /\ call' = [call EXCEPT ![c] = IF StoredAnswer(c) = "none" THEN "asking" ELSE "again"]
             /\ tried' = [tried EXCEPT ![c] = @ + 1] /\ reached' = reached + 1
             /\ UNCHANGED result
    <3>1. TypeOK' /\ Paused'
      BY <1>t, <2>1, <2>3, <2>6 DEF TypeOK, Paused
    <3>2. StoredAnswer(c) = "none" <=> ask[c] = None
      BY <1>t, <2>1, ToolCallsAssumption DEF StoredAnswer, Course, TypeOK, Request
    <3>3. Course'
      BY <1>t, <2>1, <2>6, <3>2, ToolCallsAssumption DEF Course, TypeOK
    <3> QED BY <2>5, <3>1, <3>3 DEF Standing
  <2>7. ASSUME NEW note \in {"limit", "stopped", "refused"}, Settle(c, note),
               UNCHANGED <<tried, reached>>, note = "limit" => state.count >= max_calls
        PROVE  Standing'
    <3>1. TypeOK' /\ Paused'
      BY <1>t, <2>1, <2>3, <2>7 DEF Settle, TypeOK, Paused
    <3>2. note = "limit" => ask[c] = None
      <4> SUFFICES ASSUME note = "limit", ask[c] # None PROVE FALSE
        OBVIOUS
      <4>1. c \in Left
        BY <2>1 DEF Left
      <4>2. state.count + Cardinality(Left) <= max_calls /\ Cardinality(Left) # 0
        BY <1>t, <4>1, Finite, FS_EmptySet DEF Counted
      <4> QED BY <2>2, <2>7, <4>2, Finite, ToolCallsAssumption
    <3>3. Course'
      BY <1>t, <2>1, <2>7, <3>2 DEF Settle, Course, TypeOK
    <3> QED BY <2>5, <3>1, <3>3 DEF Standing
  <2> QED BY <1>9, <2>6, <2>7 DEF Begin
<1>10. ASSUME NEW c \in Calls, Works(c) PROVE Standing'
  <2>1. /\ call[c] \in {"asking", "again"} /\ Settle(c, "ran")
        /\ ran' = [ran EXCEPT ![c] = @ + 1]
        /\ UNCHANGED <<phase, state, stop, ask, granted, tried, reached>>
    BY <1>10 DEF Works
  <2>2. TypeOK' /\ Paused'
    BY <1>t, <2>1 DEF Settle, TypeOK, Paused
  <2>3. Course'
    BY <1>t, <2>1 DEF Settle, Course, TypeOK
  <2>4. Counted'
    BY <1>t, <2>1, CountKept DEF Settle, Pending, Left, TypeOK
  <2> QED BY <2>2, <2>3, <2>4 DEF Standing
<1>11. ASSUME NEW c \in Calls, Fails(c) PROVE Standing'
  <2>1. /\ call[c] \in {"asking", "again"} /\ Settle(c, "failed")
        /\ UNCHANGED <<phase, state, stop, ask, granted, tried, ran, reached>>
    BY <1>11 DEF Fails
  <2>2. TypeOK' /\ Paused'
    BY <1>t, <2>1 DEF Settle, TypeOK, Paused
  <2>3. Course'
    BY <1>t, <2>1 DEF Settle, Course, TypeOK
  <2>4. Counted'
    BY <1>t, <2>1, CountKept DEF Settle, Pending, Left, TypeOK
  <2> QED BY <2>2, <2>3, <2>4 DEF Standing
<1>12. ASSUME NEW c \in Calls, Asks(c) PROVE Standing'
  <2>1. UNCHANGED <<phase, state, stop, granted, tried, ran, reached>>
    BY <1>12 DEF Asks
  <2>2. CASE call[c] = "asking"
    <3>1. /\ call' = [call EXCEPT ![c] = "waiting"] /\ UNCHANGED result
          /\ ask' = [ask EXCEPT ![c] = [answer |-> None, late |-> FALSE]]
      BY <1>12, <2>2 DEF Asks
    <3>2. [answer |-> None, late |-> FALSE] \in Request
      BY DEF Request
    <3>3. TypeOK' /\ Paused'
      BY <1>t, <2>1, <3>1, <3>2 DEF TypeOK, Paused
    <3>4. Course'
      BY <1>t, <2>1, <2>2, <3>1, <3>2, ToolCallsAssumption DEF Course, TypeOK
    <3>5. Counted'
      BY <1>t, <2>1, <2>2, <3>1, CountKept DEF Pending, Left, TypeOK
    <3> QED BY <3>3, <3>4, <3>5 DEF Standing
  <2>3. CASE call[c] = "again"
    <3>1. Settle(c, "still") /\ UNCHANGED ask
      BY <1>12, <2>3 DEF Asks
    <3>2. TypeOK' /\ Paused'
      BY <1>t, <2>1, <3>1 DEF Settle, TypeOK, Paused
    <3>3. Course'
      BY <1>t, <2>1, <2>3, <3>1 DEF Settle, Course, TypeOK
    <3>4. Counted'
      BY <1>t, <2>1, <2>3, <3>1, CountKept DEF Settle, Pending, Left, TypeOK
    <3> QED BY <3>2, <3>3, <3>4 DEF Standing
  <2> QED BY <1>12, <2>2, <2>3 DEF Asks
<1> QED
  BY <1>1, <1>2, <1>3, <1>4, <1>5, <1>6, <1>7, <1>8, <1>9, <1>10, <1>11, <1>12 DEF Next, Agent

-----------------------------------------------------------------------------
(* The theorems about calls.                                               *)

\* Every reachable state stands.
LEMMA StandingAlways == Spec => []Standing
<1>1. Init => Standing
  BY StandingInit
<1>2. Standing /\ [Next]_vars => Standing'
  BY StandingNext
<1> QED BY <1>1, <1>2, PTL DEF Spec

\* The loop's variables hold what the code can put in them, in every reachable state.
THEOREM Typing == Spec => []TypeOK
<1>1. Standing => TypeOK
  BY DEF Standing
<1> QED BY <1>1, StandingAlways, PTL

\* However its approvals, pauses and failures interleave, a call works at most once,
\* and not at all when it was refused, stopped or over the limit; and the limit never
\* cuts a call the person was asked about, since a pause holds on to calls within it.
THEOREM CallsKeep == Spec => []CallsKept
<1>1. Standing => CallsKept
  BY DEF Standing, Course, Counted, CallsKept, OnceApproved, WithinLimit
<1> QED BY <1>1, StandingAlways, PTL

-----------------------------------------------------------------------------
(* Counting.                                                               *)

\* A non-empty set of numbers has a least one; and induction, over a set.
LEMMA Least ==
  ASSUME NEW T, T \subseteq Nat, T # {}
  PROVE  \E x \in T : \A y \in T : ~ (y < x)
<1>0. \A x, y \in Nat : x < y => <<x, y>> \in OpToRel(<, Nat)
  BY Zenon DEF OpToRel
<1>2. \E x \in T : \A y \in T : ~ (<<y, x>> \in OpToRel(<, Nat))
  BY NatLessThanWellFounded, WFMin, Zenon
<1> QED
  BY <1>0, <1>2, Zenon

LEMMA Induction ==
  ASSUME NEW S, 0 \in S, \A n \in Nat : n \in S => n + 1 \in S
  PROVE  Nat \subseteq S
<1>1. SUFFICES ASSUME Nat \ S # {} PROVE FALSE
  OBVIOUS
<1>2. PICK x \in Nat \ S : \A y \in Nat \ S : ~ (y < x)
  BY <1>1, Least, Nat \ S \subseteq Nat, Zenon
<1>3. x # 0 /\ x - 1 \in Nat
  BY <1>2
<1>4. x - 1 \in Nat \ S
  BY <1>2, <1>3, (x - 1) + 1 = x
<1>5. x - 1 < x
  BY <1>3
<1> QED
  BY <1>2, <1>4, <1>5

-----------------------------------------------------------------------------
(* Patching, one operation at a time.                                      *)

States == [Keys -> Calls \cup {None}]
Operations == [op : Ops, key : Keys]
Lists == Seq(Operations)
Results == [state : States, fits : BOOLEAN, keys : SUBSET Keys]
KeysOf(p) == {p[i].key : i \in DOMAIN p}

Begun(s) == [state |-> s, fits |-> TRUE, keys |-> {}]
Does(r, o, c) ==
  IF ~r.fits \/ o.op = "misfit" \/ (o.op = "drop" /\ r.state[o.key] = None)
  THEN [r EXCEPT !.fits = FALSE]
  ELSE [r EXCEPT !.state[o.key] = IF o.op = "put" THEN c ELSE None,
                 !.keys = @ \cup {o.key}]

\* What the fold of Patched is, on sets of positions of the list.
Patches1(g, s, p, c, S) ==
  g = [t \in SUBSET S |-> IF t = {} THEN Begun(s) ELSE Does(g[t \ {Max(t)}], p[Max(t)], c)]

LEMMA PatchesExist ==
  ASSUME NEW s, NEW p, NEW c, NEW n \in Nat
  PROVE  \E g : Patches1(g, s, p, c, 1..n)
<1> DEFINE N == {m \in Nat : \E g : Patches1(g, s, p, c, 1..m)}
<1>1. 0 \in N
  <2> DEFINE g == [t \in SUBSET (1..0) |-> Begun(s)]
  <2>1. SUBSET (1..0) = {{}}
    OBVIOUS
  <2>2. Patches1(g, s, p, c, 1..0)
    BY <2>1 DEF Patches1
  <2> QED
    BY <2>2
<1>2. ASSUME NEW m \in Nat, m \in N
      PROVE  m + 1 \in N
  <2>1. PICK g : Patches1(g, s, p, c, 1..m)
    BY <1>2
  <2> DEFINE h == [t \in SUBSET (1..(m + 1)) |->
                     IF m + 1 \in t THEN Does(g[t \ {m + 1}], p[m + 1], c) ELSE g[t]]
  <2>2. ASSUME NEW t \in SUBSET (1..(m + 1))
        PROVE  h[t] = IF t = {} THEN Begun(s) ELSE Does(h[t \ {Max(t)}], p[Max(t)], c)
    <3>1. CASE m + 1 \in t
      <4>1. Max(t) = m + 1
        <5>1. \A y \in t : m + 1 >= y
          OBVIOUS
        <5>2. \A x \in t : (\A y \in t : x >= y) => x = m + 1
          BY <3>1, <5>1
        <5> QED
          BY <3>1, <5>1, <5>2 DEF Max
      <4>2. t \ {m + 1} \in SUBSET (1..(m + 1)) /\ m + 1 \notin t \ {m + 1}
        OBVIOUS
      <4>3. h[t \ {m + 1}] = g[t \ {m + 1}]
        BY <4>2, Zenon
      <4> QED
        BY <3>1, <4>1, <4>3, Zenon
    <3>2. CASE m + 1 \notin t
      <4>1. t \in SUBSET (1..m) /\ h[t] = g[t]
        BY <3>2
      <4>2. g[t] = IF t = {} THEN Begun(s) ELSE Does(g[t \ {Max(t)}], p[Max(t)], c)
        BY <2>1, <4>1, Zenon DEF Patches1
      <4>3. t \ {Max(t)} \in SUBSET (1..(m + 1)) /\ m + 1 \notin t \ {Max(t)}
        BY <3>2
      <4>4. h[t \ {Max(t)}] = g[t \ {Max(t)}]
        BY <4>3, Zenon
      <4> QED
        BY <4>1, <4>2, <4>4, Zenon
    <3> QED
      BY <3>1, <3>2
  <2>3. Patches1(h, s, p, c, 1..(m + 1))
    <3>1. h = [t \in SUBSET (1..(m + 1)) |-> h[t]]
      OBVIOUS
    <3> HIDE DEF h
    <3> QED
      BY <2>2, <3>1, Zenon DEF Patches1
  <2> QED
    BY <2>3
<1> HIDE DEF N
<1>3. Nat \subseteq N
  BY <1>1, <1>2, Induction, Zenon
<1> QED
  BY <1>3 DEF N

\* The outcome of a list, reached operation by operation.
Reaches(h, s, p, c) ==
  /\ h[0] = Begun(s) /\ Patched(s, p, c) = h[Len(p)]
  /\ \A i \in 1..Len(p) : h[i] = Does(h[i - 1], p[i], c)

LEMMA PatchedSteps ==
  ASSUME NEW s, NEW p \in Lists, NEW c
  PROVE  \E h : Reaches(h, s, p, c)
<1> DEFINE n == Len(p)
           g == CHOOSE f : Patches1(f, s, p, c, DOMAIN p)
<1>1. n \in Nat /\ DOMAIN p = 1..n
  BY DEF Lists
<1>2. Patched(s, p, c) = g[DOMAIN p]
  BY Zenon DEF Patched, FoldLeft, MapThenFoldSet, Patches1, Does, Begun
<1>3. Patches1(g, s, p, c, 1..n)
  BY <1>1, PatchesExist, Zenon
<1> HIDE DEF g
<1> DEFINE h == [i \in 0..n |-> g[1..i]]
<1>4. h[0] = Begun(s)
  <2>1. 1..0 = {} /\ 1..0 \in SUBSET (1..n)
    OBVIOUS
  <2>2. g[1..0] = Begun(s)
    BY <1>3, <2>1, Zenon DEF Patches1
  <2> QED
    BY <1>1, <2>2
<1>5. ASSUME NEW i \in 1..n
      PROVE  h[i] = Does(h[i - 1], p[i], c)
  <2>a. i \in Nat /\ i >= 1 /\ i <= n
    BY <1>1
  <2>b. 1..i \in SUBSET (1..n) /\ i \in 1..i
    BY <1>1, <2>a
  <2>c. (1..i) \ {i} = 1..(i - 1)
    BY <2>a
  <2>1. 1..i \in SUBSET (1..n) /\ 1..i # {} /\ (1..i) \ {i} = 1..(i - 1)
    BY <2>b, <2>c, Zenon
  <2>2. Max(1..i) = i
    <3>1. i \in 1..i /\ \A y \in 1..i : i >= y
      BY <1>1
    <3>2. \A x \in 1..i : (\A y \in 1..i : x >= y) => x = i
      BY <1>1
    <3> QED
      BY <3>1, <3>2 DEF Max
  <2>3. g[1..i] = Does(g[1..(i - 1)], p[i], c)
    BY <1>3, <2>1, <2>2, Zenon DEF Patches1
  <2>4. i \in 0..n /\ i - 1 \in 0..n
    BY <1>1
  <2> QED
    BY <2>3, <2>4
<1> HIDE DEF h
<1>6. Patched(s, p, c) = h[n]
  BY <1>1, <1>2 DEF h
<1>7. Reaches(h, s, p, c)
  BY <1>4, <1>5, <1>6, Zenon DEF Reaches
<1> QED
  BY <1>7
-----------------------------------------------------------------------------

\* One operation touches one key, or ends the list.
LEMMA DoesFacts ==
  ASSUME NEW r \in Results, NEW o \in Operations, NEW c \in Calls
  PROVE  /\ Does(r, o, c) \in Results
         /\ Does(r, o, c).fits => /\ r.fits /\ Does(r, o, c).keys = r.keys \cup {o.key}
                                  /\ Does(r, o, c).state[o.key] = IF o.op = "put" THEN c ELSE None
         /\ ~Does(r, o, c).fits => Does(r, o, c).keys = r.keys /\ Does(r, o, c).state = r.state
         /\ \A k \in Keys \ {o.key} : Does(r, o, c).state[k] = r.state[k]
<1>1. CASE ~r.fits \/ o.op = "misfit" \/ (o.op = "drop" /\ r.state[o.key] = None)
  <2>1. Does(r, o, c) = [r EXCEPT !.fits = FALSE]
    BY <1>1 DEF Does
  <2> QED
    BY <2>1 DEF Results
<1>2. CASE ~(~r.fits \/ o.op = "misfit" \/ (o.op = "drop" /\ r.state[o.key] = None))
  <2> DEFINE x == [r.state EXCEPT ![o.key] = IF o.op = "put" THEN c ELSE None]
             y == r.keys \cup {o.key}
  <2>1. Does(r, o, c) = [r EXCEPT !.state = x, !.keys = y]
    BY <1>2 DEF Does, Results
  <2>2. /\ x \in States /\ y \in SUBSET Keys
        /\ x[o.key] = IF o.op = "put" THEN c ELSE None
        /\ \A k \in Keys \ {o.key} : x[k] = r.state[k]
    BY DEF Results, States, Operations
  <2> HIDE DEF x, y
  <2>3. /\ Does(r, o, c) \in Results /\ Does(r, o, c).state = x /\ Does(r, o, c).keys = y
        /\ Does(r, o, c).fits = r.fits
    BY <2>1, <2>2 DEF Results
  <2> QED
    BY <1>2, <2>2, <2>3 DEF y
<1> QED
  BY <1>1, <1>2

\* A list touches only keys of its own, all of them if it fits.
LEMMA PatchedFacts ==
  ASSUME NEW s \in States, NEW p \in Lists, NEW c \in Calls
  PROVE  /\ Patched(s, p, c) \in Results /\ Patched(s, p, c).keys \subseteq KeysOf(p)
         /\ Patched(s, p, c).fits => Patched(s, p, c).keys = KeysOf(p)
         /\ \A k \in Keys \ Patched(s, p, c).keys : Patched(s, p, c).state[k] = s[k]
<1>1h. PICK h : Reaches(h, s, p, c)
  BY PatchedSteps
<1>1. /\ h[0] = Begun(s) /\ Patched(s, p, c) = h[Len(p)]
      /\ \A i \in 1..Len(p) : h[i] = Does(h[i - 1], p[i], c)
  BY <1>1h, Zenon DEF Reaches
<1>2. Len(p) \in Nat /\ \A i \in 1..Len(p) : p[i] \in Operations
  BY DEF Lists
<1> DEFINE Good(i) == /\ h[i] \in Results /\ h[i].keys \subseteq {p[j].key : j \in 1..i}
                      /\ h[i].fits => h[i].keys = {p[j].key : j \in 1..i}
                      /\ \A k \in Keys \ h[i].keys : h[i].state[k] = s[k]
           N == {i \in Nat : i <= Len(p) => Good(i)}
<1>3. 0 \in N
  <2>1. Begun(s) \in Results /\ Begun(s).keys = {} /\ Begun(s).state = s /\ 1..0 = {}
    BY DEF Begun, Results
  <2>2. Good(0)
    BY <1>1, <2>1
  <2> QED
    BY <2>2
<1>4. ASSUME NEW i \in Nat, i \in N
      PROVE  i + 1 \in N
  <2> SUFFICES ASSUME i + 1 <= Len(p) PROVE Good(i + 1)
    OBVIOUS
  <2>1. Good(i) /\ i + 1 \in 1..Len(p) /\ (i + 1) - 1 = i
    BY <1>2, <1>4
  <2>2. h[i + 1] = Does(h[i], p[i + 1], c) /\ p[i + 1] \in Operations
    BY <1>1, <1>2, <2>1, Zenon
  <2>3. {p[j].key : j \in 1..(i + 1)} = {p[j].key : j \in 1..i} \cup {p[i + 1].key}
    <3>1. \A j : j \in 1..(i + 1) <=> j \in 1..i \/ j = i + 1
      OBVIOUS
    <3> QED
      BY <3>1, Zenon
  <2> DEFINE d == Does(h[i], p[i + 1], c)
             key == p[i + 1].key
  <2>r. h[i] \in Results
    BY <2>1
  <2>4. /\ d \in Results
        /\ d.fits => h[i].fits /\ d.keys = h[i].keys \cup {key}
        /\ ~d.fits => d.keys = h[i].keys /\ d.state = h[i].state
        /\ \A k \in Keys \ {key} : d.state[k] = h[i].state[k]
    BY <2>2, <2>r, DoesFacts DEF d, key
  <2> HIDE DEF d, key
  <2>5. /\ d.keys \subseteq {p[j].key : j \in 1..i} \cup {key}
        /\ d.fits => d.keys = {p[j].key : j \in 1..i} \cup {key}
        /\ \A k \in Keys \ d.keys : d.state[k] = s[k]
    <3>1. CASE d.fits
      BY <3>1, <2>1, <2>4
    <3>2. CASE ~d.fits
      BY <3>2, <2>1, <2>4
    <3> QED
      BY <3>1, <3>2
  <2> QED
    BY <2>2, <2>3, <2>4, <2>5, Zenon DEF d, key
<1> HIDE DEF N
<1>5. Len(p) \in N
  BY <1>2, <1>3, <1>4, Induction, Zenon
<1>6. Good(Len(p)) /\ DOMAIN p = 1..Len(p)
  BY <1>2, <1>5 DEF N, Lists
<1> QED
  BY <1>1, <1>6, Zenon DEF KeysOf

\* What it writes into them does not depend on what they held.
LEMMA PatchedAgree ==
  ASSUME NEW s \in States, NEW z \in States, NEW p \in Lists, NEW c \in Calls,
         Patched(s, p, c).fits, Patched(z, p, c).fits
  PROVE  \A k \in KeysOf(p) : Patched(s, p, c).state[k] = Patched(z, p, c).state[k]
<1>1h. PICK h : Reaches(h, s, p, c)
  BY PatchedSteps
<1>1. /\ h[0] = Begun(s) /\ Patched(s, p, c) = h[Len(p)]
      /\ \A i \in 1..Len(p) : h[i] = Does(h[i - 1], p[i], c)
  BY <1>1h, Zenon DEF Reaches
<1>2g. PICK g : Reaches(g, z, p, c)
  BY PatchedSteps
<1>2. /\ g[0] = Begun(z) /\ Patched(z, p, c) = g[Len(p)]
      /\ \A i \in 1..Len(p) : g[i] = Does(g[i - 1], p[i], c)
  BY <1>2g, Zenon DEF Reaches
<1>3. Len(p) \in Nat /\ \A i \in 1..Len(p) : p[i] \in Operations
  BY DEF Lists
<1> DEFINE Good(i) == /\ h[i] \in Results /\ g[i] \in Results
                      /\ h[i].fits /\ g[i].fits => /\ h[i].keys = g[i].keys
                           /\ \A k \in h[i].keys : h[i].state[k] = g[i].state[k]
           N == {i \in Nat : i <= Len(p) => Good(i)}
<1>4. 0 \in N
  <2>1. /\ Begun(s) \in Results /\ Begun(s).keys = {}
        /\ Begun(z) \in Results /\ Begun(z).keys = {}
    BY DEF Begun, Results
  <2>2. Good(0)
    BY <1>1, <1>2, <2>1, Zenon
  <2> QED
    BY <2>2
<1>5. ASSUME NEW i \in Nat, i \in N
      PROVE  i + 1 \in N
  <2> SUFFICES ASSUME i + 1 <= Len(p) PROVE Good(i + 1)
    OBVIOUS
  <2>1. Good(i) /\ i + 1 \in 1..Len(p) /\ (i + 1) - 1 = i
    BY <1>3, <1>5
  <2>2. /\ h[i + 1] = Does(h[i], p[i + 1], c) /\ g[i + 1] = Does(g[i], p[i + 1], c)
        /\ p[i + 1] \in Operations
    BY <1>1, <1>2, <1>3, <2>1, Zenon
  <2> DEFINE d == Does(h[i], p[i + 1], c)
             e == Does(g[i], p[i + 1], c)
             o == p[i + 1]
             w == IF o.op = "put" THEN c ELSE None
  <2>r. h[i] \in Results /\ g[i] \in Results
    BY <2>1
  <2>3. /\ d \in Results /\ \A k \in Keys \ {o.key} : d.state[k] = h[i].state[k]
        /\ d.fits => h[i].fits /\ d.keys = h[i].keys \cup {o.key} /\ d.state[o.key] = w
    BY <2>2, <2>r, DoesFacts
  <2>4. /\ e \in Results /\ \A k \in Keys \ {o.key} : e.state[k] = g[i].state[k]
        /\ e.fits => g[i].fits /\ e.keys = g[i].keys \cup {o.key} /\ e.state[o.key] = w
    BY <2>2, <2>r, DoesFacts
  <2> HIDE DEF d, e, o, w
  <2>5. d.fits /\ e.fits => d.keys = e.keys /\ \A k \in d.keys : d.state[k] = e.state[k]
    BY <2>1, <2>3, <2>4 DEF Results
  <2> QED
    BY <2>2, <2>3, <2>4, <2>5, Zenon DEF d, e
<1> HIDE DEF N
<1>6. Len(p) \in N
  BY <1>3, <1>4, <1>5, Induction, Zenon
<1>7. Good(Len(p))
  BY <1>3, <1>6 DEF N
<1>8. Patched(s, p, c).keys = KeysOf(p)
  BY PatchedFacts
<1> QED
  BY <1>1, <1>2, <1>7, <1>8, Zenon

-----------------------------------------------------------------------------
(* The client's copy.                                                      *)

Events == [type : {"snapshot"}, state : States]
          \cup [type : {"delta"}, ops : Lists, by : Calls]
Boards == [channel : [state : States, touched : SUBSET Keys], unsent : SUBSET Keys,
           queue : Seq(Events)]

\* What the client has after an event, and the keys of one it could not take.
Taken(s, e) ==
  IF e.type = "snapshot" THEN e.state
  ELSE IF Patched(s, e.ops, e.by).fits THEN Patched(s, e.ops, e.by).state ELSE s
Missed(s, e) ==
  IF e.type = "snapshot" \/ Patched(s, e.ops, e.by).fits THEN {} ELSE KeysOf(e.ops)

\* The queue leads a client that has s to the run's state, but for the keys left out.
Leads(s, q, left, now) ==
  \E t : /\ t[0] = s /\ \A i \in 1..Len(q) : t[i] \in States /\ t[i] = Taken(t[i - 1], q[i])
         /\ \A k \in Keys \ left : \/ t[Len(q)][k] = now[k]
                                   \/ \E i \in 1..Len(q) : k \in Missed(t[i - 1], q[i])

\* A key the client knows of was carried into the run, or has a value effects gave it.
Marked(sh, from) ==
  \A k \in Keys \ sh.unsent : IF k \in sh.channel.touched THEN sh.channel.state[k] # None
                              ELSE sh.channel.state[k] = from[k]

Board == [channel |-> channel, unsent |-> unsent, queue |-> queue]

Shown(sh) == /\ sh \in Boards /\ client \in States /\ carried \in States
             /\ Leads(client, sh.queue, sh.unsent, sh.channel.state) /\ Marked(sh, carried)
Followed == Shown(Board)

\* Whatever the client has when it comes, an event keeps it in step with a change.
Carries(e, left, now, left1, state1) ==
  \A z \in States :
    /\ Taken(z, e) \in States
    /\ \A k \in Keys \ left1 :
         \/ Taken(z, e)[k] = state1[k] \/ k \in Missed(z, e)
         \/ k \notin left /\ (z[k] = now[k] => Taken(z, e)[k] = state1[k])

\* Sending one more event.
LEMMA LeadsMore ==
  ASSUME NEW s \in States, NEW q \in Seq(Events), NEW left, NEW now, Leads(s, q, left, now),
         NEW e \in Events, NEW left1, NEW state1,
         Carries(e, left, now, left1, state1)
  PROVE  Leads(s, Append(q, e), left1, state1)
<1>1. PICK t : /\ t[0] = s /\ \A i \in 1..Len(q) : t[i] \in States /\ t[i] = Taken(t[i - 1], q[i])
               /\ \A k \in Keys \ left : \/ t[Len(q)][k] = now[k]
                                         \/ \E i \in 1..Len(q) : k \in Missed(t[i - 1], q[i])
  BY Zenon DEF Leads
<1> DEFINE n == Len(q)
           r == Append(q, e)
<1>2. /\ n \in Nat /\ Len(r) = n + 1 /\ r[n + 1] = e
      /\ \A i \in 1..n : r[i] = q[i]
  OBVIOUS
<1> HIDE DEF n, r
<1> DEFINE u == [i \in 0..(n + 1) |-> IF i = n + 1 THEN Taken(t[n], e) ELSE t[i]]
<1>3. /\ \A i \in 0..n : u[i] = t[i]
      /\ u[n + 1] = Taken(t[n], e)
  BY <1>2
<1> HIDE DEF u
<1>4. t[n] \in States
  BY <1>1, <1>2 DEF n
<1>8. Taken(t[n], e) \in States
  BY <1>4, Zenon DEF Carries
<1>7. \A k \in Keys \ left1 :
         \/ Taken(t[n], e)[k] = state1[k] \/ k \in Missed(t[n], e)
         \/ k \notin left /\ (t[n][k] = now[k] => Taken(t[n], e)[k] = state1[k])
  BY <1>4, Zenon DEF Carries
<1>5. ASSUME NEW i \in 1..(n + 1)
      PROVE  u[i] \in States /\ u[i] = Taken(u[i - 1], r[i]) /\ u[i - 1] = t[i - 1]
  <2>1. CASE i = n + 1
    <3>1. u[i - 1] = t[n] /\ i - 1 = n
      BY <2>1, <1>2, <1>3
    <3> QED
      BY <2>1, <3>1, <1>2, <1>3, <1>8
  <2>2. CASE i \in 1..n
    <3>1. i \in 0..n /\ i - 1 \in 0..n
      BY <2>2, <1>2
    <3> QED
      BY <2>2, <3>1, <1>1, <1>2, <1>3, Zenon DEF n
  <2> QED
    BY <2>1, <2>2, <1>2
<1>6. ASSUME NEW k \in Keys \ left1
      PROVE  \/ u[n + 1][k] = state1[k]
             \/ \E i \in 1..(n + 1) : k \in Missed(u[i - 1], r[i])
  <2>1. CASE k \in Missed(t[n], e)
    <3>1. n + 1 \in 1..(n + 1) /\ u[(n + 1) - 1] = t[n]
      BY <1>2, <1>3
    <3> QED
      BY <2>1, <3>1, <1>2
  <2>2. CASE k \notin left /\ t[n][k] = now[k] /\ (t[n][k] = now[k] => Taken(t[n], e)[k] = state1[k])
    BY <2>2, <1>3
  <2>3. CASE \E i \in 1..n : k \in Missed(t[i - 1], q[i])
    <3>1. PICK i \in 1..n : k \in Missed(t[i - 1], q[i])
      BY <2>3
    <3>2. i \in 1..(n + 1) /\ r[i] = q[i] /\ u[i - 1] = t[i - 1]
      BY <1>2, <1>5
    <3> QED
      BY <3>1, <3>2
  <2> QED
    BY <1>1, <1>3, <1>7, <2>1, <2>2, <2>3 DEF n
<1>9. u[0] = s
  BY <1>1, <1>2, <1>3
<1>10. Leads(s, r, left1, state1)
  BY <1>2, <1>5, <1>6, <1>9, Zenon DEF Leads
<1> QED
  BY <1>10 DEF r

\* An effect keeps the client's queue leading to the run's state.
LEMMA ApplyShown ==
  ASSUME NEW sh, Shown(sh), NEW p \in Lists, NEW c \in Calls
  PROVE  Shown(Apply(sh, p, c))
<1> DEFINE s == sh.channel.state
           x == Patched(s, p, c)
           gone == {k \in x.keys : x.state[k] = None}
           a == Apply(sh, p, c)
<1>1. /\ sh.channel.state \in States /\ sh.channel.touched \subseteq Keys
      /\ sh.unsent \subseteq Keys /\ sh.queue \in Seq(Events)
  BY DEF Shown, Boards
<1>2. /\ x \in Results /\ x.keys \subseteq KeysOf(p)
      /\ x.fits => x.keys = KeysOf(p)
      /\ \A k \in Keys \ x.keys : x.state[k] = s[k]
  BY <1>1, PatchedFacts
<1>3. /\ a.channel.state = x.state
      /\ a.channel.touched = IF x.fits THEN sh.channel.touched \cup x.keys ELSE sh.channel.touched
      /\ a.unsent = IF x.fits THEN (sh.unsent \ x.keys) \cup gone ELSE sh.unsent \cup x.keys
      /\ a.queue = IF p = <<>> \/ ~x.fits THEN sh.queue
                   ELSE Append(sh.queue, [type |-> "delta", ops |-> p, by |-> c])
      /\ a = [channel |-> [state |-> a.channel.state, touched |-> a.channel.touched],
              unsent |-> a.unsent, queue |-> a.queue]
  BY DEF Apply, Touch
<1> DEFINE e == [type |-> "delta", ops |-> p, by |-> c]
<1>4. e \in Events /\ e.type = "delta" /\ e.ops = p /\ e.by = c
  BY DEF Events
<1>5. x.keys \subseteq Keys /\ x.state \in States /\ x.fits \in BOOLEAN
  BY <1>2 DEF Results
<1> HIDE DEF x, s, a, e
<1>6. a \in Boards
  <2>1. a.channel.touched \subseteq Keys /\ a.unsent \subseteq Keys /\ a.channel.state \in States
    BY <1>1, <1>3, <1>5
  <2>2. a.queue \in Seq(Events)
    BY <1>1, <1>3, <1>4 DEF e
  <2> DEFINE ch == [state |-> a.channel.state, touched |-> a.channel.touched]
  <2>3. ch \in [state : States, touched : SUBSET Keys]
    BY <2>1
  <2>4. a = [channel |-> ch, unsent |-> a.unsent, queue |-> a.queue]
    BY <1>3
  <2> HIDE DEF ch
  <2> QED
    BY <2>1, <2>2, <2>3, <2>4 DEF Boards
<1>7. Marked(a, carried)
  <2>1. CASE x.fits
    BY <2>1, <1>1, <1>2, <1>3, <1>5 DEF Marked, Shown, s
  <2>2. CASE ~x.fits
    BY <2>2, <1>1, <1>2, <1>3, <1>5 DEF Marked, Shown, s
  <2> QED
    BY <2>1, <2>2
<1>8. Leads(client, a.queue, a.unsent, a.channel.state)
  <2>0. Leads(client, sh.queue, sh.unsent, s) /\ client \in States
    BY DEF Shown, s
  <2>1. CASE ~x.fits
    <3>1. a.queue = sh.queue /\ a.unsent = sh.unsent \cup x.keys /\ a.channel.state = x.state
      BY <2>1, <1>3
    <3>2. \A k \in Keys \ a.unsent : k \in Keys \ sh.unsent /\ a.channel.state[k] = s[k]
      BY <3>1, <1>2
    <3> QED
      BY <2>0, <3>1, <3>2, Zenon DEF Leads
  <2>2. CASE x.fits /\ p = <<>>
    <3>1. x.keys = {}
      BY <2>2, <1>2 DEF KeysOf
    <3>2. a.queue = sh.queue /\ a.unsent = sh.unsent /\ a.channel.state = x.state
      BY <2>2, <3>1, <1>3
    <3>3. \A k \in Keys \ a.unsent : k \in Keys \ sh.unsent /\ a.channel.state[k] = s[k]
      BY <3>1, <3>2, <1>2
    <3> QED
      BY <2>0, <3>2, <3>3, Zenon DEF Leads
  <2>3. CASE x.fits /\ p # <<>>
    <3>1. /\ a.queue = Append(sh.queue, e) /\ a.unsent = (sh.unsent \ x.keys) \cup gone
          /\ a.channel.state = x.state
      BY <2>3, <1>3 DEF e
    <3>2. ASSUME NEW z \in States
          PROVE  /\ Taken(z, e) \in States
                 /\ \A k \in Keys \ a.unsent :
                      \/ Taken(z, e)[k] = x.state[k] \/ k \in Missed(z, e)
                      \/ k \notin sh.unsent /\ (z[k] = s[k] => Taken(z, e)[k] = x.state[k])
      <4> DEFINE y == Patched(z, p, c)
      <4>1. /\ y \in Results /\ y.keys \subseteq KeysOf(p)
            /\ y.fits => y.keys = KeysOf(p)
            /\ \A k \in Keys \ y.keys : y.state[k] = z[k]
        BY PatchedFacts
      <4>2. /\ Taken(z, e) = IF y.fits THEN y.state ELSE z
            /\ Missed(z, e) = IF y.fits THEN {} ELSE KeysOf(p)
        BY <1>4 DEF Taken, Missed
      <4>3. y.fits => \A k \in KeysOf(p) : x.state[k] = y.state[k]
        BY <1>1, <2>3, PatchedAgree DEF x, s
      <4>4. x.keys = KeysOf(p) /\ y.state \in States
        BY <1>2, <2>3, <4>1 DEF Results
      <4> HIDE DEF y
      <4>5. CASE y.fits
        BY <4>1, <4>2, <4>3, <4>4, <4>5, <3>1, <1>2
      <4>6. CASE ~y.fits
        BY <4>2, <4>4, <4>6, <3>1, <1>2
      <4> QED
        BY <4>5, <4>6
    <3>3. Carries(e, sh.unsent, s, a.unsent, x.state)
      BY <3>2, Zenon DEF Carries
    <3>4. client \in States /\ sh.queue \in Seq(Events) /\ e \in Events
          /\ Leads(client, sh.queue, sh.unsent, s)
      BY <2>0, <1>1, <1>4, Zenon
    <3> HIDE DEF gone
    <3>5. Leads(client, Append(sh.queue, e), a.unsent, x.state)
      BY <3>3, <3>4, LeadsMore, Zenon
    <3> QED
      BY <3>1, <3>5, Zenon
  <2> QED
    BY <2>1, <2>2, <2>3, <1>5
<1> QED
  BY <1>6, <1>7, <1>8 DEF Shown, a

\* At first the client and the run have nothing.
LEMMA FollowedInit == Init => Followed
<1> SUFFICES ASSUME Init PROVE Followed
  OBVIOUS
<1>1. /\ client \in States /\ carried = client /\ channel.state = client
      /\ channel.touched = {} /\ unsent = {} /\ queue = <<>>
      /\ channel = [state |-> channel.state, touched |-> channel.touched]
  BY DEF Init, States
<1>2. Board \in Boards
  BY <1>1 DEF Board, Boards
<1>3. Leads(client, queue, unsent, channel.state)
  <2> DEFINE t == [i \in {0} |-> client]
  <2>1. t[0] = client /\ Len(queue) = 0
    BY <1>1
  <2> HIDE DEF t
  <2> QED
    BY <1>1, <2>1 DEF Leads
<1>4. Marked(Board, carried)
  BY <1>1 DEF Board, Marked
<1> QED
  BY <1>1, <1>2, <1>3, <1>4 DEF Followed, Shown, Board

\* Whatever is sent, taken in or written, the client is led to the run's state.
LEMMA FollowedNext == Followed /\ [Next]_vars => Followed'
<1> SUFFICES ASSUME Followed, [Next]_vars PROVE Followed'
  OBVIOUS
<1> USE DEF loop, shared
<1>t. /\ channel.state \in States /\ channel.touched \subseteq Keys /\ unsent \subseteq Keys
      /\ queue \in Seq(Events) /\ client \in States /\ carried \in States
      /\ channel \in [state : States, touched : SUBSET Keys]
      /\ Leads(client, queue, unsent, channel.state) /\ Marked(Board, carried)
  BY DEF Followed, Shown, Board, Boards
<1>s. ASSUME UNCHANGED shared PROVE Followed'
  BY <1>s DEF Followed, Shown, Board
<1>1. ASSUME OpenChannel, UNCHANGED <<queue, client>> PROVE Followed'
  <2>1. /\ carried' = client /\ channel' = [state |-> client, touched |-> {}] /\ unsent' = {}
        /\ queue' = <<>> /\ client' = client
    BY <1>1 DEF OpenChannel
  <2>2. Board' \in Boards
    BY <1>t, <2>1 DEF Board, Boards
  <2>3. Leads(client, <<>>, {}, client)
    <3> DEFINE t == [i \in {0} |-> client]
    <3>1. t[0] = client /\ Len(<<>>) = 0
      OBVIOUS
    <3> HIDE DEF t
    <3> QED
      BY <3>1 DEF Leads
  <2>4. Marked(Board', client)
    BY <2>1 DEF Board, Marked
  <2>5. /\ Board'.queue = <<>> /\ Board'.unsent = {} /\ Board'.channel.state = client
    BY <2>1 DEF Board
  <2> QED
    BY <1>t, <2>1, <2>2, <2>3, <2>4, <2>5, Zenon DEF Followed, Shown
<1>2. ASSUME NEW c \in Calls, NEW p \in Patches, NEW q \in Patches, Effects(c, p, q),
             UNCHANGED <<carried, client>>
      PROVE  Followed'
  <2>1. p \in Lists /\ q \in Lists
    BY ToolCallsAssumption DEF Lists, Operations
  <2> DEFINE a == Apply(Board, p, c)
             b == Apply(a, q, c)
  <2>2. Shown(b)
    BY <2>1, ApplyShown, Zenon DEF Followed
  <2>3. Board' = [channel |-> b.channel, unsent |-> b.unsent, queue |-> b.queue]
    BY <1>2 DEF Effects, Board
  <2> HIDE DEF b
  <2>4. b \in Boards
    BY <2>2 DEF Shown
  <2>5. Board' = b
    BY <2>3, <2>4 DEF Boards
  <2> QED
    BY <1>2, <2>2, <2>5, Zenon DEF Followed, Shown
<1>3. CASE Snapshot
  <2> DEFINE f == Fold(carried)
             e == [type |-> "snapshot", state |-> f]
  <2>1. queue' = Append(queue, e) /\ UNCHANGED <<channel, carried, unsent, client>>
    BY <1>3 DEF Snapshot
  <2>2. f \in States
    BY <1>t DEF Fold, States
  <2>3. \A k \in Keys \ unsent : f[k] = channel.state[k]
    BY <1>t DEF Fold, Marked, Board
  <2> HIDE DEF f
  <2>4. e \in Events /\ e.type = "snapshot" /\ e.state = f
    BY <2>2 DEF Events
  <2> HIDE DEF e
  <2>5. Carries(e, unsent, channel.state, unsent, channel.state)
    BY <2>2, <2>3, <2>4 DEF Carries, Taken
  <2>6. Leads(client, Append(queue, e), unsent, channel.state)
    BY <1>t, <2>4, <2>5, LeadsMore, Zenon
  <2>7. Board' \in Boards
    BY <1>t, <2>1, <2>4 DEF Board, Boards
  <2>8. Marked(Board', carried)
    BY <1>t, <2>1 DEF Marked, Board
  <2> QED
    BY <1>t, <2>1, <2>6, <2>7, <2>8 DEF Followed, Shown, Board
<1>4. CASE Deliver
  <2> DEFINE e == Head(queue)
  <2>1. queue # <<>> /\ queue' = Tail(queue) /\ UNCHANGED <<channel, carried>>
    BY <1>4 DEF Deliver
  <2>2. e \in Events /\ e = queue[1]
    BY <1>t, <2>1
  <2>3. client' = Taken(client, e) /\ unsent' = unsent \cup Missed(client, e)
    <3>1. CASE e.type = "snapshot"
      BY <1>4, <3>1 DEF Deliver, Taken, Missed
    <3>2. CASE e.type # "snapshot"
      <4>1. e.ops \in Lists
        BY <2>2, <3>2 DEF Events
      <4>2. {o.key : o \in Range(e.ops)} = KeysOf(e.ops)
        BY Zenon DEF Range, KeysOf
      <4> QED
        BY <1>4, <3>2, <4>2 DEF Deliver, Taken, Missed
    <3> QED
      BY <3>1, <3>2
  <2>4. Missed(client, e) \subseteq Keys
    <3>1. CASE e.type # "snapshot"
      <4>1. e.ops \in Lists
        BY <2>2, <3>1 DEF Events
      <4>2. \A i \in DOMAIN e.ops : e.ops[i] \in Operations
        BY <4>1 DEF Lists
      <4>3. KeysOf(e.ops) \subseteq Keys
        BY <4>2 DEF KeysOf, Operations
      <4> QED
        BY <4>3 DEF Missed
    <3> QED
      BY <3>1 DEF Missed
  <2> HIDE DEF e
  <2>5. PICK t : /\ t[0] = client
                 /\ \A i \in 1..Len(queue) : t[i] \in States /\ t[i] = Taken(t[i - 1], queue[i])
                 /\ \A k \in Keys \ unsent :
                      \/ t[Len(queue)][k] = channel.state[k]
                      \/ \E i \in 1..Len(queue) : k \in Missed(t[i - 1], queue[i])
    BY <1>t, Zenon DEF Leads
  <2> DEFINE n == Len(Tail(queue))
             r == Tail(queue)
  <2>6. /\ n \in Nat /\ Len(queue) = n + 1 /\ \A i \in 1..n : r[i] = queue[i + 1]
    BY <1>t, <2>1
  <2> HIDE DEF n, r
  <2> DEFINE u == [i \in 0..n |-> t[i + 1]]
  <2>7. /\ u[0] = t[1] /\ u[n] = t[n + 1] /\ \A i \in 1..n : u[i] = t[i + 1] /\ u[i - 1] = t[i]
    BY <2>6
  <2> HIDE DEF u
  <2>8. t[1] = client' /\ client' \in States /\ Missed(t[1 - 1], queue[1]) = Missed(client, e)
    <3>1. 1 \in 1..Len(queue) /\ 1 - 1 = 0
      BY <2>6
    <3> QED
      BY <2>2, <2>3, <2>5, <3>1
  <2>9. \A i \in 1..n : u[i] \in States /\ u[i] = Taken(u[i - 1], r[i])
    BY <2>5, <2>6, <2>7
  <2>10. ASSUME NEW k \in Keys \ unsent'
         PROVE  u[n][k] = channel.state[k] \/ \E i \in 1..n : k \in Missed(u[i - 1], r[i])
    <3>1. k \in Keys \ unsent /\ k \notin Missed(client, e)
      BY <2>3
    <3>2. ASSUME NEW i \in 1..(n + 1), k \in Missed(t[i - 1], queue[i])
          PROVE  \E j \in 1..n : k \in Missed(u[j - 1], r[j])
      <4>1. i # 1
        BY <2>8, <3>1, <3>2
      <4>2. i - 1 \in 1..n /\ (i - 1) + 1 = i
        BY <2>6, <4>1
      <4>3. u[(i - 1) - 1] = t[i - 1] /\ r[i - 1] = queue[i]
        BY <2>6, <2>7, <4>2
      <4> QED
        BY <3>2, <4>2, <4>3
    <3>3. \/ t[n + 1][k] = channel.state[k]
          \/ \E i \in 1..(n + 1) : k \in Missed(t[i - 1], queue[i])
      BY <2>5, <2>6, <3>1, Zenon
    <3> QED
      BY <2>7, <3>2, <3>3, Zenon
  <2>11. Leads(client', r, unsent', channel.state)
    BY <2>6, <2>7, <2>8, <2>9, <2>10, Zenon DEF Leads, n, r
  <2>12. Board' \in Boards
    BY <1>t, <2>1, <2>3, <2>4 DEF Board, Boards
  <2>13. Marked(Board', carried)
    BY <1>t, <2>1, <2>3 DEF Marked, Board
  <2> QED
    BY <1>t, <2>1, <2>8, <2>11, <2>12, <2>13 DEF Followed, Shown, Board, r
<1>5. CASE Start
  BY <1>1, <1>5 DEF Start
<1>6. CASE Resume
  BY <1>1, <1>6 DEF Resume
<1>7. ASSUME NEW c \in Calls, Works(c) PROVE Followed'
  BY <1>2, <1>7 DEF Works
<1>8. ASSUME NEW c \in Calls, Fails(c) \/ Asks(c) PROVE Followed'
  BY <1>s, <1>8 DEF Fails, Asks, NoEffect
<1>9. ASSUME NEW c \in Calls, Begin(c) PROVE Followed'
  BY <1>s, <1>9 DEF Begin
<1>10. CASE EndStep \/ StopSignal \/ \E S \in SUBSET Calls : Model(S)
  BY <1>s, <1>10 DEF EndStep, StopSignal, Model
<1>11. ASSUME NEW c \in Calls, NEW x, NEW y, Expire(c) \/ Answer(c, x, y) PROVE Followed'
  BY <1>s, <1>11 DEF Expire, Answer
<1>12. CASE UNCHANGED vars
  BY <1>s, <1>12 DEF vars
<1> QED
  BY <1>3, <1>4, <1>5, <1>6, <1>7, <1>8, <1>9, <1>10, <1>11, <1>12 DEF Next, Agent

\* With nothing left on its way, the client's state is the run's, for any lists of
\* operations, however their events, snapshots and later effects follow on each other.
THEOREM ClientFollows == Spec => []CanvasFollows
<1>1. Followed => CanvasFollows
  <2> SUFFICES ASSUME Followed, queue = <<>> PROVE \A k \in Keys \ unsent : client[k] = channel.state[k]
    BY DEF CanvasFollows
  <2>1. Leads(client, <<>>, unsent, channel.state) /\ Len(<<>>) = 0
    BY DEF Followed, Shown, Board
  <2> QED
    BY <2>1 DEF Leads
<1>2. Followed /\ [Next]_vars => Followed'
  BY FollowedNext
<1>3. Spec => []Followed
  BY <1>2, FollowedInit, PTL DEF Spec
<1> QED
  BY <1>1, <1>3, PTL

=============================================================================
