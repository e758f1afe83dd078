-------------------------- MODULE DelegateTurns_proofs --------------------------
(***************************************************************************)
(* Proofs about DelegateTurns, for any calls, gated tools and bounds.      *)
(*                                                                         *)
(* Account is the inductive invariant: the lock has one holder, and an     *)
(* approved card is spent by the one turn that returns its call's result.  *)
(* OnePause says that the delegate pauses once in the step, that the pause *)
(* is what every run after it carries, and whose it is.                    *)
(***************************************************************************)
EXTENDS DelegateTurns, FiniteSetTheorems, TLAPS

\* The calls that carry an approval of a gated tool they have not spent yet.
Due(g) == {c \in Calls : asks[c][g] = "approved" /\ pc[c] # "result"}

\* Runs of a delegate's tool, and those still due, against its approved cards.
Ledger == \A g \in Gates : ran[g] + Cardinality(Due(g)) <= approvals[g]

\* Before the step is made, no call has got anywhere.
Unmade == phase = "idle" => \A c \in Calls : pc[c] = "none"

Account == TypeOK /\ OneAtATime /\ Unmade /\ Ledger

-----------------------------------------------------------------------------
(* Typing.                                                                 *)

\* A delegate without a task, and one that was just given its input, are nodes.
LEMMA NodeTypes ==
  /\ CleanNode \in Node /\ NoPlaces \in [Calls -> Node] /\ NoAsk \in Standing
  /\ \A c \in Calls : [active |-> FALSE, task |-> c, ask |-> NoAsk] \in Node
  BY DEF CleanNode, NoPlaces, NoAsk, Node, Standing

\* _forward leaves the requests of every call well typed.
LEMMA RaiseTypes ==
  ASSUME TypeOK, NEW c \in Calls, NEW n, Raise(c, n)
  PROVE  /\ asks' \in [Calls -> Standing] /\ turn' = Free
         /\ pc' = [pc EXCEPT ![c] = "raised"]
<1>1. PICK g \in Gates : asks' = [asks EXCEPT ![c][g] = "open"]
  BY DEF Raise, Pending
<1>2. [asks[c] EXCEPT ![g] = "open"] \in Standing
  BY DEF TypeOK, Standing
<1>3. asks' = [asks EXCEPT ![c] = [asks[c] EXCEPT ![g] = "open"]]
  BY <1>1
<1> QED BY <1>2, <1>3 DEF Raise, TypeOK

\* A process that has not made the step yet is well typed.
LEMMA TypeInit == Init => TypeOK
<1> SUFFICES ASSUME Init PROVE TypeOK
  OBVIOUS
<1>1. resuming \in BOOLEAN /\ queued \in BOOLEAN
  BY Zenon DEF Init
<1>2. asks \in [Calls -> Standing]
  BY NodeTypes DEF Init
<1> QED BY <1>1, <1>2, NodeTypes DEF Init, TypeOK

\* Every turn of a call, and every step of the runs around it, keeps the types.
LEMMA TypeNext == TypeOK /\ [Next]_vars => TypeOK'
<1> SUFFICES ASSUME TypeOK, [Next]_vars PROVE TypeOK'
  OBVIOUS
<1> USE DEF TypeOK
<1>1. ASSUME NEW calls \in SUBSET Calls, NEW asking \in SUBSET Calls,
             MakeStep(calls, asking)
      PROVE  TypeOK'
  BY <1>1 DEF MakeStep
<1>2. ASSUME NEW c \in Calls, Take(c) PROVE TypeOK'
  <2> DEFINE n == Placed(c)
  <2>1. n \in Node
    BY DEF Placed
  <2>2. CASE n.active
    <3>1. node' \in Node /\ places' \in [Calls -> Node]
      BY <1>2, <2>1, <2>2 DEF Take, Kept
    <3>2. /\ asks' \in [Calls -> Standing] /\ turn' \in Calls \cup {Free}
          /\ pc' \in [Calls -> {"none", "waiting", "fresh", "answered", "raised", "result"}]
      <4>1. CASE Raise(c, n)
        BY <4>1, RaiseTypes
      <4>2. CASE pc' = [pc EXCEPT ![c] = "answered"] /\ turn' = c /\ UNCHANGED asks
        BY <4>2
      <4> QED BY <1>2, <2>2, <4>1, <4>2 DEF Take
    <3> QED BY <1>2, <3>1, <3>2 DEF Take
  <2>3. CASE ~n.active
    BY <1>2, <2>3, NodeTypes DEF Take
  <2> QED BY <2>2, <2>3
<1>3. ASSUME NEW c \in Calls, Invoke(c) PROVE TypeOK'
  <2> DEFINE asked == {g \in Gates : TaskOf[g] = c /\ c \in gated}
             n == [active |-> TRUE, task |-> node.task,
                   ask |-> [g \in Gates |-> IF g \in asked THEN "open" ELSE "none"]]
  <2>1. n \in Node
    BY DEF Node, Standing
  <2>2. CASE asked # {}
    <3>1. node' = n /\ places' = Kept(c, n) /\ Raise(c, n)
      BY <1>3, <2>2 DEF Invoke
    <3>2. queued' \in BOOLEAN
      BY <1>3, <2>2, Zenon DEF Invoke
    <3>3. /\ node' \in Node /\ places' \in [Calls -> Node]
          /\ asks' \in [Calls -> Standing] /\ turn' = Free
          /\ pc' = [pc EXCEPT ![c] = "raised"]
      BY <2>1, <3>1, RaiseTypes DEF Kept
    <3>4. answer' = answer
      BY <1>3, <2>2 DEF Invoke
    <3> HIDE DEF asked, n
    <3> QED BY <1>3, <3>2, <3>3, <3>4 DEF Invoke
  <2>3. CASE asked = {}
    BY <1>3, <2>3 DEF Invoke, Return, Node
  <2> QED BY <2>2, <2>3
<1>4. ASSUME NEW c \in Calls, Resume(c) PROVE TypeOK'
  BY <1>4, NodeTypes DEF Resume, Return, Node
<1>5. CASE EndRun
  BY <1>5 DEF EndRun
<1>6. ASSUME NEW given \in [Cards -> Decisions], NextRun(given) PROVE TypeOK'
  <2>1. asks' \in [Calls -> Standing]
    BY <1>6 DEF NextRun, Standing, Decisions
  <2>2. \A g \in Gates :
          Cardinality({c \in Calls : <<c, g>> \in Cards /\ given[<<c, g>>] = "approved"}) \in Nat
    <3> TAKE g \in Gates
    <3> QED BY DelegateTurnsAssumption, FS_Subset, FS_CardinalityType
  <2>3. approvals' \in [Gates -> Nat]
    BY <1>6, <2>2 DEF NextRun
  <2> QED BY <1>6, <2>1, <2>3, NodeTypes DEF NextRun
<1>7. CASE Restart
  BY <1>7, NodeTypes DEF Restart
<1>8. CASE UNCHANGED vars
  BY <1>8 DEF vars
<1> QED BY <1>1, <1>2, <1>3, <1>4, <1>5, <1>6, <1>7, <1>8 DEF Next, Turn

-----------------------------------------------------------------------------
(* The lock and the account.                                               *)

\* What is due of a gated tool is a finite number.
LEMMA DueFinite ==
  ASSUME NEW g
  PROVE  IsFiniteSet(Due(g)) /\ Cardinality(Due(g)) \in Nat
<1>1. IsFiniteSet(Due(g))
  BY DelegateTurnsAssumption, FS_Subset DEF Due
<1> QED BY <1>1, FS_CardinalityType

\* A step that runs nothing and adds nothing to what is due keeps the ledger.
LEMMA LedgerKept ==
  ASSUME Account, ran' = ran, approvals' = approvals,
         \A g \in Gates : Due(g)' \subseteq Due(g)
  PROVE  Ledger'
<1> SUFFICES ASSUME NEW g \in Gates
             PROVE  ran'[g] + Cardinality(Due(g)') <= approvals'[g]
  BY DEF Ledger
<1>1. IsFiniteSet(Due(g)) /\ Cardinality(Due(g)) \in Nat
  BY DueFinite
<1>2. /\ IsFiniteSet(Due(g)') /\ Cardinality(Due(g)') \in Nat
      /\ Cardinality(Due(g)') <= Cardinality(Due(g))
  BY <1>1, FS_Subset, FS_CardinalityType
<1> QED BY <1>1, <1>2 DEF Account, Ledger, TypeOK

\* The account balances before the first step.
LEMMA AccountInit == Init => Account
<1> SUFFICES ASSUME Init PROVE Account
  OBVIOUS
<1>1. \A g \in Gates : Due(g) = {}
  BY DEF Init, Due, NoAsk
<1>2. Ledger
  BY <1>1, FS_EmptySet DEF Init, Ledger
<1> QED BY <1>2, TypeInit DEF Init, Account, OneAtATime, Unmade

\* Taking a turn gives the lock to the call alone, and approves nothing.
LEMMA TakeAccount ==
  ASSUME Account, NEW c \in Calls, Take(c) PROVE Account'
<1> USE DEF Account
<1>1. TypeOK'
  BY TypeNext DEF Next, Turn
<1>2. /\ phase = "running" /\ phase' = "running" /\ pc[c] = "waiting" /\ turn = Free
      /\ ran' = ran /\ approvals' = approvals
  BY DEF Take
<1>3. /\ pc' \in [Calls -> {"none", "waiting", "fresh", "answered", "raised", "result"}]
      /\ \A d \in Calls \ {c} : pc'[d] = pc[d]
      /\ pc'[c] \in {"fresh", "answered"} => turn' = c
      /\ \A d \in Calls, g \in Gates : asks'[d][g] = "approved" => asks[d][g] = "approved"
  <2> DEFINE n == Placed(c)
  <2>1. CASE Raise(c, n) /\ n.active
    <3>1. PICK g \in Gates : asks' = [asks EXCEPT ![c][g] = "open"]
      BY <2>1 DEF Raise, Pending
    <3>2. \A d \in Calls, h \in Gates : asks'[d][h] = "approved" => asks[d][h] = "approved"
      BY <3>1 DEF TypeOK, Standing
    <3> QED BY <2>1, <3>2, RaiseTypes DEF TypeOK
  <2>2. CASE pc' = [pc EXCEPT ![c] = "answered"] /\ turn' = c /\ UNCHANGED asks
    BY <2>2 DEF TypeOK
  <2>3. CASE /\ pc' = [pc EXCEPT ![c] = "fresh"] /\ turn' = c
             /\ asks' = [asks EXCEPT ![c] = NoAsk]
    BY <2>3 DEF TypeOK, NoAsk
  <2> QED BY <2>1, <2>2, <2>3 DEF Take
<1>4. OneAtATime'
  BY <1>2, <1>3, DelegateTurnsAssumption DEF OneAtATime
<1>5. \A g \in Gates : Due(g)' \subseteq Due(g)
  BY <1>2, <1>3 DEF Due
<1> QED BY <1>1, <1>2, <1>4, <1>5, LedgerKept DEF Unmade

\* The delegate's first work for a call ends its turn, and approves nothing.
LEMMA InvokeAccount ==
  ASSUME Account, NEW c \in Calls, Invoke(c) PROVE Account'
<1> USE DEF Account
<1>1. TypeOK'
  BY TypeNext DEF Next, Turn
<1>2. /\ phase' = phase /\ pc[c] = "fresh" /\ turn = c
      /\ ran' = ran /\ approvals' = approvals
  BY DEF Invoke, OneAtATime
<1>3. /\ \A d \in Calls \ {c} : pc'[d] = pc[d]
      /\ pc'[c] \in {"raised", "result"}
      /\ \A d \in Calls, g \in Gates : asks'[d][g] = "approved" => asks[d][g] = "approved"
  <2>1. CASE \E n : Raise(c, n)
    <3>1. PICK g \in Gates : asks' = [asks EXCEPT ![c][g] = "open"]
      BY <2>1 DEF Raise, Pending
    <3>2. \A d \in Calls, h \in Gates : asks'[d][h] = "approved" => asks[d][h] = "approved"
      BY <3>1 DEF TypeOK, Standing
    <3> QED BY <2>1, <3>2, RaiseTypes DEF TypeOK
  <2>2. CASE Return(c) /\ UNCHANGED asks
    BY <2>2 DEF Return, TypeOK
  <2> QED BY <2>1, <2>2 DEF Invoke
<1>4. OneAtATime' /\ Unmade'
  BY <1>2, <1>3, DelegateTurnsAssumption DEF OneAtATime, Unmade
<1>5. \A g \in Gates : Due(g)' \subseteq Due(g)
  BY <1>2, <1>3 DEF Due
<1> QED BY <1>1, <1>2, <1>4, <1>5, LedgerKept

\* Going on with the answers spends each approval the call brought, once.
LEMMA ResumeAccount ==
  ASSUME Account, NEW c \in Calls, Resume(c) PROVE Account'
<1> USE DEF Account
<1>1. TypeOK'
  BY TypeNext DEF Next, Turn
<1>2. /\ phase' = phase /\ pc[c] = "answered" /\ turn = c /\ asks' = asks
      /\ approvals' = approvals /\ pc' = [pc EXCEPT ![c] = "result"]
  BY DEF Resume, Return, OneAtATime
<1>3. OneAtATime' /\ Unmade'
  BY <1>2, DelegateTurnsAssumption DEF OneAtATime, Unmade, TypeOK
<1>4. Ledger'
  <2> SUFFICES ASSUME NEW g \in Gates
               PROVE  ran'[g] + Cardinality(Due(g)') <= approvals'[g]
    BY DEF Ledger
  <2>1. Due(g)' = Due(g) \ {c}
    BY <1>2 DEF Due, TypeOK
  <2>2. IsFiniteSet(Due(g)) /\ Cardinality(Due(g)) \in Nat
    BY DueFinite
  <2>3. Cardinality(Due(g)') =
          IF c \in Due(g) THEN Cardinality(Due(g)) - 1 ELSE Cardinality(Due(g))
    BY <2>1, <2>2, FS_RemoveElement
  <2>4. ran'[g] = IF g \in Granted(c) THEN ran[g] + 1 ELSE ran[g]
    BY DEF Resume
  <2>5. g \in Granted(c) => c \in Due(g)
    BY <1>2 DEF Granted, Due
  <2> QED BY <1>2, <2>2, <2>3, <2>4, <2>5 DEF Ledger, TypeOK
<1> QED BY <1>1, <1>3, <1>4

\* The person's answers enter each approved card before it is due.
LEMMA NextRunAccount ==
  ASSUME Account, NEW given \in [Cards -> Decisions], NextRun(given) PROVE Account'
<1> USE DEF Account
<1>1. TypeOK'
  BY TypeNext DEF Next
<1>2. /\ phase' = "running" /\ ran' = ran /\ turn' = turn
      /\ pc' = [c \in Calls |-> IF pc[c] = "raised" THEN "waiting" ELSE pc[c]]
  BY DEF NextRun
<1>3. OneAtATime' /\ Unmade'
  BY <1>2 DEF OneAtATime, Unmade
<1>4. Ledger'
  <2> SUFFICES ASSUME NEW g \in Gates
               PROVE  ran'[g] + Cardinality(Due(g)') <= approvals'[g]
    BY DEF Ledger
  <2> DEFINE new == {c \in Calls : <<c, g>> \in Cards /\ given[<<c, g>>] = "approved"}
  <2>1. IsFiniteSet(Due(g)) /\ Cardinality(Due(g)) \in Nat
    BY DueFinite
  <2>2. IsFiniteSet(new) /\ Cardinality(new) \in Nat
    BY DelegateTurnsAssumption, FS_Subset, FS_CardinalityType
  <2>3. Due(g)' \subseteq Due(g) \cup new
    <3> SUFFICES ASSUME NEW c \in Calls, asks'[c][g] = "approved", pc'[c] # "result"
                 PROVE  c \in Due(g) \cup new
      BY DEF Due
    <3>1. asks'[c][g] = IF <<c, g>> \in Cards THEN given[<<c, g>>] ELSE asks[c][g]
      BY DEF NextRun
    <3>2. pc[c] # "result"
      BY <1>2
    <3> QED BY <3>1, <3>2 DEF Due
  <2>4. /\ IsFiniteSet(Due(g) \cup new)
        /\ Cardinality(Due(g) \cup new) <= Cardinality(Due(g)) + Cardinality(new)
    <3>1. /\ IsFiniteSet(Due(g) \cup new)
          /\ Cardinality(Due(g) \cup new) =
               Cardinality(Due(g)) + Cardinality(new) - Cardinality(Due(g) \cap new)
      BY <2>1, <2>2, FS_Union
    <3>2. Cardinality(Due(g) \cap new) \in Nat
      BY <2>1, FS_Intersection, FS_CardinalityType
    <3> QED BY <2>1, <2>2, <3>1, <3>2
  <2>5. /\ Cardinality(Due(g)') \in Nat
        /\ Cardinality(Due(g)') <= Cardinality(Due(g)) + Cardinality(new)
    <3>1. /\ IsFiniteSet(Due(g)')
          /\ Cardinality(Due(g)') <= Cardinality(Due(g) \cup new)
      BY <2>3, <2>4, FS_Subset
    <3>2. Cardinality(Due(g)') \in Nat /\ Cardinality(Due(g) \cup new) \in Nat
      BY <2>4, <3>1, FS_CardinalityType
    <3> QED BY <2>1, <2>2, <2>4, <3>1, <3>2
  <2>6. approvals'[g] = approvals[g] + Cardinality(new)
    BY DEF NextRun
  <2> QED BY <1>2, <2>1, <2>2, <2>5, <2>6 DEF Ledger, TypeOK
<1> QED BY <1>1, <1>3, <1>4

\* Every step keeps the account.
LEMMA AccountNext == Account /\ [Next]_vars => Account'
<1> SUFFICES ASSUME Account, [Next]_vars PROVE Account'
  OBVIOUS
<1>1. TypeOK'
  BY TypeNext DEF Account
<1>2. ASSUME NEW calls \in SUBSET Calls, NEW asking \in SUBSET Calls,
             MakeStep(calls, asking)
      PROVE  Account'
  <2>1. OneAtATime' /\ Unmade'
    BY <1>2 DEF MakeStep, OneAtATime, Unmade
  <2>2. \A g \in Gates : Due(g)' \subseteq Due(g)
    BY <1>2 DEF MakeStep, Account, Unmade, Due
  <2> QED BY <1>1, <1>2, <2>1, <2>2, LedgerKept DEF MakeStep, Account
<1>3. CASE EndRun \/ Restart \/ UNCHANGED vars
  <2>1. UNCHANGED <<pc, turn, asks, ran, approvals>> /\ (phase' = "idle" => phase = "idle")
    BY <1>3 DEF EndRun, Restart, vars
  <2>2. OneAtATime' /\ Unmade' /\ \A g \in Gates : Due(g)' \subseteq Due(g)
    BY <2>1 DEF Account, OneAtATime, Unmade, Due
  <2> QED BY <1>1, <2>1, <2>2, LedgerKept DEF Account
<1> QED BY <1>2, <1>3, TakeAccount, InvokeAccount, ResumeAccount, NextRunAccount
        DEF Next, Turn

-----------------------------------------------------------------------------
(* What follows from it.                                                   *)

\* The lock, the delegate and the requests only hold what the code puts there.
THEOREM TypeCorrect == Spec => []TypeOK
  BY TypeInit, TypeNext, PTL DEF Spec

\* Approved cards cover the runs of a delegate's tools and those still due.
THEOREM AccountBalances == Spec => []Account
  BY AccountInit, AccountNext, PTL DEF Spec

\* A delegate works for one call at a time, the one that has the turn, however
\* many calls a step makes to it.
THEOREM TurnsAreTaken == Spec => []OneAtATime
  BY AccountBalances, PTL DEF Account

\* A delegate's gated tool never runs without an approved card of its own, even
\* where the calls crowd a paused delegate.
THEOREM CardsCoverRuns == Spec => []OncePerCard
<1>1. Account => OncePerCard
  <2> SUFFICES ASSUME Account, NEW g \in Gates PROVE ran[g] <= approvals[g]
    BY DEF OncePerCard
  <2>1. Cardinality(Due(g)) \in Nat
    BY DueFinite
  <2> QED BY <2>1 DEF Account, Ledger, TypeOK
<1> QED BY <1>1, AccountBalances, PTL

-----------------------------------------------------------------------------
(* The pause of the step.                                                  *)

\* A call that the delegate's pause is about, or that came to it while it lasted.
Held(c) == pc[c] \in {"raised", "answered"} \/ (resuming /\ pc[c] = "waiting")

\* P is the pause of the step: the delegate's, if it is paused, the place kept for
\* each call that raised a request, and the one carried for each that goes on.
\* If no call came to it, it is its own call's.
PauseIs(P) ==
  /\ P.active /\ (node.active => node = P)
  /\ \A c \in Calls : pc[c] = "raised" => places[c] = P
  /\ \A c \in Calls : resuming /\ pc[c] = "waiting" => inbound[c] = P
  /\ ~queued => /\ \A c \in Calls : Held(c) => c = P.task
                /\ \A g \in Gates : \/ approvals[g] = 0
                                    \/ approvals[g] = 1 /\ P.task \in Calls
                                                        /\ asks[P.task][g] = "approved"

\* Until a run resumes nothing is answered, and a request means a paused delegate.
FirstRun ==
  ~resuming =>
    /\ \A c \in Calls, g \in Gates : asks[c][g] \notin Decisions
    /\ \A g \in Gates : approvals[g] = 0
    /\ node.active => Pending(node) # {}
    /\ phase = "running" => \A c \in Calls : pc[c] = "raised" => node.active
    /\ node.active /\ ~queued => \A c \in Calls : pc[c] # "waiting"

\* A call at work holds a delegate that is clean and its own in the first run,
\* and paused in a later one.
AtWork ==
  \A c \in Calls :
    /\ pc[c] = "fresh" => ~resuming /\ ~node.active /\ node.task = c
    /\ pc[c] = "answered" => resuming /\ node.active

\* Where the calls are before the step, outside it and between its runs.
Between ==
  /\ phase = "idle" => ~resuming /\ ~node.active
  /\ phase # "running" => \A c \in Calls : pc[c] \in {"none", "raised", "result"}
  /\ \A c \in Calls \ step : pc[c] = "none"
  /\ \A c \in Calls, g \in Gates : asks[c][g] = "open" => pc[c] = "raised"

\* While the delegate took no call during its pause, each result is the call's own.
Results == ~queued => \A c \in Calls : answer[c] \in {c, Free}

OnePause ==
  Account /\ (\E P \in Node : PauseIs(P)) /\ FirstRun /\ AtWork /\ Between /\ Results

\* The conjuncts that a step with the calls, the delegate and the run's state
\* unchanged keeps.
LEMMA PauseKept ==
  ASSUME OnePause, UNCHANGED <<pc, node, asks, resuming, inbound, places, approvals, answer,
                               queued, step>>,
         phase' = phase \/ (phase = "running" /\ phase' \in {"paused", "over"}),
         phase' # "running" => \A c \in Calls : pc[c] \in {"none", "raised", "result"},
         Account'
  PROVE  OnePause'
<1> USE DEF OnePause
<1>1. PICK P \in Node : PauseIs(P)
  OBVIOUS
<1>2. PauseIs(P)'
  BY <1>1 DEF PauseIs, Held
<1>3. FirstRun' /\ AtWork' /\ Between' /\ Results'
  BY DEF FirstRun, AtWork, Between, Results, Pending
<1> QED BY <1>2, <1>3

\* Before the step there is no pause, and any will do.
LEMMA PauseInit == Init => OnePause
<1> SUFFICES ASSUME Init PROVE OnePause
  OBVIOUS
<1> DEFINE P == [active |-> TRUE, task |-> Free, ask |-> NoAsk]
<1>1. P \in Node
  BY NodeTypes DEF Node
<1>2. PauseIs(P)
  BY DEF Init, PauseIs, Held, CleanNode
<1>3. FirstRun /\ AtWork /\ Between /\ Results
  BY DEF Init, FirstRun, AtWork, Between, Results, CleanNode, NoAsk, Decisions
<1> QED BY <1>1, <1>2, <1>3, AccountInit DEF OnePause

\* The step is made of calls that wait, while the delegate is clean.
LEMMA MakeStepPause ==
  ASSUME OnePause, NEW calls \in SUBSET Calls, NEW asking \in SUBSET Calls,
         MakeStep(calls, asking), Account'
  PROVE  OnePause'
<1> USE DEF OnePause
<1>1. PICK P \in Node : PauseIs(P)
  OBVIOUS
<1>2. /\ phase = "idle" /\ phase' = "running" /\ ~resuming /\ ~node.active
      /\ \A c \in Calls : pc[c] = "none"
      /\ \A c \in Calls : pc'[c] = IF c \in calls THEN "waiting" ELSE "none"
      /\ step' = calls
      /\ UNCHANGED <<node, asks, resuming, inbound, places, approvals, answer, queued>>
  BY DEF MakeStep, Between, Account, Unmade
<1>3. PauseIs(P)'
  BY <1>1, <1>2 DEF PauseIs, Held
<1>4. FirstRun' /\ AtWork' /\ Between' /\ Results'
  BY <1>2 DEF FirstRun, AtWork, Between, Results, Pending
<1> QED BY <1>3, <1>4

\* A call that gets its turn in a run that resumes comes to the pause.
LEMMA PlacedIs ==
  ASSUME OnePause, NEW P \in Node, PauseIs(P), NEW c \in Calls, pc[c] = "waiting",
         Placed(c).active
  PROVE  Placed(c) = P
  BY DEF Placed, PauseIs

\* Forwarding leaves a call with a request of the pause, which it had not raised.
LEMMA RaiseAsks ==
  ASSUME TypeOK, NEW c \in Calls, NEW n, Raise(c, n)
  PROVE  /\ \A d \in Calls, g \in Gates :
              asks'[d][g] = asks[d][g] \/ (d = c /\ asks[d][g] = "none" /\ asks'[d][g] = "open")
         /\ pc' = [pc EXCEPT ![c] = "raised"]
<1>1. PICK g \in Gates : asks[c][g] = "none" /\ asks' = [asks EXCEPT ![c][g] = "open"]
  BY DEF Raise, Pending
<1> QED BY <1>1 DEF TypeOK, Standing, Raise

\* A turn keeps the pause: it forwards its requests, goes on with its answers,
\* or, in the first run and on a clean delegate, starts on a task.
LEMMA TakePause ==
  ASSUME OnePause, NEW c \in Calls, Take(c), Account'
  PROVE  OnePause'
<1> USE DEF OnePause
<1>1. PICK P \in Node : PauseIs(P)
  OBVIOUS
<1> DEFINE n == Placed(c)
<1>2. /\ phase = "running" /\ phase' = "running" /\ pc[c] = "waiting" /\ turn = Free
      /\ UNCHANGED <<step, resuming, inbound, approvals, answer, queued>>
  BY DEF Take
<1>3. TypeOK /\ c # Free /\ \A d \in Calls : pc[d] \notin {"fresh", "answered"}
  BY <1>2, DelegateTurnsAssumption DEF Account, OneAtATime
<1>4. Results'
  BY <1>2 DEF Results
<1>5. CASE n.active
  <2>1. n = P
    BY <1>1, <1>2, <1>5, PlacedIs
  <2>2. node' = P /\ places' = [places EXCEPT ![c] = P]
    BY <1>5, <2>1 DEF Take, Kept
  <2>3. CASE Raise(c, n)
    <3>1. /\ \A d \in Calls, g \in Gates :
               asks'[d][g] = asks[d][g] \/ (d = c /\ asks[d][g] = "none" /\ asks'[d][g] = "open")
          /\ pc' = [pc EXCEPT ![c] = "raised"]
      BY <1>3, <2>3, RaiseAsks
    <3>2. \A d \in Calls : pc'[d] = IF d = c THEN "raised" ELSE pc[d]
      BY <1>3, <3>1 DEF TypeOK
    <3>3. PauseIs(P)'
      <4>1. ~queued /\ ~resuming => FALSE
        <5>1. ~resuming => node.active
          BY <1>5 DEF Placed
        <5> QED BY <1>2, <5>1 DEF FirstRun
      <4>2. \A d \in Calls : Held(d)' => Held(d) \/ ~resuming
        BY <1>2, <3>2 DEF Held
      <4>3. ~queued => \A d \in Calls : Held(d)' => d = P.task
        BY <1>1, <4>1, <4>2 DEF PauseIs
      <4>4. ~queued => \A g \in Gates : \/ approvals'[g] = 0
                                        \/ approvals'[g] = 1 /\ P.task \in Calls
                                             /\ asks'[P.task][g] = "approved"
        BY <1>1, <1>2, <3>1 DEF PauseIs
      <4>5. /\ \A d \in Calls : pc'[d] = "raised" => places'[d] = P
            /\ \A d \in Calls : resuming' /\ pc'[d] = "waiting" => inbound'[d] = P
        BY <1>1, <1>2, <1>3, <2>2, <3>2 DEF PauseIs, TypeOK
      <4> QED BY <1>1, <1>2, <2>2, <4>3, <4>4, <4>5 DEF PauseIs
    <3>4. FirstRun'
      <4> SUFFICES ASSUME ~resuming PROVE FirstRun'
        BY <1>2 DEF FirstRun
      <4>1. node.active /\ node = P
        BY <1>1, <1>5 DEF Placed, PauseIs
      <4>2. \A d \in Calls, g \in Gates : asks'[d][g] \notin Decisions
        BY <3>1 DEF FirstRun, Decisions
      <4> QED BY <1>2, <2>2, <3>2, <4>1, <4>2 DEF FirstRun, Pending
    <3>5. AtWork' /\ Between'
      BY <1>2, <1>3, <3>1, <3>2 DEF AtWork, Between
    <3> QED BY <1>4, <3>3, <3>4, <3>5
  <2>4. CASE /\ \A g \in Pending(n) : asks[c][g] \in Decisions
             /\ pc' = [pc EXCEPT ![c] = "answered"] /\ UNCHANGED asks
    <3>1. \A d \in Calls : pc'[d] = IF d = c THEN "answered" ELSE pc[d]
      BY <1>3, <2>4 DEF TypeOK
    <3>2. resuming
      <4> SUFFICES ASSUME ~resuming PROVE FALSE
        OBVIOUS
      <4>1. node.active /\ n = node
        BY <1>5 DEF Placed
      <4>2. PICK g \in Gates : g \in Pending(n)
        BY <4>1 DEF FirstRun, Pending
      <4> QED BY <2>4, <4>2 DEF FirstRun
    <3>3. \A d \in Calls : Held(d)' => Held(d)
      BY <1>2, <3>1, <3>2 DEF Held
    <3>4. PauseIs(P)'
      BY <1>1, <1>2, <1>3, <2>2, <2>4, <3>1, <3>3 DEF PauseIs, TypeOK
    <3>5. FirstRun' /\ AtWork' /\ Between'
      BY <1>1, <1>2, <1>3, <2>2, <2>4, <3>1, <3>2 DEF FirstRun, AtWork, Between, PauseIs
    <3> QED BY <1>4, <3>4, <3>5
  <2> QED BY <1>5, <2>3, <2>4 DEF Take
<1>6. CASE ~n.active
  <2>1. ~resuming /\ ~node.active
    BY <1>1, <1>2, <1>6 DEF Placed, PauseIs
  <2>2. /\ node' = [active |-> FALSE, task |-> c, ask |-> NoAsk]
        /\ pc' = [pc EXCEPT ![c] = "fresh"] /\ asks' = [asks EXCEPT ![c] = NoAsk]
        /\ places' = places
    BY <1>6 DEF Take
  <2>3. \A d \in Calls : pc'[d] = IF d = c THEN "fresh" ELSE pc[d]
    BY <1>3, <2>2 DEF TypeOK
  <2>4. \A d \in Calls, g \in Gates : asks'[d][g] = IF d = c THEN "none" ELSE asks[d][g]
    BY <1>3, <2>2 DEF TypeOK, NoAsk
  <2>5. PauseIs(P)'
    <3>1. \A d \in Calls : Held(d)' => Held(d)
      BY <1>2, <2>3 DEF Held
    <3>2. \A g \in Gates : approvals'[g] = 0
      BY <1>2, <2>1 DEF FirstRun
    <3> QED BY <1>1, <1>2, <2>1, <2>2, <2>3, <3>1, <3>2 DEF PauseIs
  <2>6. FirstRun'
    BY <1>2, <2>1, <2>2, <2>3, <2>4 DEF FirstRun, Decisions
  <2>7. AtWork' /\ Between'
    BY <1>2, <1>3, <2>1, <2>2, <2>3, <2>4 DEF AtWork, Between
  <2> QED BY <1>4, <2>5, <2>6, <2>7
<1> QED BY <1>5, <1>6
\* The first work on a task pauses the delegate, which no request is about yet, or
\* returns the task's result.
LEMMA InvokePause ==
  ASSUME OnePause, NEW c \in Calls, Invoke(c), Account'
  PROVE  OnePause'
<1> USE DEF OnePause
<1>1. PICK P \in Node : PauseIs(P)
  OBVIOUS
<1>2. /\ pc[c] = "fresh" /\ ~resuming /\ ~node.active /\ node.task = c
      /\ c \in step
      /\ UNCHANGED <<phase, step, resuming, inbound, approvals>>
  BY DEF Invoke, AtWork, Between
<1>3. /\ TypeOK /\ phase = "running"
      /\ \A d \in Calls \ {c} : pc[d] \notin {"fresh", "answered"}
  BY <1>2, DelegateTurnsAssumption DEF Account, OneAtATime, Between
<1>4. \A d \in Calls : pc[d] # "raised"
  BY <1>2, <1>3 DEF FirstRun
<1> DEFINE asked == {g \in Gates : TaskOf[g] = c /\ c \in gated}
           n == [active |-> TRUE, task |-> node.task,
                 ask |-> [g \in Gates |-> IF g \in asked THEN "open" ELSE "none"]]
<1>5. CASE asked # {}
  <2>1. /\ node' = n /\ places' = [places EXCEPT ![c] = n] /\ Raise(c, n)
        /\ queued' = (queued \/ \E d \in Calls : pc[d] = "waiting") /\ answer' = answer
    BY <1>5 DEF Invoke, Kept
  <2>2. n \in Node /\ n.active /\ n.task = c /\ Pending(n) # {}
    BY <1>2, <1>3, <1>5 DEF Node, Standing, Pending, TypeOK
  <2>3. PICK Q \in Node : Q = n
    BY <2>2
  <2>4. /\ Q.active /\ Q.task = c /\ Pending(Q) # {}
        /\ node' = Q /\ places' = [places EXCEPT ![c] = Q]
    BY <2>1, <2>2, <2>3
  <2>5. /\ \A d \in Calls, g \in Gates :
             asks'[d][g] = asks[d][g] \/ (d = c /\ asks[d][g] = "none" /\ asks'[d][g] = "open")
        /\ pc' = [pc EXCEPT ![c] = "raised"]
    BY <1>3, <2>1, RaiseAsks
  <2> HIDE DEF asked, n
  <2>6. \A d \in Calls : pc'[d] = IF d = c THEN "raised" ELSE pc[d]
    BY <1>3, <2>5 DEF TypeOK
  <2>7. PauseIs(Q)'
    <3>1. \A d \in Calls : Held(d)' => d = c
      BY <1>2, <1>3, <1>4, <2>6 DEF Held
    <3>2. \A g \in Gates : approvals'[g] = 0
      BY <1>2 DEF FirstRun
    <3>3. \A d \in Calls : pc'[d] = "raised" => places'[d] = Q
      BY <1>3, <1>4, <2>4, <2>6 DEF TypeOK
    <3> QED BY <1>2, <2>4, <3>1, <3>2, <3>3 DEF PauseIs
  <2>8. FirstRun'
    <3>1. \A d \in Calls, g \in Gates : asks'[d][g] \notin Decisions
      BY <1>2, <2>5 DEF FirstRun, Decisions
    <3>2. ~queued' => \A d \in Calls : pc'[d] # "waiting"
      BY <2>1, <2>6
    <3> QED BY <1>2, <2>4, <3>1, <3>2 DEF FirstRun, Pending
  <2>9. AtWork' /\ Between'
    BY <1>2, <1>3, <2>5, <2>6 DEF AtWork, Between
  <2>10. Results'
    BY <2>1 DEF Results
  <2> QED BY <2>7, <2>8, <2>9, <2>10
<1>6. CASE asked = {}
  <2>1. /\ answer' = [answer EXCEPT ![c] = c] /\ pc' = [pc EXCEPT ![c] = "result"]
        /\ UNCHANGED <<node, places, asks, queued>>
    BY <1>2, <1>6 DEF Invoke, Return
  <2>2. \A d \in Calls : pc'[d] = IF d = c THEN "result" ELSE pc[d]
    BY <1>3, <2>1 DEF TypeOK
  <2>3. PauseIs(P)'
    BY <1>1, <1>2, <2>1, <2>2 DEF PauseIs, Held
  <2>4. FirstRun' /\ AtWork' /\ Between'
    BY <1>2, <1>3, <2>1, <2>2 DEF FirstRun, AtWork, Between, Pending
  <2>5. Results'
    BY <1>3, <2>1 DEF Results, TypeOK
  <2> QED BY <2>3, <2>4, <2>5
<1> QED BY <1>5, <1>6

\* Going on with the answers ends the pause for the call, with the result of the
\* task it was about.
LEMMA ResumePause ==
  ASSUME OnePause, NEW c \in Calls, Resume(c), Account'
  PROVE  OnePause'
<1> USE DEF OnePause
<1>1. PICK P \in Node : PauseIs(P)
  OBVIOUS
<1>2. /\ pc[c] = "answered" /\ resuming /\ node = P /\ c \in step
      /\ node' = [active |-> FALSE, task |-> node.task, ask |-> NoAsk]
      /\ answer' = [answer EXCEPT ![c] = P.task] /\ pc' = [pc EXCEPT ![c] = "result"]
      /\ UNCHANGED <<phase, step, resuming, inbound, approvals, places, asks, queued>>
  BY <1>1 DEF Resume, Return, AtWork, PauseIs, Between
<1>3. /\ TypeOK
      /\ \A d \in Calls \ {c} : pc[d] \notin {"fresh", "answered"}
  BY <1>2, DelegateTurnsAssumption DEF Account, OneAtATime
<1>4. \A d \in Calls : pc'[d] = IF d = c THEN "result" ELSE pc[d]
  BY <1>2, <1>3 DEF TypeOK
<1>5. PauseIs(P)'
  BY <1>1, <1>2, <1>4 DEF PauseIs, Held
<1>6. FirstRun' /\ AtWork' /\ Between'
  BY <1>2, <1>3, <1>4 DEF FirstRun, AtWork, Between
<1>7. Results'
  <2>1. ~queued => P.task = c
    BY <1>1, <1>2 DEF PauseIs, Held
  <2> QED BY <1>2, <1>3, <2>1 DEF Results, TypeOK
<1> QED BY <1>5, <1>6, <1>7

\* The next run carries the places of the pause, and the answers to its requests.
LEMMA NextRunPause ==
  ASSUME OnePause, NEW given \in [Cards -> Decisions], NextRun(given), Account'
  PROVE  OnePause'
<1> USE DEF OnePause
<1>1. PICK P \in Node : PauseIs(P)
  OBVIOUS
<1>2. /\ phase = "paused" /\ phase' = "running" /\ resuming' /\ inbound' = places
      /\ \A c \in Calls : pc'[c] = IF pc[c] = "raised" THEN "waiting" ELSE pc[c]
      /\ \A c \in Calls : pc[c] \in {"none", "raised", "result"}
      /\ UNCHANGED <<step, node, answer, queued>>
  BY DEF NextRun, Between
<1>3. \A c \in Calls, g \in Gates :
        asks'[c][g] = IF <<c, g>> \in Cards THEN given[<<c, g>>] ELSE asks[c][g]
  BY DEF NextRun
<1>4. \A c \in Calls, g \in Gates : <<c, g>> \in Cards <=> asks[c][g] = "open"
  BY DEF Cards
<1>5. \A c \in Calls : Held(c)' => Held(c)
  BY <1>2 DEF Held
<1>6. ASSUME ~queued, NEW g \in Gates
      PROVE  \/ approvals'[g] = 0
             \/ approvals'[g] = 1 /\ P.task \in Calls /\ asks'[P.task][g] = "approved"
  <2> DEFINE new == {c \in Calls : <<c, g>> \in Cards /\ given[<<c, g>>] = "approved"}
  <2>1. approvals'[g] = approvals[g] + Cardinality(new)
    BY DEF NextRun
  <2>2. \A c \in new : c = P.task /\ asks[c][g] = "open" /\ asks'[c][g] = "approved"
    BY <1>1, <1>3, <1>4, <1>6 DEF PauseIs, Held, Between
  <2>3. CASE new = {}
    <3>1. Cardinality(new) = 0
      BY <2>3, FS_EmptySet
    <3>2. \/ approvals[g] = 0
          \/ approvals[g] = 1 /\ P.task \in Calls /\ asks[P.task][g] = "approved"
      BY <1>1, <1>6 DEF PauseIs
    <3>3. P.task \in Calls /\ asks[P.task][g] = "approved" => asks'[P.task][g] = "approved"
      BY <1>3, <1>4
    <3> HIDE DEF new
    <3> QED BY <2>1, <3>1, <3>2, <3>3
  <2>4. CASE new # {}
    <3>1. new = {P.task} /\ P.task \in Calls
      BY <2>2, <2>4
    <3>2. Cardinality(new) = 1
      BY <3>1, FS_Singleton
    <3>3. approvals[g] = 0 /\ asks'[P.task][g] = "approved"
      BY <1>1, <1>6, <2>2, <3>1 DEF PauseIs
    <3> HIDE DEF new
    <3> QED BY <2>1, <3>1, <3>2, <3>3
  <2> QED BY <2>3, <2>4
<1>7. PauseIs(P)'
  BY <1>1, <1>2, <1>5, <1>6 DEF PauseIs
<1>8. FirstRun' /\ AtWork'
  BY <1>2 DEF FirstRun, AtWork
<1>9. Between'
  <2>1. \A c \in Calls, g \in Gates : asks'[c][g] # "open"
    <3> SUFFICES ASSUME NEW c \in Calls, NEW g \in Gates PROVE asks'[c][g] # "open"
      OBVIOUS
    <3>1. CASE <<c, g>> \in Cards
      <4>1. given[<<c, g>>] \in Decisions
        BY <3>1
      <4> QED BY <1>3, <3>1, <4>1 DEF Decisions
    <3>2. CASE <<c, g>> \notin Cards
      BY <1>3, <1>4, <3>2
    <3> QED BY <3>1, <3>2
  <2> QED BY <1>2, <2>1 DEF Between
<1>10. Results'
  BY <1>2 DEF Results
<1> QED BY <1>7, <1>8, <1>9, <1>10

\* Another process's delegate is not paused; the places are the client's.
LEMMA RestartPause == ASSUME OnePause, Restart, Account' PROVE OnePause'
<1> USE DEF OnePause
<1>1. PICK P \in Node : PauseIs(P)
  OBVIOUS
<1>2. /\ phase = "paused" /\ node' = CleanNode /\ ~CleanNode.active
      /\ UNCHANGED <<phase, step, pc, resuming, inbound, places, asks, approvals, answer,
                     queued>>
      /\ \A c \in Calls : pc[c] \in {"none", "raised", "result"}
  BY DEF Restart, CleanNode, Between
<1>3. PauseIs(P)'
  BY <1>1, <1>2 DEF PauseIs, Held
<1>4. FirstRun' /\ AtWork' /\ Between' /\ Results'
  BY <1>2 DEF FirstRun, AtWork, Between, Results
<1> QED BY <1>3, <1>4

\* Every step keeps the pause.
LEMMA PauseNext == OnePause /\ [Next]_vars => OnePause'
<1> SUFFICES ASSUME OnePause, [Next]_vars PROVE OnePause'
  OBVIOUS
<1>1. Account'
  BY AccountNext DEF OnePause
<1>2. CASE EndRun
  <2>1. phase' # "running" => \A c \in Calls : pc[c] \in {"none", "raised", "result"}
    BY <1>2 DEF EndRun, OnePause, Between
  <2> QED BY <1>1, <1>2, <2>1, PauseKept DEF EndRun
<1>3. CASE UNCHANGED vars
  <2>1. phase' # "running" => \A c \in Calls : pc[c] \in {"none", "raised", "result"}
    BY <1>3 DEF vars, OnePause, Between
  <2> QED BY <1>1, <1>3, <2>1, PauseKept DEF vars
<1> QED BY <1>1, <1>2, <1>3, MakeStepPause, TakePause, InvokePause, ResumePause, NextRunPause,
           RestartPause DEF Next, Turn

\* The step has one pause, whatever its calls, its runs and the processes they run in.
LEMMA PauseAlways == Spec => []OnePause
  BY PauseInit, PauseNext, PTL DEF Spec

\* A run that pauses keeps, for each call it leaves waiting, the place of the delegate
\* it leaves paused.
THEOREM KeepsPlaces == Spec => []PlaceKept
<1>1. OnePause => PlaceKept
  BY DEF OnePause, PauseIs, PlaceKept, Account, TypeOK
<1> QED BY <1>1, PauseAlways, PTL

\* Unless a call waited when the delegate paused, each call gets its own task's result,
\* and the person is asked once.
THEOREM OwnResults == Spec => []OwnTask
<1>1. OnePause => OwnTask
  BY DEF OnePause, PauseIs, Results, OwnTask
<1> QED BY <1>1, PauseAlways, PTL

=============================================================================
