--------------------------- MODULE GateResume_proofs ---------------------------
(***************************************************************************)
(* Proofs about GateResume, for any calls, subjects and bounds.            *)
(*                                                                         *)
(* Typing first.  Then Books, an inductive invariant that keeps the        *)
(* person's approvals against the tool runs: every checkpoint the host     *)
(* holds is a pause with nothing answered in it, an answer is spent by at  *)
(* most one run of its call, and a permission by at most one step, the one *)
(* in which the model made the call.  InStep, over the books, follows host *)
(* and agent, and RanOnce the calls that ran while nothing is lost.        *)
(***************************************************************************)
EXTENDS GateResume, TLAPS

-----------------------------------------------------------------------------
(* Typing.                                                                 *)

\* The two constant gates, a clean agent's and the missing checkpoint, are gates.
LEMMA GateTypes == Clean \in Gate /\ Absent \in Gate
  BY DEF Clean, Absent, Gate

\* restore_session_state leaves a gate where it found one.
LEMMA RestoreTypes ==
  ASSUME NEW g \in Gate, inbound \in Gate
  PROVE  AfterRestore(g) \in Gate
  BY DEF AfterRestore

\* What the host builds a request from is a gate it stored.
LEMMA KnownTypes ==
  ASSUME TypeOK
  PROVE  Known \subseteq Gate
  BY DEF Known, TypeOK

\* A new process with a host that stored nothing is well typed.
LEMMA TypeInit == Init => TypeOK
<1> SUFFICES ASSUME Init PROVE TypeOK
  OBVIOUS
<1>1. warm \in BOOLEAN /\ resuming \in BOOLEAN /\ restored \in BOOLEAN
      /\ torn \in BOOLEAN /\ refused \in BOOLEAN
  BY Zenon DEF Init
<1>2. /\ phase \in {"idle", "bound", "ready", "calling", "thinking", "finished"}
      /\ answers \in [Calls -> Answers \cup {"none"}]
  BY DEF Init, NoAnswers
<1>3. gate \in Gate /\ inbound \in Gate /\ saved \in Gate
  BY GateTypes DEF Init
<1> QED BY <1>1, <1>2, <1>3 DEF Init, TypeOK

\* Every handler, fault and act of the person keeps the types.
LEMMA TypeNext == TypeOK /\ [Next]_vars => TypeOK'
<1> SUFFICES ASSUME TypeOK, [Next]_vars PROVE TypeOK'
  OBVIOUS
<1> USE DEF TypeOK
<1>1. CASE PrepareResume
  <2>1. (IF warm THEN gate ELSE Clean) \in Gate
    BY GateTypes
  <2>2. gate' \in Gate
    BY <1>1, <2>1, RestoreTypes DEF PrepareResume
  <2> QED BY <1>1, <2>2 DEF PrepareResume, MayRestore, hostVars, bookVars
<1>2. CASE TakeAnswers
  <2>1. CASE phase' = "idle"
    BY <1>2, <2>1 DEF TakeAnswers, hostVars, bookVars
  <2>2. CASE phase' # "idle"
    <3> DEFINE g == AfterRestore(gate)
    <3>1. g \in Gate
      BY RestoreTypes
    <3>2. gate' = [g EXCEPT !.ask =
                     [c \in Calls |-> IF answers[c] # "none" THEN answers[c] ELSE g.ask[c]]]
      BY <1>2, <2>2 DEF TakeAnswers
    <3>3. gate' \in Gate /\ g.todo \subseteq Calls
      BY <3>1, <3>2 DEF Gate
    <3> QED BY <1>2, <2>2, <3>3 DEF TakeAnswers, MayRestore, hostVars, bookVars
  <2> QED BY <2>1, <2>2
<1>3. CASE StartFresh
  BY <1>3, GateTypes, RestoreTypes DEF StartFresh, MayRestore, hostVars, bookVars, faultVars
<1>4. ASSUME NEW c \in Calls, Decide(c) PROVE TypeOK'
  BY <1>4 DEF Decide, Gate, hostVars, faultVars
<1>5. CASE EndStep
  <2>1. Open(gate) \subseteq Calls
    BY DEF Open
  <2>2. [gate EXCEPT !.active = TRUE, !.todo = Open(gate)] \in Gate
    BY <2>1 DEF Gate
  <2>3. gate' \in Gate
    BY <1>5, <2>2, GateTypes DEF EndStep
  <2> QED BY <1>5, <2>3 DEF EndStep, hostVars, bookVars, faultVars
<1>6. CASE Conclude
  BY <1>6 DEF Conclude, agentVars, hostVars, bookVars, faultVars
<1>7. CASE WriteBack
  <2>1. saved' \in Gate
    BY <1>7, GateTypes DEF WriteBack, Snapshots
  <2> QED BY <1>7, <2>1 DEF WriteBack, Holds, agentVars, bookVars
<1>8. CASE SendBack
  <2>1. gate' \in Gate
    BY <1>8, RestoreTypes DEF SendBack
  <2>2. gate'.todo \subseteq Calls
    BY <2>1 DEF Gate
  <2> QED BY <1>8, <2>1, <2>2 DEF SendBack, MayRestore, hostVars, bookVars, faultVars
<1>9. ASSUME NEW step \in SUBSET Calls, MakeCalls(step) PROVE TypeOK'
  BY <1>9 DEF MakeCalls, Gate, hostVars, faultVars
<1>10. ASSUME NEW s \in Known, SendMessage(s) PROVE TypeOK'
  <2>1. resuming' \in BOOLEAN /\ restored' \in BOOLEAN /\ refused' \in BOOLEAN
    BY <1>10, Zenon DEF SendMessage, Bind
  <2>2. torn' \in BOOLEAN /\ replays' \in Nat
    <3>1. \/ torn' = torn /\ replays' = replays
          \/ torn' = TRUE /\ replays' = replays + 1
      BY <1>10, Zenon DEF SendMessage, Bind
    <3>2. torn' \in BOOLEAN
      BY <3>1, Zenon
    <3>3. replays' \in Nat
      BY <3>1
    <3> QED BY <3>2, <3>3
  <2>3. inbound' \in Gate /\ answers' \in [Calls -> Answers \cup {"none"}]
    BY <1>10, KnownTypes DEF SendMessage, Bind, NoAnswers
  <2> QED BY <1>10, <2>1, <2>2, <2>3 DEF SendMessage, Bind, agentVars
<1>11. ASSUME NEW card \in Known, NEW s \in Known,
              NEW given \in [Calls -> Answers \cup {"none"}], SendResume(card, s, given)
       PROVE  TypeOK'
  <2>1. grants' \subseteq Subjects /\ ever' \subseteq Subjects
    BY <1>11, GateResumeAssumption DEF SendResume
  <2>2. approvals' \in [Calls -> Nat]
    BY <1>11 DEF SendResume
  <2>3. resuming' \in BOOLEAN /\ restored' \in BOOLEAN /\ refused' \in BOOLEAN
    BY <1>11, Zenon DEF SendResume, Bind
  <2>4. torn' \in BOOLEAN /\ replays' \in Nat
    <3>1. \/ torn' = torn /\ replays' = replays
          \/ torn' = TRUE /\ replays' = replays + 1
      BY <1>11, Zenon DEF SendResume, Bind
    <3>2. torn' \in BOOLEAN
      BY <3>1, Zenon
    <3>3. replays' \in Nat
      BY <3>1
    <3> QED BY <3>2, <3>3
  <2>5. inbound' \in Gate /\ answers' \in [Calls -> Answers \cup {"none"}]
    BY <1>11, KnownTypes DEF SendResume, Bind
  <2> QED BY <1>11, <2>1, <2>2, <2>3, <2>4, <2>5 DEF SendResume, Bind, agentVars
<1>12. ASSUME NEW s \in Subjects, Revoke(s) PROVE TypeOK'
  BY <1>12 DEF Revoke, agentVars, runVars, bookVars, faultVars
<1>13. ASSUME NEW c \in Calls, Expire(c) PROVE TypeOK'
  BY <1>13 DEF Expire, agentVars, runVars, hostVars, faultVars
<1>14. CASE Tear
  BY <1>14 DEF Tear, agentVars, hostVars, bookVars
<1>15. CASE Restart
  <2>1. warm' \in BOOLEAN /\ torn' \in BOOLEAN /\ refused' \in BOOLEAN
    BY <1>15, Zenon DEF Restart
  <2>2. tears' \in Nat /\ gate' \in Gate
    BY <1>15, GateTypes DEF Restart
  <2> QED BY <1>15, <2>1, <2>2 DEF Restart, hostVars, bookVars
<1>16. CASE UNCHANGED vars
  BY <1>16 DEF vars, agentVars, runVars, hostVars, bookVars, faultVars
<1> QED
  BY <1>1, <1>2, <1>3, <1>4, <1>5, <1>6, <1>7, <1>8, <1>9, <1>10, <1>11, <1>12, <1>13,
     <1>14, <1>15, <1>16 DEF Next, RunStep

\* The gate, the run and the host only ever hold what the code can put there.
THEOREM TypeCorrect == Spec => []TypeOK
<1>1. Init => TypeOK
  BY TypeInit
<1>2. TypeOK /\ [Next]_vars => TypeOK'
  BY TypeNext
<1> QED BY <1>1, <1>2, PTL DEF Spec

-----------------------------------------------------------------------------
(* The inductive invariant.                                                *)

\* A pause: the calls that wait are the ones to do, and none is answered.
Paused(g) ==
  /\ g.active /\ g.todo = Open(g) /\ Open(g) # {}
  /\ \A c \in Calls : g.ask[c] \in {"unasked", "open"}

\* What a host is ever given to store, and what a run brings back.
Stored(g) == g \in {Absent, Clean} \/ Paused(g)
Checkpoints == \A g \in older \cup {saved, inbound} : Stored(g)

\* Every call that ever waited, or was answered, was made by the model.
Made ==
  /\ \A g \in older \cup {saved, inbound, gate} : \A c \in Open(g) : issued[c] > 0
  /\ \A c \in Calls : answers[c] # "none" => issued[c] > 0
  /\ phase = "calling" => \A c \in left : issued[c] > 0

\* A resume brings an answer, and a run restores at most once, before it starts.
Requests ==
  /\ phase # "idle" => runs > 0
  /\ phase = "ready" => resuming
  /\ phase \in {"bound", "ready"} /\ resuming => \E c \in Calls : answers[c] # "none"
  /\ phase \notin {"idle", "bound"} => ~MayRestore

\* A step the model made, and a step a resume goes on with.
Fresh ==
  /\ ~gate.active
  /\ \A c \in Calls : gate.ask[c] \in {"unasked", "open"}
  /\ \A c \in left : gate.ask[c] = "unasked" /\ answers[c] = "none"
Resumed ==
  /\ gate.active /\ resuming /\ Open(gate) = {}
  /\ \A c \in left : gate.ask[c] = answers[c] /\ answers[c] \in Answers

\* The agent's gate in each phase.  One torn in a step may stay active with
\* every request answered, and no answers address it any more.
Gates ==
  /\ gate.active => Open(gate) = {} \/ Paused(gate)
  /\ phase = "thinking" => gate = Clean
  /\ phase = "finished" => gate = Clean \/ Paused(gate)
  /\ phase = "calling" => Fresh \/ Resumed

\* A run that resumes nothing works on calls of its own.
Own ==
  ~resuming =>
    /\ phase = "calling" =>
         ~gate.active /\ \A c \in left \cup Open(gate) : issued[c] = runs
    /\ phase = "finished" => \A c \in Open(gate) : issued[c] = runs

\* An approval the run carries and has not spent, and a call that has not had
\* its chance to run on a permission.
Due(c) ==
  /\ answers[c] \in Approvals
  /\ \/ phase \in {"bound", "ready"} /\ resuming
     \/ phase = "calling" /\ gate.active /\ c \in left
Untried(c) == issued[c] = 0 \/ (phase = "calling" /\ ~gate.active /\ c \in left)

\* Runs of a tool against approvals of its call.
Ledger ==
  /\ allowed \subseteq ever /\ grants \subseteq ever
  /\ \A c \in Calls :
       /\ ran[c] + (IF Due(c) THEN 1 ELSE 0)
            <= approvals[c] + (IF SubjectOf[c] \in ever THEN 1 ELSE 0)
       /\ Untried(c) => ran[c] + (IF Due(c) THEN 1 ELSE 0) <= approvals[c]

Books == TypeOK /\ Checkpoints /\ Made /\ Requests /\ Gates /\ Own /\ Ledger

-----------------------------------------------------------------------------
(* It holds at first, and every step preserves it.                         *)

\* Neither a cleared checkpoint nor a missing one holds a request open.
LEMMA CleanFacts ==
  /\ ~Clean.active /\ Open(Clean) = {} /\ Clean.todo = {}
  /\ \A c \in Calls : Clean.ask[c] = "unasked"
  /\ ~Absent.active /\ Open(Absent) = {}
  BY DEF Clean, Absent, Open

\* An active checkpoint is a pause.
LEMMA StoredFacts ==
  ASSUME NEW g, Stored(g)
  PROVE  g.active => Paused(g)
  BY CleanFacts DEF Stored

\* Once a run is under way, nothing is restored any more.
LEMMA RestoresNoMore ==
  ASSUME NEW g, Requests, phase \notin {"idle", "bound"} \/ ~resuming
  PROVE  ~MayRestore /\ AfterRestore(g) = g
  BY DEF Requests, AfterRestore, MayRestore

\* The books balance before the first request.
LEMMA BooksInit == Init => Books
<1> SUFFICES ASSUME Init PROVE Books
  OBVIOUS
<1>1. TypeOK
  BY TypeInit
<1>2. Checkpoints
  BY DEF Init, Checkpoints, Stored
<1>3. Made
  BY CleanFacts DEF Init, Made, NoAnswers
<1>4. Requests
  BY DEF Init, Requests
<1>5. Gates /\ Own
  BY CleanFacts DEF Init, Gates, Own
<1>6. Ledger
  BY DEF Init, Ledger, Due, Untried
<1> QED BY <1>1, <1>2, <1>3, <1>4, <1>5, <1>6 DEF Books

\* The steps that leave the agent's gate, the run's step and the books alone.
LEMMA QuietNext ==
  ASSUME Books, Conclude \/ Tear \/ UNCHANGED vars \/ (\E s \in Subjects : Revoke(s))
                \/ (\E c \in Calls : Expire(c))
  PROVE  Books'
<1> USE DEF Books
<1>1. TypeOK'
  BY TypeNext DEF Next, RunStep
<1>2. /\ UNCHANGED <<gate, resuming, inbound, restored, answers, allowed, left, saved,
                     older, ever, issued, ran, approvals, runs>>
      /\ grants' \subseteq grants
  BY DEF Conclude, Tear, Revoke, Expire, vars, agentVars, runVars, hostVars, bookVars,
         faultVars
<1>3. \/ UNCHANGED phase
      \/ phase' = "idle"
      \/ phase = "thinking" /\ phase' = "finished"
  BY DEF Conclude, Tear, Revoke, Expire, vars, runVars
<1>4. Checkpoints' /\ Made'
  BY <1>2, <1>3 DEF Checkpoints, Made
<1>5. Requests'
  BY <1>2, <1>3 DEF Requests, MayRestore
<1>6. Gates' /\ Own'
  BY <1>2, <1>3, CleanFacts DEF Gates, Own, Fresh, Resumed
<1>7. Ledger'
  BY <1>2, <1>3 DEF Ledger, Due, Untried, TypeOK
<1> QED BY <1>1, <1>4, <1>5, <1>6, <1>7

\* _prepare_resume keeps the books: it restores a pause, or nothing.
LEMMA PrepareResumeBooks ==
  ASSUME Books, PrepareResume PROVE Books'
<1> USE DEF Books
<1>1. TypeOK'
  BY TypeNext DEF Next, RunStep
<1>2. /\ phase = "bound" /\ resuming /\ phase' \in {"idle", "ready"}
      /\ UNCHANGED <<resuming, inbound, answers, allowed, left, saved, older, grants, ever,
                     issued, ran, approvals, runs>>
  BY DEF PrepareResume, hostVars, bookVars
<1>3. gate' \in {gate, Clean, inbound} /\ ~MayRestore'
  BY DEF PrepareResume, AfterRestore, MayRestore
<1>4. Open(gate') \subseteq Open(gate) \cup Open(inbound)
  BY <1>3, CleanFacts
<1>5. Checkpoints'
  BY <1>2 DEF Checkpoints
<1>6. Made'
  <2>1. \A c \in Open(gate') : issued[c] > 0
    BY <1>4 DEF Made
  <2> QED BY <1>2, <2>1 DEF Made
<1>7. Requests'
  BY <1>2, <1>3 DEF Requests
<1>8. Gates'
  <2>1. gate'.active => Open(gate') = {} \/ Paused(gate')
    BY <1>3, CleanFacts, StoredFacts DEF Gates, Checkpoints
  <2> QED BY <1>2, <2>1 DEF Gates
<1>9. Own'
  BY <1>2 DEF Own
<1>10. Ledger'
  BY <1>2 DEF Ledger, Due, Untried, TypeOK
<1> QED BY <1>1, <1>5, <1>6, <1>7, <1>8, <1>9, <1>10

\* Taking the answers keeps the books: they leave no request of the pause open.
LEMMA TakeAnswersBooks ==
  ASSUME Books, TakeAnswers PROVE Books'
<1> USE DEF Books
<1>1. TypeOK'
  BY TypeNext DEF Next, RunStep
<1>2. /\ phase = "ready" /\ resuming /\ phase' \in {"idle", "calling"}
      /\ UNCHANGED <<resuming, inbound, answers, allowed, saved, older, grants, ever,
                     issued, ran, approvals, runs>>
  BY DEF TakeAnswers, Requests, hostVars, bookVars
<1>3. Checkpoints' /\ Requests'
  BY <1>2 DEF Checkpoints, Requests, TakeAnswers, MayRestore
<1>4. CASE phase' = "idle"
  <2>1. UNCHANGED <<gate, left>>
    BY <1>4 DEF TakeAnswers
  <2>2. Made' /\ Gates' /\ Own'
    BY <1>2, <1>4, <2>1 DEF Made, Gates, Own
  <2>3. Ledger'
    BY <1>2, <1>4, <2>1 DEF Ledger, Due, Untried, TypeOK
  <2> QED BY <1>1, <1>3, <2>2, <2>3
<1>5. CASE phase' = "calling"
  <2>1. /\ gate.active /\ \A c \in Calls : answers[c] # "none" <=> c \in Open(gate)
        /\ left' = gate.todo
        /\ gate' = [gate EXCEPT !.ask =
             [c \in Calls |-> IF answers[c] # "none" THEN answers[c] ELSE gate.ask[c]]]
    BY <1>2, <1>5, RestoresNoMore DEF TakeAnswers
  \* The answers address a pause, and leave nothing open in it.
  <2>2. Paused(gate) /\ left' = Open(gate)
    BY <1>2, <2>1 DEF Gates, Requests, Paused, Open
  <2>3. /\ gate'.active
        /\ \A c \in Calls : gate'.ask[c] =
             IF answers[c] # "none" THEN answers[c] ELSE gate.ask[c]
    BY <2>1 DEF TypeOK, Gate
  <2>4. \A c \in Calls : answers[c] # "none" => answers[c] \in Answers
    BY DEF TypeOK
  <2>5. Open(gate') = {}
    BY <2>1, <2>3, <2>4 DEF Open, Answers, Approvals
  <2>6. Resumed'
    BY <1>2, <2>1, <2>2, <2>3, <2>4, <2>5 DEF Resumed, Open
  <2>7. Made'
    BY <1>2, <1>5, <2>2, <2>5 DEF Made
  <2>8. Gates' /\ Own'
    BY <1>2, <1>5, <2>5, <2>6 DEF Gates, Own
  <2>9. Ledger'
    <3>1. \A c \in Calls : Due(c)' => Due(c)
      BY <1>2, <1>5 DEF Due
    <3>2. \A c \in Calls : Untried(c)' => Untried(c)
      BY <1>2, <1>5, <2>3 DEF Untried
    <3> QED BY <1>2, <3>1, <3>2 DEF Ledger, TypeOK
  <2> QED BY <1>1, <1>3, <2>7, <2>8, <2>9
<1> QED BY <1>2, <1>4, <1>5

\* A message's run keeps the books: it starts from a clean gate.
LEMMA StartFreshBooks ==
  ASSUME Books, StartFresh PROVE Books'
<1> USE DEF Books
<1>1. TypeOK'
  BY TypeNext DEF Next, RunStep
<1>2. /\ phase = "bound" /\ ~resuming /\ phase' = "thinking" /\ gate' = Clean
      /\ UNCHANGED <<resuming, inbound, answers, allowed, left, saved, older, grants, ever,
                     issued, ran, approvals, runs>>
  BY RestoresNoMore DEF StartFresh, hostVars, bookVars, faultVars
<1>3. Checkpoints' /\ Made'
  BY <1>2, CleanFacts DEF Checkpoints, Made
<1>4. Requests' /\ Gates' /\ Own'
  BY <1>2, CleanFacts DEF Requests, Gates, Own, MayRestore
<1>5. Ledger'
  BY <1>2 DEF Ledger, Due, Untried, TypeOK
<1> QED BY <1>1, <1>3, <1>4, <1>5

\* A step of new calls keeps the books: nobody has approved them yet.
LEMMA MakeCallsBooks ==
  ASSUME Books, NEW step \in SUBSET Calls, MakeCalls(step) PROVE Books'
<1> USE DEF Books
<1>1. TypeOK'
  BY TypeNext DEF Next
<1>2. /\ phase = "thinking" /\ gate = Clean /\ phase' = "calling" /\ left' = step
      /\ gate' = [Clean EXCEPT !.todo = step]
      /\ UNCHANGED <<resuming, inbound, restored, answers, allowed, saved, older, grants,
                     ever, ran, approvals, runs>>
  BY DEF MakeCalls, Gates, hostVars, faultVars
<1>3. /\ \A c \in step : issued[c] = 0
      /\ issued' = [c \in Calls |-> IF c \in step THEN runs ELSE issued[c]]
      /\ runs > 0
  BY <1>2 DEF MakeCalls, Requests
<1>4. /\ ~gate'.active /\ Open(gate') = {}
      /\ \A c \in Calls : gate'.ask[c] = "unasked"
  BY <1>2 DEF Clean, Open
<1>5. Checkpoints' /\ Requests'
  BY <1>2, <1>3 DEF Checkpoints, Requests, MayRestore
<1>6. \A c \in Calls : issued[c] > 0 => issued'[c] > 0
  BY <1>3
<1>7. Made'
  <2>1. \A g \in older \cup {saved, inbound} : \A c \in Open(g) : issued'[c] > 0
    BY <1>6 DEF Made, Open
  <2>2. \A c \in Calls : answers[c] # "none" => issued'[c] > 0
    BY <1>6 DEF Made
  <2> QED BY <1>2, <1>3, <1>4, <2>1, <2>2 DEF Made
\* The calls are new, so no answer is for one of them.
<1>8. Fresh'
  BY <1>2, <1>3, <1>4 DEF Fresh, Made, TypeOK
<1>9. Gates' /\ Own'
  BY <1>2, <1>3, <1>4, <1>8 DEF Gates, Own
<1>10. Ledger'
  <2>1. \A c \in Calls : ~Due(c)'
    BY <1>2, <1>4 DEF Due
  <2>2. \A c \in Calls : Untried(c)' => Untried(c)
    BY <1>2, <1>3 DEF Untried
  <2> QED BY <1>2, <2>1, <2>2 DEF Ledger, TypeOK
<1> QED BY <1>1, <1>5, <1>7, <1>9, <1>10

\* The gate's step: an approval is spent by the run it lets go, a permission by
\* the step in which the model made the call.
LEMMA DecideBooks ==
  ASSUME Books, NEW c \in Calls, Decide(c) PROVE Books'
<1> USE DEF Books
<1>1. TypeOK'
  BY TypeNext DEF Next, RunStep
<1>2. /\ phase = "calling" /\ c \in left /\ left' = left \ {c} /\ phase' = "calling"
      /\ UNCHANGED <<resuming, inbound, restored, answers, allowed, saved, older, grants,
                     ever, issued, approvals, runs>>
      /\ ran' = IF Verdict(c) = "run" THEN [ran EXCEPT ![c] = @ + 1] ELSE ran
  BY Zenon DEF Decide, hostVars, faultVars
<1>3. /\ gate'.active = gate.active
      /\ \A d \in Calls : gate'.ask[d] = gate.ask[d] \/ (d = c /\ gate'.ask[d] = "open")
      /\ gate.ask[c] \in Answers => gate' = gate
  <2>1. CASE Verdict(c) = "ask"
    <3>1. PICK asks : asks = [gate.ask EXCEPT ![c] = "open"]
      OBVIOUS
    <3>2. gate' = [gate EXCEPT !.ask = asks]
      BY <2>1, <3>1, Zenon DEF Decide
    <3>3. gate'.active = gate.active /\ gate'.ask = asks
      BY <3>2 DEF TypeOK, Gate
    <3>4. gate.ask[c] \notin Answers
      BY <2>1 DEF Verdict
    <3> QED BY <3>1, <3>3, <3>4 DEF TypeOK, Gate
  <2>2. CASE Verdict(c) # "ask"
    <3>1. gate' = gate
      BY <2>2, Zenon DEF Decide
    <3> QED BY <3>1
  <2> QED BY <2>1, <2>2
<1>4. Open(gate') \subseteq Open(gate) \cup {c}
  BY <1>3 DEF Open
<1>5. Checkpoints' /\ Requests'
  BY <1>2 DEF Checkpoints, Requests, MayRestore
<1>6. Made'
  <2>1. \A d \in Open(gate') : issued[d] > 0
    BY <1>2, <1>4 DEF Made
  <2> QED BY <1>2, <2>1 DEF Made
<1>7. CASE Fresh
  <2>1. Fresh'
    BY <1>2, <1>3, <1>7 DEF Fresh, TypeOK
  <2>2. Gates' /\ Own'
    BY <1>2, <1>4, <2>1 DEF Gates, Own, Fresh
  <2>3. Untried(c) /\ issued[c] # 0 /\ \A d \in Calls : ~Due(d) /\ ~Due(d)'
    BY <1>2, <1>3, <1>7 DEF Untried, Fresh, Due, Made
  <2>4. /\ ~Untried(c)'
        /\ \A d \in Calls \ {c} : Untried(d)' => Untried(d)
    BY <1>2, <1>3, <1>7, <2>3 DEF Untried, Fresh
  <2>5. ran' = ran \/ (ran' = [ran EXCEPT ![c] = @ + 1] /\ SubjectOf[c] \in allowed)
    BY <1>2, <1>7 DEF Verdict, Fresh, Answers, Approvals
  <2>6. Ledger'
    BY <1>2, <2>3, <2>4, <2>5 DEF Ledger, TypeOK
  <2> QED BY <1>1, <1>5, <1>6, <2>2, <2>6
<1>8. CASE Resumed
  <2>1. gate' = gate /\ gate.ask[c] = answers[c] /\ answers[c] \in Answers
    BY <1>2, <1>3, <1>8 DEF Resumed
  <2>2. Resumed'
    BY <1>2, <1>8, <2>1 DEF Resumed
  <2>3. Gates' /\ Own'
    BY <1>2, <2>1, <2>2 DEF Gates, Own, Resumed
  <2>4. ran' = ran \/ (ran' = [ran EXCEPT ![c] = @ + 1] /\ Due(c))
    BY <1>2, <1>8, <2>1 DEF Verdict, Due, Resumed
  <2>5. /\ ~Due(c)'
        /\ \A d \in Calls : (Due(d)' => Due(d)) /\ (Untried(d)' => Untried(d))
    BY <1>2, <2>1 DEF Due, Untried
  <2>6. Ledger'
    BY <1>2, <2>4, <2>5 DEF Ledger, TypeOK
  <2> QED BY <1>1, <1>5, <1>6, <2>3, <2>6
<1> QED BY <1>2, <1>7, <1>8 DEF Gates

\* Ending a step keeps the books: a pause holds the open requests, or the gate is clean.
LEMMA EndStepBooks ==
  ASSUME Books, EndStep PROVE Books'
<1> USE DEF Books
<1>1. TypeOK'
  BY TypeNext DEF Next, RunStep
<1>2. /\ phase = "calling" /\ left = {} /\ phase' \in {"finished", "thinking"}
      /\ UNCHANGED <<resuming, inbound, restored, answers, allowed, left, saved, older,
                     grants, ever, issued, ran, approvals, runs>>
  BY DEF EndStep, hostVars, bookVars, faultVars
<1>3. \/ phase' = "thinking" /\ gate' = Clean
      \/ phase' = "finished" /\ Paused(gate') /\ Open(gate') = Open(gate)
  <2>1. CASE Open(gate) = {}
    BY <2>1 DEF EndStep
  <2>2. CASE Open(gate) # {}
    <3>1. Fresh
      BY <1>2, <2>2 DEF Gates, Resumed
    <3>2. gate'.active /\ gate'.ask = gate.ask /\ gate'.todo = Open(gate)
      BY <2>2 DEF EndStep, TypeOK, Gate
    <3> QED BY <2>2, <3>1, <3>2 DEF EndStep, Paused, Open, Fresh
  <2> QED BY <2>1, <2>2
<1>4. Checkpoints' /\ Requests'
  BY <1>2 DEF Checkpoints, Requests, MayRestore
<1>5. Made' /\ Gates' /\ Own'
  BY <1>2, <1>3, CleanFacts DEF Made, Gates, Own
<1>6. Ledger'
  BY <1>2 DEF Ledger, Due, Untried, TypeOK
<1> QED BY <1>1, <1>4, <1>5, <1>6

\* An invocation a hook asked for keeps the books: it restores nothing again.
LEMMA SendBackBooks ==
  ASSUME Books, SendBack PROVE Books'
<1> USE DEF Books
<1>1. TypeOK'
  BY TypeNext DEF Next
<1>2. /\ phase = "thinking" /\ phase' = "thinking" /\ gate = Clean /\ gate' = Clean
      /\ left' = {}
      /\ UNCHANGED <<resuming, inbound, answers, allowed, saved, older, grants, ever,
                     issued, ran, approvals, runs>>
      /\ ~MayRestore /\ ~MayRestore'
  BY RestoresNoMore, CleanFacts
     DEF SendBack, Gates, MayRestore, hostVars, bookVars, faultVars
<1>3. Checkpoints' /\ Made' /\ Requests' /\ Gates' /\ Own'
  BY <1>2, CleanFacts DEF Checkpoints, Made, Requests, Gates, Own
<1>4. Ledger'
  BY <1>2 DEF Ledger, Due, Untried, TypeOK
<1> QED BY <1>1, <1>3, <1>4

\* The write-back keeps the books: what the host stores is a pause or a clean gate.
LEMMA WriteBackBooks ==
  ASSUME Books, WriteBack PROVE Books'
<1> USE DEF Books
<1>1. TypeOK'
  BY TypeNext DEF Next, RunStep
<1>2. /\ phase = "finished" /\ phase' = "idle" /\ older' = older \cup {saved}
      /\ UNCHANGED <<gate, resuming, inbound, restored, answers, allowed, left, grants,
                     ever, issued, ran, approvals, runs>>
  BY DEF WriteBack, agentVars, bookVars
<1>3. saved' \in {gate, Clean, Absent, saved}
  BY DEF WriteBack, Snapshots
<1>4. Stored(gate)
  BY <1>2 DEF Gates, Stored
<1>5. Checkpoints'
  BY <1>2, <1>3, <1>4 DEF Checkpoints, Stored
<1>6. Made'
  BY <1>2, <1>3, CleanFacts DEF Made
<1>7. Requests' /\ Gates' /\ Own'
  BY <1>2 DEF Requests, Gates, Own
<1>8. Ledger'
  BY <1>2 DEF Ledger, Due, Untried, TypeOK
<1> QED BY <1>1, <1>5, <1>6, <1>7, <1>8

\* Binding a message keeps the books: it carries no answer.
LEMMA SendMessageBooks ==
  ASSUME Books, NEW s \in Known, SendMessage(s) PROVE Books'
<1> USE DEF Books
<1>1. TypeOK'
  BY TypeNext DEF Next
<1>2. /\ phase = "idle" /\ phase' = "bound" /\ ~resuming' /\ inbound' = s
      /\ runs' = runs + 1 /\ left' = {} /\ answers' = NoAnswers /\ allowed' = grants
      /\ UNCHANGED <<gate, saved, older, grants, ever, issued, ran, approvals>>
  BY Zenon DEF SendMessage, Bind, agentVars
<1>3. s \in older \cup {saved}
  BY DEF Known
<1>4. Checkpoints' /\ Made'
  BY <1>2, <1>3 DEF Checkpoints, Made, NoAnswers
<1>5. Requests' /\ Gates' /\ Own'
  BY <1>2 DEF Requests, Gates, Own, TypeOK
<1>6. Ledger'
  BY <1>2 DEF Ledger, Due, Untried, TypeOK
<1> QED BY <1>1, <1>4, <1>5, <1>6

\* Binding a resume keeps the books: each approval it carries is entered first.
LEMMA SendResumeBooks ==
  ASSUME Books, NEW card \in Known, NEW s \in Known,
         NEW given \in [Calls -> Answers \cup {"none"}], SendResume(card, s, given)
  PROVE  Books'
<1> USE DEF Books
<1>1. TypeOK'
  BY TypeNext DEF Next
<1>2. /\ phase = "idle" /\ phase' = "bound" /\ resuming' /\ inbound' = s
      /\ runs' = runs + 1 /\ left' = {} /\ answers' = given /\ allowed' = grants'
      /\ UNCHANGED <<gate, saved, older, issued, ran>>
  BY Zenon DEF SendResume, Bind, agentVars
<1>3. /\ card.active /\ \A c \in Calls : given[c] # "none" <=> c \in Open(card)
      /\ ever \subseteq ever' /\ grants' \subseteq ever'
      /\ approvals' = [c \in Calls |->
           IF given[c] \in Approvals THEN approvals[c] + 1 ELSE approvals[c]]
  BY DEF SendResume, Ledger
<1>4. s \in older \cup {saved} /\ card \in older \cup {saved}
  BY DEF Known
<1>5. Open(card) # {}
  BY <1>3, <1>4, StoredFacts DEF Checkpoints, Paused
<1>6. Checkpoints' /\ Made'
  BY <1>2, <1>3, <1>4 DEF Checkpoints, Made, Open
<1>7. Requests' /\ Gates' /\ Own'
  BY <1>2, <1>3, <1>5 DEF Requests, Gates, Own, TypeOK, Open
<1>8. Ledger'
  <2>1. \A c \in Calls : ~Due(c) /\ (Due(c)' => given[c] \in Approvals)
    BY <1>2 DEF Due
  <2>2. \A c \in Calls : Untried(c)' => Untried(c)
    BY <1>2 DEF Untried
  <2> QED BY <1>2, <1>3, <2>1, <2>2 DEF Ledger, TypeOK
<1> QED BY <1>1, <1>6, <1>7, <1>8

\* Losing the process keeps the books: the gate is clean, and no tool ran.
LEMMA RestartBooks ==
  ASSUME Books, Restart PROVE Books'
<1> USE DEF Books
<1>1. TypeOK'
  BY TypeNext DEF Next
<1>2. /\ phase' = "idle" /\ gate' = Clean
      /\ UNCHANGED <<resuming, inbound, restored, answers, allowed, left, saved, older,
                     grants, ever, issued, ran, approvals, runs>>
  BY DEF Restart, hostVars, bookVars
<1>3. Checkpoints' /\ Made' /\ Requests' /\ Gates' /\ Own'
  BY <1>2, CleanFacts DEF Checkpoints, Made, Requests, Gates, Own
<1>4. Ledger'
  BY <1>2 DEF Ledger, Due, Untried, TypeOK
<1> QED BY <1>1, <1>3, <1>4

\* Every step keeps the books.
LEMMA BooksNext == Books /\ [Next]_vars => Books'
  BY QuietNext, PrepareResumeBooks, TakeAnswersBooks, StartFreshBooks, MakeCallsBooks,
     DecideBooks, EndStepBooks, SendBackBooks, WriteBackBooks, SendMessageBooks,
     SendResumeBooks, RestartBooks DEF Next, RunStep

-----------------------------------------------------------------------------
(* What follows from it.                                                   *)

\* The books balance in every state.
THEOREM BooksBalance == Spec => []Books
  BY BooksInit, BooksNext, PTL DEF Spec

\* However the runs, restarts, lost write-backs and replayed checkpoints
\* interleave, a tool body never runs more often than the person approved its
\* call, plus once when a permission covered it.
THEOREM NeverUnapproved == Spec => []OncePerApproval
<1>1. Books => OncePerApproval
  <2> SUFFICES ASSUME Books, NEW c \in Calls
               PROVE  ran[c] <= approvals[c] + (IF SubjectOf[c] \in ever THEN 1 ELSE 0)
    BY DEF OncePerApproval
  <2> QED BY DEF Books, Ledger, TypeOK
<1> QED BY <1>1, BooksBalance, PTL

\* A message supersedes the gate that was open: the run it starts ends waiting
\* for its own calls only.
THEOREM MessagesSupersede == Spec => []FreshRunOwnsItsPause
<1>1. Books => FreshRunOwnsItsPause
  BY DEF Books, Own, FreshRunOwnsItsPause
<1> QED BY <1>1, BooksBalance, PTL

\* No step runs a call the person answered unless the answer was an approval
\* that came in time, whatever permission stands.
THEOREM AnswersDecide == Spec => AnswerDecides
<1> DEFINE Step == \A c \in Calls :
       phase = "calling" /\ answers[c] # "none" /\ ran'[c] > ran[c]
         => answers[c] \in Approvals /\ c \notin late
<1>1. Books /\ [Next]_vars => [Step]_vars
  <2> SUFFICES ASSUME Books, [Next]_vars, NEW c \in Calls,
                      phase = "calling", answers[c] # "none", ran'[c] > ran[c]
               PROVE  answers[c] \in Approvals /\ c \notin late
    OBVIOUS
  <2>1. PICK d \in Calls : Decide(d)
    <3>1. ran' # ran
      BY DEF Books, TypeOK
    <3> QED BY <3>1 DEF Next, RunStep, PrepareResume, TakeAnswers, StartFresh, EndStep,
                        Conclude, WriteBack, SendBack, MakeCalls, SendMessage, SendResume,
                        Bind, Revoke, Expire, Tear, Restart, vars, agentVars, runVars,
                        bookVars
  <2>2. c = d /\ c \in left /\ Verdict(c) = "run"
    BY <2>1 DEF Decide, Books, TypeOK
  <2>3. Resumed
    BY <2>2 DEF Books, Gates, Fresh
  <2> QED BY <2>2, <2>3 DEF Resumed, Verdict
<1> QED BY <1>1, BooksBalance, PTL DEF Spec, AnswerDecides

-----------------------------------------------------------------------------
(* Host and agent in step.                                                 *)

\* A warm agent and the host's checkpoint say the same of what waits.
Agree == IF Holds(gate) THEN saved = gate ELSE ~Holds(saved)

\* The answers of the request are to the requests a checkpoint holds open.
Addressed(g) == g.active /\ \A c \in Calls : answers[c] # "none" <=> c \in Open(g)

\* Until it is torn, a run starts from what the host and the agent agree on, and ends so.
InStep ==
  /\ refused => torn /\ phase = "idle"
  /\ phase = "bound" => ~restored
  /\ ~torn =>
       /\ phase \in {"idle", "bound"} /\ warm => Agree
       /\ phase = "bound" => inbound = saved
       /\ phase = "bound" /\ resuming => Addressed(saved)
       /\ phase = "ready" => Addressed(gate)

\* A pause is a gate, and neither a cleared checkpoint nor a missing one is.
LEMMA HoldsFacts ==
  /\ ~Holds(Clean) /\ ~Holds(Absent)
  /\ \A g : g.active => Holds(g) /\ g # Absent /\ g # Clean
  BY CleanFacts DEF Holds, Absent, Clean

\* A run starts in step, or torn.
LEMMA BindInStep ==
  ASSUME InStep, NEW card, NEW g, NEW resume \in BOOLEAN, NEW given, NEW known,
         Bind(card, g, resume, given, known),
         resume => card.active /\ \A c \in Calls : given[c] # "none" <=> c \in Open(card)
  PROVE  InStep'
<1>1. /\ phase = "idle" /\ phase' = "bound" /\ ~restored' /\ ~refused'
      /\ resuming' = resume /\ inbound' = g /\ answers' = given
      /\ UNCHANGED <<warm, gate, saved>>
      /\ ~torn' => ~torn /\ card = saved /\ g = saved
  BY DEF Bind, agentVars
<1> QED BY <1>1 DEF InStep, Agree, Addressed

\* _prepare_resume, in step, leaves the agent with the pause the answers are to.
LEMMA PrepareResumeInStep == ASSUME Books, InStep, PrepareResume PROVE InStep'
<1>1. /\ phase = "bound" /\ resuming /\ ~restored /\ ~refused
      /\ UNCHANGED <<resuming, inbound, answers, saved, torn>>
      /\ phase' \in {"ready", "idle"} /\ warm' = TRUE
  BY DEF PrepareResume, hostVars, InStep
<1>2. CASE torn
  BY <1>1, <1>2 DEF InStep, PrepareResume
<1>3. CASE ~torn
  <2>1. inbound = saved /\ Addressed(saved)
    BY <1>1, <1>3 DEF InStep
  <2>2. Holds(saved) /\ saved # Absent
    BY <2>1, HoldsFacts DEF Addressed
  <2>3. CASE warm
    <3>1. gate = saved /\ Holds(gate)
      BY <1>1, <1>3, <2>2, <2>3 DEF InStep, Agree
    <3>2. gate' = saved /\ phase' = "ready" /\ ~refused'
      BY <1>1, <2>3, <3>1 DEF PrepareResume, AfterRestore
    <3> QED BY <1>1, <2>1, <3>2 DEF InStep, Addressed
  <2>4. CASE ~warm
    <3>1. MayRestore
      BY <1>1, <2>1, <2>2 DEF MayRestore
    <3>2. gate' = saved /\ phase' = "ready" /\ ~refused'
      BY <1>1, <2>1, <2>4, <3>1, HoldsFacts DEF PrepareResume, AfterRestore
    <3> QED BY <1>1, <2>1, <3>2 DEF InStep, Addressed
  <2> QED BY <2>3, <2>4
<1> QED BY <1>2, <1>3

\* RUN_FINISHED brings host and agent in step, or says that it may not have.
LEMMA WriteBackInStep == ASSUME InStep, WriteBack PROVE InStep'
<1>1. /\ phase = "finished" /\ phase' = "idle" /\ saved' \in Snapshots
      /\ torn' = (inbound = Absent /\ saved' # Absent /\ ~Holds(gate))
      /\ ~refused' /\ UNCHANGED <<gate, warm>>
  BY DEF WriteBack, agentVars, InStep
<1>2. ~torn' => Agree'
  <2>1. CASE Holds(gate)
    BY <1>1, <2>1 DEF Snapshots, Agree, Holds
  <2>2. CASE ~Holds(gate)
    BY <1>1, <2>2, HoldsFacts DEF Snapshots, Agree, Holds
  <2> QED BY <2>1, <2>2
<1> QED BY <1>1, <1>2 DEF InStep

\* Every step keeps host and agent in step.
LEMMA InStepNext == Books /\ InStep /\ [Next]_vars => InStep'
<1> SUFFICES ASSUME Books, InStep, [Next]_vars PROVE InStep'
  OBVIOUS
<1>1. ASSUME NEW s \in Known, SendMessage(s) PROVE InStep'
  BY <1>1, BindInStep DEF SendMessage
<1>2. ASSUME NEW card \in Known, NEW s \in Known,
             NEW given \in [Calls -> Answers \cup {"none"}], SendResume(card, s, given)
      PROVE  InStep'
  <2>1. /\ Bind(card, s, TRUE, given, grants')
        /\ card.active /\ \A c \in Calls : given[c] # "none" <=> c \in Open(card)
    BY <1>2 DEF SendResume
  <2> QED BY <2>1, BindInStep
<1>3. CASE TakeAnswers
  <2>1. /\ phase = "ready" /\ phase' \in {"calling", "idle"} /\ UNCHANGED torn
        /\ phase' = "idle" => refused'
        /\ phase' # "idle" => UNCHANGED refused
        /\ ~torn => Addressed(gate)
    BY <1>3 DEF TakeAnswers, InStep
  <2>2. Addressed(gate) => phase' = "calling"
    BY <1>3 DEF TakeAnswers, Addressed
  <2> QED BY <2>1, <2>2 DEF InStep
<1>4. CASE StartFresh \/ (\E c \in Calls : Decide(c)) \/ EndStep \/ Conclude \/ SendBack
           \/ (\E step \in SUBSET Calls : MakeCalls(step))
  <2>1. /\ phase # "idle" /\ phase' \in {"calling", "thinking", "finished"}
        /\ UNCHANGED <<torn, refused>>
    BY <1>4 DEF StartFresh, Decide, EndStep, Conclude, SendBack, MakeCalls, faultVars
  <2> QED BY <2>1 DEF InStep
<1>5. CASE Tear \/ Restart
  BY <1>5 DEF Tear, Restart, InStep
<1>6. CASE UNCHANGED vars \/ (\E s \in Subjects : Revoke(s)) \/ (\E c \in Calls : Expire(c))
  <2>1. UNCHANGED <<warm, gate, phase, resuming, inbound, restored, answers, saved, torn,
                    refused>>
    BY <1>6 DEF Revoke, Expire, vars, agentVars, runVars, hostVars, faultVars
  <2> QED BY <2>1 DEF InStep, Agree, Addressed
<1> QED BY <1>1, <1>2, <1>3, <1>4, <1>5, <1>6, PrepareResumeInStep, WriteBackInStep
        DEF Next, RunStep

\* Host and agent stay in step, or are known to be torn.
LEMMA InStepAlways == Spec => []InStep
<1>1. Init => InStep
  BY DEF Init, InStep
<1> QED BY <1>1, InStepNext, BooksBalance, PTL DEF Spec

\* Between runs, what a warm agent waits for is what the host shows and would send.
THEOREM KnowsPause == Spec => []HostKnowsPause
<1>1. InStep => HostKnowsPause
  BY DEF InStep, Agree, HostKnowsPause
<1> QED BY <1>1, InStepAlways, PTL

\* A resume in step with the host is never refused.
THEOREM ResumesTaken == Spec => []ResumeTaken
<1>1. InStep => ResumeTaken
  BY DEF InStep, ResumeTaken
<1> QED BY <1>1, InStepAlways, PTL

-----------------------------------------------------------------------------
(* One run of each call.                                                   *)

\* Where a call waits: in the agent's gate, in the step, or, until the run goes on, at
\* the host.
Waits(c) ==
  \/ c \in Open(gate)
  \/ phase = "calling" /\ c \in left
  \/ phase \in {"idle", "bound", "ready"} /\ c \in Open(saved)

\* With nothing lost and nothing replayed, a call that ran waits nowhere.
RanOnce ==
  tears = 0 /\ replays = 0 =>
    /\ ~torn /\ (phase # "idle" => inbound = saved)
    /\ \A c \in Calls : /\ ran[c] <= 1 /\ (ran[c] > 0 => issued[c] > 0)
                        /\ Waits(c) => ran[c] = 0

\* A step that runs nothing, loses nothing, and leaves no call to wait that has run.
LEMMA RanOnceKept ==
  ASSUME TypeOK, RanOnce, ran' = ran,
         tears' = 0 /\ replays' = 0 =>
           /\ tears = 0 /\ replays = 0 /\ (torn' => torn)
           /\ phase' # "idle" => inbound' = saved'
           /\ \A c \in Calls : /\ issued[c] > 0 => issued'[c] > 0
                               /\ Waits(c)' => Waits(c) \/ issued[c] = 0
  PROVE  RanOnce'
  BY DEF RanOnce, TypeOK

\* Every step keeps it.
LEMMA RanOnceNext == Books /\ Books' /\ InStep /\ RanOnce /\ [Next]_vars => RanOnce'
<1> SUFFICES ASSUME Books, Books', InStep, RanOnce, [Next]_vars, tears' = 0, replays' = 0
             PROVE  RanOnce'
  BY DEF RanOnce, TypeOK
<1> USE DEF Books
<1>1. ASSUME NEW card \in Known, NEW g \in Known, NEW resume, NEW given, NEW known,
             Bind(card, g, resume, given, known)
      PROVE  RanOnce'
  <2>1. /\ phase = "idle" /\ phase' = "bound" /\ inbound' = g
        /\ UNCHANGED <<gate, saved, ran, issued, tears>>
        /\ torn' = torn /\ replays' = replays /\ g = saved
    BY <1>1 DEF Bind, agentVars, TypeOK
  <2> QED BY <2>1, RanOnceKept DEF Waits
<1>2. CASE PrepareResume
  <2>1. /\ phase = "bound" /\ phase' \in {"ready", "idle"} /\ gate' \in {gate, Clean, inbound}
        /\ UNCHANGED <<inbound, saved, ran, issued, torn, tears, replays>>
    BY <1>2 DEF PrepareResume, AfterRestore, hostVars, bookVars
  <2>2. inbound = saved
    BY <2>1 DEF RanOnce
  <2> QED BY <2>1, <2>2, CleanFacts, RanOnceKept DEF Waits
<1>3. CASE TakeAnswers
  <2>1. /\ phase = "ready" /\ UNCHANGED <<inbound, saved, ran, issued, torn, tears, replays>>
    BY <1>3 DEF TakeAnswers, hostVars, bookVars
  <2>2. inbound = saved
    BY <2>1 DEF RanOnce
  <2>3. CASE gate.active /\ \A c \in Calls : answers[c] # "none" <=> c \in Open(gate)
    <3>1. AfterRestore(gate) = gate
      BY <2>1, RestoresNoMore
    <3>2. /\ phase' = "calling" /\ left' = gate.todo
          /\ \A c \in Calls : gate'.ask[c] = IF answers[c] # "none" THEN answers[c]
                                             ELSE gate.ask[c]
      BY <1>3, <2>3, <3>1 DEF TakeAnswers, TypeOK, Gate
    <3>3. \E c \in Calls : answers[c] # "none"
      BY <2>1 DEF Requests
    <3>4. gate.todo = Open(gate)
      BY <2>3, <3>3 DEF Gates, Paused
    <3>5. \A c \in Calls : answers[c] # "open"
      BY DEF TypeOK, Answers, Approvals
    <3>6. Open(gate') \subseteq Open(gate)
      BY <3>2, <3>5 DEF Open
    <3> QED BY <2>1, <2>2, <3>2, <3>4, <3>6, RanOnceKept DEF Waits
  <2>4. CASE ~(gate.active /\ \A c \in Calls : answers[c] # "none" <=> c \in Open(gate))
    BY <1>3, <2>1, <2>2, <2>4, RanOnceKept DEF TakeAnswers, Waits
  <2> QED BY <2>3, <2>4
<1>4. CASE StartFresh
  <2>1. /\ phase = "bound" /\ phase' = "thinking" /\ gate' = Clean
        /\ UNCHANGED <<inbound, saved, ran, issued, torn, tears, replays>>
    BY <1>4, RestoresNoMore DEF StartFresh, hostVars, bookVars, faultVars
  <2> QED BY <2>1, CleanFacts, RanOnceKept DEF Waits, RanOnce
<1>5. ASSUME NEW step \in SUBSET Calls, MakeCalls(step) PROVE RanOnce'
  <2>1. /\ phase = "thinking" /\ phase' = "calling" /\ left' = step
        /\ \A c \in step : issued[c] = 0
        /\ \A c \in Calls : issued'[c] = IF c \in step THEN runs ELSE issued[c]
        /\ Open(gate') = Open(gate)
        /\ UNCHANGED <<inbound, saved, ran, torn, tears, replays>>
    BY <1>5 DEF MakeCalls, TypeOK, Gate, Open, hostVars, faultVars
  <2> QED BY <2>1, RanOnceKept DEF Waits, RanOnce
<1>6. ASSUME NEW c \in Calls, Decide(c) PROVE RanOnce'
  <2>1. /\ phase = "calling" /\ c \in left /\ left' = left \ {c}
        /\ UNCHANGED <<phase, inbound, saved, issued, torn, tears, replays>>
    BY <1>6 DEF Decide, hostVars, bookVars, faultVars
  <2>2. Waits(c) /\ issued[c] > 0
    BY <2>1 DEF Waits, Made
  <2>3. CASE Verdict(c) = "run"
    <3>1. gate' = gate /\ ran' = [ran EXCEPT ![c] = @ + 1]
      BY <1>6, <2>3 DEF Decide
    <3>2. ~Waits(c)'
      <4>1. c \notin Open(gate)
        BY <2>1 DEF Gates, Fresh, Resumed, Open
      <4> QED BY <2>1, <3>1, <4>1 DEF Waits
    <3>3. \A d \in Calls : Waits(d)' => Waits(d)
      BY <2>1, <3>1 DEF Waits
    <3>4. ran[c] = 0 /\ ran'[c] = 1 /\ \A d \in Calls \ {c} : ran'[d] = ran[d]
      BY <2>1, <2>2, <3>1 DEF RanOnce, TypeOK
    <3> QED BY <2>1, <2>2, <3>2, <3>3, <3>4 DEF RanOnce
  <2>4. CASE Verdict(c) # "run"
    <3>1. ran' = ran /\ Open(gate') \subseteq Open(gate) \cup {c}
      BY <1>6, <2>4 DEF Decide, Open, TypeOK, Gate
    <3>2. \A d \in Calls : Waits(d)' => Waits(d)
      BY <2>1, <2>2, <3>1 DEF Waits
    <3> QED BY <2>1, <3>1, <3>2, RanOnceKept DEF RanOnce
  <2> QED BY <2>3, <2>4
<1>7. CASE EndStep
  <2>1. /\ phase = "calling" /\ phase' \in {"thinking", "finished"}
        /\ Open(gate') \subseteq Open(gate)
        /\ UNCHANGED <<inbound, saved, ran, issued, torn, tears, replays>>
    <3>1. /\ phase = "calling" /\ phase' \in {"thinking", "finished"}
          /\ UNCHANGED <<inbound, saved, ran, issued, torn, tears, replays>>
      BY <1>7 DEF EndStep, hostVars, bookVars, faultVars
    <3>2. \/ gate' = Clean
          \/ gate' = [gate EXCEPT !.active = TRUE, !.todo = Open(gate)]
      BY <1>7 DEF EndStep
    <3>3. gate' = Clean => Open(gate') \subseteq Open(gate)
      BY CleanFacts
    <3>4. gate' = [gate EXCEPT !.active = TRUE, !.todo = Open(gate)] => gate'.ask = gate.ask
      BY DEF TypeOK, Gate
    <3> QED BY <3>1, <3>2, <3>3, <3>4 DEF Open
  <2> QED BY <2>1, RanOnceKept DEF Waits, RanOnce
<1>8. CASE SendBack
  <2>1. /\ phase = "thinking" /\ gate' = Clean /\ phase' = "thinking"
        /\ UNCHANGED <<inbound, saved, ran, issued, torn, tears, replays>>
    BY <1>8, RestoresNoMore, CleanFacts
       DEF SendBack, Gates, hostVars, bookVars, faultVars
  <2> QED BY <2>1, CleanFacts, RanOnceKept DEF Waits, RanOnce
<1>9. CASE WriteBack
  <2>1. /\ phase = "finished" /\ phase' = "idle" /\ saved' \in Snapshots
        /\ torn' = (inbound = Absent /\ saved' # Absent /\ ~Holds(gate))
        /\ UNCHANGED <<gate, ran, issued, tears, replays>>
    BY <1>9 DEF WriteBack, agentVars, bookVars
  <2>2. inbound = saved /\ ~torn
    BY <2>1 DEF RanOnce
  <2>3. saved' \in {gate, Clean, Absent}
    BY <2>1, <2>2 DEF Snapshots
  <2>4. ~torn'
    BY <2>1, <2>2 DEF Snapshots
  <2> QED BY <2>1, <2>3, <2>4, CleanFacts, RanOnceKept DEF Waits
<1>10. CASE Tear
  BY <1>10 DEF Tear, TypeOK
<1>11. CASE Restart
  <2>1. /\ phase = "idle" /\ phase' = "idle" /\ gate' = Clean /\ ~torn'
        /\ UNCHANGED <<saved, ran, issued, tears, replays>>
    BY <1>11 DEF Restart, TypeOK, hostVars, bookVars
  <2> QED BY <2>1, CleanFacts, RanOnceKept DEF Waits
<1>12. CASE Conclude \/ UNCHANGED vars \/ (\E s \in Subjects : Revoke(s))
            \/ (\E c \in Calls : Expire(c))
  <2>1. /\ UNCHANGED <<gate, left, inbound, saved, ran, issued, torn, tears, replays>>
        /\ UNCHANGED phase \/ (phase = "thinking" /\ phase' = "finished")
    BY <1>12 DEF Conclude, Revoke, Expire, vars, agentVars, runVars, hostVars, bookVars,
                 faultVars
  <2> QED BY <2>1, RanOnceKept DEF Waits, RanOnce
<1>13. ASSUME NEW s \in Known, SendMessage(s) PROVE RanOnce'
  BY <1>1, <1>13 DEF SendMessage, Known
<1>14. ASSUME NEW card \in Known, NEW s \in Known,
              NEW given \in [Calls -> Answers \cup {"none"}], SendResume(card, s, given)
       PROVE  RanOnce'
  BY <1>1, <1>14 DEF SendResume
<1> QED BY <1>2, <1>3, <1>4, <1>5, <1>6, <1>7, <1>8, <1>9, <1>10, <1>11, <1>12, <1>13, <1>14
        DEF Next, RunStep

\* With nothing lost and nothing replayed, no call runs twice, in however many runs and
\* processes.
THEOREM NeverTwice == Spec => []OncePerCall
<1>1. Init => RanOnce
  BY CleanFacts DEF Init, RanOnce, Waits, NoAnswers
<1>2. RanOnce => OncePerCall
  BY DEF RanOnce, OncePerCall
<1> QED BY <1>1, <1>2, RanOnceNext, BooksBalance, InStepAlways, PTL DEF Spec
=============================================================================
