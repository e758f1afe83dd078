----------------------- MODULE MemoryWriteback_proofs -----------------------
(***************************************************************************)
(* Proofs about MemoryWriteback, for any agents and policies, any budget   *)
(* and bounds.                                                             *)
(*                                                                         *)
(* Remembered relates, within a run, the latest capture to the copies that *)
(* may be written back in its place, and, where agents take turns, to the  *)
(* calls made.                                                             *)
(***************************************************************************)
EXTENDS MemoryWriteback, TLAPS

\* An agent at work is in a run, on a call its messages tell of.
AtWork ==
  \A a \in Agents :
    /\ busy[a] # "idle" => call[a] \in messages[a].calls
    /\ busy[a] \in {"working", "resuming"} => phase = "running" /\ call[a] \in made

\* The copies that may be written back, masked, tell of the latest capture's calls.
Copies ==
  phase # "idle" =>
    /\ outbound # None => outbound.calls # {}
    /\ persisted # None => /\ outbound # None /\ persisted.calls = outbound.calls
                           /\ persisted.whole \subseteq persisted.open
    /\ summary.state # "none" =>
         /\ outbound # None /\ summary.memory.calls # {}
         /\ summary.memory.whole \subseteq summary.memory.open
         /\ ~shadowed => summary.memory.calls = outbound.calls
    /\ outbound # None => persisted # None \/ \E a \in Agents : ~Masks(a) /\ call[a] \in made

\* The calls of the group's latest transcript.
Latest == IF outbound # None THEN outbound.calls ELSE inbound.calls

\* Where agents take turns, each is alone at work with all there is to tell.
TakeTurns ==
  phase # "idle" /\ ~overlapped =>
    /\ \A a \in Agents : busy[a] # "idle" =>
         /\ messages[a].calls = inbound.calls \cup made /\ call[a] \in made
         /\ made \subseteq messages[a].whole
         /\ \A b \in Agents : busy[b] # "idle" => a = b
    /\ (\A a \in Agents : busy[a] \in {"idle", "paused"}) =>
         /\ Latest = inbound.calls \cup made
         /\ IF outbound # None THEN made \subseteq outbound.whole ELSE made = {}

Remembered == TypeOK /\ AtWork /\ Copies /\ TakeTurns

-----------------------------------------------------------------------------
(* Transcripts.                                                            *)

\* Masking, seeding and summarising keep to the calls told of.
LEMMA Tells ==
  /\ Nothing \in Transcript /\ None \in Transcript /\ None.calls = {}
  /\ \A t \in Transcript : /\ Mask(t) \in Transcript /\ Mask(t).calls = t.calls
                           /\ Mask(t).whole \subseteq Mask(t).open
                           /\ t.calls # {} => t # None
  BY DEF Nothing, None, Transcript, Mask

LEMMA Seeds ==
  ASSUME TypeOK, NEW a \in Agents
  PROVE  /\ Seed(a) \in Transcript /\ Seed(a).calls = Latest
         /\ outbound # None => Seed(a) = outbound
  BY Tells DEF TypeOK, Seed, Latest

LEMMA RememberedInit == Init => Remembered
<1> SUFFICES ASSUME Init PROVE Remembered
  OBVIOUS
<1>1. TypeOK
  BY Tells DEF Init, TypeOK, NoSummary
<1>2. AtWork /\ Copies /\ TakeTurns
  BY DEF Init, AtWork, Copies, TakeTurns
<1> QED BY <1>1, <1>2 DEF Remembered

\* An agent that begins tells of what the group told last, and of its new call.
LEMMA Begins ==
  ASSUME Remembered, NEW a \in Agents, Begin(a)
  PROVE  /\ messages' \in [Agents -> Transcript]
         /\ messages'[a].calls = Latest \cup {next}
         /\ outbound # None => messages'[a].whole = outbound.whole \cup {next}
         /\ next \in messages'[a].whole
         /\ \A b \in Agents : b # a => messages'[b] = messages[b]
<1> DEFINE m == [Seed(a) EXCEPT !.calls = @ \cup {next}, !.whole = @ \cup {next},
                                !.open = @ \cup {next}]
<1>1. messages' = [messages EXCEPT ![a] = m] /\ next \in Work
  BY DEF Begin
<1>2. /\ Seed(a) \in Transcript /\ Seed(a).calls = Latest
      /\ outbound # None => Seed(a) = outbound
  BY Seeds DEF Remembered
<1>3. /\ m \in Transcript /\ m.calls = Seed(a).calls \cup {next}
      /\ m.whole = Seed(a).whole \cup {next}
  BY <1>1, <1>2 DEF Transcript
<1> HIDE DEF m
<1> QED BY <1>1, <1>2, <1>3 DEF Remembered, TypeOK

\* An invocation that ends leaves its messages as they are, but for the open call.
LEMMA Ends ==
  ASSUME Remembered, NEW a \in Agents, NEW pauses \in BOOLEAN, End(a, pauses)
  PROVE  /\ messages' \in [Agents -> Transcript] /\ outbound' = messages'[a]
         /\ messages'[a].calls = messages[a].calls /\ messages'[a].whole = messages[a].whole
         /\ \A b \in Agents : b # a => messages'[b] = messages[b]
         /\ persisted' = IF Masks(a) THEN Mask(outbound') ELSE None
         /\ outbound' # None /\ outbound'.calls # {} /\ outbound' \in Transcript
         /\ persisted' \in Transcript
<1> DEFINE m == [messages[a] EXCEPT !.open = IF pauses THEN @ ELSE @ \ {call[a]}]
<1>1. messages' = [messages EXCEPT ![a] = m] /\ outbound' = messages'[a]
  BY DEF End
<1>2. messages[a] \in Transcript /\ call[a] \in messages[a].calls
  BY DEF Remembered, TypeOK, AtWork, End
<1>3. m \in Transcript /\ m.calls = messages[a].calls /\ m.whole = messages[a].whole
  BY <1>2 DEF Transcript
<1> HIDE DEF m
<1>4. /\ messages' \in [Agents -> Transcript] /\ messages'[a] = m
      /\ \A b \in Agents : b # a => messages'[b] = messages[b]
  BY <1>1, <1>3 DEF Remembered, TypeOK
<1>5. outbound' # None /\ outbound'.calls # {} /\ outbound' \in Transcript
  BY <1>1, <1>2, <1>3, <1>4, Tells
<1>6. persisted' = IF Masks(a) THEN Mask(outbound') ELSE None
  BY <1>1 DEF End, Recorded
<1>7. persisted' \in Transcript
  BY <1>5, <1>6, Tells
<1> QED BY <1>1, <1>3, <1>4, <1>5, <1>6, <1>7

-----------------------------------------------------------------------------
(* The steps.                                                              *)

LEMMA RememberedNext == Remembered /\ [Next]_vars => Remembered'
<1> SUFFICES ASSUME Remembered, [Next]_vars PROVE Remembered'
  OBVIOUS
<1>t. TypeOK /\ AtWork /\ Copies /\ TakeTurns
  BY DEF Remembered
<1>1. CASE StartRun
  <2>1. TypeOK'
    <3>1. overlapped' \in BOOLEAN
      BY <1>1, Zenon DEF StartRun
    <3>2. NoSummary \in [state : {"none", "writing", "done"}, memory : Transcript]
      BY Tells DEF NoSummary
    <3>3. /\ phase' = "running" /\ runs' = runs + 1 /\ inbound' = stored
          /\ outbound' = None /\ persisted' = None /\ summary' = NoSummary /\ made' = {}
          /\ shadowed' = FALSE /\ UNCHANGED <<busy, call, messages, stored, next>>
      BY <1>1 DEF StartRun
    <3>4. /\ inbound' \in Transcript /\ outbound' \in Transcript /\ persisted' \in Transcript
          /\ stored' \in Transcript
      BY <1>t, <3>3, Tells DEF TypeOK
    <3>5. phase' \in {"idle", "running", "settling"} /\ runs' \in Nat /\ next' \in Nat
      BY <1>t, <3>3 DEF TypeOK
    <3>6. shadowed' \in BOOLEAN /\ made' \subseteq Work
      BY <3>3
    <3> QED BY <1>t, <3>1, <3>2, <3>3, <3>4, <3>5, <3>6 DEF TypeOK
  <2>2. AtWork' /\ Copies'
    BY <1>1, <1>t DEF StartRun, AtWork, Copies, NoSummary
  <2>3. TakeTurns'
    <3>1. overlapped' <=> \E a \in Agents : busy[a] = "paused"
      BY <1>1 DEF StartRun
    <3>2. ~overlapped' => \A a \in Agents : busy[a] = "idle"
      BY <1>1, <1>t, <3>1 DEF StartRun, AtWork, TypeOK
    <3> QED BY <1>1, <3>2 DEF StartRun, TakeTurns, Latest
  <2> QED BY <2>1, <2>2, <2>3 DEF Remembered
<1>2. ASSUME NEW a \in Agents, Begin(a) PROVE Remembered'
  <2>1. /\ messages' \in [Agents -> Transcript] /\ messages'[a].calls = Latest \cup {next}
        /\ outbound # None => messages'[a].whole = outbound.whole \cup {next}
        /\ next \in messages'[a].whole
        /\ \A b \in Agents : b # a => messages'[b] = messages[b]
    BY <1>2, Begins
  <2>2. /\ phase = "running" /\ busy[a] = "idle" /\ next \in Work
        /\ busy' = [busy EXCEPT ![a] = "working"] /\ call' = [call EXCEPT ![a] = next]
        /\ made' = made \cup {next} /\ next' = next + 1
        /\ UNCHANGED <<phase, inbound, outbound, persisted, summary, stored, shadowed, runs>>
    BY <1>2 DEF Begin
  <2>3. /\ overlapped' \in BOOLEAN
        /\ ~overlapped' => ~overlapped /\ \A b \in Agents : busy[b] = "idle"
    BY <1>2, Zenon DEF Begin
  <2>4. TypeOK'
    BY <1>t, <2>1, <2>2, <2>3 DEF TypeOK, Work
  <2>5. AtWork'
    BY <1>t, <2>1, <2>2 DEF AtWork, TypeOK
  <2>6. Copies'
    <3>1. \A b \in Agents : call[b] \in made => call'[b] \in made'
      BY <1>t, <2>2 DEF TypeOK
    <3> QED BY <1>t, <2>2, <3>1 DEF Copies
  <2>7. TakeTurns'
    <3> SUFFICES ASSUME ~overlapped' PROVE TakeTurns'
      BY DEF TakeTurns
    <3>1. /\ Latest = inbound.calls \cup made
          /\ IF outbound # None THEN made \subseteq outbound.whole ELSE made = {}
      BY <1>t, <2>2, <2>3 DEF TakeTurns
    <3>2. /\ busy'[a] = "working" /\ \A b \in Agents : b # a => busy'[b] = "idle"
      BY <1>t, <2>2, <2>3 DEF TypeOK
    <3>3. /\ messages'[a].calls = inbound'.calls \cup made' /\ call'[a] \in made'
          /\ made' \subseteq messages'[a].whole
      BY <1>t, <2>1, <2>2, <3>1 DEF TypeOK
    <3> QED BY <3>2, <3>3 DEF TakeTurns
  <2> QED BY <2>4, <2>5, <2>6, <2>7 DEF Remembered
<1>3. ASSUME NEW a \in Agents, GoOn(a) PROVE Remembered'
  <2>1. /\ phase = "running" /\ busy[a] = "paused"
        /\ busy' = [busy EXCEPT ![a] = "resuming"] /\ made' = made \cup {call[a]}
        /\ UNCHANGED <<phase, inbound, outbound, persisted, summary, call, messages, stored,
                       overlapped, shadowed, next, runs>>
    BY <1>3 DEF GoOn
  <2>2. call[a] \in messages[a].calls /\ call[a] \in Work
    BY <1>t, <2>1 DEF AtWork, TypeOK, Transcript
  <2>3. TypeOK' /\ AtWork'
    BY <1>t, <2>1, <2>2 DEF TypeOK, AtWork
  <2>4. Copies'
    BY <1>t, <2>1 DEF Copies
  <2>5. TakeTurns'
    <3>1. call[a] \in made \/ overlapped
      BY <1>t, <2>1 DEF TakeTurns
    <3> QED BY <1>t, <2>1, <2>2, <3>1 DEF TakeTurns, TypeOK
  <2> QED BY <2>3, <2>4, <2>5 DEF Remembered
<1>4. ASSUME NEW a \in Agents, NEW pauses \in BOOLEAN, End(a, pauses) PROVE Remembered'
  <2>1. /\ messages' \in [Agents -> Transcript] /\ outbound' = messages'[a]
        /\ messages'[a].calls = messages[a].calls /\ messages'[a].whole = messages[a].whole
        /\ \A b \in Agents : b # a => messages'[b] = messages[b]
        /\ persisted' = IF Masks(a) THEN Mask(outbound') ELSE None
        /\ outbound' # None /\ outbound'.calls # {} /\ outbound' \in Transcript
        /\ persisted' \in Transcript
    BY <1>4, Ends
  <2>2. /\ busy[a] \in {"working", "resuming"} /\ summary' = Pending(a, persisted')
        /\ busy' = [busy EXCEPT ![a] = IF pauses THEN "paused" ELSE "idle"]
        /\ UNCHANGED <<phase, inbound, call, stored, made, overlapped, next, runs>>
    BY <1>4 DEF End
  <2>3. /\ shadowed' \in BOOLEAN /\ (shadowed => shadowed')
        /\ summary.state # "none" /\ ~shadowed' => Condenses(a, persisted')
    BY <1>4, Zenon DEF End
  <2>4. phase = "running" /\ call[a] \in made /\ call[a] \in messages[a].calls
    BY <1>t, <2>2 DEF AtWork
  <2>5. CASE Condenses(a, persisted')
    <3>1. summary' = [state |-> "writing", memory |-> persisted'] /\ Masks(a)
      BY <2>2, <2>5 DEF Pending, Condenses, Masks
    <3>2. /\ persisted'.calls = outbound'.calls /\ persisted' # None
          /\ persisted'.whole \subseteq persisted'.open
      BY <2>1, <3>1, Tells
    <3>3. /\ summary'.state = "writing" /\ summary'.memory = persisted'
          /\ summary' \in [state : {"none", "writing", "done"}, memory : Transcript]
      BY <2>1, <3>1
    <3>4. Copies'
      BY <2>1, <3>2, <3>3 DEF Copies
    <3>5. TypeOK'
      BY <1>t, <2>1, <2>2, <2>3, <3>3 DEF TypeOK
    <3> HIDE <2>5
    <3>6. AtWork'
      BY <1>t, <2>1, <2>2, <2>4 DEF AtWork, TypeOK
    <3>7. TakeTurns'
      BY <1>t, <2>1, <2>2, <2>4 DEF TakeTurns, Latest, TypeOK
    <3> QED BY <3>4, <3>5, <3>6, <3>7 DEF Remembered
  <2>6. CASE ~Condenses(a, persisted')
    <3>1. summary' = summary /\ (summary.state # "none" => shadowed')
      BY <2>2, <2>3, <2>6 DEF Pending
    <3>2. Masks(a) => /\ persisted'.calls = outbound'.calls /\ persisted' # None
                      /\ persisted'.whole \subseteq persisted'.open
      BY <2>1, Tells
    <3>3. Copies'
      <4>1. ~Masks(a) => persisted' = None /\ call'[a] \in made'
        BY <2>1, <2>2, <2>4
      <4>2. Copies
        BY <1>t
      <4> QED BY <2>1, <2>4, <3>1, <3>2, <4>1, <4>2 DEF Copies
    <3>4. TypeOK'
      BY <1>t, <2>1, <2>2, <2>3, <3>1 DEF TypeOK
    <3>5. AtWork'
      BY <1>t, <2>1, <2>2, <2>4 DEF AtWork, TypeOK
    <3>6. TakeTurns'
      BY <1>t, <2>1, <2>2, <2>4 DEF TakeTurns, Latest, TypeOK
    <3> QED BY <3>3, <3>4, <3>5, <3>6 DEF Remembered
  <2> QED BY <2>5, <2>6
<1>5. ASSUME NEW older \in SUBSET Work, Summarised(older) PROVE Remembered'
  <2> DEFINE m == [summary.memory EXCEPT !.summed = @ \cup older, !.whole = @ \ older,
                                         !.open = @ \ older]
  <2>1. /\ summary.state = "writing" /\ summary' = [state |-> "done", memory |-> m]
        /\ UNCHANGED <<phase, inbound, outbound, persisted, busy, call, messages, stored,
                       made, overlapped, shadowed, next, runs>>
    BY <1>5 DEF Summarised
  <2>2. summary.memory \in Transcript
    BY <1>t DEF TypeOK
  <2>3. /\ m \in Transcript /\ m.calls = summary.memory.calls
        /\ m.whole = summary.memory.whole \ older /\ m.open = summary.memory.open \ older
    BY <2>2 DEF Transcript
  <2> HIDE DEF m
  <2>4. summary'.state = "done" /\ summary'.memory = m
    BY <2>1
  <2>5. TypeOK' /\ AtWork'
    BY <1>t, <2>1, <2>3 DEF TypeOK, AtWork
  <2>6. Copies'
    BY <1>t, <2>1, <2>3, <2>4 DEF Copies
  <2>7. TakeTurns'
    BY <1>t, <2>1 DEF TakeTurns, Latest
  <2> QED BY <2>5, <2>6, <2>7 DEF Remembered
<1>6. CASE Finish
  <2>1. TypeOK'
    BY <1>6, <1>t DEF Finish, TypeOK
  <2>2. AtWork' /\ Copies' /\ TakeTurns'
    BY <1>6, <1>t DEF Finish, AtWork, Copies, TakeTurns, Latest
  <2> QED BY <2>1, <2>2 DEF Remembered
<1>7. CASE FailRun
  <2>1. TypeOK'
    BY <1>7, <1>t, Tells DEF FailRun, TypeOK, NoSummary
  <2>2. AtWork' /\ Copies' /\ TakeTurns'
    BY <1>7, <1>t DEF FailRun, AtWork, Copies, TakeTurns, TypeOK
  <2> QED BY <2>1, <2>2 DEF Remembered
<1>8. ASSUME NEW late \in BOOLEAN, WriteBack(late) PROVE Remembered'
  <2>1. persisted' \in Transcript /\ stored' \in Transcript
    <3>1. Settled(late) \in Transcript
      BY <1>t DEF Settled, TypeOK
    <3> QED BY <1>8, <1>t, <3>1 DEF WriteBack, WrittenBack, TypeOK
  <2>2. TypeOK'
    BY <1>8, <1>t, <2>1, Tells DEF WriteBack, TypeOK, NoSummary
  <2>3. AtWork' /\ Copies' /\ TakeTurns'
    BY <1>8, <1>t DEF WriteBack, AtWork, Copies, TakeTurns
  <2> QED BY <2>2, <2>3 DEF Remembered
<1>9. CASE UNCHANGED vars
  BY <1>9, <1>t DEF vars, Remembered, TypeOK, AtWork, Copies, TakeTurns, Latest
<1> QED BY <1>1, <1>2, <1>3, <1>4, <1>5, <1>6, <1>7, <1>8, <1>9 DEF Next

-----------------------------------------------------------------------------
(* What a write-back does.                                                 *)

\* What goes back to the host is the copy settled on, or else the transcript.
LEMMA GoesBack ==
  ASSUME Remembered, [Next]_vars, WritesBack
  PROVE  \/ /\ summary.state # "none" /\ stored' = summary.memory
         \/ /\ persisted # None /\ stored' = persisted
         \/ /\ persisted = None /\ outbound # None /\ stored' = outbound
         \/ /\ outbound = None /\ stored' = inbound
<1>1. PICK late \in BOOLEAN : WriteBack(late)
  BY DEF Next, WritesBack, StartRun, Begin, GoOn, End, Summarised, Finish, FailRun, vars
<1>2. phase # "idle" /\ Copies /\ TypeOK
  BY DEF WritesBack, Remembered
<1>3. CASE summary.state = "done" /\ ~late
  <2>1. stored' = WrittenBack(summary.memory)
    BY <1>1, <1>3 DEF WriteBack, Settled
  <2>2. summary.memory # None
    BY <1>2, <1>3, Tells DEF Copies, TypeOK
  <2> QED BY <1>3, <2>1, <2>2 DEF WrittenBack
<1>4. CASE ~(summary.state = "done" /\ ~late)
  <2>1. stored' = WrittenBack(persisted)
    BY <1>1, <1>4 DEF WriteBack, Settled
  <2> QED BY <2>1 DEF WrittenBack
<1> QED BY <1>3, <1>4

\* Every reachable state remembers.
LEMMA RememberedAlways == Spec => []Remembered
<1>1. Init => Remembered
  BY RememberedInit
<1>2. Remembered /\ [Next]_vars => Remembered'
  BY RememberedNext
<1> QED BY <1>1, <1>2, PTL DEF Spec

\* Every variable holds what the code can put in it, in every reachable state.
THEOREM Typing == Spec => []TypeOK
<1>1. Remembered => TypeOK
  BY DEF Remembered
<1> QED BY <1>1, RememberedAlways, PTL

\* However many agents share the memory, in whatever order they are called and their
\* summaries end, nothing that was done is missing from what goes back, as long as they
\* take turns and no capture leaves an older copy's summary pending.
THEOREM NoneLost == Spec => NoWorkLost
<1>1. ASSUME Remembered, [Next]_vars, WritesBack, ~overlapped, ~shadowed
      PROVE  stored'.calls = inbound.calls \cup made
  <2>1. /\ phase = "settling" /\ Copies /\ TakeTurns /\ AtWork /\ TypeOK
    BY <1>1 DEF WritesBack, Remembered
  <2>2. \A a \in Agents : busy[a] \in {"idle", "paused"}
    BY <2>1 DEF AtWork, TypeOK
  <2>3. Latest = inbound.calls \cup made
    BY <1>1, <2>1, <2>2 DEF TakeTurns
  <2> QED BY <1>1, <2>1, <2>3, GoesBack DEF Copies, Latest
<1>2. Remembered /\ [Next]_vars =>
        (WritesBack /\ ~overlapped /\ ~shadowed => stored'.calls = inbound.calls \cup made)
  BY <1>1
<1>3. Spec => [][Next]_vars
  BY PTL DEF Spec
<1> QED BY <1>2, <1>3, RememberedAlways, PTL DEF NoWorkLost

\* A summary that is applied tells of the newest copy's calls, agents at work at once or
\* not, unless a capture left the summary of an older copy pending.
THEOREM NewestWins == Spec => NewestCopyWins
<1>1. ASSUME Remembered, [Next]_vars, WritesBack, ~shadowed, outbound # None
      PROVE  outbound.calls \subseteq stored'.calls
  BY <1>1, GoesBack DEF WritesBack, Remembered, Copies
<1>2. Remembered /\ [Next]_vars =>
        (WritesBack /\ ~shadowed /\ outbound # None => outbound.calls \subseteq stored'.calls)
  BY <1>1
<1>3. Spec => [][Next]_vars
  BY PTL DEF Spec
<1> QED BY <1>2, <1>3, RememberedAlways, PTL DEF NewestCopyWins

\* A sibling's masked or summarised copy never reaches an agent within the run: what the
\* group did in it is seen whole.
THEOREM SeesWhole == Spec => SeenWhole
<1>1. ASSUME Remembered, [Next]_vars, NEW a \in Agents,
             busy[a] = "idle", busy'[a] = "working", ~overlapped'
      PROVE  made' \subseteq messages'[a].whole
  <2>1. TypeOK /\ TakeTurns
    BY <1>1 DEF Remembered
  <2>2. Begin(a)
    <3>1. ASSUME NEW b \in Agents, Begin(b) PROVE b = a
      BY <1>1, <2>1, <3>1 DEF Begin, TypeOK
    <3>2. ~\E b \in Agents : GoOn(b) \/ \E pauses \in BOOLEAN : End(b, pauses)
      BY <1>1, <2>1 DEF GoOn, End, TypeOK
    <3>3. ~FailRun
      BY <1>1, <2>1 DEF FailRun, TypeOK
    <3> QED BY <1>1, <3>1, <3>2, <3>3
            DEF Next, vars, StartRun, Finish, Summarised, WriteBack
  <2>3. /\ phase = "running" /\ made' = made \cup {next}
        /\ ~overlapped /\ \A b \in Agents : busy[b] = "idle"
    BY <1>1, <2>2, Zenon DEF Begin
  <2>4. IF outbound # None THEN made \subseteq outbound.whole ELSE made = {}
    BY <2>1, <2>3 DEF TakeTurns
  <2> QED BY <1>1, <2>2, <2>3, <2>4, Begins
<1>2. Remembered /\ [Next]_vars =>
        \A a \in Agents :
          busy[a] = "idle" /\ busy'[a] = "working" /\ ~overlapped'
            => made' \subseteq messages'[a].whole
  BY <1>1
<1>3. Spec => [][Next]_vars
  BY PTL DEF Spec
<1> QED BY <1>2, <1>3, RememberedAlways, PTL DEF SeenWhole

\* What goes back in full is what an agent that keeps everything worked on: otherwise
\* only calls that are still open.
THEOREM StaysMasked == Spec => MaskedStays
<1>1. ASSUME Remembered, [Next]_vars, WritesBack, outbound # None,
             \A a \in Agents : Masks(a) \/ call[a] \notin made
      PROVE  stored'.whole \subseteq stored'.open
  BY <1>1, GoesBack DEF WritesBack, Remembered, Copies
<1>2. Remembered /\ [Next]_vars =>
        (WritesBack /\ outbound # None /\ (\A a \in Agents : Masks(a) \/ call[a] \notin made)
           => stored'.whole \subseteq stored'.open)
  BY <1>1
<1>3. Spec => [][Next]_vars
  BY PTL DEF Spec
<1> QED BY <1>2, <1>3, RememberedAlways, PTL DEF MaskedStays
=============================================================================
