------------------------------ MODULE GateResume ------------------------------
(***************************************************************************)
(* Human approval of gated tool calls, across runs and processes.          *)
(*                                                                         *)
(* One conversation.  Its agent calls gated tools; the gate (InterruptHook)*)
(* pauses the run on a call nobody has approved; the run's write-back      *)
(* (sessions_delta) hands the paused checkpoint to the host; the person    *)
(* answers; the host resumes with the answers and a checkpoint it holds;   *)
(* the run restores the checkpoint if its agent needs it                   *)
(* (restore_session_state) and the gate decides every waiting call.        *)
(*                                                                         *)
(* The process may restart between any two steps, a run may end without    *)
(* its write-back, and the host may replay an older checkpoint.  Model     *)
(* turns, tool bodies and message contents are abstracted away.            *)
(***************************************************************************)
EXTENDS Naturals, FiniteSets

CONSTANTS
  Calls,        \* gated tool calls the model may make (toolUseIds)
  Subjects,     \* what a remembered decision covers
  SubjectOf,    \* the subject of each call
  MaxRuns,      \* bound on the requests the host sends
  MaxTears,     \* bound on runs that end without their write-back
  MaxRestarts,  \* bound on process restarts
  MaxReplays    \* bound on the requests built from something older than the
                \* host's latest checkpoint

ASSUME GateResumeAssumption ==
  /\ SubjectOf \in [Calls -> Subjects]
  /\ MaxRuns \in Nat /\ MaxTears \in Nat
  /\ MaxRestarts \in Nat /\ MaxReplays \in Nat

Approvals == {"approved", "allowed"}     \* "allowed": approved with a wider scope
Answers == Approvals \cup {"denied", "skipped"}
NoAnswers == [c \in Calls |-> "none"]

\* The agent's interrupt state, which is also the checkpoint a host stores:
\* whether the agent is paused, how each gated call's request stands, and
\* the calls of the paused step that still have no result.
Gate == [active : BOOLEAN,
         ask    : [Calls -> {"unasked", "open"} \cup Answers],
         todo   : SUBSET Calls]
Clean == [active |-> FALSE, ask |-> [c \in Calls |-> "unasked"], todo |-> {}]
\* Stands for "no checkpoint": no agent's state looks like it.
Absent == [active |-> FALSE, ask |-> [c \in Calls |-> "unasked"], todo |-> Calls]

Open(g) == {c \in Calls : g.ask[c] = "open"}
Holds(g) == g.active \/ \E c \in Calls : g.ask[c] # "unasked"

VARIABLES
  warm,       \* this process has the thread's agent
  gate,       \* its interrupt state
  phase,      \* where the run is
  resuming,   \* SessionExchange.resuming
  inbound,    \* SessionExchange.inbound: the checkpoint the request carried
  restored,   \* SessionExchange.restored
  answers,    \* the answers the request carried
  allowed,    \* forwardedProps.kaboo_grants of this run
  left,       \* calls of the current step not yet decided
  done,       \* calls this run gave a result
  saved,      \* the latest checkpoint the host stored
  older,      \* checkpoints it stored before
  grants,     \* permissions the host remembers
  ever,       \* permissions it remembered at any time
  late,       \* calls whose request is past its deadline
  issued,     \* the run that made each call, 0 when not made
  ran,        \* how often each tool body ran
  approvals,  \* how often a resume the host sent approved each call
  torn,       \* host and agent may differ: no write-back, or a stale request
  refused,    \* this process refused the last resume
  runs, tears, restarts, replays

agentVars == <<warm, gate>>
runVars == <<phase, resuming, inbound, restored, answers, allowed, left, done>>
hostVars == <<saved, older, grants, ever>>
bookVars == <<late, issued, ran, approvals>>
faultVars == <<torn, refused, runs, tears, restarts, replays>>
vars == <<agentVars, runVars, hostVars, bookVars, faultVars>>

Init ==
  /\ warm = FALSE /\ gate = Clean
  /\ phase = "idle" /\ resuming = FALSE /\ inbound = Absent /\ restored = FALSE
  /\ answers = NoAnswers /\ allowed = {} /\ left = {} /\ done = {}
  /\ saved = Absent /\ older = {} /\ grants = {} /\ ever = {}
  /\ late = {} /\ issued = [c \in Calls |-> 0]
  /\ ran = [c \in Calls |-> 0] /\ approvals = [c \in Calls |-> 0]
  /\ torn = FALSE /\ refused = FALSE /\ runs = 0
  /\ tears = 0 /\ restarts = 0 /\ replays = 0

-----------------------------------------------------------------------------
(* The host and the person.                                                *)

\* A request is built from what the host knows now, or, at most MaxReplays
\* times, from something it knew before: a second tab, a double click, a retry.
Known == {saved} \cup (IF replays < MaxReplays THEN older ELSE {})

\* kaboo_endpoint: bind the request's exchanges before its run starts.  card is
\* the checkpoint whose requests the person saw, checkpoint the one it carries.
Bind(card, checkpoint, isResume, given, known) ==
  /\ phase = "idle" /\ runs < MaxRuns
  /\ runs' = runs + 1 /\ phase' = "bound"
  /\ resuming' = isResume /\ inbound' = checkpoint /\ restored' = FALSE
  /\ answers' = given /\ allowed' = known
  /\ left' = {} /\ done' = {} /\ refused' = FALSE
  /\ IF card = saved /\ checkpoint = saved
       THEN UNCHANGED <<torn, replays>>
       ELSE torn' = TRUE /\ replays' = replays + 1
  /\ UNCHANGED <<agentVars, saved, older, late, issued, ran, tears, restarts>>

\* The person sends a message: a run that resumes nothing.
SendMessage(checkpoint) ==
  /\ checkpoint \in Known
  /\ Bind(saved, checkpoint, FALSE, NoAnswers, grants)
  /\ UNCHANGED <<grants, ever, approvals>>

\* The person answers every request a checkpoint holds open.  The host saves
\* a wider decision as a permission, which the same run already carries.
SendResume(card, checkpoint, given) ==
  /\ card \in Known /\ checkpoint \in Known
  /\ card.active
  /\ \A c \in Calls : given[c] # "none" <=> c \in Open(card)
  /\ LET wider == {SubjectOf[c] : c \in {d \in Calls : given[d] = "allowed"}} IN
       grants' = grants \cup wider /\ ever' = ever \cup wider
  /\ approvals' = [c \in Calls |->
                     IF given[c] \in Approvals THEN approvals[c] + 1 ELSE approvals[c]]
  /\ Bind(card, checkpoint, TRUE, given, grants')

\* The host revokes a permission between runs.
Revoke(s) ==
  /\ phase = "idle" /\ s \in grants
  /\ grants' = grants \ {s}
  /\ UNCHANGED <<agentVars, runVars, saved, older, ever, bookVars, faultVars>>

\* A request's deadline passes while nobody has decided the call.
Expire(c) ==
  /\ issued[c] > 0 /\ c \notin late
  /\ late' = late \cup {c}
  /\ UNCHANGED <<agentVars, runVars, hostVars, issued, ran, approvals, faultVars>>

-----------------------------------------------------------------------------
(* Restoring the checkpoint.                                               *)

\* Variants with a bug: one forgets that the run restored already, the other
\* that a message supersedes the gate.
MayRestore_Again == resuming /\ inbound # Absent
MayRestore_AnyRun == ~restored /\ inbound # Absent

\* restore_session_state applies to this run: it resumes, has not restored
\* yet, and the request carried a checkpoint.
MayRestore == resuming /\ ~restored /\ inbound # Absent

\* Variants with a bug: the checkpoint is taken without the step it belongs to,
\* or never.
AfterRestore_Partial(g) ==
  IF MayRestore /\ ~Holds(g) THEN [active |-> inbound.active, ask |-> inbound.ask] ELSE g
AfterRestore_Never(g) == g

\* The agent's state after restore_session_state: a clean agent takes the
\* client's checkpoint, one that holds a gate keeps its own.
AfterRestore(g) == IF MayRestore /\ ~Holds(g) THEN inbound ELSE g

\* A variant with a bug: a process that never ran the thread refuses.
PrepareResume_WarmOnly ==
  /\ phase = "bound" /\ resuming
  /\ IF warm
       THEN phase' = "ready" /\ restored' = (restored \/ MayRestore) /\ UNCHANGED refused
       ELSE phase' = "idle" /\ refused' = TRUE /\ UNCHANGED restored
  /\ gate' = IF warm THEN AfterRestore(gate) ELSE gate
  /\ UNCHANGED <<warm, resuming, inbound, answers, allowed, left, done, hostVars, bookVars,
                 torn, runs, tears, restarts, replays>>

\* _prepare_resume: seed a cold process's agent and restore onto it.
PrepareResume ==
  /\ phase = "bound" /\ resuming
  /\ LET seeded == IF warm THEN gate ELSE Clean IN
       /\ gate' = AfterRestore(seeded)
       /\ restored' = (restored \/ MayRestore)
       /\ warm' = TRUE
       /\ IF warm \/ (MayRestore /\ ~Holds(seeded))
            THEN /\ phase' = "ready" /\ UNCHANGED refused
            ELSE /\ phase' = "idle" /\ refused' = TRUE
  /\ UNCHANGED <<resuming, inbound, answers, allowed, left, done, hostVars, bookVars,
                 torn, runs, tears, restarts, replays>>

\* ag-ui-strands takes the answers when they address exactly the requests the
\* agent holds open, and reports an error otherwise.  Starting the invocation
\* runs SessionStateHook, which restores nothing a second time.
TakeAnswers ==
  /\ phase = "ready"
  /\ IF gate.active /\ \A c \in Calls : answers[c] # "none" <=> c \in Open(gate)
       THEN LET g == AfterRestore(gate) IN
            /\ gate' = [g EXCEPT !.ask =
                          [c \in Calls |-> IF answers[c] # "none" THEN answers[c] ELSE g.ask[c]]]
            /\ restored' = (restored \/ MayRestore)
            /\ left' = g.todo /\ phase' = "calling"
            /\ UNCHANGED refused
       ELSE /\ phase' = "idle" /\ refused' = TRUE
            /\ UNCHANGED <<gate, restored, left>>
  /\ UNCHANGED <<warm, resuming, inbound, answers, allowed, done, hostVars, bookVars,
                 torn, runs, tears, restarts, replays>>

\* A message on a warm agent supersedes its gate, and the hook restores none.
StartFresh ==
  /\ phase = "bound" /\ ~resuming
  /\ warm' = TRUE /\ gate' = AfterRestore(Clean)
  /\ restored' = (restored \/ MayRestore)
  /\ phase' = "thinking"
  /\ UNCHANGED <<resuming, inbound, answers, allowed, left, done, hostVars, bookVars, faultVars>>

-----------------------------------------------------------------------------
(* The run.                                                                *)

\* The model answers with a step of tool calls it has not made before.
MakeCalls(step) ==
  /\ phase = "thinking"
  /\ step # {} /\ \A c \in step : issued[c] = 0
  /\ issued' = [c \in Calls |-> IF c \in step THEN runs ELSE issued[c]]
  /\ gate' = [gate EXCEPT !.todo = step]
  /\ left' = step /\ phase' = "calling"
  /\ UNCHANGED <<warm, resuming, inbound, restored, answers, allowed, done, hostVars,
                 late, ran, approvals, faultVars>>

\* Variants with a bug: any answer but a denial runs the call, or a permission
\* is looked up before the person's answer.
Verdict_UnlessDenied(c) ==
  IF gate.ask[c] \in Answers
    THEN IF c \notin late /\ gate.ask[c] # "denied" THEN "run" ELSE "cancel"
    ELSE IF SubjectOf[c] \in allowed THEN "run" ELSE "ask"
Verdict_PermissionFirst(c) ==
  IF SubjectOf[c] \in allowed THEN "run"
  ELSE IF gate.ask[c] \notin Answers THEN "ask"
  ELSE IF c \notin late /\ gate.ask[c] \in Approvals THEN "run" ELSE "cancel"

\* What the gate makes of a call: the person's own answer first (unless it
\* comes after the deadline), then a remembered permission, else it asks.
Verdict(c) ==
  IF gate.ask[c] \in Answers
    THEN IF c \notin late /\ gate.ask[c] \in Approvals THEN "run" ELSE "cancel"
    ELSE IF SubjectOf[c] \in allowed THEN "run" ELSE "ask"

\* InterruptHook._on_before_tool on one call of the step, and the tool body
\* when the gate lets it run.
Decide(c) ==
  /\ phase = "calling" /\ c \in left
  /\ left' = left \ {c}
  /\ ran' = IF Verdict(c) = "run" THEN [ran EXCEPT ![c] = @ + 1] ELSE ran
  /\ done' = IF Verdict(c) = "ask" THEN done ELSE done \cup {c}
  /\ gate' = IF Verdict(c) = "ask" THEN [gate EXCEPT !.ask[c] = "open"] ELSE gate
  /\ UNCHANGED <<warm, phase, resuming, inbound, restored, answers, allowed, hostVars,
                 late, issued, approvals, faultVars>>

\* The step ends: paused when a call is waiting, otherwise the interrupt state
\* is cleared and the model goes on.
EndStep ==
  /\ phase = "calling" /\ left = {}
  /\ IF Open(gate) # {}
       THEN /\ gate' = [gate EXCEPT !.active = TRUE, !.todo = Open(gate)]
            /\ phase' = "finished"
       ELSE /\ gate' = Clean /\ phase' = "thinking"
  /\ UNCHANGED <<warm, resuming, inbound, restored, answers, allowed, left, done,
                 hostVars, bookVars, faultVars>>

\* A hook sends the agent back for another invocation of the same run.
SendBack ==
  /\ phase = "thinking" /\ done # {}
  /\ gate' = AfterRestore(gate)
  /\ restored' = (restored \/ MayRestore)
  /\ left' = gate'.todo
  /\ phase' = IF gate'.active THEN "calling" ELSE "thinking"
  /\ UNCHANGED <<warm, resuming, inbound, answers, allowed, done, hostVars, bookVars, faultVars>>

\* The model answers in text, and the run ends.
Conclude ==
  /\ phase = "thinking" /\ phase' = "finished"
  /\ UNCHANGED <<agentVars, resuming, inbound, restored, answers, allowed, left, done,
                 hostVars, bookVars, faultVars>>

\* A variant with a bug: a cleared gate is not sent.
Snapshots_OnlyPauses == IF Holds(gate) THEN {gate} ELSE {Absent, saved}

\* session_state_snapshot: the agent's gate; a cleared one when the client
\* sent a checkpoint; otherwise nothing, and the write-back keeps no checkpoint
\* or (when it has nothing at all to say) leaves the host's as it was.
Snapshots ==
  IF Holds(gate) THEN {gate}
  ELSE IF inbound # Absent THEN {Clean}
  ELSE {Absent, saved}

\* RUN_FINISHED: sessions_delta reaches the host, which stores it.
WriteBack ==
  /\ phase = "finished" /\ phase' = "idle"
  /\ saved' \in Snapshots
  /\ older' = older \cup {saved}
  /\ torn' = (inbound = Absent /\ saved' # Absent /\ ~Holds(gate))
  /\ UNCHANGED <<agentVars, resuming, inbound, restored, answers, allowed, left, done,
                 grants, ever, bookVars, refused, runs, tears, restarts, replays>>

\* The run ends without its write-back: the model failed, or the client left
\* and the run task was cancelled.
Tear ==
  /\ phase \in {"calling", "thinking", "finished"} /\ tears < MaxTears
  /\ phase' = "idle" /\ tears' = tears + 1 /\ torn' = TRUE
  /\ UNCHANGED <<agentVars, resuming, inbound, restored, answers, allowed, left, done,
                 hostVars, bookVars, refused, runs, restarts, replays>>

\* The process goes, and with it the thread's agent and any run: a deploy,
\* another replica, a session dropped or rebuilt per run.  In the middle of a
\* run it also loses the write-back.
Restart ==
  /\ restarts < MaxRestarts /\ restarts' = restarts + 1
  /\ IF phase = "idle"
       THEN UNCHANGED tears
       ELSE tears < MaxTears /\ tears' = tears + 1
  /\ warm' = FALSE /\ gate' = Clean /\ phase' = "idle"
  /\ torn' = FALSE /\ refused' = FALSE
  /\ UNCHANGED <<resuming, inbound, restored, answers, allowed, left, done,
                 hostVars, bookVars, runs, replays>>

-----------------------------------------------------------------------------
RunStep ==
  \/ PrepareResume \/ TakeAnswers \/ StartFresh
  \/ \E c \in Calls : Decide(c)
  \/ EndStep \/ Conclude \/ WriteBack

Next ==
  \/ RunStep
  \/ SendBack
  \/ \E step \in SUBSET Calls : MakeCalls(step)
  \/ \E s \in Known : SendMessage(s)
  \/ \E card, s \in Known, given \in [Calls -> Answers \cup {"none"}] :
       SendResume(card, s, given)
  \/ \E s \in Subjects : Revoke(s)
  \/ \E c \in Calls : Expire(c)
  \/ Tear \/ Restart

\* The run's own steps always go on; the person, the clock, the model's
\* choice to call tools and the faults are free to never happen.
Fairness == WF_vars(RunStep)

Spec == Init /\ [][Next]_vars /\ Fairness

-----------------------------------------------------------------------------
(* Properties.                                                             *)

\* Every variable holds what the code can put in it.
TypeOK ==
  /\ warm \in BOOLEAN /\ gate \in Gate
  /\ phase \in {"idle", "bound", "ready", "calling", "thinking", "finished"}
  /\ resuming \in BOOLEAN /\ inbound \in Gate /\ restored \in BOOLEAN
  /\ answers \in [Calls -> Answers \cup {"none"}] /\ allowed \subseteq Subjects
  /\ left \subseteq Calls /\ done \subseteq Calls
  /\ saved \in Gate /\ older \subseteq Gate
  /\ grants \subseteq Subjects /\ ever \subseteq Subjects
  /\ late \subseteq Calls /\ issued \in [Calls -> Nat]
  /\ ran \in [Calls -> Nat] /\ approvals \in [Calls -> Nat]
  /\ torn \in BOOLEAN /\ refused \in BOOLEAN
  /\ runs \in Nat /\ tears \in Nat /\ restarts \in Nat /\ replays \in Nat

\* A gated tool body runs at most once for each resume that approved the call,
\* and once more at most for a call a permission covered: through restarts,
\* lost write-backs, replayed checkpoints and sent-back runs.
OncePerApproval ==
  \A c \in Calls : ran[c] <= approvals[c] + (IF SubjectOf[c] \in ever THEN 1 ELSE 0)

\* When every run wrote back and every request was built from the host's
\* latest checkpoint, no call runs twice, restarts between runs or not.
OncePerCall ==
  tears = 0 /\ replays = 0 => \A c \in Calls : ran[c] <= 1

\* The person's own answer decides a call they answered, whatever permission
\* stands, and only an approval in time lets it run (_earlier_request is read
\* before _matching_grant, and the deadline before the answer).
AnswerDecides ==
  [][\A c \in Calls :
       phase = "calling" /\ answers[c] # "none" /\ ran'[c] > ran[c]
         => answers[c] \in Approvals /\ c \notin late]_vars

\* Between runs the host and a warm agent agree on what the agent waits for,
\* unless the last run lost its write-back or was built from something stale:
\* a paused agent's checkpoint is the one stored, a clean agent's is cleared.
HostKnowsPause ==
  phase = "idle" /\ warm /\ ~torn
    => /\ Holds(gate) => saved = gate
       /\ ~Holds(gate) => ~Holds(saved)

\* A resume with the host's latest checkpoint and the answers to its requests
\* is never refused, on a warm process or a cold one, while host and agent
\* are in step.
ResumeTaken == refused => torn

\* A run that resumes nothing ends waiting only for calls of its own: a message
\* supersedes the gate, on a warm process and a cold one.
FreshRunOwnsItsPause ==
  phase = "finished" /\ ~resuming => \A c \in Open(gate) : issued[c] = runs

\* A call approved in a resume that is in step with the host gets its result
\* in that run: no restart before it, and no hook, makes the approval vanish.
ApprovalHonoured ==
  \A c \in Calls :
    (phase = "bound" /\ resuming /\ answers[c] \in Approvals /\ ~torn)
      ~> (c \in done \/ tears > 0)

\* What the documentation says of a process that stays up: a warm agent's own
\* state wins, so an answered gate never comes back.
OnceWhileWarm ==
  restarts = 0 => \A c \in Calls : ran[c] <= 1
=============================================================================
