----------------------------- MODULE ModelInput -----------------------------
(***************************************************************************)
(* The conversation of a history group's agents, message by message: what  *)
(* HistoryHook seeds an agent with, what ContextHook makes of its messages *)
(* at every model call, what is captured and what the host gets back.      *)
(*                                                                         *)
(* Agents take turns; MemoryWriteback has those that overlap, and the      *)
(* timing of summaries.  A paused agent waits for its answer, but a new    *)
(* message may come instead, to agents still held or to ones built anew    *)
(* (a restart, a session dropped or of one run).                           *)
(***************************************************************************)
EXTENDS Transcripts

CONSTANTS
  Agents,
  Tools,       \* the tools each agent has
  Asked,       \* the tool names each one's model asks for, mistyped ones too
  Keep,        \* each one's history policy: full, masked or summarised
  CachesByHand,\* agents whose cache points Bedrock takes from the hook
  Budget,      \* summarize_over
  Trigger, KeepLast, Step,   \* clear_tool_results, of every agent
  MaxTasks, MaxCalls, MaxRuns   \* bounds: tasks, tool calls and runs in all, to which
                                \* one more comes that only answers

VARIABLES
  phase, runs,        \* idle, resuming: the run answers a pause, running, paused
  inbound, outbound, persisted, pending,   \* the run's exchange; no entry is <<>>
  stored,             \* the group's transcript at the host
  status, agent,      \* whether an agent is at work, and which
  messages,           \* its messages
  waiting,            \* the messages an agent paused with, <<>> if it holds no pause
  raised,             \* the agent, if any, whose request the last run ended on
  givenUp,            \* calls of pauses that a new message took the place of
  seeded, inherited,  \* the marks of its invocation, 0 before they are set
  sent,               \* what its model was sent last, <<>> before the first call
  tasks, calls,       \* tasks and tool calls so far
  told, kept, folded, \* finished tasks of written-back runs, those whose report
                      \* asked to be remembered, those a summary may stand for
  asked,              \* this run's tasks whose report asked to be remembered
  shadowed,           \* a capture without a summary came after one with
  overtaken           \* an agent went on from before what the group did since

exchange == <<inbound, outbound, persisted, pending>>
memory == <<stored, told, kept, folded>>
pauses == <<waiting, raised, givenUp, overtaken>>
vars == <<phase, runs, exchange, memory, status, agent, messages, pauses, seeded, inherited,
          sent, tasks, calls, asked, shadowed>>

Init ==
  /\ phase = "idle" /\ runs = 0 /\ inbound = <<>> /\ outbound = <<>> /\ persisted = <<>>
  /\ pending = <<>> /\ stored = <<>> /\ status = "idle" /\ agent \in Agents /\ messages = <<>>
  /\ seeded = 0 /\ inherited = 0 /\ sent = <<>> /\ tasks = 0 /\ calls = 0
  /\ told = {} /\ kept = {} /\ folded = {} /\ asked = {} /\ shadowed = FALSE
  /\ waiting = [a \in Agents |-> <<>>] /\ raised = {} /\ givenUp = {} /\ overtaken = FALSE

\* delegate_tool_names: the delegates an agent has are never cleared.
Delegates(a) == Tools[a] \ Mcp
Mask(a, ms) == mask_transcript(ms, Delegates(a), Tools[a])
Masks(a) == Keep[a] # "full"

-----------------------------------------------------------------------------
(* A run and its agents.                                                   *)

Receives ==
  /\ phase = "idle" /\ runs' = runs + 1
  /\ inbound' = stored /\ outbound' = <<>> /\ persisted' = <<>> /\ pending' = <<>>
  /\ UNCHANGED <<memory, status, agent, messages, seeded, inherited, sent, tasks, calls, asked,
                 shadowed, overtaken>>

\* The pauses that agents hold when a run starts: none of those built anew for it, but
\* the one whose place the run brings along.
Held(rebuilt, restored) ==
  [a \in Agents |-> IF rebuilt /\ a \notin restored THEN <<>> ELSE waiting[a]]

Unanswered(ms) == Of(ms, "use") \ Of(ms, "result")

\* A new message: a pause it takes the place of is not restored, and its calls stay as
\* they were captured.
StartRun(rebuilt) ==
  /\ runs < MaxRuns /\ Receives /\ phase' = "running"
  /\ waiting' = Held(rebuilt, {}) /\ raised' = {}
  /\ givenUp' = givenUp \cup UNION {Unanswered(waiting[a]) : a \in raised}

\* The answer to the request the last run ended on.
ResumeRun(rebuilt) ==
  /\ runs <= MaxRuns /\ Receives /\ phase' = "resuming" /\ raised # {}
  /\ waiting' = Held(rebuilt, raised) /\ UNCHANGED <<raised, givenUp>>

\* _on_before: what the group did in this run, else what the client sent.
Seed(a) ==
  strip_cache_points(IF outbound # <<>> THEN outbound
                     ELSE IF Masks(a) THEN Mask(a, inbound) ELSE inbound)

\* An agent of the group that holds no pause is given a task.
Begin(a) ==
  /\ phase = "running" /\ status = "idle" /\ waiting[a] = <<>>
  /\ tasks < MaxTasks /\ runs <= MaxRuns
  /\ status' = "working" /\ agent' = a /\ tasks' = tasks + 1
  /\ messages' = Append(Seed(a), User(<<Block("brief", tasks', "text")>>))
  /\ seeded' = Len(Seed(a)) /\ inherited' = 0 /\ sent' = <<>>
  /\ UNCHANGED <<phase, runs, exchange, memory, pauses, calls, asked, shadowed>>

\* _pending_interrupt_responses: one that does raises its request again instead.
AskedAgain(a) ==
  /\ phase = "running" /\ status = "idle" /\ waiting[a] # <<>>
  /\ phase' = "paused" /\ raised' = {a}
  /\ UNCHANGED <<runs, exchange, memory, status, agent, messages, waiting, givenUp, overtaken,
                 seeded, inherited, sent, tasks, calls, asked, shadowed>>

\* A cache point ends the last message the agent was seeded with.
Marked ==
  IF seeded > 0 /\ agent \in CachesByHand
  THEN [messages EXCEPT ![seeded].content = Append(@, Cache)] ELSE messages

\* _model_input: what the model is sent; from the second call on, a working view ends it
\* with what changed since the first.
ModelInputOf(mark) ==
  LET joined == join_turns(foreign_calls_to_notes(Marked, Tools[agent], mark))
      cleared == IF estimate_tokens(joined) > Trigger
                 THEN clear_tool_results(joined, KeepLast, Delegates(agent), Tools[agent], Step)
                 ELSE joined
      shown == with_context(cleared, Block("context", 0, "base"))
  IN settle_cache_points(IF sent # <<>> THEN with_tail(shown, Block("changes", 0, "text")) ELSE shown)

\* A model call; what it returns is the agent's next message.
Call(answer) ==
  /\ status = "working" /\ Last(messages).role = "user"
  /\ inherited' = IF inherited = 0 THEN Len(messages) ELSE inherited
  /\ sent' = ModelInputOf(inherited')
  /\ messages' = Append(messages, Assistant(<<Block("reasoning", 0, "text")>> \o answer))

\* The model calls tools.
AsksForTools(names) ==
  /\ calls + Len(names) <= MaxCalls /\ calls' = calls + Len(names)
  /\ Call([i \in DOMAIN names |-> Block("use", calls + i, names[i])])
  /\ UNCHANGED <<phase, runs, exchange, memory, status, agent, pauses, seeded, tasks, asked,
                 shadowed>>

\* Every call of the response is answered in one message.
Answered ==
  /\ status = "working" /\ Last(messages).role = "assistant"
  /\ LET uses == SelectSeq(Last(messages).content, LAMBDA b : b.kind = "use")
         form(tool) == IF tool \in Mcp THEN "full" ELSE "plain"
     IN /\ uses # <<>>
        /\ messages' = Append(messages, User([i \in DOMAIN uses |->
                                Block("result", uses[i].of, form(uses[i].form))]))
  /\ UNCHANGED <<phase, runs, exchange, memory, status, agent, pauses, seeded, inherited, sent,
                 tasks, calls, asked, shadowed>>

\* _on_after: the group's transcript is the agent's, a masking agent's copy is masked,
\* and one over budget is given to a summarizer.
Capture(ms) ==
  LET captured == strip_cache_points(ms)
      copy == IF Masks(agent) THEN Mask(agent, captured) ELSE <<>>
  IN /\ outbound' = captured /\ persisted' = copy
     /\ pending' = IF Keep[agent] = "summarised" /\ estimate_tokens(copy) > Budget
                   THEN copy ELSE pending
     /\ shadowed' = (shadowed \/ (Keep[agent] # "summarised" /\ pending # <<>>))
     /\ UNCHANGED inbound

\* The task an agent was last given.
TaskOf(ms) == Max(Of(ms, "brief"))

\* The model reports, and may ask that its report be remembered.
Reports(form) ==
  /\ Call(<<Block("report", TaskOf(messages), form)>>)
  /\ status' = "idle" /\ Capture(messages')
  /\ asked' = IF form = "remember" THEN asked \cup {TaskOf(messages)} ELSE asked
  /\ UNCHANGED <<phase, runs, memory, agent, pauses, seeded, tasks, calls>>

\* The invocation ends early: its model failed or it was told to stop.
StopsEarly ==
  /\ status = "working" /\ Last(messages).role = "user"
  /\ status' = "idle" /\ Capture(messages)
  /\ UNCHANGED <<phase, runs, memory, agent, messages, pauses, seeded, inherited, sent, tasks,
                 calls, asked>>

\* A tool of the agent's raises a request: the agent waits, its calls unanswered, and
\* the run ends on it.
Pauses ==
  /\ status = "working" /\ Last(messages).role = "assistant"
  /\ \E b \in Range(Last(messages).content) : b.kind = "use" /\ b.form \in Tools[agent]
  /\ status' = "idle" /\ phase' = "paused" /\ Capture(messages)
  /\ waiting' = [waiting EXCEPT ![agent] = messages] /\ raised' = {agent}
  /\ UNCHANGED <<runs, memory, agent, messages, givenUp, overtaken, seeded, inherited, sent,
                 tasks, calls, asked>>

\* A run answers it: mid-interrupt, the agent's messages are left alone.
GoesOn(a) ==
  /\ phase = "resuming" /\ a \in raised
  /\ phase' = "running" /\ status' = "working" /\ agent' = a /\ raised' = {}
  /\ messages' = waiting[a] /\ waiting' = [waiting EXCEPT ![a] = <<>>]
  /\ overtaken' = (overtaken \/ ~(Of(inbound, "brief") \subseteq Of(waiting[a], "brief")))
  /\ seeded' = 0 /\ inherited' = 0 /\ sent' = <<>>
  /\ UNCHANGED <<runs, exchange, memory, givenUp, tasks, calls, asked, shadowed>>

\* _summarize: the oldest tasks give way to a pair that carries what was to be remembered.
Split(copy) == split_for_summary(copy, Budget - (Budget \div 4))
Summarised(copy) ==
  IF Split(copy).older = <<>> THEN copy
  ELSE summary_pair(remembered_blocks(Split(copy).older)) \o FlattenSeq(Split(copy).newer)

\* settle and written_back: a summary that was made in time, this run's copy, what it
\* captured, else what it was given. The exchange ends with its run, and an agent that
\* holds no pause is seeded anew.
Holding == {a \in Agents : waiting[a] # <<>>}
FinishRun(inTime) ==
  /\ phase \in {"running", "paused"} /\ status = "idle" /\ phase' = "idle"
  /\ inTime => pending # <<>>
  /\ stored' = IF inTime THEN Summarised(pending)
               ELSE IF persisted # <<>> THEN persisted
               ELSE IF outbound # <<>> THEN outbound ELSE inbound
  /\ told' = IF outbound = <<>> THEN told
             ELSE told \cup ((1..tasks) \ {TaskOf(waiting[a]) : a \in Holding})
  /\ kept' = kept \cup asked
  /\ folded' = IF inTime THEN folded \cup Of(FlattenSeq(Split(pending).older), "brief") ELSE folded
  /\ inbound' = <<>> /\ outbound' = <<>> /\ persisted' = <<>> /\ pending' = <<>>
  /\ messages' = <<>> /\ seeded' = 0 /\ inherited' = 0 /\ sent' = <<>> /\ asked' = {}
  /\ UNCHANGED <<runs, status, agent, pauses, tasks, calls, shadowed>>

-----------------------------------------------------------------------------
\* A response calls one or more of the tools its model knows of.
Turns == {SetToSeq(names) : names \in SUBSET Asked[agent] \ {{}}}

Next ==
  \/ Answered \/ StopsEarly \/ Pauses
  \/ \E rebuilt \in BOOLEAN : StartRun(rebuilt) \/ ResumeRun(rebuilt)
  \/ \E a \in Agents : Begin(a) \/ AskedAgain(a) \/ GoesOn(a)
  \/ \E names \in Turns : AsksForTools(names)
  \/ \E form \in {"plain", "remember"} : Reports(form)
  \/ \E inTime \in BOOLEAN : FinishRun(inTime)

Spec == Init /\ [][Next]_vars

-----------------------------------------------------------------------------
(* Properties.                                                             *)

\* The calls the agent made since its invocation's first model call.
OwnCalls == Of(SubSeq(messages, inherited + 1, Len(messages)), "use")
Answering(ms) == Of(<<Last(ms)>>, "result")

\* What a model is sent is a conversation it accepts, whatever the group, earlier runs,
\* failures and answered pauses left in the agent's messages: it opens and ends with the
\* user, the roles alternate, no message is empty or opens with a cache point, calls and
\* results pair up in neighbouring messages, a tool the agent does not have is only
\* called where it asked for it itself, and results it has not read come whole. (The
\* exception is a call of a pause that a new message took the place of: no result ever
\* comes, and a delegate built anew is seeded with it and briefed.)
SentIsValid ==
  LET uses(i) == Of(<<sent[i]>>, "use")
      answers(i) == IF i = Len(sent) THEN {} ELSE Of(<<sent[i + 1]>>, "result")
  IN sent # <<>> =>
    /\ \A i \in DOMAIN sent :
         /\ sent[i].content # <<>> /\ sent[i].content[1] # Cache
         /\ sent[i].role = IF i % 2 = 1 THEN "user" ELSE "assistant"
         /\ answers(i) \subseteq uses(i) /\ uses(i) \ givenUp \subseteq answers(i)
         /\ i = 1 => Of(<<sent[i]>>, "result") = {}
    /\ Last(sent).role = "user"
    /\ \A b \in Blocks(sent) :
         b.kind = "use" => b.form \in Tools[agent] \/ b.of \in OwnCalls \cup Answering(sent)
    /\ ~Has(Last(sent), {"brief"}) =>
         \A b \in Range(Last(sent).content) : b.kind = "result" => b.form # "cleared"

\* A message is sent again as it was, but for changes it ended with and results cleared.
SameAgain(m, n) ==
  LET before == SelectSeq(m.content, LAMBDA b : b.kind # "changes")
      after == SelectSeq(n.content, LAMBDA b : b.kind # "changes")
  IN /\ m.role = n.role /\ Len(before) = Len(after)
     /\ \A i \in DOMAIN before :
          after[i] \in {before[i]} \cup (IF before[i].kind = "result"
                                       THEN {[before[i] EXCEPT !.form = "cleared"]} ELSE {})

\* The invocation's first model call reads the result of a call to a tool the agent
\* does not have: it paused in the step that made it.
ReadsMistyped ==
  \E b \in Blocks(SubSeq(messages, 1, inherited)) :
    b.kind = "use" /\ b.form \notin Tools[agent] /\ b.of \in Answering(SubSeq(messages, 1, inherited))

\* Within an invocation each model call sends what the last one sent, and more after it:
\* notes, context and the cache point stay put, a cleared result never comes back, so
\* what a prompt cache holds of the conversation keeps applying. (A call to a mistyped
\* tool that the first model call of a resumed invocation reads becomes a note after it.)
PrefixStays ==
  [][sent # <<>> /\ sent' # <<>> /\ ~ReadsMistyped =>
       /\ Len(sent) <= Len(sent')
       /\ \A i \in DOMAIN sent : SameAgain(sent[i], sent'[i])]_vars

\* What the host holds between runs tells of every finished task, by its brief or by a
\* summary, holds verbatim every report that asked to be remembered, however often it
\* was summarised, and no cache point; and masking a masked memory changes nothing.
\* (Until a delegate that held a pause a new message took the place of is answered after
\* all: it goes on from its old messages and captures them, without what came since.)
MemoryKept ==
  phase = "idle" /\ ~shadowed /\ ~overtaken =>
    /\ told \subseteq Of(stored, "brief") \cup (IF Of(stored, "summary") = {} THEN {} ELSE folded)
    /\ kept \subseteq {b.of : b \in {c \in Blocks(stored) :
                                     c.kind = "remember" \/ c.form = "remember"}}
    /\ Of(stored, "cache") = {}
    /\ \A a \in Agents : Masks(a) => Mask(a, Mask(a, stored)) = Mask(a, stored)
=============================================================================
