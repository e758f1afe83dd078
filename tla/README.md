# Formal models of kaboo-workflows

kaboo-workflows builds multi-agent pipelines from YAML on top of
[strands](https://strandsagents.com) and serves them over the AG-UI protocol.
What makes it hard is not any one agent but the state that outlives a run: a
tool call that waits for a person's approval, the checkpoint a client holds and
sends back, the history a run writes back, the event stream that a response, a
run task and several sub-agents share. This directory holds TLA+ models of
those parts, the TLC configurations that check them, and proofs checked by
TLAPS.

Paths below are relative to the repository; `k/` stands for
`src/kaboo_workflows/`.

## 1. The system

| Component | Code | State it keeps | Operations |
|---|---|---|---|
| Approval gate | `k/hooks/interrupt_hook.py` | the agent's interrupt state | decide a call, pause, take an answer, apply a remembered permission, expire |
| Session checkpoint | `k/hooks/session_state_hook.py`, `k/adapters/_sessions.py`, `k/adapters/_strands_bridge.py` | `SessionExchange` of a run, the host's copy | restore, snapshot, write back (`sessions_delta`) |
| AG-UI endpoint | `k/adapters/agui.py` | run task and queue of each response | bind exchanges, prepare a resume, consume the run, stream, disconnect, release |
| Event publisher | `k/hooks/event_publisher.py` | invocation counts, error latch | report an agent's hooks, tagged with its stream group |
| Event queue, sub-agent stream | `k/wire.py`, `k/adapters/_subagents.py`, `k/adapters/_order.py` | one sink per session, open segments, each scope's newest message | put, forward, translate, place, close |
| Interrupts, browser tools | `k/adapters/_interrupts.py`, `k/adapters/_client_tools.py`, `k/tools/_browser.py` | requests waiting at the client | tell a pause's outcome |
| Delegates as tools | `k/tools/wrappers.py` | a lock and an agent per node, its places | take a turn, forward requests, keep and restore a place |
| Client-driven history | `k/hooks/history_hook.py`, `k/hooks/_transcript.py`, `k/_context.py` | `HistoryExchange` of a run, pending summaries | seed, capture, mask, summarise, settle |
| Context hook | `k/hooks/context_hook.py` | the marks of an invocation | join turns, turn foreign calls to notes, clear results, add context, cache points |
| Tool-call hooks | `k/hooks/tool_approval_hook.py`, `max_calls_guard.py`, `stop_guard.py`, `state_effects.py` | counters, the run's state | limit, stop, ask, patch the state |
| MCP | `k/mcp/lifecycle.py`, `k/mcp/server.py`, `k/mcp/client.py`, `k/config/resolvers/mcp.py` | servers, clients, threads | start, wait until ready, stop |
| Conversation sessions | `k/adapters/agui.py` | least recently used sessions; one per run | get, build, drop, close |
| Configuration loading | `k/config/schema.py`, `interpolation.py`, `loaders/`, `resolvers/config.py` | none | interpolate, sanitise, merge, overlay, validate, resolve |
| Orchestration planner | `k/config/resolvers/orchestrations/` | none | build order, builders of the three modes |
| References and attachments; models, auth, telemetry; converters, renderers; command line, evaluation, testing | the rest of `k/` | none between calls | adapt, format, drive |

`PROJECT.json` has the same list with the status of each part.

### How they interact

A request (`kaboo_endpoint`) binds two exchanges in context variables, one for
session checkpoints and one for histories, points the session's event queue at
its own response, and starts a run task when the response is read. The run task
drives the entry agent of the conversation. Hooks on that agent and on the
agents it delegates to read and write the exchanges: `SessionStateHook` restores
a checkpoint, `InterruptHook` decides gated calls, `HistoryHook` seeds and
captures messages. When the run finishes, the task reads the exchanges and puts
one state write-back in front of RUN_FINISHED; only a run that finishes or
pauses has one. The client stores it and sends it with its next request, which
may reach another process. A session, with its agent and its queue, is kept per
conversation while it lasts; nothing is persisted on the server.

Inside a run, every agent's hooks report to its `EventPublisher`. The session's
queue hands each report to `SubagentStream`, which turns it into AG-UI events on
the invocation's card; `RunEvents` and `AppendOnly` order them as the response
sends them. A process starts from YAML sources, which are interpolated,
sanitised, merged and validated, possibly with an overlay that a run brings;
what is built of them decides on which card a node is shown, in which memory
it writes, and which MCP clients it holds.

### What is hard here

1. **The same state in two places.** The agent of a warm process and the
   client's checkpoint both say what waits for approval. Either may be older:
   the process may restart, a run may end without its write-back, a request may
   be built from an old checkpoint.
2. **Effects that must not repeat.** A gated tool body has side effects, and
   the step it belongs to is replayed on resume.
3. **One queue, several producers, a response that may be gone.** Order,
   completeness and cleanup of the event stream.
4. **One delegate, several calls.** Calls made in one step run concurrently
   and share an agent that can pause.
5. **Background work at the end of a run.** A summary is written while the run
   goes on, and is cancelled, replaced or waited for with a limit.
6. **Lifecycles.** MCP servers and clients whose threads outlive a timeout,
   sessions dropped by an LRU, runs that bring clients of their own.
7. **A conversation nobody wrote as a whole.** What a model is sent is seeded
   from other agents' transcripts, masked, summarised, cleared and annotated,
   and must still be one the provider takes.
8. **Names.** Sanitised, interpolated, merged and overlaid in turn; a reference
   must still mean what its document meant.

`PROJECT.json` lists 40 places where one of these bites, by line, with the
properties that watch them.

### What each component owes

- *Gate and checkpoint:* a tool runs no more often than resumes approved its
  call; the person's answer beats any standing permission and a deadline beats
  the answer; host and agent agree on what waits; a resume that is in step with
  the host is taken on any process and honoured; a message supersedes a gate.
- *Stream:* one result per call; nothing left open once a run is reported over;
  a released response is really over; a response that started ends.
- *Event translation:* the order and nesting the AG-UI protocol requires; cards
  that close innermost first; a client that folds the events knows what became
  of every invocation and what a pause waits for.
- *Delegates:* one task at a time, each call its own result, one question per
  gated call; a pause survives a restart; no call waits for ever.
- *Tool-call hooks:* a call does its work once, never unapproved, never beyond
  the limit; the client's copy of the run's state follows it; the loop ends.
- *History:* what is written back is complete, newest, and masked where it
  should be; a run always gets to write back; what was asked to be remembered
  survives every summary.
- *Context:* what a model is sent is a valid conversation that only grows.
- *Configuration and planner:* a name keeps its meaning; every orchestration is
  built after what it names; every node has its card and its memory.
- *MCP and sessions:* every client session has somebody who will close it; a
  conversation within the limit finds its session again.

## 2. Modules

Each `MC*.tla` extends the module it names and gives its constants finite
values; the `.cfg` files are the runs. How modules compose:

    SessionLife  = Orchestrations (ConfigLoading (ConfigSchema)) + McpLifecycle (ConfigSchema)
    ModelInput   = Transcripts
    SubagentStream implements AgentStream

`GateResume`, `RunStream`, `DelegateTurns`, `MemoryWriteback` and `ToolCalls`
stand alone: each takes what its neighbours do to it as an action of its own.

### GateResume: approval of gated calls across runs and processes

| Variables | Code |
|---|---|
| `gate`, `warm` | `_interrupt_state` of the thread's agent, and whether this process has one |
| `resuming`, `inbound`, `restored` | the `SessionExchange` of the run (`k/_context.py`) |
| `answers`, `allowed` | `resume` and `forwardedProps.kaboo_grants` of the request |
| `phase`, `left`, `done` | where `_consume_run` and the agent loop are |
| `saved`, `older`, `grants` | what the host stored: checkpoints and permissions |
| `torn`, `refused`, `ever`, `issued`, `ran`, `approvals`, `late` | history variables for the properties, and the clock |

| Actions | Code |
|---|---|
| `SendMessage`, `SendResume` (`Bind`) | `kaboo_endpoint`: binding of a request |
| `PrepareResume` | `_prepare_resume`, including seeding a cold agent |
| `TakeAnswers` | the strands bridge's check of the answers, then the invocation hook |
| `StartFresh` | a message on a warm agent, which supersedes its gate |
| `MakeCalls`, `Decide`, `EndStep`, `SendBack`, `Conclude` | the agent loop with `InterruptHook._on_before_tool`; the loop itself is external |
| `WriteBack` | `session_state_snapshot` and `sessions_delta` at RUN_FINISHED |
| `Tear`, `Restart`, `Expire`, `Revoke` | failure or cancellation of a run, loss of the process, the clock, the host |

A gated call stands for its tool, subject and input: rules and subjects are
abstracted to `SubjectOf`, what a permission covers.

### RunStream: the events of a conversation's responses

`stage` and `task` are where each response (`_sse_response`) and run task
(`_consume_run`) is, `merged` the response's queue, `segments` the
invocations `SubagentStream` has open, `sink` the session queue's forward
target, `unresolved` the calls the run task has announced. `results`, `shown`
and `ending` are the client's view. `Arrive`, `Refuse`, `Abandon`, `Start`,
`Deliver`, `Close`, `Leave` and `Unwind` are the response; `CallStarts`,
`CallEnds`, `Finish`, `TaskEnds` and `Fail` the run task, and `Relay` the error
event that ag-ui-strands may end a run with itself, which the task passes on
(`agui.py:364`) without closing a call; `Publish` an event of a delegated agent. Requests may overlap and clients may leave anywhere.

### SubagentStream and AgentStream: sub-agents' work as the client sees it

`work`, `call`, `host`, `asks` and `answered` are the agents, `publisher` the
counts and latch of each `EventPublisher`, `stream` the state of
`SubagentStream`, `order` that of `AppendOnly`, `queue` what the response has
yet to send. `client` folds the events it is sent into cards, messages and
calls as the activity recipe does. An agent's step (`Begins`, `Says`, `Reasons`,
`Writes`, `EndsTurn`, `StartsTool`, `EndsTool`, `Waits`, `Pauses`, `Completes`,
`ModelFails`, `Ends`) reports to the queue through `Translate`, unless the
publisher's latch is set: an invocation whose model call failed and was retried
completes, and pauses, without a word (`event_publisher.py:573`); `Send` and
`SendFinish` place one event and hand it to the client, so that the client lags
behind the agents.

`AgentStream` is the abstract specification: which event may follow which, with
cards, messages and calls as its only state. `KeepsPromise` states that
`SubagentStream` implements it under the mapping `Promised`, one event a step.

### DelegateTurns: several calls to one delegate in a step

`turn` is the lock of `_node_as_tool`, `node` the delegate's interrupt state and
the task its messages are about, `asks` the requests raised on the coordinator,
`places` and `inbound` the delegates' checkpoints in `SessionExchange`. `Take`
is the call from the lock to the delegate's invocation (`_restore_place`,
`_forward`, `_save_place`), `Invoke` the first invocation, `Resume` the one with
answers; `EndRun`, `NextRun` and `Restart` are the runs around them.

### ToolCalls: the hooks around a step's parallel calls

`call`, `ask`, `tried` and `ran` follow each call from the model to its result;
`state` has the counters of `MaxToolCallsGuard` and `StopGuard`; `channel`,
`unsent`, `queue` and `client` the run's shared state, its keys an effect wrote
without sending them, the events on their way and the client's copy. `Begin`
runs the hooks before a call in their order, `Works`, `Fails` and `Asks` are the
tool's replies with what follows them, `Answer` and `Expire` the person and the
clock, `EndStep` the loop's decision, `Deliver` the response.

### MemoryWriteback: what a history group writes back

`inbound`, `outbound` and `persisted` are the bucket in `HistoryExchange`,
`summary` its pending summary. A transcript is the set of calls it tells of,
with those told in full, those summarised and those still open. `Begin` is
`_on_before`, `End` is `_on_after` with `_on_after_summarizing`, `Summarised`
the background task, `Finish` and `WriteBack` the settling at RUN_FINISHED,
`FailRun` a run without one. Agents of the group may work at once.

### ModelInput and Transcripts: the same, message by message

`Transcripts` has the transforms as operators: `join_turns`, notes for foreign
calls, clearing of results, context and cache points, masking, the split for a
summary and what it remembers verbatim. `ModelInput` runs them as the hooks do,
for agents that take turns: `Begin` seeds, every model call (`Call`, in
`AsksForTools` and `Reports`) is sent `ModelInputOf` the messages, `Reports`,
`StopsEarly` and `Pauses` capture, `FinishRun` settles. An agent that pauses
keeps its messages (`waiting`), and the run ends on its request (`raised`). The
next run is `ResumeRun`, which brings the answer, or `StartRun`, a new message,
which takes the pause's place (`givenUp`); either finds the agents retained or
built anew (`rebuilt`), and an agent built anew holds a pause only if the run
brings its place along (`Held`). With the answer the agent `GoesOn` from its own
messages. With a new message an agent built anew is seeded and briefed (`Begin`),
and a retained delegate raises its request again (`AskedAgain`), which may be
answered runs later (`overtaken`). Where agents overlap, and when a summary comes, is `MemoryWriteback`'s.

### SessionLife and the configuration modules

`ConfigSchema` is what a document may hold and which ones validate;
`ConfigLoading` the way from sources to a validated configuration, `None` where
the code raises; `Orchestrations` the planner, the builders, the card, memory
and voice of each node; `McpLifecycle` server threads, readiness, client
sessions and their stops. `SessionLife` is the process: `Load`, `Resolve`,
`BootServers`, `ServerThread`, `BuildStatic`, `ServeRuns`, then `Warm`, `Cold`
and `forget` for conversations, `Submit`, `aclose`, `Lose` and `Collect` for runs
with their own configuration, `Shutdown` and `StopServers`.

### The proof modules

`GateResume_proofs`, `RunStream_proofs`, `DelegateTurns_proofs`,
`MemoryWriteback_proofs`, `ToolCalls_proofs`, `SessionLife_proofs`, and
`SubagentStream_proofs`, which rests on what `SubagentEvents_proofs` says of the
events; see section 5.

## 3. Runs

| Run | Result | Bounds | Distinct states |
|---|---|---|---|
| `gate_resume` | holds | 2 calls of 1 subject, 3 runs, 1 lost write-back, 1 restart, 1 stale request | 384 929 |
| `gate_stale` | violated | as above without loss or restart | until found |
| `run_stream` | holds | 2 requests, 1 entry call, 1 delegated invocation | 278 384 |
| `run_stream_overlap` | violated | as above | until found |
| `subagent_stream` | holds | a delegate under a delegate, an invocation of each, 2 + 1 + 1 calls, 2 messages, 2 runs, 2 failed model calls | 1 120 151 |
| `delegate_turns` | holds | 2 calls, 3 gated calls (2 + 1), 5 runs, 1 restart | 1 355 |
| `delegate_crowded` | violated | as above | until found |
| `tool_calls` | holds | 2 parallel calls, limit 2, 1 key, 3 lists of operations, a queue of 1 | 87 676 |
| `memory_writeback` | holds | 2 summarising agents and a full one, 3 calls, 2 runs, budget 1 | 458 883 |
| `memory_stale` | violated | as above | until found |
| `model_input` | holds | 2 agents, 3 tasks, 3 calls, 2 runs and one more to answer in, budget 8, clearing from 8 in steps of 2 with 1 kept | 300 679 |
| `session_life` | holds | 908 processes; 2 runs with 11 overlays, 4 conversations, 2 kept | 7 987 |

What the passing runs show, property by property:

- `gate_resume`. `OncePerApproval`: whatever is lost, restarted or replayed, a
  tool body runs at most once per resume that approves its call (a request sent
  twice counts twice) and once more on a permission.
  `OncePerCall`: with nothing lost or replayed, once. `AnswerDecides`: a call
  the person answered runs only on an approval in time. `HostKnowsPause`,
  `ResumeTaken`: host and agent in step, resumes never refused.
  `FreshRunOwnsItsPause`: a message's run never waits for older calls.
  `ApprovalHonoured` (liveness): an approval in step gets its result.
- `run_stream`. `OneResult`, `NothingDangles`: at most one result for each call,
  and exactly one if its run is reported finished or raised (an error event
  relayed from ag-ui-strands is the exception, section 4). `InvocationsClosed`: none open after
  RUN_FINISHED. `ReleasedIsQuiet`: a released response has no run and no sink.
  `TurnsKeepEvents`: sub-agent events go astray only if requests overlap.
  `ResponseEnds` (liveness): a response that starts ends.
- `subagent_stream`. `KeepsPromise`: every event is one `AgentStream` allows, so
  nothing is sent outside its bracket, no call is announced twice and only the
  newest message of a scope grows, or the text a result came in between of.
  `ToldAsItIs`: once a run is over, cards and calls say what became of every
  invocation and call. `PauseTold`: the outcome of a pause names each approval with
  the invocation that asks, or the browser calls that wait. `InnermostFirst`: a card
  closes after those under it.
- `delegate_turns`. `OneAtATime`, `OncePerCard`: the lock and the answers.
  `OwnTask`: unless the delegate paused with another call waiting, each call
  returns its own task's result and each gated call is asked about once.
  `PlaceKept`: every pause can be resumed elsewhere. `StepSettles` (liveness).
- `tool_calls`. `CallsKept`: a call does its work once, never against the
  person, never beyond the limit, and its service is asked at most twice.
  `CanvasFollows`: once it has read everything the client's state is the run's,
  but for keys a half-applied or removing list touched. `InvocationEnds`
  (liveness): a model that always calls another tool is stopped.
- `memory_writeback`. `NoWorkLost`, `NewestCopyWins`, `SeenWhole`,
  `MaskedStays`, and `WritesBackInTime` (liveness).
- `model_input`. `SentIsValid`: roles alternate, calls and results pair up in
  neighbouring messages, no message is empty or opens with a cache point, and
  results not yet read come whole, whatever was seeded, paused, failed or
  summarised, on agents retained or built anew. The exception is a call of a
  pause that a new message took the place of (section 4). `PrefixStays`: within an invocation the conversation only grows,
  so a prompt cache keeps applying. `MemoryKept`: the host's copy tells of every
  finished task and keeps, word for word, each report that asked for it, until a
  delegate is answered whose pause a new message had taken the place of.
- `session_life`. `LoadsWhatIsWritten`: through sanitising, variables, merges and
  overlays a name means what its document meant, and a configuration fails to
  build only for what is not a reference. `EveryNodeHasItsPlace`: cards nest as
  orchestrations do, memories are shared only where asked, the chat's voice
  runs. `ConnectionsOwned`: a client session is open only while somebody will
  close it, and reaches only allowed hosts. `WarmResume`: the limit on sessions
  drops the least recently used, and only beyond the limit.

Every one of these fails for at least one mutated form of a definition: the
definitions marked "A variant with a bug" in the modules are those forms.

The bounds are small because the hazards are. Three runs are enough for pause,
resume and a replay of what was answered; two calls for a step that is partly
answered, and one subject for both so that the permission given for one covers
the other. Two requests are enough to overlap, and a third would repeat the
second's relation to the first. Two levels of delegates are enough for a card
under a card; a second run resumes what the first left paused, and two failed
model calls fail, retry or take a nested invocation down. The delegate's five
runs let three requests be raised one at a time with a restart between. A limit
of two with two calls in a step is reached within a step, between steps and by
a resume. Three agents of a group give a bucket two that summarise and one
whose copy supersedes theirs. In `model_input` the third task makes a summary
of a summary, and the trigger and the budget are both crossed; a pause
in the first run, a message in the second and an answer in the one after are
what it takes to go on from a superseded pause. The scenarios of
`session_life` are the product of names that collide once sanitised, variables
in several orders, three orchestrations of every mode nested in each other, and
clients of every kind; the four conversations go past the limit of two twice.
`session_life` uses symmetry over runs and conversations, which no property
tells apart; it states no liveness.

`CHECK_DEADLOCK FALSE` is set everywhere because a conversation may simply end:
a state in which nobody sends another request, or the bound on requests is
reached, is not a deadlock of the program. Where a wait could last for ever it
is a liveness property (`ResponseEnds`, `StepSettles`, `InvocationEnds`,
`WritesBackInTime`, `ApprovalHonoured`).

### Fairness

Weak fairness only, and only on what the event loop and the libraries run by
themselves: the steps of a run that has begun (`RunStep`), the response and its
task (`Server`), an agent's run coming to some end (`Ends`), a call at the
delegate's lock and the work it starts (`Turn`), the agent's loop with its
tools' replies (`Agent`) and the delivery of its events (`Deliver`), and the
write-back. `asyncio` runs every ready task, and the lock is handed to a waiter.
The person, the host, the clock, the model's decision to call more tools,
summarisers, clients that leave and every fault owe nothing. That an agent's
run ends is an assumption on the model provider, and that a tool replies one on
the tool: the code has no timeout of its own for either. In `RunStream` it is
what `ResponseEnds` rests on; in `ToolCalls` the model may call a tool again
after every step, and only the limit makes `InvocationEnds` true.

## 4. Where the code and its documentation differ

Four are runs that violate one property taken from the documentation.

1. `gate_stale`: `docs/configuration/Chapter_07.md:189` says a stale snapshot
   cannot resurrect a gate that was already answered, since a warm agent's own
   state wins. It wins only while it holds an interrupt. An agent that has
   answered its gate is clean and takes the old checkpoint
   (`session_state_hook.py:82`), so the tool runs a second time, once for
   each resume that carries the approval (`OncePerApproval` still holds).
2. `run_stream_overlap`: `wire.py:107` says a run's events are forwarded into
   its own response. The queue is the conversation's, and a second request
   rebinds it (`agui.py:551`) and unbinds it at its end (`agui.py:556`).
3. `delegate_crowded`: `docs/configuration/Chapter_10.md:48` says calls to one
   node take turns, each with its own card. The second call finds the node
   paused for the first and forwards the first one's request as its own
   (`wrappers.py:188`); its task is never given to the node.
4. `memory_stale`: `docs/workflows/multi-turn-history.md:129` says a summary
   written from an older copy is cancelled. A newer capture by an agent that
   does not summarise, or one within budget, does not cancel it
   (`history_hook.py:223`), and the older copy is written back.

The others were met while modelling. The properties are stated around them, at
the exception each comment names, and they have no run of their own.

*Events.* `docs/recipes/chat-ui-activity.md:35` says each invocation extends only
the newest message it started. A model that streams a call's input and then text
leaves the text open: the result is sent beside it (`_subagents.py:338`), and the
next turn's tokens go on in the older text, so `AgentStream` lets a text go on
after results (`Continues`). A browser's wait on a call that an earlier run announced is not among
the outcome's pending calls (`PauseTold`). An invocation whose model call failed
and was retried gets SUBAGENT_ERROR though it goes on, and its later completion
is swallowed by the latch, and so is its pause: no INTERRUPT is sent and its
card stays open until the run ends (`event_publisher.py:573`); a call whose arguments were streaming then never gets
TOOL_CALL_END (`ToldAsItIs`). Once `AppendOnly` has renamed a text, a call that
names the original as its parent gets a message of its own. RUN_ERROR closes no
card. The docstring of `_consume_run` says a failed run's open calls are closed
before RUN_ERROR (`agui.py:327`). That is so where the run raises; an error event
that ag-ui-strands yields passes through like any other (`agui.py:364`), with
announced calls left open (`Relay`). A publisher's count is the process's: after a restart, a later invocation
takes an earlier one's `subagentRunId`, though
`docs/recipes/chat-ui-activity.md:43` says a paused invocation keeps its own;
the model keeps the session.

*Tool calls.* `max_calls_guard.py:11` promises one more turn for a final
answer; two calls of one step beyond the limit are two violations, and the loop
stops before that turn. A list of operations that fails half-way has changed the
run's state and sent nothing; a removed key comes back with the next snapshot;
several effects that match one call are all given the state before the first.
A pause forgets that the limit was hit.

*History and context.* `context_hook.py:19` says only what the agent inherited
is rewritten. What a resumed invocation inherits includes its own call, before
the pause, to a name it got wrong, which becomes a note after the next model
call (`PrefixStays`) and may bring a cleared result back. Where a stopped task's
results and the next brief were joined in one message, the run's context goes in
front of the results. `docs/workflows/multi-turn-history.md:109` says a paused
call stays as it was; one older than a sibling's newer call can be summarised.
`Chapter_07.md:174` says that a new message closes the paused call it supersedes,
and `agui.py:853` that a rebuilt agent cannot be told from a retained one. Within
a history group neither holds for a delegate: built anew, it is seeded with the
captured transcript, its open call included (`history_hook.py:183`), and its
model is sent that call without a result (`SentIsValid` excepts `givenUp`); one
that was retained asks its question again. `history_hook.py:9` says the messages
are reset from the client's state in every run; those of a delegate in the middle
of an interrupt are left alone (`history_hook.py:153`), so that, answered after
other runs, it captures its old messages over what the group did since
(`MemoryKept` excepts `overtaken`).

*Configuration.* `Chapter_03.md:30` gives `vars` before the environment;
inside the `vars` block the environment comes first (`interpolation.py:54`).
`Chapter_09.md:102` and `mcp/client.py:94` say SSE is detected from the URL; the
client takes its default, streamable HTTP, and with `auth` the two disagree and
the constructor raises. `Chapter_16.md:38` says all references to a sanitised
name are updated; they are, within one source. Two delegates nested in each
other that share an agent, or a nested delegate's entry with a `stream.group` of
its own, put cards under a parent that nobody shows (`Simple` excepts them).
`helpers.py:228` says every config field with a path is anchored; `views`,
`interrupt.subject`, `conversation_manager`, an agent's `session_manager.type`
and `state_effects.mapper` are not. The planner does not count the entry of a
swarm or a graph as something it waits for. A server counts as ready when
anything answers on its port.

## 5. Proofs

All are for every value of the constants, from the one named assumption of each
module that its constants have their types, and by an inductive invariant that
TLC checked on the run's instance first where it could.

`GateResume_proofs` (`GateResumeAssumption`):

| Theorem | Statement |
|---|---|
| `TypeCorrect` | `Spec => []TypeOK` |
| `BooksBalance` | `Spec => []Books`, the inductive invariant |
| `NeverUnapproved` | `Spec => []OncePerApproval` |
| `MessagesSupersede` | `Spec => []FreshRunOwnsItsPause` |
| `AnswersDecide` | `Spec => AnswerDecides` |
| `KnowsPause` | `Spec => []HostKnowsPause` |
| `ResumesTaken` | `Spec => []ResumeTaken` |
| `NeverTwice` | `Spec => []OncePerCall` |

`OncePerApproval` compares how often a tool ran with how often its call was
approved. It is not inductive: a state in which the two are equal and the run
still carries an approval would run the tool once too often. The ledger
therefore counts an approval on its way as spent (`Due`), keeps a call that has
not had its chance on a permission apart from one that has (`Untried`), and
says `ran + due <= approvals + permission`. That a resume cannot make more calls
due than it brought approvals needs to know what checkpoints look like
(`Checkpoints`: every stored one is absent, clean, or a pause with nothing
answered in it, so replaying it brings no answer along), that the step being
worked on is either new or resumed as a whole (`Gates`), that answers go to
calls that were made (`Made`), and that a run restores only before it starts
(`Requests`). `Own` is what a run that resumes nothing adds.

`HostKnowsPause` and `ResumeTaken` need `InStep`: while nothing is torn, what the
host stores is what the agent last paused on (`Agree`), and a resume carries that
very checkpoint (`Addressed`). `OncePerCall` adds `RanOnce`: where every run
wrote back, a call waiting in a checkpoint, or to be answered by the resume in
progress, has not run (`Waits`).

`RunStream_proofs` (`RunStreamAssumption`):

| Theorem | Statement |
|---|---|
| `Typing` | `Spec => []TypeOK` |
| `ReleasedQuiet` | `Spec => []ReleasedIsQuiet` |
| `TurnsKeep` | `Spec => []TurnsKeepEvents` |
| `OneResultEver` | `Spec => []OneResult` |
| `NoneDangles` | `Spec => []NothingDangles` |
| `LeavesNoneOpen` | `Spec => []InvocationsClosed` |

`Orderly` says who works for whom: the agent works for a run in progress, a
queue's end is marked by a task that is over, the one response in progress has
the sink. `Ledger` adds where each call's result is: on the client, on exactly
one queue, or still to come from the agent or the run that would close it; and
that a run's last event stands behind the results of all it announced.
`NoneDangles` says of a run that
finished or raised that none of its calls is left open; of one that ag-ui-strands
ended with an error event it says nothing, since there calls may be.
`InvocationsClosed` needs `Tidy` besides: what the client shows open is open in
the response or its end is queued (`Matched`), and no invocation's event is
queued behind the run's end (`EndIsLast`).

`SubagentStream_proofs` (`SubagentStreamAssumption`, with finitely many delegates):

| Theorem | Statement |
|---|---|
| `TypeCorrect` | `Spec => []TypeOK` |
| `Inductive` | `Spec => []IInv`, the inductive invariant |
| `RunToldAsItIs` | `Spec => []ToldAsItIs` |
| `RunPauseTold` | `Spec => []PauseTold` |
| `ClosesInnermostFirst` | `Spec => InnermostFirst` |
| `AllIsSaid` | `Spec => []Spoken`, the invariant of the refinement |
| `PromiseKept` | `Spec => KeepsPromise`, the refinement of `AgentStream` |

The client lags behind the agents, and what an event does to a card was decided
when it was queued, so neither the client nor the stream alone says what will be
on a card. The invariant has three parts.

- `Working` is about the agents: a delegate at work or paused has one call of its
  caller's as host, in the state that goes with it (`Hosting`, `Stated`); a
  request that waits was passed up from call to call through paused delegates
  (`Raised`); no delegates work for each other in a ring (`Grounded`), which is
  what makes the entry agent's turn the last to end; a publisher's counts go with
  what became of its invocations (`Books`).
- `Queued` is about the run's end: its events stand last in the queue, and carry
  what the run waits for.
- `Ahead` relates the two: the queue `Leads` from the board the client holds,
  event by event, to one on which each card is what became of its invocation
  (`CardsTold`) and each call is where its worker has it, announced once and by
  the invocation that made it (`CallsTold`), and at the run's end everything is
  closed and the outcome names what is waited for (`Settled`). On the way no
  event closes a card over an open one, but for the invocations a failed model
  call was retried in (`Exempt`), which the run's end makes none.

A step under the publisher's latch reports nothing, so that an invocation that was
retried may have paused or completed with its card open; of such a card
`CardsTold` says only that it was begun, and the run's end closes it.

A step that reports appends events that lead on from the board reached
(`Foretells`); `Send` takes the first off, by `LeadsHead`. `SubagentEvents_proofs`
says of each report of a publisher what its events lead to and what becomes of
the stream, and of `Close` that it closes the cards innermost first: `begun` holds
each card's parent before the card (`Tree`), and the events of `Close` are a fold,
reasoned about by naming its steps and an induction over their numbers.

`PromiseKept` is the refinement. Cards and calls are not enough for it: it is
about messages, which the stream numbers when it queues an event and `AppendOnly`
may rename when the event is sent. The proof goes through a *reading*, what a
client would hold if nothing were renamed, and has three layers.

- What is queued. `Allowed` says what an event needs of a reading and `Reads` what
  it makes of it; a queue `Utters` one reading from another when each event is
  allowed in its turn. Every report on a stream that a reading follows (`Tracks`,
  `Follows`) utters one that follows the new stream (`TranslateUtters`), provided
  the call it tells of is where `Ahead` has it (`Sayable`), and `Close` utters one
  where all rests (`CloseUtters`).
- What is sent. `Heard` relates the client to a reading: it holds the same cards
  and calls, says the same texts by the names `AppendOnly` gave them (`Said`), and
  shows in each scope only messages that the stream, the entry agent's run, a
  result or `AppendOnly` has named by now (`Given`), so that the next name is new
  (`NewNames`). An event that is allowed is heard as it is read, and is a step of
  `AgentStream` (`SendPromised`).
- The two together. `Spoken`: what the client holds is heard of some reading, and
  the queue utters from it one that follows the stream, or, once the run's end is
  queued, one where all rests. So the head of the queue is always allowed, and the
  only step that shows, `Send`, is a step of `AgentStream`.

That a text is never said without a name needs `None` to be no message, which
`SubagentStreamAssumption` says: message ids are strings, and `None` is not.

`DelegateTurns_proofs` (`DelegateTurnsAssumption`):

| Theorem | Statement |
|---|---|
| `TypeCorrect` | `Spec => []TypeOK` |
| `AccountBalances` | `Spec => []Account`, the inductive invariant |
| `TurnsAreTaken` | `Spec => []OneAtATime` |
| `CardsCoverRuns` | `Spec => []OncePerCard` |
| `KeepsPlaces` | `Spec => []PlaceKept` |
| `OwnResults` | `Spec => []OwnTask` |

`OncePerCard` needs the same kind of account: the runs of a tool and the calls
that still carry an approval of it (`Due`) together never exceed its approved
cards. A call leaves `Due` in the one turn that returns its result, since a call
with a result never runs again; the finiteness of the set of calls is what makes
that count. `PlaceKept` and `OwnTask` follow from `OnePause`: a paused delegate
was paused by one call of the step, whose place the run or the checkpoint holds,
and while no other call met it so, its messages are about that call's task.

`ToolCalls_proofs` (`ToolCallsAssumption`): `Typing`, `Spec => []TypeOK`,
`CallsKeep`, `Spec => []CallsKept`, and `ClientFollows`,
`Spec => []CanvasFollows`. `Standing` says what each call has been through
(`Course`), that a pause holds on to nothing but calls that wait (`Paused`), and
that the calls at their service, with those a resume has to make again, fit
under the limit (`Counted`). `CanvasFollows` needs the way from the client's
state to the run's: `Followed` says that there is a sequence of states, one for
each event of the queue, that begins with the client's, ends with the run's and
goes from each to the next as reading that event would (`Leads`, `Carries`), with
the keys a client may lack marked (`Marked`). What a list of operations does is
a fold. It is reasoned about by naming the states it goes through
(`PatchedSteps`) and by an induction over their numbers, which the module derives
from the well-foundedness of `<` (`Least`, `Induction`) since the library's own
induction theorems cannot be used.

`SessionLife_proofs` (`SessionLifeAssumption`): `ResumesWarm`,
`Spec => []WarmResume`, and `SessionsOwned`, `Spec => []ConnectionsOwned`. `Line`
is what makes the first inductive: the sessions kept stand in the order they were
used in, each behind those it was served before (`InLine`), so that the first of
a full line, which is dropped, has seen `limit` others served (`Outserved`).
`Owned` is what the second needs: the process, its configuration and its
lifecycle go through their states together (`Coherent`), threads run from start
to stop (`Served`), and who holds a client session (`Held`) may reach what it is
to, which for a run goes back to `check_overlay_client` through the merge of its
overlay (`OverlaidClients`, `RunConfiguration`).

`MemoryWriteback_proofs` (`MemoryWritebackAssumption`): `Typing`,
`Spec => []TypeOK`, and the four action properties `NoneLost`, `NewestWins`,
`SeesWhole` and `StaysMasked`, `Spec => NoWorkLost` and so on. `Remembered`
relates the copies that may be written back to the latest capture (`Copies`),
the agents at work to the calls made (`AtWork`) and, where agents take turns,
the one at work to all there is to tell (`TakeTurns`).

Model-checked only:

- the liveness properties, since fairness and ENABLED are out of the prover's
  reach;
- `LoadsWhatIsWritten` and `EveryNodeHasItsPlace`, and all of `ModelInput`: they
  are about what folds and choices over nested data compute (names, documents, the
  planner's order, transcripts), each of which would need an induction of its own
  over a recursive definition.

## 6. Not modelled

| Part | Why |
|---|---|
| Attachment and reference hooks, references, fetching | input and output; no state between calls |
| Models, authentication, telemetry | adapters around external services |
| Converters, renderers, command line, evaluation and testing helpers, manifest | formatting and tools; sequential, no run-time state |
| The endpoint's own exceptions, building of the FastAPI app | only the path of a request that is accepted, and its refusals, are modelled |
| Events of graphs and swarms, usage and trace ids | not part of a card's or a message's state |
| Field validation of values nothing refers to, imports of Python objects | no property could tell them apart |
| Conversation managers that trim, agents without history | history is then the library's alone |

Abstracted: model turns and tool bodies (a nondeterministic choice and a
counter), message contents, wording, identifiers, the inputs of gated calls and
so the matching of gate rules, and the size of messages (a block each, or what
`split_for_summary` counts). In `RunStream` the requests of a conversation
arrive in the order of their numbers and share a session. Names keep three
characters, of a small alphabet. Two agents of a group that work at once
are in `MemoryWriteback` alone; a session that is lost while an invocation is
paused is in `GateResume`, `DelegateTurns` and `ModelInput`, not in
`SubagentStream`. `ModelInput` leaves out runs that lose their write-back, and a
resuming run that fails before the delegate goes on.

Hazards that no property covers, besides those `PROJECT.json` says so of: the
endpoint raising after the sink was bound; an event queue that is full with
nobody reading; the turn id, a label kept by the process; the deadlines of a
delegate's requests, checked once all are answered; two agents of a group at
work at once, of which the one that ends first loses its capture.
