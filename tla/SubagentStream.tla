--------------------------- MODULE SubagentStream ---------------------------
(***************************************************************************)
(* How the work of delegated agents reaches the client of a conversation.  *)
(*                                                                         *)
(* Each delegate's EventPublisher reports the delegate's hooks; the run's  *)
(* event queue hands every report to SubagentStream, which translates it   *)
(* into AG-UI events tagged with the invocation's stream group; RunEvents  *)
(* places each event, as the response sends it, so that an agent extends   *)
(* only its newest message, and closes what is open when the run finishes. *)
(*                                                                         *)
(* The entry agent is one of the workers: its own events come from         *)
(* ag-ui-strands and reach the client in the chat's scope.  Delegates call *)
(* each other as Caller says; a paused run is resumed by the next one,     *)
(* which answers one request of each of the entry's waiting calls, on the  *)
(* session the conversation keeps.  Runs that raise, a message sent in     *)
(* place of an answer, and a session that was lost with its publishers'    *)
(* counts are left to RunStream and GateResume.                            *)
(***************************************************************************)
EXTENDS Naturals, Sequences, FiniteSets, SequencesExt

CONSTANTS
  Agents, Entry,   \* the delegates, and the agent the client talks to
  Caller,          \* who delegates to each of them
  Browser,         \* the calls that wait for the browser when they wait
  Chat, None,
  \* Bounds: invocations of a delegate, calls of each worker, messages of a segment's
  \* scope, failed model calls, runs, chat messages, and events left unsent when a
  \* worker reports.
  MaxInvocations, MaxCalls, MaxMessages, MaxErrors, MaxRuns, MaxSays, Backlog

Workers == Agents \cup {Entry}
Calls == UNION {{x} \X (1..MaxCalls[x]) : x \in Workers}
Group == Agents \X (1..MaxInvocations)
Scopes == Group \cup {Chat}

ASSUME SubagentStreamAssumption ==
  /\ IsFiniteSet(Agents) /\ Entry \notin Agents
  /\ Caller \in [Agents -> Workers] /\ Browser \subseteq Calls
  /\ Chat \notin Group /\ None \notin Calls \cup Group
  /\ None \notin Scopes \X {"made", "run", "result", "placed"} \X Nat
  /\ MaxCalls \in [Workers -> Nat]
  /\ {MaxInvocations, MaxMessages, MaxErrors, MaxRuns, MaxSays, Backlog} \subseteq Nat

VARIABLES
  run,        \* the runs so far, this one's phase (idle, working, finishing), and
              \* what the entry agent has said
  work,       \* each worker: idle, thinking, acting, paused
  call,       \* each call: none, streaming, called, running, returned, waiting, over, lost
  host,       \* the call each delegate works for
  asks,       \* the request each call that waited has raised: its own or a delegate's
  answered,   \* the requests the person has answered
  made,       \* invocations made of each delegate
  errors,     \* model calls that failed
  truth,      \* each invocation: none, working, paused, done, failed
  retried,    \* the invocations that went on after a model call failed
  publisher,  \* each delegate's EventPublisher: count, active group (0: none), errored
  stream,     \* the response's SubagentStream, and the ids it has made
  queue,      \* the response's queue
  order,      \* the response's AppendOnly
  sent,       \* what RunEvents has seen sent: browser calls, and who made each call
  client,     \* what the client has folded the events into
  last        \* the event it got last

workers == <<work, call, host, asks, answered, made, errors, truth, retried>>
wire == <<queue, order, sent, client, last>>
vars == <<run, workers, publisher, stream, wire>>

-----------------------------------------------------------------------------
(* SubagentStream: what one report amounts to.  Each operator maps the      *)
(* stream to its next state s and the events out.                          *)

E(type, scope, id, parent) == [type |-> type, scope |-> scope, id |-> id, parent |-> parent]

Fresh == [open |-> FALSE, parent |-> None, text |-> None, thought |-> None, step |-> None,
          args |-> [c \in Calls |-> "unsent"], ended |-> {}]

\* A new response's stream: it knows the calls the client holds already.
Stream(calls, ids) ==
  [seg |-> [g \in Group |-> Fresh], begun |-> <<>>, owner |-> [c \in Calls |-> None],
   known |-> calls, ids |-> ids]

NextId(s, g) == <<g, "made", s.ids[g] + 1>>

CloseThought(s, g) ==
  IF s.seg[g].thought = None THEN <<>> ELSE <<E("reasoning_end", g, s.seg[g].thought, None)>>
CloseText(s, g) ==
  IF s.seg[g].text = None THEN <<>> ELSE <<E("text_end", g, s.seg[g].text, None)>>

\* _begin: a segment opens, under its caller's if that one is open.
Begin(s, g, delegation) ==
  LET parent == IF g \in Range(s.begun) THEN s.seg[g].parent
                ELSE IF delegation = None THEN None ELSE s.owner[delegation]
  IN IF s.seg[g].open THEN [s |-> s, out |-> <<>>]
     ELSE [s |-> [s EXCEPT !.seg[g].open = TRUE, !.seg[g].parent = parent,
                           !.begun = IF g \in Range(@) THEN @ ELSE Append(@, g)],
           out |-> <<E("started", g, None,
                       IF parent # None /\ s.seg[parent].open THEN parent ELSE None)>>]

Token(s, g) ==
  LET m == IF s.seg[g].text = None THEN NextId(s, g) ELSE s.seg[g].text
      new == s.seg[g].text = None
  IN [s |-> [s EXCEPT !.seg[g].thought = None, !.seg[g].text = m,
                      !.seg[g].step = IF new THEN m ELSE @, !.ids[g] = IF new THEN @ + 1 ELSE @],
      out |-> CloseThought(s, g) \o (IF new THEN <<E("text_start", g, m, None)>> ELSE <<>>)
                \o <<E("text", g, m, None)>>]

Reasoning(s, g) ==
  LET m == IF s.seg[g].thought = None THEN NextId(s, g) ELSE s.seg[g].thought
      new == s.seg[g].thought = None
  IN [s |-> [s EXCEPT !.seg[g].text = None, !.seg[g].thought = m,
                      !.seg[g].step = IF new THEN None ELSE @, !.ids[g] = IF new THEN @ + 1 ELSE @],
      out |-> CloseText(s, g) \o (IF new THEN <<E("reasoning_start", g, m, None)>> ELSE <<>>)
                \o <<E("reasoning", g, m, None)>>]

\* _start_call: the call joins the step's message, or begins one.
StartCall(s, g, c) ==
  LET m == IF s.seg[g].step = None THEN NextId(s, g) ELSE s.seg[g].step
  IN [s |-> [s EXCEPT !.seg[g].text = None, !.seg[g].thought = None, !.seg[g].step = m,
                      !.seg[g].args[c] = "empty", !.owner[c] = g,
                      !.ids[g] = IF s.seg[g].step = None THEN @ + 1 ELSE @],
      out |-> CloseThought(s, g) \o CloseText(s, g) \o <<E("call_start", g, c, m)>>]

Started(s, g, c) ==
  IF s.seg[g].args[c] = "unsent" THEN StartCall(s, g, c) ELSE [s |-> s, out |-> <<>>]

\* _tool_input: the model is writing the call's arguments, none of them yet or some.
ToolInput(s, g, c, written) ==
  IF c \in s.seg[g].ended \cup s.known THEN [s |-> s, out |-> <<>>]
  ELSE LET b == Started(s, g, c)
       IN IF ~written THEN b
          ELSE [s |-> [b.s EXCEPT !.seg[g].args[c] = "sent"],
                out |-> Append(b.out, E("call_args", g, c, None))]

\* _tool_start: the call's arguments are complete; one the client holds is not
\* announced again.
ToolStart(s, g, c) ==
  IF c \in s.seg[g].ended THEN [s |-> s, out |-> <<>>]
  ELSE IF c \in s.known
    THEN [s |-> [s EXCEPT !.seg[g].ended = @ \cup {c}, !.owner[c] = g], out |-> <<>>]
  ELSE LET b == Started(s, g, c)
       IN [s |-> [b.s EXCEPT !.seg[g].args[c] = "sent", !.seg[g].ended = @ \cup {c}],
           out |-> b.out \o (IF b.s.seg[g].args[c] = "empty"
                             THEN <<E("call_args", g, c, None)>> ELSE <<>>)
                     \o <<E("call_end", g, c, None)>>]

\* _tool_end: the call's result, in a message of its own.
ToolEnd(s, g, c) ==
  LET b == ToolStart(s, g, c)
  IN [s |-> [b.s EXCEPT !.seg[g].step = None, !.ids[g] = @ + 1],
      out |-> Append(b.out, E("result", g, c, NextId(b.s, g)))]

\* _end and _error: what is being said is closed, then the segment.
End(s, g, how) ==
  IF ~s.seg[g].open THEN [s |-> s, out |-> <<>>]
  ELSE [s |-> [s EXCEPT !.seg[g].open = FALSE, !.seg[g].text = None, !.seg[g].thought = None],
        out |-> CloseThought(s, g) \o CloseText(s, g) \o <<E(how, g, None, None)>>]

-----------------------------------------------------------------------------
(* What a publisher reports: the kind, and the call with how much of its    *)
(* arguments the model has written.                                         *)

R(kind, c, written) == [kind |-> kind, call |-> c, written |-> written]
Told(kind) == R(kind, None, FALSE)
Nothing == Told("none")

\* _OPENING: only new work opens a segment.
Opening == {"start", "token", "reasoning", "tool_input", "tool_start", "tool_end"}

\* translate: a report on a closed segment opens it, or is dropped.
Translate(s, g, r) ==
  LET dropped == r.kind = "none" \/ (~s.seg[g].open /\ r.kind \notin Opening)
      b == Begin(s, g, None)
      h == CASE r.kind = "start" -> [s |-> b.s, out |-> <<>>]
             [] r.kind = "token" -> Token(b.s, g)
             [] r.kind = "reasoning" -> Reasoning(b.s, g)
             [] r.kind = "tool_input" -> ToolInput(b.s, g, r.call, r.written)
             [] r.kind = "tool_start" -> ToolStart(b.s, g, r.call)
             [] r.kind = "tool_end" -> ToolEnd(b.s, g, r.call)
             [] OTHER -> End(b.s, g, r.kind)
  IN IF dropped THEN [s |-> s, out |-> <<>>] ELSE [s |-> h.s, out |-> b.out \o h.out]

\* The calls a segment has announced and not ended.
Unended(s, g) ==
  SetToSeq({c \in Calls : s.seg[g].args[c] # "unsent" /\ c \notin s.seg[g].ended})

\* close: every segment still open is ended, innermost first.
Close(s, suspended) ==
  FoldLeft(LAMBDA out, g :
             IF ~s.seg[g].open THEN out
             ELSE out \o [k \in 1..Len(Unended(s, g)) |->
                            E("call_end", g, Unended(s, g)[k], None)]
                      \o End(s, g, IF suspended THEN "suspended" ELSE "completed").out,
           <<>>, Reverse(s.begun))

-----------------------------------------------------------------------------
(* RunEvents: what leaves the queue.                                       *)

Order(placed) == [newest |-> [s \in Scopes |-> <<None, "none">>], seen |-> {},
                  renamed |-> <<>>, moved |-> <<>>, placed |-> placed]

Placed(o, scope) == <<scope, "placed", o.placed + 1>>

Opens(o, scope, m, kind) ==
  [o EXCEPT !.seen = @ \cup {m}, !.newest[scope] = <<m, kind>>]

\* What f says, and v of x.
With(f, x, v) == [y \in DOMAIN f \cup {x} |-> IF y = x THEN v ELSE f[y]]

\* A variant with a bug: text goes on in the message it names wherever that is.
PlaceText_Anywhere(o, e) == [o |-> Opens(o, e.scope, e.id, "text"), e |-> e]

\* _text: text continues the newest message, or starts one of its own.
PlaceText(o, e) ==
  LET m == Placed(o, e.scope)
  IN IF o.newest[e.scope] = <<e.id, "text">> \/ e.id \notin o.seen
       THEN [o |-> Opens(o, e.scope, e.id, "text"), e |-> e]
     ELSE [o |-> [Opens(o, e.scope, m, "text") EXCEPT !.placed = @ + 1,
                                                      !.renamed = With(@, e.id, m)],
           e |-> [e EXCEPT !.id = m]]

\* _call: a call joins the newest message, if that takes calls, or the one its
\* siblings were moved to, or a new one.
PlaceCall(o, e) ==
  LET newest == o.newest[e.scope]
      before == IF e.parent \in DOMAIN o.moved THEN o.moved[e.parent] ELSE None
      again == before # None /\ newest[1] = before
      m == IF again THEN before ELSE Placed(o, e.scope)
  IN IF e.parent \notin o.seen \/ (newest[1] = e.parent /\ newest[2] # "other")
       THEN [o |-> Opens(o, e.scope, e.parent, "calls"), e |-> e]
     ELSE [o |-> [Opens(o, e.scope, m, "calls") EXCEPT !.placed = IF again THEN @ ELSE @ + 1,
                                                       !.moved = With(@, e.parent, m)],
           e |-> [e EXCEPT !.parent = m]]

\* place: an agent extends only its newest message.
Place(o, e) ==
  CASE e.type = "text_start" -> PlaceText(o, e)
    [] e.type \in {"text", "text_end"} /\ e.id \in DOMAIN o.renamed ->
         [o |-> IF e.type = "text" THEN o
                ELSE [o EXCEPT !.renamed = [m \in DOMAIN @ \ {e.id} |-> @[m]]],
          e |-> [e EXCEPT !.id = o.renamed[e.id]]]
    [] e.type = "call_start" -> PlaceCall(o, e)
    [] e.type = "reasoning_start" -> [o |-> Opens(o, e.scope, e.id, "other"), e |-> e]
    [] e.type = "result" -> [o |-> Opens(o, e.scope, e.parent, "other"), e |-> e]
    [] OTHER -> [o |-> o, e |-> e]

\* _emit, of the events it only takes note of.
Noted(n, e) ==
  CASE e.type = "call_start" ->
         [waiting |-> IF e.id \in Browser THEN n.waiting \cup {e.id} ELSE n.waiting,
          runs |-> IF e.scope = Chat THEN n.runs ELSE [n.runs EXCEPT ![e.id] = e.scope]]
    [] e.type = "result" -> [n EXCEPT !.waiting = @ \ {e.id}]
    [] OTHER -> n

\* A variant with a bug: an approval is lifted without the run that asks for it.
Outcome_Bare(requests, n) ==
  LET kept == {[call |-> c, run |-> None] : c \in requests \ Browser}
  IN [approvals |-> kept, pending |-> IF kept = {} THEN n.waiting ELSE {}]

\* How a run is said to have ended: the approvals asked for, each with the call
\* and the sub-agent run it is about; else the browser's calls still waiting.
Outcome(requests, n) ==
  LET kept == {[call |-> c, run |-> n.runs[c]] : c \in requests \ Browser}
  IN [approvals |-> kept, pending |-> IF kept = {} THEN n.waiting ELSE {}]

\* fold_subagents, and what a client keeps of the chat.
Folds(k, e) ==
  LET shows(m) == [k EXCEPT !.shown[e.scope] = @ \cup {m}, !.newest[e.scope] = m]
  IN CASE e.type = "run_started" -> [k EXCEPT !.running = TRUE]
       [] e.type = "run_finished" -> [k EXCEPT !.running = FALSE, !.outcome = e.id]
       [] e.type = "started" ->
            [k EXCEPT !.card[e.scope] = "active",
                      !.parent[e.scope] = IF k.card[e.scope] = "none" THEN e.parent ELSE @]
       [] e.type \in {"completed", "suspended", "error"} -> [k EXCEPT !.card[e.scope] = e.type]
       [] e.type = "text_start" -> [shows(e.id) EXCEPT !.saying[e.scope] = e.id]
       [] e.type = "text_end" -> [k EXCEPT !.saying[e.scope] = None]
       [] e.type = "reasoning_start" -> [shows(e.id) EXCEPT !.thinking[e.scope] = e.id]
       [] e.type = "reasoning_end" -> [k EXCEPT !.thinking[e.scope] = None]
       [] e.type = "call_start" -> [shows(e.parent) EXCEPT !.tool[e.id] = "open"]
       [] e.type = "call_end" -> [k EXCEPT !.tool[e.id] = "ended"]
       [] e.type = "result" -> [shows(e.parent) EXCEPT !.tool[e.id] = "done",
                                                          !.answers = @ \cup {e.parent}]
       [] OTHER -> k

\* The response sends the next event.
Send ==
  /\ queue # <<>> /\ Head(queue).type # "finish"
  /\ LET placed == Place(order, Head(queue)) IN
       /\ order' = placed.o /\ client' = Folds(client, placed.e)
       /\ last' = <<placed.e.type, placed.e.scope,
                    IF placed.e.type = "run_finished" THEN None ELSE placed.e.id>>
  /\ sent' = Noted(sent, Head(queue))
  /\ queue' = Tail(queue)
  /\ run' = [run EXCEPT !.phase = IF Head(queue).type = "run_finished" THEN "idle" ELSE @]
  /\ UNCHANGED <<workers, publisher, stream>>

\* RUN_FINISHED is next: what is open is closed before it.
SendFinish ==
  /\ queue # <<>> /\ Head(queue).type = "finish"
  /\ LET outcome == Outcome(Head(queue).id, sent)
         suspended == outcome.approvals # {} \/ sent.waiting # {}
     IN queue' = Append(Close(stream, suspended), E("run_finished", Chat, outcome, None))
  /\ UNCHANGED <<run, workers, publisher, stream, order, sent, client, last>>

-----------------------------------------------------------------------------
(* The workers and their publishers.                                       *)

\* The group a delegate's publisher reports under; with no invocation of its own
\* begun, the group it is configured with.
G(a) == <<a, IF publisher[a].active = 0 THEN 1 ELSE publisher[a].active>>
V(a) == <<a, made[a]>>

CallsOf(x) == {c \in Calls : c[1] = x}
InState(x, states) == {c \in CallsOf(x) : call[c] \in states}
Hosted(c) == {a \in Agents : host[a] = c}

\* The publisher's callback: the sink translates at once.  The entry's own
\* events go to the response as ag-ui-strands makes them.
Report(x, report, chat) ==
  /\ Len(queue) <= Backlog
  /\ IF x = Entry THEN stream' = stream /\ queue' = queue \o chat
     ELSE LET t == Translate(stream, G(x), report)
          IN stream' = t.s /\ queue' = queue \o t.out
  /\ UNCHANGED <<order, sent, client, last>>

NewPublisher == [count |-> 0, active |-> 0, errored |-> FALSE]

Init ==
  /\ run = [no |-> 0, phase |-> "idle", said |-> 0]
  /\ work = [x \in Workers |-> "idle"] /\ call = [c \in Calls |-> "none"]
  /\ host = [a \in Agents |-> None] /\ asks = [c \in Calls |-> None] /\ answered = {}
  /\ made = [a \in Agents |-> 0] /\ errors = 0
  /\ truth = [v \in Group |-> "none"] /\ retried = {}
  /\ publisher = [a \in Agents |-> NewPublisher]
  /\ stream = Stream({}, [s \in Scopes |-> 0]) /\ queue = <<>> /\ order = Order(0)
  /\ sent = [waiting |-> {}, runs |-> [c \in Calls |-> None]]
  /\ client = [running |-> FALSE, card |-> [g \in Group |-> "none"],
               parent |-> [g \in Group |-> None],
               saying |-> [s \in Scopes |-> None], thinking |-> [s \in Scopes |-> None],
               shown |-> [s \in Scopes |-> {}], newest |-> [s \in Scopes |-> None],
               answers |-> {}, tool |-> [c \in Calls |-> "none"],
               outcome |-> [approvals |-> {}, pending |-> {}]]
  /\ last = <<"none", Chat, None>>

\* A run: a new message, or the answers to what the last run paused on.  The
\* client sends the sub-agents' calls it holds.
StartRun ==
  /\ run.phase = "idle" /\ run.no < MaxRuns
  /\ run' = [run EXCEPT !.no = @ + 1, !.phase = "working"]
  /\ LET resumed == InState(Entry, {"waiting"})
         held == {c \in Calls : c[1] # Entry /\ client.tool[c] # "none"}
     IN /\ work' = [work EXCEPT ![Entry] = IF resumed = {} THEN "thinking" ELSE "acting"]
        /\ call' = [c \in Calls |-> IF c \in resumed THEN "running" ELSE call[c]]
        /\ answered' = answered \cup {asks[c] : c \in resumed}
        /\ stream' = Stream(held, stream.ids)
        /\ sent' = [waiting |-> {},
                    runs |-> [c \in Calls |-> IF c \in held THEN sent.runs[c] ELSE None]]
  /\ queue' = <<E("run_started", Chat, None, None)>> /\ order' = Order(order.placed)
  /\ UNCHANGED <<host, asks, made, errors, truth, retried, publisher, client, last>>

\* _on_agent_start: a call to a delegate begins an invocation of it.
Begins(a, c) ==
  /\ work[a] = "idle" /\ call[c] = "running" /\ c[1] = Caller[a] /\ c \notin Browser
  /\ Hosted(c) = {} /\ asks[c] = None /\ made[a] < MaxInvocations /\ Len(queue) <= Backlog
  /\ work' = [work EXCEPT ![a] = "thinking"] /\ host' = [host EXCEPT ![a] = c]
  /\ made' = [made EXCEPT ![a] = @ + 1]
  /\ truth' = [truth EXCEPT ![<<a, made'[a]>>] = "working"]
  /\ publisher' = [publisher EXCEPT ![a] =
       [count |-> @.count + 1, active |-> @.count + 1, errored |-> FALSE]]
  /\ LET g == <<a, publisher[a].count + 1>>
         r == Begin(stream, g, c)
     IN /\ stream' = r.s /\ queue' = queue \o r.out
  /\ UNCHANGED <<run, call, asks, answered, errors, retried, order, sent, client, last>>

\* A variant with a bug: a resumed invocation is counted as a new one.
Resumes_Counted(a) ==
  /\ work[a] = "paused" /\ call[host[a]] = "running"
  /\ \A w \in InState(a, {"waiting"}) : asks[w] \in answered
  /\ work' = [work EXCEPT ![a] = "acting"] /\ truth' = [truth EXCEPT ![V(a)] = "working"]
  /\ call' = [c \in Calls |-> IF c \in InState(a, {"waiting"}) THEN "called" ELSE call[c]]
  /\ publisher' = [publisher EXCEPT ![a] =
       [count |-> @.count + 1, active |-> @.count + 1, errored |-> FALSE]]
  /\ Report(a, Told("start"), <<>>)
  /\ UNCHANGED <<run, host, asks, answered, made, errors, retried>>

\* _on_agent_start, of a paused delegate whose requests have been answered.
Resumes(a) ==
  /\ work[a] = "paused" /\ call[host[a]] = "running"
  /\ \A w \in InState(a, {"waiting"}) : asks[w] \in answered
  /\ work' = [work EXCEPT ![a] = "acting"] /\ truth' = [truth EXCEPT ![V(a)] = "working"]
  /\ call' = [c \in Calls |-> IF c \in InState(a, {"waiting"}) THEN "called" ELSE call[c]]
  /\ publisher' = [publisher EXCEPT ![a].errored = FALSE]
  /\ Report(a, Told("start"), <<>>)
  /\ UNCHANGED <<run, host, asks, answered, made, errors, retried>>

\* The callback handler: a chunk of text, or of reasoning.
Says(a) ==
  /\ work[a] = "thinking"
  /\ stream.seg[G(a)].text # None \/ stream.ids[G(a)] < MaxMessages
  /\ Report(a, Told("token"), <<>>)
  /\ UNCHANGED <<run, workers, publisher>>
Reasons(a) ==
  /\ work[a] = "thinking"
  /\ stream.seg[G(a)].thought # None \/ stream.ids[G(a)] < MaxMessages
  /\ Report(a, Told("reasoning"), <<>>)
  /\ UNCHANGED <<run, workers, publisher>>

\* The entry agent's text: ag-ui-strands gives a run's messages one id.
ChatMessage == <<Chat, "run", run.no>>
EntrySays ==
  /\ work[Entry] = "thinking" /\ run.said < MaxSays
  /\ run' = [run EXCEPT !.said = @ + 1]
  /\ Report(Entry, Nothing,
            <<E("text_start", Chat, ChatMessage, None), E("text", Chat, ChatMessage, None),
              E("text_end", Chat, ChatMessage, None)>>)
  /\ UNCHANGED <<workers, publisher>>

\* The next call a worker makes, by number.
NextCall(x, c) ==
  c[1] = x /\ call[c] = "none" /\ \A d \in CallsOf(x) : d[2] < c[2] => call[d] # "none"

\* The model writes a call's arguments.
Writes(a, c, written) ==
  /\ work[a] = "thinking"
  /\ NextCall(a, c) \/ (c[1] = a /\ call[c] = "streaming")
  /\ written \/ call[c] = "none"
  /\ call' = [call EXCEPT ![c] = "streaming"]
  /\ Report(a, R("tool_input", c, written), <<>>)
  /\ UNCHANGED <<run, work, host, asks, answered, made, errors, truth, retried, publisher>>

\* The model's turn ends with calls: those it wrote, or one that came whole.
EndsTurn(x, whole) ==
  /\ work[x] = "thinking" /\ \A c \in whole : NextCall(x, c)
  /\ InState(x, {"streaming"}) \cup whole # {}
  /\ work' = [work EXCEPT ![x] = "acting"]
  /\ call' = [c \in Calls |-> IF c \in InState(x, {"streaming"}) \cup whole THEN "called"
                               ELSE call[c]]
  /\ UNCHANGED <<run, host, asks, answered, made, errors, truth, retried, publisher,
                 stream, wire>>

\* _on_tool_start.
StartsTool(x, c) ==
  /\ c[1] = x /\ call[c] = "called" /\ call' = [call EXCEPT ![c] = "running"]
  /\ Report(x, R("tool_start", c, TRUE),
            <<E("call_start", Chat, c, ChatMessage), E("call_args", Chat, c, None),
              E("call_end", Chat, c, None)>>)
  /\ UNCHANGED <<run, work, host, asks, answered, made, errors, truth, retried, publisher>>

\* _on_tool_end: the call has its result.
EndsTool(x, c) ==
  /\ c[1] = x
  /\ call[c] = "returned" \/ (call[c] = "running" /\ Hosted(c) = {})
  /\ c \in Browser => asks[c] # None
  /\ call' = [call EXCEPT ![c] = "over"]
  /\ Report(x, R("tool_end", c, TRUE),
            <<E("result", Chat, c, <<Chat, "result", c[2]>>)>>)
  /\ UNCHANGED <<run, work, host, asks, answered, made, errors, truth, retried, publisher>>

\* A call waits: for a request of its own, or for one of the delegate's it has
\* not raised yet.
Waits(x, c, request) ==
  /\ c[1] = x /\ call[c] = "running" /\ request \notin answered
  /\ \/ Hosted(c) = {} /\ asks[c] = None /\ request = c
     \/ \E a \in Hosted(c) : \E w \in InState(a, {"waiting"}) :
          work[a] = "paused" /\ asks[w] = request
  /\ call' = [call EXCEPT ![c] = "waiting"] /\ asks' = [asks EXCEPT ![c] = request]
  /\ UNCHANGED <<run, work, host, answered, made, errors, truth, retried, publisher,
                 stream, wire>>

\* The step's calls are over: the model is called again.
NextTurn(x) ==
  /\ work[x] = "acting" /\ InState(x, {"called", "running", "returned", "waiting"}) = {}
  /\ work' = [work EXCEPT ![x] = "thinking"]
  /\ UNCHANGED <<run, call, host, asks, answered, made, errors, truth, retried,
                 publisher, stream, wire>>

\* _on_complete, of a paused delegate: its requests go up one at a time.  The error
\* latch is tested first, so a pause after a retried failure is not reported: the
\* card stays open until the run's end.
Pauses(a) ==
  /\ work[a] = "acting" /\ InState(a, {"waiting"}) # {}
  /\ InState(a, {"called", "running", "returned"}) = {}
  /\ work' = [work EXCEPT ![a] = "paused"] /\ truth' = [truth EXCEPT ![V(a)] = "paused"]
  /\ \E w \in InState(a, {"waiting"}) :
       /\ call' = [call EXCEPT ![host[a]] = "waiting"]
       /\ asks' = [asks EXCEPT ![host[a]] = asks[w]]
  /\ Report(a, IF publisher[a].errored THEN Nothing ELSE Told("suspended"), <<>>)
  /\ UNCHANGED <<run, host, answered, made, errors, retried, publisher>>

\* A variant with a bug: the error latch is shared by the conversation's agents.
Completes_Shared(a) ==
  /\ work[a] = "thinking" /\ InState(a, {"streaming"}) = {}
  /\ work' = [work EXCEPT ![a] = "idle"] /\ truth' = [truth EXCEPT ![V(a)] = "done"]
  /\ call' = [call EXCEPT ![host[a]] = "returned"] /\ host' = [host EXCEPT ![a] = None]
  /\ Report(a, IF \E b \in Agents : publisher[b].errored THEN Nothing
               ELSE Told("completed"), <<>>)
  /\ UNCHANGED <<run, asks, answered, made, errors, retried, publisher>>

\* _on_complete: a model call that failed in the invocation silences it, one that
\* was retried too.
Completes(a) ==
  /\ work[a] = "thinking" /\ InState(a, {"streaming"}) = {}
  /\ work' = [work EXCEPT ![a] = "idle"] /\ truth' = [truth EXCEPT ![V(a)] = "done"]
  /\ call' = [call EXCEPT ![host[a]] = "returned"] /\ host' = [host EXCEPT ![a] = None]
  /\ Report(a, IF publisher[a].errored THEN Nothing ELSE Told("completed"), <<>>)
  /\ UNCHANGED <<run, asks, answered, made, errors, retried, publisher>>

\* A variant with a bug: a model call that failed is latched and not reported.
ModelFails_Latched(a, retry) ==
  /\ work[a] = "thinking" /\ errors < MaxErrors /\ errors' = errors + 1
  /\ publisher' = [publisher EXCEPT ![a].errored = TRUE]
  /\ work' = [work EXCEPT ![a] = IF retry THEN @ ELSE "idle"]
  /\ call' = [c \in Calls |-> IF c \in InState(a, {"streaming"}) THEN "lost"
                               ELSE IF c = host[a] /\ ~retry THEN "returned" ELSE call[c]]
  /\ host' = [host EXCEPT ![a] = IF retry THEN @ ELSE None]
  /\ truth' = [truth EXCEPT ![V(a)] = IF retry THEN @ ELSE "failed"]
  /\ retried' = IF retry THEN retried \cup {V(a)} ELSE retried
  /\ UNCHANGED <<run, asks, answered, made, stream, wire>>

\* _on_model_error: the model call failed; strands retries it, or gives up.
ModelFails(a, retry) ==
  /\ work[a] = "thinking" /\ errors < MaxErrors /\ errors' = errors + 1
  /\ publisher' = [publisher EXCEPT ![a].errored = TRUE]
  /\ work' = [work EXCEPT ![a] = IF retry THEN @ ELSE "idle"]
  /\ call' = [c \in Calls |-> IF c \in InState(a, {"streaming"}) THEN "lost"
                               ELSE IF c = host[a] /\ ~retry THEN "returned" ELSE call[c]]
  /\ host' = [host EXCEPT ![a] = IF retry THEN @ ELSE None]
  /\ truth' = [truth EXCEPT ![V(a)] = IF retry THEN @ ELSE "failed"]
  /\ retried' = IF retry THEN retried \cup {V(a)} ELSE retried
  /\ Report(a, Told("error"), <<>>)
  /\ UNCHANGED <<run, asks, answered, made>>

\* The entry agent is done, or waits: RUN_FINISHED is on its way.
Ends ==
  /\ run.phase = "working" /\ run' = [run EXCEPT !.phase = "finishing"]
  /\ \/ work[Entry] = "thinking" /\ InState(Entry, {"waiting"}) = {}
     \/ work[Entry] = "acting" /\ InState(Entry, {"waiting"}) # {}
          /\ InState(Entry, {"called", "running", "returned"}) = {}
  /\ work' = [work EXCEPT ![Entry] = IF InState(Entry, {"waiting"}) = {} THEN "idle" ELSE "paused"]
  /\ queue' = Append(queue, E("finish", Chat, {asks[c] : c \in InState(Entry, {"waiting"})}, None))
  /\ UNCHANGED <<call, host, asks, answered, made, errors, truth, retried, publisher,
                 stream, order, sent, client, last>>

-----------------------------------------------------------------------------
Next ==
  \/ StartRun \/ Send \/ SendFinish \/ EntrySays \/ Ends
  \/ \E a \in Agents :
       \/ Resumes(a) \/ Says(a) \/ Reasons(a) \/ Pauses(a) \/ Completes(a)
       \/ \E c \in Calls : Begins(a, c) \/ \E written \in BOOLEAN : Writes(a, c, written)
       \/ \E retry \in BOOLEAN : ModelFails(a, retry)
  \/ \E x \in Workers :
       \/ NextTurn(x)
       \/ \E whole \in {{}} \cup {{c} : c \in CallsOf(x)} : EndsTurn(x, whole)
       \/ \E c \in CallsOf(x) : \/ StartsTool(x, c) \/ EndsTool(x, c)
                                \/ \E request \in Calls : Waits(x, c, request)

Spec == Init /\ [][Next]_vars

-----------------------------------------------------------------------------
(* Properties.                                                             *)

\* Every variable holds what the code can put in it; no publisher counts more
\* invocations than there were.
TypeOK ==
  /\ run.phase \in {"idle", "working", "finishing"} /\ run.no \in 0..MaxRuns
  /\ work \in [Workers -> {"idle", "thinking", "acting", "paused"}]
  /\ call \in [Calls -> {"none", "streaming", "called", "running", "returned", "waiting",
                         "over", "lost"}]
  /\ host \in [Agents -> Calls \cup {None}] /\ asks \in [Calls -> Calls \cup {None}]
  /\ answered \subseteq Calls /\ made \in [Agents -> 0..MaxInvocations]
  /\ truth \in [Group -> {"none", "working", "paused", "done", "failed"}]
  /\ retried \subseteq Group
  /\ \A a \in Agents : publisher[a].active <= publisher[a].count /\ publisher[a].count = made[a]
  /\ stream.owner \in [Calls -> Group \cup {None}] /\ stream.known \subseteq Calls
  /\ client.card \in [Group -> {"none", "active", "suspended", "completed", "error"}]
  /\ client.tool \in [Calls -> {"none", "open", "ended", "done"}]

\* Every event the response sends is one a client may count on: AgentStream.
Promised == INSTANCE AgentStream WITH
  Groups <- Group, event <- last, running <- client.running, card <- client.card,
  saying <- client.saying, thinking <- client.thinking, shown <- client.shown,
  newest <- client.newest, answers <- client.answers, tool <- client.tool
KeepsPromise == Promised!Spec

Over == run.phase = "idle" /\ run.no > 0

\* When a run is over the client's cards and calls say what became of each
\* invocation and call, of every run so far; an invocation that went on after a
\* failed model call is excepted, and so are the calls that model call had begun.
ToldAsItIs ==
  Over =>
    /\ \A v \in Group \ retried :
         client.card[v] = CASE truth[v] = "done" -> "completed"
                            [] truth[v] = "failed" -> "error"
                            [] truth[v] = "paused" -> "suspended"
                            [] OTHER -> "none"
    /\ \A c \in Calls : /\ client.tool[c] = "open" => call[c] = "lost"
                        /\ client.tool[c] = "done" <=> call[c] = "over"

\* A card closes after those of the delegates it called; one kept open by a
\* failed model call is excepted until the run's end, which goes innermost first.
InnermostFirst ==
  [][\A g, h \in Group :
       /\ client.card[g] = "active" /\ client.card'[g] # "active"
       /\ client.card[h] = "active" /\ client.parent[h] = g
       => h \in retried /\ ~\E i \in DOMAIN queue : queue[i].type = "run_finished"]_vars

\* A run that pauses says on what: every approval asked for, with the invocation
\* that asks, or else the browser's calls that wait.  A wait on a call that an
\* earlier run announced is the exception, and a call a failed model call left.
PauseTold ==
  Over =>
    LET asked == {asks[c] : c \in InState(Entry, {"waiting"})}
        told == client.outcome
    IN /\ told.approvals = {[call |-> c, run |-> IF c[1] = Entry THEN None ELSE V(c[1])] :
                              c \in asked \ Browser}
       /\ told.approvals = {} =>
            {c \in told.pending : call[c] # "lost"} =
              {c \in Browser \ stream.known : call[c] = "waiting"}

=============================================================================
