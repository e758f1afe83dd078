---------------------------- MODULE AgentStream ----------------------------
(***************************************************************************)
(* What a client may count on in the events of a conversation's runs: each *)
(* sub-agent has a card that opens and closes, its messages and tool calls *)
(* are bracketed inside an open segment of it, no call is announced twice, *)
(* every agent extends only its newest message or the text it was saying   *)
(* when a result came, and a run ends with every segment closed.           *)
(* SubagentStream implements it, one event per step.                       *)
(***************************************************************************)
EXTENDS Naturals, FiniteSets

CONSTANTS
  Groups,      \* the sub-agent invocations, by their subagentRunId
  Chat,        \* the entry agent's own scope
  Calls,       \* the tool calls
  None

VARIABLES
  event,       \* the event that came last: its type, its scope, and what it is about
  running,     \* a run is under way
  card,        \* each invocation's card: none, active, suspended, completed, error
  saying,      \* each scope's open text message, if any
  thinking,    \* each scope's open reasoning message, if any
  shown,       \* each scope's messages so far
  newest,      \* each scope's newest message
  answers,     \* the messages that hold the results of calls
  tool         \* each call: none, open, ended, done

view == <<event, running, card, saying, thinking, shown, newest, answers, tool>>

Scopes == Groups \cup {Chat}

Init ==
  /\ event = <<"none", Chat, None>> /\ running = FALSE
  /\ card = [g \in Groups |-> "none"]
  /\ saying = [s \in Scopes |-> None] /\ thinking = [s \in Scopes |-> None]
  /\ shown = [s \in Scopes |-> {}] /\ newest = [s \in Scopes |-> None]
  /\ answers = {}
  /\ tool = [c \in Calls |-> "none"]

Live(s) == running /\ (s = Chat \/ card[s] = "active")
Silent(s) == saying[s] = None /\ thinking[s] = None

\* A message is new; or it is new, or goes on as the scope's newest.
New(s, m) == m \notin shown[s]
NewOrNewest(s, m) == New(s, m) \/ m = newest[s]
Appends(s, m) == shown' = [shown EXCEPT ![s] = @ \cup {m}] /\ newest' = [newest EXCEPT ![s] = m]

BeginRun ==
  /\ event' = <<"run_started", Chat, None>> /\ ~running /\ running' = TRUE
  /\ UNCHANGED <<card, saying, thinking, shown, newest, answers, tool>>

\* A run ends with nothing of it left open.
FinishRun ==
  /\ event' = <<"run_finished", Chat, None>> /\ running /\ running' = FALSE
  /\ \A g \in Groups : card[g] # "active"
  /\ \A s \in Scopes : Silent(s)
  /\ UNCHANGED <<card, saying, thinking, shown, newest, answers, tool>>

OpenCard(g) ==
  /\ event' = <<"started", g, None>>
  /\ running /\ card[g] # "active" /\ card' = [card EXCEPT ![g] = "active"]
  /\ UNCHANGED <<running, saying, thinking, shown, newest, answers, tool>>

CloseCard(g, how) ==
  /\ event' = <<how, g, None>>
  /\ Live(g) /\ Silent(g) /\ card' = [card EXCEPT ![g] = how]
  /\ UNCHANGED <<running, saying, thinking, shown, newest, answers, tool>>

StartText(s, m) ==
  /\ event' = <<"text_start", s, m>>
  /\ Live(s) /\ Silent(s) /\ NewOrNewest(s, m)
  /\ saying' = [saying EXCEPT ![s] = m] /\ Appends(s, m)
  /\ UNCHANGED <<running, card, thinking, answers, tool>>

\* A chunk belongs to the open message; only results come between.
Continues(s, m) == newest[s] \in {m} \cup answers

Text(s, m) ==
  /\ event' = <<"text", s, m>> /\ Live(s) /\ saying[s] = m /\ Continues(s, m)
  /\ UNCHANGED <<running, card, saying, thinking, shown, newest, answers, tool>>

EndText(s, m) ==
  /\ event' = <<"text_end", s, m>> /\ Live(s) /\ saying[s] = m
  /\ saying' = [saying EXCEPT ![s] = None]
  /\ UNCHANGED <<running, card, thinking, shown, newest, answers, tool>>

StartReasoning(s, m) ==
  /\ event' = <<"reasoning_start", s, m>> /\ Live(s) /\ Silent(s) /\ New(s, m)
  /\ thinking' = [thinking EXCEPT ![s] = m] /\ Appends(s, m)
  /\ UNCHANGED <<running, card, saying, answers, tool>>

Reasoning(s, m) ==
  /\ event' = <<"reasoning", s, m>> /\ Live(s) /\ thinking[s] = m /\ Continues(s, m)
  /\ UNCHANGED <<running, card, saying, thinking, shown, newest, answers, tool>>

EndReasoning(s, m) ==
  /\ event' = <<"reasoning_end", s, m>> /\ Live(s) /\ thinking[s] = m
  /\ thinking' = [thinking EXCEPT ![s] = None]
  /\ UNCHANGED <<running, card, saying, shown, newest, answers, tool>>

\* A call is announced once, in a message of its own or the newest.
StartCall(s, c, m) ==
  /\ event' = <<"call_start", s, c>> /\ Live(s) /\ Silent(s) /\ NewOrNewest(s, m)
  /\ tool[c] = "none" /\ tool' = [tool EXCEPT ![c] = "open"] /\ Appends(s, m)
  /\ UNCHANGED <<running, card, saying, thinking, answers>>

Arguments(s, c) ==
  /\ event' = <<"call_args", s, c>> /\ Live(s) /\ tool[c] = "open"
  /\ UNCHANGED <<running, card, saying, thinking, shown, newest, answers, tool>>

EndCall(s, c) ==
  /\ event' = <<"call_end", s, c>> /\ Live(s) /\ tool[c] = "open"
  /\ tool' = [tool EXCEPT ![c] = "ended"]
  /\ UNCHANGED <<running, card, saying, thinking, shown, newest, answers>>

\* A call has one result, after its arguments, in a message of its own.
Result(s, c, m) ==
  /\ event' = <<"result", s, c>> /\ Live(s) /\ New(s, m)
  /\ tool[c] = "ended" /\ tool' = [tool EXCEPT ![c] = "done"] /\ Appends(s, m)
  /\ answers' = answers \cup {m}
  /\ UNCHANGED <<running, card, saying, thinking>>

\* The event shows whose it is; message ids are the sender's choice, and a step shows
\* which it chose.
Next ==
  \/ BeginRun \/ FinishRun
  \/ \E g \in Groups :
       /\ event'[2] = g
       /\ OpenCard(g) \/ \E how \in {"suspended", "completed", "error"} : CloseCard(g, how)
  \/ \E s \in Scopes :
       /\ event'[2] = s
       /\ \/ \E m \in {event'[3]} :
               \/ StartText(s, m) \/ Text(s, m) \/ EndText(s, m)
               \/ StartReasoning(s, m) \/ Reasoning(s, m) \/ EndReasoning(s, m)
          \/ \E c \in Calls :
               /\ event'[3] = c
               /\ \/ Arguments(s, c) \/ EndCall(s, c)
                  \/ \E m \in {newest'[s]} : StartCall(s, c, m) \/ Result(s, c, m)

Spec == Init /\ [][Next]_view
=============================================================================
