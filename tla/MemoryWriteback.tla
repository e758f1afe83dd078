--------------------------- MODULE MemoryWriteback ---------------------------
(***************************************************************************)
(* What a group of remembering agents writes back.                         *)
(*                                                                         *)
(* Agents that share a history group share one bucket of a run's           *)
(* HistoryExchange.  Before an invocation HistoryHook seeds the agent from *)
(* the bucket, after it the hook captures the agent's messages into it; an *)
(* agent that keeps a masked memory also records the copy to write back,   *)
(* and a summariser may be condensing that copy while the run goes on.  The*)
(* run's write-back settles the summary and hands the bucket to the host.  *)
(*                                                                         *)
(* A transcript is the set of calls it tells of: those told in full, those *)
(* told by a summary, and those still open, with a tool use unanswered.    *)
(* Conversation managers that trim messages, and agents whose history is   *)
(* off, are left out.                                                      *)
(***************************************************************************)
EXTENDS Naturals, FiniteSets

CONSTANTS
  Agents,      \* the agents of the group
  Keep,        \* each one's policy: full, masked, or masked and summarised
  Budget,      \* calls a masked copy may tell of without being summarised
  MaxCalls,    \* bound on the calls made to the agents
  MaxRuns      \* bound on the runs

ASSUME MemoryWritebackAssumption ==
  /\ Keep \in [Agents -> {"full", "masked", "summarised"}]
  /\ Budget \in Nat /\ MaxCalls \in Nat /\ MaxRuns \in Nat

Work == 1..MaxCalls
Transcript == [calls : SUBSET Work, whole : SUBSET Work, summed : SUBSET Work,
               open : SUBSET Work]
Nothing == [calls |-> {}, whole |-> {}, summed |-> {}, open |-> {}]
\* The bucket has no entry: no transcript tells a call it does not have.
None == [Nothing EXCEPT !.whole = Work]

VARIABLES
  phase,      \* of the run: idle, running, settling
  inbound, outbound, persisted,   \* the bucket in the run's HistoryExchange
  summary,    \* HistoryExchange.summaries: the pending one, if any
  busy,       \* each agent: idle, working, paused on an interrupt, or resuming
  call,       \* the call each agent is working on
  messages,   \* each agent's messages
  stored,     \* the bucket the host holds
  made,       \* calls made in this run
  overlapped, \* two agents of the group worked at once in this run
  shadowed,   \* a copy was captured that left an older one's summary pending
  next, runs

vars == <<phase, inbound, outbound, persisted, summary, busy, call, messages, stored,
          made, overlapped, shadowed, next, runs>>

NoSummary == [state |-> "none", memory |-> Nothing]

Init ==
  /\ phase = "idle" /\ inbound = Nothing /\ outbound = None /\ persisted = None
  /\ summary = NoSummary
  /\ busy = [a \in Agents |-> "idle"] /\ call = [a \in Agents |-> 0]
  /\ messages = [a \in Agents |-> Nothing] /\ stored = Nothing
  /\ made = {} /\ overlapped = FALSE /\ shadowed = FALSE
  /\ next = 1 /\ runs = 0

Masks(a) == Keep[a] # "full"

\* mask_transcript: every finished call loses its detail; one still open is kept.
Mask(t) == [t EXCEPT !.whole = @ \cap t.open]

Over(t) == Cardinality(t.calls \ t.summed) > Budget

-----------------------------------------------------------------------------
(* A run.                                                                  *)

\* The request brings the bucket the host holds.
StartRun ==
  /\ phase = "idle" /\ runs < MaxRuns
  /\ phase' = "running" /\ runs' = runs + 1
  /\ inbound' = stored /\ outbound' = None /\ persisted' = None /\ summary' = NoSummary
  /\ made' = {} /\ shadowed' = FALSE
  /\ overlapped' = \E a \in Agents : busy[a] = "paused"
  /\ UNCHANGED <<busy, call, messages, stored, next>>

\* A variant with a bug: an agent called again gets the copy to write back.
Seed_Persisted(a) ==
  IF persisted # None THEN persisted ELSE IF outbound # None THEN outbound ELSE inbound

\* _on_before: this run's transcript, else the client's, masked on loading.
Seed(a) ==
  IF outbound # None THEN outbound
  ELSE IF Masks(a) THEN Mask(inbound) ELSE inbound

\* An agent of the group is called: it is seeded, and works on the call.
Begin(a) ==
  /\ phase = "running" /\ busy[a] = "idle" /\ next \in Work
  /\ messages' = [messages EXCEPT ![a] =
       [Seed(a) EXCEPT !.calls = @ \cup {next}, !.whole = @ \cup {next},
                       !.open = @ \cup {next}]]
  /\ busy' = [busy EXCEPT ![a] = "working"] /\ call' = [call EXCEPT ![a] = next]
  /\ made' = made \cup {next} /\ next' = next + 1
  /\ overlapped' = (overlapped \/ \E b \in Agents : busy[b] # "idle")
  /\ UNCHANGED <<phase, inbound, outbound, persisted, summary, stored, shadowed, runs>>

\* A paused agent goes on: mid-interrupt, its messages are left alone.
GoOn(a) ==
  /\ phase = "running" /\ busy[a] = "paused"
  /\ busy' = [busy EXCEPT ![a] = "resuming"] /\ made' = made \cup {call[a]}
  /\ UNCHANGED <<phase, inbound, outbound, persisted, summary, call, messages, stored,
                 overlapped, shadowed, next, runs>>

\* Variants with a bug: a full capture leaves an older masked copy in place, a
\* masked one writes back nothing of its own.
Recorded_Kept(a, t) == IF Masks(a) THEN Mask(t) ELSE persisted
Recorded_None(a, t) == None

\* The copy to write back in place of what was captured.
Recorded(a, t) == IF Masks(a) THEN Mask(t) ELSE None

\* The agent has a summariser, and its copy is over budget.
Condenses(a, copy) == Keep[a] = "summarised" /\ Over(copy)

\* A variant with a bug: a pending summary is left to finish.
Pending_Oldest(a, copy) ==
  IF Condenses(a, copy) /\ summary.state = "none"
    THEN [state |-> "writing", memory |-> copy] ELSE summary

\* _on_after_summarizing: a copy over budget is summarised from now on, and the
\* summary of an older copy is cancelled.
Pending(a, copy) ==
  IF Condenses(a, copy)
    THEN [state |-> "writing", memory |-> copy] ELSE summary

\* _on_after: the invocation ends, with its call finished or paused.
End(a, pauses) ==
  /\ busy[a] \in {"working", "resuming"}
  /\ busy' = [busy EXCEPT ![a] = IF pauses THEN "paused" ELSE "idle"]
  /\ messages' = [messages EXCEPT ![a].open = IF pauses THEN @ ELSE @ \ {call[a]}]
  /\ outbound' = messages'[a]
  /\ persisted' = Recorded(a, messages'[a]) /\ summary' = Pending(a, persisted')
  /\ shadowed' = (shadowed \/ (~Condenses(a, persisted') /\ summary.state # "none"))
  /\ UNCHANGED <<phase, inbound, call, stored, made, overlapped, next, runs>>

\* _summarize ends: the oldest calls, a paused one too but never the newest, are folded
\* into a summary, or none is, when it failed, came back empty or took too long.
Summarised(older) ==
  /\ summary.state = "writing"
  /\ LET t == summary.memory IN
       /\ older \subseteq t.calls /\ (older = {} \/ older # t.calls)
       /\ \A c \in older : \A d \in t.calls \ older : c < d
  /\ summary' = [state |-> "done",
                 memory |-> [summary.memory EXCEPT !.summed = @ \cup older,
                               !.whole = @ \ older, !.open = @ \ older]]
  /\ UNCHANGED <<phase, inbound, outbound, persisted, busy, call, messages, stored, made,
                 overlapped, shadowed, next, runs>>

\* RUN_FINISHED is on its way: the write-back begins.
Finish ==
  /\ phase = "running" /\ \A a \in Agents : busy[a] \in {"idle", "paused"}
  /\ phase' = "settling"
  /\ UNCHANGED <<inbound, outbound, persisted, summary, busy, call, messages, stored, made,
                 overlapped, shadowed, next, runs>>

\* HistoryExchange.settle: the copy to write back once the summary is settled,
\* late being that the wait ended first.
Settled(late) == IF summary.state = "done" /\ ~late THEN summary.memory ELSE persisted

\* written_back: this run's copy, else its transcript, else the client's.
WrittenBack(copy) ==
  IF copy # None THEN copy ELSE IF outbound # None THEN outbound ELSE inbound

\* A variant with a bug: the write-back waits for the summary for good.
WriteBack_Wait(late) ==
  /\ phase = "settling" /\ phase' = "idle"
  /\ ~late /\ summary.state # "writing"
  /\ persisted' = Settled(late) /\ summary' = NoSummary
  /\ stored' = WrittenBack(persisted')
  /\ UNCHANGED <<inbound, outbound, busy, call, messages, made, overlapped, shadowed,
                 next, runs>>

\* The summary is applied if it is written in time, and the bucket goes back
\* to the host.
WriteBack(late) ==
  /\ phase = "settling" /\ phase' = "idle"
  /\ late <=> summary.state = "writing"
  /\ persisted' = Settled(late) /\ summary' = NoSummary
  /\ stored' = WrittenBack(persisted')
  /\ UNCHANGED <<inbound, outbound, busy, call, messages, made, overlapped, shadowed,
                 next, runs>>

\* The run fails or its client leaves: nothing is written back, and an agent
\* that was going on from an interrupt is still in it.
FailRun ==
  /\ phase = "running" /\ phase' = "idle"
  /\ busy' = [a \in Agents |-> CASE busy[a] = "working" -> "idle"
                                [] busy[a] = "resuming" -> "paused"
                                [] OTHER -> busy[a]]
  /\ summary' = NoSummary
  /\ UNCHANGED <<inbound, outbound, persisted, call, messages, stored, made, overlapped,
                 shadowed, next, runs>>

-----------------------------------------------------------------------------
Next ==
  \/ StartRun \/ Finish \/ FailRun
  \/ \E a \in Agents : Begin(a) \/ GoOn(a) \/ \E pauses \in BOOLEAN : End(a, pauses)
  \/ \E older \in SUBSET Work : Summarised(older)
  \/ \E late \in BOOLEAN : WriteBack(late)

\* A write-back that has begun goes on; summarisers owe nothing.
Fairness == \A late \in BOOLEAN : WF_vars(WriteBack(late))

Spec == Init /\ [][Next]_vars /\ Fairness

-----------------------------------------------------------------------------
(* Properties.                                                             *)

\* Every variable holds what the code can put in it.
TypeOK ==
  /\ phase \in {"idle", "running", "settling"}
  /\ inbound \in Transcript /\ outbound \in Transcript /\ persisted \in Transcript
  /\ summary \in [state : {"none", "writing", "done"}, memory : Transcript]
  /\ busy \in [Agents -> {"idle", "working", "paused", "resuming"}] /\ call \in [Agents -> Nat]
  /\ messages \in [Agents -> Transcript] /\ stored \in Transcript
  /\ made \subseteq Work /\ overlapped \in BOOLEAN /\ shadowed \in BOOLEAN
  /\ next \in Nat /\ runs \in Nat

WritesBack == phase = "settling" /\ phase' = "idle"

\* What a run writes back tells of every call made in it and of all the host
\* had, when the group's agents took turns and no capture left the summary of an
\* older copy pending: only an agent without a summariser does, then.
NoWorkLost ==
  [][WritesBack /\ ~overlapped /\ ~shadowed => stored'.calls = inbound.calls \cup made]_vars

\* A summary never replaces a newer copy than the one it was written from, whoever
\* captured it and however many were at work at once, unless the newer copy left the
\* summary pending: it was within budget, or its agent has no summariser.
NewestCopyWins ==
  [][WritesBack /\ ~shadowed /\ outbound # None => outbound.calls \subseteq stored'.calls]_vars

\* An agent of the group that is called in a run sees whole what the group did
\* in that run before, though what is written back is masked.
SeenWhole ==
  [][\A a \in Agents :
       busy[a] = "idle" /\ busy'[a] = "working" /\ ~overlapped'
         => made' \subseteq messages'[a].whole]_vars

\* A run in which only agents that mask worked writes back no finished call in
\* full: neither a sibling's stored transcript nor this run's own leaks through.
MaskedStays ==
  [][WritesBack /\ outbound # None /\ (\A a \in Agents : Masks(a) \/ call[a] \notin made)
       => stored'.whole \subseteq stored'.open]_vars

\* A run that begins to write back does, however long the summariser takes.
WritesBackInTime == phase = "settling" ~> phase = "idle"

\* What the documentation says: a summary written from an older copy is
\* cancelled, so what is written back tells of the latest capture's calls.
OlderSummaryCancelled ==
  [][WritesBack /\ outbound # None /\ ~overlapped
       => outbound.calls \subseteq stored'.calls]_vars
=============================================================================
