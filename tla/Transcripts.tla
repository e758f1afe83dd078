----------------------------- MODULE Transcripts -----------------------------
(***************************************************************************)
(* The transforms of an agent's conversation: what its model is sent, what *)
(* is written back of it and what a summary makes of that.                 *)
(*                                                                         *)
(* A message is [role, content]; a block is [kind, of, form]:              *)
(*   brief, report   of a task; a report marked "remember" asks to be kept *)
(*   use, result     of a call; a use's form is its tool, a result's       *)
(*                   "full" with the structured copy strands keeps of it,  *)
(*                   "plain" without, or "cleared"                         *)
(*   note            of a call told in words, "answered" or not            *)
(*   summary, remember, context, changes, reasoning, cache                 *)
(***************************************************************************)
EXTENDS Naturals, Sequences, FiniteSets, SequencesExt

CONSTANTS
  Mcp,      \* the MCP tools; any other is a delegate
  Brief     \* tools whose results are shorter than min_chars

Block(kind, of, form) == [kind |-> kind, of |-> of, form |-> form]
User(content) == [role |-> "user", content |-> content]
Assistant(content) == [role |-> "assistant", content |-> content]

TextKinds == {"brief", "report", "note", "summary", "remember", "context", "changes"}
Blocks(ms) == UNION {Range(m.content) : m \in Range(ms)}
Of(ms, kind) == {b.of : b \in {c \in Blocks(ms) : c.kind = kind}}
Has(m, kinds) == \E b \in Range(m.content) : b.kind \in kinds

\* Drop the blocks of a message, or the messages of a conversation, that fail a test.
Without(m, Test(_)) == [m EXCEPT !.content = SelectSeq(@, LAMBDA b : ~Test(b))]
NonEmpty(ms) == SelectSeq(ms, LAMBDA m : m.content # <<>>)

\* A variant with a bug: only empty messages go.
join_turns_Only(ms) == NonEmpty(ms)

\* Empty messages go, neighbours of one role become one message.
join_turns(ms) ==
  FoldLeft(LAMBDA joined, m :
             IF joined # <<>> /\ Last(joined).role = m.role
             THEN Append(Front(joined), [Last(joined) EXCEPT !.content = @ \o m.content])
             ELSE Append(joined, m),
           <<>>, NonEmpty(ms))

-----------------------------------------------------------------------------
(* Calls to tools an agent does not have.                                  *)

\* A note tells a call in words; a delegate's keeps the whole result, an MCP tool's a part.
Note(use, answered) == Block("note", use.of, IF answered THEN "answered" ELSE "no result")

\* A variant with a bug: calls the agent made itself count too.
Foreign_All(ms, tools, inherited) ==
  LET answering == IF ms = <<>> THEN {} ELSE Of(<<Last(ms)>>, "result")
  IN {b.of : b \in {c \in Blocks(ms) :
                      c.kind = "use" /\ c.form \notin tools /\ c.of \notin answering}}

\* The inherited calls to other tools, but those the last message answers.
Foreign(ms, tools, inherited) ==
  LET answering == IF ms = <<>> THEN {} ELSE Of(<<Last(ms)>>, "result")
  IN {b.of : b \in {c \in Blocks(SubSeq(ms, 1, inherited)) :
                      c.kind = "use" /\ c.form \notin tools /\ c.of \notin answering}}

\* The note goes before the message's own calls.
Noted(m, foreign, answered) ==
  LET told(b) == b.kind = "use" /\ b.of \in foreign
      leading == SelectSeq(m.content, LAMBDA b : b.kind # "use" \/ told(b))
      own == SelectSeq(m.content, LAMBDA b : b.kind = "use" /\ ~told(b))
  IN [m EXCEPT !.content =
        [i \in DOMAIN leading |-> IF told(leading[i])
                                  THEN Note(leading[i], leading[i].of \in answered)
                                  ELSE leading[i]] \o own]

foreign_calls_to_notes(ms, tools, inherited) ==
  LET foreign == Foreign(ms, tools, inherited)
      answered == Of(ms, "result")
      answers(b) == b.kind = "result" /\ b.of \in foreign
  IN IF foreign = {} THEN ms
     ELSE join_turns([i \in DOMAIN ms |->
                        IF ms[i].role = "assistant" THEN Noted(ms[i], foreign, answered)
                        ELSE Without(ms[i], answers)])

-----------------------------------------------------------------------------
(* Old results.                                                            *)

ToolOf(ms, c) ==
  LET uses == {b \in Blocks(ms) : b.kind = "use" /\ b.of = c}
  IN IF uses = {} THEN "" ELSE (CHOOSE b \in uses : TRUE).form

\* Tools whose results stay: those told to, and delegates the agent does not have.
NeverCleared(tool, kept, tools) == tool \in kept \/ (tool \notin tools /\ tool \notin Mcp)

\* A placeholder in place of a result, which carries the ids found in it.
Cleared(b, tool, kept, tools) ==
  IF NeverCleared(tool, kept, tools) \/ tool \in Brief THEN b ELSE [b EXCEPT !.form = "cleared"]

\* The results outside the last turns, step turns at a time, give way to placeholders.
clear_tool_results(ms, keep_last, kept, tools, step) ==
  LET turns == SelectSeq([k \in DOMAIN ms |-> k], LAMBDA k : Has(ms[k], {"result"}))
      clearable == IF Len(turns) > keep_last THEN Len(turns) - keep_last ELSE 0
      old == Range(SubSeq(turns, 1, clearable - (clearable % step)))
      content(m) == [j \in DOMAIN m.content |->
                       IF m.content[j].kind = "result"
                       THEN Cleared(m.content[j], ToolOf(ms, m.content[j].of), kept, tools)
                       ELSE m.content[j]]
  IN [i \in DOMAIN ms |-> IF i \in old THEN [ms[i] EXCEPT !.content = content(ms[i])] ELSE ms[i]]

\* What a conversation is estimated to weigh: a result read in full counts three.
estimate_tokens(ms) ==
  LET counted(b) == b.kind # "cache"
      long(b) == b.kind = "result" /\ b.form # "cleared"
  IN FoldLeft(LAMBDA n, m : n + Len(SelectSeq(m.content, counted))
                              + 2 * Len(SelectSeq(m.content, long)), 0, ms)

-----------------------------------------------------------------------------
(* Tasks of a transcript (the code calls them calls).                      *)

OpensCall(m) == m.role = "user" /\ Has(m, TextKinds) /\ ~Has(m, {"result"})

split_calls(ms) ==
  FoldLeft(LAMBDA calls, m :
             IF calls = <<>> \/ OpensCall(m) THEN Append(calls, <<m>>)
             ELSE Append(Front(calls), Append(Last(calls), m)),
           <<>>, ms)

IsOpen(call) == ~(Of(call, "use") \subseteq Of(call, "result"))

\* A finished task without its reasoning, its structured copies and its results.
Masked(call, kept, tools) ==
  LET plain(b) == IF b.kind = "result" /\ b.form = "full" THEN [b EXCEPT !.form = "plain"] ELSE b
      cleared == clear_tool_results(call, 0, kept, tools, 1)
      told(m) == SelectSeq(m.content, LAMBDA b : b.kind # "reasoning")
  IN [i \in DOMAIN cleared |->
        [cleared[i] EXCEPT !.content =
           [j \in DOMAIN told(cleared[i]) |-> plain(told(cleared[i])[j])]]]

mask_transcript(ms, kept, tools) ==
  LET calls == split_calls(ms)
  IN join_turns(FlattenSeq([i \in DOMAIN calls |->
                              IF IsOpen(calls[i]) THEN calls[i]
                              ELSE Masked(calls[i], kept, tools)]))

\* How many of the newest tasks fit a budget: the newest always, then those before it.
split_for_summary(ms, budget) ==
  LET calls == split_calls(ms)
      size(k) == estimate_tokens(FlattenSeq(SubSeq(calls, k, Len(calls))))
      from == CHOOSE k \in 1..Len(calls) :
                /\ k = Len(calls) \/ size(k) <= budget
                /\ k = 1 \/ size(k - 1) > budget
  IN [older |-> SubSeq(calls, 1, from - 1), newer |-> SubSeq(calls, from, Len(calls))]

IsSummary(call) == call[1].content = <<Block("summary", 0, "brief")>>

\* The texts of a task's last words.
Report(call) ==
  LET said == SelectSeq(call, LAMBDA m : m.role = "assistant" /\ Has(m, TextKinds))
  IN IF said = <<>> THEN {} ELSE {b \in Range(Last(said).content) : b.kind \in TextKinds}

\* A variant with a bug: what a summary carries is left to its text.
remembered_blocks_Once(calls) ==
  LET marked(call) ==
        IF IsSummary(call) THEN {}
        ELSE {b.of : b \in {r \in Report(call) : r.kind = "report" /\ r.form = "remember"}}
  IN UNION {marked(calls[i]) : i \in DOMAIN calls}

\* The tasks whose reports asked to be remembered, and those a summary carries already.
remembered_blocks(calls) ==
  LET marked(call) ==
        IF IsSummary(call)
        THEN IF Len(call) > 1 THEN {b.of : b \in Range(Tail(call[2].content))} ELSE {}
        ELSE {b.of : b \in {r \in Report(call) : r.kind = "report" /\ r.form = "remember"}}
  IN UNION {marked(calls[i]) : i \in DOMAIN calls}

\* The pair that stands in for summarised tasks.
summary_pair(remembered) ==
  LET kept == SetToSortSeq(remembered, LAMBDA x, y : x < y)
  IN <<User(<<Block("summary", 0, "brief")>>),
       Assistant(<<Block("summary", 0, "text")>>
                 \o [i \in DOMAIN kept |-> Block("remember", kept[i], "verbatim")])>>

-----------------------------------------------------------------------------
(* Cache points.                                                           *)

Cache == Block("cache", 0, "")
Lead(content) ==
  LET others == {i \in DOMAIN content : content[i].kind # "cache"}
  IN IF others = {} THEN Len(content) ELSE (CHOOSE i \in others : \A j \in others : i <= j) - 1

\* A cache point that would open a message ends the one before.
settle_cache_points(ms) ==
  LET settle(settled, m) ==
        LET lead == Lead(m.content)
            moved == IF lead > 0 /\ settled # <<>> /\ Last(Last(settled).content) # Cache
                     THEN Append(Front(settled), [Last(settled) EXCEPT !.content = Append(@, Cache)])
                     ELSE settled
        IN IF lead = Len(m.content) THEN moved
           ELSE Append(moved, [m EXCEPT !.content = SubSeq(@, lead + 1, Len(@))])
  IN IF Of(ms, "cache") = {} THEN ms ELSE join_turns(FoldLeft(settle, <<>>, ms))

strip_cache_points(ms) ==
  IF Of(ms, "cache") = {} THEN ms
  ELSE NonEmpty([i \in DOMAIN ms |-> Without(ms[i], LAMBDA b : b.kind = "cache")])

-----------------------------------------------------------------------------
(* What a run shows its agents.                                            *)

\* The run's context opens the latest message of a person.
with_context(ms, text) ==
  LET said == {i \in DOMAIN ms : ms[i].role = "user" /\ Has(ms[i], TextKinds)}
      latest == CHOOSE i \in said : \A j \in said : j <= i
  IN IF said = {} THEN <<User(<<text>>)>> \o ms
     ELSE [ms EXCEPT ![latest].content = <<text>> \o @]

\* What changed since ends the latest message.
with_tail(ms, text) ==
  IF ms # <<>> /\ Last(ms).role = "user"
  THEN [ms EXCEPT ![Len(ms)].content = Append(@, text)]
  ELSE Append(ms, User(<<text>>))

=============================================================================
