----------------------- MODULE SubagentStream_proofs ------------------------
(***************************************************************************)
(* Proofs about SubagentStream, for any delegates, nesting and bounds.     *)
(*                                                                         *)
(* The inductive invariant has three parts.  Working says who works for    *)
(* whom: calls, invocations and publishers go through their states         *)
(* together, and a request that waits was passed up call by call.  Queued  *)
(* says where in the queue a run's end may stand.  Ahead says that the     *)
(* queue leads from what the client holds to a board on which every card   *)
(* and call is what the workers make of it; it is followed one event at a  *)
(* time, as SubagentEvents_proofs says of each report.                     *)
(*                                                                         *)
(* Spoken is the invariant of the refinement.  What the client holds is    *)
(* heard of some reading, and what is queued makes of that reading what    *)
(* the stream has said; so the head of the queue is always an event the    *)
(* client may count on, and sending it is a step of AgentStream.           *)
(***************************************************************************)
EXTENDS SubagentEvents_proofs

-----------------------------------------------------------------------------
(* The invariant.                                                           *)

Active(a) == work[a] \in {"thinking", "acting"}

\* Every variable of the workers' holds what the code can put in it.
Types ==
  /\ run \in [no : 0..MaxRuns, phase : {"idle", "working", "finishing"}, said : Nat]
  /\ work \in [Workers -> {"idle", "thinking", "acting", "paused"}]
  /\ call \in [Calls -> {"none", "streaming", "called", "running", "returned", "waiting",
                         "over", "lost"}]
  /\ host \in [Agents -> Calls \cup {None}] /\ asks \in [Calls -> Calls \cup {None}]
  /\ answered \subseteq Calls /\ made \in [Agents -> 0..MaxInvocations]
  /\ truth \in [Group -> {"none", "working", "paused", "done", "failed"}]
  /\ retried \subseteq Group
  /\ publisher \in [Agents -> [count : Nat, active : Nat, errored : BOOLEAN]]

\* A delegate at work, or paused, works for a call of its caller's, and no other does.
Hosting ==
  \A a \in Agents :
    /\ host[a] = None <=> work[a] = "idle"
    /\ host[a] # None => host[a][1] = Caller[a] /\ host[a] \notin Browser
    /\ Active(a) => call[host[a]] = "running"
    /\ work[a] = "paused" => call[host[a]] \in {"waiting", "called", "running"}
    /\ \A b \in Agents : host[a] # None /\ host[a] = host[b] => a = b

\* A worker's calls are where the worker is.
Stated ==
  /\ \A c \in Calls :
       /\ call[c] \in {"called", "running", "returned"} => work[c[1]] = "acting"
       /\ call[c] = "waiting" => work[c[1]] \in {"acting", "paused"}
       /\ call[c] = "streaming" => work[c[1]] = "thinking"
       /\ call[c] \in {"streaming", "lost"} => c[1] # Entry
       /\ call[c] = "none" \/ (call[c] = "called" /\ c[1] = Entry) => asks[c] = None
  /\ run.phase = "working" <=> work[Entry] \in {"thinking", "acting"}

\* The request c waits for is its own, or was passed up from call to call: P are the
\* paused delegates between the one that asks and c.
Passed(c) ==
  \/ asks[c] = c
  \/ \E P \in SUBSET Agents :
       /\ asks[c][1] \in P
       /\ \A b \in P : /\ work[b] = "paused" /\ call[host[b]] = "waiting"
                       /\ host[b] = c \/ host[b][1] \in P
Raised ==
  \A c \in Calls : call[c] = "waiting" =>
    asks[c] \in Calls /\ call[asks[c]] = "waiting" /\ Passed(c)

\* The delegates at work are called from outside them: by the entry agent, in the end.
Grounded ==
  \A S \in SUBSET Agents : S # {} /\ (\A a \in S : Active(a)) => \E a \in S : Caller[a] \notin S

\* A publisher's count, the invocations made and what became of them go together.
Books ==
  /\ \A a \in Agents :
       /\ publisher[a].count = made[a] /\ publisher[a].active <= made[a]
       /\ work[a] # "idle" => publisher[a].active = made[a] /\ made[a] >= 1
       /\ Active(a) => truth[V(a)] = "working" /\ (publisher[a].errored => V(a) \in retried)
       /\ work[a] = "paused" => truth[V(a)] = "paused"
  /\ \A v \in Group :
       /\ truth[v] = "working" => v = V(v[1]) /\ Active(v[1])
       /\ truth[v] = "paused" => v = V(v[1]) /\ work[v[1]] = "paused"
       /\ truth[v] = "none" <=> v[2] > made[v[1]]
  /\ \A v \in retried : truth[v] # "none"

Working == Types /\ Hosting /\ Stated /\ Raised /\ Grounded /\ Books

\* The requests the entry agent's calls wait for; the events that end a run.
Waiting == {asks[c] : c \in InState(Entry, {"waiting"})}
Finals == {"finish", "run_finished"}

\* RUN_FINISHED is queued behind all that closes; until then the invocations a
\* failed model call left may have cards open under a card that closes.
Ending == \E i \in DOMAIN queue : queue[i].type = "run_finished"
Exempt == {None} \cup (IF Ending THEN {} ELSE retried)
Telling == run.phase # "idle" /\ ~Ending

\* A run's end is the last in its queue, with what the run waits for.
Queued ==
  /\ run.phase = "idle" => queue = <<>>
  /\ run.phase = "working" => \A i \in 1..Len(queue) : queue[i].type \notin Finals
  /\ run.phase = "finishing" =>
       /\ queue # <<>> /\ queue[Len(queue)].type \in Finals
       /\ \A i \in 1..(Len(queue) - 1) : queue[i].type \notin Finals
  /\ \A i \in 1..Len(queue) : queue[i].type = "finish" => queue[i].id = Waiting

\* The board b shows what became of each invocation, each under its caller's.
CardFor(t) == CASE t = "none" -> "none" [] t = "working" -> "active"
                [] t = "paused" -> "suspended" [] t = "done" -> "completed"
                [] OTHER -> "error"

CardsTold(b) ==
  /\ \A g \in Group : /\ g \notin retried => b.card[g] = CardFor(truth[g])
                      /\ b.card[g] = "none" <=> truth[g] = "none"
  /\ \A a \in Agents : work[a] # "idle" /\ b.parent[V(a)] # None =>
                         host[a][1] \in Agents /\ b.parent[V(a)] = V(host[a][1])

\* Of a call c in state k, of the invocation v: what the stream s has announced of it
\* is on the board b,
Announced(s, b, c) ==
  /\ \A g \in Group :
       /\ s.seg[g].args[c] # "unsent" =>
            /\ s.owner[c] = g /\ c \notin s.known
            /\ c \in s.seg[g].ended \/ b.tool[c] = "open"
       /\ c \in s.seg[g].ended => s.owner[c] = g /\ b.tool[c] \in {"ended", "done"}
  /\ c \in s.known => b.tool[c] # "none"
  /\ s.owner[c] # None => s.owner[c][1] = c[1] /\ b.tool[c] # "none"

\* the board shows its state and who made it,
Tooled(b, c, k, v) ==
  LET t == b.tool[c] IN
  /\ k = "none" => t = "none"
  /\ k = "streaming" => t = "open"
  /\ k = "called" => t \in (IF c[1] = Entry THEN {"none"} ELSE {"none", "open", "ended"})
  /\ k \in {"running", "returned", "waiting"} => t = "ended"
  /\ k = "over" => t = "done"
  /\ k = "lost" => t \in {"open", "ended"}
  /\ c[1] = Entry => b.runs[c] = None
  /\ c[1] # Entry /\ k \in {"streaming", "called", "running", "returned", "waiting"} /\ t # "none"
       => b.runs[c] = v

\* the stream will not announce it again,
Written(s, b, c, k, v) ==
  c[1] # Entry =>
  LET t == b.tool[c]
  IN /\ k = "streaming" \/ (k = "called" /\ t = "open") => s.seg[v].args[c] # "unsent"
     /\ k \in {"called", "waiting"} /\ t = "ended" => c \in s.known \cup s.seg[v].ended
     /\ k \in {"running", "returned"} => c \in s.seg[v].ended
     /\ k \in {"streaming", "called", "running", "returned", "waiting"} => s.owner[c] \in {None, v}

\* and it waits for the browser, as far as this run announced it.
Waited(s, b, c, k, asked) ==
  c \in b.waiting <=> /\ c \in Browser \ s.known /\ b.tool[c] \in {"open", "ended"}
                      /\ ~(c[1] = Entry /\ k = "running" /\ asked)

CallOK(s, b, c, k, asked, v) ==
  /\ Announced(s, b, c) /\ Tooled(b, c, k, v) /\ Written(s, b, c, k, v)
  /\ Waited(s, b, c, k, asked)
  /\ c[1] = Entry => c \notin s.known /\ s.owner[c] = None

\* Once a run's end is queued nothing is open, and the outcome says what is waited for.
Settled(b) ==
  /\ \A g \in Group : b.card[g] # "active"
  /\ \A c \in Calls : b.tool[c] = "open" => call[c] = "lost"
  /\ run.no > 0 =>
       /\ b.outcome.approvals = {[call |-> c, run |-> IF c[1] = Entry THEN None ELSE V(c[1])] :
                                   c \in Waiting \ Browser}
       /\ b.outcome.approvals = {} =>
            {c \in b.outcome.pending : call[c] # "lost"} =
              {c \in Browser \ stream.known : call[c] = "waiting"}

CallsTold(b) ==
  \A c \in Calls : CallOK(stream, b, c, call[c], asks[c] # None, V(c[1]))

\* Delegates at work have begun in this response.
Begun(b) ==
  Tree(stream, b) /\ \A a \in Agents : Active(a) => V(a) \in Range(stream.begun)

Agrees(b) ==
  /\ CardsTold(b) /\ \A c \in Calls : Tooled(b, c, call[c], V(c[1]))
  /\ Telling => Begun(b) /\ CallsTold(b)
  /\ ~Telling => Settled(b)

Ahead ==
  /\ Client(client) /\ Notes(sent) /\ stream \in Streams /\ queue \in Seq(Events)
  /\ Board(client, sent) \in Boards
  /\ \E b \in Boards : Leads(Exempt, Board(client, sent), queue, b) /\ Agrees(b)

IInv == Working /\ Queued /\ Ahead

-----------------------------------------------------------------------------
(* The workers.                                                            *)

\* What invocations are made of.
LEMMA GroupFields ==
  ASSUME NEW v \in Group
  PROVE  v = <<v[1], v[2]>> /\ v[1] \in Agents /\ v[2] \in 1..MaxInvocations /\ v # None
  BY SubagentStreamAssumption DEF Group

\* The entry agent is no delegate.
LEMMA AgentNotEntry == Entry \notin Agents /\ Entry \in Workers /\ Agents \subseteq Workers
  BY SubagentStreamAssumption DEF Workers

\* Hosts and invocations of a delegate at work.
LEMMA AtWork ==
  ASSUME Types, Hosting, Books, NEW a \in Agents, work[a] # "idle"
  PROVE  /\ host[a] \in Calls /\ host[a][1] = Caller[a] /\ host[a] \notin Browser
         /\ V(a) \in Group /\ made[a] >= 1 /\ publisher[a].active = made[a] /\ G(a) = V(a)
<1>1. host[a] \in Calls /\ host[a][1] = Caller[a] /\ host[a] \notin Browser
  BY DEF Types, Hosting
<1>2. made[a] \in 0..MaxInvocations /\ made[a] >= 1 /\ publisher[a].active = made[a]
  BY DEF Types, Books
<1>3. V(a) \in Group /\ G(a) = V(a)
  BY <1>2 DEF V, G, Group
<1> QED
  BY <1>1, <1>2, <1>3

\* Delegates at work are under the entry agent, at work too.
LEMMA UnderEntry ==
  ASSUME Types, Hosting, Stated, Grounded, NEW a \in Agents, Active(a)
  PROVE  /\ run.phase = "working" /\ work[Entry] = "acting"
         /\ \E c \in Calls : c[1] = Entry /\ call[c] = "running"
<1> DEFINE S == {b \in Agents : Active(b)}
<1>1. PICK b \in S : Caller[b] \notin S
  BY DEF Grounded
<1>2. host[b] \in Calls /\ call[host[b]] = "running" /\ host[b][1] = Caller[b]
  BY <1>1 DEF Types, Hosting, Active
<1>3. work[Caller[b]] = "acting" /\ Caller[b] \in Workers
  BY <1>1, <1>2, SubagentStreamAssumption DEF Stated
<1>4. Caller[b] = Entry
  BY <1>1, <1>3 DEF Active, Workers
<1> QED
  BY <1>2, <1>3, <1>4 DEF Stated

\* The workers are as they were.
LEMMA WorkersKept ==
  ASSUME Working, UNCHANGED <<workers, publisher>>,
         run' \in [no : 0..MaxRuns, phase : {"idle", "working", "finishing"}, said : Nat],
         (run'.phase = "working") = (run.phase = "working")
  PROVE  Working'
<1>1. Types'
  BY DEF Working, Types, workers
<1>2. Hosting' /\ Stated'
  BY DEF Working, Hosting, Stated, Active, workers
<1>3. Raised'
  BY DEF Working, Raised, Passed, workers
<1>4. Grounded'
  BY DEF Working, Grounded, Active, workers
<1>5. Books'
  BY DEF Working, Books, Active, V, workers
<1> QED
  BY <1>1, <1>2, <1>3, <1>4, <1>5 DEF Working

\* A call of a worker that goes on changes, and does not start or stop waiting.
LEMMA CallsGoOn ==
  ASSUME Working, UNCHANGED <<run, host, asks, answered, made, errors, truth, retried, publisher>>,
         work' \in [Workers -> {"idle", "thinking", "acting", "paused"}],
         call' \in [Calls -> {"none", "streaming", "called", "running", "returned", "waiting",
                              "over", "lost"}],
         \A w \in Workers : work'[w] = work[w]
                            \/ /\ work[w] \in {"thinking", "acting"}
                               /\ work'[w] \in {"thinking", "acting"},
         \A c \in Calls : call'[c] = "waiting" <=> call[c] = "waiting",
         \A a \in Agents : /\ Active(a) => call'[host[a]] = "running"
                           /\ work[a] = "paused" => call'[host[a]] \in {"waiting", "called", "running"},
         \A c \in Calls :
           /\ call'[c] \in {"called", "running", "returned"} => work'[c[1]] = "acting"
           /\ call'[c] = "waiting" => work'[c[1]] \in {"acting", "paused"}
           /\ call'[c] = "streaming" => work'[c[1]] = "thinking"
           /\ call'[c] \in {"streaming", "lost"} => c[1] # Entry
           /\ call'[c] = "none" \/ (call'[c] = "called" /\ c[1] = Entry) => asks[c] = None
  PROVE  Working'
<1>1. Types'
  BY DEF Working, Types
<1>2. /\ \A a \in Agents : Active(a)' <=> Active(a)
      /\ \A w \in Workers : /\ work'[w] = "idle" <=> work[w] = "idle"
                            /\ work'[w] = "paused" <=> work[w] = "paused"
      /\ work'[Entry] \in {"thinking", "acting"} <=> work[Entry] \in {"thinking", "acting"}
  BY AgentNotEntry DEF Active
<1>3. Hosting'
  BY <1>2, AgentNotEntry DEF Working, Hosting
<1>4. Stated'
  BY <1>2 DEF Working, Stated
<1>5. Raised'
  <2>1. ASSUME NEW c \in Calls, call'[c] = "waiting"
        PROVE  asks'[c] \in Calls /\ call'[asks'[c]] = "waiting" /\ Passed(c)'
    <3>1. asks[c] \in Calls /\ call[asks[c]] = "waiting" /\ Passed(c)
      BY <2>1 DEF Working, Raised
    <3>2. CASE asks[c] = c
      BY <2>1, <3>1, <3>2 DEF Passed
    <3>3. ASSUME NEW P \in SUBSET Agents, asks[c][1] \in P,
                 \A b \in P : /\ work[b] = "paused" /\ call[host[b]] = "waiting"
                              /\ host[b] = c \/ host[b][1] \in P
          PROVE  Passed(c)'
      <4>1. \A b \in P : host[b] \in Calls
        BY <3>3, AtWork DEF Working
      <4>2. \A b \in P : /\ work'[b] = "paused" /\ call'[host[b]] = "waiting"
                         /\ host[b] = c \/ host[b][1] \in P
        BY <1>2, <3>3, <4>1, AgentNotEntry
      <4> QED
        BY <3>3, <4>2 DEF Passed
    <3> QED
      BY <3>1, <3>2, <3>3 DEF Passed
  <2> QED
    BY <2>1 DEF Raised
<1>6. Grounded'
  BY <1>2 DEF Working, Grounded
<1>7. Books'
  BY <1>2, AgentNotEntry, GroupFields DEF Working, Books, V
<1> QED
  BY <1>1, <1>3, <1>4, <1>5, <1>6, <1>7 DEF Working

\* Each of the steps in which calls go on.
LEMMA WritesWorking ==
  ASSUME Working, NEW a \in Agents, NEW c \in Calls, NEW written \in BOOLEAN, Writes(a, c, written)
  PROVE  Working'
<1>1. /\ work[a] = "thinking" /\ c[1] = a /\ call[c] \in {"none", "streaming"}
      /\ call' = [call EXCEPT ![c] = "streaming"]
      /\ UNCHANGED <<run, work, host, asks, answered, made, errors, truth, retried, publisher>>
  BY DEF Writes, NextCall
<1>2. /\ call' \in [Calls -> {"none", "streaming", "called", "running", "returned", "waiting",
                              "over", "lost"}]
      /\ \A d \in Calls : d # c => call'[d] = call[d]
      /\ call'[c] = "streaming"
  BY <1>1 DEF Working, Types
<1>3. \A b \in Agents : work[b] # "idle" => host[b] \in Calls
  BY AtWork DEF Working
<1>4. \A b \in Agents : /\ Active(b) => call'[host[b]] = "running"
                        /\ work[b] = "paused" => call'[host[b]] \in {"waiting", "called", "running"}
  BY <1>1, <1>2, <1>3 DEF Working, Hosting, Active
<1>5. \A d \in Calls :
        /\ call'[d] \in {"called", "running", "returned"} => work'[d[1]] = "acting"
        /\ call'[d] = "waiting" => work'[d[1]] \in {"acting", "paused"}
        /\ call'[d] = "streaming" => work'[d[1]] = "thinking"
        /\ call'[d] \in {"streaming", "lost"} => d[1] # Entry
        /\ call'[d] = "none" \/ (call'[d] = "called" /\ d[1] = Entry) => asks[d] = None
  BY <1>1, <1>2, AgentNotEntry DEF Working, Stated
<1> QED
  BY <1>1, <1>2, <1>4, <1>5, CallsGoOn DEF Working, Types

LEMMA EndsTurnWorking ==
  ASSUME Working, NEW x \in Workers, NEW whole \in SUBSET CallsOf(x), EndsTurn(x, whole)
  PROVE  Working'
<1> DEFINE gone == InState(x, {"streaming"}) \cup whole
<1>1. /\ work[x] = "thinking" /\ work' = [work EXCEPT ![x] = "acting"]
      /\ \A c \in whole : c[1] = x /\ call[c] = "none"
      /\ \A c \in Calls : call'[c] = IF c \in gone THEN "called" ELSE call[c]
      /\ call' = [c \in Calls |-> IF c \in gone THEN "called" ELSE call[c]]
      /\ UNCHANGED <<run, host, asks, answered, made, errors, truth, retried, publisher>>
  BY DEF EndsTurn, NextCall
<1>2. \A c \in gone : c \in Calls /\ c[1] = x /\ call[c] \in {"none", "streaming"}
  BY <1>1 DEF InState, CallsOf
<1>3. call' \in [Calls -> {"none", "streaming", "called", "running", "returned", "waiting",
                           "over", "lost"}]
  BY <1>1 DEF Working, Types
<1>4. \A c \in Calls : c[1] = x /\ call[c] = "streaming" => c \in gone
  BY DEF InState, CallsOf
<1> HIDE DEF gone
<1>5. /\ work' \in [Workers -> {"idle", "thinking", "acting", "paused"}] /\ work'[x] = "acting"
      /\ \A w \in Workers : w # x => work'[w] = work[w]
  BY <1>1 DEF Working, Types
<1>6. \A b \in Agents : work[b] # "idle" => host[b] \in Calls
  BY AtWork DEF Working
<1>7. \A b \in Agents : /\ Active(b) => call'[host[b]] = "running"
                        /\ work[b] = "paused" => call'[host[b]] \in {"waiting", "called", "running"}
  BY <1>1, <1>2, <1>6 DEF Working, Hosting, Active
<1>8. ASSUME NEW d \in Calls
      PROVE  /\ call'[d] \in {"called", "running", "returned"} => work'[d[1]] = "acting"
             /\ call'[d] = "waiting" => work'[d[1]] \in {"acting", "paused"}
             /\ call'[d] = "streaming" => work'[d[1]] = "thinking"
             /\ call'[d] \in {"streaming", "lost"} => d[1] # Entry
             /\ call'[d] = "none" \/ (call'[d] = "called" /\ d[1] = Entry) => asks[d] = None
  <2>1. d[1] \in Workers
    BY CallFields
  <2>2. CASE d \in gone
    BY <1>1, <1>2, <1>5, <2>2 DEF Working, Stated
  <2>3. CASE d \notin gone
    BY <1>1, <1>4, <1>5, <2>1, <2>3 DEF Working, Stated
  <2> QED
    BY <2>2, <2>3
<1>9. \A c \in Calls : call'[c] = "waiting" <=> call[c] = "waiting"
  BY <1>1, <1>2
<1>10. \A w \in Workers : \/ work'[w] = work[w]
                          \/ /\ work[w] \in {"thinking", "acting"}
                             /\ work'[w] \in {"thinking", "acting"}
  BY <1>1, <1>5
<1> QED
  BY <1>1, <1>3, <1>5, <1>7, <1>8, <1>9, <1>10, CallsGoOn

LEMMA StartsToolWorking ==
  ASSUME Working, NEW x \in Workers, NEW c \in CallsOf(x), StartsTool(x, c)
  PROVE  Working'
<1>1. /\ c \in Calls /\ c[1] = x /\ call[c] = "called" /\ call' = [call EXCEPT ![c] = "running"]
      /\ UNCHANGED <<run, work, host, asks, answered, made, errors, truth, retried, publisher>>
  BY DEF StartsTool, CallsOf
<1>2. /\ call' \in [Calls -> {"none", "streaming", "called", "running", "returned", "waiting",
                              "over", "lost"}]
      /\ \A d \in Calls : d # c => call'[d] = call[d]
      /\ call'[c] = "running"
  BY <1>1 DEF Working, Types
<1>3. \A b \in Agents : work[b] # "idle" => host[b] \in Calls
  BY AtWork DEF Working
<1>4. \A b \in Agents : /\ Active(b) => call'[host[b]] = "running"
                        /\ work[b] = "paused" => call'[host[b]] \in {"waiting", "called", "running"}
  BY <1>1, <1>2, <1>3 DEF Working, Hosting, Active
<1>5. \A d \in Calls :
        /\ call'[d] \in {"called", "running", "returned"} => work'[d[1]] = "acting"
        /\ call'[d] = "waiting" => work'[d[1]] \in {"acting", "paused"}
        /\ call'[d] = "streaming" => work'[d[1]] = "thinking"
        /\ call'[d] \in {"streaming", "lost"} => d[1] # Entry
        /\ call'[d] = "none" \/ (call'[d] = "called" /\ d[1] = Entry) => asks[d] = None
  BY <1>1, <1>2 DEF Working, Stated
<1> QED
  BY <1>1, <1>2, <1>4, <1>5, CallsGoOn DEF Working, Types

LEMMA EndsToolWorking ==
  ASSUME Working, NEW x \in Workers, NEW c \in CallsOf(x), EndsTool(x, c)
  PROVE  Working'
<1>1. /\ c \in Calls /\ c[1] = x
      /\ call[c] = "returned" \/ (call[c] = "running" /\ Hosted(c) = {})
      /\ call' = [call EXCEPT ![c] = "over"]
      /\ UNCHANGED <<run, work, host, asks, answered, made, errors, truth, retried, publisher>>
  BY DEF EndsTool, CallsOf
<1>2. /\ call' \in [Calls -> {"none", "streaming", "called", "running", "returned", "waiting",
                              "over", "lost"}]
      /\ \A d \in Calls : d # c => call'[d] = call[d]
      /\ call'[c] = "over"
  BY <1>1 DEF Working, Types
<1>3. \A b \in Agents : work[b] # "idle" => host[b] \in Calls
  BY AtWork DEF Working
<1>4. \A b \in Agents : /\ Active(b) => call'[host[b]] = "running"
                        /\ work[b] = "paused" => call'[host[b]] \in {"waiting", "called", "running"}
  BY <1>1, <1>2, <1>3 DEF Working, Hosting, Active, Hosted
<1>5. \A d \in Calls :
        /\ call'[d] \in {"called", "running", "returned"} => work'[d[1]] = "acting"
        /\ call'[d] = "waiting" => work'[d[1]] \in {"acting", "paused"}
        /\ call'[d] = "streaming" => work'[d[1]] = "thinking"
        /\ call'[d] \in {"streaming", "lost"} => d[1] # Entry
        /\ call'[d] = "none" \/ (call'[d] = "called" /\ d[1] = Entry) => asks[d] = None
  BY <1>1, <1>2 DEF Working, Stated
<1> QED
  BY <1>1, <1>2, <1>4, <1>5, CallsGoOn DEF Working, Types

LEMMA NextTurnWorking ==
  ASSUME Working, NEW x \in Workers, NextTurn(x)
  PROVE  Working'
<1>1. /\ work[x] = "acting" /\ work' = [work EXCEPT ![x] = "thinking"]
      /\ \A c \in Calls : c[1] = x => call[c] \notin {"called", "running", "returned", "waiting"}
      /\ UNCHANGED <<run, call, host, asks, answered, made, errors, truth, retried, publisher>>
  BY DEF NextTurn, InState, CallsOf
<1>2. /\ work' \in [Workers -> {"idle", "thinking", "acting", "paused"}] /\ work'[x] = "thinking"
      /\ \A w \in Workers : w # x => work'[w] = work[w]
  BY <1>1 DEF Working, Types
<1>3. \A d \in Calls :
        /\ call'[d] \in {"called", "running", "returned"} => work'[d[1]] = "acting"
        /\ call'[d] = "waiting" => work'[d[1]] \in {"acting", "paused"}
        /\ call'[d] = "streaming" => work'[d[1]] = "thinking"
        /\ call'[d] \in {"streaming", "lost"} => d[1] # Entry
        /\ call'[d] = "none" \/ (call'[d] = "called" /\ d[1] = Entry) => asks[d] = None
  BY <1>1, <1>2, CallFields DEF Working, Stated
<1>4. \A w \in Workers : \/ work'[w] = work[w]
                         \/ /\ work[w] \in {"thinking", "acting"}
                            /\ work'[w] \in {"thinking", "acting"}
  BY <1>1, <1>2
<1>5. \A b \in Agents : /\ Active(b) => call'[host[b]] = "running"
                        /\ work[b] = "paused" => call'[host[b]] \in {"waiting", "called", "running"}
  BY <1>1 DEF Working, Hosting
<1> QED
  BY <1>1, <1>2, <1>3, <1>4, <1>5, CallsGoOn DEF Working, Types

\* Requests stay raised, but those of the calls of K, none of whose workers is paused.
LEMMA RaisedKept ==
  ASSUME Working, NEW K,
         \A b \in Agents \cap K : ~(work[b] = "paused" /\ call[host[b]] = "waiting"),
         \A c \in Calls : call[c] = "waiting" /\ c[1] \notin K
                            => call'[c] = "waiting" /\ asks'[c] = asks[c],
         \A b \in Agents : work[b] = "paused" /\ call[host[b]] = "waiting" /\ host[b][1] \notin K
                             => work'[b] = "paused" /\ host'[b] = host[b],
         NEW c \in Calls, call[c] = "waiting", c[1] \notin K
  PROVE  asks'[c] \in Calls /\ call'[asks'[c]] = "waiting" /\ Passed(c)'
<1>1. asks[c] \in Calls /\ call[asks[c]] = "waiting" /\ Passed(c) /\ asks'[c] = asks[c]
  BY DEF Working, Raised
<1>2. CASE asks[c] = c
  BY <1>1, <1>2 DEF Passed
<1>3. ASSUME NEW P \in SUBSET Agents, asks[c][1] \in P,
             \A b \in P : /\ work[b] = "paused" /\ call[host[b]] = "waiting"
                          /\ host[b] = c \/ host[b][1] \in P
      PROVE  call'[asks'[c]] = "waiting" /\ Passed(c)'
  <2>1. \A b \in P : b \notin K
    BY <1>3
  <2>2. \A b \in P : host[b] \in Calls /\ host[b][1] \notin K
    BY <1>3, <2>1, AtWork DEF Working
  <2>3. \A b \in P : /\ work'[b] = "paused" /\ call'[host'[b]] = "waiting"
                     /\ host'[b] = c \/ host'[b][1] \in P
    BY <1>3, <2>2
  <2>4. asks'[c][1] \in P
    BY <1>1, <1>3
  <2> QED
    BY <1>1, <1>3, <2>1, <2>3, <2>4 DEF Passed
<1> QED
  BY <1>1, <1>2, <1>3 DEF Passed

\* A run starts, and is over.
LEMMA StartRunWorking ==
  ASSUME Working, StartRun
  PROVE  Working'
<1> DEFINE resumed == InState(Entry, {"waiting"})
<1>1. /\ run.phase = "idle" /\ run' = [run EXCEPT !.no = @ + 1, !.phase = "working"] /\ run.no < MaxRuns
      /\ work' = [work EXCEPT ![Entry] = IF resumed = {} THEN "thinking" ELSE "acting"]
      /\ call' = [c \in Calls |-> IF c \in resumed THEN "running" ELSE call[c]]
      /\ answered' = answered \cup {asks[c] : c \in resumed}
      /\ UNCHANGED <<host, asks, made, errors, truth, retried, publisher>>
  BY DEF StartRun
<1>2. \A c \in Calls : c \in resumed <=> c[1] = Entry /\ call[c] = "waiting"
  BY DEF InState, CallsOf
<1>2a. resumed \subseteq Calls
  BY DEF InState, CallsOf
<1> HIDE DEF resumed
<1>3. work[Entry] \notin {"thinking", "acting"}
  BY <1>1 DEF Working, Stated
<1>4. /\ work' \in [Workers -> {"idle", "thinking", "acting", "paused"}]
      /\ work'[Entry] \in {"thinking", "acting"}
      /\ resumed # {} => work'[Entry] = "acting"
      /\ \A w \in Workers : w # Entry => work'[w] = work[w]
  BY <1>1, AgentNotEntry DEF Working, Types
<1>5. Types'
  <2>0. MaxRuns \in Nat
    BY SubagentStreamAssumption
  <2>1. run' \in [no : 0..MaxRuns, phase : {"idle", "working", "finishing"}, said : Nat]
    <3>1. run = [no |-> run.no, phase |-> run.phase, said |-> run.said] /\ run.no \in 0..MaxRuns
          /\ run.said \in Nat
      BY DEF Working, Types
    <3>2. run' = [no |-> run.no + 1, phase |-> "working", said |-> run.said]
      BY <1>1, <3>1
    <3>3. run.no + 1 \in 0..MaxRuns
      BY <1>1, <2>0, <3>1
    <3> QED
      BY <3>1, <3>2, <3>3
  <2>2. call' \in [Calls -> {"none", "streaming", "called", "running", "returned", "waiting",
                             "over", "lost"}]
    BY <1>1 DEF Working, Types
  <2>3. answered' \subseteq Calls
    BY <1>1, <1>2, <1>2a DEF Working, Types, Raised
  <2> QED
    BY <1>1, <1>4, <2>1, <2>2, <2>3 DEF Working, Types
<1>6. \A a \in Agents : (Active(a)' <=> Active(a)) /\ work'[a] = work[a]
  BY <1>4, AgentNotEntry DEF Active
<1>7. Hosting'
  <2>1. \A c \in Calls : call'[c] = IF c \in resumed THEN "running" ELSE call[c]
    BY <1>1
  <2>2. \A a \in Agents : work[a] # "idle" => host[a] \in Calls
    BY AtWork DEF Working
  <2> QED
    BY <1>1, <1>2, <1>6, <2>1, <2>2 DEF Working, Hosting, Active
<1>8. Stated'
  <2>1. ASSUME NEW c \in Calls
        PROVE  /\ call'[c] \in {"called", "running", "returned"} => work'[c[1]] = "acting"
               /\ call'[c] = "waiting" => work'[c[1]] \in {"acting", "paused"}
               /\ call'[c] = "streaming" => work'[c[1]] = "thinking"
               /\ call'[c] \in {"streaming", "lost"} => c[1] # Entry
               /\ call'[c] = "none" \/ (call'[c] = "called" /\ c[1] = Entry) => asks'[c] = None
    <3>1. call'[c] = (IF c \in resumed THEN "running" ELSE call[c]) /\ c[1] \in Workers
      BY <1>1, CallFields
    <3>2. CASE c \in resumed
      BY <1>2, <1>4, <3>1, <3>2 
    <3>3. CASE c \notin resumed
      BY <1>1, <1>2, <1>3, <1>4, <3>1, <3>3 DEF Working, Stated
    <3> QED
      BY <3>2, <3>3
  <2>2. run'.phase = "working"
    BY <1>1 DEF Working, Types
  <2> QED
    BY <1>4, <2>1, <2>2 DEF Stated
<1>9. Raised'
  <2>1. ASSUME NEW c \in Calls, call'[c] = "waiting"
        PROVE  asks'[c] \in Calls /\ call'[asks'[c]] = "waiting" /\ Passed(c)'
    <3>1. call[c] = "waiting" /\ c[1] \notin {Entry}
      BY <1>1, <1>2, <2>1
    <3>2. \A b \in Agents \cap {Entry} : ~(work[b] = "paused" /\ call[host[b]] = "waiting")
      BY AgentNotEntry
    <3>3. \A d \in Calls : call[d] = "waiting" /\ d[1] \notin {Entry}
                             => call'[d] = "waiting" /\ asks'[d] = asks[d]
      BY <1>1, <1>2
    <3>4. \A b \in Agents : work[b] = "paused" /\ call[host[b]] = "waiting" /\ host[b][1] \notin {Entry}
                              => work'[b] = "paused" /\ host'[b] = host[b]
      BY <1>1, <1>6
    <3> QED
      BY <3>1, <3>2, <3>3, <3>4, RaisedKept
  <2> QED
    BY <2>1 DEF Raised
<1>10. Grounded' /\ Books'
  BY <1>1, <1>6, GroupFields DEF Working, Grounded, Books, V
<1> QED
  BY <1>5, <1>7, <1>8, <1>9, <1>10 DEF Working

LEMMA EndsWorking ==
  ASSUME Working, Ends
  PROVE  Working'
<1>1. /\ run.phase = "working" /\ run' = [run EXCEPT !.phase = "finishing"]
      /\ \A c \in Calls : c[1] = Entry => call[c] \notin {"called", "running", "returned"}
      /\ work' = [work EXCEPT ![Entry] =
                    IF InState(Entry, {"waiting"}) = {} THEN "idle" ELSE "paused"]
      /\ UNCHANGED <<call, host, asks, answered, made, errors, truth, retried, publisher>>
  <2>1. \A c \in Calls : c[1] = Entry /\ work[Entry] = "thinking"
                           => call[c] \notin {"called", "running", "returned"}
    BY DEF Working, Stated
  <2>2. InState(Entry, {"called", "running", "returned"}) = {}
          => \A c \in Calls : c[1] = Entry => call[c] \notin {"called", "running", "returned"}
    BY DEF InState, CallsOf
  <2> QED
    BY <2>1, <2>2 DEF Ends
<1>2. /\ work' \in [Workers -> {"idle", "thinking", "acting", "paused"}]
      /\ work'[Entry] \in {"idle", "paused"}
      /\ (\E c \in Calls : c[1] = Entry /\ call[c] = "waiting") => work'[Entry] = "paused"
      /\ \A w \in Workers : w # Entry => work'[w] = work[w]
  BY <1>1, AgentNotEntry DEF Working, Types, InState, CallsOf
<1>3. \A a \in Agents : (Active(a)' <=> Active(a)) /\ work'[a] = work[a]
  BY <1>2, AgentNotEntry DEF Active
<1>4. Types'
  BY <1>1, <1>2 DEF Working, Types
<1>5. Hosting' /\ Grounded' /\ Books'
  BY <1>1, <1>3, GroupFields DEF Working, Hosting, Grounded, Books, V
<1>6. Stated'
  <2>1. run'.phase = "finishing"
    BY <1>1 DEF Working, Types
  <2>2. ASSUME NEW c \in Calls
        PROVE  /\ call[c] \in {"called", "running", "returned"} => work'[c[1]] = "acting"
               /\ call[c] = "waiting" => work'[c[1]] \in {"acting", "paused"}
               /\ call[c] = "streaming" => work'[c[1]] = "thinking"
               /\ call[c] \in {"streaming", "lost"} => c[1] # Entry
               /\ call[c] = "none" \/ (call[c] = "called" /\ c[1] = Entry) => asks[c] = None
    <3>1. c[1] \in Workers
      BY CallFields
    <3>2. CASE c[1] = Entry
      BY <1>1, <1>2, <3>2 DEF Working, Stated
    <3>3. CASE c[1] # Entry
      BY <1>2, <3>1, <3>3 DEF Working, Stated
    <3> QED
      BY <3>2, <3>3
  <2> QED
    BY <1>1, <1>2, <2>1, <2>2 DEF Stated
<1>7. Raised'
  <2>1. ASSUME NEW c \in Calls, call[c] = "waiting"
        PROVE  asks'[c] \in Calls /\ call'[asks'[c]] = "waiting" /\ Passed(c)'
    <3>1. \A b \in Agents \cap {} : ~(work[b] = "paused" /\ call[host[b]] = "waiting")
      OBVIOUS
    <3>2. \A d \in Calls : call[d] = "waiting" /\ d[1] \notin {}
                             => call'[d] = "waiting" /\ asks'[d] = asks[d]
      BY <1>1
    <3>3. \A b \in Agents : work[b] = "paused" /\ call[host[b]] = "waiting" /\ host[b][1] \notin {}
                              => work'[b] = "paused" /\ host'[b] = host[b]
      BY <1>1, <1>3
    <3>4. c[1] \notin {}
      OBVIOUS
    <3> QED
      BY <2>1, <3>1, <3>2, <3>3, <3>4, RaisedKept
  <2> QED
    BY <1>1, <2>1 DEF Raised
<1> QED
  BY <1>4, <1>5, <1>6, <1>7 DEF Working

States == {"none", "streaming", "called", "running", "returned", "waiting", "over", "lost"}

\* A delegate begins under a worker that acts: some delegate's caller is not at work.
LEMMA GroundedWith ==
  ASSUME Working, NEW a \in Agents, ~Active(a),
         \A b \in Agents : Active(b)' => b = a \/ Active(b),
         NEW c \in Calls, call[c] = "running", c[1] = Caller[a]
  PROVE  Grounded'
<1>1. ASSUME NEW S \in SUBSET Agents, S # {}, \A b \in S : Active(b)'
      PROVE  \E b \in S : Caller[b] \notin S
  <2> DEFINE T == S \ {a}
  <2>1. T \subseteq Agents /\ \A b \in T : Active(b)
    BY <1>1
  <2>2. CASE T = {}
    <3>1. S = {a} /\ work[c[1]] = "acting"
      BY <1>1, <2>2 DEF Working, Stated
    <3>2. Caller[a] # a
      BY <3>1 DEF Active
    <3> QED
      BY <3>1, <3>2
  <2>3. CASE T # {}
    <3>1. PICK b \in T : Caller[b] \notin T
      BY <2>1, <2>3 DEF Working, Grounded
    <3>2. host[b] \in Calls /\ host[b][1] = Caller[b] /\ call[host[b]] = "running"
      BY <2>1, AtWork DEF Active, Working, Hosting
    <3>3. work[Caller[b]] = "acting"
      BY <3>2 DEF Working, Stated
    <3>4. Caller[b] # a
      BY <3>3 DEF Active
    <3> QED
      BY <3>1, <3>4
  <2> QED
    BY <2>2, <2>3
<1> QED
  BY <1>1 DEF Grounded

\* Nor where no delegate begins.
LEMMA GroundedLess ==
  ASSUME Working, \A b \in Agents : Active(b)' => Active(b)
  PROVE  Grounded'
  BY DEF Working, Grounded

\* A delegate begins a new invocation.
LEMMA BeginsWorking ==
  ASSUME Working, NEW a \in Agents, NEW c \in Calls, Begins(a, c)
  PROVE  /\ Working' /\ made'[a] = made[a] + 1 /\ V(a)' \in Group
         /\ publisher[a].count + 1 = made'[a]
<1> DEFINE n == made[a] + 1
<1>1. /\ work[a] = "idle" /\ call[c] = "running" /\ c[1] = Caller[a] /\ c \notin Browser
      /\ Hosted(c) = {} /\ made[a] < MaxInvocations
      /\ work' = [work EXCEPT ![a] = "thinking"] /\ host' = [host EXCEPT ![a] = c]
      /\ made' = [made EXCEPT ![a] = @ + 1]
      /\ truth' = [truth EXCEPT ![<<a, made'[a]>>] = "working"]
      /\ publisher' = [publisher EXCEPT ![a] =
             [count |-> @.count + 1, active |-> @.count + 1, errored |-> FALSE]]
      /\ UNCHANGED <<run, call, asks, answered, errors, retried>>
  BY DEF Begins
<1>2. /\ made[a] \in 0..MaxInvocations /\ MaxInvocations \in Nat /\ n \in 1..MaxInvocations
      /\ made'[a] = n /\ \A b \in Agents \ {a} : made'[b] = made[b]
      /\ made' \in [Agents -> 0..MaxInvocations]
  BY <1>1, SubagentStreamAssumption DEF Working, Types
<1> HIDE DEF n
<1>3. /\ <<a, n>> \in Group /\ V(a)' = <<a, n>>
      /\ \A b \in Agents \ {a} : V(b)' = V(b) /\ V(b) # <<a, n>>
  BY <1>2 DEF Group, V
<1>4. /\ truth' \in [Group -> {"none", "working", "paused", "done", "failed"}]
      /\ truth'[<<a, n>>] = "working" /\ \A v \in Group : v # <<a, n>> => truth'[v] = truth[v]
  BY <1>1, <1>2, <1>3 DEF Working, Types
<1>5. /\ work' \in [Workers -> {"idle", "thinking", "acting", "paused"}] /\ work'[a] = "thinking"
      /\ \A w \in Workers : w # a => work'[w] = work[w]
      /\ host' \in [Agents -> Calls \cup {None}] /\ host'[a] = c
      /\ \A b \in Agents \ {a} : host'[b] = host[b]
      /\ a # Entry
  BY <1>1, AgentNotEntry DEF Working, Types
<1>6. /\ publisher' \in [Agents -> [count : Nat, active : Nat, errored : BOOLEAN]]
      /\ publisher'[a].count = n /\ publisher'[a].active = n /\ ~publisher'[a].errored
      /\ \A b \in Agents \ {a} : publisher'[b] = publisher[b]
      /\ publisher[a].count + 1 = n
  <2>1. publisher[a].count = made[a] /\ publisher[a].count + 1 = n /\ n \in Nat
    BY <1>2 DEF Working, Books, n
  <2>2. publisher' = [publisher EXCEPT ![a] = [count |-> n, active |-> n, errored |-> FALSE]]
    BY <1>1, <2>1
  <2>3. publisher \in [Agents -> [count : Nat, active : Nat, errored : BOOLEAN]]
    BY DEF Working, Types
  <2> QED
    BY <2>1, <2>2, <2>3
<1>7. Types'
  BY <1>1, <1>2, <1>4, <1>5, <1>6 DEF Working, Types
<1>8. \A b \in Agents : b # a => (Active(b)' <=> Active(b)) /\ work'[b] = work[b]
  BY <1>5, AgentNotEntry DEF Active
<1>9. c # None /\ \A b \in Agents : host[b] # c
  BY <1>1, CallFields DEF Hosted
<1>10. Hosting'
  <2>1. ASSUME NEW b \in Agents, b # a
        PROVE  /\ host'[b] = None <=> work'[b] = "idle"
               /\ host'[b] # None => host'[b][1] = Caller[b] /\ host'[b] \notin Browser
               /\ Active(b)' => call'[host'[b]] = "running"
               /\ work'[b] = "paused" => call'[host'[b]] \in {"waiting", "called", "running"}
               /\ \A d \in Agents : host'[b] # None /\ host'[b] = host'[d] => b = d
    BY <1>1, <1>5, <1>8, <1>9, <2>1 DEF Working, Hosting
  <2>2. /\ host'[a] = None <=> work'[a] = "idle"
        /\ host'[a] # None => host'[a][1] = Caller[a] /\ host'[a] \notin Browser
        /\ Active(a)' => call'[host'[a]] = "running"
        /\ work'[a] = "paused" => call'[host'[a]] \in {"waiting", "called", "running"}
        /\ \A d \in Agents : host'[a] # None /\ host'[a] = host'[d] => a = d
    BY <1>1, <1>5, <1>9
  <2> QED
    BY <2>1, <2>2 DEF Hosting
<1>11. Stated'
  BY <1>1, <1>5, CallFields, AgentNotEntry DEF Working, Stated
<1>12. Raised'
  <2>1. ASSUME NEW d \in Calls, call'[d] = "waiting"
        PROVE  asks'[d] \in Calls /\ call'[asks'[d]] = "waiting" /\ Passed(d)'
    <3>1. \A b \in Agents \cap {} : ~(work[b] = "paused" /\ call[host[b]] = "waiting")
      OBVIOUS
    <3>2. \A e \in Calls : call[e] = "waiting" /\ e[1] \notin {}
                             => call'[e] = "waiting" /\ asks'[e] = asks[e]
      BY <1>1
    <3>3. \A b \in Agents : work[b] = "paused" /\ call[host[b]] = "waiting" /\ host[b][1] \notin {}
                              => work'[b] = "paused" /\ host'[b] = host[b]
      BY <1>1, <1>5, <1>8
    <3>4. d[1] \notin {} /\ call[d] = "waiting"
      BY <1>1, <2>1
    <3> QED
      BY <3>1, <3>2, <3>3, <3>4, RaisedKept
  <2> QED
    BY <2>1 DEF Raised
<1>13. Grounded'
  BY <1>1, <1>8, GroundedWith DEF Active
<1>14. Books'
  <2>1. \A b \in Agents : b # a =>
          /\ publisher'[b].count = made'[b] /\ publisher'[b].active <= made'[b]
          /\ work'[b] # "idle" => publisher'[b].active = made'[b] /\ made'[b] >= 1
          /\ Active(b)' => truth'[V(b)'] = "working" /\ (publisher'[b].errored => V(b)' \in retried')
          /\ work'[b] = "paused" => truth'[V(b)'] = "paused"
    <3>1. ASSUME NEW b \in Agents, b # a, work[b] # "idle"
          PROVE  truth'[V(b)'] = truth[V(b)]
      BY <1>3, <1>4, <3>1, AtWork DEF Working
    <3>2. \A b \in Agents : b # a => work'[b] = work[b] /\ (Active(b)' <=> Active(b))
                                     /\ (Active(b) => work[b] # "idle")
      BY <1>8 DEF Active
    <3> QED
      BY <1>1, <1>2, <1>3, <1>6, <3>1, <3>2 DEF Working, Books
  <2>2. /\ publisher'[a].count = made'[a] /\ publisher'[a].active <= made'[a]
        /\ work'[a] # "idle" => publisher'[a].active = made'[a] /\ made'[a] >= 1
        /\ Active(a)' => truth'[V(a)'] = "working" /\ (publisher'[a].errored => V(a)' \in retried')
        /\ work'[a] = "paused" => truth'[V(a)'] = "paused"
    BY <1>2, <1>3, <1>4, <1>5, <1>6
  <2>3. ASSUME NEW v \in Group
        PROVE  /\ truth'[v] = "working" => v = V(v[1])' /\ Active(v[1])'
               /\ truth'[v] = "paused" => v = V(v[1])' /\ work'[v[1]] = "paused"
               /\ truth'[v] = "none" <=> v[2] > made'[v[1]]
    <3>1. v = <<v[1], v[2]>> /\ v[1] \in Agents /\ v[2] \in 1..MaxInvocations
      BY GroupFields
    <3>2. CASE v = <<a, n>>
      BY <1>2, <1>3, <1>4, <1>5, <3>2 DEF Active
    <3>3. CASE v # <<a, n>> /\ v[1] = a
      <4>1. truth'[v] = truth[v] /\ v[2] # n
        BY <1>4, <3>1, <3>3
      <4>2. truth[v] # "working" /\ truth[v] # "paused"
        BY <1>1, <3>3 DEF Working, Books, Active
      <4>3. truth[v] = "none" <=> v[2] > made[a]
        BY <3>3 DEF Working, Books
      <4>4. v[2] > made[a] <=> v[2] > n
        BY <1>2, <3>1, <4>1 DEF n
      <4> QED
        BY <1>2, <3>3, <4>1, <4>2, <4>3, <4>4
    <3>4. CASE v[1] # a
      <4> DEFINE b == v[1]
      <4>1. b \in Agents /\ b # a
        BY <3>1, <3>4
      <4> HIDE DEF b
      <4>2. V(b)' = V(b) /\ (Active(b)' <=> Active(b)) /\ work'[b] = work[b] /\ made'[b] = made[b]
        BY <1>2, <1>3, <1>8, <4>1
      <4>3. truth'[v] = truth[v]
        BY <1>4, <3>4
      <4> QED
        BY <4>2, <4>3 DEF Working, Books, b
    <3> QED
      BY <3>2, <3>3, <3>4
  <2>4. \A v \in retried' : truth'[v] # "none"
    BY <1>1, <1>4 DEF Working, Books, Types
  <2> QED
    BY <2>1, <2>2, <2>3, <2>4 DEF Books
<1> QED
  BY <1>2, <1>3, <1>6, <1>7, <1>10, <1>11, <1>12, <1>13, <1>14 DEF Working, n

\* An invocation goes on, or is over: the delegate's books follow.
LEMMA BooksKept ==
  ASSUME Working, NEW a \in Agents, work[a] # "idle", NEW x, made' = made,
         retried \subseteq retried', retried' \subseteq retried \cup {V(a)},
         truth' = [truth EXCEPT ![V(a)] = x], x # "none",
         \A b \in Agents \ {a} : work'[b] = work[b] /\ publisher'[b] = publisher[b],
         publisher'[a].count = publisher[a].count, publisher'[a].active = publisher[a].active,
         Active(a)' <=> x = "working", work'[a] = "paused" <=> x = "paused",
         Active(a)' => (publisher'[a].errored => V(a) \in retried')
  PROVE  Books'
<1>1. V(a) \in Group /\ \A b \in Agents : V(b)' = V(b) /\ V(b)[1] = b
  BY AtWork DEF V, Working
<1>2. truth'[V(a)] = x /\ \A v \in Group : v # V(a) => truth'[v] = truth[v]
  BY <1>1 DEF Working, Types
<1>3. \A b \in Agents \ {a} : (Active(b)' <=> Active(b)) /\ (Active(b) => work[b] # "idle")
  BY DEF Active
<1>4. ASSUME NEW b \in Agents
      PROVE  /\ publisher'[b].count = made'[b] /\ publisher'[b].active <= made'[b]
             /\ work'[b] # "idle" => publisher'[b].active = made'[b] /\ made'[b] >= 1
             /\ Active(b)' => truth'[V(b)'] = "working" /\ (publisher'[b].errored => V(b)' \in retried')
             /\ work'[b] = "paused" => truth'[V(b)'] = "paused"
  <2>1. CASE b = a
    BY <1>1, <1>2, <2>1 DEF Working, Books
  <2>2. CASE b # a
    <3>1. work[b] # "idle" => truth'[V(b)'] = truth[V(b)]
      BY <1>1, <1>2, <2>2, AtWork DEF Working
    <3>2. work'[b] = work[b] /\ (Active(b)' <=> Active(b)) /\ (Active(b) => work[b] # "idle")
          /\ publisher'[b] = publisher[b] /\ V(b)' = V(b) /\ V(b) # V(a)
      BY <1>1, <1>3, <2>2
    <3> QED
      BY <2>2, <3>1, <3>2 DEF Working, Books
  <2> QED
    BY <2>1, <2>2
<1>5. ASSUME NEW v \in Group
      PROVE  /\ truth'[v] = "working" => v = V(v[1])' /\ Active(v[1])'
             /\ truth'[v] = "paused" => v = V(v[1])' /\ work'[v[1]] = "paused"
             /\ truth'[v] = "none" <=> v[2] > made'[v[1]]
  <2> DEFINE b == v[1]
  <2>1. v = <<b, v[2]>> /\ b \in Agents /\ v[2] \in Nat
    BY GroupFields
  <2>2. CASE v = V(a)
    <3>1. b = a /\ v[2] = made[a] /\ made[a] \in Nat
      BY <1>1, <2>1, <2>2, SubagentStreamAssumption DEF V, Working, Types
    <3> QED
      BY <1>1, <1>2, <2>2, <3>1
  <2>3. CASE v # V(a)
    <3>1. truth'[v] = truth[v] /\ V(b)' = V(b)
      BY <1>1, <1>2, <2>1, <2>3
    <3>2. b = a => truth[v] # "working" /\ truth[v] # "paused"
      BY <2>3 DEF Working, Books
    <3>3. b # a => (Active(b)' <=> Active(b)) /\ work'[b] = work[b]
      BY <1>3, <2>1
    <3> QED
      BY <2>1, <3>1, <3>2, <3>3 DEF Working, Books
  <2> QED
    BY <2>2, <2>3
<1>6. \A v \in retried' : truth'[v] # "none"
  BY <1>1, <1>2 DEF Working, Books, Types
<1> QED
  BY <1>4, <1>5, <1>6 DEF Books

\* A request goes up, from the calls of a paused delegate to the one it works for.
LEMMA PassesUp ==
  ASSUME Working, NEW a \in Agents, work[a] # "idle", work'[a] = "paused", host' = host,
         NEW w \in Calls, w[1] = a, call[w] = "waiting",
         asks'[host[a]] = asks[w], call'[host[a]] = "waiting",
         \A d \in Calls : call[d] = "waiting" => call'[d] = "waiting",
         \A b \in Agents : work[b] = "paused" => work'[b] = "paused"
  PROVE  asks'[host[a]] \in Calls /\ call'[asks'[host[a]]] = "waiting" /\ Passed(host[a])'
<1>1. host[a] \in Calls
  BY AtWork DEF Working
<1>2. asks[w] \in Calls /\ call[asks[w]] = "waiting" /\ Passed(w)
  BY DEF Working, Raised
<1>3. CASE asks[w] = w
  <2> DEFINE P == {a}
  <2>1. /\ P \in SUBSET Agents /\ asks'[host[a]][1] \in P
        /\ \A b \in P : /\ work'[b] = "paused" /\ call'[host'[b]] = "waiting"
                        /\ host'[b] = host[a] \/ host'[b][1] \in P
    BY <1>3
  <2> HIDE DEF P
  <2> QED
    BY <1>2, <2>1 DEF Passed
<1>4. ASSUME NEW Q \in SUBSET Agents, asks[w][1] \in Q,
             \A b \in Q : /\ work[b] = "paused" /\ call[host[b]] = "waiting"
                          /\ host[b] = w \/ host[b][1] \in Q
      PROVE  Passed(host[a])'
  <2> DEFINE P == Q \cup {a}
  <2>1. \A b \in Q : host[b] \in Calls
    BY <1>4, AtWork DEF Working
  <2>2. /\ P \in SUBSET Agents /\ asks'[host[a]][1] \in P
        /\ \A b \in P : /\ work'[b] = "paused" /\ call'[host'[b]] = "waiting"
                        /\ host'[b] = host[a] \/ host'[b][1] \in P
    BY <1>4, <2>1
  <2> HIDE DEF P
  <2> QED
    BY <2>2 DEF Passed
<1> QED
  BY <1>2, <1>3, <1>4 DEF Passed

\* Requests stay raised where no call that waits changes.
LEMMA RaisedRest ==
  ASSUME Working,
         \A c \in Calls : call[c] = "waiting" => call'[c] = "waiting" /\ asks'[c] = asks[c],
         \A b \in Agents : work[b] = "paused" => work'[b] = "paused" /\ host'[b] = host[b],
         NEW c \in Calls, call[c] = "waiting"
  PROVE  asks'[c] \in Calls /\ call'[asks'[c]] = "waiting" /\ Passed(c)'
<1>1. \A b \in Agents \cap {} : ~(work[b] = "paused" /\ call[host[b]] = "waiting")
  OBVIOUS
<1>2. \A e \in Calls : call[e] = "waiting" /\ e[1] \notin {}
                         => call'[e] = "waiting" /\ asks'[e] = asks[e]
  OBVIOUS
<1>3. \A b \in Agents : work[b] = "paused" /\ call[host[b]] = "waiting" /\ host[b][1] \notin {}
                          => work'[b] = "paused" /\ host'[b] = host[b]
  OBVIOUS
<1>4. c[1] \notin {}
  OBVIOUS
<1> QED
  BY <1>1, <1>2, <1>3, <1>4, RaisedKept

\* A paused delegate goes on.
LEMMA ResumesWorking ==
  ASSUME Working, NEW a \in Agents, Resumes(a)
  PROVE  Working'
<1> DEFINE resumed == InState(a, {"waiting"})
<1>1. /\ work[a] = "paused" /\ call[host[a]] = "running"
      /\ work' = [work EXCEPT ![a] = "acting"] /\ truth' = [truth EXCEPT ![V(a)] = "working"]
      /\ call' = [c \in Calls |-> IF c \in resumed THEN "called" ELSE call[c]]
      /\ publisher' = [publisher EXCEPT ![a].errored = FALSE]
      /\ UNCHANGED <<run, host, asks, answered, made, errors, retried>>
  BY DEF Resumes
<1>2. \A c \in Calls : c \in resumed <=> c[1] = a /\ call[c] = "waiting"
  BY DEF InState, CallsOf
<1> HIDE DEF resumed
<1>3. \A c \in Calls : call'[c] = IF c \in resumed THEN "called" ELSE call[c]
  BY <1>1
<1>4. /\ work' \in [Workers -> {"idle", "thinking", "acting", "paused"}] /\ work'[a] = "acting"
      /\ a # Entry /\ \A w \in Workers : w # a => work'[w] = work[w]
  BY <1>1, AgentNotEntry DEF Working, Types
<1>5. host[a] \in Calls /\ host[a][1] = Caller[a] /\ V(a) \in Group
  BY <1>1, AtWork DEF Working
<1>6. \A b \in Agents : b # a => (Active(b)' <=> Active(b)) /\ work'[b] = work[b]
  BY <1>4, AgentNotEntry DEF Active
<1>7. /\ publisher' \in [Agents -> [count : Nat, active : Nat, errored : BOOLEAN]]
      /\ publisher'[a].count = publisher[a].count /\ publisher'[a].active = publisher[a].active
      /\ ~publisher'[a].errored /\ \A b \in Agents \ {a} : publisher'[b] = publisher[b]
  <2>1. publisher \in [Agents -> [count : Nat, active : Nat, errored : BOOLEAN]]
    BY DEF Working, Types
  <2>2. publisher' = [publisher EXCEPT ![a] = [publisher[a] EXCEPT !.errored = FALSE]]
    BY <1>1
  <2>3. PICK p : p = [publisher[a] EXCEPT !.errored = FALSE]
    OBVIOUS
  <2>4. /\ p \in [count : Nat, active : Nat, errored : BOOLEAN] /\ ~p.errored
        /\ p.count = publisher[a].count /\ p.active = publisher[a].active
    BY <2>1, <2>3
  <2> QED
    BY <2>1, <2>2, <2>3, <2>4
<1>8. Types'
  <2>1. call' \in [Calls -> {"none", "streaming", "called", "running", "returned", "waiting",
                             "over", "lost"}]
    BY <1>1 DEF Working, Types
  <2>2. truth' \in [Group -> {"none", "working", "paused", "done", "failed"}]
    BY <1>1 DEF Working, Types
  <2> QED
    BY <1>1, <1>4, <1>7, <2>1, <2>2 DEF Working, Types
<1>9. Hosting'
  <2>1. \A b \in Agents : work[b] # "idle" => host[b] \in Calls
    BY AtWork DEF Working
  <2>2. ASSUME NEW b \in Agents
        PROVE  /\ host[b] = None <=> work'[b] = "idle"
               /\ host[b] # None => host[b][1] = Caller[b] /\ host[b] \notin Browser
               /\ Active(b)' => call'[host[b]] = "running"
               /\ work'[b] = "paused" => call'[host[b]] \in {"waiting", "called", "running"}
    <3>1. CASE b = a
      BY <1>1, <1>2, <1>3, <1>4, <1>5, <3>1 DEF Working, Hosting
    <3>2. CASE b # a
      <4>1. (Active(b)' <=> Active(b)) /\ work'[b] = work[b] /\ (Active(b) => work[b] # "idle")
        BY <1>6, <3>2 DEF Active
      <4>2. work[b] # "idle" => host[b] \in Calls
        BY <2>1
      <4> QED
        BY <1>2, <1>3, <4>1, <4>2 DEF Working, Hosting
    <3> QED
      BY <3>1, <3>2
  <2>3. \A b, d \in Agents : host[b] # None /\ host[b] = host[d] => b = d
    BY DEF Working, Hosting
  <2> QED
    BY <1>1, <2>2, <2>3 DEF Hosting
<1>10. Stated'
  <2>1. ASSUME NEW c \in Calls
        PROVE  /\ call'[c] \in {"called", "running", "returned"} => work'[c[1]] = "acting"
               /\ call'[c] = "waiting" => work'[c[1]] \in {"acting", "paused"}
               /\ call'[c] = "streaming" => work'[c[1]] = "thinking"
               /\ call'[c] \in {"streaming", "lost"} => c[1] # Entry
               /\ call'[c] = "none" \/ (call'[c] = "called" /\ c[1] = Entry) => asks[c] = None
    <3>1. c[1] \in Workers
      BY CallFields
    <3>2. CASE c[1] = a
      BY <1>1, <1>2, <1>3, <1>4, <3>2 DEF Working, Stated
    <3>3. CASE c[1] # a
      <4>1. call'[c] = call[c] /\ work'[c[1]] = work[c[1]]
        BY <1>2, <1>3, <1>4, <3>1, <3>3
      <4> QED
        BY <4>1 DEF Working, Stated
    <3> QED
      BY <3>2, <3>3
  <2> QED
    BY <1>1, <1>4, <2>1, AgentNotEntry DEF Working, Stated
<1>11. Raised'
  <2>1. ASSUME NEW c \in Calls, call'[c] = "waiting"
        PROVE  asks'[c] \in Calls /\ call'[asks'[c]] = "waiting" /\ Passed(c)'
    <3>1. call[c] = "waiting" /\ c[1] \notin {a}
      BY <1>2, <1>3, <2>1
    <3>2. \A b \in Agents \cap {a} : ~(work[b] = "paused" /\ call[host[b]] = "waiting")
      BY <1>1
    <3>3. \A d \in Calls : call[d] = "waiting" /\ d[1] \notin {a}
                             => call'[d] = "waiting" /\ asks'[d] = asks[d]
      BY <1>1, <1>2, <1>3
    <3>4. \A b \in Agents : work[b] = "paused" /\ call[host[b]] = "waiting" /\ host[b][1] \notin {a}
                              => work'[b] = "paused" /\ host'[b] = host[b]
      BY <1>1, <1>6
    <3> QED
      BY <3>1, <3>2, <3>3, <3>4, RaisedKept
  <2> QED
    BY <2>1 DEF Raised
<1>12. Grounded'
  <2>1. \A b \in Agents : Active(b)' => b = a \/ Active(b)
    BY <1>6
  <2>2. ~Active(a)
    BY <1>1 DEF Active
  <2> QED
    BY <1>1, <1>5, <2>1, <2>2, GroundedWith
<1>13. Books'
  <2>1. Active(a)' /\ work'[a] # "paused"
    BY <1>4 DEF Active
  <2>2. \A b \in Agents \ {a} : work'[b] = work[b] /\ publisher'[b] = publisher[b]
    BY <1>6, <1>7
  <2> QED
    BY <1>1, <1>7, <2>1, <2>2, BooksKept
<1> QED
  BY <1>8, <1>9, <1>10, <1>11, <1>12, <1>13 DEF Working

\* A call waits for a request.
LEMMA WaitsWorking ==
  ASSUME Working, NEW x \in Workers, NEW c \in CallsOf(x), NEW request \in Calls,
         Waits(x, c, request)
  PROVE  Working'
<1>1. /\ c \in Calls /\ call[c] = "running"
      /\ call' = [call EXCEPT ![c] = "waiting"] /\ asks' = [asks EXCEPT ![c] = request]
      /\ UNCHANGED <<run, work, host, answered, made, errors, truth, retried, publisher>>
  BY DEF Waits, CallsOf
<1>2. \/ Hosted(c) = {} /\ request = c
      \/ \E a \in Hosted(c) : \E w \in InState(a, {"waiting"}) :
           work[a] = "paused" /\ asks[w] = request
  BY DEF Waits
<1>3. /\ call' \in [Calls -> {"none", "streaming", "called", "running", "returned", "waiting",
                              "over", "lost"}]
      /\ asks' \in [Calls -> Calls \cup {None}]
      /\ call'[c] = "waiting" /\ asks'[c] = request
      /\ \A d \in Calls : d # c => call'[d] = call[d] /\ asks'[d] = asks[d]
  BY <1>1 DEF Working, Types
<1>4. \A b \in Agents : host[b] = c => ~Active(b)
  BY <1>2 DEF Working, Hosting, Hosted, Active
<1>5. \A b \in Agents : work[b] # "idle" => host[b] \in Calls
  BY AtWork DEF Working
<1>6. Types' /\ Books' /\ Grounded'
  BY <1>1, <1>3 DEF Working, Types, Books, Grounded, Active, V
<1>7. Hosting'
  <2>1. ASSUME NEW b \in Agents
        PROVE  /\ Active(b)' => call'[host[b]] = "running"
               /\ work'[b] = "paused" => call'[host[b]] \in {"waiting", "called", "running"}
    <3>1. (Active(b)' <=> Active(b)) /\ (Active(b) => work[b] # "idle") /\ work'[b] = work[b]
      BY <1>1 DEF Active
    <3> QED
      BY <1>3, <1>4, <1>5, <3>1 DEF Working, Hosting
  <2> QED
    BY <1>1, <2>1 DEF Working, Hosting
<1>8. Stated'
  BY <1>1, <1>3 DEF Working, Stated
<1>9. Raised'
  <2>1. \A d \in Calls : call[d] = "waiting" => call'[d] = "waiting" /\ asks'[d] = asks[d]
    BY <1>1, <1>3
  <2>2. \A b \in Agents : work[b] = "paused" => work'[b] = "paused" /\ host'[b] = host[b]
    BY <1>1
  <2>3. ASSUME NEW d \in Calls, call'[d] = "waiting"
        PROVE  asks'[d] \in Calls /\ call'[asks'[d]] = "waiting" /\ Passed(d)'
    <3>1. CASE d # c
      <4>1. call[d] = "waiting"
        BY <1>3, <2>3, <3>1
      <4> QED
        BY <2>1, <2>2, <4>1, RaisedRest
    <3>2. CASE d = c /\ request = c
      BY <1>3, <3>2 DEF Passed
    <3>3. ASSUME NEW a \in Hosted(c), NEW w \in InState(a, {"waiting"}),
                 work[a] = "paused" /\ asks[w] = request
          PROVE  asks'[c] \in Calls /\ call'[asks'[c]] = "waiting" /\ Passed(c)'
      <4>1. /\ a \in Agents /\ host[a] = c /\ work[a] # "idle" /\ work'[a] = "paused"
            /\ w \in Calls /\ w[1] = a /\ call[w] = "waiting"
            /\ asks'[host[a]] = asks[w] /\ call'[host[a]] = "waiting" /\ host' = host
        BY <1>1, <1>3, <3>3 DEF Hosted, InState, CallsOf
      <4>2. \A e \in Calls : call[e] = "waiting" => call'[e] = "waiting"
        BY <2>1
      <4>3. \A b \in Agents : work[b] = "paused" => work'[b] = "paused"
        BY <2>2
      <4>4. asks'[host[a]] \in Calls /\ call'[asks'[host[a]]] = "waiting" /\ Passed(host[a])'
        BY <4>1, <4>2, <4>3, PassesUp
      <4> QED
        BY <4>1, <4>4
    <3> QED
      BY <1>2, <3>1, <3>2, <3>3
  <2> QED
    BY <2>3 DEF Raised
<1> QED
  BY <1>6, <1>7, <1>8, <1>9 DEF Working

\* A delegate stops, and the call it works for goes on: as next says.
LEMMA HostsStopped ==
  ASSUME Working, NEW a \in Agents, Active(a), NEW next,
         work' \in [Workers -> {"idle", "thinking", "acting", "paused"}],
         \A w \in Workers : w # a => work'[w] = work[w],
         call'[host[a]] = next,
         \A c \in Calls : c # host[a] /\ call[c] # "streaming" => call'[c] = call[c],
         \A b \in Agents \ {a} : host'[b] = host[b],
         \/ work'[a] = "paused" /\ host'[a] = host[a] /\ next = "waiting"
         \/ work'[a] = "idle" /\ host'[a] = None,
         \A c \in Calls : c[1] = a => call[c] # "running"
  PROVE  Hosting'
<1>1. \A b \in Agents : work[b] # "idle" => host[b] \in Calls
  BY AtWork DEF Working
<1>2. host[a] \in Calls /\ call[host[a]] = "running" /\ host[a][1] # a
  BY <1>1 DEF Active, Working, Hosting
<1>3. ASSUME NEW b \in Agents, b # a
      PROVE  /\ host'[b] = None <=> work'[b] = "idle"
             /\ host'[b] # None => host'[b][1] = Caller[b] /\ host'[b] \notin Browser
             /\ Active(b)' => call'[host'[b]] = "running"
             /\ work'[b] = "paused" => call'[host'[b]] \in {"waiting", "called", "running"}
             /\ \A d \in Agents : host'[b] # None /\ host'[b] = host'[d] => b = d
  <2>1. /\ work'[b] = work[b] /\ (Active(b)' <=> Active(b)) /\ (Active(b) => work[b] # "idle")
        /\ host'[b] = host[b]
    BY <1>3, AgentNotEntry DEF Active
  <2>2. \A d \in Agents : host[b] # None /\ host[b] = host[d] => b = d
    BY DEF Working, Hosting
  <2>3. work[b] # "idle" => host[b] \in Calls /\ host[b] # None /\ host[b] # host[a]
    BY <1>1, <1>3, <2>2, CallFields
  <2>4. host[b] # None => work[b] # "idle"
    BY DEF Working, Hosting
  <2>5. \A d \in Agents : host'[b] # None /\ host'[b] = host'[d] => b = d
    BY <2>1, <2>2, <2>3, <2>4
  <2>6. Active(b) => call'[host[b]] = "running"
    <3>1. SUFFICES ASSUME Active(b) PROVE call'[host[b]] = "running"
      OBVIOUS
    <3>2. host[b] \in Calls /\ host[b] # host[a] /\ call[host[b]] = "running"
      BY <2>1, <2>3, <3>1 DEF Working, Hosting
    <3> QED
      BY <3>2
  <2>7. work[b] = "paused" => call'[host[b]] \in {"waiting", "called", "running"}
    <3>1. SUFFICES ASSUME work[b] = "paused" PROVE call'[host[b]] \in {"waiting", "called", "running"}
      OBVIOUS
    <3>2. /\ host[b] \in Calls /\ host[b] # host[a]
          /\ call[host[b]] \in {"waiting", "called", "running"}
      BY <2>3, <3>1 DEF Working, Hosting
    <3> QED
      BY <3>2
  <2> QED
    BY <2>1, <2>5, <2>6, <2>7 DEF Working, Hosting
<1>4. /\ host'[a] = None <=> work'[a] = "idle"
      /\ host'[a] # None => host'[a][1] = Caller[a] /\ host'[a] \notin Browser
      /\ Active(a)' => call'[host'[a]] = "running"
      /\ work'[a] = "paused" => call'[host'[a]] \in {"waiting", "called", "running"}
      /\ \A d \in Agents : host'[a] # None /\ host'[a] = host'[d] => a = d
  BY <1>2, CallFields DEF Working, Hosting, Active
<1> QED
  BY <1>3, <1>4 DEF Hosting

\* A delegate pauses; its request goes up to the call it works for.
LEMMA PausesWorking ==
  ASSUME Working, NEW a \in Agents, Pauses(a)
  PROVE  Working'
<1>1. PICK w \in InState(a, {"waiting"}) :
        /\ call' = [call EXCEPT ![host[a]] = "waiting"]
        /\ asks' = [asks EXCEPT ![host[a]] = asks[w]]
  BY DEF Pauses
<1>2. /\ work[a] = "acting"
      /\ \A c \in Calls : c[1] = a => call[c] \notin {"called", "running", "returned"}
      /\ work' = [work EXCEPT ![a] = "paused"] /\ truth' = [truth EXCEPT ![V(a)] = "paused"]
      /\ w \in Calls /\ w[1] = a /\ call[w] = "waiting"
      /\ UNCHANGED <<run, host, answered, made, errors, retried, publisher>>
  BY DEF Pauses, InState, CallsOf
<1>3. /\ host[a] \in Calls /\ call[host[a]] = "running" /\ host[a][1] # a
      /\ V(a) \in Group /\ Active(a) /\ work[a] # "idle"
  BY <1>2, AtWork DEF Working, Hosting, Active
<1>4. /\ call' \in [Calls -> {"none", "streaming", "called", "running", "returned", "waiting",
                              "over", "lost"}]
      /\ call'[host[a]] = "waiting" /\ \A d \in Calls : d # host[a] => call'[d] = call[d]
  BY <1>1, <1>3 DEF Working, Types
<1>5. /\ asks[w] \in Calls /\ asks' \in [Calls -> Calls \cup {None}] /\ asks'[host[a]] = asks[w]
      /\ \A d \in Calls : d # host[a] => asks'[d] = asks[d]
  BY <1>1, <1>2, <1>3 DEF Working, Types, Raised
<1>6. /\ work' \in [Workers -> {"idle", "thinking", "acting", "paused"}] /\ work'[a] = "paused"
      /\ a # Entry /\ \A x \in Workers : x # a => work'[x] = work[x]
  BY <1>2, AgentNotEntry DEF Working, Types
<1>7. Types'
  <2>1. truth' \in [Group -> {"none", "working", "paused", "done", "failed"}]
    BY <1>2 DEF Working, Types
  <2> QED
    BY <1>2, <1>4, <1>5, <1>6, <2>1 DEF Working, Types
<1>8. Hosting'
  <2>1. \A d \in Calls : d # host[a] /\ call[d] # "streaming" => call'[d] = call[d]
    BY <1>4
  <2>2. \A b \in Agents \ {a} : host'[b] = host[b]
    BY <1>2
  <2>3. \A c \in Calls : c[1] = a => call[c] # "running"
    BY <1>2
  <2> QED
    BY <1>2, <1>3, <1>4, <1>6, <2>1, <2>2, <2>3, HostsStopped
<1>9. Stated'
  <2>1. ASSUME NEW c \in Calls
        PROVE  /\ call'[c] \in {"called", "running", "returned"} => work'[c[1]] = "acting"
               /\ call'[c] = "waiting" => work'[c[1]] \in {"acting", "paused"}
               /\ call'[c] = "streaming" => work'[c[1]] = "thinking"
               /\ call'[c] \in {"streaming", "lost"} => c[1] # Entry
               /\ call'[c] = "none" \/ (call'[c] = "called" /\ c[1] = Entry) => asks'[c] = None
    <3>1. c[1] \in Workers /\ host[a][1] \in Workers
      BY <1>3, CallFields
    <3>2. CASE c = host[a]
      BY <1>3, <1>4, <1>6, <3>1, <3>2 DEF Working, Stated
    <3>3. CASE c # host[a]
      BY <1>2, <1>4, <1>5, <1>6, <3>1, <3>3 DEF Working, Stated
    <3> QED
      BY <3>2, <3>3
  <2> QED
    BY <1>2, <1>6, <2>1, AgentNotEntry DEF Working, Stated
<1>10. Raised'
  <2>1. \A d \in Calls : call[d] = "waiting" => call'[d] = "waiting" /\ asks'[d] = asks[d]
    BY <1>3, <1>4, <1>5
  <2>2. \A b \in Agents : work[b] = "paused" => work'[b] = "paused" /\ host'[b] = host[b]
    BY <1>2, <1>6, AgentNotEntry
  <2>3. ASSUME NEW d \in Calls, call'[d] = "waiting"
        PROVE  asks'[d] \in Calls /\ call'[asks'[d]] = "waiting" /\ Passed(d)'
    <3>1. CASE d # host[a]
      <4>1. call[d] = "waiting"
        BY <1>4, <2>3, <3>1
      <4> QED
        BY <2>1, <2>2, <4>1, RaisedRest
    <3>2. CASE d = host[a]
      <4>1. \A e \in Calls : call[e] = "waiting" => call'[e] = "waiting"
        BY <2>1
      <4>2. \A b \in Agents : work[b] = "paused" => work'[b] = "paused"
        BY <2>2
      <4>3. asks'[host[a]] \in Calls /\ call'[asks'[host[a]]] = "waiting" /\ Passed(host[a])'
        BY <1>2, <1>3, <1>4, <1>5, <1>6, <4>1, <4>2, PassesUp
      <4> QED
        BY <1>2, <3>2, <4>3 DEF Passed
    <3> QED
      BY <3>1, <3>2
  <2> QED
    BY <2>3 DEF Raised
<1>11. \A b \in Agents : b # a => (Active(b)' <=> Active(b)) /\ work'[b] = work[b]
  BY <1>6, AgentNotEntry DEF Active
<1>12. Grounded'
  <2>1. \A b \in Agents : Active(b)' => Active(b)
    BY <1>3, <1>11
  <2> QED
    BY <2>1, GroundedLess
<1>13. Books'
  <2>1. ~Active(a)' /\ work'[a] = "paused"
    BY <1>6 DEF Active
  <2>2. \A b \in Agents \ {a} : work'[b] = work[b] /\ publisher'[b] = publisher[b]
    BY <1>2, <1>11
  <2> QED
    BY <1>2, <1>3, <2>1, <2>2, BooksKept
<1> QED
  BY <1>7, <1>8, <1>9, <1>10, <1>12, <1>13 DEF Working

\* A delegate is done or gives up.
LEMMA StopsWorking ==
  ASSUME Working, NEW a \in Agents, work[a] = "thinking", NEW x \in {"done", "failed"},
         work' = [work EXCEPT ![a] = "idle"], host' = [host EXCEPT ![a] = None],
         truth' = [truth EXCEPT ![V(a)] = x],
         call' \in [Calls -> States], call'[host[a]] = "returned",
         \A c \in Calls : c # host[a] /\ call[c] # "streaming" => call'[c] = call[c],
         \A c \in Calls : c # host[a] /\ call[c] = "streaming"
                            => call'[c] = IF c[1] = a THEN "lost" ELSE "streaming",
         publisher' \in [Agents -> [count : Nat, active : Nat, errored : BOOLEAN]],
         \A b \in Agents \ {a} : publisher'[b] = publisher[b],
         publisher'[a].count = publisher[a].count, publisher'[a].active = publisher[a].active,
         UNCHANGED <<run, asks, answered, made, retried>>
  PROVE  Working'
<1>1. /\ host[a] \in Calls /\ call[host[a]] = "running" /\ host[a][1] # a
      /\ V(a) \in Group /\ Active(a) /\ work[a] # "idle"
      /\ \A c \in Calls : c[1] = a => call[c] \notin {"called", "running", "returned", "waiting"}
  <2>1. \A c \in Calls : c[1] = a => call[c] \notin {"called", "running", "returned", "waiting"}
    BY DEF Working, Stated
  <2> QED
    BY <2>1, AtWork DEF Working, Hosting, Active
<1>2. /\ work' \in [Workers -> {"idle", "thinking", "acting", "paused"}] /\ work'[a] = "idle"
      /\ a # Entry /\ \A w \in Workers : w # a => work'[w] = work[w]
  BY AgentNotEntry DEF Working, Types
<1>3. /\ host' \in [Agents -> Calls \cup {None}] /\ host'[a] = None
      /\ \A b \in Agents \ {a} : host'[b] = host[b]
  BY DEF Working, Types
<1>4. Types'
  <2>1. truth' \in [Group -> {"none", "working", "paused", "done", "failed"}]
    BY DEF Working, Types
  <2> QED
    BY <1>2, <1>3, <2>1 DEF Working, Types, States
<1>5. Hosting'
  <2>1. \A c \in Calls : c[1] = a => call[c] # "running"
    BY <1>1
  <2> QED
    BY <1>1, <1>2, <1>3, <2>1, HostsStopped
<1>6. \A b \in Agents : b # a => (Active(b)' <=> Active(b)) /\ work'[b] = work[b]
  BY <1>2, AgentNotEntry DEF Active
<1>7. Stated'
  <2>1. ASSUME NEW c \in Calls
        PROVE  /\ call'[c] \in {"called", "running", "returned"} => work'[c[1]] = "acting"
               /\ call'[c] = "waiting" => work'[c[1]] \in {"acting", "paused"}
               /\ call'[c] = "streaming" => work'[c[1]] = "thinking"
               /\ call'[c] \in {"streaming", "lost"} => c[1] # Entry
               /\ call'[c] = "none" \/ (call'[c] = "called" /\ c[1] = Entry) => asks'[c] = None
    <3>1. c[1] \in Workers /\ host[a][1] \in Workers
      BY <1>1, CallFields
    <3>2. CASE c = host[a]
      BY <1>1, <1>2, <3>1, <3>2 DEF Working, Stated
    <3>3. CASE c # host[a] /\ c[1] = a
      BY <1>1, <1>2, <3>1, <3>3 DEF Working, Stated
    <3>4. CASE c # host[a] /\ c[1] # a
      <4>1. call'[c] = call[c] /\ work'[c[1]] = work[c[1]]
        BY <1>2, <3>1, <3>4
      <4> QED
        BY <4>1 DEF Working, Stated
    <3> QED
      BY <3>2, <3>3, <3>4
  <2> QED
    BY <1>2, <2>1, AgentNotEntry DEF Working, Stated
<1>8. Raised'
  <2>1. \A d \in Calls : call[d] = "waiting" => call'[d] = "waiting" /\ asks'[d] = asks[d]
    BY <1>1
  <2>2. \A b \in Agents : work[b] = "paused" => work'[b] = "paused" /\ host'[b] = host[b]
    BY <1>3, <1>6
  <2>3. ASSUME NEW d \in Calls, call'[d] = "waiting"
        PROVE  asks'[d] \in Calls /\ call'[asks'[d]] = "waiting" /\ Passed(d)'
    <3>1. call[d] = "waiting"
      BY <2>3
    <3> QED
      BY <2>1, <2>2, <3>1, RaisedRest
  <2> QED
    BY <2>3 DEF Raised
<1>9. Grounded'
  <2>1. \A b \in Agents : Active(b)' => Active(b)
    BY <1>1, <1>6
  <2> QED
    BY <2>1, GroundedLess
<1>10. Books'
  <2>1. ~Active(a)' /\ work'[a] # "paused"
    BY <1>2 DEF Active
  <2>2. \A b \in Agents \ {a} : work'[b] = work[b] /\ publisher'[b] = publisher[b]
    BY <1>6
  <2> QED
    BY <1>1, <2>1, <2>2, BooksKept
<1> QED
  BY <1>4, <1>5, <1>7, <1>8, <1>9, <1>10 DEF Working

LEMMA CompletesWorking ==
  ASSUME Working, NEW a \in Agents, Completes(a)
  PROVE  Working'
<1>1. /\ work[a] = "thinking" /\ \A c \in Calls : c[1] = a => call[c] # "streaming"
      /\ work' = [work EXCEPT ![a] = "idle"] /\ truth' = [truth EXCEPT ![V(a)] = "done"]
      /\ call' = [call EXCEPT ![host[a]] = "returned"] /\ host' = [host EXCEPT ![a] = None]
      /\ UNCHANGED <<run, asks, answered, made, errors, retried, publisher>>
  BY DEF Completes, InState, CallsOf
<1>2. host[a] \in Calls
  BY <1>1, AtWork DEF Working
<1>3. call' \in [Calls -> States] /\ call'[host[a]] = "returned"
  BY <1>1, <1>2 DEF Working, Types, States
<1>4. /\ \A c \in Calls : c # host[a] /\ call[c] # "streaming" => call'[c] = call[c]
      /\ \A c \in Calls : c # host[a] /\ call[c] = "streaming"
                            => call'[c] = IF c[1] = a THEN "lost" ELSE "streaming"
  BY <1>1, <1>2 DEF Working, Types
<1>5. publisher \in [Agents -> [count : Nat, active : Nat, errored : BOOLEAN]]
  BY DEF Working, Types
<1> QED
  BY <1>1, <1>3, <1>4, <1>5, StopsWorking

LEMMA ModelFailsWorking ==
  ASSUME Working, NEW a \in Agents, NEW retry \in BOOLEAN, ModelFails(a, retry)
  PROVE  Working'
<1>1. /\ work[a] = "thinking"
      /\ publisher' = [publisher EXCEPT ![a].errored = TRUE]
      /\ work' = [work EXCEPT ![a] = IF retry THEN @ ELSE "idle"]
      /\ call' = [c \in Calls |-> IF c \in InState(a, {"streaming"}) THEN "lost"
                                   ELSE IF c = host[a] /\ ~retry THEN "returned" ELSE call[c]]
      /\ host' = [host EXCEPT ![a] = IF retry THEN @ ELSE None]
      /\ truth' = [truth EXCEPT ![V(a)] = IF retry THEN @ ELSE "failed"]
      /\ retried' = IF retry THEN retried \cup {V(a)} ELSE retried
      /\ UNCHANGED <<run, asks, answered, made>>
  BY DEF ModelFails
<1>2. \A c \in Calls : c \in InState(a, {"streaming"}) <=> c[1] = a /\ call[c] = "streaming"
  BY DEF InState, CallsOf
<1>3. /\ host[a] \in Calls /\ call[host[a]] = "running" /\ V(a) \in Group /\ Active(a)
      /\ truth[V(a)] = "working"
  BY <1>1, AtWork DEF Working, Hosting, Active, Books
<1>4. /\ publisher' \in [Agents -> [count : Nat, active : Nat, errored : BOOLEAN]]
      /\ publisher'[a].count = publisher[a].count /\ publisher'[a].active = publisher[a].active
      /\ \A b \in Agents \ {a} : publisher'[b] = publisher[b]
  BY <1>1 DEF Working, Types
<1>5. call' \in [Calls -> States]
  BY <1>1 DEF Working, Types, States
<1>6. /\ \A c \in Calls : c # host[a] /\ call[c] # "streaming" => call'[c] = call[c]
      /\ \A c \in Calls : c # host[a] /\ call[c] = "streaming"
                            => call'[c] = IF c[1] = a THEN "lost" ELSE "streaming"
      /\ call'[host[a]] = IF retry THEN "running" ELSE "returned"
  BY <1>1, <1>2, <1>3
<1>7. CASE ~retry
  <2>1. /\ work' = [work EXCEPT ![a] = "idle"] /\ host' = [host EXCEPT ![a] = None]
        /\ truth' = [truth EXCEPT ![V(a)] = "failed"] /\ retried' = retried
    BY <1>1, <1>7
  <2>2. call'[host[a]] = "returned" /\ "failed" \in {"done", "failed"}
    BY <1>6, <1>7
  <2>3. UNCHANGED <<run, asks, answered, made, retried>>
    BY <1>1, <2>1
  <2> QED
    BY <1>1, <1>4, <1>5, <1>6, <2>1, <2>2, <2>3, StopsWorking
<1>8. CASE retry
  <2>1. work' = work /\ host' = host /\ truth' = truth /\ retried' = retried \cup {V(a)}
    BY <1>1, <1>8 DEF Working, Types
  <2>2. Types'
    BY <1>1, <1>3, <1>4, <1>5, <2>1 DEF Working, Types, States
  <2>3. \A b \in Agents : work[b] # "idle" => host[b] \in Calls
    BY AtWork DEF Working
  <2>4. \A c \in Calls : call[c] # "streaming" => call'[c] = call[c]
    BY <1>3, <1>6, <1>8
  <2>5. Hosting'
    <3>1. ASSUME NEW b \in Agents
          PROVE  /\ Active(b)' => call'[host[b]] = "running"
                 /\ work'[b] = "paused" => call'[host[b]] \in {"waiting", "called", "running"}
      <4>1. (Active(b)' <=> Active(b)) /\ (Active(b) => work[b] # "idle") /\ work'[b] = work[b]
        BY <2>1 DEF Active
      <4> QED
        BY <2>3, <2>4, <4>1 DEF Working, Hosting
    <3> QED
      BY <2>1, <3>1 DEF Working, Hosting
  <2>6. Stated'
    <3>1. ASSUME NEW c \in Calls
          PROVE  /\ call'[c] \in {"called", "running", "returned"} => work'[c[1]] = "acting"
                 /\ call'[c] = "waiting" => work'[c[1]] \in {"acting", "paused"}
                 /\ call'[c] = "streaming" => work'[c[1]] = "thinking"
                 /\ call'[c] \in {"streaming", "lost"} => c[1] # Entry
                 /\ call'[c] = "none" \/ (call'[c] = "called" /\ c[1] = Entry) => asks'[c] = None
      <4>1. CASE call[c] = "streaming"
        <5>1. c # host[a]
          BY <1>3, <4>1
        <5>2. call'[c] = "lost" \/ call'[c] = call[c]
          BY <1>6, <4>1, <5>1
        <5> QED
          BY <1>1, <2>1, <4>1, <5>2 DEF Working, Stated
      <4>2. CASE call[c] # "streaming"
        BY <1>1, <2>1, <2>4, <4>2 DEF Working, Stated
      <4> QED
        BY <4>1, <4>2
    <3> QED
      BY <1>1, <2>1, <3>1 DEF Working, Stated
  <2>7. Raised'
    <3>1. \A d \in Calls : call[d] = "waiting" => call'[d] = "waiting" /\ asks'[d] = asks[d]
      BY <1>1, <2>4
    <3>2. \A b \in Agents : work[b] = "paused" => work'[b] = "paused" /\ host'[b] = host[b]
      BY <2>1
    <3>3. ASSUME NEW d \in Calls, call'[d] = "waiting"
          PROVE  asks'[d] \in Calls /\ call'[asks'[d]] = "waiting" /\ Passed(d)'
      <4>1. call[d] = "waiting"
        BY <1>3, <1>6, <1>8, <3>3
      <4> QED
        BY <3>1, <3>2, <4>1, RaisedRest
    <3> QED
      BY <3>3 DEF Raised
  <2>8. Grounded'
    <3>1. \A b \in Agents : Active(b)' => Active(b)
      BY <2>1 DEF Active
    <3> QED
      BY <3>1, GroundedLess
  <2>9. Books'
    <3>1. Active(a)' /\ work'[a] # "paused" /\ truth' = [truth EXCEPT ![V(a)] = "working"]
      BY <1>1, <1>3, <2>1 DEF Active, Working, Types
    <3>2. \A b \in Agents \ {a} : work'[b] = work[b] /\ publisher'[b] = publisher[b]
      BY <1>4, <2>1
    <3> QED
      BY <1>1, <1>3, <1>4, <2>1, <3>1, <3>2, BooksKept
  <2> QED
    BY <2>2, <2>5, <2>6, <2>7, <2>8, <2>9 DEF Working
<1> QED
  BY <1>7, <1>8

-----------------------------------------------------------------------------
(* What is told of a call.                                                 *)

\* Only a queue that may end the run does.
LEMMA NoFinals ==
  ASSUME NEW x, None \notin x, NEW q, NEW b, NEW c, Leads(x, b, q, c)
  PROVE  \A i \in 1..Len(q) : q[i].type \notin Finals
<1>1. PICK t : \A i \in 1..Len(q) : Fits(x, t[i - 1], q[i])
  BY DEF Leads
<1> QED
  BY <1>1 DEF Fits, Finals, Quiet, Closings

\* An empty queue leads nowhere.
LEMMA LeadsNowhere ==
  ASSUME NEW x, NEW b, NEW c, Leads(x, b, <<>>, c)
  PROVE  c = b
  BY DEF Leads

\* The mark that a run is over posts nothing.
LEMMA FinishPosts ==
  ASSUME NEW b \in Boards, NEW e, e.type = "finish"
  PROVE  Post(b, e) = b
<1>1. b = [card |-> b.card, parent |-> b.parent, tool |-> b.tool, outcome |-> b.outcome,
           waiting |-> b.waiting, runs |-> b.runs]
  BY BoardFields
<1>2. Post(b, e) = [card |-> b.card, parent |-> b.parent, tool |-> b.tool, outcome |-> b.outcome,
                    waiting |-> b.waiting, runs |-> b.runs]
  BY DEF Post, Closings
<1> QED
  BY <1>1, <1>2

\* What is said of a call stays right where the call is not touched.
LEMMA CallKeptOK ==
  ASSUME NEW s, NEW b, NEW t, NEW d, NEW c \in Calls, NEW k, NEW asked, NEW v,
         c[1] = Entry \/ k \in {"none", "over", "lost"} \/ v \in Group,
         CallOK(s, b, c, k, asked, v), CallKept(s, b, t, d, c)
  PROVE  CallOK(t, d, c, k, asked, v)
<1>1. Announced(t, d, c)
  BY DEF CallOK, CallKept, Announced
<1>2. Tooled(d, c, k, v)
  BY DEF CallOK, CallKept, Tooled
<1>3. Written(t, d, c, k, v)
  BY DEF CallOK, CallKept, Written
<1>4. Waited(t, d, c, k, asked)
  BY DEF CallOK, CallKept, Waited
<1> QED
  BY <1>1, <1>2, <1>3, <1>4 DEF CallOK, CallKept

\* A delegate of no matter what invocation is idle.
LEMMA CallOKIdle ==
  ASSUME NEW s, NEW b, NEW c, NEW k, NEW asked, NEW v, NEW w,
         c[1] = Entry \/ k \in {"none", "over", "lost"}, CallOK(s, b, c, k, asked, v)
  PROVE  CallOK(s, b, c, k, asked, w)
  BY DEF CallOK, Tooled, Written

\* What is so of a call that is at most being written.
AtMostWritten(s, b, c, k, v) ==
  /\ c \notin s.known /\ \A g \in Group : c \notin s.seg[g].ended
  /\ \A g \in Group : s.seg[g].args[c] # "unsent"
                       => g = v /\ b.tool[c] = "open" /\ s.owner[c] = v
  /\ s.seg[v].args[c] = "unsent" => k = "none"
  /\ c \in b.waiting => c \in Browser
  /\ k = "streaming" => /\ b.tool[c] = "open" /\ b.runs[c] = v
                        /\ c \in b.waiting <=> c \in Browser

\* A call that is at most being written was announced in its invocation, if at all.
LEMMA CallWritten ==
  ASSUME NEW s, NEW b, NEW c \in Calls, NEW k \in {"none", "streaming"}, NEW asked, NEW v \in Group,
         v[1] = c[1], c[1] # Entry, CallOK(s, b, c, k, asked, v)
  PROVE  AtMostWritten(s, b, c, k, v)
<1>1. k = "none" => b.tool[c] = "none"
  BY DEF CallOK, Tooled
<1>2. k = "streaming" => b.tool[c] = "open" /\ b.runs[c] = v
  BY DEF CallOK, Tooled
<1>3. k = "streaming" => s.seg[v].args[c] # "unsent"
  BY DEF CallOK, Written
<1>4. k = "streaming" => s.owner[c] = v
  BY <1>3 DEF CallOK, Announced
<1>5. \A g \in Group : c \notin s.seg[g].ended
  BY <1>1, <1>2 DEF CallOK, Announced
<1>6. c \notin s.known
  BY <1>1, <1>3 DEF CallOK, Announced
<1>7. \A g \in Group : s.seg[g].args[c] # "unsent" => k = "streaming" /\ s.owner[c] = g
  BY <1>1, <1>5 DEF CallOK, Announced
<1>8. c \in b.waiting => c \in Browser
  BY DEF CallOK, Waited
<1>9. k = "streaming" => (c \in b.waiting <=> c \in Browser)
  BY <1>2, <1>6 DEF CallOK, Waited
<1> QED
  BY <1>2, <1>3, <1>4, <1>5, <1>6, <1>7, <1>8, <1>9 DEF AtMostWritten

LEMMA CallUnsaid ==
  ASSUME NEW s, NEW b, NEW c \in Calls, NEW k, k \in {"none", "streaming"}, NEW asked, NEW v \in Group,
         v[1] = c[1], c[1] # Entry, CallOK(s, b, c, k, asked, v)
  PROVE  c \notin s.known /\ c \notin s.seg[v].ended
<1>1. k = "none" => b.tool[c] = "none"
  BY DEF CallOK, Tooled
<1>2. k = "streaming" => b.tool[c] = "open"
  BY DEF CallOK, Tooled
<1>3. k = "streaming" => s.seg[v].args[c] # "unsent"
  BY DEF CallOK, Written
<1> QED
  BY <1>1, <1>2, <1>3 DEF CallOK, Announced

\* The model writes it.
LEMMA WritesOK ==
  ASSUME NEW s, NEW b, NEW t, NEW d, NEW c \in Calls, NEW k \in {"none", "streaming"}, NEW asked,
         NEW v \in Group, v[1] = c[1], c[1] # Entry, CallOK(s, b, c, k, asked, v),
         CallsOnly(s, b, t, d, v, c), CallStarts(s, b, t, d, v, c),
         d.tool[c] = IF s.seg[v].args[c] = "unsent" THEN "open" ELSE b.tool[c],
         c \notin t.seg[v].ended
  PROVE  CallOK(t, d, c, "streaming", asked, v)
<1>0. AtMostWritten(s, b, c, k, v)
  BY CallWritten
<1>1. /\ c \notin s.known /\ \A g \in Group : c \notin s.seg[g].ended
      /\ \A g \in Group : s.seg[g].args[c] # "unsent" => g = v /\ b.tool[c] = "open" /\ s.owner[c] = v
      /\ s.seg[v].args[c] = "unsent" => k = "none"
      /\ c \in b.waiting => c \in Browser
      /\ k = "streaming" => b.tool[c] = "open" /\ b.runs[c] = v /\ (c \in b.waiting <=> c \in Browser)
  BY <1>0 DEF AtMostWritten
<1>2. c \notin t.known /\ \A g \in Group : c \notin t.seg[g].ended
  BY <1>1 DEF CallsOnly
<1>3. t.owner[c] = v /\ t.seg[v].args[c] # "unsent"
  BY <1>1 DEF CallStarts
<1>4. \A g \in Group \ {v} : t.seg[g].args[c] = "unsent"
  BY <1>1 DEF CallsOnly
<1>5. d.tool[c] = "open"
  BY <1>1
<1>6. k = "none" => s.seg[v].args[c] = "unsent"
  <2>1. k = "none" => b.tool[c] = "none"
    BY DEF CallOK, Tooled
  <2> QED
    BY <1>1, <2>1
<1>7. d.runs[c] = v /\ (c \in d.waiting <=> c \in Browser)
  BY <1>1, <1>6 DEF CallStarts
<1>8. Announced(t, d, c)
  BY <1>2, <1>3, <1>4, <1>5 DEF Announced
<1>9. Tooled(d, c, "streaming", v)
  BY <1>5, <1>7 DEF Tooled
<1>10. Written(t, d, c, "streaming", v)
  BY <1>3, <1>5 DEF Written
<1>11. Waited(t, d, c, "streaming", asked)
  BY <1>2, <1>5, <1>7 DEF Waited
<1> QED
  BY <1>8, <1>9, <1>10, <1>11 DEF CallOK

\* The turn ends with it.
LEMMA CalledOK ==
  ASSUME NEW s, NEW b, NEW c \in Calls, NEW k \in {"none", "streaming"}, NEW asked, NEW v,
         k = "streaming" => c[1] # Entry, CallOK(s, b, c, k, asked, v)
  PROVE  CallOK(s, b, c, "called", asked, v)
<1>1. Tooled(b, c, "called", v)
  BY DEF CallOK, Tooled
<1>2. Written(s, b, c, "called", v)
  BY DEF CallOK, Tooled, Written, Announced
<1>3. Waited(s, b, c, "called", asked)
  BY DEF CallOK, Waited
<1> QED
  BY <1>1, <1>2, <1>3 DEF CallOK

\* A delegate's call starts.
LEMMA StartsOK ==
  ASSUME NEW s, NEW b, NEW t, NEW d, NEW c \in Calls, NEW asked, NEW v \in Group,
         v[1] = c[1], c[1] # Entry, CallOK(s, b, c, "called", asked, v),
         CallGoes(s, b, t, d, v, c)
  PROVE  CallOK(t, d, c, "running", asked, v)
<1>0. /\ CallsOnly(s, b, t, d, v, c) /\ c \in t.seg[v].ended
      /\ IF c \in s.seg[v].ended
           THEN CallKept(s, b, t, d, c)
         ELSE IF c \in s.known
           THEN /\ t.owner[c] = v /\ t.seg[v].args[c] = s.seg[v].args[c]
                /\ d.tool[c] = b.tool[c] /\ d.runs[c] = b.runs[c]
                /\ c \in d.waiting <=> c \in b.waiting
         ELSE CallStarts(s, b, t, d, v, c) /\ d.tool[c] = "ended"
  BY DEF CallGoes
<1>1. /\ b.tool[c] \in {"none", "open", "ended"} /\ s.owner[c] \in {None, v} /\ v # None
      /\ b.tool[c] # "none" => b.runs[c] = v
      /\ b.tool[c] = "open" => s.seg[v].args[c] # "unsent"
      /\ c \in b.waiting <=> c \in Browser \ s.known /\ b.tool[c] \in {"open", "ended"}
  BY GroupFields DEF CallOK, Tooled, Written, Waited
<1>2. \A g \in Group \ {v} : s.seg[g].args[c] = "unsent" /\ c \notin s.seg[g].ended
  BY <1>1, GroupFields DEF CallOK, Announced
<1>3. \A g \in Group \ {v} : t.seg[g].args[c] = "unsent" /\ c \notin t.seg[g].ended
  BY <1>0, <1>2 DEF CallsOnly
<1>4. c \in t.known <=> c \in s.known
  BY <1>0 DEF CallsOnly
<1>5. s.seg[v].args[c] # "unsent" => s.owner[c] = v /\ c \notin s.known
  BY DEF CallOK, Announced
<1>6. SUFFICES /\ t.owner[c] = v /\ d.tool[c] = "ended" /\ d.runs[c] = v
               /\ t.seg[v].args[c] # "unsent" => c \notin s.known
               /\ c \in d.waiting <=> c \in Browser \ s.known
  <2>1. Announced(t, d, c)
    BY <1>0, <1>3, <1>4, <1>6 DEF Announced
  <2>2. Tooled(d, c, "running", v) /\ Written(t, d, c, "running", v)
    BY <1>0, <1>6 DEF Tooled, Written
  <2>3. Waited(t, d, c, "running", asked)
    BY <1>4, <1>6 DEF Waited
  <2> QED
    BY <2>1, <2>2, <2>3 DEF CallOK
<1>7. CASE c \in s.seg[v].ended
  <2>1. s.owner[c] = v /\ b.tool[c] = "ended"
    BY <1>1, <1>7 DEF CallOK, Announced
  <2> QED
    BY <1>0, <1>1, <1>5, <1>7, <2>1 DEF CallKept
<1>8. CASE c \notin s.seg[v].ended /\ c \in s.known
  <2>1. b.tool[c] = "ended"
    BY <1>1, <1>5, <1>8 DEF CallOK, Announced
  <2> QED
    BY <1>0, <1>1, <1>5, <1>8, <2>1
<1>9. CASE c \notin s.seg[v].ended /\ c \notin s.known
  <2>1. s.seg[v].args[c] # "unsent" => b.tool[c] = "open"
    BY <1>9 DEF CallOK, Announced
  <2>2. CallStarts(s, b, t, d, v, c) /\ d.tool[c] = "ended"
    BY <1>0, <1>9
  <2>3. CASE s.seg[v].args[c] = "unsent"
    BY <1>1, <1>9, <2>2, <2>3 DEF CallStarts
  <2>4. CASE s.seg[v].args[c] # "unsent"
    BY <1>1, <1>5, <1>9, <2>1, <2>2, <2>4 DEF CallStarts
  <2> QED
    BY <2>3, <2>4
<1> QED
  BY <1>7, <1>8, <1>9

\* A delegate's call has its result.
LEMMA EndsOK ==
  ASSUME NEW s, NEW b, NEW t, NEW d, NEW c \in Calls, NEW k \in {"running", "returned"},
         NEW asked, NEW v \in Group,
         v[1] = c[1], c[1] # Entry, CallOK(s, b, c, k, asked, v),
         CallDone(s, b, t, d, v, c)
  PROVE  /\ c \in s.seg[v].ended
         /\ CallOK(t, d, c, "over", asked, v)
<1>0. /\ CallsOnly(s, b, t, d, v, c) /\ c \in t.seg[v].ended /\ t.owner[c] = s.owner[c]
      /\ t.seg[v].args[c] = s.seg[v].args[c] /\ d.tool[c] = "done" /\ c \notin d.waiting
  BY DEF CallDone
<1>1. c \in s.seg[v].ended /\ s.owner[c] = v /\ v # None
  BY GroupFields DEF CallOK, Written, Announced
<1>2. \A g \in Group \ {v} : s.seg[g].args[c] = "unsent" /\ c \notin s.seg[g].ended
  BY <1>1 DEF CallOK, Announced
<1>3. \A g \in Group \ {v} : t.seg[g].args[c] = "unsent" /\ c \notin t.seg[g].ended
  BY <1>0, <1>2 DEF CallsOnly
<1>4. s.seg[v].args[c] # "unsent" => c \notin s.known
  BY DEF CallOK, Announced
<1>5. Announced(t, d, c)
  BY <1>0, <1>1, <1>3, <1>4 DEF Announced, CallsOnly
<1>6. Tooled(d, c, "over", v) /\ Written(t, d, c, "over", v) /\ Waited(t, d, c, "over", asked)
  BY <1>0 DEF Tooled, Written, Waited
<1> QED
  BY <1>1, <1>5, <1>6 DEF CallOK

\* The entry agent's calls are announced in the chat.
LEMMA ChatStartsOK ==
  ASSUME NEW s, NEW b, NEW d, NEW c \in Calls, NEW v, c[1] = Entry,
         CallOK(s, b, c, "called", FALSE, v),
         d.tool[c] = "ended", d.runs[c] = b.runs[c],
         c \in d.waiting <=> c \in Browser \cup b.waiting
  PROVE  CallOK(s, d, c, "running", FALSE, v)
<1>1. b.tool[c] = "none" /\ b.runs[c] = None /\ c \notin b.waiting
  BY DEF CallOK, Tooled, Waited
<1>2. Announced(s, d, c)
  BY <1>1 DEF CallOK, Announced
<1>3. Tooled(d, c, "running", v) /\ Written(s, d, c, "running", v) /\ Waited(s, d, c, "running", FALSE)
  BY <1>1 DEF Tooled, Written, Waited, CallOK
<1> QED
  BY <1>2, <1>3 DEF CallOK

LEMMA ChatEndsOK ==
  ASSUME NEW s, NEW b, NEW d, NEW c \in Calls, NEW k, NEW asked, NEW v, c[1] = Entry,
         CallOK(s, b, c, k, asked, v),
         d.tool[c] = "done", d.runs[c] = b.runs[c], c \notin d.waiting
  PROVE  CallOK(s, d, c, "over", asked, v)
<1>1. Announced(s, d, c)
  BY GroupFields DEF CallOK, Announced
<1>2. b.runs[c] = None
  BY DEF CallOK, Tooled
<1>3. Tooled(d, c, "over", v) /\ Written(s, d, c, "over", v) /\ Waited(s, d, c, "over", asked)
  BY <1>2 DEF Tooled, Written, Waited
<1> QED
  BY <1>1, <1>3 DEF CallOK

\* Where nothing is said of a call: it waits, or the delegate it called returns; it is
\* lost with the model call that was writing it; it goes on.
LEMMA WaitsOK ==
  ASSUME NEW s, NEW b, NEW c \in Calls, NEW k \in {"waiting", "returned"}, NEW asked, NEW asked1, NEW v,
         CallOK(s, b, c, "running", asked, v), c[1] = Entry /\ asked => c \notin Browser
  PROVE  CallOK(s, b, c, k, asked1, v)
<1>1. Tooled(b, c, k, v) /\ Written(s, b, c, k, v)
  BY DEF CallOK, Tooled, Written
<1>2. Waited(s, b, c, k, asked1)
  BY DEF CallOK, Waited
<1> QED
  BY <1>1, <1>2 DEF CallOK

LEMMA LostOK ==
  ASSUME NEW s, NEW b, NEW c \in Calls, NEW asked, NEW v, c[1] # Entry,
         CallOK(s, b, c, "streaming", asked, v)
  PROVE  CallOK(s, b, c, "lost", asked, v)
  BY DEF CallOK, Tooled, Written, Waited

LEMMA ResumesOK ==
  ASSUME NEW s, NEW b, NEW c \in Calls, NEW asked, NEW v, c[1] # Entry,
         CallOK(s, b, c, "waiting", asked, v)
  PROVE  CallOK(s, b, c, "called", asked, v)
  BY DEF CallOK, Tooled, Written, Waited

-----------------------------------------------------------------------------
(* Where the queue leads while a run works.                                *)

\* While a run works, its end is not queued and the stream still tells.
LEMMA Tells ==
  ASSUME Queued, run.phase = "working", queue \in Seq(Events)
  PROVE  ~Ending /\ Exempt = {None} \cup retried /\ Telling
  BY DEF Queued, Ending, Exempt, Telling, Finals

LEMMA TellsThen ==
  ASSUME Queued', run'.phase = "working", queue' \in Seq(Events)
  PROVE  ~Ending' /\ Exempt' = {None} \cup retried' /\ Telling'
  BY DEF Queued, Ending, Exempt, Telling, Finals

\* A report is one more piece of the queue, and leads where it says.
LEMMA ReportedAhead ==
  ASSUME Working, Queued, Ahead, run.phase = "working", run'.phase = "working",
         retried \subseteq retried', retried' \subseteq Group,
         NEW b \in Boards, Leads(Exempt, Board(client, sent), queue, b),
         NEW q \in Seq(Events), NEW d \in Boards, Leads(retried, b, q, d),
         stream' \in Streams, queue' = queue \o q, UNCHANGED <<order, sent, client, last>>,
         Agrees(d)'
  PROVE  Queued' /\ Ahead'
<1>1. queue \in Seq(Events) /\ Exempt = {None} \cup retried
  BY Tells DEF Ahead
<1>2. None \notin retried /\ None \notin retried'
  BY GroupFields
<1>3. \A i \in 1..Len(q) : q[i].type \notin Finals
  BY <1>2, NoFinals
<1>4. \A i \in 1..Len(queue) : queue[i].type \notin Finals
  BY DEF Queued
<1>5. queue' \in Seq(Events) /\ \A i \in 1..Len(queue') : queue'[i].type \notin Finals
  BY <1>1, <1>3, <1>4
<1>6. Queued'
  BY <1>5 DEF Queued, Finals
<1>7. Exempt' = {None} \cup retried'
  BY <1>5, <1>6, TellsThen
<1>8. Leads(Exempt', Board(client, sent), queue, b)
  BY <1>1, <1>7, LeadsMore
<1>9. Leads(Exempt', b, q, d)
  BY <1>7, LeadsMore
<1>10. Leads(Exempt', Board(client, sent), queue', d)
  BY <1>1, <1>8, <1>9, LeadsJoin, Zenon
<1>11. Board(client, sent)' = Board(client, sent)
  OBVIOUS
<1> QED
  BY <1>5, <1>6, <1>10, <1>11 DEF Ahead

\* While the run tells, this is what agrees.
LEMMA AgreesThen ==
  ASSUME NEW d, Telling', CardsTold(d)', Begun(d)', CallsTold(d)'
  PROVE  Agrees(d)'
  BY DEF Agrees, CallsTold, CallOK

\* A call that goes on belongs to an invocation of its worker.
LEMMA OfInvocation ==
  ASSUME Working, NEW c \in Calls
  PROVE  /\ c[1] = Entry \/ call[c] \in {"none", "over", "lost"} \/ V(c[1]) \in Group
         /\ V(c[1])[1] = c[1]
<1>1. c[1] \in Workers
  BY CallFields
<1>2. call[c] \in {"called", "running", "returned", "waiting", "streaming"} => work[c[1]] # "idle"
  BY DEF Working, Stated
<1>3. c[1] # Entry /\ work[c[1]] # "idle" => V(c[1]) \in Group
  BY <1>1, AtWork DEF Working, Workers
<1>4. call[c] \in States
  BY DEF Working, Types, States
<1> QED
  BY <1>2, <1>3, <1>4 DEF V, States

\* All calls are told as they are where none is touched.
LEMMA CallsToldKept ==
  ASSUME Working, NEW b, NEW d, CallsTold(b), CallsKept(stream, b, stream', d),
         UNCHANGED <<call, asks, made>>
  PROVE  CallsTold(d)'
<1>1. ASSUME NEW c \in Calls
      PROVE  CallOK(stream', d, c, call[c], asks[c] # None, V(c[1]))
  <2>1. CallOK(stream, b, c, call[c], asks[c] # None, V(c[1])) /\ CallKept(stream, b, stream', d, c)
    BY DEF CallsTold, CallsKept
  <2> QED
    BY <2>1, OfInvocation, CallKeptOK
<1>2. \A c \in Calls : V(c[1])' = V(c[1])
  BY DEF V
<1> QED
  BY <1>1, <1>2 DEF CallsTold

\* An active invocation speaks: its card is, or is again, active.
LEMMA OpensKept ==
  ASSUME Working, stream \in Streams, NEW b \in Boards, CardsTold(b), Begun(b),
         NEW a \in Agents, Active(a),
         NEW d, NEW p, CardOpens(stream, b, stream', d, V(a), p),
         UNCHANGED <<work, host, made, truth, retried>>
  PROVE  CardsTold(d)' /\ Begun(d)'
<1>1. V(a) \in Group /\ truth[V(a)] = "working"
  BY AtWork DEF Working, Books, Active
<1>2. b.card[V(a)] # "none"
  BY <1>1 DEF CardsTold
<1>3. \A g \in Group : d.parent[g] = b.parent[g] /\ (g # V(a) => d.card[g] = b.card[g])
  BY <1>2 DEF CardOpens
<1>4. V(a) \in Range(stream.begun) /\ Tree(stream, b)
  BY DEF Begun
<1>5. d.parent[V(a)] = None \/ d.parent[V(a)] \in Range(stream.begun)
  <2>1. PICK i \in DOMAIN stream.begun : stream.begun[i] = V(a)
    BY <1>4 DEF Range
  <2>2. b.parent[V(a)] # None => \E j \in 1..(i - 1) : stream.begun[j] = b.parent[V(a)]
    BY <1>4, <2>1 DEF Tree
  <2>3. stream.begun \in Seq(Group)
    BY StreamFields
  <2>4. \A j \in 1..(i - 1) : stream.begun[j] \in Range(stream.begun)
    BY <2>1, <2>3 DEF Range
  <2> QED
    BY <1>1, <1>3, <2>2, <2>4
<1>6. /\ Tree(stream', d) /\ Range(stream.begun) \subseteq Range(stream'.begun)
      /\ d.card[V(a)] = "active"
  BY <1>1, <1>4, <1>5, TreeOpens
<1>7. \A x \in Agents : (Active(x)' <=> Active(x)) /\ V(x)' = V(x)
  BY DEF Active, V
<1>8. Begun(d)'
  BY <1>6, <1>7 DEF Begun
<1>9. CardsTold(d)'
  <2>1. ASSUME NEW g \in Group
        PROVE  /\ g \notin retried => d.card[g] = CardFor(truth'[g])
               /\ d.card[g] = "none" <=> truth[g] = "none"
    <3>1. CASE g = V(a)
      BY <1>1, <1>6, <3>1 DEF CardFor
    <3>2. CASE g # V(a)
      BY <1>3, <3>2 DEF CardsTold, CardFor
    <3> QED
      BY <3>1, <3>2
  <2>2. \A x \in Agents : work[x] # "idle" => V(x) \in Group
    BY AtWork DEF Working
  <2>3. \A x \in Agents : work[x] # "idle" /\ d.parent[V(x)] # None =>
                            host[x][1] \in Agents /\ d.parent[V(x)] = V(host[x][1])
    BY <1>3, <2>2 DEF CardsTold
  <2> QED
    BY <2>1, <2>3 DEF CardsTold, V
<1> QED
  BY <1>8, <1>9

\* The queue leads to the board b, that agrees with the workers.
Foretells(b) ==
  /\ b \in Boards /\ Leads(Exempt, Board(client, sent), queue, b)
  /\ CardsTold(b) /\ Begun(b) /\ CallsTold(b)

\* While a run works its queue foretells some board.
LEMMA QueueForetells ==
  ASSUME IInv, run.phase = "working"
  PROVE  stream \in Streams /\ \E b : Foretells(b)
<1>1. PICK b \in Boards : Leads(Exempt, Board(client, sent), queue, b) /\ Agrees(b)
  BY DEF IInv, Ahead
<1>2. Telling
  BY Tells DEF IInv, Ahead
<1> QED
  BY <1>1, <1>2 DEF Agrees, Foretells, IInv, Ahead

\* A report puts its events on the queue.
LEMMA ReportOf ==
  ASSUME NEW a \in Agents, NEW r, NEW chat, Report(a, r, chat), NEW t, NEW q,
         Translate(stream, G(a), r) = [s |-> t, out |-> q]
  PROVE  stream' = t /\ queue' = queue \o q /\ UNCHANGED <<order, sent, client, last>>
<1>1. a # Entry
  BY AgentNotEntry
<1> QED
  BY <1>1 DEF Report

\* Where a report leads to a board that agrees, the invariant is kept.
LEMMA ReportsKept ==
  ASSUME IInv, Working', run.phase = "working", run'.phase = "working",
         retried \subseteq retried',
         NEW b, Foretells(b), NEW q \in Seq(Events), NEW d \in Boards, Leads(retried, b, q, d),
         stream' \in Streams, queue' = queue \o q, UNCHANGED <<order, sent, client, last>>,
         CardsTold(d)', Begun(d)', CallsTold(d)'
  PROVE  IInv'
<1>1. queue' \in Seq(Events) /\ Telling'
  <2>1. /\ queue \in Seq(Events) /\ None \notin retried
        /\ \A i \in 1..Len(queue) : queue[i].type \notin Finals
    BY GroupFields DEF IInv, Ahead, Queued, Working, Types
  <2>2. \A i \in 1..Len(q) : q[i].type \notin Finals
    BY <2>1, NoFinals
  <2>3. queue' \in Seq(Events) /\ \A i \in 1..Len(queue') : queue'[i].type \notin Finals
    BY <2>1, <2>2
  <2> QED
    BY <2>3 DEF Telling, Ending, Finals
<1>2. Agrees(d)'
  BY <1>1, AgreesThen
<1>3. retried' \subseteq Group
  BY DEF Working, Types
<1> QED
  BY <1>2, <1>3, ReportedAhead DEF IInv, Foretells

\* Each action keeps the invariant: the model says something,
LEMMA SaysKept ==
  ASSUME IInv, NEW a \in Agents, work[a] = "thinking", NEW kind \in {"token", "reasoning"},
         Report(a, Told(kind), <<>>), UNCHANGED <<run, workers, publisher>>
  PROVE  IInv'
<1>1. Working' /\ Active(a) /\ work[a] # "idle"
  BY WorkersKept DEF IInv, Working, Types, Active
<1>2. run.phase = "working" /\ run'.phase = "working" /\ V(a) \in Group /\ G(a) = V(a)
  BY <1>1, UnderEntry, AtWork DEF IInv, Working
<1>3. stream \in Streams
  BY DEF IInv, Ahead
<1>4. PICK b : Foretells(b)
  BY <1>2, QueueForetells
<1>5. kind \in {"start", "token", "reasoning"} /\ b \in Boards
  BY <1>4 DEF Foretells
<1>6. PICK t, q, d : /\ Reported(retried, stream, b, V(a), Told(kind), t, q, d)
                     /\ CardOpens(stream, b, t, d, V(a), Under(stream, V(a), None))
                     /\ CallsKept(stream, b, t, d)
  BY <1>2, <1>3, <1>5, Speaks
<1>7. stream' = t /\ queue' = queue \o q /\ UNCHANGED <<order, sent, client, last>>
  BY <1>2, <1>6, ReportOf DEF Reported
<1>8. CardsTold(d)' /\ Begun(d)'
  BY <1>1, <1>3, <1>4, <1>6, <1>7, OpensKept DEF IInv, Foretells, workers
<1>9. CallsTold(d)'
  BY <1>4, <1>6, <1>7, CallsToldKept DEF IInv, Foretells, workers
<1> QED
  BY <1>1, <1>2, <1>4, <1>6, <1>7, <1>8, <1>9, ReportsKept DEF Reported, workers

\* One call is touched, and the others are as they were.
LEMMA CallsToldBut ==
  ASSUME Working, NEW b, NEW d, CallsTold(b), NEW c \in Calls, NEW k,
         \A e \in Calls \ {c} : CallKept(stream, b, stream', d, e),
         \A e \in Calls \ {c} : call'[e] = call[e], call'[c] = k,
         UNCHANGED <<asks, made>>, CallOK(stream', d, c, k, asks[c] # None, V(c[1]))
  PROVE  CallsTold(d)'
<1>1. ASSUME NEW e \in Calls, e # c
      PROVE  CallOK(stream', d, e, call[e], asks[e] # None, V(e[1]))
  <2>1. CallOK(stream, b, e, call[e], asks[e] # None, V(e[1])) /\ CallKept(stream, b, stream', d, e)
    BY <1>1 DEF CallsTold
  <2> QED
    BY <2>1, OfInvocation, CallKeptOK
<1>2. \A e \in Calls : V(e[1])' = V(e[1])
  BY DEF V
<1>3. ASSUME NEW e \in Calls
      PROVE  CallOK(stream', d, e, call'[e], asks'[e] # None, V(e[1])')
  BY <1>1, <1>2
<1> QED
  BY <1>3 DEF CallsTold

\* The model writes a call.
LEMMA WritesKept ==
  ASSUME IInv, NEW a \in Agents, NEW c \in Calls, NEW written \in BOOLEAN, Writes(a, c, written)
  PROVE  IInv'
<1>1. /\ Working' /\ Active(a) /\ work[a] # "idle" /\ c[1] = a /\ call[c] \in {"none", "streaming"}
      /\ UNCHANGED <<run, work, host, asks, answered, made, errors, truth, retried, publisher>>
      /\ Report(a, R("tool_input", c, written), <<>>)
  BY WritesWorking DEF IInv, Writes, Active, NextCall
<1>2. run.phase = "working" /\ run'.phase = "working" /\ V(a) \in Group /\ G(a) = V(a)
  BY <1>1, UnderEntry, AtWork DEF IInv, Working
<1>3. stream \in Streams
  BY DEF IInv, Ahead
<1>4. PICK b : Foretells(b)
  BY <1>2, QueueForetells
<1>5. b \in Boards /\ c[1] # Entry /\ V(a)[1] = c[1]
  BY <1>1, <1>4, AgentNotEntry DEF Foretells, V
<1>6. CallOK(stream, b, c, call[c], asks[c] # None, V(a))
  BY <1>1, <1>4 DEF Foretells, CallsTold
<1>7. c \notin stream.seg[V(a)].ended /\ c \notin stream.known
  BY <1>1, <1>2, <1>5, <1>6, CallUnsaid
<1>80. V(a) \in Group /\ b \in Boards
  BY <1>2, <1>5
<1>81. PICK t, q, d : /\ Reported(retried, stream, b, V(a), R("tool_input", c, written), t, q, d)
                      /\ CardOpens(stream, b, t, d, V(a), Under(stream, V(a), None))
                      /\ CallWrites(stream, b, t, d, V(a), c)
  BY <1>80, <1>3, <1>7, WritesCall
<1>8. /\ Reported(retried, stream, b, V(a), R("tool_input", c, written), t, q, d)
      /\ CardOpens(stream, b, t, d, V(a), Under(stream, V(a), None))
      /\ CallsOnly(stream, b, t, d, V(a), c) /\ CallStarts(stream, b, t, d, V(a), c)
      /\ d.tool[c] = IF stream.seg[V(a)].args[c] = "unsent" THEN "open" ELSE b.tool[c]
      /\ c \notin t.seg[V(a)].ended
  BY <1>81 DEF CallWrites
<1>9. stream' = t /\ queue' = queue \o q /\ UNCHANGED <<order, sent, client, last>>
  BY <1>1, <1>2, <1>8, ReportOf DEF Reported
<1>10. CardsTold(d)' /\ Begun(d)'
  BY <1>1, <1>3, <1>4, <1>8, <1>9, OpensKept DEF IInv, Foretells
<1>11. CallOK(t, d, c, "streaming", asks[c] # None, V(a))
  BY <1>1, <1>2, <1>5, <1>6, <1>8, WritesOK
<1>12. call'[c] = "streaming" /\ \A e \in Calls \ {c} : call'[e] = call[e]
  BY DEF IInv, Working, Types, Writes
<1>13. CallsTold(d)'
  BY <1>1, <1>4, <1>8, <1>9, <1>11, <1>12, CallsToldBut DEF IInv, Foretells, CallsOnly
<1> QED
  BY <1>1, <1>2, <1>4, <1>8, <1>9, <1>10, <1>13, ReportsKept DEF Reported

\* Cards are told as they are where none changes and no delegate begins.
LEMMA CardsSame ==
  ASSUME NEW b, CardsTold(b), Begun(b), NEW d, CardsKept(stream, b, stream', d),
         UNCHANGED <<host, made, truth, retried>>,
         \A a \in Agents : Active(a)' => Active(a),
         \A a \in Agents : work[a] = "idle" => work'[a] = "idle"
  PROVE  CardsTold(d)' /\ Begun(d)'
<1>1. \A a \in Agents : V(a)' = V(a)
  BY DEF V
<1>2. Tree(stream', d)
  BY TreeKept DEF Begun
<1>3. Begun(d)'
  BY <1>1, <1>2 DEF Begun, CardsKept
<1>4. CardsTold(d)'
  <2>1. \A g \in Group : CardFor(truth'[g]) = CardFor(truth[g])
    BY DEF CardFor
  <2>2. d.card = b.card /\ d.parent = b.parent
    BY DEF CardsKept
  <2>3. \A g \in Group : /\ g \notin retried => d.card[g] = CardFor(truth'[g])
                         /\ d.card[g] = "none" <=> truth[g] = "none"
    BY <2>1, <2>2 DEF CardsTold
  <2>4. \A a \in Agents : work'[a] # "idle" /\ d.parent[V(a)] # None =>
                            host[a][1] \in Agents /\ d.parent[V(a)] = V(host[a][1])
    BY <2>2 DEF CardsTold
  <2> QED
    BY <2>3, <2>4 DEF CardsTold, V
<1> QED
  BY <1>3, <1>4

\* A call starts, or has its result; the entry agent says something.
LEMMA StartsToolKept ==
  ASSUME IInv, NEW x \in Workers, NEW c \in CallsOf(x), StartsTool(x, c)
  PROVE  IInv'
<1>1. /\ Working' /\ c \in Calls /\ c[1] = x /\ call[c] = "called" /\ work[x] = "acting"
      /\ call' = [call EXCEPT ![c] = "running"]
      /\ UNCHANGED <<run, work, host, asks, answered, made, errors, truth, retried, publisher>>
      /\ Report(x, R("tool_start", c, TRUE),
            <<E("call_start", Chat, c, ChatMessage), E("call_args", Chat, c, None),
              E("call_end", Chat, c, None)>>)
  BY StartsToolWorking DEF IInv, StartsTool, CallsOf, Working, Stated
<1>2. call'[c] = "running" /\ \A e \in Calls \ {c} : call'[e] = call[e]
  BY <1>1 DEF IInv, Working, Types
<1>3. stream \in Streams
  BY DEF IInv, Ahead
<1>4. CASE x \in Agents
  <2>1. Active(x) /\ work[x] # "idle"
    BY <1>1, <1>4 DEF Active
  <2>2. run.phase = "working" /\ run'.phase = "working" /\ V(x) \in Group /\ G(x) = V(x)
    BY <1>1, <1>4, <2>1, UnderEntry, AtWork DEF IInv, Working
  <2>3. PICK b : Foretells(b)
    BY <2>2, QueueForetells
  <2>4. b \in Boards /\ c[1] # Entry /\ V(x)[1] = c[1]
    BY <1>1, <1>4, <2>3, AgentNotEntry DEF Foretells, V
  <2>5. CallOK(stream, b, c, "called", asks[c] # None, V(x))
    BY <1>1, <2>3 DEF Foretells, CallsTold
  <2>6. PICK t, q, d : /\ Reported(retried, stream, b, V(x), R("tool_start", c, TRUE), t, q, d)
                       /\ CardOpens(stream, b, t, d, V(x), Under(stream, V(x), None))
                       /\ CallGoes(stream, b, t, d, V(x), c)
    <3>1. c \in Calls /\ V(x) \in Group /\ b \in Boards
      BY <1>1, <2>2, <2>4
    <3> QED
      BY <1>3, <3>1, StartsCall, Zenon
  <2>7. stream' = t /\ queue' = queue \o q /\ UNCHANGED <<order, sent, client, last>>
    BY <1>1, <1>4, <2>2, <2>6, ReportOf DEF Reported
  <2>8. CardsTold(d)' /\ Begun(d)'
    BY <1>1, <1>3, <1>4, <2>1, <2>3, <2>6, <2>7, OpensKept DEF IInv, Foretells
  <2>9. CallOK(t, d, c, "running", asks[c] # None, V(x))
    BY <1>1, <2>2, <2>4, <2>5, <2>6, StartsOK
  <2>10. CallsTold(d)'
    BY <1>1, <1>2, <2>3, <2>6, <2>7, <2>9, CallsToldBut
    DEF IInv, Foretells, CallsOnly, CallGoes, CallDone
  <2> QED
    BY <1>1, <2>2, <2>3, <2>6, <2>7, <2>8, <2>10, ReportsKept DEF Reported
<1>5. CASE x = Entry
  <2>1. run.phase = "working" /\ run'.phase = "working" /\ c[1] = Entry /\ asks[c] = None
        /\ run.no \in Nat
    BY <1>1, <1>5 DEF IInv, Working, Stated, Types
  <2>2. PICK b : Foretells(b)
    BY <2>1, QueueForetells
  <2>3. b \in Boards /\ CallOK(stream, b, c, "called", FALSE, V(c[1]))
    BY <1>1, <2>1, <2>2 DEF Foretells, CallsTold
  <2>4. ChatMessage \in Ids
    BY <2>1 DEF ChatMessage, Ids, Scopes
  <2>5. PICK q : q = <<E("call_start", Chat, c, ChatMessage), E("call_args", Chat, c, None),
                       E("call_end", Chat, c, None)>>
    OBVIOUS
  <2>6. stream' = stream /\ queue' = queue \o q /\ UNCHANGED <<order, sent, client, last>>
    BY <1>1, <1>5, <2>5 DEF Report
  <2>7. c \in Calls /\ b \in Boards
    BY <1>1, <2>3
  <2>8. PICK d : ChatTold(retried, b, q, d, c, "ended", Browser \cup b.waiting)
    BY <2>4, <2>5, <2>7, ChatStarts
  <2>9. /\ CardsKept(stream, b, stream', d)
        /\ \A e \in Calls \ {c} : CallKept(stream, b, stream', d, e)
    BY <2>6, <2>8 DEF CardsKept, CallKept, Others, ChatTold
  <2>10. CardsTold(d)' /\ Begun(d)'
    BY <1>1, <2>2, <2>8, <2>9, CardsSame DEF Foretells, Active, ChatTold
  <2>11. CallOK(stream, d, c, "running", FALSE, V(c[1]))
    BY <1>1, <2>1, <2>3, <2>8, ChatStartsOK DEF ChatTold
  <2>12. CallOK(stream', d, c, "running", asks[c] # None, V(c[1]))
    BY <2>1, <2>6, <2>11
  <2>13. CallsTold(d)'
    BY <1>1, <1>2, <2>2, <2>9, <2>12, CallsToldBut DEF IInv, Foretells
  <2> QED
    BY <1>1, <1>3, <2>1, <2>2, <2>6, <2>8, <2>10, <2>13, ReportsKept DEF ChatTold
<1> QED
  BY <1>4, <1>5 DEF Workers

LEMMA EndsToolKept ==
  ASSUME IInv, NEW x \in Workers, NEW c \in CallsOf(x), EndsTool(x, c)
  PROVE  IInv'
<1>1. /\ Working' /\ c \in Calls /\ c[1] = x /\ call[c] \in {"running", "returned"}
      /\ work[x] = "acting" /\ call' = [call EXCEPT ![c] = "over"]
      /\ UNCHANGED <<run, work, host, asks, answered, made, errors, truth, retried, publisher>>
      /\ Report(x, R("tool_end", c, TRUE), <<E("result", Chat, c, <<Chat, "result", c[2]>>)>>)
  BY EndsToolWorking DEF IInv, EndsTool, CallsOf, Working, Stated
<1>2. call'[c] = "over" /\ \A e \in Calls \ {c} : call'[e] = call[e]
  BY <1>1 DEF IInv, Working, Types
<1>3. stream \in Streams
  BY DEF IInv, Ahead
<1>4. CASE x \in Agents
  <2>1. Active(x) /\ work[x] # "idle"
    BY <1>1, <1>4 DEF Active
  <2>2. run.phase = "working" /\ run'.phase = "working" /\ V(x) \in Group /\ G(x) = V(x)
    BY <1>1, <1>4, <2>1, UnderEntry, AtWork DEF IInv, Working
  <2>3. PICK b : Foretells(b)
    BY <2>2, QueueForetells
  <2>4. b \in Boards /\ c[1] # Entry /\ V(x)[1] = c[1]
    BY <1>1, <1>4, <2>3, AgentNotEntry DEF Foretells, V
  <2>5. CallOK(stream, b, c, call[c], asks[c] # None, V(x))
    BY <1>1, <2>3 DEF Foretells, CallsTold
  <2>6. c \in stream.seg[V(x)].ended
    BY <1>1, <2>4, <2>5 DEF CallOK, Written
  <2>7. PICK t, q, d : /\ Reported(retried, stream, b, V(x), R("tool_end", c, TRUE), t, q, d)
                       /\ CardOpens(stream, b, t, d, V(x), Under(stream, V(x), None))
                       /\ CallDone(stream, b, t, d, V(x), c)
    <3>1. c \in Calls /\ V(x) \in Group /\ b \in Boards
      BY <1>1, <2>2, <2>4
    <3> QED
      BY <1>3, <2>6, <3>1, EndsCall, Zenon
  <2>8. stream' = t /\ queue' = queue \o q /\ UNCHANGED <<order, sent, client, last>>
    BY <1>1, <1>4, <2>2, <2>7, ReportOf DEF Reported
  <2>9. CardsTold(d)' /\ Begun(d)'
    BY <1>1, <1>3, <1>4, <2>1, <2>3, <2>7, <2>8, OpensKept DEF IInv, Foretells
  <2>10. CallOK(t, d, c, "over", asks[c] # None, V(x))
    BY <1>1, <2>2, <2>4, <2>5, <2>7, EndsOK
  <2>11. CallsTold(d)'
    BY <1>1, <1>2, <2>3, <2>7, <2>8, <2>10, CallsToldBut
    DEF IInv, Foretells, CallsOnly, CallGoes, CallDone
  <2> QED
    BY <1>1, <2>2, <2>3, <2>7, <2>8, <2>9, <2>11, ReportsKept DEF Reported
<1>5. CASE x = Entry
  <2>1. run.phase = "working" /\ run'.phase = "working" /\ c[1] = Entry
    BY <1>1, <1>5 DEF IInv, Working, Stated, Types
  <2>2. PICK b : Foretells(b)
    BY <2>1, QueueForetells
  <2>3. b \in Boards /\ CallOK(stream, b, c, call[c], asks[c] # None, V(c[1]))
    BY <1>1, <2>1, <2>2 DEF Foretells, CallsTold
  <2>4. <<Chat, "result", c[2]>> \in Ids
    BY <1>1, CallFields DEF Ids, Scopes
  <2>5. PICK q : q = <<E("result", Chat, c, <<Chat, "result", c[2]>>)>>
    OBVIOUS
  <2>6. stream' = stream /\ queue' = queue \o q /\ UNCHANGED <<order, sent, client, last>>
    BY <1>1, <1>5, <2>5 DEF Report
  <2>7. c \in Calls /\ b \in Boards
    BY <1>1, <2>3
  <2>8. PICK d : ChatTold(retried, b, q, d, c, "done", {})
    BY <2>4, <2>5, <2>7, ChatEnds
  <2>9. /\ CardsKept(stream, b, stream', d)
        /\ \A e \in Calls \ {c} : CallKept(stream, b, stream', d, e)
    BY <2>6, <2>8 DEF CardsKept, CallKept, Others, ChatTold
  <2>10. CardsTold(d)' /\ Begun(d)'
    BY <1>1, <2>2, <2>8, <2>9, CardsSame DEF Foretells, Active, ChatTold
  <2>11. CallOK(stream, d, c, "over", asks[c] # None, V(c[1]))
    BY <1>1, <2>1, <2>3, <2>8, ChatEndsOK DEF ChatTold
  <2>12. CallOK(stream', d, c, "over", asks[c] # None, V(c[1]))
    BY <2>6, <2>11
  <2>13. CallsTold(d)'
    BY <1>1, <1>2, <2>2, <2>9, <2>12, CallsToldBut DEF IInv, Foretells
  <2> QED
    BY <1>1, <1>3, <2>1, <2>2, <2>6, <2>8, <2>10, <2>13, ReportsKept DEF ChatTold
<1> QED
  BY <1>4, <1>5 DEF Workers

LEMMA EntrySaysKept ==
  ASSUME IInv, EntrySays
  PROVE  IInv'
<1>1. /\ run.phase = "working" /\ run.no \in Nat /\ run' = [run EXCEPT !.said = @ + 1]
      /\ UNCHANGED <<workers, publisher>>
  BY DEF IInv, Working, Types, Stated, EntrySays
<1>2. /\ run' \in [no : 0..MaxRuns, phase : {"idle", "working", "finishing"}, said : Nat]
      /\ run'.phase = "working"
  BY <1>1 DEF IInv, Working, Types
<1>3. Working'
  BY <1>1, <1>2, WorkersKept DEF IInv
<1>4. PICK b : Foretells(b)
  BY <1>1, QueueForetells
<1>5. PICK q : q = <<E("text_start", Chat, ChatMessage, None), E("text", Chat, ChatMessage, None),
                     E("text_end", Chat, ChatMessage, None)>>
  OBVIOUS
<1>6. stream' = stream /\ queue' = queue \o q /\ UNCHANGED <<order, sent, client, last>>
  BY <1>5 DEF EntrySays, Report
<1>7. ChatMessage \in Ids
  BY <1>1 DEF ChatMessage, Ids, Scopes
<1>8. b \in Boards /\ q \in Seq(Events) /\ Leads(retried, b, q, b)
  BY <1>4, <1>5, <1>7, ChatSpeaks DEF Foretells
<1>9. CardsKept(stream, b, stream', b) /\ CallsKept(stream, b, stream', b)
  BY <1>6, KeptSame
<1>10. CardsTold(b)' /\ Begun(b)'
  BY <1>1, <1>4, <1>9, CardsSame DEF Foretells, Active, workers
<1>11. CallsTold(b)'
  BY <1>1, <1>4, <1>9, CallsToldKept DEF IInv, Foretells, workers
<1>12. stream' \in Streams
  BY <1>6 DEF IInv, Ahead
<1> QED
  BY <1>1, <1>2, <1>3, <1>4, <1>6, <1>8, <1>10, <1>11, <1>12, ReportsKept DEF workers

\* Where nothing is reported, the queue leads where it did.
LEMMA UnreportedKept ==
  ASSUME IInv, Working', UNCHANGED <<run, retried, stream, wire>>,
         NEW b, Foretells(b), run.phase = "working",
         CardsTold(b)', Begun(b)', CallsTold(b)'
  PROVE  IInv'
<1>1. b \in Boards /\ Leads(retried, b, <<>>, b) /\ <<>> \in Seq(Events)
  BY LeadsEmpty DEF Foretells
<1>2. queue' = queue \o <<>> /\ UNCHANGED <<order, sent, client, last>> /\ stream' \in Streams
  BY DEF wire, IInv, Ahead
<1> QED
  BY <1>1, <1>2, ReportsKept

\* Calls change, but not what is told of them.
LEMMA CallsToldChange ==
  ASSUME Working, NEW b, NEW d, CallsTold(b), CallsKept(stream, b, stream', d), UNCHANGED made,
         \A c \in Calls :
           \/ call'[c] = call[c] /\ (asks'[c] # None <=> asks[c] # None)
           \/ /\ CallOK(stream, b, c, call'[c], asks'[c] # None, V(c[1]))
              /\ c[1] = Entry \/ work[c[1]] # "idle"
  PROVE  CallsTold(d)'
<1>1. ASSUME NEW c \in Calls
      PROVE  /\ CallOK(stream, b, c, call'[c], asks'[c] # None, V(c[1]))
             /\ c[1] = Entry \/ call'[c] \in {"none", "over", "lost"} \/ V(c[1]) \in Group
  <2>1. CASE call'[c] = call[c] /\ (asks'[c] # None <=> asks[c] # None)
    <3>1. CallOK(stream, b, c, call[c], asks[c] # None, V(c[1]))
      BY DEF CallsTold
    <3>2. (asks'[c] # None) = (asks[c] # None)
      BY <2>1
    <3> QED
      BY <2>1, <3>1, <3>2, OfInvocation
  <2>2. CASE c[1] = Entry \/ work[c[1]] # "idle"
    <3>1. c[1] \in Workers
      BY CallFields
    <3>2. c[1] = Entry \/ V(c[1]) \in Group
      BY <2>2, <3>1, AtWork DEF Working, Workers
    <3> QED
      BY <2>1, <3>2
  <2> QED
    BY <2>1, <2>2
<1>2. ASSUME NEW c \in Calls
      PROVE  CallOK(stream', d, c, call'[c], asks'[c] # None, V(c[1]))
  <2>1. CallKept(stream, b, stream', d, c)
    BY DEF CallsKept
  <2> QED
    BY <1>1, <2>1, CallKeptOK
<1>3. \A c \in Calls : V(c[1])' = V(c[1])
  BY DEF V
<1> QED
  BY <1>2, <1>3 DEF CallsTold

\* The model's turn ends, a step is over, a call waits: nothing is reported.
LEMMA EndsTurnKept ==
  ASSUME IInv, NEW x \in Workers, NEW whole \in SUBSET CallsOf(x), EndsTurn(x, whole)
  PROVE  IInv'
<1>1. /\ Working' /\ work[x] = "thinking" /\ work' = [work EXCEPT ![x] = "acting"]
      /\ UNCHANGED <<run, host, asks, answered, made, errors, truth, retried, publisher,
                     stream, wire>>
  BY EndsTurnWorking DEF IInv, EndsTurn
<1>2. \A c \in Calls : \/ call'[c] = call[c]
                       \/ /\ c[1] = x /\ call'[c] = "called" /\ call[c] \in {"none", "streaming"}
  BY DEF EndsTurn, InState, CallsOf, NextCall
<1>3. run.phase = "working"
  BY <1>1, UnderEntry DEF IInv, Working, Workers, Active, Stated
<1>4. PICK b : Foretells(b)
  BY <1>3, QueueForetells
<1>5. CardsKept(stream, b, stream', b) /\ CallsKept(stream, b, stream', b)
  BY <1>1, KeptSame
<1>6. /\ \A a \in Agents : Active(a)' => Active(a)
      /\ \A a \in Agents : work[a] = "idle" => work'[a] = "idle"
  BY <1>1, AgentNotEntry DEF IInv, Working, Types, Active
<1>7. CardsTold(b)' /\ Begun(b)'
  BY <1>1, <1>4, <1>5, <1>6, CardsSame DEF Foretells
<1>8. ASSUME NEW c \in Calls, call'[c] # call[c]
      PROVE  CallOK(stream, b, c, call'[c], asks'[c] # None, V(c[1])) /\ work[c[1]] # "idle"
  <2>1. c[1] = x /\ call'[c] = "called" /\ call[c] \in {"none", "streaming"}
    BY <1>2, <1>8
  <2>2. CallOK(stream, b, c, call[c], asks[c] # None, V(c[1]))
    BY <1>4 DEF Foretells, CallsTold
  <2>3. call[c] = "streaming" => c[1] # Entry
    BY DEF IInv, Working, Stated
  <2>4. CallOK(stream, b, c, "called", asks[c] # None, V(c[1]))
    BY <2>1, <2>2, <2>3, CalledOK
  <2> QED
    BY <1>1, <2>1, <2>4
<1>9. CallsTold(b)'
  BY <1>1, <1>4, <1>5, <1>8, CallsToldChange DEF IInv, Foretells
<1> QED
  BY <1>1, <1>3, <1>4, <1>7, <1>9, UnreportedKept

LEMMA NextTurnKept ==
  ASSUME IInv, NEW x \in Workers, NextTurn(x)
  PROVE  IInv'
<1>1. /\ Working' /\ work[x] = "acting" /\ work' = [work EXCEPT ![x] = "thinking"]
      /\ UNCHANGED <<run, call, host, asks, answered, made, errors, truth, retried,
                     publisher, stream, wire>>
  BY NextTurnWorking DEF IInv, NextTurn
<1>3. run.phase = "working"
  BY <1>1, UnderEntry DEF IInv, Working, Workers, Active, Stated
<1>4. PICK b : Foretells(b)
  BY <1>3, QueueForetells
<1>5. CardsKept(stream, b, stream', b) /\ CallsKept(stream, b, stream', b)
  BY <1>1, KeptSame
<1>6. /\ \A a \in Agents : Active(a)' => Active(a)
      /\ \A a \in Agents : work[a] = "idle" => work'[a] = "idle"
  BY <1>1, AgentNotEntry DEF IInv, Working, Types, Active
<1>7. CardsTold(b)' /\ Begun(b)'
  BY <1>1, <1>4, <1>5, <1>6, CardsSame DEF Foretells
<1>9. CallsTold(b)'
  BY <1>1, <1>4, <1>5, CallsToldKept DEF IInv, Foretells
<1> QED
  BY <1>1, <1>3, <1>4, <1>7, <1>9, UnreportedKept

LEMMA WaitsKept ==
  ASSUME IInv, NEW x \in Workers, NEW c \in CallsOf(x), NEW request \in Calls,
         Waits(x, c, request)
  PROVE  IInv'
<1>1. /\ Working' /\ c \in Calls /\ c[1] = x /\ call[c] = "running" /\ work[x] = "acting"
      /\ call' = [call EXCEPT ![c] = "waiting"] /\ asks' = [asks EXCEPT ![c] = request]
      /\ UNCHANGED <<run, work, host, answered, made, errors, truth, retried, publisher, stream, wire>>
  BY WaitsWorking DEF IInv, Waits, CallsOf, Working, Stated
<1>2. /\ call'[c] = "waiting" /\ \A e \in Calls \ {c} : call'[e] = call[e] /\ asks'[e] = asks[e]
  BY <1>1 DEF IInv, Working, Types
<1>3. run.phase = "working"
  BY <1>1, UnderEntry DEF IInv, Working, Workers, Active, Stated
<1>4. PICK b : Foretells(b)
  BY <1>3, QueueForetells
<1>5. CardsKept(stream, b, stream', b) /\ CallsKept(stream, b, stream', b)
  BY <1>1, KeptSame
<1>6. CardsTold(b)' /\ Begun(b)'
  BY <1>1, <1>4, <1>5, CardsSame DEF Foretells, Active
<1>7. asks[c] # None => c \notin Browser
  <2>1. asks[c] # None => \E a \in Hosted(c) : work[a] = "paused"
    BY DEF Waits
  <2> QED
    BY <2>1, AtWork DEF Hosted, IInv, Working
<1>8. CallOK(stream, b, c, "waiting", asks'[c] # None, V(c[1]))
  <2>1. CallOK(stream, b, c, "running", asks[c] # None, V(c[1]))
    BY <1>1, <1>4 DEF Foretells, CallsTold
  <2> QED
    BY <1>1, <1>7, <2>1, WaitsOK
<1>9. CallsTold(b)'
  BY <1>1, <1>2, <1>4, <1>5, <1>8, CallsToldChange DEF IInv, Foretells
<1> QED
  BY <1>1, <1>3, <1>4, <1>6, <1>9, UnreportedKept

\* Nothing is open under an invocation none of whose calls runs.
LEMMA NoneUnder ==
  ASSUME Working, NEW b, CardsTold(b), NEW a \in Agents, Active(a),
         \A c \in Calls : c[1] = a => call[c] # "running",
         NEW h \in Group, b.card[h] = "active", b.parent[h] = V(a)
  PROVE  h \in retried
<1>1. SUFFICES ASSUME h \notin retried PROVE FALSE
  OBVIOUS
<1>2. truth[h] = "working"
  <2>1. truth[h] \in {"none", "working", "paused", "done", "failed"}
    BY DEF Working, Types
  <2>2. CardFor(truth[h]) = "active"
    BY <1>1 DEF CardsTold
  <2> QED
    BY <2>1, <2>2 DEF CardFor
<1>3. PICK x \in Agents : h = V(x) /\ Active(x)
  BY <1>2, GroupFields DEF Working, Books
<1>4. work[x] # "idle" /\ V(a) \in Group /\ V(a) # None
  BY <1>3, AtWork, GroupFields DEF Active, Working
<1>5. host[x] \in Calls /\ call[host[x]] = "running"
  BY <1>3, <1>4, AtWork DEF Working, Hosting
<1>6. host[x][1] \in Agents /\ V(a) = V(host[x][1])
  BY <1>3, <1>4 DEF CardsTold
<1>7. host[x][1] = a
  BY <1>6 DEF V
<1> QED
  BY <1>5, <1>7

\* An invocation's card closes, or its report is dropped.
LEMMA CardsClosed ==
  ASSUME Working, NEW b, CardsTold(b), Begun(b), NEW a \in Agents, Active(a), NEW d, NEW y,
         Tree(stream', d), stream'.begun = stream.begun, d.parent = b.parent,
         \A h \in Group : h # V(a) => d.card[h] = b.card[h],
         d.card[V(a)] # "none", V(a) \notin retried' => d.card[V(a)] = CardFor(y),
         retried \subseteq retried', made' = made, y # "none",
         truth' = [truth EXCEPT ![V(a)] = y],
         \A x \in Agents : Active(x)' => Active(x),
         \A x \in Agents : work'[x] # "idle" => work[x] # "idle" /\ host'[x] = host[x]
  PROVE  CardsTold(d)' /\ Begun(d)'
<1>1. V(a) \in Group /\ \A x \in Agents : V(x)' = V(x)
  BY AtWork DEF Working, Active, V
<1>2. truth'[V(a)] = y /\ \A h \in Group : h # V(a) => truth'[h] = truth[h]
  BY <1>1 DEF Working, Types
<1>3. Begun(d)'
  BY <1>1 DEF Begun
<1>4. ASSUME NEW h \in Group
      PROVE  /\ h \notin retried' => d.card[h] = CardFor(truth'[h])
             /\ d.card[h] = "none" <=> truth'[h] = "none"
  <2>1. CASE h = V(a)
    BY <1>2, <2>1
  <2>2. CASE h # V(a)
    <3>1. CardFor(truth'[h]) = CardFor(truth[h])
      BY <1>2, <2>2 DEF CardFor
    <3> QED
      BY <1>2, <2>2, <3>1 DEF CardsTold
  <2> QED
    BY <2>1, <2>2
<1>5. \A x \in Agents : work'[x] # "idle" /\ d.parent[V(x)] # None =>
                          host'[x][1] \in Agents /\ d.parent[V(x)] = V(host'[x][1])
  BY DEF CardsTold
<1> QED
  BY <1>1, <1>3, <1>4, <1>5 DEF CardsTold, V

\* An invocation's report that it stops, or that a model call failed.
LEMMA ClosesCard ==
  ASSUME IInv, NEW a \in Agents, Active(a), \A c \in Calls : c[1] = a => call[c] # "running",
         NEW b, Foretells(b), NEW how \in Closings, Report(a, Told(how), <<>>),
         NEW y, y # "none", truth' = [truth EXCEPT ![V(a)] = y],
         CardFor(y) = how \/ V(a) \in retried', retried \subseteq retried', made' = made,
         \A x \in Agents : Active(x)' => Active(x),
         \A x \in Agents : work'[x] # "idle" => work[x] # "idle" /\ host'[x] = host[x]
  PROVE  \E q \in Seq(Events), d \in Boards :
            /\ Leads(retried, b, q, d) /\ stream' \in Streams /\ queue' = queue \o q
            /\ UNCHANGED <<order, sent, client, last>>
            /\ CardsTold(d)' /\ Begun(d)' /\ CallsKept(stream, b, stream', d)
<1>1. work[a] # "idle" /\ V(a) \in Group /\ G(a) = V(a)
  BY AtWork DEF IInv, Working, Active
<1>2. stream \in Streams /\ b \in Boards
  BY DEF IInv, Ahead, Foretells
<1>3. \A h \in Group : b.card[h] = "active" /\ b.parent[h] = V(a) => h \in retried
  BY NoneUnder DEF IInv, Foretells
<1>4. PICK t, q, d : /\ Reported(retried, stream, b, V(a), Told(how), t, q, d)
                     /\ CardCloses(stream, b, t, d, V(a), how) /\ CallsKept(stream, b, t, d)
  BY <1>1, <1>2, <1>3, EndsSegment
<1>5. stream' = t /\ queue' = queue \o q /\ UNCHANGED <<order, sent, client, last>>
  BY <1>1, <1>4, ReportOf DEF Reported
<1>6. CardsTold(d)' /\ Begun(d)'
  <2>1. Tree(stream', d)
    BY <1>1, <1>2, <1>4, <1>5, TreeCloses DEF Foretells, Begun
  <2>2. truth[V(a)] = "working"
    BY DEF IInv, Working, Books
  <2>3. b.card[V(a)] # "none" /\ (V(a) \notin retried => b.card[V(a)] = "active")
    BY <1>1, <2>2 DEF Foretells, CardsTold, CardFor
  <2>4. stream.seg[V(a)].open <=> b.card[V(a)] = "active"
    BY <1>1 DEF Foretells, Begun, Tree
  <2>5. d.card[V(a)] # "none" /\ (V(a) \notin retried' => d.card[V(a)] = CardFor(y))
    BY <1>1, <1>4, <2>3, <2>4 DEF CardCloses, Closings
  <2>6. /\ stream'.begun = stream.begun /\ d.parent = b.parent
        /\ \A h \in Group : h # V(a) => d.card[h] = b.card[h]
    BY <1>4, <1>5 DEF CardCloses
  <2>7. Working /\ CardsTold(b) /\ Begun(b)
    BY DEF IInv, Foretells
  <2> QED
    BY <2>1, <2>5, <2>6, <2>7, CardsClosed
<1> QED
  BY <1>4, <1>5, <1>6 DEF Reported

\* An invocation silenced by a model call that failed reports nothing.
LEMMA SilentCard ==
  ASSUME IInv, NEW a \in Agents, Active(a), publisher[a].errored,
         NEW b, Foretells(b), Report(a, Nothing, <<>>),
         NEW y, y # "none", truth' = [truth EXCEPT ![V(a)] = y],
         retried' = retried, made' = made,
         \A x \in Agents : Active(x)' => Active(x),
         \A x \in Agents : work'[x] # "idle" => work[x] # "idle" /\ host'[x] = host[x]
  PROVE  \E q \in Seq(Events), d \in Boards :
            /\ Leads(retried, b, q, d) /\ stream' \in Streams /\ queue' = queue \o q
            /\ UNCHANGED <<order, sent, client, last>>
            /\ CardsTold(d)' /\ Begun(d)' /\ CallsKept(stream, b, stream', d)
<1>1. V(a) \in Group
  BY AtWork DEF IInv, Working, Active
<1>2. Translate(stream, G(a), Nothing) = [s |-> stream, out |-> <<>>]
  BY DEF Translate, Nothing, Told, R
<1>3. stream' = stream /\ queue' = queue \o <<>> /\ UNCHANGED <<order, sent, client, last>>
  BY <1>2, ReportOf
<1>4. /\ b \in Boards /\ <<>> \in Seq(Events) /\ Leads(retried, b, <<>>, b)
      /\ CallsKept(stream, b, stream', b) /\ stream' \in Streams
  BY <1>3, LeadsEmpty, KeptSame DEF Foretells, IInv, Ahead
<1>5. V(a) \in retried /\ truth[V(a)] = "working"
  BY DEF IInv, Working, Books
<1>6. b.card[V(a)] # "none" /\ Tree(stream', b) /\ stream'.begun = stream.begun
  BY <1>1, <1>3, <1>5 DEF Foretells, CardsTold, Begun
<1>7. Working /\ CardsTold(b) /\ Begun(b) /\ V(a) \in retried'
  BY <1>5 DEF IInv, Foretells
<1>8. CardsTold(b)' /\ Begun(b)'
  BY <1>6, <1>7, CardsClosed
<1> QED
  BY <1>3, <1>4, <1>8

\* A delegate pauses, is done, or loses a model call.
LEMMA PausesKept ==
  ASSUME IInv, NEW a \in Agents, Pauses(a)
  PROVE  IInv'
<1>1. /\ Working' /\ work[a] = "acting" /\ \A c \in Calls : c[1] = a => call[c] # "running"
      /\ work' = [work EXCEPT ![a] = "paused"] /\ truth' = [truth EXCEPT ![V(a)] = "paused"]
      /\ Report(a, IF publisher[a].errored THEN Nothing ELSE Told("suspended"), <<>>)
      /\ UNCHANGED <<run, host, answered, made, errors, retried, publisher>>
  BY PausesWorking DEF IInv, Pauses, InState, CallsOf
<1>2. PICK w \in Calls : /\ w[1] = a /\ call[w] = "waiting"
                         /\ call' = [call EXCEPT ![host[a]] = "waiting"]
                         /\ asks' = [asks EXCEPT ![host[a]] = asks[w]]
  BY DEF Pauses, InState, CallsOf
<1>3. Active(a) /\ work[a] # "idle"
  BY <1>1 DEF Active
<1>4. /\ run.phase = "working" /\ run'.phase = "working"
      /\ host[a] \in Calls /\ call[host[a]] = "running" /\ host[a] \notin Browser
      /\ work[host[a][1]] # "idle"
  BY <1>1, <1>3, UnderEntry, AtWork DEF IInv, Working, Hosting, Stated
<1>5. PICK b : Foretells(b)
  BY <1>4, QueueForetells
<1>6. "suspended" \in Closings /\ CardFor("paused") = "suspended"
  BY DEF Closings, CardFor
<1>7. /\ \A x \in Agents : Active(x)' => Active(x)
      /\ \A x \in Agents : work'[x] # "idle" => work[x] # "idle" /\ host'[x] = host[x]
  BY <1>1, <1>3, AgentNotEntry DEF IInv, Working, Types, Active
<1>8. PICK q \in Seq(Events), d \in Boards :
         /\ Leads(retried, b, q, d) /\ stream' \in Streams /\ queue' = queue \o q
         /\ UNCHANGED <<order, sent, client, last>>
         /\ CardsTold(d)' /\ Begun(d)' /\ CallsKept(stream, b, stream', d)
  <2>1. CASE ~publisher[a].errored
    <3>1. Report(a, Told("suspended"), <<>>)
      BY <1>1, <2>1
    <3> QED
      BY <1>1, <1>3, <1>5, <1>6, <1>7, <3>1, ClosesCard
  <2>2. CASE publisher[a].errored
    <3>1. Report(a, Nothing, <<>>)
      BY <1>1, <2>2
    <3> QED
      BY <1>1, <1>3, <1>5, <1>7, <2>2, <3>1, SilentCard
  <2> QED
    BY <2>1, <2>2
<1>9. CallsTold(d)'
  <2>1. \A c \in Calls : c # host[a] => call'[c] = call[c] /\ asks'[c] = asks[c]
    BY <1>2 DEF IInv, Working, Types
  <2>2. call'[host[a]] = "waiting"
    BY <1>2, <1>4 DEF IInv, Working, Types
  <2>3. CallOK(stream, b, host[a], "running", asks[host[a]] # None, V(host[a][1]))
    BY <1>4, <1>5 DEF Foretells, CallsTold
  <2>4. CallOK(stream, b, host[a], "waiting", asks'[host[a]] # None, V(host[a][1]))
    BY <1>4, <2>3, WaitsOK
  <2> QED
    BY <1>1, <1>4, <1>5, <1>8, <2>1, <2>2, <2>4, CallsToldChange DEF IInv, Foretells
<1> QED
  BY <1>1, <1>4, <1>5, <1>8, <1>9, ReportsKept

LEMMA CompletesKept ==
  ASSUME IInv, NEW a \in Agents, Completes(a)
  PROVE  IInv'
<1>1. /\ Working' /\ work[a] = "thinking"
      /\ work' = [work EXCEPT ![a] = "idle"] /\ truth' = [truth EXCEPT ![V(a)] = "done"]
      /\ call' = [call EXCEPT ![host[a]] = "returned"] /\ host' = [host EXCEPT ![a] = None]
      /\ Report(a, IF publisher[a].errored THEN Nothing ELSE Told("completed"), <<>>)
      /\ UNCHANGED <<run, asks, answered, made, errors, retried, publisher>>
  BY CompletesWorking DEF IInv, Completes
<1>2. \A c \in Calls : c[1] = a => call[c] # "running"
  BY <1>1 DEF IInv, Working, Stated
<1>3. Active(a) /\ work[a] # "idle"
  BY <1>1 DEF Active
<1>4. /\ run.phase = "working" /\ run'.phase = "working" /\ V(a) \in Group /\ G(a) = V(a)
      /\ host[a] \in Calls /\ call[host[a]] = "running" /\ host[a] \notin Browser
      /\ work[host[a][1]] # "idle"
  BY <1>1, <1>3, UnderEntry, AtWork DEF IInv, Working, Hosting, Stated
<1>5. PICK b : Foretells(b)
  BY <1>4, QueueForetells
<1>6. /\ \A x \in Agents : Active(x)' => Active(x)
      /\ \A x \in Agents : work'[x] # "idle" => work[x] # "idle" /\ host'[x] = host[x]
  <2>1. \A x \in Agents : x # a => work'[x] = work[x] /\ host'[x] = host[x]
    BY <1>1, AgentNotEntry DEF IInv, Working, Types
  <2>2. work'[a] = "idle"
    BY <1>1, AgentNotEntry DEF IInv, Working, Types
  <2> QED
    BY <2>1, <2>2 DEF Active
<1>7. \E q \in Seq(Events), d \in Boards :
         /\ Leads(retried, b, q, d) /\ stream' \in Streams /\ queue' = queue \o q
         /\ UNCHANGED <<order, sent, client, last>>
         /\ CardsTold(d)' /\ Begun(d)' /\ CallsKept(stream, b, stream', d)
  <2>1. CASE ~publisher[a].errored
    <3>1. "completed" \in Closings /\ CardFor("done") = "completed"
      BY DEF Closings, CardFor
    <3>2. Report(a, Told("completed"), <<>>)
      BY <1>1, <2>1
    <3> QED
      BY <1>1, <1>2, <1>3, <1>5, <1>6, <3>1, <3>2, ClosesCard
  <2>2. CASE publisher[a].errored
    <3>1. Report(a, Nothing, <<>>)
      BY <1>1, <2>2
    <3> QED
      BY <1>1, <1>3, <1>5, <1>6, <2>2, <3>1, SilentCard
  <2> QED
    BY <2>1, <2>2
<1>8. PICK q \in Seq(Events), d \in Boards :
         /\ Leads(retried, b, q, d) /\ stream' \in Streams /\ queue' = queue \o q
         /\ UNCHANGED <<order, sent, client, last>>
         /\ CardsTold(d)' /\ Begun(d)' /\ CallsKept(stream, b, stream', d)
  BY <1>7
<1>9. CallsTold(d)'
  <2>1. \A c \in Calls : c # host[a] => call'[c] = call[c] /\ asks'[c] = asks[c]
    BY <1>1 DEF IInv, Working, Types
  <2>2. call'[host[a]] = "returned"
    BY <1>1, <1>4 DEF IInv, Working, Types
  <2>3. CallOK(stream, b, host[a], "running", asks[host[a]] # None, V(host[a][1]))
    BY <1>4, <1>5 DEF Foretells, CallsTold
  <2>4. CallOK(stream, b, host[a], "returned", asks'[host[a]] # None, V(host[a][1]))
    BY <1>4, <2>3, WaitsOK
  <2> QED
    BY <1>1, <1>4, <1>5, <1>8, <2>1, <2>2, <2>4, CallsToldChange DEF IInv, Foretells
<1> QED
  BY <1>1, <1>4, <1>5, <1>8, <1>9, ReportsKept

LEMMA ModelFailsKept ==
  ASSUME IInv, NEW a \in Agents, NEW retry \in BOOLEAN, ModelFails(a, retry)
  PROVE  IInv'
<1>1. /\ Working' /\ work[a] = "thinking"
      /\ work' = [work EXCEPT ![a] = IF retry THEN @ ELSE "idle"]
      /\ call' = [c \in Calls |-> IF c \in InState(a, {"streaming"}) THEN "lost"
                                   ELSE IF c = host[a] /\ ~retry THEN "returned" ELSE call[c]]
      /\ host' = [host EXCEPT ![a] = IF retry THEN @ ELSE None]
      /\ truth' = [truth EXCEPT ![V(a)] = IF retry THEN @ ELSE "failed"]
      /\ retried' = IF retry THEN retried \cup {V(a)} ELSE retried
      /\ Report(a, Told("error"), <<>>)
      /\ UNCHANGED <<run, asks, answered, made>>
  BY ModelFailsWorking DEF IInv, ModelFails
<1>2. \A c \in Calls : c[1] = a => call[c] # "running"
  BY <1>1 DEF IInv, Working, Stated
<1>3. Active(a) /\ work[a] # "idle"
  BY <1>1 DEF Active
<1>4. /\ run.phase = "working" /\ run'.phase = "working" /\ V(a) \in Group
      /\ host[a] \in Calls /\ call[host[a]] = "running" /\ host[a] \notin Browser
      /\ work[host[a][1]] # "idle"
  BY <1>1, <1>3, UnderEntry, AtWork DEF IInv, Working, Hosting, Stated
<1>5. PICK b : Foretells(b)
  BY <1>4, QueueForetells
<1>6. /\ \A x \in Agents : Active(x)' => Active(x)
      /\ \A x \in Agents : work'[x] # "idle" => work[x] # "idle" /\ host'[x] = host[x]
  <2>1. \A x \in Agents : x # a => work'[x] = work[x] /\ host'[x] = host[x]
    BY <1>1, AgentNotEntry DEF IInv, Working, Types
  <2>2. IF retry THEN work'[a] = work[a] /\ host'[a] = host[a] ELSE work'[a] = "idle"
    BY <1>1, AgentNotEntry DEF IInv, Working, Types
  <2> QED
    BY <1>3, <2>1, <2>2 DEF Active
<1>7. PICK q \in Seq(Events), d \in Boards :
         /\ Leads(retried, b, q, d) /\ stream' \in Streams /\ queue' = queue \o q
         /\ UNCHANGED <<order, sent, client, last>>
         /\ CardsTold(d)' /\ Begun(d)' /\ CallsKept(stream, b, stream', d)
  <2>1. "error" \in Closings /\ CardFor("failed") = "error" /\ retried \subseteq retried'
    BY <1>1 DEF Closings, CardFor
  <2>2. truth[V(a)] = "working"
    BY <1>3 DEF IInv, Working, Books
  <2>3. PICK y : y = IF retry THEN "working" ELSE "failed"
    OBVIOUS
  <2>4. y # "none" /\ (CardFor(y) = "error" \/ V(a) \in retried')
    BY <1>1, <2>1, <2>3
  <2>5. truth' = [truth EXCEPT ![V(a)] = y]
    BY <1>1, <1>4, <2>2, <2>3
  <2> QED
    BY <1>1, <1>2, <1>3, <1>5, <1>6, <2>1, <2>4, <2>5, ClosesCard
<1>8. CallsTold(d)'
  <2>1. ASSUME NEW c \in Calls
        PROVE  \/ call'[c] = call[c]
               \/ /\ CallOK(stream, b, c, call'[c], asks'[c] # None, V(c[1]))
                  /\ c[1] = Entry \/ work[c[1]] # "idle"
    <3>1. CallOK(stream, b, c, call[c], asks[c] # None, V(c[1]))
      BY <1>5 DEF Foretells, CallsTold
    <3>2. CASE c[1] = a /\ call[c] = "streaming"
      <4>1. call'[c] = "lost" /\ c[1] # Entry
        BY <1>1, <3>2, AgentNotEntry DEF InState, CallsOf
      <4> QED
        BY <1>1, <1>3, <3>1, <3>2, <4>1, LostOK
    <3>3. CASE ~(c[1] = a /\ call[c] = "streaming") /\ c = host[a] /\ ~retry
      <4>1. call'[c] = "returned"
        BY <1>1, <3>3 DEF InState, CallsOf
      <4> QED
        BY <1>1, <1>4, <3>1, <3>3, <4>1, WaitsOK
    <3>4. CASE ~(c[1] = a /\ call[c] = "streaming") /\ ~(c = host[a] /\ ~retry)
      BY <1>1, <3>4 DEF InState, CallsOf
    <3> QED
      BY <3>2, <3>3, <3>4
  <2> QED
    BY <1>1, <1>5, <1>7, <2>1, CallsToldChange DEF IInv, Foretells
<1>9. retried \subseteq retried'
  BY <1>1
<1> QED
  BY <1>1, <1>4, <1>5, <1>7, <1>8, <1>9, ReportsKept

\* A paused delegate goes on: its card opens again under the one it was under.
LEMMA ResumesKept ==
  ASSUME IInv, NEW a \in Agents, Resumes(a)
  PROVE  IInv'
<1>1. /\ Working' /\ work[a] = "paused" /\ call[host[a]] = "running"
      /\ work' = [work EXCEPT ![a] = "acting"] /\ truth' = [truth EXCEPT ![V(a)] = "working"]
      /\ call' = [c \in Calls |-> IF c \in InState(a, {"waiting"}) THEN "called" ELSE call[c]]
      /\ Report(a, Told("start"), <<>>)
      /\ UNCHANGED <<run, host, asks, answered, made, errors, retried>>
  BY ResumesWorking DEF IInv, Resumes
<1>2. /\ work[a] # "idle" /\ V(a) \in Group /\ G(a) = V(a) /\ host[a] \in Calls
      /\ truth[V(a)] = "paused" /\ \A x \in Agents : V(x)' = V(x)
  BY <1>1, AtWork DEF IInv, Working, Books, V
<1>3. /\ work[host[a][1]] = "acting" /\ host[a][1] \in Workers
      /\ host[a][1] \in Agents => Active(host[a][1])
  BY <1>1, <1>2, CallFields DEF IInv, Working, Stated, Active
<1>4. run.phase = "working" /\ run'.phase = "working"
  <2>1. CASE host[a][1] = Entry
    BY <1>1, <1>3, <2>1 DEF IInv, Working, Stated
  <2>2. CASE host[a][1] \in Agents
    BY <1>1, <1>3, <2>2, UnderEntry DEF IInv, Working
  <2> QED
    BY <1>3, <2>1, <2>2 DEF Workers
<1>5. PICK b : Foretells(b)
  BY <1>4, QueueForetells
<1>6. stream \in Streams /\ b \in Boards
  BY <1>5 DEF IInv, Ahead, Foretells
<1>7. PICK t, q, d : /\ Reported(retried, stream, b, V(a), Told("start"), t, q, d)
                     /\ CardOpens(stream, b, t, d, V(a), Under(stream, V(a), None))
                     /\ CallsKept(stream, b, t, d)
  BY <1>2, <1>6, Speaks
<1>8. stream' = t /\ queue' = queue \o q /\ UNCHANGED <<order, sent, client, last>>
  BY <1>1, <1>2, <1>7, ReportOf DEF Reported
<1>9. b.card[V(a)] # "none"
  BY <1>2, <1>5 DEF Foretells, CardsTold
<1>10. \A h \in Group : d.parent[h] = b.parent[h] /\ (h # V(a) => d.card[h] = b.card[h])
  BY <1>7, <1>9 DEF CardOpens
<1>11. d.parent[V(a)] = None \/ d.parent[V(a)] \in Range(stream.begun)
  <2>1. b.parent[V(a)] # None => host[a][1] \in Agents /\ b.parent[V(a)] = V(host[a][1])
    BY <1>2, <1>5 DEF Foretells, CardsTold
  <2>2. host[a][1] \in Agents => V(host[a][1]) \in Range(stream.begun)
    BY <1>3, <1>5 DEF Foretells, Begun
  <2> QED
    BY <1>2, <1>10, <2>1, <2>2
<1>12. /\ Tree(t, d) /\ V(a) \in Range(t.begun) /\ Range(stream.begun) \subseteq Range(t.begun)
       /\ d.card[V(a)] = "active"
  BY <1>2, <1>5, <1>6, <1>7, <1>11, TreeOpens DEF Foretells, Begun
<1>13. work'[a] = "acting" /\ \A x \in Agents : x # a => work'[x] = work[x]
  BY <1>1, AgentNotEntry DEF IInv, Working, Types
<1>14. Begun(d)'
  <2>1. ASSUME NEW x \in Agents, Active(x)'
        PROVE  V(x) \in Range(t.begun)
    BY <1>5, <1>12, <1>13, <2>1 DEF Active, Foretells, Begun
  <2> QED
    BY <1>2, <1>8, <1>12, <2>1 DEF Begun
<1>15. CardsTold(d)'
  <2>1. ASSUME NEW h \in Group
        PROVE  /\ h \notin retried => d.card[h] = CardFor(truth'[h])
               /\ d.card[h] = "none" <=> truth'[h] = "none"
    <3>1. CASE h = V(a)
      <4>1. truth'[h] = "working" /\ CardFor("working") = "active"
        BY <1>1, <1>2, <3>1 DEF IInv, Working, Types, CardFor
      <4> QED
        BY <1>12, <3>1, <4>1
    <3>2. CASE h # V(a)
      <4>1. truth'[h] = truth[h] /\ d.card[h] = b.card[h]
        BY <1>1, <1>10, <3>2 DEF IInv, Working, Types
      <4>2. CardFor(truth'[h]) = CardFor(truth[h])
        BY <4>1
      <4> QED
        BY <1>5, <4>1, <4>2 DEF Foretells, CardsTold
    <3> QED
      BY <3>1, <3>2
  <2>2. ASSUME NEW x \in Agents, work'[x] # "idle", d.parent[V(x)] # None
        PROVE  host[x][1] \in Agents /\ d.parent[V(x)] = V(host[x][1])
    <3>1. work[x] # "idle" /\ V(x) \in Group
      BY <1>1, <1>13, <2>2, AtWork DEF IInv, Working
    <3> QED
      BY <1>5, <1>10, <2>2, <3>1 DEF Foretells, CardsTold
  <2>3. \A x \in Agents : host'[x] = host[x]
    BY <1>1
  <2>4. retried' = retried
    BY <1>1
  <2>5. ASSUME NEW x \in Agents, work'[x] # "idle", d.parent[V(x)'] # None
        PROVE  host'[x][1] \in Agents /\ d.parent[V(x)'] = <<host'[x][1], made'[host'[x][1]]>>
    BY <1>1, <1>2, <2>2, <2>3, <2>5 DEF V
  <2> QED
    BY <2>1, <2>4, <2>5 DEF CardsTold, V
<1>16. CallsTold(d)'
  <2>1. ASSUME NEW c \in Calls
        PROVE  \/ call'[c] = call[c]
               \/ /\ CallOK(stream, b, c, call'[c], asks'[c] # None, V(c[1]))
                  /\ c[1] = Entry \/ work[c[1]] # "idle"
    <3>1. CASE c[1] = a /\ call[c] = "waiting"
      <4>1. call'[c] = "called" /\ asks' = asks /\ c[1] # Entry
        BY <1>1, <3>1, AgentNotEntry DEF InState, CallsOf
      <4>2. CallOK(stream, b, c, "waiting", asks[c] # None, V(c[1]))
        BY <1>5, <3>1 DEF Foretells, CallsTold
      <4> QED
        BY <1>2, <3>1, <4>1, <4>2, ResumesOK
    <3>2. CASE ~(c[1] = a /\ call[c] = "waiting")
      BY <1>1, <3>2 DEF InState, CallsOf
    <3> QED
      BY <3>1, <3>2
  <2> QED
    BY <1>1, <1>5, <1>7, <1>8, <2>1, CallsToldChange DEF IInv, Foretells
<1> QED
  BY <1>1, <1>4, <1>5, <1>7, <1>8, <1>14, <1>15, <1>16, ReportsKept DEF Reported

\* Delegates work for calls whose workers work.
LEMMA HostsAtWork ==
  ASSUME Working, NEW a \in Agents, work[a] # "idle"
  PROVE  host[a] \in Calls /\ work[host[a][1]] # "idle"
<1>1. host[a] \in Calls
  BY AtWork DEF Working
<1>2. call[host[a]] \in {"waiting", "called", "running"}
  <2>1. work[a] \in {"thinking", "acting", "paused"}
    BY AgentNotEntry DEF Working, Types
  <2> QED
    BY <2>1 DEF Working, Hosting, Active
<1> QED
  BY <1>1, <1>2 DEF Working, Stated

\* A call that runs, runs in a run.
LEMMA RunsInRun ==
  ASSUME Working, NEW c \in Calls, call[c] = "running"
  PROVE  /\ run.phase = "working" /\ work[c[1]] = "acting" /\ c[1] \in Workers
         /\ c[1] \in Agents => Active(c[1])
<1>1. /\ work[c[1]] = "acting" /\ c[1] \in Workers /\ (c[1] \in Agents => Active(c[1]))
  BY CallFields DEF Working, Stated, Active
<1>2. CASE c[1] = Entry
  BY <1>1, <1>2 DEF Working, Stated
<1>3. CASE c[1] \in Agents
  BY <1>1, <1>3, UnderEntry DEF Working
<1> QED
  BY <1>1, <1>2, <1>3 DEF Workers

\* A delegate begins: its card opens under that of the call it works for.
LEMMA BeginsKept ==
  ASSUME IInv, NEW a \in Agents, NEW c \in Calls, Begins(a, c)
  PROVE  IInv'
<1>1. /\ Working' /\ made'[a] = made[a] + 1 /\ V(a)' \in Group /\ publisher[a].count + 1 = made'[a]
      /\ work[a] = "idle" /\ call[c] = "running"
      /\ work' = [work EXCEPT ![a] = "thinking"] /\ host' = [host EXCEPT ![a] = c]
      /\ made' = [made EXCEPT ![a] = @ + 1]
      /\ UNCHANGED <<run, call, asks, answered, errors, retried, order, sent, client, last>>
  BY BeginsWorking DEF IInv, Begins
<1>2. PICK g : g = <<a, made'[a]>>
  OBVIOUS
<1>3. /\ g \in Group /\ truth' = [truth EXCEPT ![g] = "working"]
      /\ stream' = Begin(stream, g, c).s /\ queue' = queue \o Begin(stream, g, c).out
  BY <1>1, <1>2 DEF Begins, V
<1>4. /\ run.phase = "working" /\ run'.phase = "working"
      /\ work[c[1]] = "acting" /\ c[1] \in Workers /\ (c[1] \in Agents => Active(c[1]))
  BY <1>1, RunsInRun DEF IInv
<1>5. PICK b : Foretells(b)
  BY <1>4, QueueForetells
<1>6. stream \in Streams /\ b \in Boards /\ Tree(stream, b)
  BY <1>5 DEF IInv, Ahead, Foretells, Begun
<1>7. PICK d \in Boards : /\ Leads(retried, b, Begin(stream, g, c).out, d)
                          /\ CallsKept(stream, b, stream', d)
                          /\ CardOpens(stream, b, stream', d, g, Under(stream, g, c))
                          /\ stream' \in Streams /\ Begin(stream, g, c).out \in Seq(Events)
  BY <1>3, <1>6, BeginDoes
<1>8. truth[g] = "none" /\ b.card[g] = "none"
  <2>1. g[2] > made[g[1]]
    BY <1>1, <1>2 DEF IInv, Working, Types
  <2> QED
    BY <1>3, <1>5, <2>1 DEF IInv, Working, Books, Foretells, CardsTold
<1>9. ~stream.seg[g].open /\ g \notin Range(stream.begun)
  BY <1>3, <1>6, <1>8 DEF Tree, Range
<1>10. /\ d.parent[g] = Under(stream, g, c) /\ d.card[g] = "active"
       /\ \A h \in Group : h # g => d.parent[h] = b.parent[h] /\ d.card[h] = b.card[h]
  BY <1>7, <1>8, <1>9 DEF CardOpens
<1>11. d.parent[g] # None =>
         c[1] \in Agents /\ d.parent[g] = V(c[1]) /\ stream.seg[d.parent[g]].open
               /\ d.parent[g] \in Group
  <2>1. CallOK(stream, b, c, "running", asks[c] # None, V(c[1]))
    BY <1>1, <1>5 DEF Foretells, CallsTold
  <2>2. stream.owner[c] = None \/ (c[1] # Entry /\ stream.owner[c] = V(c[1]))
    BY <2>1 DEF CallOK, Written
  <2>3. c # None /\ stream.owner[c] \in Group \cup {None}
    BY <1>6, CallFields, StreamFields
  <2>4. Under(stream, g, c) = IF stream.owner[c] # None /\ stream.seg[stream.owner[c]].open
                              THEN stream.owner[c] ELSE None
    BY <1>9, <2>3 DEF Under
  <2> QED
    BY <1>4, <1>10, <2>2, <2>3, <2>4 DEF Workers
<1>12. d.parent[g] = None \/ d.parent[g] \in Range(stream.begun)
  BY <1>6, <1>11 DEF Tree
<1>13. /\ Tree(stream', d) /\ g \in Range(stream'.begun)
       /\ Range(stream.begun) \subseteq Range(stream'.begun)
  <2>1. /\ g \in Group /\ CardOpens(stream, b, stream', d, g, Under(stream, g, c))
        /\ stream.seg[g].open \/ d.parent[g] = None \/ d.parent[g] \in Range(stream.begun)
    BY <1>3, <1>7, <1>12
  <2> QED
    BY <1>6, <2>1, TreeOpens, Zenon
<1>14. /\ work'[a] = "thinking" /\ host'[a] = c /\ c[1] # a /\ V(a)' = g
       /\ \A x \in Agents \ {a} : /\ work'[x] = work[x] /\ host'[x] = host[x]
                                  /\ made'[x] = made[x] /\ V(x)' = V(x) /\ V(x) # g
  BY <1>1, <1>2, <1>4, AgentNotEntry DEF IInv, Working, Types, V
<1>15. Begun(d)'
  <2>1. ASSUME NEW x \in Agents, Active(x)'
        PROVE  V(x)' \in Range(stream'.begun)
    <3>1. CASE x = a
      BY <1>13, <1>14, <3>1
    <3>2. CASE x # a
      <4>1. Active(x)
        BY <1>14, <2>1, <3>2 DEF Active
      <4>2. V(x) \in Range(stream.begun)
        BY <1>5, <4>1 DEF Foretells, Begun
      <4> QED
        BY <1>13, <1>14, <3>2, <4>2
    <3> QED
      BY <3>1, <3>2
  <2> QED
    BY <1>13, <2>1 DEF Begun
<1>16. CardsTold(d)'
  <2>1. ASSUME NEW h \in Group
        PROVE  /\ h \notin retried => d.card[h] = CardFor(truth'[h])
               /\ d.card[h] = "none" <=> truth'[h] = "none"
    <3>1. CASE h = g
      <4>1. truth'[h] = "working" /\ CardFor("working") = "active"
        BY <1>3, <3>1 DEF IInv, Working, Types, CardFor
      <4> QED
        BY <1>10, <3>1, <4>1
    <3>2. CASE h # g
      <4>1. truth'[h] = truth[h] /\ d.card[h] = b.card[h]
        BY <1>3, <1>10, <3>2 DEF IInv, Working, Types
      <4>2. CardFor(truth'[h]) = CardFor(truth[h])
        BY <4>1
      <4> QED
        BY <1>5, <4>1, <4>2 DEF Foretells, CardsTold
    <3> QED
      BY <3>1, <3>2
  <2>2. ASSUME NEW x \in Agents, work'[x] # "idle",
               d.parent[<<x, made'[x]>>] # None
        PROVE  /\ host'[x][1] \in Agents
               /\ d.parent[<<x, made'[x]>>] = <<host'[x][1], made'[host'[x][1]]>>
    <3>1. CASE x = a
      <4>1. c[1] \in Agents /\ d.parent[g] = V(c[1])
        BY <1>2, <1>11, <2>2, <3>1
      <4>2. c[1] \in Agents \ {a} /\ host'[x] = c /\ made'[c[1]] = made[c[1]]
        BY <1>14, <3>1, <4>1
      <4> QED
        BY <1>2, <3>1, <4>1, <4>2 DEF V
    <3>2. CASE x # a
      <4>1. work[x] # "idle" /\ <<x, made'[x]>> = V(x) /\ host'[x] = host[x] /\ V(x) # g
        BY <1>14, <2>2, <3>2 DEF V
      <4>2. host[x] \in Calls /\ work[host[x][1]] # "idle" /\ V(x) \in Group
        BY <4>1, HostsAtWork, AtWork DEF IInv, Working
      <4>3. b.parent[V(x)] # None
        BY <1>10, <2>2, <4>1, <4>2
      <4>4. host[x][1] \in Agents /\ b.parent[V(x)] = V(host[x][1])
        BY <1>5, <4>1, <4>3 DEF Foretells, CardsTold
      <4>5. made'[host[x][1]] = made[host[x][1]]
        BY <1>1, <1>14, <4>2, <4>4
      <4>6. d.parent[V(x)] = V(host[x][1])
        BY <1>10, <4>1, <4>2, <4>4
      <4> QED
        BY <4>1, <4>4, <4>5, <4>6 DEF V
    <3> QED
      BY <3>1, <3>2
  <2>3. retried' = retried
    BY <1>1
  <2> QED
    BY <2>1, <2>2, <2>3 DEF CardsTold, V
<1>17. CallsTold(d)'
  <2>1. ASSUME NEW e \in Calls, NEW w, w = <<e[1], made'[e[1]]>>
        PROVE  CallOK(stream', d, e, call[e], asks[e] # None, w)
    <3>1. /\ CallOK(stream, b, e, call[e], asks[e] # None, V(e[1]))
          /\ CallKept(stream, b, stream', d, e)
      BY <1>5, <1>7 DEF Foretells, CallsTold, CallsKept
    <3>2. CallOK(stream', d, e, call[e], asks[e] # None, V(e[1]))
      BY <3>1, OfInvocation, CallKeptOK DEF IInv
    <3>3. CASE e[1] = Entry \/ e[1] = a
      <4>1. e[1] = Entry \/ call[e] \in {"none", "over", "lost"}
        <5>1. call[e] \in States
          BY DEF IInv, Working, Types, States
        <5>2. e[1] = a => call[e] \notin {"streaming", "called", "running", "returned", "waiting"}
          BY <1>1 DEF IInv, Working, Stated
        <5> QED
          BY <3>3, <5>1, <5>2 DEF States
      <4> QED
        BY <3>2, <4>1, CallOKIdle
    <3>4. CASE e[1] # Entry /\ e[1] # a
      <4>1. e[1] \in Agents \ {a}
        BY <3>4, CallFields DEF Workers
      <4>2. w = V(e[1])
        BY <1>14, <2>1, <4>1 DEF V
      <4> QED
        BY <3>2, <4>2
    <3> QED
      BY <3>3, <3>4
  <2>2. call' = call /\ asks' = asks
    BY <1>1
  <2>3. ASSUME NEW e \in Calls
        PROVE  CallOK(stream', d, e, call'[e], asks'[e] # None, <<e[1], made'[e[1]]>>)
    BY <2>1, <2>2
  <2> QED
    BY <2>3 DEF CallsTold, V
<1> QED
  BY <1>1, <1>3, <1>4, <1>5, <1>7, <1>15, <1>16, <1>17, ReportsKept

-----------------------------------------------------------------------------
(* A run's start and end, and what is sent.                                *)

\* What agrees with the workers agrees with them while no delegate does anything.
LEMMA AgreesStill ==
  ASSUME NEW b, Agrees(b), UNCHANGED <<call, host, asks, made, truth, retried, stream>>,
         \A a \in Agents : work'[a] = work[a], run'.no = run.no, Telling' <=> Telling
  PROVE  Agrees(b)'
<1>1. CardsTold(b) => CardsTold(b)'
  BY DEF CardsTold, V
<1>2. CallsTold(b) => CallsTold(b)'
  BY DEF CallsTold, V
<1>3. Begun(b) => Begun(b)'
  BY DEF Begun, V, Active
<1>4. Settled(b) => Settled(b)'
  BY DEF Settled, V, Waiting, InState, CallsOf
<1>5. (\A c \in Calls : Tooled(b, c, call[c], V(c[1])))
        => \A c \in Calls : Tooled(b, c, call'[c], V(c[1])')
  BY DEF V
<1> QED
  BY <1>1, <1>2, <1>3, <1>4, <1>5 DEF Agrees

\* The queue is read from its head; its last event ends it.
LEMMA QueueGoes ==
  ASSUME Queued, queue \in Seq(Events), queue # <<>>, queue' = Tail(queue),
         Head(queue).type # "finish",
         UNCHANGED workers,
         run' = [run EXCEPT !.phase = IF Head(queue).type = "run_finished" THEN "idle" ELSE @],
         run \in [no : 0..MaxRuns, phase : {"idle", "working", "finishing"}, said : Nat]
  PROVE  /\ Queued' /\ (Telling' <=> Telling) /\ run'.no = run.no
         /\ run'.phase = "working" <=> run.phase = "working"
         /\ run' \in [no : 0..MaxRuns, phase : {"idle", "working", "finishing"}, said : Nat]
         /\ Exempt \subseteq Exempt'
<1>1. /\ Len(queue) \in Nat /\ Len(queue) >= 1 /\ Len(queue') = Len(queue) - 1
      /\ Head(queue) = queue[1] /\ \A i \in 1..Len(queue') : queue'[i] = queue[i + 1]
      /\ queue' \in Seq(Events) /\ DOMAIN queue = 1..Len(queue)
      /\ DOMAIN queue' = 1..Len(queue')
  OBVIOUS
<1>2. /\ run' \in [no : 0..MaxRuns, phase : {"idle", "working", "finishing"}, said : Nat]
      /\ run'.no = run.no
      /\ run'.phase = IF Head(queue).type = "run_finished" THEN "idle" ELSE run.phase
  OBVIOUS
<1>3. run.phase # "idle"
  BY DEF Queued
<1>4. Waiting' = Waiting /\ retried' = retried
  BY DEF Waiting, InState, CallsOf, workers
<1>5. \A i \in 1..Len(queue') : queue'[i].type = "finish" => queue'[i].id = Waiting'
  BY <1>1, <1>4 DEF Queued
<1>6. CASE Head(queue).type = "run_finished"
  <2>1. run.phase = "finishing"
    BY <1>1, <1>2, <1>3, <1>6 DEF Queued, Finals
  <2>2. Len(queue) = 1
    BY <1>1, <1>6, <2>1 DEF Queued, Finals
  <2>3. queue' = <<>> /\ run'.phase = "idle" /\ Ending /\ ~Ending'
    BY <1>1, <1>2, <1>6, <2>2 DEF Ending
  <2> QED
    BY <1>2, <1>4, <1>5, <2>1, <2>3 DEF Queued, Telling, Exempt
<1>7. CASE Head(queue).type # "run_finished"
  <2>1. Ending' <=> Ending
    <3>1. ASSUME NEW i \in DOMAIN queue, queue[i].type = "run_finished"
          PROVE  i - 1 \in 1..Len(queue') /\ queue'[i - 1].type = "run_finished"
      BY <1>1, <1>7, <3>1
    <3>2. ASSUME NEW i \in DOMAIN queue', queue'[i].type = "run_finished"
          PROVE  i + 1 \in DOMAIN queue /\ queue[i + 1].type = "run_finished"
      BY <1>1, <3>2
    <3> QED
      BY <1>1, <3>1, <3>2 DEF Ending
  <2>2. run'.phase = run.phase
    BY <1>2, <1>7
  <2>3. run.phase = "working" => \A i \in 1..Len(queue') : queue'[i].type \notin Finals
    BY <1>1 DEF Queued
  <2>4. ASSUME run.phase = "finishing"
        PROVE  /\ queue' # <<>> /\ queue'[Len(queue')].type \in Finals
               /\ \A i \in 1..(Len(queue') - 1) : queue'[i].type \notin Finals
    <3>1. Len(queue) # 1
      BY <1>1, <1>7, <2>4 DEF Queued, Finals
    <3>2. Len(queue') >= 1 /\ queue'[Len(queue')] = queue[Len(queue)]
      BY <1>1, <3>1
    <3>3. queue' # <<>> /\ queue'[Len(queue')].type \in Finals
      BY <2>4, <3>2 DEF Queued
    <3>4. \A i \in 1..(Len(queue') - 1) : queue'[i].type \notin Finals
      BY <1>1, <2>4 DEF Queued
    <3> QED
      BY <3>3, <3>4
  <2>5. Queued'
    BY <1>3, <1>5, <2>2, <2>3, <2>4 DEF Queued
  <2> QED
    BY <1>2, <1>4, <2>1, <2>2, <2>5 DEF Telling, Exempt
<1> QED
  BY <1>6, <1>7

\* An event is sent: the queue leads to the same board by one event less.
LEMMA SendKept ==
  ASSUME IInv, Send
  PROVE  IInv'
<1> DEFINE e == Head(queue)
<1>1. /\ queue # <<>> /\ e.type # "finish" /\ queue \in Seq(Events)
      /\ client' = Folds(client, Place(order, e).e) /\ sent' = Noted(sent, e)
      /\ queue' = Tail(queue) /\ UNCHANGED <<workers, publisher, stream>>
      /\ run' = [run EXCEPT !.phase = IF e.type = "run_finished" THEN "idle" ELSE @]
  BY DEF Send, IInv, Ahead
<1>2. /\ Queued' /\ (Telling' <=> Telling) /\ run'.no = run.no
      /\ run'.phase = "working" <=> run.phase = "working"
      /\ run' \in [no : 0..MaxRuns, phase : {"idle", "working", "finishing"}, said : Nat]
      /\ Exempt \subseteq Exempt'
  BY <1>1, QueueGoes DEF IInv, Working, Types
<1>3. Working'
  BY <1>1, <1>2, WorkersKept DEF IInv
<1>4. PICK b \in Boards : Leads(Exempt, Board(client, sent), queue, b) /\ Agrees(b)
  BY DEF IInv, Ahead
<1>5. /\ Fits(Exempt, Board(client, sent), e)
      /\ Leads(Exempt, Post(Board(client, sent), e), queue', b)
  BY <1>1, <1>4, LeadsHead
<1>6. /\ Client(client') /\ Notes(sent')
      /\ Board(client', sent') = Post(Board(client, sent), e)
  BY <1>1, <1>5, Sends DEF IInv, Ahead
<1>7. Board(client', sent') \in Boards
  <2>1. Leads(Exempt, Board(client, sent), <<e>>, Post(Board(client, sent), e))
    BY <1>5, LeadsOne
  <2> QED
    BY <1>6, <2>1, LeadsBoards DEF IInv, Ahead
<1>8. Leads(Exempt', Board(client', sent'), queue', b)
  BY <1>2, <1>5, <1>6, LeadsMore
<1>9. Agrees(b)'
  BY <1>1, <1>2, <1>4, AgreesStill DEF workers
<1>10. stream' \in Streams /\ queue' \in Seq(Events)
  BY <1>1 DEF IInv, Ahead
<1> QED
  BY <1>2, <1>3, <1>4, <1>6, <1>7, <1>8, <1>9, <1>10 DEF IInv, Ahead

\* What is waited for are calls.
LEMMA WaitingRequests ==
  ASSUME Working
  PROVE  Waiting \subseteq Calls
  BY DEF Working, Raised, Waiting, InState, CallsOf

\* A run's end is marked on the queue.
LEMMA EndsKept ==
  ASSUME IInv, Ends
  PROVE  IInv'
<1> DEFINE e == E("finish", Chat, Waiting, None)
<1>1. /\ Working' /\ run.phase = "working" /\ run' = [run EXCEPT !.phase = "finishing"]
      /\ queue' = Append(queue, e) /\ queue \in Seq(Events)
      /\ UNCHANGED <<call, host, asks, made, truth, retried, stream, order, sent, client>>
  BY EndsWorking DEF IInv, Ahead, Ends, Waiting
<1>2. \A a \in Agents : work'[a] = work[a]
  BY AgentNotEntry DEF IInv, Working, Types, Ends
<1>3. run'.phase = "finishing" /\ run'.no = run.no
  BY <1>1 DEF IInv, Working, Types
<1>4. e \in Events /\ e.type = "finish" /\ e.id = Waiting
  <2>1. Waiting \in Ids /\ None \in Ids /\ Chat \in Scopes /\ "finish" \in Kinds
    BY WaitingRequests DEF IInv, Ids, Scopes, Kinds
  <2> QED
    BY <2>1, MadeEvents DEF E
<1> HIDE DEF e
<1>5. /\ Len(queue) \in Nat /\ Len(queue') = Len(queue) + 1 /\ queue' \in Seq(Events)
      /\ DOMAIN queue = 1..Len(queue) /\ DOMAIN queue' = 1..Len(queue')
      /\ \A i \in 1..Len(queue) : queue'[i] = queue[i]
      /\ queue'[Len(queue')] = e /\ queue' = queue \o <<e>>
  BY <1>1, <1>4
<1>6. ~Ending /\ Exempt = {None} \cup retried /\ Telling
  BY <1>1, Tells DEF IInv
<1>7. ~Ending'
  BY <1>4, <1>5, <1>6 DEF Ending
<1>8. Telling' /\ Exempt' = Exempt
  BY <1>1, <1>3, <1>6, <1>7 DEF Telling, Exempt
<1>9. Waiting' = Waiting
  BY <1>1 DEF Waiting, InState, CallsOf
<1>10. Queued'
  <2>1. \A i \in 1..Len(queue) : queue[i].type \notin Finals
    BY <1>1 DEF IInv, Queued
  <2>2. \A i \in 1..(Len(queue') - 1) : queue'[i].type \notin Finals
    BY <1>5, <2>1
  <2>3. queue' # <<>> /\ queue'[Len(queue')].type \in Finals
    BY <1>4, <1>5 DEF Finals
  <2>4. \A i \in 1..Len(queue') : queue'[i].type = "finish" => queue'[i].id = Waiting'
    BY <1>4, <1>5, <1>9, <2>1 DEF Finals
  <2> QED
    BY <1>3, <2>2, <2>3, <2>4 DEF Queued
<1>11. PICK b \in Boards : Leads(Exempt, Board(client, sent), queue, b) /\ Agrees(b)
  BY DEF IInv, Ahead
<1>12. Leads(Exempt, Board(client, sent), queue', b)
  <2>1. Fits(Exempt, b, e)
    BY <1>4, <1>6, <1>11 DEF Fits
  <2>2. Post(b, e) = b
    BY <1>4, <1>11, FinishPosts
  <2> QED
    BY <1>1, <1>5, <1>11, <2>1, <2>2, LeadsThen
<1>13. Agrees(b)'
  BY <1>1, <1>2, <1>3, <1>6, <1>8, <1>11, AgreesStill
<1>14. Ahead'
  BY <1>1, <1>5, <1>8, <1>11, <1>12, <1>13 DEF IInv, Ahead
<1> QED
  BY <1>1, <1>10, <1>14 DEF IInv

\* Between runs no call goes on, and no delegate works.
LEMMA AtRest ==
  ASSUME Working, run.phase # "working"
  PROVE  /\ \A a \in Agents : ~Active(a)
         /\ \A c \in Calls : call[c] \in {"none", "waiting", "over", "lost"}
         /\ \A g \in Group : truth[g] # "working"
<1>1. \A a \in Agents : ~Active(a)
  BY UnderEntry DEF Working
<1>2. ASSUME NEW c \in Calls
      PROVE  call[c] \in {"none", "waiting", "over", "lost"}
  <2>1. c[1] = Entry \/ c[1] \in Agents
    BY CallFields DEF Workers
  <2>2. work[c[1]] \notin {"thinking", "acting"}
    BY <1>1, <2>1 DEF Working, Stated, Active
  <2> QED
    BY <2>2 DEF Working, Types, Stated
<1>3. \A g \in Group : truth[g] # "working"
  BY <1>1, GroupFields DEF Working, Books
<1> QED
  BY <1>1, <1>2, <1>3

\* What was announced is ended, as far as it was open.
LEMMA EndedStill ==
  ASSUME NEW b, NEW d, NEW c, NEW k, NEW v, k # "streaming", Tooled(b, c, k, v),
         d.tool[c] = b.tool[c] \/ (b.tool[c] = "open" /\ d.tool[c] = "ended"),
         d.runs[c] = b.runs[c]
  PROVE  Tooled(d, c, k, v)
  BY DEF Tooled

\* What an outcome is made of.
LEMMA OutcomeFields ==
  ASSUME NEW n, n.waiting \subseteq Calls, n.runs \in [Calls -> Group \cup {None}],
         NEW r, r \subseteq Calls
  PROVE  /\ Outcome(r, n) \in Outcomes
         /\ Outcome(r, n).approvals = {[call |-> c, run |-> n.runs[c]] : c \in r \ Browser}
         /\ Outcome(r, n).approvals = {} => Outcome(r, n).pending = n.waiting
<1>1. {[call |-> c, run |-> n.runs[c]] : c \in r \ Browser}
        \subseteq [call : Calls, run : Group \cup {None}]
  OBVIOUS
<1> QED
  BY <1>1 DEF Outcome, Outcomes

\* When the run's end is next, what is open is closed, and that is how things are.
LEMMA SettlesTold ==
  ASSUME Working, run.phase # "working", NEW b \in Boards, CardsTold(b), Begun(b), CallsTold(b),
         NEW c, NEW how \in {"suspended", "completed"}, Closed(stream, b, c, DOMAIN stream.begun, how),
         NEW d, d.card = c.card, d.parent = c.parent, d.tool = c.tool, d.runs = c.runs,
         NEW n, n.waiting = b.waiting, n.runs = b.runs, d.outcome = Outcome(Waiting, n),
         Outcome(Waiting, n).approvals
           = {[call |-> e, run |-> n.runs[e]] : e \in Waiting \ Browser},
         Outcome(Waiting, n).approvals = {} => Outcome(Waiting, n).pending = n.waiting
  PROVE  /\ CardsTold(d) /\ Settled(d)
         /\ \A e \in Calls : Tooled(d, e, call[e], V(e[1]))
<1>1. \A g \in Group : d.card[g] = IF b.card[g] = "active" THEN how ELSE b.card[g]
  BY DEF Closed, Begun, Tree, Range
<1>2. CardsTold(d)
  <2>1. ASSUME NEW g \in Group
        PROVE  /\ g \notin retried => d.card[g] = CardFor(truth[g])
               /\ d.card[g] = "none" <=> truth[g] = "none"
    <3>1. truth[g] \in {"none", "paused", "done", "failed"}
      BY AtRest DEF Working, Types
    <3>2. CardFor(truth[g]) # "active"
      BY <3>1 DEF CardFor
    <3> QED
      BY <1>1, <3>2 DEF CardsTold
  <2> QED
    BY <2>1 DEF CardsTold, Closed
<1>3. \A e \in Calls : /\ CallOK(stream, b, e, call[e], asks[e] # None, V(e[1]))
                       /\ Tooled(b, e, call[e], V(e[1]))
  BY DEF CallsTold, CallOK
<1>4. \A e \in Calls : Tooled(d, e, call[e], V(e[1]))
  <2>1. ASSUME NEW e \in Calls
        PROVE  Tooled(d, e, call[e], V(e[1]))
    <3>1. /\ call[e] # "streaming" /\ d.runs[e] = b.runs[e]
          /\ d.tool[e] = b.tool[e] \/ (b.tool[e] = "open" /\ d.tool[e] = "ended")
      BY AtRest DEF Closed
    <3> QED
      BY <1>3, <3>1, EndedStill
  <2> QED
    BY <2>1
<1>5. \A e \in Calls : d.tool[e] = "open" => call[e] = "lost"
  BY <1>4, AtRest DEF Tooled
<1>6. d.outcome.approvals = {[call |-> e, run |-> IF e[1] = Entry THEN None ELSE V(e[1])] :
                               e \in Waiting \ Browser}
  <2>1. ASSUME NEW e \in Waiting
        PROVE  n.runs[e] = IF e[1] = Entry THEN None ELSE V(e[1])
    <3>1. e \in Calls /\ call[e] = "waiting"
      BY <2>1 DEF Working, Raised, Waiting, InState, CallsOf
    <3> QED
      BY <1>3, <3>1 DEF Tooled
  <2> QED
    BY <2>1
<1>7. ASSUME d.outcome.approvals = {}
      PROVE  {e \in d.outcome.pending : call[e] # "lost"}
               = {e \in Browser \ stream.known : call[e] = "waiting"}
  <2>1. d.outcome.pending = b.waiting
    BY <1>7
  <2>2. ASSUME NEW e \in Calls
        PROVE  e \in b.waiting /\ call[e] # "lost"
                 <=> e \in Browser \ stream.known /\ call[e] = "waiting"
    <3>1. Waited(stream, b, e, call[e], asks[e] # None)
      BY <1>3 DEF CallOK
    <3> QED
      BY <1>3, <3>1, AtRest DEF Waited, Tooled
  <2>3. b.waiting \subseteq Calls /\ Browser \subseteq Calls
    BY SubagentStreamAssumption, BoardFields
  <2> QED
    BY <2>1, <2>2, <2>3
<1> QED
  BY <1>1, <1>2, <1>4, <1>5, <1>6, <1>7 DEF Settled

\* A queue of one event has no other.
LEMMA LastOne ==
  ASSUME NEW S, NEW p \in Seq(S), NEW q, p # <<>>, q = Tail(p), Len(p) = 1
  PROVE  q = <<>>
<1>1. Len(q) = 0 /\ q \in Seq(S)
  OBVIOUS
<1> QED
  BY <1>1

\* The mark of a run's end is alone in the queue when it is next.
LEMMA FinishAlone ==
  ASSUME IInv, SendFinish
  PROVE  /\ run.phase = "finishing" /\ Len(queue) = 1 /\ Head(queue) = queue[1]
         /\ Head(queue).id = Waiting /\ Tail(queue) = <<>> /\ ~Ending /\ Telling
<1>1. queue # <<>> /\ Head(queue).type = "finish" /\ queue \in Seq(Events)
  BY DEF SendFinish, IInv, Ahead
<1>2. /\ Len(queue) \in Nat /\ Len(queue) >= 1 /\ Head(queue) = queue[1]
      /\ DOMAIN queue = 1..Len(queue) /\ 1 \in 1..Len(queue)
  BY <1>1
<1>3. queue[1].type = "finish"
  BY <1>1, <1>2
<1>4. queue[1].type \in Finals
  BY <1>3 DEF Finals
<1>5. run.phase = "finishing"
  <2>1. run.phase \in {"idle", "working", "finishing"}
    BY DEF IInv, Working, Types
  <2>2. /\ run.phase = "idle" => queue = <<>>
        /\ run.phase = "working" => \A i \in 1..Len(queue) : queue[i].type \notin Finals
    BY DEF IInv, Queued
  <2> QED
    BY <1>1, <1>2, <1>4, <2>1, <2>2
<1>6. Len(queue) = 1
  <2>1. \A i \in 1..(Len(queue) - 1) : queue[i].type \notin Finals
    BY <1>5 DEF IInv, Queued
  <2> QED
    BY <1>2, <1>4, <2>1
<1>7. Head(queue).id = Waiting
  BY <1>2, <1>3 DEF IInv, Queued
<1>8. Tail(queue) = <<>>
  BY <1>1, <1>6, LastOne
<1>9. ~Ending
  <2>1. \A i \in DOMAIN queue : queue[i].type = "finish"
    BY <1>2, <1>3, <1>6
  <2> QED
    BY <2>1 DEF Ending
<1>10. Telling
  BY <1>5, <1>9 DEF Telling
<1> QED
  BY <1>2, <1>5, <1>6, <1>7, <1>8, <1>9, <1>10

\* All is closed, and the run is over, with that outcome.
LEMMA SendFinishKept ==
  ASSUME IInv, SendFinish
  PROVE  IInv'
<1> DEFINE f == Head(queue)
           outcome == Outcome(f.id, sent)
           suspended == outcome.approvals # {} \/ sent.waiting # {}
           e == E("run_finished", Chat, outcome, None)
<1>1. /\ queue # <<>> /\ f.type = "finish" /\ queue \in Seq(Events)
      /\ queue' = Append(Close(stream, suspended), e)
      /\ UNCHANGED <<run, workers, publisher, stream, order, sent, client, last>>
  BY DEF SendFinish, IInv, Ahead
<1>2. Working'
  BY <1>1, WorkersKept DEF IInv, Working, Types
<1>3. /\ run.phase = "finishing" /\ Len(queue) = 1 /\ f = queue[1] /\ f.id = Waiting
      /\ Tail(queue) = <<>> /\ ~Ending
  BY FinishAlone
<1>4. PICK b \in Boards : Leads(Exempt, Board(client, sent), queue, b) /\ Agrees(b)
  BY DEF IInv, Ahead
<1>5. b = Board(client, sent)
  <2>1. Leads(Exempt, Post(Board(client, sent), f), <<>>, b)
    BY <1>1, <1>3, <1>4, LeadsHead
  <2>2. Post(Board(client, sent), f) = Board(client, sent)
    BY <1>1, FinishPosts DEF IInv, Ahead
  <2> QED
    BY <2>1, <2>2, LeadsNowhere
<1>6. CardsTold(b) /\ Begun(b) /\ CallsTold(b)
  BY <1>3, <1>4 DEF Agrees, Telling
<1>7. /\ sent.waiting = b.waiting /\ sent.runs = b.runs
      /\ sent.waiting \subseteq Calls /\ sent.runs \in [Calls -> Group \cup {None}]
  BY <1>4, <1>5, BoardFields DEF Board
<1>8. /\ outcome \in Outcomes
      /\ outcome.approvals = {[call |-> c, run |-> sent.runs[c]] : c \in Waiting \ Browser}
      /\ outcome.approvals = {} => outcome.pending = sent.waiting
  BY <1>3, <1>7, WaitingRequests, OutcomeFields DEF IInv
<1>9. outcome = Outcome(Waiting, sent)
  BY <1>3
<1> HIDE DEF outcome
<1>10. suspended \in BOOLEAN
  OBVIOUS
<1> HIDE DEF suspended, f
<1>11. \A g \in Group, c \in Calls :
          stream.seg[g].args[c] # "unsent" /\ c \notin stream.seg[g].ended => b.tool[c] = "open"
  BY <1>6 DEF CallsTold, CallOK, Announced
<1>12. PICK c : /\ Close(stream, suspended) \in Seq(Events)
                /\ Leads({}, b, Close(stream, suspended), c)
                /\ Closed(stream, b, c, DOMAIN stream.begun, HowEnded(suspended))
  <2>1. stream \in Streams /\ Tree(stream, b)
    BY <1>6 DEF IInv, Ahead, Begun
  <2> QED
    BY <1>4, <1>10, <1>11, <2>1, CloseDoes
<1>13. c \in Boards
  BY <1>12 DEF Closed
<1>14. PICK d : d = Post(c, e)
  OBVIOUS
<1>15. /\ d \in Boards /\ d.outcome = outcome /\ d.tool = c.tool
       /\ d.card = c.card /\ d.parent = c.parent /\ d.runs = c.runs
  BY <1>8, <1>13, <1>14, FinishedPosts
<1>16. e \in Events /\ e.type = "run_finished" /\ e.id = outcome
  <2>1. outcome \in Ids /\ None \in Ids /\ Chat \in Scopes /\ "run_finished" \in Kinds
    BY <1>8 DEF Ids, Scopes, Kinds
  <2> QED
    BY <2>1, MadeEvents DEF E
<1> HIDE DEF e
<1>17. Leads({None}, Board(client, sent), queue', d) /\ queue' \in Seq(Events)
  <2>1. Leads({None}, b, Close(stream, suspended), c)
    BY <1>12, LeadsMore
  <2>2. Fits({None}, c, e)
    BY <1>8, <1>13, <1>16 DEF Fits
  <2>3. queue' = Close(stream, suspended) \o <<e>>
    <3>1. PICK q \in Seq(Events) : q = Close(stream, suspended)
      BY <1>12
    <3>2. Append(q, e) = q \o <<e>>
      BY <1>16
    <3> QED
      BY <1>1, <3>1, <3>2
  <2> QED
    BY <1>5, <1>12, <1>14, <2>1, <2>2, <2>3, LeadsThen
<1>18. /\ Len(queue') \in Nat /\ Len(queue') >= 1 /\ queue'[Len(queue')] = e
       /\ DOMAIN queue' = 1..Len(queue')
       /\ \A i \in 1..(Len(queue') - 1) : queue'[i].type \notin Finals
  <2>1. \A i \in 1..Len(Close(stream, suspended)) : Close(stream, suspended)[i].type \notin Finals
    BY <1>12, NoFinals
  <2>2. PICK q \in Seq(Events) : q = Close(stream, suspended)
    BY <1>12
  <2> QED
    BY <1>1, <1>16, <2>1, <2>2
<1>19. Ending' /\ Exempt' = {None} /\ ~Telling' /\ run'.phase = "finishing"
  BY <1>1, <1>3, <1>16, <1>18 DEF Ending, Exempt, Telling
<1>20. Queued'
  <2>1. queue' # <<>> /\ queue'[Len(queue')].type \in Finals
    BY <1>16, <1>18 DEF Finals
  <2>2. \A i \in 1..Len(queue') : queue'[i].type = "finish" => queue'[i].id = Waiting'
    BY <1>16, <1>18 DEF Finals
  <2> QED
    BY <1>18, <1>19, <2>1, <2>2 DEF Queued
<1>21. /\ CardsTold(d) /\ Settled(d)
       /\ \A g \in Calls : Tooled(d, g, call[g], V(g[1]))
  <2>1. HowEnded(suspended) \in {"suspended", "completed"}
    BY DEF HowEnded
  <2>2. Working /\ run.phase # "working"
    BY <1>3 DEF IInv
  <2> QED
    BY <1>6, <1>7, <1>8, <1>9, <1>12, <1>15, <2>1, <2>2, SettlesTold
<1>22. Agrees(d)'
  <2>1. /\ CardsTold(d)' /\ Settled(d)'
        /\ \A g \in Calls : Tooled(d, g, call'[g], V(g[1])')
    BY <1>1, <1>21 DEF CardsTold, Settled, Waiting, InState, CallsOf, V, workers
  <2> QED
    BY <1>19, <2>1 DEF Agrees
<1>23. Ahead'
  BY <1>1, <1>15, <1>17, <1>19, <1>22 DEF IInv, Ahead
<1> QED
  BY <1>2, <1>20, <1>23 DEF IInv

\* A stream that has told nothing.
Blank(s, calls) ==
  /\ s \in Streams /\ s.begun = <<>> /\ s.known = calls
  /\ \A c \in Calls : s.owner[c] = None
  /\ \A g \in Group : /\ ~s.seg[g].open
                      /\ \A c \in Calls : s.seg[g].args[c] = "unsent" /\ c \notin s.seg[g].ended

\* A new stream has told nothing.
LEMMA NewStream ==
  ASSUME NEW calls \in SUBSET Calls, NEW ids \in [Scopes -> Nat]
  PROVE  Blank(Stream(calls, ids), calls)
<1>0. PICK s : s = Stream(calls, ids)
  OBVIOUS
<1>1. Fresh \in Segments
  BY NoneId DEF Fresh, Segments
<1>2. [g \in Group |-> Fresh] \in [Group -> Segments] /\ <<>> \in Seq(Group)
      /\ [c \in Calls |-> None] \in [Calls -> Group \cup {None}]
  BY <1>1
<1>3. s \in Streams
  BY <1>0, <1>2 DEF Stream, Streams
<1>4. \A g \in Group : s.seg[g] = Fresh
  BY <1>0 DEF Stream
<1>5. s.begun = <<>> /\ s.known = calls /\ \A c \in Calls : s.owner[c] = None
  BY <1>0 DEF Stream
<1> QED
  BY <1>0, <1>3, <1>4, <1>5 DEF Fresh, Blank

\* A new run's stream and notes, of a call.
LEMMA CallRenewed ==
  ASSUME Working, run.phase = "idle", NEW c \in Calls, NEW b, Tooled(b, c, call[c], V(c[1])),
         NEW s, c \in s.known <=> c[1] # Entry /\ b.tool[c] # "none", s.owner[c] = None,
         \A g \in Group : s.seg[g].args[c] = "unsent" /\ c \notin s.seg[g].ended,
         NEW d, d.tool = b.tool, d.waiting = {},
         d.runs[c] = IF c \in s.known THEN b.runs[c] ELSE None,
         NEW k, k = IF c[1] = Entry /\ call[c] = "waiting" THEN "running" ELSE call[c]
  PROVE  CallOK(s, d, c, k, asks[c] # None, V(c[1]))
<1>1. /\ call[c] \in {"none", "waiting", "over", "lost"} /\ (c[1] = Entry => call[c] # "lost")
      /\ call[c] = "waiting" => asks[c] # None
  BY AtRest, CallFields DEF Working, Stated, Raised
<1>2. Announced(s, d, c)
  BY DEF Announced
<1>3. Tooled(d, c, k, V(c[1]))
  BY <1>1 DEF Tooled
<1>4. Written(s, d, c, k, V(c[1]))
  BY <1>1 DEF Written, Tooled
<1>5. Waited(s, d, c, k, asks[c] # None)
  BY <1>1 DEF Waited, Tooled
<1> QED
  BY <1>2, <1>3, <1>4, <1>5 DEF CallOK

\* A run starts: its stream knows the calls the client holds.
LEMMA StartRunKept ==
  ASSUME IInv, StartRun
  PROVE  IInv'
<1> DEFINE held == {c \in Calls : c[1] # Entry /\ client.tool[c] # "none"}
           e == E("run_started", Chat, None, None)
<1>1. /\ Working' /\ run.phase = "idle" /\ run'.phase = "working"
      /\ call' = [c \in Calls |-> IF c \in InState(Entry, {"waiting"}) THEN "running" ELSE call[c]]
      /\ stream' = Stream(held, stream.ids) /\ queue' = <<e>>
      /\ sent' = [waiting |-> {}, runs |-> [c \in Calls |-> IF c \in held THEN sent.runs[c] ELSE None]]
      /\ UNCHANGED <<host, asks, made, errors, truth, retried, publisher, client, last>>
  BY StartRunWorking DEF IInv, StartRun, Working, Types
<1>2. \A a \in Agents : work'[a] = work[a]
  BY AgentNotEntry DEF IInv, Working, Types, StartRun
<1>3. PICK b \in Boards : b = Board(client, sent) /\ Agrees(b)
  <2>1. PICK b \in Boards : Leads(Exempt, Board(client, sent), queue, b) /\ Agrees(b)
    BY DEF IInv, Ahead
  <2>2. queue = <<>>
    BY <1>1 DEF IInv, Queued
  <2>3. b = Board(client, sent)
    BY <2>1, <2>2, LeadsNowhere
  <2> QED
    BY <2>1, <2>3
<1>4. CardsTold(b) /\ (\A c \in Calls : Tooled(b, c, call[c], V(c[1]))) /\ Settled(b)
  BY <1>1, <1>3 DEF Agrees, Telling
<1>5. PICK s : s = stream'
  OBVIOUS
<1>6. /\ s \in Streams /\ s.begun = <<>> /\ s.known = held
      /\ \A c \in Calls : s.owner[c] = None
      /\ \A g \in Group : /\ ~s.seg[g].open
                          /\ \A c \in Calls : s.seg[g].args[c] = "unsent" /\ c \notin s.seg[g].ended
  <2>1. PICK h \in SUBSET Calls, ids \in [Scopes -> Nat] : h = held /\ ids = stream.ids
    BY StreamFields DEF IInv, Ahead
  <2>2. s = Stream(h, ids)
    BY <1>1, <1>5, <2>1
  <2>3. Blank(s, h)
    BY <2>2, NewStream
  <2> QED
    BY <2>1, <2>3 DEF Blank
<1>7. PICK d : d = Board(client, sent')
  OBVIOUS
<1>8. /\ d.card = b.card /\ d.parent = b.parent /\ d.tool = b.tool /\ d.outcome = b.outcome
      /\ d.waiting = {} /\ client.tool = b.tool /\ sent.runs = b.runs
      /\ \A c \in Calls : d.runs[c] = IF c \in held THEN b.runs[c] ELSE None
  BY <1>1, <1>3, <1>7 DEF Board
<1>9. d \in Boards /\ Notes(sent')
  <2>1. /\ b.card \in [Group -> Cards] /\ b.parent \in [Group -> Group \cup {None}]
        /\ b.tool \in [Calls -> Tools] /\ b.outcome \in Outcomes
        /\ b.runs \in [Calls -> Group \cup {None}]
    BY BoardFields
  <2>2. [c \in Calls |-> IF c \in held THEN b.runs[c] ELSE None] \in [Calls -> Group \cup {None}]
    BY <2>1
  <2>3. /\ sent'.runs = [c \in Calls |-> IF c \in held THEN b.runs[c] ELSE None]
        /\ sent'.waiting = {} /\ Notes(sent')
    BY <1>1, <1>8 DEF Notes
  <2>4. d = [card |-> b.card, parent |-> b.parent, tool |-> b.tool, outcome |-> b.outcome,
             waiting |-> {}, runs |-> sent'.runs]
    BY <1>3, <1>7, <2>3 DEF Board
  <2> HIDE DEF held
  <2> QED
    BY <2>1, <2>2, <2>3, <2>4 DEF Boards
<1> HIDE DEF held
<1>10. e \in Events /\ e.type = "run_started"
  <2>1. None \in Ids /\ Chat \in Scopes /\ "run_started" \in Kinds
    BY DEF Ids, Scopes, Kinds, Quiet
  <2> QED
    BY <2>1, MadeEvents DEF E
<1> HIDE DEF e
<1>11. queue' \in Seq(Events) /\ Len(queue') = 1 /\ queue'[1] = e /\ DOMAIN queue' = {1}
  BY <1>1, <1>10
<1>12. ~Ending' /\ Telling' /\ Queued'
  BY <1>1, <1>10, <1>11 DEF Ending, Telling, Queued, Finals
<1>13. Leads(Exempt', d, queue', d)
  <2>1. e.type \in Quiet
    BY <1>10 DEF Quiet
  <2>2. Fits(Exempt', d, e) /\ Post(d, e) = d
    BY <1>9, <1>10, <2>1, QuietPosts DEF Fits
  <2>3. Leads(Exempt', d, <<e>>, Post(d, e))
    BY <2>2, LeadsOne
  <2> QED
    BY <1>1, <2>2, <2>3
<1>14. CardsTold(d)'
  BY <1>1, <1>2, <1>4, <1>8 DEF CardsTold, V
<1>15. Begun(d)'
  <2>1. \A a \in Agents : ~Active(a)'
    BY <1>1, <1>2, AtRest DEF IInv, Active
  <2>2. Tree(s, d)
    BY <1>4, <1>6, <1>8 DEF Tree, Settled
  <2> QED
    BY <1>5, <2>1, <2>2 DEF Begun
<1>16. CallsTold(d)'
  <2>1. ASSUME NEW c \in Calls
        PROVE  CallOK(s, d, c, call'[c], asks[c] # None, V(c[1]))
    <3>1. call'[c] = IF c[1] = Entry /\ call[c] = "waiting" THEN "running" ELSE call[c]
      BY <1>1 DEF InState, CallsOf
    <3>2. c \in s.known <=> c[1] # Entry /\ b.tool[c] # "none"
      BY <1>6, <1>8 DEF held
    <3>3. d.runs[c] = IF c \in s.known THEN b.runs[c] ELSE None
      BY <1>6, <1>8
    <3>4. Working /\ Tooled(b, c, call[c], V(c[1]))
      BY <1>4 DEF IInv
    <3> QED
      BY <1>1, <1>6, <1>8, <3>1, <3>2, <3>3, <3>4, CallRenewed
  <2> QED
    BY <1>1, <1>5, <2>1 DEF CallsTold, V
<1>17. Agrees(d)'
  BY <1>12, <1>14, <1>15, <1>16, AgreesThen
<1>18. Ahead'
  BY <1>1, <1>5, <1>6, <1>7, <1>9, <1>11, <1>13, <1>17 DEF IInv, Ahead
<1> QED
  BY <1>1, <1>12, <1>18 DEF IInv

-----------------------------------------------------------------------------
(* The theorems.                                                           *)

\* The invariant holds at first, and every step keeps it.
LEMMA InitWorking ==
  ASSUME Init
  PROVE  Working
<1>1. Types
  BY SubagentStreamAssumption DEF Init, Types, NewPublisher
<1>2. Hosting
  BY AgentNotEntry DEF Init, Hosting, Active
<1>3. Stated
  BY AgentNotEntry DEF Init, Stated
<1>4. Raised
  BY DEF Init, Raised
<1>5. Grounded
  BY AgentNotEntry DEF Init, Grounded, Active
<1>6. Books
  BY AgentNotEntry, GroupFields DEF Init, Books, Active, NewPublisher
<1> QED
  BY <1>1, <1>2, <1>3, <1>4, <1>5, <1>6 DEF Working
LEMMA InitKept ==
  ASSUME Init
  PROVE  IInv
<1>1. Working
  BY InitWorking
<1>2. run.phase = "idle" /\ run.no = 0 /\ queue = <<>> /\ queue \in Seq(Events)
  BY DEF Init
<1>3. Len(queue) = 0 /\ DOMAIN queue = {}
  BY <1>2
<1>4. Queued /\ ~Telling
  BY <1>2, <1>3 DEF Queued, Telling
<1>5. stream \in Streams
  <2>1. {} \in SUBSET Calls /\ [s \in Scopes |-> 0] \in [Scopes -> Nat]
    OBVIOUS
  <2>2. PICK ids \in [Scopes -> Nat] : stream = Stream({}, ids)
    BY <2>1 DEF Init
  <2> QED
    BY <2>1, <2>2, NewStream DEF Blank
<1>6. PICK b : b = Board(client, sent)
  OBVIOUS
<1>7. /\ b.card = [g \in Group |-> "none"] /\ b.parent = [g \in Group |-> None]
      /\ b.tool = [c \in Calls |-> "none"] /\ b.runs = [c \in Calls |-> None]
      /\ b.waiting = {} /\ b.outcome = [approvals |-> {}, pending |-> {}]
      /\ Client(client) /\ Notes(sent)
  BY <1>6 DEF Init, Board, Client, Notes
<1>8. b \in Boards
  <2>1. b.outcome \in Outcomes
    BY <1>7 DEF Outcomes
  <2>2. b = [card |-> b.card, parent |-> b.parent, tool |-> b.tool, outcome |-> b.outcome,
             waiting |-> b.waiting, runs |-> b.runs]
    BY <1>6 DEF Board
  <2> QED
    BY <1>7, <2>1, <2>2 DEF Boards, Cards, Tools
<1>9. Leads(Exempt, b, queue, b)
  BY <1>2, LeadsEmpty
<1>10. Agrees(b)
  <2>1. CardsTold(b)
    BY <1>7, AgentNotEntry DEF Init, CardsTold, CardFor
  <2>2. \A c \in Calls : Tooled(b, c, call[c], V(c[1]))
    BY <1>7 DEF Init, Tooled
  <2>3. Settled(b)
    BY <1>2, <1>7 DEF Settled
  <2> QED
    BY <1>4, <2>1, <2>2, <2>3 DEF Agrees
<1> QED
  BY <1>1, <1>2, <1>4, <1>5, <1>6, <1>7, <1>8, <1>9, <1>10 DEF IInv, Ahead

\* A step that changes nothing keeps it.
LEMMA SameKept ==
  ASSUME IInv, UNCHANGED vars
  PROVE  IInv'
<1>1. Working'
  BY WorkersKept DEF IInv, vars, workers, Working, Types
<1>2. Queued'
  BY DEF IInv, vars, workers, wire, Queued, Waiting, InState, CallsOf
<1>3. Telling' <=> Telling
  BY DEF vars, wire, Telling, Ending
<1>4. Exempt' = Exempt
  BY DEF vars, workers, wire, Exempt, Ending
<1>5. PICK b \in Boards : Leads(Exempt, Board(client, sent), queue, b) /\ Agrees(b)
  BY DEF IInv, Ahead
<1>6. Agrees(b)'
  BY <1>3, <1>5, AgreesStill DEF vars, workers
<1>7. Ahead'
  BY <1>4, <1>5, <1>6 DEF IInv, Ahead, vars, wire
<1> QED
  BY <1>1, <1>2, <1>7 DEF IInv

\* Each action keeps it.
LEMMA NextKept ==
  ASSUME IInv, Next
  PROVE  IInv'
<1>1. CASE StartRun
  BY <1>1, StartRunKept
<1>2. CASE Send
  BY <1>2, SendKept
<1>3. CASE SendFinish
  BY <1>3, SendFinishKept
<1>4. CASE EntrySays
  BY <1>4, EntrySaysKept
<1>5. CASE Ends
  BY <1>5, EndsKept
<1>6. ASSUME NEW a \in Agents, Resumes(a)
      PROVE  IInv'
  BY <1>6, ResumesKept
<1>7. ASSUME NEW a \in Agents, Says(a) \/ Reasons(a)
      PROVE  IInv'
  BY <1>7, SaysKept DEF Says, Reasons
<1>8. ASSUME NEW a \in Agents, Pauses(a)
      PROVE  IInv'
  BY <1>8, PausesKept
<1>9. ASSUME NEW a \in Agents, Completes(a)
      PROVE  IInv'
  BY <1>9, CompletesKept
<1>10. ASSUME NEW a \in Agents, NEW c \in Calls, Begins(a, c)
       PROVE  IInv'
  BY <1>10, BeginsKept
<1>11. ASSUME NEW a \in Agents, NEW c \in Calls, NEW written \in BOOLEAN, Writes(a, c, written)
       PROVE  IInv'
  BY <1>11, WritesKept
<1>12. ASSUME NEW a \in Agents, NEW retry \in BOOLEAN, ModelFails(a, retry)
       PROVE  IInv'
  BY <1>12, ModelFailsKept
<1>13. ASSUME NEW x \in Workers, NextTurn(x)
       PROVE  IInv'
  BY <1>13, NextTurnKept
<1>14. ASSUME NEW x \in Workers, NEW whole \in {{}} \cup {{c} : c \in CallsOf(x)},
              EndsTurn(x, whole)
       PROVE  IInv'
  <2>1. whole \in SUBSET CallsOf(x)
    OBVIOUS
  <2> QED
    BY <1>14, <2>1, EndsTurnKept
<1>15. ASSUME NEW x \in Workers, NEW c \in CallsOf(x), StartsTool(x, c)
       PROVE  IInv'
  BY <1>15, StartsToolKept
<1>16. ASSUME NEW x \in Workers, NEW c \in CallsOf(x), EndsTool(x, c)
       PROVE  IInv'
  BY <1>16, EndsToolKept
<1>17. ASSUME NEW x \in Workers, NEW c \in CallsOf(x), NEW request \in Calls,
              Waits(x, c, request)
       PROVE  IInv'
  BY <1>17, WaitsKept
<1> QED
  BY <1>1, <1>2, <1>3, <1>4, <1>5, <1>6, <1>7, <1>8, <1>9, <1>10, <1>11, <1>12, <1>13,
     <1>14, <1>15, <1>16, <1>17 DEF Next

\* The invariant: the workers, their calls and requests are in order, and what is
\* queued leads from what the client holds to a board that agrees with them.
THEOREM Inductive == Spec => []IInv
<1>1. Init => IInv
  BY InitKept
<1>2. IInv /\ [Next]_vars => IInv'
  BY NextKept, SameKept
<1> QED
  BY <1>1, <1>2, PTL DEF Spec

\* The invariant implies the type invariant.
LEMMA TypesHold ==
  ASSUME IInv
  PROVE  TypeOK
<1>1. \A a \in Agents : publisher[a].active <= publisher[a].count /\ publisher[a].count = made[a]
  BY DEF IInv, Working, Books
<1>2. client.card \in [Group -> Cards] /\ client.tool \in [Calls -> Tools]
  BY BoardFields DEF IInv, Ahead, Board
<1>3. stream.owner \in [Calls -> Group \cup {None}] /\ stream.known \subseteq Calls
  BY StreamFields DEF IInv, Ahead
<1> QED
  BY <1>1, <1>2, <1>3 DEF IInv, Working, Types, TypeOK, Cards, Closings, Tools

\* Once a run is over, the client holds the board that agrees.
LEMMA OverTold ==
  ASSUME IInv, Over
  PROVE  CardsTold(Board(client, sent)) /\ Settled(Board(client, sent))
         /\ \A c \in Calls : Tooled(Board(client, sent), c, call[c], V(c[1]))
<1>1. PICK b \in Boards : Leads(Exempt, Board(client, sent), queue, b) /\ Agrees(b)
  BY DEF IInv, Ahead
<1>2. queue = <<>> /\ ~Telling
  BY DEF IInv, Over, Queued, Telling
<1>3. b = Board(client, sent)
  BY <1>1, <1>2, LeadsNowhere
<1> QED
  BY <1>1, <1>2, <1>3 DEF Agrees

\* So it shows what became of invocations and calls.
LEMMA TruthTold ==
  ASSUME IInv
  PROVE  ToldAsItIs
<1> SUFFICES ASSUME Over
             PROVE  /\ \A v \in Group \ retried :
                         client.card[v] = CASE truth[v] = "done" -> "completed"
                                            [] truth[v] = "failed" -> "error"
                                            [] truth[v] = "paused" -> "suspended"
                                            [] OTHER -> "none"
                    /\ \A c \in Calls : /\ client.tool[c] = "open" => call[c] = "lost"
                                        /\ client.tool[c] = "done" <=> call[c] = "over"
  BY DEF ToldAsItIs
<1>1. PICK b : b = Board(client, sent)
  OBVIOUS
<1>2. /\ CardsTold(b) /\ Settled(b) /\ b.card = client.card /\ b.tool = client.tool
      /\ \A c \in Calls : Tooled(b, c, call[c], V(c[1]))
  BY <1>1, OverTold DEF Board
<1>3. Working /\ run.phase # "working"
  BY DEF IInv, Over
<1>4. \A v \in Group : truth[v] \in {"none", "paused", "done", "failed"}
  BY <1>3, AtRest DEF Working, Types
<1>5. \A v \in Group \ retried : client.card[v] = CardFor(truth[v])
  BY <1>2 DEF CardsTold
<1>6. \A c \in Calls : call[c] \in {"none", "waiting", "over", "lost"}
  BY <1>3, AtRest
<1>7. \A c \in Calls : client.tool[c] = "done" <=> call[c] = "over"
  BY <1>2, <1>6 DEF Tooled
<1> QED
  BY <1>2, <1>4, <1>5, <1>7 DEF Settled, CardFor

\* And what the run is paused on.
LEMMA PauseIsTold ==
  ASSUME IInv
  PROVE  PauseTold
<1> SUFFICES ASSUME Over PROVE PauseTold
  BY DEF PauseTold
<1>1. Settled(Board(client, sent)) /\ run.no > 0 /\ Board(client, sent).outcome = client.outcome
  BY OverTold DEF Over, Board
<1> QED
  BY <1>1 DEF Settled, PauseTold, Waiting

\* The client hears nothing but what is sent.
LEMMA OnlySends ==
  ASSUME [Next]_vars
  PROVE  Send \/ UNCHANGED <<client, last>>
<1>1. \A x, r, chat : Report(x, r, chat) => UNCHANGED <<client, last>>
  BY DEF Report
<1>2. UNCHANGED vars \/ StartRun \/ SendFinish \/ EntrySays \/ Ends => UNCHANGED <<client, last>>
  BY <1>1 DEF vars, wire, StartRun, SendFinish, EntrySays, Ends
<1>3. ASSUME NEW a \in Agents
      PROVE  /\ Resumes(a) \/ Says(a) \/ Reasons(a) \/ Pauses(a) \/ Completes(a)
                  => UNCHANGED <<client, last>>
             /\ \A c \in Calls : Begins(a, c) => UNCHANGED <<client, last>>
             /\ \A c \in Calls, w \in BOOLEAN : Writes(a, c, w) => UNCHANGED <<client, last>>
             /\ \A r \in BOOLEAN : ModelFails(a, r) => UNCHANGED <<client, last>>
  BY <1>1 DEF Resumes, Says, Reasons, Pauses, Completes, Begins, Writes, ModelFails
<1>4. ASSUME NEW x \in Workers
      PROVE  /\ NextTurn(x) => UNCHANGED <<client, last>>
             /\ \A whole : EndsTurn(x, whole) => UNCHANGED <<client, last>>
             /\ \A c : StartsTool(x, c) \/ EndsTool(x, c) => UNCHANGED <<client, last>>
             /\ \A c, request : Waits(x, c, request) => UNCHANGED <<client, last>>
  BY <1>1 DEF NextTurn, EndsTurn, StartsTool, EndsTool, Waits, wire
<1> QED
  BY <1>2, <1>3, <1>4 DEF Next

\* What closes a card is the head of the queue, that fits.
LEMMA ClosesInOrder ==
  ASSUME IInv, [Next]_vars, NEW g \in Group, NEW h \in Group,
         client.card[g] = "active", client.card'[g] # "active",
         client.card[h] = "active", client.parent[h] = g
  PROVE  h \in retried /\ ~Ending
<1> DEFINE e == Head(queue)
<1>1. Send
  BY OnlySends
<1>2. /\ queue # <<>> /\ queue \in Seq(Events)
      /\ client' = Folds(client, Place(order, e).e) /\ sent' = Noted(sent, e)
  BY <1>1 DEF Send, IInv, Ahead
<1>3. PICK b \in Boards : Leads(Exempt, Board(client, sent), queue, b)
  BY DEF IInv, Ahead
<1>4. Fits(Exempt, Board(client, sent), e)
  BY <1>2, <1>3, LeadsHead
<1>5. Board(client', sent') = Post(Board(client, sent), e)
  BY <1>2, <1>4, Sends DEF IInv, Ahead
<1>6. client'.card = Post(Board(client, sent), e).card
  BY <1>5 DEF Board
<1>7. e.type \in Closings /\ e.scope = g
  <2>1. client.card \in [Group -> Cards]
    BY BoardFields DEF IInv, Ahead, Board
  <2> QED
    BY <1>6, <2>1 DEF Post, Board
<1>8. h \in Exempt
  <2>1. /\ e.type \notin Quiet
        /\ e.type \notin {"started", "call_start", "call_end", "result", "finish", "run_finished"}
    BY <1>7 DEF Closings, Quiet
  <2> QED
    BY <1>4, <1>7, <2>1 DEF Fits, Board
<1> QED
  BY <1>8, GroupFields DEF Exempt

\* Every variable holds what the code can put in it, and no publisher counts more
\* invocations than were made, for any delegates, nesting and bounds.
THEOREM TypeCorrect == Spec => []TypeOK
  BY Inductive, TypesHold, PTL

\* When a run is over the client's cards and calls say what became of each
\* invocation and call, but for those a failed model call left.
THEOREM RunToldAsItIs == Spec => []ToldAsItIs
  BY Inductive, TruthTold, PTL

\* A run that pauses says on what: each approval asked for with the invocation that
\* asks, however deep it is nested, or else the browser's calls that wait.
THEOREM RunPauseTold == Spec => []PauseTold
  BY Inductive, PauseIsTold, PTL

\* A card closes after those under it, but for one a failed model call kept open,
\* and at a run's end without exception.
THEOREM ClosesInnermostFirst == Spec => InnermostFirst
<1>1. IInv /\ [Next]_vars =>
        \A g, h \in Group :
          /\ client.card[g] = "active" /\ client.card'[g] # "active"
          /\ client.card[h] = "active" /\ client.parent[h] = g
          => h \in retried /\ ~\E i \in DOMAIN queue : queue[i].type = "run_finished"
  BY ClosesInOrder DEF Ending
<1> QED
  BY <1>1, Inductive, PTL DEF InnermostFirst, Spec

-----------------------------------------------------------------------------
(* What is queued is heard in the end.                                     *)

\* The client has heard the reading v, and the queue makes w of it: while the run
\* tells, all that the stream says; before and after, that all rests.
Speaking(v, w) ==
  /\ v \in Readings /\ w \in Readings
  /\ Heard(run.no, client, order, v) /\ Utters(run.no, v, queue, w)
Spoken ==
  \E v, w : Speaking(v, w) /\ IF Telling THEN Follows(stream, w) ELSE Silently(stream, w)

\* While a run works it follows the stream, and the board that the queue foretells.
LEMMA SpokenBoard ==
  ASSUME IInv, Spoken, run.phase = "working"
  PROVE  \E v, w, b : /\ Speaking(v, w) /\ Follows(stream, w) /\ Foretells(b)
                      /\ w.card = b.card /\ w.tool = b.tool
<1>1. Telling
  BY Tells DEF IInv, Ahead
<1>2. PICK v, w : Speaking(v, w) /\ Follows(stream, w)
  BY <1>1 DEF Spoken
<1>3. PICK b : Foretells(b)
  BY QueueForetells
<1>4. /\ Board(client, sent).card = v.card /\ Board(client, sent).tool = v.tool
  BY <1>2 DEF Speaking, Heard, Holds, Board
<1>5. queue \in Seq(Events) /\ Leads(Exempt, Board(client, sent), queue, b)
  BY <1>3 DEF IInv, Ahead, Foretells
<1>6. w.card = b.card /\ w.tool = b.tool
  BY <1>2, <1>4, <1>5, OneBoard DEF Speaking
<1> QED
  BY <1>2, <1>3, <1>6

\* What is added to the queue is said after the rest of it.
LEMMA SpeakingMore ==
  ASSUME NEW v, NEW w, Speaking(v, w), run.no \in Nat, queue \in Seq(Events),
         run'.no = run.no, UNCHANGED <<client, order>>,
         NEW q \in Seq(Events), queue' = queue \o q,
         NEW z \in Readings, Utters(run.no, w, q, z)
  PROVE  Speaking(v, z)'
<1>1. Utters(run.no, v, queue \o q, z)
  BY UttersJoin DEF Speaking
<1> QED
  BY <1>1 DEF Speaking

\* A delegate's report is said as the stream tells it.
LEMMA ReportSpoken ==
  ASSUME IInv, IInv', run.phase = "working", run'.phase = "working", run'.no = run.no,
         NEW v, NEW w, Speaking(v, w), Follows(stream, w),
         NEW a \in Agents, work[a] # "idle",
         NEW r, Report(a, r, <<>>), Sayable(stream, w, V(a), r)
  PROVE  Spoken'
<1>1. V(a) \in Group /\ G(a) = V(a) /\ stream \in Streams /\ queue \in Seq(Events) /\ run.no \in Nat
  <2>1. V(a) \in Group /\ G(a) = V(a)
    BY AtWork DEF IInv, Working
  <2>2. stream \in Streams /\ queue \in Seq(Events)
    BY DEF IInv, Ahead
  <2>3. run.no \in Nat
    BY DEF IInv, Working, Types
  <2> QED
    BY <2>1, <2>2, <2>3
<1>2. w \in Readings /\ w.running /\ Tracks(stream, w, V(a))
  BY <1>1 DEF Speaking, Follows
<1>3. PICK z \in Readings : Voiced(run.no, stream, w, V(a), Translate(stream, V(a), r).s,
                                   Translate(stream, V(a), r).out, z)
  BY <1>1, <1>2, TranslateUtters
<1>4. /\ stream' = Translate(stream, V(a), r).s /\ queue' = queue \o Translate(stream, V(a), r).out
      /\ UNCHANGED <<order, client>>
  BY <1>1, AgentNotEntry DEF Report
<1>5. PICK t, q : t = Translate(stream, V(a), r).s /\ q = Translate(stream, V(a), r).out
  OBVIOUS
<1>6. /\ Voiced(run.no, stream, w, V(a), t, q, z) /\ stream' = t /\ queue' = queue \o q
  BY <1>3, <1>4, <1>5
<1>7. Follows(t, z)
  BY <1>1, <1>6, FollowsOn DEF Voiced
<1>8. Speaking(v, z)'
  BY <1>1, <1>4, <1>6, SpeakingMore DEF Voiced
<1>9. Telling'
  BY TellsThen DEF IInv, Ahead
<1> QED
  BY <1>6, <1>7, <1>8, <1>9 DEF Spoken

\* So is what the entry agent says.
LEMMA ChatSpoken ==
  ASSUME IInv, IInv', run'.no = run.no, UNCHANGED <<client, order, stream>>, Telling',
         NEW v, NEW w, Speaking(v, w), NEW q \in Seq(Events), queue' = queue \o q,
         NEW z \in Readings, Utters(run.no, w, q, z), Follows(stream, z)
  PROVE  Spoken'
<1>1. run.no \in Nat /\ queue \in Seq(Events)
  BY DEF IInv, Working, Ahead, Types
<1>2. Speaking(v, z)'
  BY <1>1, SpeakingMore
<1> QED
  BY <1>2 DEF Spoken

\* A step that says nothing.
LEMMA UnreportedSpoken ==
  ASSUME Spoken, UNCHANGED <<run, stream, wire>>
  PROVE  Spoken'
<1>1. PICK v, w : Speaking(v, w) /\ IF Telling THEN Follows(stream, w) ELSE Silently(stream, w)
  BY DEF Spoken
<1>2. Speaking(v, w)' /\ (Telling' <=> Telling)
  BY <1>1 DEF Speaking, Telling, Ending, wire
<1> QED
  BY <1>1, <1>2 DEF Spoken

\* What is told of a call is said by it.
LEMMA WritesSayable ==
  ASSUME NEW s, NEW b, NEW c \in Calls, NEW k \in {"none", "streaming"}, NEW asked,
         NEW v \in Group, v[1] = c[1], c[1] # Entry, CallOK(s, b, c, k, asked, v),
         NEW w, w.tool = b.tool, NEW written \in BOOLEAN
  PROVE  Sayable(s, w, v, R("tool_input", c, written))
<1>0. c \notin s.known /\ c \notin s.seg[v].ended
  BY CallUnsaid
<1>1. /\ c \notin s.known /\ c \notin s.seg[v].ended
      /\ s.seg[v].args[c] # "unsent" => b.tool[c] = "open"
      /\ s.seg[v].args[c] = "unsent" => k = "none"
  BY <1>0 DEF CallOK, Announced, Written
<1>2. s.seg[v].args[c] = "unsent" => b.tool[c] = "none"
  BY <1>1 DEF CallOK, Tooled
<1>3. Ready(s, w, v, c)
  BY <1>1, <1>2 DEF Ready
<1> QED
  BY <1>1, <1>3 DEF Sayable, R

\* A call whose arguments are complete may be told,
LEMMA StartsSayable ==
  ASSUME NEW s, NEW b, NEW c \in Calls, NEW asked, NEW v \in Group, c[1] # Entry,
         CallOK(s, b, c, "called", asked, v), NEW w, w.tool = b.tool
  PROVE  Sayable(s, w, v, R("tool_start", c, TRUE))
<1>1. b.tool[c] \in {"none", "open", "ended"}
  BY DEF CallOK, Tooled
<1>2. /\ b.tool[c] = "open" => s.seg[v].args[c] # "unsent"
      /\ b.tool[c] = "ended" => c \in s.known \cup s.seg[v].ended
  BY DEF CallOK, Written
<1>3. s.seg[v].args[c] # "unsent" => c \in s.seg[v].ended \/ b.tool[c] = "open"
  BY DEF CallOK, Announced
<1>4. c \notin s.seg[v].ended \cup s.known => Ready(s, w, v, c)
  BY <1>1, <1>2, <1>3 DEF Ready
<1> QED
  BY <1>4 DEF Sayable, R

\* and one with its result.
LEMMA EndsSayable ==
  ASSUME NEW s, NEW b, NEW c \in Calls, NEW k \in {"running", "returned"}, NEW asked,
         NEW v \in Group, c[1] # Entry, CallOK(s, b, c, k, asked, v), NEW w, w.tool = b.tool
  PROVE  Sayable(s, w, v, R("tool_end", c, TRUE))
<1>1. b.tool[c] = "ended" /\ c \in s.seg[v].ended
  BY DEF CallOK, Tooled, Written
<1> QED
  BY <1>1 DEF Sayable, R

\* Each action says what is heard in the end: the model says something,
LEMMA SaysSpoken ==
  ASSUME IInv, IInv', Spoken, NEW a \in Agents, work[a] = "thinking",
         NEW kind \in {"token", "reasoning"}, Report(a, Told(kind), <<>>), run' = run
  PROVE  Spoken'
<1>1. Active(a) /\ work[a] # "idle" /\ run.phase = "working"
  BY UnderEntry DEF IInv, Working, Active
<1>2. PICK v, w : Speaking(v, w) /\ Follows(stream, w)
  BY <1>1, SpokenBoard
<1>3. Sayable(stream, w, V(a), Told(kind))
  BY DEF Sayable, Told, R
<1> QED
  BY <1>1, <1>2, <1>3, ReportSpoken

\* or writes a call,
LEMMA WritesSpoken ==
  ASSUME IInv, IInv', Spoken, NEW a \in Agents, NEW c \in Calls, NEW written \in BOOLEAN,
         Writes(a, c, written)
  PROVE  Spoken'
<1>1. /\ Active(a) /\ work[a] # "idle" /\ c[1] = a /\ call[c] \in {"none", "streaming"}
      /\ run' = run /\ Report(a, R("tool_input", c, written), <<>>)
  BY DEF Writes, Active, NextCall
<1>2. run.phase = "working" /\ V(a) \in Group /\ c[1] # Entry /\ V(a)[1] = c[1]
  BY <1>1, UnderEntry, AtWork, AgentNotEntry DEF IInv, Working, V
<1>3. PICK v, w, b : Speaking(v, w) /\ Follows(stream, w) /\ Foretells(b) /\ w.tool = b.tool
  BY <1>2, SpokenBoard
<1>4. CallOK(stream, b, c, call[c], asks[c] # None, V(a))
  BY <1>1, <1>3 DEF Foretells, CallsTold
<1>5. Sayable(stream, w, V(a), R("tool_input", c, written))
  BY <1>1, <1>2, <1>3, <1>4, WritesSayable
<1> QED
  BY <1>1, <1>2, <1>3, <1>5, ReportSpoken

\* or fails,
LEMMA ModelFailsSpoken ==
  ASSUME IInv, IInv', Spoken, NEW a \in Agents, NEW retry \in BOOLEAN, ModelFails(a, retry)
  PROVE  Spoken'
<1>1. Active(a) /\ work[a] # "idle" /\ run.phase = "working" /\ run' = run
  BY UnderEntry DEF IInv, Working, Active, ModelFails
<1>2. PICK v, w : Speaking(v, w) /\ Follows(stream, w)
  BY <1>1, SpokenBoard
<1>3. Sayable(stream, w, V(a), Told("error")) /\ Report(a, Told("error"), <<>>)
  BY DEF Sayable, Told, R, Closings, ModelFails
<1> QED
  BY <1>1, <1>2, <1>3, ReportSpoken

\* a delegate stops, or goes on,
LEMMA StopsSpoken ==
  ASSUME IInv, IInv', Spoken, NEW a \in Agents, Pauses(a) \/ Completes(a)
  PROVE  Spoken'
<1>1. Active(a) /\ work[a] # "idle" /\ run.phase = "working" /\ run' = run
  BY UnderEntry DEF IInv, Working, Active, Pauses, Completes
<1>2. PICK v, w : Speaking(v, w) /\ Follows(stream, w)
  BY <1>1, SpokenBoard
<1>3. \A kind \in {"none", "suspended", "completed"} : Sayable(stream, w, V(a), Told(kind))
  BY DEF Sayable, Told, R, Closings
<1>4. PICK kind \in {"none", "suspended", "completed"} : Report(a, Told(kind), <<>>)
  BY DEF Pauses, Completes, Nothing
<1>5. Sayable(stream, w, V(a), Told(kind))
  BY <1>3
<1> QED
  BY <1>1, <1>2, <1>4, <1>5, ReportSpoken

\* or goes on after its requests were answered,
LEMMA ResumesSpoken ==
  ASSUME IInv, IInv', Spoken, NEW a \in Agents, Resumes(a)
  PROVE  Spoken'
<1>1. work[a] # "idle" /\ call[host[a]] = "running" /\ run' = run /\ Report(a, Told("start"), <<>>)
  BY DEF Resumes
<1>2. host[a] \in Calls
  BY <1>1, AtWork DEF IInv, Working
<1>3. run.phase = "working"
  BY <1>1, <1>2, RunsInRun DEF IInv
<1>4. PICK v, w : Speaking(v, w) /\ Follows(stream, w)
  BY <1>3, SpokenBoard
<1>5. Sayable(stream, w, V(a), Told("start"))
  BY DEF Sayable, Told, R
<1> QED
  BY <1>1, <1>3, <1>4, <1>5, ReportSpoken

\* or begins,
LEMMA BeginsSpoken ==
  ASSUME IInv, IInv', Spoken, NEW a \in Agents, NEW c \in Calls, Begins(a, c)
  PROVE  Spoken'
<1>1. PICK g : g = <<a, publisher[a].count + 1>>
  OBVIOUS
<1>2. /\ call[c] = "running" /\ run' = run /\ UNCHANGED <<client, order>>
      /\ stream' = Begin(stream, g, c).s /\ queue' = queue \o Begin(stream, g, c).out
  BY <1>1 DEF Begins
<1>3. g \in Group
  <2>1. publisher[a].count = made[a] /\ made[a] \in 0..MaxInvocations /\ made[a] < MaxInvocations
    BY DEF IInv, Working, Books, Types, Begins
  <2>2. MaxInvocations \in Nat
    BY SubagentStreamAssumption
  <2> QED
    BY <1>1, <2>1, <2>2 DEF Group
<1>4. run.phase = "working"
  BY <1>2, RunsInRun DEF IInv
<1>5. PICK v, w : Speaking(v, w) /\ Follows(stream, w)
  BY <1>4, SpokenBoard
<1>6. stream \in Streams /\ queue \in Seq(Events) /\ run.no \in Nat
  BY DEF IInv, Working, Ahead, Types
<1>7. w \in Readings /\ w.running /\ Tracks(stream, w, g)
  BY <1>3, <1>5 DEF Speaking, Follows
<1>8. PICK z \in Readings :
        Voiced(run.no, stream, w, g, Begin(stream, g, c).s, Begin(stream, g, c).out, z)
  BY <1>3, <1>6, <1>7, BeginUtters
<1>9. PICK t, q : t = Begin(stream, g, c).s /\ q = Begin(stream, g, c).out
  OBVIOUS
<1>10. Voiced(run.no, stream, w, g, t, q, z) /\ stream' = t /\ queue' = queue \o q
  BY <1>2, <1>8, <1>9
<1>11. Follows(t, z)
  BY <1>3, <1>5, <1>10, FollowsOn DEF Voiced
<1>12. Speaking(v, z)'
  BY <1>2, <1>5, <1>6, <1>10, SpeakingMore DEF Voiced
<1>13. Telling'
  BY <1>2, <1>4, TellsThen DEF IInv, Ahead
<1> QED
  BY <1>10, <1>11, <1>12, <1>13 DEF Spoken

\* a tool starts, or has its result,
LEMMA StartsToolSpoken ==
  ASSUME IInv, IInv', Spoken, NEW x \in Workers, NEW c \in CallsOf(x), StartsTool(x, c)
  PROVE  Spoken'
<1>1. /\ c \in Calls /\ c[1] = x /\ call[c] = "called" /\ work[x] = "acting" /\ run' = run
      /\ Report(x, R("tool_start", c, TRUE),
            <<E("call_start", Chat, c, ChatMessage), E("call_args", Chat, c, None),
              E("call_end", Chat, c, None)>>)
  BY DEF IInv, StartsTool, CallsOf, Working, Stated
<1>2. run.phase = "working"
  <2>1. CASE x = Entry
    BY <1>1, <2>1 DEF IInv, Working, Stated
  <2>2. CASE x \in Agents
    BY <1>1, <2>2, UnderEntry DEF IInv, Working, Active
  <2> QED
    BY <2>1, <2>2 DEF Workers
<1>3. PICK v, w, b : Speaking(v, w) /\ Follows(stream, w) /\ Foretells(b) /\ w.tool = b.tool
  BY <1>2, SpokenBoard
<1>4. CallOK(stream, b, c, "called", asks[c] # None, V(x))
  BY <1>1, <1>3 DEF Foretells, CallsTold
<1>5. CASE x \in Agents
  <2>1. Active(x) /\ work[x] # "idle" /\ V(x) \in Group /\ c[1] # Entry
    BY <1>1, <1>5, AtWork, AgentNotEntry DEF IInv, Working, Active
  <2>2. Sayable(stream, w, V(x), R("tool_start", c, TRUE))
    BY <1>1, <1>3, <1>4, <2>1, StartsSayable
  <2>3. Report(x, R("tool_start", c, TRUE), <<>>)
    BY <1>1, <1>5, AgentNotEntry DEF Report
  <2> QED
    BY <1>1, <1>2, <1>3, <1>5, <2>1, <2>2, <2>3, ReportSpoken
<1>6. CASE x = Entry
  <2>1. PICK q : q = <<E("call_start", Chat, c, ChatMessage), E("call_args", Chat, c, None),
                       E("call_end", Chat, c, None)>>
    OBVIOUS
  <2>2. stream' = stream /\ queue' = queue \o q /\ UNCHANGED <<client, order>>
    BY <1>1, <1>6, <2>1 DEF Report
  <2>3. w.tool[c] = "none"
    BY <1>1, <1>3, <1>4, <1>6 DEF CallOK, Tooled, Announced
  <2>4. run.no \in Nat /\ w \in Readings
    BY <1>3 DEF IInv, Working, Types, Speaking
  <2>5. PICK m : m = <<Chat, "run", run.no>>
    OBVIOUS
  <2>6. q = <<E("call_start", Chat, c, m), E("call_args", Chat, c, None),
              E("call_end", Chat, c, None)>>
    BY <2>1, <2>5 DEF ChatMessage
  <2>7. q \in Seq(Events) /\ \E z \in Readings : Utters(run.no, w, q, z) /\ Follows(stream, z)
    BY <1>1, <1>3, <2>3, <2>4, <2>5, <2>6, ChatStartsUtters
  <2>8. Telling'
    BY <1>1, <1>2, TellsThen DEF IInv, Ahead
  <2> QED
    BY <1>1, <1>3, <2>2, <2>7, <2>8, ChatSpoken
<1> QED
  BY <1>5, <1>6 DEF Workers

\* or its call has a result,
LEMMA EndsToolSpoken ==
  ASSUME IInv, IInv', Spoken, NEW x \in Workers, NEW c \in CallsOf(x), EndsTool(x, c)
  PROVE  Spoken'
<1>1. /\ c \in Calls /\ c[1] = x /\ call[c] \in {"running", "returned"} /\ work[x] = "acting"
      /\ run' = run /\ Report(x, R("tool_end", c, TRUE),
                              <<E("result", Chat, c, <<Chat, "result", c[2]>>)>>)
  BY DEF IInv, EndsTool, CallsOf, Working, Stated
<1>2. run.phase = "working"
  <2>1. CASE x = Entry
    BY <1>1, <2>1 DEF IInv, Working, Stated
  <2>2. CASE x \in Agents
    BY <1>1, <2>2, UnderEntry DEF IInv, Working, Active
  <2> QED
    BY <2>1, <2>2 DEF Workers
<1>3. PICK v, w, b : Speaking(v, w) /\ Follows(stream, w) /\ Foretells(b) /\ w.tool = b.tool
  BY <1>2, SpokenBoard
<1>4. CallOK(stream, b, c, call[c], asks[c] # None, V(x))
  BY <1>1, <1>3 DEF Foretells, CallsTold
<1>5. CASE x \in Agents
  <2>1. Active(x) /\ work[x] # "idle" /\ V(x) \in Group /\ c[1] # Entry
    BY <1>1, <1>5, AtWork, AgentNotEntry DEF IInv, Working, Active
  <2>2. Sayable(stream, w, V(x), R("tool_end", c, TRUE))
    BY <1>1, <1>3, <1>4, <2>1, EndsSayable
  <2>3. Report(x, R("tool_end", c, TRUE), <<>>)
    BY <1>1, <1>5, AgentNotEntry DEF Report
  <2> QED
    BY <1>1, <1>2, <1>3, <1>5, <2>1, <2>2, <2>3, ReportSpoken
<1>6. CASE x = Entry
  <2>1. PICK e : e = E("result", Chat, c, <<Chat, "result", c[2]>>)
    OBVIOUS
  <2>2. stream' = stream /\ queue' = queue \o <<e>> /\ UNCHANGED <<client, order>>
    BY <1>1, <1>6, <2>1 DEF Report
  <2>3. w.tool[c] = "ended"
    BY <1>1, <1>3, <1>4 DEF CallOK, Tooled
  <2>4. run.no \in Nat /\ w \in Readings
    BY <1>3 DEF IInv, Working, Types, Speaking
  <2>5. e \in Events
    <3>1. queue \in Seq(Events) /\ queue' \in Seq(Events)
      BY DEF IInv, Ahead
    <3>2. Len(queue) + 1 \in 1..Len(queue') /\ queue'[Len(queue) + 1] = e
      BY <2>2, <3>1
    <3> QED
      BY <3>1, <3>2
  <2>6. /\ e.type = "result" /\ e.scope = Chat /\ e.id = c
        /\ e.parent = <<Chat, "result", c[2]>>
    BY <2>1 DEF E
  <2>7. \E z \in Readings : Utters(run.no, w, <<e>>, z) /\ Follows(stream, z)
    BY <1>1, <1>3, <1>6, <2>3, <2>4, <2>5, <2>6, ChatOneUtters
  <2>8. Telling' /\ <<e>> \in Seq(Events)
    BY <1>1, <1>2, <2>5, TellsThen DEF IInv, Ahead
  <2> QED
    BY <1>1, <1>3, <2>2, <2>7, <2>8, ChatSpoken
<1> QED
  BY <1>5, <1>6 DEF Workers

\* the entry agent says something,
LEMMA EntrySaysSpoken ==
  ASSUME IInv, IInv', Spoken, EntrySays
  PROVE  Spoken'
<1>1. /\ run.phase = "working" /\ run.no \in Nat /\ run'.phase = "working" /\ run'.no = run.no
  BY DEF IInv, Working, Types, Stated, EntrySays
<1>2. PICK v, w : Speaking(v, w) /\ Follows(stream, w)
  BY <1>1, SpokenBoard
<1>3. PICK m : m = <<Chat, "run", run.no>>
  OBVIOUS
<1>4. PICK q : q = <<E("text_start", Chat, m, None), E("text", Chat, m, None),
                     E("text_end", Chat, m, None)>>
  OBVIOUS
<1>5. stream' = stream /\ queue' = queue \o q /\ UNCHANGED <<client, order>>
  BY <1>3, <1>4 DEF EntrySays, Report, ChatMessage
<1>6. q \in Seq(Events) /\ \E z \in Readings : Utters(run.no, w, q, z) /\ Follows(stream, z)
  BY <1>1, <1>2, <1>3, <1>4, ChatSaysUtters DEF Speaking
<1>7. Telling'
  BY <1>1, TellsThen DEF IInv, Ahead
<1> QED
  BY <1>1, <1>2, <1>5, <1>6, <1>7, ChatSpoken

\* and is done, or waits.
LEMMA EndsSpoken ==
  ASSUME IInv, IInv', Spoken, Ends
  PROVE  Spoken'
<1>1. /\ run.phase = "working" /\ run.no \in Nat /\ run'.phase = "finishing" /\ run'.no = run.no
      /\ UNCHANGED <<stream, client, order>>
  BY DEF IInv, Working, Types, Ends
<1>2. PICK v, w : Speaking(v, w) /\ Follows(stream, w)
  BY <1>1, SpokenBoard
<1>3. PICK e : e = E("finish", Chat, {asks[c] : c \in InState(Entry, {"waiting"})}, None)
  OBVIOUS
<1>4. /\ queue \in Seq(Events) /\ queue' \in Seq(Events)
      /\ \A i \in 1..Len(queue) : queue[i].type \notin Finals
  BY <1>1 DEF IInv, Ahead, Queued
<1>5. queue' = Append(queue, e) /\ e.type = "finish" /\ e.scope = Chat
  BY <1>3 DEF Ends, E
<1>6. Len(queue') = Len(queue) + 1 /\ queue'[Len(queue) + 1] = e /\ queue' = queue \o <<e>>
  BY <1>4, <1>5
<1>7. e \in Events /\ <<e>> \in Seq(Events)
  BY <1>4, <1>6
<1>8. Telling'
  <2>1. \A i \in DOMAIN queue' : queue'[i].type # "run_finished"
    BY <1>4, <1>5 DEF Finals
  <2> QED
    BY <1>1, <2>1 DEF Telling, Ending
<1>9. \E z \in Readings : Utters(run.no, w, <<e>>, z) /\ Follows(stream, z)
  BY <1>1, <1>2, <1>5, <1>7, ChatOneUtters DEF Speaking
<1> QED
  BY <1>1, <1>2, <1>6, <1>7, <1>8, <1>9, ChatSpoken

\* The mark of a run's end says nothing.
LEMMA FinishReads ==
  ASSUME NEW v \in Readings, NEW f, f.type = "finish"
  PROVE  Reads(v, f) = v
<1>1. Names(f) = {}
  BY DEF Names
<1>2. PICK w : w = Reads(v, f)
  OBVIOUS
<1>3. /\ w.running = v.running /\ w.card = v.card /\ w.tool = v.tool /\ w.saying = v.saying
      /\ w.thinking = v.thinking /\ w.ids = v.ids /\ w.seen = v.seen
  BY <1>1, <1>2 DEF Reads, Closings, Readings
<1>4. /\ v = [running |-> v.running, card |-> v.card, tool |-> v.tool, saying |-> v.saying,
              thinking |-> v.thinking, ids |-> v.ids, seen |-> v.seen]
      /\ w = [running |-> w.running, card |-> w.card, tool |-> w.tool, saying |-> w.saying,
              thinking |-> w.thinking, ids |-> w.ids, seen |-> w.seen]
  BY <1>2 DEF Reads, Readings
<1> QED
  BY <1>2, <1>3, <1>4

\* All that is open is closed, and the run's end is said.
LEMMA SendFinishSpoken ==
  ASSUME IInv, IInv', Spoken, SendFinish
  PROVE  Spoken'
<1> DEFINE f == Head(queue)
           outcome == Outcome(f.id, sent)
           suspended == outcome.approvals # {} \/ sent.waiting # {}
           e == E("run_finished", Chat, outcome, None)
<1>1. /\ queue # <<>> /\ f.type = "finish" /\ queue \in Seq(Events) /\ queue' \in Seq(Events)
      /\ queue' = Append(Close(stream, suspended), e) /\ run.no \in Nat /\ run'.no = run.no
      /\ UNCHANGED <<stream, order, client>>
  BY DEF SendFinish, IInv, Ahead, Working, Types
<1>2. suspended \in BOOLEAN
  OBVIOUS
<1>3. e.type = "run_finished" /\ e.scope = Chat
  BY DEF E
<1>4. run.phase = "finishing" /\ Tail(queue) = <<>> /\ Telling
  BY FinishAlone
<1> HIDE DEF e, suspended, f
<1>5. PICK v, w : Speaking(v, w) /\ Follows(stream, w)
  BY <1>4 DEF Spoken
<1>6. w \in Readings
  BY <1>5 DEF Speaking
<1>7. PICK b \in Boards : Leads(Exempt, Board(client, sent), queue, b) /\ Agrees(b)
  BY DEF IInv, Ahead
<1>8. Tree(stream, b) /\ CallsTold(b) /\ stream \in Streams
  BY <1>4, <1>7 DEF Agrees, Begun, IInv, Ahead
<1>9. w.tool = b.tool
  <2>1. /\ Board(client, sent).card = v.card /\ Board(client, sent).tool = v.tool
    BY <1>5 DEF Speaking, Heard, Holds, Board
  <2> QED
    BY <1>1, <1>5, <1>7, <2>1, OneBoard DEF Speaking
<1>10. /\ OwnedOnce(stream)
       /\ \A g \in Group, d \in Calls : Unfinished(stream, g, d) => w.tool[d] = "open"
  <2>1. \A d \in Calls : Announced(stream, b, d)
    BY <1>8 DEF CallsTold, CallOK
  <2> QED
    BY <1>9, <2>1 DEF OwnedOnce, Unfinished, Announced
<1>11. Close(stream, suspended) \in Seq(Events)
       /\ \E z \in Readings : Utters(run.no, w, Close(stream, suspended), z) /\ Rests(stream, z)
  BY <1>1, <1>2, <1>5, <1>6, <1>8, <1>10, CloseUtters
<1>12. PICK q \in Seq(Events) : q = Close(stream, suspended)
  BY <1>11
<1>13. PICK x \in Readings : Utters(run.no, w, q, x) /\ Rests(stream, x)
  BY <1>11, <1>12
<1>14. /\ queue' = Append(q, e) /\ Len(q) \in Nat /\ queue'[Len(q) + 1] = e
       /\ DOMAIN queue' = 1..(Len(q) + 1) /\ Len(queue') = Len(q) + 1
  BY <1>1, <1>12
<1>15. e \in Events /\ <<e>> \in Seq(Events) /\ queue' = q \o <<e>>
  <2>1. queue'[Len(q) + 1] \in Events
    BY <1>1, <1>14
  <2> QED
    BY <1>14, <2>1
<1>16. PICK z \in Readings : Utters(run.no, x, <<e>>, z) /\ Silently(stream, z)
  BY <1>1, <1>3, <1>13, <1>15, RunFinishesUtters
<1>17. Speaking(v, z)'
  <2>1. Utters(run.no, w, queue', z)
    BY <1>1, <1>13, <1>15, <1>16, UttersJoin
  <2>2. Allowed(run.no, v, f) /\ Utters(run.no, Reads(v, f), <<>>, w)
    BY <1>1, <1>4, <1>5, UttersHead DEF Speaking, f
  <2>3. w = v
    <3>1. PICK u : u = Reads(v, f)
      OBVIOUS
    <3>2. PICK t : t[0] = u /\ t[Len(<<>>)] = w
      BY <2>2, <3>1 DEF Utters
    <3>3. v \in Readings
      BY <1>5 DEF Speaking
    <3>4. Len(<<>>) = 0
      OBVIOUS
    <3>5. u = v
      BY <1>1, <3>1, <3>3, FinishReads
    <3> QED
      BY <3>2, <3>4, <3>5
  <2> QED
    BY <1>1, <1>5, <1>13, <1>16, <2>1, <2>3 DEF Speaking
<1>18. ~Telling'
  BY <1>3, <1>14 DEF Telling, Ending
<1> QED
  BY <1>1, <1>16, <1>17, <1>18 DEF Spoken

\* What is sent is heard, as the promise has it.
LEMMA SendSpoken ==
  ASSUME IInv, IInv', Spoken, Send
  PROVE  Spoken' /\ Promised!Next
<1>1. /\ queue # <<>> /\ Head(queue).type # "finish" /\ queue \in Seq(Events)
      /\ queue' = Tail(queue) /\ stream' = stream /\ run.no \in Nat
      /\ run' = [run EXCEPT !.phase = IF Head(queue).type = "run_finished" THEN "idle" ELSE @]
  BY DEF Send, IInv, Ahead, Working, Types
<1>2. (Telling' <=> Telling) /\ run'.no = run.no
  <2>1. Queued /\ UNCHANGED workers
        /\ run \in [no : 0..MaxRuns, phase : {"idle", "working", "finishing"}, said : Nat]
    BY DEF Send, IInv, Working, Types
  <2> QED
    BY <1>1, <2>1, QueueGoes
<1>3. PICK v, w : Speaking(v, w) /\ IF Telling THEN Follows(stream, w) ELSE Silently(stream, w)
  BY DEF Spoken
<1>4. PICK e : e = Head(queue)
  OBVIOUS
<1>5. Allowed(run.no, v, e) /\ Utters(run.no, Reads(v, e), queue', w)
  BY <1>1, <1>3, <1>4, UttersHead DEF Speaking
<1>6. PICK p : p = Place(order, e)
  OBVIOUS
<1>7. PICK z : z = Reads(v, e)
  OBVIOUS
<1>8. /\ order' = p.o /\ client' = Folds(client, p.e)
      /\ last' = <<p.e.type, p.e.scope, IF p.e.type = "run_finished" THEN None ELSE p.e.id>>
  BY <1>4, <1>6 DEF Send
<1>9. Sending(run.no, client, order, v, e, p, client', z)
  BY <1>1, <1>3, <1>4, <1>5, <1>6, <1>7, <1>8 DEF Sending, Speaking
<1>10. Heard(run.no, client', p.o, z) /\ Promised!Next
  BY <1>1, <1>8, <1>9, SendPromised
<1>11. z \in Readings
  BY <1>10 DEF Heard
<1>12. Speaking(z, w)'
  BY <1>2, <1>3, <1>5, <1>7, <1>8, <1>10, <1>11 DEF Speaking
<1> QED
  BY <1>1, <1>2, <1>3, <1>10, <1>12 DEF Spoken

\* At first nothing is said.
LEMMA InitSpoken ==
  ASSUME Init
  PROVE  Spoken
<1> DEFINE v == [running |-> FALSE, card |-> [g \in Group |-> "none"],
                 tool |-> [c \in Calls |-> "none"], saying |-> [s \in Scopes |-> None],
                 thinking |-> [s \in Scopes |-> None], ids |-> [s \in Scopes |-> 0], seen |-> {}]
<1>1. run.no = 0 /\ run.phase = "idle" /\ queue = <<>> /\ order = Order(0)
      /\ stream = Stream({}, [s \in Scopes |-> 0])
  BY DEF Init
<1>2. v \in Readings
  <2>1. /\ [g \in Group |-> "none"] \in [Group -> Cards]
        /\ [c \in Calls |-> "none"] \in [Calls -> Tools]
    BY DEF Cards, Tools
  <2>2. [s \in Scopes |-> None] \in [Scopes -> Ids]
    BY NoneId
  <2>3. [s \in Scopes |-> 0] \in [Scopes -> Nat]
    OBVIOUS
  <2> QED
    BY <2>1, <2>2, <2>3 DEF Readings
<1>3. Utters(run.no, v, queue, v)
  BY <1>1, UttersEmpty
<1>4. /\ Ordering(order) /\ order.renamed = <<>> /\ order.seen = {} /\ order.placed = 0
      /\ order.newest = [s \in Scopes |-> <<None, "none">>]
  BY <1>1 DEF Order, Ordering
<1>5. /\ Client(client) /\ client.running = FALSE /\ client.card = v.card
      /\ client.tool = v.tool /\ client.thinking = v.thinking
      /\ client.saying = [s \in Scopes |-> None]
      /\ client.shown = [s \in Scopes |-> {}] /\ client.newest = [s \in Scopes |-> None]
  BY DEF Init, Client
<1>6. \A m : m \notin DOMAIN order.renamed
  BY <1>4
<1>7. Holds(client, order, v)
  BY <1>5, <1>6 DEF Holds, Said
<1>8. ASSUME NEW s \in Scopes
      PROVE  Shows(run.no, client, order, v, s)
  BY <1>4, <1>5 DEF Shows
<1>9. Shown(run.no, client, order, v)
  <2>1. client.shown \in [Scopes -> SUBSET Messages]
    BY <1>5
  <2>2. client.newest \in [Scopes -> Messages \cup {None}]
    BY <1>5
  <2>3. v.seen = {}
    OBVIOUS
  <2>4. order.newest = [s \in Scopes |-> order.newest[s]]
    BY <1>4
  <2> HIDE DEF v
  <2> QED
    BY <1>4, <1>8, <2>1, <2>2, <2>3, <2>4 DEF Shown
<1>10. Speaking(v, v)
  BY <1>2, <1>3, <1>4, <1>5, <1>7, <1>9 DEF Speaking, Heard
<1>11. \A x \in Scopes : v.ids[x] = stream.ids[x] /\ Quietly(v, x)
  BY <1>1 DEF Stream, Quietly
<1>12. ~Telling /\ Silently(stream, v)
  BY <1>1, <1>2, <1>11 DEF Telling, Silently
<1> HIDE DEF v
<1> QED
  BY <1>10, <1>12 DEF Spoken

\* A run begins where the last has said all.
LEMMA StartRunSpoken ==
  ASSUME IInv, IInv', Spoken, StartRun
  PROVE  Spoken'
<1> DEFINE held == {c \in Calls : c[1] # Entry /\ client.tool[c] # "none"}
           n == run.no + 1
<1>1. /\ run.phase = "idle" /\ run.no \in Nat /\ run'.no = n /\ run'.phase = "working"
      /\ queue' = <<E("run_started", Chat, None, None)>> /\ order' = Order(order.placed)
      /\ stream' = Stream(held, stream.ids) /\ client' = client /\ n \in Nat
  BY DEF StartRun, IInv, Working, Types
<1>2. queue = <<>> /\ ~Telling
  BY <1>1 DEF IInv, Queued, Telling
<1>3. PICK v, w : Speaking(v, w) /\ Silently(stream, w)
  BY <1>2 DEF Spoken
<1>4. w = v
  <2>1. PICK t : t[0] = v /\ t[Len(<<>>)] = w
    BY <1>2, <1>3 DEF Speaking, Utters
  <2>2. Len(<<>>) = 0
    OBVIOUS
  <2> QED
    BY <2>1, <2>2
<1>5. PICK u : u = [v EXCEPT !.seen = {}]
  OBVIOUS
<1>6. /\ u \in Readings /\ u.running = v.running /\ u.card = v.card /\ u.tool = v.tool
      /\ u.saying = v.saying /\ u.thinking = v.thinking /\ u.ids = v.ids /\ u.seen = {}
  BY <1>3, <1>5 DEF Speaking, Readings
<1>7. Silently(stream, u)
  BY <1>3, <1>4, <1>6 DEF Silently, Quietly
<1>8. PICK o : o = Order(order.placed)
  OBVIOUS
<1>9. /\ Ordering(o) /\ o.renamed = <<>> /\ o.seen = {} /\ o.placed = order.placed
      /\ o.newest = [s \in Scopes |-> <<None, "none">>]
  BY <1>8 DEF Order, Ordering
<1>10. /\ Client(client) /\ Holds(client, order, v) /\ Shown(run.no, client, order, v)
  BY <1>3 DEF Speaking, Heard
<1>11. \A s \in Scopes : u.saying[s] = None /\ client.saying[s] = None /\ client.thinking[s] = None
  <2>1. \A s \in Scopes : Quietly(v, s)
    BY <1>3, <1>4 DEF Silently
  <2>2. \A s \in Scopes : client.saying[s] = None /\ client.thinking[s] = None
    <3>1. v \in Readings /\ Holds(client, order, v)
      BY <1>3, <1>10 DEF Speaking
    <3> QED
      BY <2>1, <3>1, HeardQuiet
  <2> QED
    BY <1>6, <2>1, <2>2 DEF Quietly
<1>12. Holds(client, o, u)
  <2>1. \A m : m \notin DOMAIN o.renamed
    BY <1>9
  <2>2. client.saying = [s \in Scopes |-> client.saying[s]]
    BY <1>10 DEF Holds
  <2>3. client.saying = [s \in Scopes |-> Said(o, u.saying[s])]
    BY <1>11, <2>1, <2>2 DEF Said
  <2> QED
    BY <1>6, <1>10, <1>11, <2>1, <2>3 DEF Holds
<1>13. ASSUME NEW s \in Scopes
       PROVE  Shows(n, client, o, u, s)
  <2>1. Shows(run.no, client, order, v, s)
    BY <1>10 DEF Shown
  <2>2. ASSUME NEW m \in client.shown[s]
        PROVE  Given(n, client, o, u, s, m)
    <3>1. Given(run.no, client, order, v, s, m)
      BY <2>1 DEF Shows
    <3>2. CASE \E i \in 1..v.ids[s] : m = Made(s, i)
      BY <1>6, <3>2 DEF Given
    <3>3. CASE \E i \in 1..order.placed : m = <<s, "placed", i>>
      BY <1>9, <3>3 DEF Given
    <3>4. CASE s = Chat /\ \E i \in 0..run.no : m = <<Chat, "run", i>>
      <4>1. PICK i \in 0..run.no : m = <<Chat, "run", i>>
        BY <3>4
      <4>2. i \in 0..n /\ i # n
        BY <1>1
      <4> QED
        BY <3>4, <4>1, <4>2 DEF Given
    <3>5. CASE s = Chat /\ \E c \in Calls : /\ c[1] = Entry /\ m = <<Chat, "result", c[2]>>
                                            /\ client.tool[c] = "done"
      BY <3>5 DEF Given
    <3> QED
      BY <3>1, <3>2, <3>3, <3>4, <3>5 DEF Given
  <2> QED
    BY <1>9, <1>11, <2>1, <2>2 DEF Shows
<1>14. Shown(n, client, o, u)
  BY <1>6, <1>9, <1>10, <1>13 DEF Shown
<1>15. Heard(n, client, o, u)
  BY <1>6, <1>9, <1>10, <1>12, <1>14 DEF Heard
<1>16. PICK t : t = stream'
  OBVIOUS
<1>17. t.ids = stream.ids /\ \A g \in Group : t.seg[g] = Fresh
  BY <1>1, <1>16 DEF Stream
<1>18. PICK z \in Readings : Utters(n, u, queue', z) /\ Follows(t, z)
  BY <1>1, <1>6, <1>7, <1>17, RunStartsUtters
<1>19. Speaking(u, z)'
  BY <1>1, <1>6, <1>8, <1>15, <1>18 DEF Speaking
<1>20. Telling'
  BY <1>1, TellsThen DEF IInv, Ahead
<1> QED
  BY <1>16, <1>18, <1>19, <1>20 DEF Spoken

\* Each action keeps it.
LEMMA NextSpoken ==
  ASSUME IInv, IInv', Spoken, Next
  PROVE  Spoken'
<1>1. CASE StartRun
  BY <1>1, StartRunSpoken
<1>2. CASE Send
  BY <1>2, SendSpoken
<1>3. CASE SendFinish
  BY <1>3, SendFinishSpoken
<1>4. CASE EntrySays
  BY <1>4, EntrySaysSpoken
<1>5. CASE Ends
  BY <1>5, EndsSpoken
<1>6. ASSUME NEW a \in Agents, Resumes(a)
      PROVE  Spoken'
  BY <1>6, ResumesSpoken
<1>7. ASSUME NEW a \in Agents, Says(a) \/ Reasons(a)
      PROVE  Spoken'
  <2>1. work[a] = "thinking" /\ run' = run
    BY <1>7 DEF Says, Reasons
  <2>2. \E kind \in {"token", "reasoning"} : Report(a, Told(kind), <<>>)
    BY <1>7 DEF Says, Reasons
  <2> QED
    BY <2>1, <2>2, SaysSpoken
<1>8. ASSUME NEW a \in Agents, Pauses(a) \/ Completes(a)
      PROVE  Spoken'
  BY <1>8, StopsSpoken
<1>9. ASSUME NEW a \in Agents, NEW c \in Calls, Begins(a, c)
      PROVE  Spoken'
  BY <1>9, BeginsSpoken
<1>10. ASSUME NEW a \in Agents, NEW c \in Calls, NEW written \in BOOLEAN, Writes(a, c, written)
       PROVE  Spoken'
  BY <1>10, WritesSpoken
<1>11. ASSUME NEW a \in Agents, NEW retry \in BOOLEAN, ModelFails(a, retry)
       PROVE  Spoken'
  BY <1>11, ModelFailsSpoken
<1>12. ASSUME NEW x \in Workers, NextTurn(x)
       PROVE  Spoken'
  BY <1>12, UnreportedSpoken DEF NextTurn
<1>13. ASSUME NEW x \in Workers, NEW whole, EndsTurn(x, whole)
       PROVE  Spoken'
  BY <1>13, UnreportedSpoken DEF EndsTurn
<1>14. ASSUME NEW x \in Workers, NEW c \in CallsOf(x), StartsTool(x, c)
       PROVE  Spoken'
  BY <1>14, StartsToolSpoken
<1>15. ASSUME NEW x \in Workers, NEW c \in CallsOf(x), EndsTool(x, c)
       PROVE  Spoken'
  BY <1>15, EndsToolSpoken
<1>16. ASSUME NEW x \in Workers, NEW c, NEW request, Waits(x, c, request)
       PROVE  Spoken'
  BY <1>16, UnreportedSpoken DEF Waits
<1> QED
  BY <1>1, <1>2, <1>3, <1>4, <1>5, <1>6, <1>7, <1>8, <1>9, <1>10, <1>11, <1>12, <1>13,
     <1>14, <1>15, <1>16 DEF Next

\* What the client holds and what is still queued say all that the stream says.
THEOREM AllIsSaid == Spec => []Spoken
<1>1. Init => Spoken
  BY InitSpoken
<1>2. IInv /\ IInv' /\ Spoken /\ [Next]_vars => Spoken'
  <2>1. IInv /\ IInv' /\ Spoken /\ Next => Spoken'
    BY NextSpoken
  <2>2. Spoken /\ UNCHANGED vars => Spoken'
    BY UnreportedSpoken DEF vars
  <2> QED
    BY <2>1, <2>2
<1> QED
  BY <1>1, <1>2, Inductive, PTL DEF Spec

\* Every event the response sends is one the client may count on: cards open and
\* close, what is said is bracketed inside an open one, no call is announced twice,
\* an agent extends only its newest message, and a run ends with all of it closed.
THEOREM PromiseKept == Spec => KeepsPromise
<1>1. Init => Promised!Init
  BY DEF Init, Promised!Init, Promised!Scopes, Scopes
<1>2. IInv /\ IInv' /\ Spoken /\ [Next]_vars => [Promised!Next]_(Promised!view)
  <2>1. IInv /\ IInv' /\ Spoken /\ Send => Promised!Next
    BY SendSpoken
  <2>2. UNCHANGED <<client, last>> => UNCHANGED Promised!view
    BY DEF Promised!view
  <2> QED
    BY <2>1, <2>2, OnlySends
<1> QED
  BY <1>1, <1>2, Inductive, AllIsSaid, PTL DEF Spec, KeepsPromise, Promised!Spec
===============================================================================
