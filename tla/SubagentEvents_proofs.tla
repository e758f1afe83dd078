----------------------- MODULE SubagentEvents_proofs -----------------------
(***************************************************************************)
(* What the events of SubagentStream tell of cards and calls.  An event on *)
(* the queue was decided on by a stream that is ahead of the client, so    *)
(* the stream is related to the board the client will hold once the queue  *)
(* is sent: Leads follows the queue there.  The lemmas say, of each report *)
(* a publisher makes, where its events lead and what becomes of the        *)
(* stream; those about close say it of the events that end a run.          *)
(*                                                                         *)
(* What they say, message by message, is followed the same way.  A reading *)
(* is what a client would hold if AppendOnly renamed nothing: Utters       *)
(* follows a queue from reading to reading, and each report and close is   *)
(* shown to utter what the stream then tracks.  Heard relates the reading  *)
(* to what the client does hold, by the names AppendOnly gave; each event  *)
(* that a reading allows is heard as it is read, and is a step of          *)
(* AgentStream.                                                            *)
(***************************************************************************)
EXTENDS SubagentStream, FiniteSetTheorems, WellFoundedInduction, TLAPS

Closings == {"suspended", "completed", "error"}

\* The client's cards and calls, and RunEvents' notes.
Board(k, n) ==
  [card |-> k.card, parent |-> k.parent, tool |-> k.tool, outcome |-> k.outcome,
   waiting |-> n.waiting, runs |-> n.runs]

Cards == {"none", "active"} \cup Closings
Tools == {"none", "open", "ended", "done"}
Outcomes ==
  [approvals : SUBSET [call : Calls, run : Group \cup {None}], pending : SUBSET Calls]
Boards ==
  [card : [Group -> Cards], parent : [Group -> Group \cup {None}], tool : [Calls -> Tools],
   outcome : Outcomes, waiting : SUBSET Calls, runs : [Calls -> Group \cup {None}]]

\* What an event makes of them.
Post(b, e) ==
  [card |-> IF e.type = "started" THEN [b.card EXCEPT ![e.scope] = "active"]
            ELSE IF e.type \in Closings THEN [b.card EXCEPT ![e.scope] = e.type] ELSE b.card,
   parent |-> IF e.type = "started" /\ b.card[e.scope] = "none"
              THEN [b.parent EXCEPT ![e.scope] = e.parent] ELSE b.parent,
   tool |-> CASE e.type = "call_start" -> [b.tool EXCEPT ![e.id] = "open"]
              [] e.type = "call_end" -> [b.tool EXCEPT ![e.id] = "ended"]
              [] e.type = "result" -> [b.tool EXCEPT ![e.id] = "done"]
              [] OTHER -> b.tool,
   outcome |-> IF e.type = "run_finished" THEN e.id ELSE b.outcome,
   waiting |-> CASE e.type = "call_start" /\ e.id \in Browser -> b.waiting \cup {e.id}
                 [] e.type = "result" -> b.waiting \ {e.id}
                 [] OTHER -> b.waiting,
   runs |-> IF e.type = "call_start" /\ e.scope # Chat
            THEN [b.runs EXCEPT ![e.id] = e.scope] ELSE b.runs]

\* The events that change none of them.
Quiet ==
  {"run_started", "text_start", "text", "text_end", "reasoning_start", "reasoning",
   "reasoning_end", "call_args"}

Ids ==
  {None} \cup Calls \cup Scopes \cup (Scopes \X {"made", "run", "result"} \X Nat)
    \cup Outcomes \cup SUBSET Calls
Kinds ==
  Quiet \cup Closings
    \cup {"started", "call_start", "call_end", "result", "finish", "run_finished"}
Events ==
  [type : Kinds, scope : Scopes, id : Ids, parent : Ids]

Segments ==
  [open : BOOLEAN, parent : Group \cup {None}, text : Ids, thought : Ids, step : Ids,
   args : [Calls -> {"unsent", "empty", "sent"}], ended : SUBSET Calls]
Streams ==
  [seg : [Group -> Segments], begun : Seq(Group), owner : [Calls -> Group \cup {None}],
   known : SUBSET Calls, ids : [Scopes -> Nat]]

\* An event is of a kind the code makes; a card closes while no card under it is
\* open but those of x, and only with None in x does the queue end the run.
Fits(x, b, e) ==
  /\ b \in Boards /\ e \in Events
  /\ \/ e.type \in Quiet
     \/ e.type = "started" /\ e.scope \in Group /\ e.parent \in Group \cup {None}
     \/ /\ e.type \in Closings /\ e.scope \in Group
        /\ \A h \in Group : b.card[h] = "active" /\ b.parent[h] = e.scope => h \in x
     \/ e.type \in {"call_start", "call_end", "result"} /\ e.id \in Calls
     \/ e.type = "finish" /\ None \in x
     \/ e.type = "run_finished" /\ e.id \in Outcomes /\ None \in x

\* The queue q leads from b to c.
Leads(x, b, q, c) ==
  \E t : /\ t[0] = b /\ t[Len(q)] = c
         /\ \A i \in 1..Len(q) : Fits(x, t[i - 1], q[i]) /\ t[i] = Post(t[i - 1], q[i])

-----------------------------------------------------------------------------
(* Lemmas about queues.                                                    *)

\* An empty queue leads where it begins; one event leads to what it posts.
LEMMA LeadsEmpty ==
  ASSUME NEW x, NEW v
  PROVE  Leads(x, v, <<>>, v)
<1> DEFINE t == [i \in {0} |-> v]
<1>1. t[0] = v /\ Len(<<>>) = 0 /\ \A i \in 1..0 : FALSE
  OBVIOUS
<1> HIDE DEF t
<1> QED
  BY <1>1 DEF Leads

LEMMA LeadsOne ==
  ASSUME NEW x, NEW v, NEW e, Fits(x, v, e)
  PROVE  Leads(x, v, <<e>>, Post(v, e))
<1> DEFINE t == [i \in {0, 1} |-> IF i = 0 THEN v ELSE Post(v, e)]
<1>1. t[0] = v /\ t[1] = Post(v, e) /\ Len(<<e>>) = 1 /\ <<e>>[1] = e
  OBVIOUS
<1> HIDE DEF t
<1> QED
  BY <1>1 DEF Leads

\* A queue that is not empty leads on from what its head posts.
LEMMA LeadsHead ==
  ASSUME NEW x, NEW q \in Seq(Events), q # <<>>, NEW v, NEW w, Leads(x, v, q, w)
  PROVE  Fits(x, v, Head(q)) /\ Leads(x, Post(v, Head(q)), Tail(q), w)
<1>1. PICK t : /\ t[0] = v /\ t[Len(q)] = w
               /\ \A i \in 1..Len(q) : Fits(x, t[i - 1], q[i]) /\ t[i] = Post(t[i - 1], q[i])
  BY DEF Leads
<1> DEFINE u == [i \in 0..Len(Tail(q)) |-> t[i + 1]]
<1>2. /\ Len(q) \in Nat /\ Len(q) >= 1 /\ Len(Tail(q)) = Len(q) - 1 /\ Head(q) = q[1]
      /\ \A i \in 1..Len(Tail(q)) : Tail(q)[i] = q[i + 1]
  OBVIOUS
<1>3. /\ u[0] = t[1] /\ u[Len(Tail(q))] = t[Len(q)]
      /\ \A i \in 1..Len(Tail(q)) : u[i] = t[i + 1] /\ u[i - 1] = t[i]
  BY <1>2
<1> HIDE DEF u
<1>4. \A i \in 1..Len(Tail(q)) :
         Fits(x, u[i - 1], Tail(q)[i]) /\ u[i] = Post(u[i - 1], Tail(q)[i])
  BY <1>1, <1>2, <1>3
<1> QED
  BY <1>1, <1>2, <1>3, <1>4 DEF Leads

\* One queue behind another leads from where the other led.
LEMMA LeadsJoin ==
  ASSUME NEW x, NEW q \in Seq(Events), NEW r \in Seq(Events), NEW v, NEW w, NEW z,
         Leads(x, v, q, w), Leads(x, w, r, z)
  PROVE  Leads(x, v, q \o r, z)
<1>1. PICK t : /\ t[0] = v /\ t[Len(q)] = w
               /\ \A i \in 1..Len(q) : Fits(x, t[i - 1], q[i]) /\ t[i] = Post(t[i - 1], q[i])
  BY DEF Leads
<1>2. PICK u : /\ u[0] = w /\ u[Len(r)] = z
               /\ \A i \in 1..Len(r) : Fits(x, u[i - 1], r[i]) /\ u[i] = Post(u[i - 1], r[i])
  BY DEF Leads
<1> DEFINE m == Len(q)
           n == Len(r)
           y == [i \in 0..(m + n) |-> IF i <= m THEN t[i] ELSE u[i - m]]
<1>3. /\ m \in Nat /\ n \in Nat /\ Len(q \o r) = m + n
      /\ \A i \in 1..m : (q \o r)[i] = q[i]
      /\ \A i \in (m + 1)..(m + n) : (q \o r)[i] = r[i - m]
  OBVIOUS
<1> HIDE DEF m, n
<1>5. (\A i \in 0..m : y[i] = t[i]) /\ \A i \in (m + 1)..(m + n) : y[i] = u[i - m]
  BY <1>3
<1> HIDE DEF y
<1>4. y[0] = v /\ y[m + n] = z
  <2>1. CASE n = 0
    BY <2>1, <1>1, <1>2, <1>3, <1>5 DEF m, n
  <2>2. CASE n > 0
    BY <2>2, <1>1, <1>2, <1>3, <1>5 DEF n
  <2> QED
    BY <2>1, <2>2, <1>3
<1>6. ASSUME NEW i \in (m + 1)..(m + n)
      PROVE  y[i] = u[i - m] /\ y[i - 1] = u[(i - m) - 1]
  <2>1. CASE i = m + 1
    BY <2>1, <1>1, <1>2, <1>3, <1>5 DEF m
  <2>2. CASE i # m + 1
    <3>1. i - 1 \in (m + 1)..(m + n) /\ (i - 1) - m = (i - m) - 1
      BY <2>2, <1>3
    <3> QED
      BY <3>1, <1>5
  <2> QED
    BY <2>1, <2>2
<1>7. ASSUME NEW i \in 1..(m + n)
      PROVE  Fits(x, y[i - 1], (q \o r)[i]) /\ y[i] = Post(y[i - 1], (q \o r)[i])
  <2>1. CASE i \in 1..m
    BY <2>1, <1>1, <1>3, <1>5 DEF m
  <2>2. CASE i \in (m + 1)..(m + n)
    <3>1. i - m \in 1..n
      BY <2>2, <1>3
    <3> QED
      BY <2>2, <3>1, <1>2, <1>3, <1>6 DEF n
  <2> QED
    BY <2>1, <2>2, <1>3
<1> QED
  BY <1>3, <1>4, <1>7 DEF Leads

\* More cards may be excepted.
LEMMA LeadsMore ==
  ASSUME NEW x, NEW y, x \subseteq y, NEW q, NEW v, NEW w, Leads(x, v, q, w)
  PROVE  Leads(y, v, q, w)
<1>1. ASSUME NEW u, NEW e, Fits(x, u, e)
      PROVE  Fits(y, u, e)
  BY <1>1, Zenon DEF Fits
<1>2. PICK t : /\ t[0] = v /\ t[Len(q)] = w
               /\ \A i \in 1..Len(q) : Fits(x, t[i - 1], q[i]) /\ t[i] = Post(t[i - 1], q[i])
  BY DEF Leads
<1> QED
  BY <1>1, <1>2 DEF Leads

-----------------------------------------------------------------------------
(* What the events make of the board.                                      *)

\* What a board is made of.
LEMMA BoardFields ==
  ASSUME NEW b \in Boards
  PROVE  /\ b.card \in [Group -> Cards] /\ b.parent \in [Group -> Group \cup {None}]
         /\ b.tool \in [Calls -> Tools] /\ b.outcome \in Outcomes
         /\ b.waiting \subseteq Calls /\ b.runs \in [Calls -> Group \cup {None}]
         /\ b = [card |-> b.card, parent |-> b.parent, tool |-> b.tool, outcome |-> b.outcome,
                 waiting |-> b.waiting, runs |-> b.runs]
  BY DEF Boards

\* What each kind of event posts: nothing,
LEMMA QuietPosts ==
  ASSUME NEW b \in Boards, NEW e, e.type \in Quiet
  PROVE  Post(b, e) = b
<1>1. /\ e.type \notin Closings
      /\ e.type \notin {"started", "call_start", "call_end", "result", "run_finished"}
  BY DEF Quiet, Closings
<1> QED
  BY <1>1, BoardFields DEF Post

\* a card that opens, under its parent if it is new,
LEMMA StartedPosts ==
  ASSUME NEW b \in Boards, NEW g \in Group, NEW p \in Group \cup {None},
         NEW c, c = Post(b, E("started", g, None, p))
  PROVE  /\ c \in Boards /\ c.card = [b.card EXCEPT ![g] = "active"]
         /\ c.parent = [b.parent EXCEPT ![g] = IF b.card[g] = "none" THEN p ELSE @]
         /\ c.tool = b.tool /\ c.outcome = b.outcome /\ c.waiting = b.waiting
         /\ c.runs = b.runs
<1> DEFINE card == [b.card EXCEPT ![g] = "active"]
           parent == [b.parent EXCEPT ![g] = IF b.card[g] = "none" THEN p ELSE @]
<1>1. /\ parent = IF b.card[g] = "none" THEN [b.parent EXCEPT ![g] = p] ELSE b.parent
      /\ card \in [Group -> Cards] /\ parent \in [Group -> Group \cup {None}]
  BY BoardFields DEF Cards
<1> HIDE DEF card, parent
<1>2. Post(b, E("started", g, None, p))
        = [card |-> [b.card EXCEPT ![g] = "active"],
           parent |-> IF b.card[g] = "none" THEN [b.parent EXCEPT ![g] = p] ELSE b.parent,
           tool |-> b.tool,
           outcome |-> b.outcome, waiting |-> b.waiting, runs |-> b.runs]
  BY DEF Post, E, Closings
<1>3. Post(b, E("started", g, None, p))
        = [card |-> card, parent |-> parent, tool |-> b.tool, outcome |-> b.outcome,
           waiting |-> b.waiting, runs |-> b.runs]
  BY <1>1, <1>2 DEF card
<1> QED
  BY <1>1, <1>3, BoardFields DEF Boards, card, parent

\* a card that closes,
LEMMA ClosingPosts ==
  ASSUME NEW b \in Boards, NEW g \in Group, NEW how \in Closings,
         NEW c, c = Post(b, E(how, g, None, None))
  PROVE  /\ c \in Boards /\ c.card = [b.card EXCEPT ![g] = how]
         /\ c.parent = b.parent /\ c.tool = b.tool /\ c.outcome = b.outcome
         /\ c.waiting = b.waiting /\ c.runs = b.runs
<1> DEFINE card == [b.card EXCEPT ![g] = how]
<1>1. card \in [Group -> Cards]
  BY BoardFields DEF Cards
<1>2. Post(b, E(how, g, None, None))
        = [card |-> card, parent |-> b.parent, tool |-> b.tool, outcome |-> b.outcome,
           waiting |-> b.waiting, runs |-> b.runs]
  BY DEF Post, E, Closings
<1> HIDE DEF card
<1> QED
  BY <1>1, <1>2, BoardFields DEF Boards, card

\* No call but c is touched on the board.
Others(b, d, c) ==
  \A f \in Calls \ {c} : /\ d.tool[f] = b.tool[f] /\ d.runs[f] = b.runs[f]
                         /\ f \in d.waiting <=> f \in b.waiting

\* a call that is announced,
LEMMA CallStartPosts ==
  ASSUME NEW b \in Boards, NEW g \in Scopes, NEW c \in Calls, NEW m,
         NEW d, d = Post(b, E("call_start", g, c, m))
  PROVE  /\ d \in Boards /\ Others(b, d, c) /\ d.tool[c] = "open"
         /\ d.runs[c] = IF g = Chat THEN b.runs[c] ELSE g
         /\ c \in d.waiting <=> c \in Browser \cup b.waiting
         /\ d.card = b.card /\ d.parent = b.parent /\ d.outcome = b.outcome
<1> DEFINE tool == [b.tool EXCEPT ![c] = "open"]
           waiting == b.waiting \cup (Browser \cap {c})
           runs == IF g = Chat THEN b.runs ELSE [b.runs EXCEPT ![c] = g]
<1>1. /\ tool \in [Calls -> Tools] /\ waiting \subseteq Calls
      /\ runs \in [Calls -> Group \cup {None}]
      /\ waiting = IF c \in Browser THEN b.waiting \cup {c} ELSE b.waiting
      /\ runs = IF g # Chat THEN [b.runs EXCEPT ![c] = g] ELSE b.runs
  BY BoardFields DEF Tools, Scopes
<1> HIDE DEF waiting, runs
<1>2. Post(b, E("call_start", g, c, m))
        = [card |-> b.card, parent |-> b.parent, tool |-> tool, outcome |-> b.outcome,
           waiting |-> IF c \in Browser THEN b.waiting \cup {c} ELSE b.waiting,
           runs |-> IF g # Chat THEN [b.runs EXCEPT ![c] = g] ELSE b.runs]
  BY DEF Post, E, Closings
<1> HIDE DEF tool
<1>3. /\ d = Post(b, E("call_start", g, c, m)) /\ d.tool = tool
      /\ d.card = b.card /\ d.parent = b.parent
      /\ d.outcome = b.outcome /\ d \in Boards /\ d.waiting = waiting /\ d.runs = runs
  <2>1. d = [card |-> b.card, parent |-> b.parent, tool |-> tool, outcome |-> b.outcome,
             waiting |-> waiting, runs |-> runs]
    BY <1>1, <1>2
  <2>2. d \in Boards
    BY <1>1, <2>1, BoardFields DEF Boards
  <2> QED
    BY <2>1, <2>2
<1> QED
  BY <1>3, BoardFields DEF tool, waiting, runs, Others

\* one whose arguments are complete,
LEMMA CallEndPosts ==
  ASSUME NEW b \in Boards, NEW g \in Scopes, NEW c \in Calls,
         NEW d, d = Post(b, E("call_end", g, c, None))
  PROVE  /\ d \in Boards /\ Others(b, d, c) /\ d.tool[c] = "ended"
         /\ d.card = b.card /\ d.parent = b.parent /\ d.outcome = b.outcome
         /\ d.waiting = b.waiting /\ d.runs = b.runs
<1> DEFINE tool == [b.tool EXCEPT ![c] = "ended"]
<1>1. tool \in [Calls -> Tools]
  BY BoardFields DEF Tools
<1>2. Post(b, E("call_end", g, c, None))
        = [card |-> b.card, parent |-> b.parent, tool |-> tool, outcome |-> b.outcome,
           waiting |-> b.waiting, runs |-> b.runs]
  BY DEF Post, E, Closings
<1> HIDE DEF tool
<1>3. /\ d = Post(b, E("call_end", g, c, None)) /\ d.tool = tool
      /\ d.card = b.card /\ d.parent = b.parent
      /\ d.outcome = b.outcome /\ d \in Boards /\ d.waiting = b.waiting /\ d.runs = b.runs
  BY <1>1, <1>2, BoardFields DEF Boards
<1> QED
  BY <1>3, BoardFields DEF tool, Others

\* one that has its result,
LEMMA ResultPosts ==
  ASSUME NEW b \in Boards, NEW g \in Scopes, NEW c \in Calls, NEW m,
         NEW d, d = Post(b, E("result", g, c, m))
  PROVE  /\ d \in Boards /\ Others(b, d, c) /\ d.tool[c] = "done" /\ c \notin d.waiting
         /\ d.card = b.card /\ d.parent = b.parent /\ d.outcome = b.outcome
         /\ d.runs = b.runs
<1> DEFINE tool == [b.tool EXCEPT ![c] = "done"]
           waiting == b.waiting \ {c}
<1>1. tool \in [Calls -> Tools] /\ waiting \subseteq Calls
  BY BoardFields DEF Tools
<1>2. Post(b, E("result", g, c, m))
        = [card |-> b.card, parent |-> b.parent, tool |-> tool, outcome |-> b.outcome,
           waiting |-> waiting, runs |-> b.runs]
  BY DEF Post, E, Closings
<1> HIDE DEF tool, waiting
<1>3. /\ d = Post(b, E("result", g, c, m)) /\ d.tool = tool
      /\ d.card = b.card /\ d.parent = b.parent
      /\ d.outcome = b.outcome /\ d \in Boards /\ d.waiting = waiting /\ d.runs = b.runs
  BY <1>1, <1>2, BoardFields DEF Boards
<1> QED
  BY <1>3, BoardFields DEF tool, waiting, Others

\* and how the run ended.
LEMMA FinishedPosts ==
  ASSUME NEW b \in Boards, NEW z \in Outcomes,
         NEW d, d = Post(b, E("run_finished", Chat, z, None))
  PROVE  /\ d \in Boards /\ d.outcome = z /\ d.tool = b.tool
         /\ d.card = b.card /\ d.parent = b.parent
         /\ d.waiting = b.waiting /\ d.runs = b.runs
<1>2. Post(b, E("run_finished", Chat, z, None))
        = [card |-> b.card, parent |-> b.parent, tool |-> b.tool, outcome |-> z,
           waiting |-> b.waiting, runs |-> b.runs]
  BY DEF Post, E, Closings
<1> QED
  BY <1>2, BoardFields DEF Boards

\* Quiet events lead nowhere.
LEMMA QuietLeads ==
  ASSUME NEW x, NEW q \in Seq(Events), NEW b \in Boards,
         \A i \in 1..Len(q) : q[i].type \in Quiet
  PROVE  Leads(x, b, q, b)
<1> DEFINE t == [i \in 0..Len(q) |-> b]
<1>1. Len(q) \in Nat /\ t[0] = b /\ t[Len(q)] = b
      /\ \A i \in 1..Len(q) : t[i - 1] = b /\ t[i] = b
  OBVIOUS
<1> HIDE DEF t
<1>2. \A i \in 1..Len(q) : Fits(x, t[i - 1], q[i]) /\ t[i] = Post(t[i - 1], q[i])
  BY <1>1, QuietPosts DEF Fits
<1> QED
  BY <1>1, <1>2 DEF Leads

\* A queue leads from a board to a board.
LEMMA LeadsBoards ==
  ASSUME NEW x, NEW q, Len(q) \in Nat, NEW b \in Boards, NEW c, Leads(x, b, q, c)
  PROVE  c \in Boards
<1>1. PICK t : /\ t[0] = b /\ t[Len(q)] = c
               /\ \A i \in 1..Len(q) : Fits(x, t[i - 1], q[i]) /\ t[i] = Post(t[i - 1], q[i])
  BY DEF Leads
<1>2. ASSUME NEW d, NEW e, Fits(x, d, e)
      PROVE  Post(d, e) \in Boards
  <2>1. /\ d.card \in [Group -> Cards] /\ d.parent \in [Group -> Group \cup {None}]
        /\ d.tool \in [Calls -> Tools] /\ d.outcome \in Outcomes
        /\ d.waiting \subseteq Calls /\ d.runs \in [Calls -> Group \cup {None}]
    BY <1>2, BoardFields DEF Fits
  <2>2. /\ Post(d, e).card \in [Group -> Cards]
        /\ Post(d, e).parent \in [Group -> Group \cup {None}]
    BY <1>2, <2>1 DEF Post, Fits, Quiet, Closings, Cards
  <2>3. Post(d, e).tool \in [Calls -> Tools] /\ Post(d, e).waiting \subseteq Calls
    BY <1>2, <2>1 DEF Post, Fits, Quiet, Closings, Tools
  <2>4. Post(d, e).outcome \in Outcomes
    BY <1>2, <2>1 DEF Post, Fits, Quiet, Closings
  <2>5. Post(d, e).runs \in [Calls -> Group \cup {None}]
    <3>1. e.scope \in Group \cup {Chat}
      BY <1>2 DEF Fits, Events, Scopes
    <3> QED
      BY <1>2, <2>1, <3>1 DEF Post, Fits, Quiet, Closings
  <2>6. Post(d, e)
          = [card |-> Post(d, e).card, parent |-> Post(d, e).parent, tool |-> Post(d, e).tool,
             outcome |-> Post(d, e).outcome, waiting |-> Post(d, e).waiting,
             runs |-> Post(d, e).runs]
    BY DEF Post
  <2> QED
    BY <2>2, <2>3, <2>4, <2>5, <2>6 DEF Boards
<1>3. CASE Len(q) = 0
  BY <1>1, <1>3
<1>4. CASE Len(q) # 0
  BY <1>1, <1>2, <1>4
<1> QED
  BY <1>3, <1>4

\* What the response sends, the client's board follows.
Client(k) ==
  k = [running |-> k.running, card |-> k.card, parent |-> k.parent, saying |-> k.saying,
       thinking |-> k.thinking, shown |-> k.shown, newest |-> k.newest,
       answers |-> k.answers, tool |-> k.tool, outcome |-> k.outcome]
Notes(n) == n = [waiting |-> n.waiting, runs |-> n.runs]

\* Placing an event changes neither its type nor what it says of a card or a call.
LEMMA Places ==
  ASSUME NEW o, NEW e \in Events
  PROVE  LET f == Place(o, e).e
         IN /\ f.type = e.type /\ f.scope = e.scope
            /\ e.type \notin {"text_start", "text", "text_end"} => f.id = e.id
            /\ e.type # "call_start" => f.parent = e.parent
<1> e = E(e.type, e.scope, e.id, e.parent)
  BY DEF Events, E
<1>1. CASE e.type = "text_start"
  BY <1>1 DEF Place, PlaceText, E
<1>2. CASE e.type = "call_start"
  BY <1>2 DEF Place, PlaceCall, E
<1>3. CASE e.type \notin {"text_start", "call_start"}
  BY <1>3 DEF Place, E
<1> QED
  BY <1>1, <1>2, <1>3

\* An event that is sent does to the client and to RunEvents what it posts.
LEMMA Sends ==
  ASSUME NEW k, Client(k), NEW n, Notes(n), NEW o, NEW x, NEW e,
         Fits(x, Board(k, n), e)
  PROVE  LET l == Folds(k, Place(o, e).e)
         IN /\ Client(l) /\ Notes(Noted(n, e))
            /\ Board(l, Noted(n, e)) = Post(Board(k, n), e)
<1> DEFINE f == Place(o, e).e
           l == Folds(k, f)
<1>1. /\ f.type = e.type /\ f.scope = e.scope
      /\ e.type \notin {"text_start", "text", "text_end"} => f.id = e.id
      /\ e.type # "call_start" => f.parent = e.parent
  BY Places DEF Fits
<1> HIDE DEF f
<1>2. /\ Client(l)
      /\ l.card = IF e.type = "started" THEN [k.card EXCEPT ![e.scope] = "active"]
                  ELSE IF e.type \in Closings THEN [k.card EXCEPT ![e.scope] = e.type]
                  ELSE k.card
      /\ e.type = "started" =>
           l.parent = [k.parent EXCEPT ![e.scope] = IF k.card[e.scope] = "none" THEN e.parent
                                                    ELSE @]
      /\ e.type # "started" => l.parent = k.parent
      /\ l.tool = CASE e.type = "call_start" -> [k.tool EXCEPT ![e.id] = "open"]
                    [] e.type = "call_end" -> [k.tool EXCEPT ![e.id] = "ended"]
                    [] e.type = "result" -> [k.tool EXCEPT ![e.id] = "done"]
                    [] OTHER -> k.tool
      /\ l.outcome = IF e.type = "run_finished" THEN e.id ELSE k.outcome
  <2>1. CASE e.type = "started"
    BY <1>1, <2>1 DEF Folds, Client, Closings
  <2>2. CASE e.type \in Closings
    BY <1>1, <2>2 DEF Folds, Client, Closings
  <2>3. CASE e.type \in {"call_start", "call_end", "result"}
    BY <1>1, <2>3 DEF Folds, Client, Closings
  <2>4. CASE e.type \in {"run_started", "run_finished", "text_start", "text_end",
                         "reasoning_start", "reasoning_end"}
    BY <1>1, <2>4 DEF Folds, Client, Closings
  <2>5. CASE e.type \in {"finish", "text", "reasoning", "call_args"}
    BY <1>1, <2>5 DEF Folds, Client, Closings
  <2> QED
    BY <2>1, <2>2, <2>3, <2>4, <2>5 DEF Fits, Quiet
<1>3. /\ Notes(Noted(n, e))
      /\ Noted(n, e).waiting = Post(Board(k, n), e).waiting
      /\ Noted(n, e).runs = Post(Board(k, n), e).runs
  BY DEF Noted, Notes, Post, Board
<1> HIDE DEF l
<1>4. Board(k, n).parent \in [Group -> Group \cup {None}] /\ Board(k, n).card = k.card
      /\ Board(k, n).parent = k.parent
  BY BoardFields DEF Fits, Board
<1>5. l.parent = Post(Board(k, n), e).parent
  BY <1>2, <1>4 DEF Post
<1>6. /\ l.card = Post(Board(k, n), e).card /\ l.tool = Post(Board(k, n), e).tool
      /\ l.outcome = Post(Board(k, n), e).outcome
  BY <1>2 DEF Post, Board
<1>7. Post(Board(k, n), e)
        = Board(l, Noted(n, e))
  <2>1. Post(Board(k, n), e)
          = [card |-> Post(Board(k, n), e).card, parent |-> Post(Board(k, n), e).parent,
             tool |-> Post(Board(k, n), e).tool, outcome |-> Post(Board(k, n), e).outcome,
             waiting |-> Post(Board(k, n), e).waiting, runs |-> Post(Board(k, n), e).runs]
    BY DEF Post
  <2> QED
    BY <2>1, <1>3, <1>5, <1>6 DEF Board
<1> QED
  BY <1>2, <1>3, <1>7 DEF l, f
-----------------------------------------------------------------------------
(* What each operator of the stream does.                                  *)

\* What a stream, a segment and an event are made of.
LEMMA StreamFields ==
  ASSUME NEW s \in Streams
  PROVE  /\ s.seg \in [Group -> Segments] /\ s.begun \in Seq(Group)
         /\ s.owner \in [Calls -> Group \cup {None}] /\ s.known \subseteq Calls
         /\ s.ids \in [Scopes -> Nat]
  BY DEF Streams

LEMMA SegmentFields ==
  ASSUME NEW i \in Segments
  PROVE  /\ i.open \in BOOLEAN /\ i.parent \in Group \cup {None}
         /\ i.text \in Ids /\ i.thought \in Ids /\ i.step \in Ids
         /\ i.args \in [Calls -> {"unsent", "empty", "sent"}] /\ i.ended \subseteq Calls
  BY DEF Segments

\* No card is touched: the board's, and the segments that mirror them.
CardsKept(s, b, t, c) ==
  /\ c.card = b.card /\ c.parent = b.parent /\ t.begun = s.begun
  /\ \A h \in Group : t.seg[h].open = s.seg[h].open /\ t.seg[h].parent = s.seg[h].parent

\* The call d is not touched.
CallKept(s, b, t, c, d) ==
  /\ \A h \in Group : /\ t.seg[h].args[d] = s.seg[h].args[d]
                      /\ d \in t.seg[h].ended <=> d \in s.seg[h].ended
  /\ t.owner[d] = s.owner[d] /\ (d \in t.known <=> d \in s.known)
  /\ c.tool[d] = b.tool[d] /\ (d \in c.waiting <=> d \in b.waiting) /\ c.runs[d] = b.runs[d]
CallsKept(s, b, t, c) == \A d \in Calls : CallKept(s, b, t, c, d)

LEMMA MadeEvents ==
  ASSUME NEW g \in Scopes, NEW i \in Ids, NEW p \in Ids, NEW type,
         type \in Kinds
  PROVE  E(type, g, i, p) \in Events
  BY DEF E, Events

LEMMA NoneId == None \in Ids
  BY DEF Ids

LEMMA NextIds ==
  ASSUME NEW s \in Streams, NEW g \in Group
  PROVE  NextId(s, g) \in Ids /\ s.ids[g] + 1 \in Nat
<1>1. g \in Scopes /\ s.ids[g] \in Nat
  BY StreamFields DEF Scopes
<1> QED
  BY <1>1 DEF NextId, Ids

\* What is being said is closed by quiet events.
LEMMA ClosesSpeech ==
  ASSUME NEW s \in Streams, NEW g \in Group
  PROVE  /\ CloseThought(s, g) \in Seq(Events) /\ CloseText(s, g) \in Seq(Events)
         /\ \A i \in 1..Len(CloseThought(s, g)) : CloseThought(s, g)[i].type \in Quiet
         /\ \A i \in 1..Len(CloseText(s, g)) : CloseText(s, g)[i].type \in Quiet
<1>1. g \in Scopes /\ s.seg[g].text \in Ids /\ s.seg[g].thought \in Ids
  BY StreamFields, SegmentFields DEF Scopes
<1>2. /\ E("reasoning_end", g, s.seg[g].thought, None) \in Events
      /\ E("text_end", g, s.seg[g].text, None) \in Events
  BY <1>1, MadeEvents, NoneId DEF Quiet, Kinds
<1>3. "reasoning_end" \in Quiet /\ "text_end" \in Quiet
  BY DEF Quiet
<1>4. /\ E("reasoning_end", g, s.seg[g].thought, None).type = "reasoning_end"
      /\ E("text_end", g, s.seg[g].text, None).type = "text_end"
  BY DEF E
<1> HIDE DEF E
<1> QED
  BY <1>2, <1>3, <1>4 DEF CloseThought, CloseText

\* Quiet events behind quiet events.
LEMMA QuietJoin ==
  ASSUME NEW q \in Seq(Events), NEW r \in Seq(Events),
         \A i \in 1..Len(q) : q[i].type \in Quiet, \A i \in 1..Len(r) : r[i].type \in Quiet
  PROVE  q \o r \in Seq(Events) /\ \A i \in 1..Len(q \o r) : (q \o r)[i].type \in Quiet
<1>1. ASSUME NEW i \in 1..Len(q \o r)
      PROVE  (q \o r)[i].type \in Quiet
  <2>1. CASE i <= Len(q)
    BY <2>1
  <2>2. CASE i > Len(q)
    BY <2>2
  <2> QED
    BY <2>1, <2>2
<1> QED
  BY <1>1

LEMMA QuietOne ==
  ASSUME NEW type \in Quiet, NEW g \in Group, NEW m \in Ids
  PROVE  /\ <<E(type, g, m, None)>> \in Seq(Events)
         /\ \A i \in 1..Len(<<E(type, g, m, None)>>) : <<E(type, g, m, None)>>[i].type \in Quiet
<1>1. E(type, g, m, None) \in Events
  BY MadeEvents, NoneId DEF Scopes, Kinds
<1>2. E(type, g, m, None).type = type
  BY DEF E
<1> QED
  BY <1>1, <1>2

\* The stream s with a segment replaced, and the rest as given.
Revised(s, g, i, begun, owner, ids) ==
  [seg |-> [s.seg EXCEPT ![g] = i], begun |-> begun, owner |-> owner, known |-> s.known,
   ids |-> ids]

\* A stream with one segment replaced is a stream; if cards and calls are as they were,
\* nothing that is told changes.
LEMMA Revises ==
  ASSUME NEW s \in Streams, NEW g \in Group, NEW i \in Segments, NEW begun \in Seq(Group),
         NEW owner \in [Calls -> Group \cup {None}], NEW ids \in [Scopes -> Nat],
         NEW t, t = Revised(s, g, i, begun, owner, ids)
  PROVE  /\ t \in Streams /\ t.seg[g] = i /\ \A h \in Group \ {g} : t.seg[h] = s.seg[h]
         /\ t.begun = begun /\ t.owner = owner /\ t.known = s.known /\ t.ids = ids
<1>1. [s.seg EXCEPT ![g] = i] \in [Group -> Segments]
  BY StreamFields
<1>2. /\ [s.seg EXCEPT ![g] = i][g] = i
      /\ \A h \in Group \ {g} : [s.seg EXCEPT ![g] = i][h] = s.seg[h]
  BY StreamFields
<1>3. s.known \subseteq Calls
  BY StreamFields
<1> QED
  BY <1>1, <1>2, <1>3 DEF Revised, Streams

LEMMA RevisedKeeps ==
  ASSUME NEW s \in Streams, NEW g \in Group, NEW i \in Segments, NEW ids \in [Scopes -> Nat],
         i.open = s.seg[g].open, i.parent = s.seg[g].parent, i.args = s.seg[g].args,
         i.ended = s.seg[g].ended, NEW b, NEW t, t = Revised(s, g, i, s.begun, s.owner, ids)
  PROVE  t \in Streams /\ CardsKept(s, b, t, b) /\ CallsKept(s, b, t, b)
<1>1. /\ t \in Streams /\ t.seg[g] = i /\ \A h \in Group \ {g} : t.seg[h] = s.seg[h]
      /\ t.begun = s.begun /\ t.owner = s.owner /\ t.known = s.known
  BY Revises, StreamFields
<1> QED
  BY <1>1 DEF CardsKept, CallsKept, CallKept

\* Text and reasoning tell nothing of cards and calls.
LEMMA TokenDoes ==
  ASSUME NEW s \in Streams, NEW g \in Group, NEW x, NEW b \in Boards
  PROVE  LET h == Token(s, g)
         IN /\ h.s \in Streams /\ h.out \in Seq(Events) /\ Leads(x, b, h.out, b)
            /\ CardsKept(s, b, h.s, b) /\ CallsKept(s, b, h.s, b)
<1> DEFINE new == s.seg[g].text = None
           m == IF new THEN NextId(s, g) ELSE s.seg[g].text
           step == IF new THEN m ELSE s.seg[g].step
           id == IF new THEN s.ids[g] + 1 ELSE s.ids[g]
           i == [s.seg[g] EXCEPT !.thought = None, !.text = m, !.step = step]
           t == Revised(s, g, i, s.begun, s.owner, [s.ids EXCEPT ![g] = id])
<1>1. /\ g \in Scopes /\ s.seg[g] \in Segments /\ s.ids[g] \in Nat /\ m \in Ids
      /\ step \in Ids /\ id \in Nat
  BY StreamFields, SegmentFields, NextIds DEF Scopes
<1>2. Token(s, g).s = [s EXCEPT !.seg[g].thought = None, !.seg[g].text = m,
                                !.seg[g].step = step, !.ids[g] = id]
  BY DEF Token
<1> HIDE DEF m, step, id
<1>3. Token(s, g).s = t
  <2>1. [s EXCEPT !.seg[g].thought = None, !.seg[g].text = m, !.seg[g].step = step]
          = [s EXCEPT !.seg = [s.seg EXCEPT ![g] = i]]
    BY DEF Streams, Segments
  <2>2. Token(s, g).s = [[s EXCEPT !.seg = [s.seg EXCEPT ![g] = i]] EXCEPT !.ids[g] = id]
    BY <1>2, <2>1
  <2> HIDE DEF i
  <2> QED
    BY <2>2 DEF Revised, Streams
<1>4. i \in Segments /\ i.open = s.seg[g].open /\ i.parent = s.seg[g].parent
      /\ i.args = s.seg[g].args /\ i.ended = s.seg[g].ended
  BY <1>1, NoneId DEF Segments
<1> HIDE DEF i
<1>5. [s.ids EXCEPT ![g] = id] \in [Scopes -> Nat]
  BY <1>1, StreamFields
<1>6. t \in Streams /\ CardsKept(s, b, t, b) /\ CallsKept(s, b, t, b)
  BY <1>4, <1>5, RevisedKeeps
<1>7. /\ Token(s, g).out \in Seq(Events)
      /\ \A j \in 1..Len(Token(s, g).out) : Token(s, g).out[j].type \in Quiet
  <2> DEFINE opens == IF new THEN <<E("text_start", g, m, None)>> ELSE <<>>
             says == <<E("text", g, m, None)>>
  <2>1. /\ opens \in Seq(Events) /\ says \in Seq(Events)
        /\ \A j \in 1..Len(opens) : opens[j].type \in Quiet
        /\ \A j \in 1..Len(says) : says[j].type \in Quiet
    BY <1>1, QuietOne DEF Quiet
  <2>2. Token(s, g).out = (CloseThought(s, g) \o opens) \o says
    BY DEF Token, m
  <2> HIDE DEF opens, says
  <2>3. /\ CloseThought(s, g) \o opens \in Seq(Events)
        /\ \A j \in 1..Len(CloseThought(s, g) \o opens) :
             (CloseThought(s, g) \o opens)[j].type \in Quiet
    BY <2>1, ClosesSpeech, QuietJoin
  <2> QED
    BY <2>1, <2>2, <2>3, QuietJoin
<1> HIDE DEF t
<1> QED
  BY <1>3, <1>6, <1>7, QuietLeads

LEMMA ReasoningDoes ==
  ASSUME NEW s \in Streams, NEW g \in Group, NEW x, NEW b \in Boards
  PROVE  LET h == Reasoning(s, g)
         IN /\ h.s \in Streams /\ h.out \in Seq(Events) /\ Leads(x, b, h.out, b)
            /\ CardsKept(s, b, h.s, b) /\ CallsKept(s, b, h.s, b)
<1> DEFINE new == s.seg[g].thought = None
           m == IF new THEN NextId(s, g) ELSE s.seg[g].thought
           step == IF new THEN None ELSE s.seg[g].step
           id == IF new THEN s.ids[g] + 1 ELSE s.ids[g]
           i == [s.seg[g] EXCEPT !.text = None, !.thought = m, !.step = step]
           t == Revised(s, g, i, s.begun, s.owner, [s.ids EXCEPT ![g] = id])
<1>1. /\ g \in Scopes /\ s.seg[g] \in Segments /\ s.ids[g] \in Nat /\ m \in Ids
      /\ step \in Ids /\ id \in Nat
  BY StreamFields, SegmentFields, NextIds, NoneId DEF Scopes
<1>2. Reasoning(s, g).s = [s EXCEPT !.seg[g].text = None, !.seg[g].thought = m,
                                    !.seg[g].step = step, !.ids[g] = id]
  BY DEF Reasoning
<1> HIDE DEF m, step, id
<1>3. Reasoning(s, g).s = t
  <2>1. [s EXCEPT !.seg[g].text = None, !.seg[g].thought = m, !.seg[g].step = step]
          = [s EXCEPT !.seg = [s.seg EXCEPT ![g] = i]]
    BY DEF Streams, Segments
  <2>2. Reasoning(s, g).s = [[s EXCEPT !.seg = [s.seg EXCEPT ![g] = i]] EXCEPT !.ids[g] = id]
    BY <1>2, <2>1
  <2> HIDE DEF i
  <2> QED
    BY <2>2 DEF Revised, Streams
<1>4. i \in Segments /\ i.open = s.seg[g].open /\ i.parent = s.seg[g].parent
      /\ i.args = s.seg[g].args /\ i.ended = s.seg[g].ended
  BY <1>1, NoneId DEF Segments
<1> HIDE DEF i
<1>5. [s.ids EXCEPT ![g] = id] \in [Scopes -> Nat]
  BY <1>1, StreamFields
<1>6. t \in Streams /\ CardsKept(s, b, t, b) /\ CallsKept(s, b, t, b)
  BY <1>4, <1>5, RevisedKeeps
<1>7. /\ Reasoning(s, g).out \in Seq(Events)
      /\ \A j \in 1..Len(Reasoning(s, g).out) : Reasoning(s, g).out[j].type \in Quiet
  <2> DEFINE opens == IF new THEN <<E("reasoning_start", g, m, None)>> ELSE <<>>
             says == <<E("reasoning", g, m, None)>>
  <2>1. /\ opens \in Seq(Events) /\ says \in Seq(Events)
        /\ \A j \in 1..Len(opens) : opens[j].type \in Quiet
        /\ \A j \in 1..Len(says) : says[j].type \in Quiet
    BY <1>1, QuietOne DEF Quiet
  <2>2. Reasoning(s, g).out = (CloseText(s, g) \o opens) \o says
    BY DEF Reasoning, m
  <2> HIDE DEF opens, says
  <2>3. /\ CloseText(s, g) \o opens \in Seq(Events)
        /\ \A j \in 1..Len(CloseText(s, g) \o opens) :
             (CloseText(s, g) \o opens)[j].type \in Quiet
    BY <2>1, ClosesSpeech, QuietJoin
  <2> QED
    BY <2>1, <2>2, <2>3, QuietJoin
<1> HIDE DEF t
<1> QED
  BY <1>3, <1>6, <1>7, QuietLeads
\* The segment g is open under the card p, if it was not.
CardOpens(s, b, t, c, g, p) ==
  /\ \A h \in Group : t.seg[h].open <=> s.seg[h].open \/ h = g
  /\ \A h \in Group \ {g} : c.card[h] = b.card[h] /\ c.parent[h] = b.parent[h]
  /\ IF s.seg[g].open
       THEN t.begun = s.begun /\ c.card[g] = b.card[g] /\ c.parent[g] = b.parent[g]
       ELSE /\ t.begun = IF g \in Range(s.begun) THEN s.begun ELSE Append(s.begun, g)
            /\ c.card[g] = "active"
            /\ c.parent[g] = IF b.card[g] = "none" THEN p ELSE b.parent[g]

\* Under the segment that owns the delegation, or where it was, if that is open.
Under(s, g, delegation) ==
  LET parent == IF g \in Range(s.begun) THEN s.seg[g].parent
                ELSE IF delegation = None THEN None ELSE s.owner[delegation]
  IN IF parent # None /\ s.seg[parent].open THEN parent ELSE None

\* A segment that begins opens its card, and that is all.
LEMMA BeginDoes ==
  ASSUME NEW s \in Streams, NEW g \in Group, NEW delegation \in Calls \cup {None},
         NEW x, NEW b \in Boards
  PROVE  LET h == Begin(s, g, delegation)
         IN /\ h.s \in Streams /\ h.out \in Seq(Events)
            /\ \E c \in Boards : /\ Leads(x, b, h.out, c) /\ CallsKept(s, b, h.s, c)
                                 /\ CardOpens(s, b, h.s, c, g, Under(s, g, delegation))
<1>1. CASE s.seg[g].open
  <2>1. Begin(s, g, delegation) = [s |-> s, out |-> <<>>]
    BY <1>1 DEF Begin
  <2>2. Leads(x, b, <<>>, b) /\ CallsKept(s, b, s, b)
    BY LeadsEmpty DEF CallsKept, CallKept
  <2>3. CardOpens(s, b, s, b, g, Under(s, g, delegation))
    BY <1>1 DEF CardOpens
  <2> QED
    BY <2>1, <2>2, <2>3
<1>2. CASE ~s.seg[g].open
  <2> DEFINE parent == IF g \in Range(s.begun) THEN s.seg[g].parent
                       ELSE IF delegation = None THEN None ELSE s.owner[delegation]
             begun == IF g \in Range(s.begun) THEN s.begun ELSE Append(s.begun, g)
             i == [s.seg[g] EXCEPT !.open = TRUE, !.parent = parent]
             p == Under(s, g, delegation)
             e == E("started", g, None, p)
             t == Begin(s, g, delegation).s
  <2>1. /\ g \in Scopes /\ s.seg[g] \in Segments /\ parent \in Group \cup {None}
        /\ begun \in Seq(Group) /\ p \in Group \cup {None}
    BY StreamFields, SegmentFields DEF Scopes, Under
  <2>2. /\ Begin(s, g, delegation).out = <<e>>
        /\ t = [s EXCEPT !.seg[g].open = TRUE, !.seg[g].parent = parent, !.begun = begun]
    BY <1>2 DEF Begin, Under
  <2> HIDE DEF parent, begun, p, t
  <2>3. t = Revised(s, g, i, begun, s.owner, s.ids)
    <3>1. [s EXCEPT !.seg[g].open = TRUE, !.seg[g].parent = parent]
            = [s EXCEPT !.seg = [s.seg EXCEPT ![g] = i]]
      BY DEF Streams, Segments
    <3>2. t = [[s EXCEPT !.seg = [s.seg EXCEPT ![g] = i]] EXCEPT !.begun = begun]
      BY <2>2, <3>1
    <3> HIDE DEF i
    <3> QED
      BY <3>2 DEF Revised, Streams
  <2>4. i \in Segments /\ i.open = TRUE /\ i.args = s.seg[g].args /\ i.ended = s.seg[g].ended
    BY <2>1 DEF Segments
  <2> HIDE DEF i
  <2>5. /\ t \in Streams /\ t.seg[g] = i /\ \A h \in Group \ {g} : t.seg[h] = s.seg[h]
        /\ t.begun = begun /\ t.owner = s.owner /\ t.known = s.known
    <3>1. s.owner \in [Calls -> Group \cup {None}] /\ s.ids \in [Scopes -> Nat]
      BY StreamFields
    <3> QED
      BY <2>1, <2>3, <2>4, <3>1, Revises
  <2>6. PICK c : c = Post(b, e)
    OBVIOUS
  <2>7. /\ c \in Boards /\ c.card = [b.card EXCEPT ![g] = "active"]
        /\ c.parent = [b.parent EXCEPT ![g] = IF b.card[g] = "none" THEN p ELSE @]
        /\ c.tool = b.tool /\ c.waiting = b.waiting /\ c.runs = b.runs
    <3>1. PICK r \in Group \cup {None} : r = p
      BY <2>1
    <3>2. c = Post(b, E("started", g, None, r))
      BY <2>6, <3>1
    <3> HIDE DEF e
    <3>3. /\ c \in Boards /\ c.card = [b.card EXCEPT ![g] = "active"]
          /\ c.parent = [b.parent EXCEPT ![g] = IF b.card[g] = "none" THEN r ELSE @]
          /\ c.tool = b.tool /\ c.waiting = b.waiting /\ c.runs = b.runs
      BY <3>2, StartedPosts
    <3> QED
      BY <3>1, <3>3
  <2>8. e \in Events /\ Fits(x, b, e)
    <3>1. p \in Ids /\ None \in Ids
      BY <2>1, NoneId DEF Ids, Scopes
    <3>2. e \in Events
      BY <2>1, <3>1, MadeEvents DEF Kinds
    <3> QED
      BY <2>1, <3>2 DEF Fits, E
  <2>9. Leads(x, b, <<e>>, c) /\ <<e>> \in Seq(Events)
    BY <2>6, <2>8, LeadsOne
  <2>10. CallsKept(s, b, t, c)
    BY <2>4, <2>5, <2>7 DEF CallsKept, CallKept
  <2>11. CardOpens(s, b, t, c, g, p)
    BY <1>2, <2>4, <2>5, <2>7, BoardFields DEF CardOpens, begun
  <2> QED
    BY <2>2, <2>5, <2>7, <2>9, <2>10, <2>11 DEF p, t
<1> QED
  BY <1>1, <1>2

\* The segment g is closed, if it was open.
CardCloses(s, b, t, c, g, how) ==
  /\ \A h \in Group : t.seg[h].open <=> s.seg[h].open /\ h # g
  /\ t.begun = s.begun /\ c.parent = b.parent
  /\ \A h \in Group : c.card[h] = IF h = g /\ s.seg[g].open THEN how ELSE b.card[h]

\* A segment that ends closes its card; none but those of x are open under it.
LEMMA EndDoes ==
  ASSUME NEW s \in Streams, NEW g \in Group, NEW how \in Closings, NEW x, NEW b \in Boards,
         \A h \in Group : b.card[h] = "active" /\ b.parent[h] = g => h \in x
  PROVE  LET h == End(s, g, how)
         IN /\ h.s \in Streams /\ h.out \in Seq(Events)
            /\ \E c \in Boards : /\ Leads(x, b, h.out, c) /\ CallsKept(s, b, h.s, c)
                                 /\ CardCloses(s, b, h.s, c, g, how)
<1>1. CASE ~s.seg[g].open
  <2>1. End(s, g, how) = [s |-> s, out |-> <<>>]
    BY <1>1 DEF End
  <2>2. Leads(x, b, <<>>, b) /\ CallsKept(s, b, s, b)
    BY LeadsEmpty DEF CallsKept, CallKept
  <2>3. CardCloses(s, b, s, b, g, how)
    BY <1>1 DEF CardCloses
  <2> QED
    BY <2>1, <2>2, <2>3
<1>2. CASE s.seg[g].open
  <2> DEFINE i == [s.seg[g] EXCEPT !.open = FALSE, !.text = None, !.thought = None]
             e == E(how, g, None, None)
             says == CloseThought(s, g) \o CloseText(s, g)
             t == End(s, g, how).s
  <2>1. g \in Scopes /\ s.seg[g] \in Segments
    BY StreamFields DEF Scopes
  <2>2. /\ End(s, g, how).out = says \o <<e>>
        /\ t = [s EXCEPT !.seg[g].open = FALSE, !.seg[g].text = None, !.seg[g].thought = None]
    BY <1>2 DEF End
  <2> HIDE DEF t
  <2>3. t = Revised(s, g, i, s.begun, s.owner, s.ids)
    <3>1. [s EXCEPT !.seg[g].open = FALSE, !.seg[g].text = None, !.seg[g].thought = None]
            = [s EXCEPT !.seg = [s.seg EXCEPT ![g] = i]]
      BY DEF Streams, Segments
    <3> HIDE DEF i
    <3> QED
      BY <2>2, <3>1 DEF Revised, Streams
  <2>4. i \in Segments /\ i.open = FALSE /\ i.args = s.seg[g].args /\ i.ended = s.seg[g].ended
    BY <2>1, NoneId DEF Segments
  <2> HIDE DEF i
  <2>5. /\ t \in Streams /\ t.seg[g] = i /\ \A h \in Group \ {g} : t.seg[h] = s.seg[h]
        /\ t.begun = s.begun /\ t.owner = s.owner /\ t.known = s.known
    BY <2>1, <2>3, <2>4, Revises, StreamFields
  <2>6. PICK c : c = Post(b, e)
    OBVIOUS
  <2>7. /\ c \in Boards /\ c.card = [b.card EXCEPT ![g] = how] /\ c.parent = b.parent
        /\ c.tool = b.tool /\ c.waiting = b.waiting /\ c.runs = b.runs
    BY <2>6, ClosingPosts
  <2>8. e \in Events /\ Fits(x, b, e)
    <3>2. e \in Events
      BY <2>1, NoneId, MadeEvents DEF Kinds
    <3> QED
      BY <2>1, <3>2 DEF Fits, E
  <2>9. Leads(x, b, <<e>>, c) /\ <<e>> \in Seq(Events)
    BY <2>6, <2>8, LeadsOne
  <2> HIDE DEF e
  <2>10. says \in Seq(Events) /\ Leads(x, b, says, b)
    BY ClosesSpeech, QuietJoin, QuietLeads
  <2> HIDE DEF says
  <2>11. Leads(x, b, says \o <<e>>, c) /\ says \o <<e>> \in Seq(Events)
    <3>1. says \o <<e>> \in Seq(Events)
      BY <2>9, <2>10
    <3>2. Leads(x, b, says \o <<e>>, c)
      BY <2>9, <2>10, LeadsJoin, Zenon
    <3> QED
      BY <3>1, <3>2
  <2>12. CallsKept(s, b, t, c)
    BY <2>4, <2>5, <2>7 DEF CallsKept, CallKept
  <2>13. CardCloses(s, b, t, c, g, how)
    BY <1>2, <2>4, <2>5, <2>7, BoardFields DEF CardCloses
  <2> QED
    BY <2>2, <2>5, <2>7, <2>11, <2>12, <2>13 DEF t
<1> QED
  BY <1>1, <1>2
\* No call but c is touched, and c in no segment but g.
CallsOnly(s, b, t, d, g, c) ==
  /\ \A e \in Calls \ {c} : CallKept(s, b, t, d, e)
  /\ \A h \in Group \ {g} : /\ t.seg[h].args[c] = s.seg[h].args[c]
                            /\ c \in t.seg[h].ended <=> c \in s.seg[h].ended
  /\ c \in t.known <=> c \in s.known
Only(s, b, t, d, g, c) ==
  t \in Streams /\ d \in Boards /\ CardsKept(s, b, t, d) /\ CallsOnly(s, b, t, d, g, c)

\* The call c is announced in the segment g, if it was not; said are its arguments.
CallStarts(s, b, t, d, g, c) ==
  /\ t.seg[g].args[c] # "unsent"
  /\ IF s.seg[g].args[c] = "unsent"
       THEN /\ t.owner[c] = g /\ d.runs[c] = g
            /\ c \in d.waiting <=> c \in Browser \cup b.waiting
       ELSE /\ t.owner[c] = s.owner[c] /\ d.runs[c] = b.runs[c]
            /\ c \in d.waiting <=> c \in b.waiting

\* Nothing done keeps cards and calls.
LEMMA KeptSame ==
  ASSUME NEW s, NEW b
  PROVE  CardsKept(s, b, s, b) /\ CallsKept(s, b, s, b)
  BY DEF CardsKept, CallsKept, CallKept

\* A call that starts is announced, open, in its segment.
LEMMA StartCallDoes ==
  ASSUME NEW s \in Streams, NEW g \in Group, NEW c \in Calls, NEW x, NEW b \in Boards,
         s.seg[g].args[c] = "unsent"
  PROVE  LET h == StartCall(s, g, c)
         IN /\ h.s \in Streams /\ h.out \in Seq(Events)
            /\ \E d \in Boards :
                 /\ Leads(x, b, h.out, d) /\ Only(s, b, h.s, d, g, c)
                 /\ CallStarts(s, b, h.s, d, g, c) /\ d.tool[c] = "open"
                 /\ h.s.seg[g].args[c] = "empty"
                 /\ c \in h.s.seg[g].ended <=> c \in s.seg[g].ended
<1> DEFINE new == s.seg[g].step = None
           m == IF new THEN NextId(s, g) ELSE s.seg[g].step
           id == IF new THEN s.ids[g] + 1 ELSE s.ids[g]
           args == [s.seg[g].args EXCEPT ![c] = "empty"]
           i == [s.seg[g] EXCEPT !.text = None, !.thought = None, !.step = m, !.args = args]
           owner == [s.owner EXCEPT ![c] = g]
           ids == [s.ids EXCEPT ![g] = id]
           e == E("call_start", g, c, m)
           says == CloseThought(s, g) \o CloseText(s, g)
           t == StartCall(s, g, c).s
<1>1. /\ g \in Scopes /\ s.seg[g] \in Segments /\ s.ids[g] \in Nat /\ m \in Ids /\ id \in Nat
      /\ s.owner \in [Calls -> Group \cup {None}] /\ s.begun \in Seq(Group)
      /\ s.seg[g].args \in [Calls -> {"unsent", "empty", "sent"}]
  BY StreamFields, SegmentFields, NextIds DEF Scopes
<1>2. /\ StartCall(s, g, c).out = says \o <<e>>
      /\ t = [s EXCEPT !.seg[g].text = None, !.seg[g].thought = None, !.seg[g].step = m,
                       !.seg[g].args[c] = "empty", !.owner[c] = g, !.ids[g] = id]
  BY DEF StartCall
<1> HIDE DEF m, id, t
<1>3. t = Revised(s, g, i, s.begun, owner, ids)
  <2> DEFINE j == [s.seg[g] EXCEPT !.text = None, !.thought = None, !.step = m]
  <2>1. [s EXCEPT !.seg[g].text = None, !.seg[g].thought = None, !.seg[g].step = m]
          = [s EXCEPT !.seg = [s.seg EXCEPT ![g] = j]]
    BY DEF Streams, Segments
  <2>2. [[s EXCEPT !.seg = [s.seg EXCEPT ![g] = j]] EXCEPT !.seg[g].args[c] = "empty"]
          = [s EXCEPT !.seg = [s.seg EXCEPT ![g] = i]]
    <3>1. i = [j EXCEPT !.args[c] = "empty"]
      BY <1>1 DEF Segments
    <3> HIDE DEF i, j
    <3> QED
      BY <3>1 DEF Streams
  <2>3. t = [[[s EXCEPT !.seg[g].text = None, !.seg[g].thought = None, !.seg[g].step = m]
                 EXCEPT !.seg[g].args[c] = "empty"] EXCEPT !.owner[c] = g, !.ids[g] = id]
    BY <1>2
  <2>4. t = [[s EXCEPT !.seg = [s.seg EXCEPT ![g] = i]] EXCEPT !.owner[c] = g, !.ids[g] = id]
    BY <2>1, <2>2, <2>3
  <2> HIDE DEF i
  <2> QED
    BY <2>4 DEF Revised, Streams
<1>4. /\ i \in Segments /\ i.open = s.seg[g].open /\ i.parent = s.seg[g].parent
      /\ i.args = args /\ i.ended = s.seg[g].ended
  BY <1>1, NoneId DEF Segments
<1> HIDE DEF i
<1>5. owner \in [Calls -> Group \cup {None}] /\ ids \in [Scopes -> Nat]
  BY <1>1, StreamFields
<1>6. /\ owner[c] = g /\ \A f \in Calls \ {c} : owner[f] = s.owner[f]
      /\ args[c] = "empty" /\ \A f \in Calls \ {c} : args[f] = s.seg[g].args[f]
  BY <1>1
<1> HIDE DEF owner, ids, args
<1>7. /\ t \in Streams /\ t.seg[g] = i /\ \A h \in Group \ {g} : t.seg[h] = s.seg[h]
      /\ t.begun = s.begun /\ t.owner = owner /\ t.known = s.known
  BY <1>1, <1>3, <1>4, <1>5, Revises
<1>8. PICK d : d = Post(b, e)
  OBVIOUS
<1>9. /\ d \in Boards /\ Others(b, d, c) /\ d.tool[c] = "open" /\ d.card = b.card
      /\ d.parent = b.parent
      /\ c \in d.waiting <=> c \in Browser \cup b.waiting
      /\ d.runs[c] = IF g = Chat THEN b.runs[c] ELSE g
  BY <1>1, <1>8, CallStartPosts
<1>10. d.runs[c] = g
  BY <1>9, SubagentStreamAssumption
<1>11. Leads(x, b, says \o <<e>>, d) /\ says \o <<e>> \in Seq(Events)
  <2>1. e \in Events
    <3>1. c \in Ids
      BY DEF Ids
    <3> QED
      BY <1>1, <3>1, MadeEvents DEF Kinds
  <2>2. Fits(x, b, e)
    BY <2>1 DEF Fits, E
  <2>3. Leads(x, b, <<e>>, d) /\ <<e>> \in Seq(Events)
    BY <1>8, <2>1, <2>2, LeadsOne
  <2> HIDE DEF e
  <2>4. says \in Seq(Events) /\ Leads(x, b, says, b)
    BY ClosesSpeech, QuietJoin, QuietLeads
  <2> HIDE DEF says
  <2>5. says \o <<e>> \in Seq(Events)
    BY <2>3, <2>4
  <2>6. Leads(x, b, says \o <<e>>, d)
    BY <2>3, <2>4, LeadsJoin, Zenon
  <2> QED
    BY <2>5, <2>6
<1>12. Only(s, b, t, d, g, c)
  <2>1. CardsKept(s, b, t, d)
    BY <1>4, <1>7, <1>9 DEF CardsKept
  <2>2. ASSUME NEW f \in Calls \ {c}
        PROVE  CallKept(s, b, t, d, f)
    <3>1. \A h \in Group : /\ t.seg[h].args[f] = s.seg[h].args[f]
                           /\ f \in t.seg[h].ended <=> f \in s.seg[h].ended
      BY <1>4, <1>6, <1>7
    <3>2. /\ d.tool[f] = b.tool[f] /\ d.runs[f] = b.runs[f]
          /\ f \in d.waiting <=> f \in b.waiting
      BY <1>9 DEF Others
    <3>3. t.owner[f] = s.owner[f] /\ t.known = s.known
      BY <1>6, <1>7
    <3> QED
      BY <3>1, <3>2, <3>3 DEF CallKept
  <2> QED
    BY <2>1, <2>2, <1>7, <1>9 DEF Only, CallsOnly
<1>13. CallStarts(s, b, t, d, g, c)
  BY <1>4, <1>6, <1>7, <1>9, <1>10 DEF CallStarts
<1>14. t.seg[g].args[c] = "empty" /\ (c \in t.seg[g].ended <=> c \in s.seg[g].ended)
  BY <1>4, <1>6, <1>7
<1>15. StartCall(s, g, c).s = t
  BY DEF t
<1> HIDE DEF says, e
<1>16. \E f \in Boards :
         /\ Leads(x, b, says \o <<e>>, f) /\ Only(s, b, t, f, g, c)
         /\ CallStarts(s, b, t, f, g, c) /\ f.tool[c] = "open"
         /\ t.seg[g].args[c] = "empty"
         /\ c \in t.seg[g].ended <=> c \in s.seg[g].ended
  BY <1>9, <1>10, <1>11, <1>12, <1>13, <1>14
<1> QED
  BY <1>2, <1>7, <1>11, <1>15, <1>16

\* So it is, unless it was.
LEMMA StartedDoes ==
  ASSUME NEW s \in Streams, NEW g \in Group, NEW c \in Calls, NEW x, NEW b \in Boards
  PROVE  LET h == Started(s, g, c)
         IN /\ h.s \in Streams /\ h.out \in Seq(Events)
            /\ \E d \in Boards :
                 /\ Leads(x, b, h.out, d) /\ Only(s, b, h.s, d, g, c)
                 /\ CallStarts(s, b, h.s, d, g, c)
                 /\ d.tool[c] = IF s.seg[g].args[c] = "unsent" THEN "open" ELSE b.tool[c]
                 /\ c \in h.s.seg[g].ended <=> c \in s.seg[g].ended
<1>1. CASE s.seg[g].args[c] = "unsent"
  <2>1. Started(s, g, c) = StartCall(s, g, c)
    BY <1>1 DEF Started
  <2> QED
    BY <1>1, <2>1, StartCallDoes
<1>2. CASE s.seg[g].args[c] # "unsent"
  <2>1. Started(s, g, c) = [s |-> s, out |-> <<>>]
    BY <1>2 DEF Started
  <2>2. Only(s, b, s, b, g, c) /\ CallStarts(s, b, s, b, g, c)
    BY <1>2, KeptSame DEF Only, CallsOnly, CallStarts, CallsKept
  <2> QED
    BY <1>2, <2>1, <2>2, LeadsEmpty
<1> QED
  BY <1>1, <1>2
\* Then its arguments are said, or its result, and nothing else of it changes.
LEMMA ThenSaid ==
  ASSUME NEW s, NEW b, NEW g \in Group, NEW c \in Calls, NEW t1, NEW d1,
         Only(s, b, t1, d1, g, c),
         NEW i \in Segments, i.open = t1.seg[g].open, i.parent = t1.seg[g].parent,
         \A f \in Calls \ {c} : /\ i.args[f] = t1.seg[g].args[f]
                                /\ f \in i.ended <=> f \in t1.seg[g].ended,
         NEW ids \in [Scopes -> Nat],
         NEW t, t = Revised(t1, g, i, t1.begun, t1.owner, ids),
         NEW d \in Boards, Others(d1, d, c), d.card = d1.card, d.parent = d1.parent
  PROVE  /\ Only(s, b, t, d, g, c) /\ t.owner = t1.owner /\ t.seg[g].ended = i.ended
         /\ t.seg[g].args = i.args
<1>1. t1 \in Streams /\ t1.begun \in Seq(Group) /\ t1.owner \in [Calls -> Group \cup {None}]
  BY StreamFields DEF Only, CallsOnly
<1>2. /\ t \in Streams /\ t.seg[g] = i /\ \A h \in Group \ {g} : t.seg[h] = t1.seg[h]
      /\ t.begun = t1.begun /\ t.owner = t1.owner /\ t.known = t1.known
  BY <1>1, Revises
<1>3. CardsKept(s, b, t, d)
  BY <1>2 DEF Only, CallsOnly, CardsKept
<1>4. ASSUME NEW f \in Calls \ {c}
      PROVE  CallKept(s, b, t, d, f)
  <2>1. CallKept(s, b, t1, d1, f)
    BY DEF Only, CallsOnly
  <2>2. /\ d.tool[f] = d1.tool[f] /\ d.runs[f] = d1.runs[f]
        /\ f \in d.waiting <=> f \in d1.waiting
    BY DEF Others
  <2>3. \A h \in Group : /\ t.seg[h].args[f] = t1.seg[h].args[f]
                         /\ f \in t.seg[h].ended <=> f \in t1.seg[h].ended
    BY <1>2
  <2> QED
    BY <1>2, <2>1, <2>2, <2>3 DEF CallKept
<1>5. \A h \in Group \ {g} : /\ t.seg[h].args[c] = s.seg[h].args[c]
                             /\ c \in t.seg[h].ended <=> c \in s.seg[h].ended
  BY <1>2 DEF Only, CallsOnly
<1>6. c \in t.known <=> c \in s.known
  BY <1>2 DEF Only, CallsOnly
<1> QED
  BY <1>2, <1>3, <1>4, <1>5, <1>6 DEF Only, CallsOnly

\* A queue goes on with a quiet event, or with any that fits.
LEMMA QuietThen ==
  ASSUME NEW x, NEW b, NEW d \in Boards, NEW q \in Seq(Events), Leads(x, b, q, d),
         NEW e \in Events, e.type \in Quiet
  PROVE  Append(q, e) \in Seq(Events) /\ Leads(x, b, Append(q, e), d)
<1>1. PICK r \in Seq(Events) : r = <<e>> /\ Len(r) = 1 /\ r[1] = e
  <2>1. <<e>> \in Seq(Events) /\ Len(<<e>>) = 1 /\ <<e>>[1] = e
    OBVIOUS
  <2> QED
    BY <2>1
<1>2. Leads(x, d, r, d)
  BY <1>1, QuietLeads
<1>3. Leads(x, b, q \o r, d)
  BY <1>2, LeadsJoin
<1>4. Append(q, e) = q \o r /\ q \o r \in Seq(Events)
  BY <1>1
<1> QED
  BY <1>3, <1>4

LEMMA LeadsThen ==
  ASSUME NEW x, NEW b, NEW d, NEW q \in Seq(Events), Leads(x, b, q, d),
         NEW e, Fits(x, d, e)
  PROVE  q \o <<e>> \in Seq(Events) /\ Leads(x, b, q \o <<e>>, Post(d, e))
<1>1. PICK r \in Seq(Events) : r = <<e>>
  <2>1. <<e>> \in Seq(Events)
    BY DEF Fits
  <2> QED
    BY <2>1
<1>2. Leads(x, d, r, Post(d, e))
  BY <1>1, LeadsOne
<1>3. PICK f : f = Post(d, e)
  OBVIOUS
<1>4. Leads(x, b, q \o r, f)
  BY <1>2, <1>3, LeadsJoin
<1> QED
  BY <1>1, <1>3, <1>4

\* What a call's arguments do.
Inputs(x, s, b, h, d, g, c) ==
  /\ h.s \in Streams /\ h.out \in Seq(Events) /\ d \in Boards
  /\ Leads(x, b, h.out, d) /\ Only(s, b, h.s, d, g, c) /\ CallStarts(s, b, h.s, d, g, c)
  /\ d.tool[c] = IF s.seg[g].args[c] = "unsent" THEN "open" ELSE b.tool[c]
  /\ c \notin h.s.seg[g].ended

\* A call whose arguments are written is announced.
LEMMA ToolInputDoes ==
  ASSUME NEW s \in Streams, NEW g \in Group, NEW c \in Calls, NEW written \in BOOLEAN,
         c \notin s.seg[g].ended \cup s.known, NEW x, NEW b \in Boards
  PROVE  \E d : Inputs(x, s, b, ToolInput(s, g, c, written), d, g, c)
<1>1. PICK t1, q, d :
         /\ Started(s, g, c).s = t1 /\ Started(s, g, c).out = q
         /\ t1 \in Streams /\ q \in Seq(Events) /\ d \in Boards
         /\ Leads(x, b, q, d) /\ Only(s, b, t1, d, g, c) /\ CallStarts(s, b, t1, d, g, c)
         /\ d.tool[c] = IF s.seg[g].args[c] = "unsent" THEN "open" ELSE b.tool[c]
         /\ c \in t1.seg[g].ended <=> c \in s.seg[g].ended
  BY StartedDoes
<1>2. CASE ~written
  <2>1. ToolInput(s, g, c, written) = Started(s, g, c)
    BY <1>2 DEF ToolInput
  <2> QED
    BY <1>1, <2>1 DEF Inputs
<1>3. CASE written
  <2> DEFINE e == E("call_args", g, c, None)
             args == [t1.seg[g].args EXCEPT ![c] = "sent"]
             i == [t1.seg[g] EXCEPT !.args = args]
             t == [t1 EXCEPT !.seg[g].args[c] = "sent"]
  <2>1. ToolInput(s, g, c, written) = [s |-> t, out |-> Append(q, e)]
    BY <1>1, <1>3 DEF ToolInput
  <2>2. e \in Events /\ e.type \in Quiet
    <3>1. c \in Ids /\ g \in Scopes /\ "call_args" \in Quiet
      BY DEF Ids, Scopes, Quiet
    <3>2. e \in Events
      BY <3>1, NoneId, MadeEvents DEF Kinds
    <3> QED
      BY <3>1, <3>2 DEF E
  <2> HIDE DEF e
  <2>3. Append(q, e) \in Seq(Events) /\ Leads(x, b, Append(q, e), d)
    BY <1>1, <2>2, QuietThen
  <2>4. /\ t1.seg[g] \in Segments /\ t1.seg[g].args \in [Calls -> {"unsent", "empty", "sent"}]
        /\ t1.ids \in [Scopes -> Nat]
    BY <1>1, StreamFields, SegmentFields
  <2>5. /\ i \in Segments /\ i.open = t1.seg[g].open /\ i.parent = t1.seg[g].parent
        /\ i.args = args /\ i.ended = t1.seg[g].ended
    BY <2>4 DEF Segments
  <2>6. t = Revised(t1, g, i, t1.begun, t1.owner, t1.ids)
    <3>1. t = [t1 EXCEPT !.seg = [t1.seg EXCEPT ![g] = i]]
      BY <1>1 DEF Streams, Segments
    <3> HIDE DEF i, t
    <3> QED
      BY <1>1, <3>1 DEF Revised, Streams
  <2>7. args[c] = "sent" /\ \A f \in Calls \ {c} : args[f] = t1.seg[g].args[f]
    BY <2>4
  <2> HIDE DEF args, i, t
  <2>8. Others(d, d, c)
    BY DEF Others
  <2>9. /\ Only(s, b, t, d, g, c) /\ t.owner = t1.owner /\ t.seg[g].ended = i.ended
        /\ t.seg[g].args = args
    BY <1>1, <2>4, <2>5, <2>6, <2>7, <2>8, ThenSaid
  <2>10. CallStarts(s, b, t, d, g, c)
    BY <1>1, <2>7, <2>9 DEF CallStarts
  <2>11. c \notin t.seg[g].ended /\ t \in Streams
    BY <1>1, <2>5, <2>9 DEF Only, CallsOnly
  <2> QED
    BY <1>1, <2>1, <2>3, <2>9, <2>10, <2>11 DEF Inputs
<1> QED
  BY <1>2, <1>3

\* One whose arguments are complete is announced and ended, but for one the client
\* holds.
LEMMA ToolStartDoes ==
  ASSUME NEW s \in Streams, NEW g \in Group, NEW c \in Calls, NEW x, NEW b \in Boards
  PROVE  LET h == ToolStart(s, g, c)
         IN /\ h.s \in Streams /\ h.out \in Seq(Events)
            /\ \E d \in Boards :
                 /\ Leads(x, b, h.out, d) /\ Only(s, b, h.s, d, g, c)
                 /\ c \in h.s.seg[g].ended
                 /\ IF c \in s.seg[g].ended THEN h.s = s /\ d = b
                    ELSE IF c \in s.known
                      THEN /\ d = b /\ h.s.owner[c] = g
                           /\ h.s.seg[g].args[c] = s.seg[g].args[c]
                    ELSE CallStarts(s, b, h.s, d, g, c) /\ d.tool[c] = "ended"
<1>1. CASE c \in s.seg[g].ended
  <2>1. ToolStart(s, g, c) = [s |-> s, out |-> <<>>]
    BY <1>1 DEF ToolStart
  <2>2. Only(s, b, s, b, g, c)
    BY KeptSame DEF Only, CallsOnly, CallsKept
  <2> QED
    BY <1>1, <2>1, <2>2, LeadsEmpty
<1>2. CASE c \notin s.seg[g].ended /\ c \in s.known
  <2> DEFINE ended == s.seg[g].ended \cup {c}
             i == [s.seg[g] EXCEPT !.ended = ended]
             owner == [s.owner EXCEPT ![c] = g]
             t == [s EXCEPT !.seg[g].ended = ended, !.owner[c] = g]
  <2>1. ToolStart(s, g, c) = [s |-> t, out |-> <<>>]
    BY <1>2 DEF ToolStart
  <2>2. /\ s.seg[g] \in Segments /\ s.seg[g].ended \subseteq Calls /\ s.begun \in Seq(Group)
        /\ s.owner \in [Calls -> Group \cup {None}] /\ s.ids \in [Scopes -> Nat]
    BY StreamFields, SegmentFields
  <2>3. /\ i \in Segments /\ i.open = s.seg[g].open /\ i.parent = s.seg[g].parent
        /\ i.args = s.seg[g].args /\ i.ended = ended
    BY <2>2 DEF Segments
  <2>4. t = Revised(s, g, i, s.begun, owner, s.ids)
    <3>1. [s EXCEPT !.seg[g].ended = ended] = [s EXCEPT !.seg = [s.seg EXCEPT ![g] = i]]
      BY DEF Streams, Segments
    <3>2. t = [[s EXCEPT !.seg[g].ended = ended] EXCEPT !.owner[c] = g]
      OBVIOUS
    <3> HIDE DEF i, t
    <3> QED
      BY <3>1, <3>2 DEF Revised, Streams
  <2>5. /\ owner \in [Calls -> Group \cup {None}]
        /\ owner[c] = g /\ \A f \in Calls \ {c} : owner[f] = s.owner[f]
        /\ c \in ended /\ \A f \in Calls \ {c} : f \in ended <=> f \in s.seg[g].ended
    BY <2>2
  <2> HIDE DEF ended, i, owner, t
  <2>6. /\ t \in Streams /\ t.seg[g] = i /\ \A h \in Group \ {g} : t.seg[h] = s.seg[h]
        /\ t.begun = s.begun /\ t.owner = owner /\ t.known = s.known
    BY <2>2, <2>3, <2>4, <2>5, Revises
  <2>7. CardsKept(s, b, t, b)
    BY <2>3, <2>6 DEF CardsKept
  <2>8. ASSUME NEW f \in Calls \ {c}
        PROVE  CallKept(s, b, t, b, f)
    <3>1. \A h \in Group : /\ t.seg[h].args[f] = s.seg[h].args[f]
                           /\ f \in t.seg[h].ended <=> f \in s.seg[h].ended
      BY <2>3, <2>5, <2>6
    <3> QED
      BY <3>1, <2>5, <2>6 DEF CallKept
  <2>9. Only(s, b, t, b, g, c)
    BY <2>6, <2>7, <2>8 DEF Only, CallsOnly
  <2>10. c \in t.seg[g].ended /\ t.owner[c] = g /\ t.seg[g].args[c] = s.seg[g].args[c]
    BY <2>3, <2>5, <2>6
  <2> QED
    BY <1>2, <2>1, <2>6, <2>9, <2>10, LeadsEmpty
<1>3. CASE c \notin s.seg[g].ended /\ c \notin s.known
  <2>1. PICK t1, q, d :
           /\ Started(s, g, c).s = t1 /\ Started(s, g, c).out = q
           /\ t1 \in Streams /\ q \in Seq(Events) /\ d \in Boards
           /\ Leads(x, b, q, d) /\ Only(s, b, t1, d, g, c) /\ CallStarts(s, b, t1, d, g, c)
    BY StartedDoes
  <2> DEFINE args == [t1.seg[g].args EXCEPT ![c] = "sent"]
             ended == t1.seg[g].ended \cup {c}
             i == [t1.seg[g] EXCEPT !.args = args, !.ended = ended]
             t == [t1 EXCEPT !.seg[g].args[c] = "sent", !.seg[g].ended = ended]
             said == IF t1.seg[g].args[c] = "empty"
                     THEN <<E("call_args", g, c, None)>> ELSE <<>>
             e == E("call_end", g, c, None)
  <2>2. ToolStart(s, g, c) = [s |-> t, out |-> (q \o said) \o <<e>>]
    BY <1>3, <2>1 DEF ToolStart
  <2>3. /\ t1.seg[g] \in Segments /\ t1.seg[g].args \in [Calls -> {"unsent", "empty", "sent"}]
        /\ t1.ids \in [Scopes -> Nat] /\ t1.seg[g].ended \subseteq Calls
    BY <2>1, StreamFields, SegmentFields
  <2>4. c \in Ids /\ g \in Scopes
    BY DEF Ids, Scopes
  <2>5. q \o said \in Seq(Events) /\ Leads(x, b, q \o said, d)
    <3>1. said \in Seq(Events) /\ \A j \in 1..Len(said) : said[j].type \in Quiet
      BY <2>4, QuietOne DEF Quiet
    <3> HIDE DEF said
    <3>2. Leads(x, d, said, d)
      BY <2>1, <3>1, QuietLeads
    <3> QED
      BY <2>1, <3>1, <3>2, LeadsJoin
  <2>6. Fits(x, d, e)
    <3>1. e \in Events
      BY <2>4, NoneId, MadeEvents DEF Kinds
    <3> QED
      BY <2>1, <3>1 DEF Fits, E
  <2>7. PICK f : f = Post(d, e)
    OBVIOUS
  <2>8. /\ f \in Boards /\ Others(d, f, c) /\ f.tool[c] = "ended" /\ f.card = d.card
        /\ f.parent = d.parent /\ f.waiting = d.waiting /\ f.runs = d.runs
    BY <2>1, <2>4, <2>7, CallEndPosts
  <2> HIDE DEF e, said
  <2>9. /\ (q \o said) \o <<e>> \in Seq(Events)
        /\ Leads(x, b, (q \o said) \o <<e>>, f)
    BY <2>5, <2>6, <2>7, LeadsThen
  <2>10. /\ i \in Segments /\ i.open = t1.seg[g].open /\ i.parent = t1.seg[g].parent
         /\ i.args = args /\ i.ended = ended
    BY <2>3 DEF Segments
  <2>11. t = Revised(t1, g, i, t1.begun, t1.owner, t1.ids)
    <3>1. t = [t1 EXCEPT !.seg = [t1.seg EXCEPT ![g] = i]]
      BY <2>1 DEF Streams, Segments
    <3> HIDE DEF i, t
    <3> QED
      BY <2>1, <3>1 DEF Revised, Streams
  <2>12. /\ args[c] = "sent" /\ c \in ended
         /\ \A e1 \in Calls \ {c} : /\ args[e1] = t1.seg[g].args[e1]
                                    /\ e1 \in ended <=> e1 \in t1.seg[g].ended
    BY <2>3
  <2> HIDE DEF args, ended, i, t
  <2>13. /\ Only(s, b, t, f, g, c) /\ t.owner = t1.owner /\ t.seg[g].ended = i.ended
         /\ t.seg[g].args = args
    BY <2>1, <2>3, <2>8, <2>10, <2>11, <2>12, ThenSaid
  <2>14. CallStarts(s, b, t, f, g, c)
    BY <2>1, <2>8, <2>12, <2>13 DEF CallStarts
  <2>15. c \in t.seg[g].ended /\ t \in Streams
    BY <2>10, <2>12, <2>13 DEF Only, CallsOnly
  <2> QED
    BY <1>3, <2>2, <2>8, <2>9, <2>13, <2>14, <2>15
<1> QED
  BY <1>1, <1>2, <1>3

\* The call c, that was announced, has its result on the board d.
Answers(x, s, b, h, d, g, c) ==
  /\ h.s \in Streams /\ h.out \in Seq(Events) /\ d \in Boards
  /\ h.s.owner = s.owner /\ h.s.seg[g].args = s.seg[g].args
  /\ h.s.seg[g].ended = s.seg[g].ended
  /\ Leads(x, b, h.out, d) /\ Only(s, b, h.s, d, g, c)
  /\ d.tool[c] = "done" /\ c \notin d.waiting /\ d.runs = b.runs

\* One with its result is answered.
LEMMA ToolEndDoes ==
  ASSUME NEW s \in Streams, NEW g \in Group, NEW c \in Calls, c \in s.seg[g].ended,
         NEW x, NEW b \in Boards
  PROVE  \E d : Answers(x, s, b, ToolEnd(s, g, c), d, g, c)
<1> DEFINE m == NextId(s, g)
           id == s.ids[g] + 1
           i == [s.seg[g] EXCEPT !.step = None]
           ids == [s.ids EXCEPT ![g] = id]
           t == [s EXCEPT !.seg[g].step = None, !.ids[g] = id]
           e == E("result", g, c, m)
<1>1. ToolStart(s, g, c) = [s |-> s, out |-> <<>>]
  BY DEF ToolStart
<1>2. ToolEnd(s, g, c) = [s |-> t, out |-> <<e>>]
  BY <1>1 DEF ToolEnd
<1>3. /\ s.seg[g] \in Segments /\ s.begun \in Seq(Group) /\ m \in Ids /\ id \in Nat
      /\ s.owner \in [Calls -> Group \cup {None}] /\ s.ids \in [Scopes -> Nat]
      /\ c \in Ids /\ g \in Scopes
  BY StreamFields, NextIds DEF Ids, Scopes
<1>4. PICK d : d = Post(b, e)
  OBVIOUS
<1>5. /\ d \in Boards /\ Others(b, d, c) /\ d.tool[c] = "done" /\ c \notin d.waiting
      /\ d.card = b.card /\ d.parent = b.parent /\ d.runs = b.runs
  BY <1>3, <1>4, ResultPosts
<1>6. e \in Events /\ Fits(x, b, e)
  <2>1. e \in Events
    BY <1>3, MadeEvents DEF Kinds
  <2> QED
    BY <2>1 DEF Fits, E
<1> HIDE DEF e, m, id
<1>7. Leads(x, b, <<e>>, d) /\ <<e>> \in Seq(Events)
  BY <1>4, <1>6, LeadsOne
<1>8. /\ i \in Segments /\ i.open = s.seg[g].open /\ i.parent = s.seg[g].parent
      /\ i.args = s.seg[g].args /\ i.ended = s.seg[g].ended
  BY <1>3, NoneId DEF Segments
<1>9. t = Revised(s, g, i, s.begun, s.owner, ids)
  <2>1. [s EXCEPT !.seg[g].step = None] = [s EXCEPT !.seg = [s.seg EXCEPT ![g] = i]]
    BY DEF Streams, Segments
  <2>2. t = [[s EXCEPT !.seg[g].step = None] EXCEPT !.ids[g] = id]
    OBVIOUS
  <2> HIDE DEF i, t
  <2> QED
    BY <2>1, <2>2 DEF Revised, Streams
<1>10. ids \in [Scopes -> Nat]
  BY <1>3
<1> HIDE DEF i, t, ids
<1>11. Only(s, b, s, b, g, c)
  BY KeptSame DEF Only, CallsOnly, CallsKept
<1>12. /\ Only(s, b, t, d, g, c) /\ t.owner = s.owner /\ t.seg[g].ended = i.ended
       /\ t.seg[g].args = i.args
  BY <1>5, <1>8, <1>9, <1>10, <1>11, ThenSaid
<1>13. t \in Streams
  BY <1>12 DEF Only, CallsOnly
<1> QED
  BY <1>2, <1>5, <1>7, <1>8, <1>12, <1>13 DEF Answers
-----------------------------------------------------------------------------
(* What a report does: a segment that was closed opens first.              *)

\* What is done to a segment once it is open.
LEMMA BeginThen ==
  ASSUME NEW s, NEW b, NEW t1, NEW d1, NEW t, NEW d, NEW g, NEW p,
         CardOpens(s, b, t1, d1, g, p), CardsKept(t1, d1, t, d)
  PROVE  CardOpens(s, b, t, d, g, p)
  BY DEF CardOpens, CardsKept

LEMMA KeptThenKept ==
  ASSUME NEW s, NEW b, NEW t1, NEW d1, NEW t, NEW d, CallsKept(s, b, t1, d1),
         CallsKept(t1, d1, t, d)
  PROVE  CallsKept(s, b, t, d)
  BY DEF CallsKept, CallKept

LEMMA KeptThenOnly ==
  ASSUME NEW s, NEW b, NEW t1, NEW d1, NEW t, NEW d, NEW g \in Group, NEW c \in Calls,
         CallsKept(s, b, t1, d1), CallsOnly(t1, d1, t, d, g, c)
  PROVE  /\ CallsOnly(s, b, t, d, g, c)
         /\ CallStarts(t1, d1, t, d, g, c) => CallStarts(s, b, t, d, g, c)
<1>1. CallsOnly(s, b, t, d, g, c)
  BY DEF CallsKept, CallsOnly, CallKept
<1>2. CallStarts(t1, d1, t, d, g, c) => CallStarts(s, b, t, d, g, c)
  BY DEF CallsKept, CallKept, CallStarts
<1> QED
  BY <1>1, <1>2

\* Where the events lead that the report r makes of the segment g.
Reported(x, s, b, g, r, t, q, d) ==
  /\ Translate(s, g, r) = [s |-> t, out |-> q]
  /\ t \in Streams /\ q \in Seq(Events) /\ d \in Boards /\ Leads(x, b, q, d)

\* A report that work goes on, or what the model says.
LEMMA Speaks ==
  ASSUME NEW s \in Streams, NEW g \in Group, NEW x, NEW b \in Boards,
         NEW kind \in {"start", "token", "reasoning"}
  PROVE  \E t, q, d : /\ Reported(x, s, b, g, Told(kind), t, q, d)
                      /\ CardOpens(s, b, t, d, g, Under(s, g, None))
                      /\ CallsKept(s, b, t, d)
<1>1. PICK t1, q1, d1 :
         /\ Begin(s, g, None).s = t1 /\ Begin(s, g, None).out = q1
         /\ t1 \in Streams /\ q1 \in Seq(Events) /\ d1 \in Boards /\ Leads(x, b, q1, d1)
         /\ CallsKept(s, b, t1, d1) /\ CardOpens(s, b, t1, d1, g, Under(s, g, None))
  BY BeginDoes
<1>2. PICK t, q : /\ Translate(s, g, Told(kind)) = [s |-> t, out |-> q1 \o q]
                  /\ t \in Streams /\ q \in Seq(Events) /\ Leads(x, d1, q, d1)
                  /\ CardsKept(t1, d1, t, d1) /\ CallsKept(t1, d1, t, d1)
  <2>1. CASE kind = "start"
    <3>1. Translate(s, g, Told(kind)) = [s |-> t1, out |-> q1 \o <<>>]
      BY <1>1, <2>1 DEF Translate, Told, R, Opening
    <3>2. <<>> \in Seq(Events)
      OBVIOUS
    <3> QED
      BY <1>1, <3>1, <3>2, LeadsEmpty, KeptSame
  <2>2. CASE kind = "token"
    <3>1. Translate(s, g, Told(kind)) = [s |-> Token(t1, g).s, out |-> q1 \o Token(t1, g).out]
      BY <1>1, <2>2 DEF Translate, Told, R, Opening
    <3> QED
      BY <1>1, <3>1, TokenDoes
  <2>3. CASE kind = "reasoning"
    <3>1. Translate(s, g, Told(kind))
            = [s |-> Reasoning(t1, g).s, out |-> q1 \o Reasoning(t1, g).out]
      BY <1>1, <2>3 DEF Translate, Told, R, Opening
    <3> QED
      BY <1>1, <3>1, ReasoningDoes
  <2> QED
    BY <2>1, <2>2, <2>3
<1>3. Leads(x, b, q1 \o q, d1) /\ q1 \o q \in Seq(Events)
  BY <1>1, <1>2, LeadsJoin
<1>4. Reported(x, s, b, g, Told(kind), t, q1 \o q, d1)
  BY <1>1, <1>2, <1>3 DEF Reported
<1>5. CardOpens(s, b, t, d1, g, Under(s, g, None)) /\ CallsKept(s, b, t, d1)
  BY <1>1, <1>2, BeginThen, KeptThenKept
<1> QED
  BY <1>4, <1>5

\* A call is written: announced, if it was not, and not ended.
CallWrites(s, b, t, d, g, c) ==
  /\ CallsOnly(s, b, t, d, g, c) /\ CallStarts(s, b, t, d, g, c)
  /\ d.tool[c] = IF s.seg[g].args[c] = "unsent" THEN "open" ELSE b.tool[c]
  /\ c \notin t.seg[g].ended

\* A call's arguments are being written.
LEMMA WritesCall ==
  ASSUME NEW s \in Streams, NEW g \in Group, NEW x, NEW b \in Boards, NEW c \in Calls,
         NEW written \in BOOLEAN, c \notin s.seg[g].ended, c \notin s.known
  PROVE  \E t, q, d : /\ Reported(x, s, b, g, R("tool_input", c, written), t, q, d)
                      /\ CardOpens(s, b, t, d, g, Under(s, g, None))
                      /\ CallWrites(s, b, t, d, g, c)
<1>1. PICK t1, q1, d1 :
         /\ Begin(s, g, None).s = t1 /\ Begin(s, g, None).out = q1
         /\ t1 \in Streams /\ q1 \in Seq(Events) /\ d1 \in Boards /\ Leads(x, b, q1, d1)
         /\ CallsKept(s, b, t1, d1) /\ CardOpens(s, b, t1, d1, g, Under(s, g, None))
  BY BeginDoes
<1>2. /\ c \notin t1.seg[g].ended \cup t1.known /\ t1.seg[g].args[c] = s.seg[g].args[c]
      /\ d1.tool[c] = b.tool[c]
  BY <1>1 DEF CallsKept, CallKept
<1>30. PICK d : Inputs(x, t1, d1, ToolInput(t1, g, c, written), d, g, c)
  BY <1>1, <1>2, ToolInputDoes
<1>3. PICK t, q :
         /\ ToolInput(t1, g, c, written).s = t /\ ToolInput(t1, g, c, written).out = q
         /\ t \in Streams /\ q \in Seq(Events) /\ d \in Boards /\ Leads(x, d1, q, d)
         /\ Only(t1, d1, t, d, g, c) /\ CallStarts(t1, d1, t, d, g, c)
         /\ d.tool[c] = IF t1.seg[g].args[c] = "unsent" THEN "open" ELSE d1.tool[c]
         /\ c \notin t.seg[g].ended
  BY <1>30 DEF Inputs
<1>4. Translate(s, g, R("tool_input", c, written)) = [s |-> t, out |-> q1 \o q]
  BY <1>1, <1>3 DEF Translate, R, Opening
<1>5. Leads(x, b, q1 \o q, d) /\ q1 \o q \in Seq(Events)
  BY <1>1, <1>3, LeadsJoin
<1>6. Reported(x, s, b, g, R("tool_input", c, written), t, q1 \o q, d)
  BY <1>3, <1>4, <1>5 DEF Reported
<1>7. CardOpens(s, b, t, d, g, Under(s, g, None))
  BY <1>1, <1>3, BeginThen DEF Only
<1>8. CallsOnly(s, b, t, d, g, c) /\ CallStarts(s, b, t, d, g, c)
  BY <1>1, <1>3, KeptThenOnly DEF Only
<1>9. CallWrites(s, b, t, d, g, c)
  BY <1>2, <1>3, <1>8 DEF CallWrites
<1> QED
  BY <1>6, <1>7, <1>9

\* A call starts: its arguments are complete.
CallGoes(s, b, t, d, g, c) ==
  /\ CallsOnly(s, b, t, d, g, c) /\ c \in t.seg[g].ended
  /\ IF c \in s.seg[g].ended
       THEN CallKept(s, b, t, d, c)
     ELSE IF c \in s.known
       THEN /\ t.owner[c] = g /\ t.seg[g].args[c] = s.seg[g].args[c]
            /\ d.tool[c] = b.tool[c] /\ d.runs[c] = b.runs[c]
            /\ c \in d.waiting <=> c \in b.waiting
     ELSE CallStarts(s, b, t, d, g, c) /\ d.tool[c] = "ended"

\* Its arguments are complete.
LEMMA StartsCall ==
  ASSUME NEW s \in Streams, NEW g \in Group, NEW x, NEW b \in Boards, NEW c \in Calls
  PROVE  \E t, q, d : /\ Reported(x, s, b, g, R("tool_start", c, TRUE), t, q, d)
                      /\ CardOpens(s, b, t, d, g, Under(s, g, None))
                      /\ CallGoes(s, b, t, d, g, c)
<1>1. PICK t1, q1, d1 :
         /\ Begin(s, g, None).s = t1 /\ Begin(s, g, None).out = q1
         /\ t1 \in Streams /\ q1 \in Seq(Events) /\ d1 \in Boards /\ Leads(x, b, q1, d1)
         /\ CallsKept(s, b, t1, d1) /\ CardOpens(s, b, t1, d1, g, Under(s, g, None))
  BY BeginDoes
<1>2. CallKept(s, b, t1, d1, c)
  BY <1>1 DEF CallsKept
<1>3. PICK t, q, d :
         /\ ToolStart(t1, g, c).s = t /\ ToolStart(t1, g, c).out = q
         /\ t \in Streams /\ q \in Seq(Events) /\ d \in Boards /\ Leads(x, d1, q, d)
         /\ Only(t1, d1, t, d, g, c) /\ c \in t.seg[g].ended
         /\ IF c \in t1.seg[g].ended THEN t = t1 /\ d = d1
            ELSE IF c \in t1.known
              THEN d = d1 /\ t.owner[c] = g /\ t.seg[g].args[c] = t1.seg[g].args[c]
            ELSE CallStarts(t1, d1, t, d, g, c) /\ d.tool[c] = "ended"
  BY <1>1, ToolStartDoes
<1>4. Translate(s, g, R("tool_start", c, TRUE)) = [s |-> t, out |-> q1 \o q]
  BY <1>1, <1>3 DEF Translate, R, Opening
<1>5. Leads(x, b, q1 \o q, d) /\ q1 \o q \in Seq(Events)
  BY <1>1, <1>3, LeadsJoin
<1>6. Reported(x, s, b, g, R("tool_start", c, TRUE), t, q1 \o q, d)
  BY <1>3, <1>4, <1>5 DEF Reported
<1>7. CardOpens(s, b, t, d, g, Under(s, g, None))
  BY <1>1, <1>3, BeginThen DEF Only
<1>8. /\ CallsOnly(s, b, t, d, g, c)
      /\ CallStarts(t1, d1, t, d, g, c) => CallStarts(s, b, t, d, g, c)
  BY <1>1, <1>3, KeptThenOnly DEF Only
<1>9. /\ c \in s.seg[g].ended <=> c \in t1.seg[g].ended
      /\ c \in s.known <=> c \in t1.known
      /\ s.seg[g].args[c] = t1.seg[g].args[c]
      /\ d1.tool[c] = b.tool[c] /\ d1.runs[c] = b.runs[c]
      /\ c \in d1.waiting <=> c \in b.waiting
  BY <1>2 DEF CallKept
<1>10. CASE c \in s.seg[g].ended
  BY <1>2, <1>3, <1>6, <1>7, <1>8, <1>9, <1>10 DEF CallGoes
<1>11. CASE c \notin s.seg[g].ended /\ c \in s.known
  BY <1>3, <1>6, <1>7, <1>8, <1>9, <1>11 DEF CallGoes
<1>12. CASE c \notin s.seg[g].ended /\ c \notin s.known
  BY <1>3, <1>6, <1>7, <1>8, <1>9, <1>12 DEF CallGoes
<1> QED
  BY <1>10, <1>11, <1>12

\* A call has its result.
CallDone(s, b, t, d, g, c) ==
  /\ CallsOnly(s, b, t, d, g, c) /\ t.owner[c] = s.owner[c]
  /\ t.seg[g].args[c] = s.seg[g].args[c] /\ c \in t.seg[g].ended
  /\ d.tool[c] = "done" /\ c \notin d.waiting /\ d.runs[c] = b.runs[c]

\* It has its result.
LEMMA EndsCall ==
  ASSUME NEW s \in Streams, NEW g \in Group, NEW x, NEW b \in Boards, NEW c \in Calls,
         c \in s.seg[g].ended
  PROVE  \E t, q, d : /\ Reported(x, s, b, g, R("tool_end", c, TRUE), t, q, d)
                      /\ CardOpens(s, b, t, d, g, Under(s, g, None))
                      /\ CallDone(s, b, t, d, g, c)
<1>1. PICK t1, q1, d1 :
         /\ Begin(s, g, None).s = t1 /\ Begin(s, g, None).out = q1
         /\ t1 \in Streams /\ q1 \in Seq(Events) /\ d1 \in Boards /\ Leads(x, b, q1, d1)
         /\ CallsKept(s, b, t1, d1) /\ CardOpens(s, b, t1, d1, g, Under(s, g, None))
  BY BeginDoes
<1>2. /\ c \in t1.seg[g].ended /\ t1.owner[c] = s.owner[c]
      /\ t1.seg[g].args[c] = s.seg[g].args[c] /\ d1.runs[c] = b.runs[c]
  BY <1>1 DEF CallsKept, CallKept
<1>30. PICK d : Answers(x, t1, d1, ToolEnd(t1, g, c), d, g, c)
  BY <1>1, <1>2, ToolEndDoes
<1>3. PICK t, q :
         /\ ToolEnd(t1, g, c).s = t /\ ToolEnd(t1, g, c).out = q
         /\ t \in Streams /\ q \in Seq(Events) /\ d \in Boards /\ Leads(x, d1, q, d)
         /\ Only(t1, d1, t, d, g, c) /\ t.owner = t1.owner
         /\ t.seg[g].args = t1.seg[g].args /\ t.seg[g].ended = t1.seg[g].ended
         /\ d.tool[c] = "done" /\ c \notin d.waiting /\ d.runs = d1.runs
  BY <1>30 DEF Answers
<1>4. Translate(s, g, R("tool_end", c, TRUE)) = [s |-> t, out |-> q1 \o q]
  BY <1>1, <1>3 DEF Translate, R, Opening
<1>5. Leads(x, b, q1 \o q, d) /\ q1 \o q \in Seq(Events)
  BY <1>1, <1>3, LeadsJoin
<1>6. Reported(x, s, b, g, R("tool_end", c, TRUE), t, q1 \o q, d)
  BY <1>3, <1>4, <1>5 DEF Reported
<1>7. CardOpens(s, b, t, d, g, Under(s, g, None))
  BY <1>1, <1>3, BeginThen DEF Only
<1>8. CallsOnly(s, b, t, d, g, c)
  BY <1>1, <1>3, KeptThenOnly DEF Only
<1>9. CallDone(s, b, t, d, g, c)
  BY <1>2, <1>3, <1>8 DEF CallDone
<1> QED
  BY <1>6, <1>7, <1>9

\* The segment ends, if it is open.
LEMMA EndsSegment ==
  ASSUME NEW s \in Streams, NEW g \in Group, NEW x, NEW b \in Boards, NEW how \in Closings,
         \A h \in Group : b.card[h] = "active" /\ b.parent[h] = g => h \in x
  PROVE  \E t, q, d : /\ Reported(x, s, b, g, Told(how), t, q, d)
                      /\ CardCloses(s, b, t, d, g, how) /\ CallsKept(s, b, t, d)
<1>1. PICK t, q, d :
         /\ End(s, g, how).s = t /\ End(s, g, how).out = q
         /\ t \in Streams /\ q \in Seq(Events) /\ d \in Boards /\ Leads(x, b, q, d)
         /\ CallsKept(s, b, t, d) /\ CardCloses(s, b, t, d, g, how)
  BY EndDoes
<1>2. Translate(s, g, Told(how)) = [s |-> t, out |-> q]
  <2>1. /\ Told(how).kind = how /\ how \notin Opening
        /\ how \notin {"none", "start", "token", "reasoning", "tool_input", "tool_start", "tool_end"}
    BY DEF Told, R, Opening, Closings
  <2> HIDE DEF Told
  <2>2. CASE s.seg[g].open
    <3>1. Begin(s, g, None) = [s |-> s, out |-> <<>>]
      BY <2>2 DEF Begin
    <3>2. <<>> \o q = q
      BY <1>1
    <3> QED
      BY <1>1, <2>1, <2>2, <3>1, <3>2 DEF Translate
  <2>3. CASE ~s.seg[g].open
    <3>1. Translate(s, g, Told(how)) = [s |-> s, out |-> <<>>]
      BY <2>1, <2>3 DEF Translate
    <3>2. t = s /\ q = <<>>
      BY <1>1, <2>3 DEF End
    <3> QED
      BY <3>1, <3>2
  <2> QED
    BY <2>2, <2>3
<1> QED
  BY <1>1, <1>2 DEF Reported

-----------------------------------------------------------------------------
(* The tree of cards.                                                      *)

\* A segment is open while its card is; segments are listed as they began, the
\* one a card is under before it.
Tree(s, b) ==
  /\ \A g \in Group : s.seg[g].open <=> b.card[g] = "active"
  /\ \A i, j \in DOMAIN s.begun : s.begun[i] = s.begun[j] => i = j
  /\ \A g \in Group : s.seg[g].open => g \in Range(s.begun)
  /\ \A i \in DOMAIN s.begun :
       /\ b.card[s.begun[i]] # "none"
       /\ b.parent[s.begun[i]] # None => \E j \in 1..(i - 1) : s.begun[j] = b.parent[s.begun[i]]

\* The tree stays one where no card changes, where one closes, and where one opens under
\* a card that began before it.
LEMMA TreeKept ==
  ASSUME NEW s, NEW b, NEW t, NEW c, Tree(s, b), CardsKept(s, b, t, c)
  PROVE  Tree(t, c)
  BY DEF Tree, CardsKept

LEMMA TreeCloses ==
  ASSUME NEW s \in Streams, NEW b, NEW t, NEW c, NEW g \in Group, NEW how \in Closings,
         Tree(s, b), CardCloses(s, b, t, c, g, how)
  PROVE  Tree(t, c)
<1>1. s.begun \in Seq(Group) /\ t.begun = s.begun /\ how \notin {"none", "active"}
  BY StreamFields DEF CardCloses, Closings
<1>2. /\ \A h \in Group : t.seg[h].open <=> c.card[h] = "active"
      /\ \A h \in Group : t.seg[h].open => h \in Range(t.begun)
  BY <1>1 DEF Tree, CardCloses
<1>3. \A i \in DOMAIN s.begun : c.card[s.begun[i]] # "none" /\ c.parent = b.parent
  BY <1>1 DEF Tree, CardCloses
<1> QED
  BY <1>1, <1>2, <1>3 DEF Tree

LEMMA TreeOpens ==
  ASSUME NEW s \in Streams, NEW b \in Boards, NEW t, NEW c, NEW g \in Group, NEW p,
         Tree(s, b), CardOpens(s, b, t, c, g, p),
         s.seg[g].open \/ c.parent[g] = None \/ c.parent[g] \in Range(s.begun)
  PROVE  /\ Tree(t, c) /\ g \in Range(t.begun) /\ Range(s.begun) \subseteq Range(t.begun)
         /\ c.card[g] = "active"
<1>1. s.begun \in Seq(Group) /\ DOMAIN s.begun = 1..Len(s.begun) /\ Len(s.begun) \in Nat
  BY StreamFields
<1>2. CASE s.seg[g].open
  <2>1. /\ t.begun = s.begun
        /\ \A h \in Group : /\ t.seg[h].open <=> s.seg[h].open
                            /\ c.card[h] = b.card[h] /\ c.parent[h] = b.parent[h]
    BY <1>2 DEF CardOpens
  <2>2. \A i \in DOMAIN s.begun : s.begun[i] \in Group
    BY <1>1
  <2> QED
    BY <1>2, <2>1, <2>2 DEF Tree
<1>3. CASE ~s.seg[g].open /\ g \in Range(s.begun)
  <2>1. PICK k \in DOMAIN s.begun : s.begun[k] = g
    BY <1>3 DEF Range
  <2>2. b.card[g] # "none"
    BY <2>1 DEF Tree
  <2>3. /\ t.begun = s.begun /\ c.card[g] = "active"
        /\ \A h \in Group : /\ t.seg[h].open <=> s.seg[h].open \/ h = g
                            /\ c.parent[h] = b.parent[h]
                            /\ h # g => c.card[h] = b.card[h]
    BY <1>3, <2>2 DEF CardOpens
  <2>4. \A i \in DOMAIN s.begun : s.begun[i] \in Group
    BY <1>1
  <2>5. \A i \in DOMAIN t.begun :
          /\ c.card[t.begun[i]] # "none"
          /\ c.parent[t.begun[i]] # None =>
               \E j \in 1..(i - 1) : t.begun[j] = c.parent[t.begun[i]]
    BY <2>3, <2>4 DEF Tree
  <2> QED
    BY <1>3, <2>3, <2>5 DEF Tree
<1>4. CASE ~s.seg[g].open /\ g \notin Range(s.begun)
  <2> DEFINE n == Len(s.begun)
  <2>1. /\ t.begun = Append(s.begun, g) /\ c.card[g] = "active"
        /\ \A h \in Group : t.seg[h].open <=> s.seg[h].open \/ h = g
        /\ \A h \in Group \ {g} : c.parent[h] = b.parent[h] /\ c.card[h] = b.card[h]
    BY <1>4 DEF CardOpens
  <2>2. /\ DOMAIN t.begun = 1..(n + 1) /\ t.begun[n + 1] = g
        /\ \A i \in 1..n : t.begun[i] = s.begun[i] /\ s.begun[i] \in Group \ {g}
    BY <1>1, <1>4, <2>1 DEF Range
  <2>3. g \in Range(t.begun) /\ Range(s.begun) \subseteq Range(t.begun)
    <3>1. n + 1 \in DOMAIN t.begun
      BY <1>1, <2>2
    <3>2. \A i \in DOMAIN s.begun : i \in DOMAIN t.begun /\ t.begun[i] = s.begun[i]
      BY <1>1, <2>2
    <3> QED
      BY <2>2, <3>1, <3>2 DEF Range
  <2>4. ASSUME NEW i \in DOMAIN t.begun, NEW j \in DOMAIN t.begun, t.begun[i] = t.begun[j]
        PROVE  i = j
    <3>1. \A k \in DOMAIN t.begun : k = n + 1 \/ k \in 1..n
      BY <1>1, <2>2
    <3>2. CASE i = n + 1
      BY <2>2, <2>4, <3>1, <3>2
    <3>3. CASE j = n + 1
      BY <2>2, <2>4, <3>1, <3>3
    <3>4. CASE i \in 1..n /\ j \in 1..n
      BY <1>1, <2>2, <2>4, <3>4 DEF Tree
    <3> QED
      BY <3>1, <3>2, <3>3, <3>4
  <2>5. ASSUME NEW i \in DOMAIN t.begun
        PROVE  /\ c.card[t.begun[i]] # "none"
               /\ c.parent[t.begun[i]] # None =>
                    \E j \in 1..(i - 1) : t.begun[j] = c.parent[t.begun[i]]
    <3>1. CASE i = n + 1
      BY <1>1, <1>4, <2>1, <2>2, <3>1 DEF Range
    <3>2. CASE i \in 1..n
      <4>1. t.begun[i] = s.begun[i] /\ s.begun[i] \in Group \ {g} /\ i \in DOMAIN s.begun
        BY <1>1, <2>2, <3>2
      <4>2. /\ c.card[s.begun[i]] # "none"
            /\ c.parent[s.begun[i]] # None =>
                 \E j \in 1..(i - 1) : s.begun[j] = c.parent[s.begun[i]]
        BY <2>1, <4>1 DEF Tree
      <4>3. \A j \in 1..(i - 1) : t.begun[j] = s.begun[j]
        BY <1>1, <2>2, <3>2
      <4> QED
        BY <4>1, <4>2, <4>3
    <3> QED
      BY <1>1, <2>2, <3>1, <3>2
  <2>6. /\ \A h \in Group : t.seg[h].open <=> c.card[h] = "active"
        /\ \A h \in Group : t.seg[h].open => h \in Range(t.begun)
    BY <2>1, <2>3 DEF Tree
  <2> QED
    BY <2>1, <2>3, <2>4, <2>5, <2>6 DEF Tree
<1> QED
  BY <1>2, <1>3, <1>4

-----------------------------------------------------------------------------
(* Counting, and a set in order.                                           *)

\* A non-empty set of numbers has a least one; and induction, over a set.
LEMMA Least ==
  ASSUME NEW T, T \subseteq Nat, T # {}
  PROVE  \E n \in T : \A m \in T : ~ (m < n)
<1>1. \A m, n \in Nat : m < n => <<m, n>> \in OpToRel(<, Nat)
  BY Zenon DEF OpToRel
<1>2. \E n \in T : \A m \in T : ~ (<<m, n>> \in OpToRel(<, Nat))
  BY NatLessThanWellFounded, WFMin, Zenon
<1> QED
  BY <1>1, <1>2, Zenon

LEMMA Induction ==
  ASSUME NEW S, 0 \in S, \A n \in Nat : n \in S => n + 1 \in S
  PROVE  Nat \subseteq S
<1>1. SUFFICES ASSUME Nat \ S # {} PROVE FALSE
  OBVIOUS
<1>2. PICK n \in Nat \ S : \A m \in Nat \ S : ~ (m < n)
  BY <1>1, Least, Nat \ S \subseteq Nat, Zenon
<1>3. n # 0 /\ n - 1 \in Nat
  BY <1>2
<1>4. n - 1 \in Nat \ S
  BY <1>2, <1>3, (n - 1) + 1 = n
<1>5. n - 1 < n
  BY <1>3
<1> QED
  BY <1>2, <1>4, <1>5

\* What SetToSeq lists is in the set.
LEMMA SetInOrder ==
  ASSUME NEW S, IsFiniteSet(S)
  PROVE  SetToSeq(S) \in Seq(S)
<1>1. Cardinality(S) \in Nat /\ ExistsBijection(1..Cardinality(S), S)
  BY FS_CardinalityType
<1>2. PICK n \in Nat : n = Cardinality(S)
  BY <1>1
<1>3. PICK f \in [1..n -> S] : IsInjective(f)
  BY <1>1, <1>2 DEF ExistsBijection, Bijection, Injection
<1>4. SetToSeq(S) \in [1..n -> S]
  BY <1>2, <1>3, Zenon DEF SetToSeq
<1> QED
  BY <1>4

\* There are finitely many calls, so those a segment has not ended can be listed.
LEMMA FiniteCalls == IsFiniteSet(Calls)
<1>1. IsFiniteSet(Workers)
  <2>1. IsFiniteSet({Entry})
    BY FS_Singleton
  <2> QED
    BY <2>1, FS_Union, SubagentStreamAssumption, Zenon DEF Workers
<1> DEFINE Of(w) == {w} \X (1..MaxCalls[w])
           All == {Of(w) : w \in Workers}
           f == [w \in Workers |-> Of(w)]
<1>2. IsFiniteSet(All)
  <2>1. f \in [Workers -> All] /\ \A y \in All : \E w \in Workers : f[w] = y
    BY Zenon
  <2>2. f \in Surjection(Workers, All)
    BY <2>1, Zenon DEF Surjection
  <2> QED
    BY <1>1, <2>2, FS_Surjection, Zenon
<1>3. ASSUME NEW w \in Workers
      PROVE  IsFiniteSet(Of(w))
  <2>1. MaxCalls[w] \in Nat /\ 1 \in Nat
    BY SubagentStreamAssumption
  <2>2. IsFiniteSet({w}) /\ IsFiniteSet(1..MaxCalls[w])
    BY <2>1, FS_Singleton, FS_Interval, 1 \in Int, MaxCalls[w] \in Int
  <2> QED
    BY <2>2, FS_Product, Zenon
<1>4. \A T \in All : IsFiniteSet(T)
  BY <1>3, Zenon
<1>5. Calls = UNION All
  BY DEF Calls
<1> QED
  BY <1>2, <1>4, <1>5, FS_UNION, Zenon

LEMMA UnendedCalls ==
  ASSUME NEW s, NEW g
  PROVE  Unended(s, g) \in Seq({c \in Calls : s.seg[g].args[c] # "unsent"
                                              /\ c \notin s.seg[g].ended})
<1> DEFINE S == {c \in Calls : s.seg[g].args[c] # "unsent" /\ c \notin s.seg[g].ended}
<1>1. IsFiniteSet(S)
  BY FiniteCalls, FS_Subset, S \subseteq Calls, Zenon
<1> QED
  BY <1>1, SetInOrder, Zenon DEF Unended

-----------------------------------------------------------------------------
(* Closing what is open, segment by segment.                               *)

HowEnded(suspended) == IF suspended THEN "suspended" ELSE "completed"
CallEnds(s, g) == [k \in 1..Len(Unended(s, g)) |-> E("call_end", g, Unended(s, g)[k], None)]
Adds(out, s, g, how) ==
  IF ~s.seg[g].open THEN out ELSE out \o CallEnds(s, g) \o End(s, g, how).out

\* What the fold of Close is, on sets of positions of the segments.
ClosesBy(f, s, q, how, S) ==
  f = [t \in SUBSET S |-> IF t = {} THEN <<>> ELSE Adds(f[t \ {Max(t)}], s, q[Max(t)], how)]

\* The fold has a value at every set of positions.
LEMMA ClosesExist ==
  ASSUME NEW s, NEW q, NEW how, NEW n \in Nat
  PROVE  \E f : ClosesBy(f, s, q, how, 1..n)
<1> DEFINE N == {m \in Nat : \E f : ClosesBy(f, s, q, how, 1..m)}
<1>1. 0 \in N
  <2> DEFINE f == [t \in SUBSET (1..0) |-> <<>>]
  <2>1. SUBSET (1..0) = {{}}
    OBVIOUS
  <2>2. ClosesBy(f, s, q, how, 1..0)
    BY <2>1 DEF ClosesBy
  <2> QED
    BY <2>2
<1>2. ASSUME NEW m \in Nat, m \in N
      PROVE  m + 1 \in N
  <2>1. PICK f : ClosesBy(f, s, q, how, 1..m)
    BY <1>2
  <2> DEFINE h == [t \in SUBSET (1..(m + 1)) |->
                     IF m + 1 \in t THEN Adds(f[t \ {m + 1}], s, q[m + 1], how) ELSE f[t]]
  <2>2. ASSUME NEW t \in SUBSET (1..(m + 1))
        PROVE  h[t] = IF t = {} THEN <<>> ELSE Adds(h[t \ {Max(t)}], s, q[Max(t)], how)
    <3>1. CASE m + 1 \in t
      <4>1. Max(t) = m + 1
        <5>1. \A y \in t : m + 1 >= y
          OBVIOUS
        <5>2. \A x \in t : (\A y \in t : x >= y) => x = m + 1
          BY <3>1, <5>1
        <5> QED
          BY <3>1, <5>1, <5>2 DEF Max
      <4>2. t \ {m + 1} \in SUBSET (1..(m + 1)) /\ m + 1 \notin t \ {m + 1}
        OBVIOUS
      <4>3. h[t \ {m + 1}] = f[t \ {m + 1}]
        BY <4>2, Zenon
      <4> QED
        BY <3>1, <4>1, <4>3, Zenon
    <3>2. CASE m + 1 \notin t
      <4>1. t \in SUBSET (1..m) /\ h[t] = f[t]
        BY <3>2
      <4>2. f[t] = IF t = {} THEN <<>> ELSE Adds(f[t \ {Max(t)}], s, q[Max(t)], how)
        BY <2>1, <4>1, Zenon DEF ClosesBy
      <4>3. t \ {Max(t)} \in SUBSET (1..(m + 1)) /\ m + 1 \notin t \ {Max(t)}
        BY <3>2
      <4>4. h[t \ {Max(t)}] = f[t \ {Max(t)}]
        BY <4>3, Zenon
      <4> QED
        BY <4>1, <4>2, <4>4, Zenon
    <3> QED
      BY <3>1, <3>2
  <2>3. ClosesBy(h, s, q, how, 1..(m + 1))
    <3>1. h = [t \in SUBSET (1..(m + 1)) |-> h[t]]
      OBVIOUS
    <3> HIDE DEF h
    <3> QED
      BY <2>2, <3>1, Zenon DEF ClosesBy
  <2> QED
    BY <2>3
<1> HIDE DEF N
<1>3. Nat \subseteq N
  BY <1>1, <1>2, Induction, Zenon
<1> QED
  BY <1>3 DEF N

\* The events that close the stream s, reached segment by segment.
Reaches(h, s, suspended) ==
  LET n == Len(s.begun)
  IN /\ h[0] = <<>> /\ Close(s, suspended) = h[n]
     /\ \A i \in 1..n :
          h[i] = Adds(h[i - 1], s, s.begun[n - i + 1], HowEnded(suspended))

\* Close goes through the segments from the last that began.
LEMMA CloseSteps ==
  ASSUME NEW s \in Streams, NEW suspended \in BOOLEAN
  PROVE  \E h : Reaches(h, s, suspended)
<1> DEFINE n == Len(s.begun)
           q == Reverse(s.begun)
           how == HowEnded(suspended)
           f == CHOOSE e : ClosesBy(e, s, q, how, DOMAIN q)
<1>1. n \in Nat /\ DOMAIN q = 1..n /\ \A i \in 1..n : q[i] = s.begun[n - i + 1]
  BY StreamFields DEF Reverse
<1>2. Close(s, suspended) = f[DOMAIN q]
  BY Zenon DEF Close, FoldLeft, MapThenFoldSet, ClosesBy, Adds, CallEnds, HowEnded
<1>3. ClosesBy(f, s, q, how, 1..n)
  BY <1>1, ClosesExist, Zenon
<1> HIDE DEF f, q
<1> DEFINE h == [i \in 0..n |-> f[1..i]]
<1>4. h[0] = <<>>
  <2>1. 1..0 = {} /\ 1..0 \in SUBSET (1..n)
    OBVIOUS
  <2>2. f[1..0] = <<>>
    BY <1>3, <2>1, Zenon DEF ClosesBy
  <2> QED
    BY <1>1, <2>2
<1>5. ASSUME NEW i \in 1..n
      PROVE  h[i] = Adds(h[i - 1], s, s.begun[n - i + 1], how)
  <2>1. i \in Nat /\ i >= 1 /\ i <= n
    BY <1>1
  <2>2. 1..i \in SUBSET (1..n) /\ i \in 1..i /\ (1..i) \ {i} = 1..(i - 1)
    <3>1. 1..i \in SUBSET (1..n) /\ i \in 1..i
      BY <1>1, <2>1
    <3>2. (1..i) \ {i} = 1..(i - 1)
      BY <2>1
    <3> QED
      BY <3>1, <3>2
  <2>3. Max(1..i) = i
    <3>1. i \in 1..i /\ \A y \in 1..i : i >= y
      BY <1>1
    <3>2. \A x \in 1..i : (\A y \in 1..i : x >= y) => x = i
      BY <1>1
    <3> QED
      BY <3>1, <3>2 DEF Max
  <2>4. 1..i # {}
    BY <2>2
  <2>5. f[1..i] = Adds(f[1..(i - 1)], s, q[i], how)
    BY <1>3, <2>2, <2>3, <2>4, Zenon DEF ClosesBy
  <2>6. i \in 0..n /\ i - 1 \in 0..n /\ q[i] = s.begun[n - i + 1]
    BY <1>1
  <2> QED
    BY <2>5, <2>6
<1> HIDE DEF h
<1>6. Close(s, suspended) = h[n]
  BY <1>1, <1>2 DEF h
<1> QED
  BY <1>4, <1>5, <1>6, Zenon DEF Reaches

\* The events that end a segment's calls end them on the board.
EndedOnly(b, c) ==
  /\ c \in Boards /\ c.card = b.card /\ c.parent = b.parent /\ c.runs = b.runs
  /\ \A f \in Calls : \/ c.tool[f] = b.tool[f]
                      \/ b.tool[f] = "open" /\ c.tool[f] = "ended"

\* The calls a segment leaves open are ended.
LEMMA CallsEnd ==
  ASSUME NEW s \in Streams, NEW g \in Group, NEW x, NEW b \in Boards,
         \A f \in Calls : s.seg[g].args[f] # "unsent" /\ f \notin s.seg[g].ended
                            => b.tool[f] \in {"open", "ended"}
  PROVE  /\ CallEnds(s, g) \in Seq(Events)
         /\ \E c : Leads(x, b, CallEnds(s, g), c) /\ EndedOnly(b, c)
<1> DEFINE u == Unended(s, g)
           n == Len(u)
           q == CallEnds(s, g)
           tool(i) == [f \in Calls |-> IF \E k \in 1..i : u[k] = f THEN "ended" ELSE b.tool[f]]
           at(i) == [card |-> b.card, parent |-> b.parent, tool |-> tool(i),
                     outcome |-> b.outcome, waiting |-> b.waiting, runs |-> b.runs]
           t == [i \in 0..n |-> at(i)]
<1>1. /\ n \in Nat /\ u \in Seq(Calls)
      /\ \A k \in 1..n : u[k] \in Calls /\ b.tool[u[k]] \in {"open", "ended"}
  <2>1. PICK S : /\ S = {f \in Calls : s.seg[g].args[f] # "unsent" /\ f \notin s.seg[g].ended}
                 /\ u \in Seq(S)
    BY UnendedCalls
  <2>2. \A f \in S : f \in Calls /\ b.tool[f] \in {"open", "ended"}
    BY <2>1
  <2> HIDE DEF u
  <2> QED
    BY <2>1, <2>2
<1>2. q \in Seq(Events) /\ Len(q) = n /\ \A k \in 1..n : q[k] = E("call_end", g, u[k], None)
  <2>1. q = [k \in 1..n |-> E("call_end", g, u[k], None)]
    BY DEF CallEnds
  <2>2. \A k \in 1..n : E("call_end", g, u[k], None) \in Events
    <3>1. \A k \in 1..n : u[k] \in Ids /\ g \in Scopes /\ "call_end" \in Kinds
      BY <1>1 DEF Ids, Scopes, Kinds
    <3> QED
      BY <3>1, NoneId, MadeEvents
  <2> HIDE DEF u, n, q, E
  <2> QED
    BY <1>1, <2>1, <2>2
<1> HIDE DEF u, n, q
<1>3. ASSUME NEW i \in 0..n
      PROVE  tool(i) \in [Calls -> Tools] /\ at(i) \in Boards
  <2>1. tool(i) \in [Calls -> Tools]
    BY BoardFields DEF Tools
  <2> HIDE DEF tool
  <2> QED
    BY <2>1, BoardFields DEF Boards
<1>4. ASSUME NEW i \in 1..n
      PROVE  at(i) = Post(at(i - 1), q[i]) /\ Fits(x, at(i - 1), q[i])
  <2>1. /\ i \in 0..n /\ i - 1 \in 0..n /\ q[i] = E("call_end", g, u[i], None)
        /\ u[i] \in Calls /\ q[i] \in Events
    BY <1>1, <1>2
  <2>2. tool(i) = [tool(i - 1) EXCEPT ![u[i]] = "ended"]
    <3>1. \A f : (\E k \in 1..i : u[k] = f) <=> (\E k \in 1..(i - 1) : u[k] = f) \/ f = u[i]
      BY <2>1
    <3>2. \A f \in Calls : tool(i)[f] = [tool(i - 1) EXCEPT ![u[i]] = "ended"][f]
      BY <2>1, <3>1
    <3> QED
      BY <3>2
  <2> HIDE DEF tool
  <2>3. Post(at(i - 1), q[i]) = at(i)
    BY <2>1, <2>2 DEF Post, E, Closings
  <2>4. at(i - 1) \in Boards
    BY <1>3, <2>1
  <2> HIDE DEF at
  <2> QED
    BY <2>1, <2>3, <2>4 DEF Fits, E
<1>5. at(0) = b
  <2>1. tool(0) = b.tool
    BY BoardFields
  <2> HIDE DEF tool
  <2> QED
    BY <2>1, BoardFields
<1>6. EndedOnly(b, at(n))
  <2>1. at(n) \in Boards
    BY <1>1, <1>3
  <2>2. \A f \in Calls : \/ at(n).tool[f] = b.tool[f]
                         \/ b.tool[f] = "open" /\ at(n).tool[f] = "ended"
    BY <1>1
  <2>3. at(n).card = b.card /\ at(n).parent = b.parent /\ at(n).runs = b.runs
    OBVIOUS
  <2> HIDE DEF at
  <2> QED
    BY <2>1, <2>2, <2>3 DEF EndedOnly
<1> HIDE DEF at
<1>7. /\ t[0] = b /\ t[Len(q)] = at(n)
      /\ \A i \in 1..Len(q) : t[i - 1] = at(i - 1) /\ t[i] = at(i)
  BY <1>1, <1>2, <1>5
<1> HIDE DEF t
<1>8. \A i \in 1..Len(q) : Fits(x, t[i - 1], q[i]) /\ t[i] = Post(t[i - 1], q[i])
  BY <1>2, <1>4, <1>7
<1>9. Leads(x, b, q, at(n))
  BY <1>7, <1>8 DEF Leads
<1> QED
  BY <1>2, <1>6, <1>9 DEF q

\* The segments of the positions T are closed on the board, some of their calls ended.
Closed(s, b, c, T, how) ==
  /\ c \in Boards /\ c.parent = b.parent /\ c.runs = b.runs
  /\ \A g \in Group : c.card[g] = IF s.seg[g].open /\ \E i \in T : s.begun[i] = g
                                   THEN how ELSE b.card[g]
  /\ \A f \in Calls : \/ c.tool[f] = b.tool[f]
                      \/ b.tool[f] = "open" /\ c.tool[f] = "ended"

\* One more segment is closed, after all that began later.
LEMMA AddsOne ==
  ASSUME NEW s \in Streams, NEW b \in Boards, NEW x, NEW how \in Closings, Tree(s, b),
         \A g \in Group, f \in Calls :
           s.seg[g].args[f] # "unsent" /\ f \notin s.seg[g].ended => b.tool[f] = "open",
         NEW k \in DOMAIN s.begun, NEW T, T = (k + 1)..Len(s.begun),
         NEW c, Closed(s, b, c, T, how), NEW q \in Seq(Events), Leads(x, b, q, c)
  PROVE  /\ Adds(q, s, s.begun[k], how) \in Seq(Events)
         /\ \E d : /\ Leads(x, b, Adds(q, s, s.begun[k], how), d)
                   /\ Closed(s, b, d, T \cup {k}, how)
<1> DEFINE g == s.begun[k]
<1>1. s.begun \in Seq(Group) /\ g \in Group /\ c \in Boards
  BY StreamFields DEF Closed
<1>2. CASE ~s.seg[g].open
  <2>1. Adds(q, s, g, how) = q
    BY <1>2 DEF Adds
  <2>2. Closed(s, b, c, T \cup {k}, how)
    BY <1>2 DEF Closed
  <2> QED
    BY <2>1, <2>2
<1>3. CASE s.seg[g].open
  <2>1. PICK p, d : /\ p = CallEnds(s, g) /\ p \in Seq(Events)
                    /\ Leads(x, c, p, d) /\ EndedOnly(c, d)
    <3>1. \A f \in Calls : s.seg[g].args[f] # "unsent" /\ f \notin s.seg[g].ended
                              => c.tool[f] \in {"open", "ended"}
      BY <1>1 DEF Closed
    <3> QED
      BY <1>1, <3>1, CallsEnd
  <2>2. ASSUME NEW h \in Group, d.card[h] = "active", d.parent[h] = g
        PROVE  h \in x
    <3>1. d.card = c.card /\ d.parent = b.parent /\ how # "active"
      BY <2>1 DEF EndedOnly, Closed, Closings
    <3>2. b.card[h] = "active" /\ ~ \E i \in T : s.seg[h].open /\ s.begun[i] = h
      BY <2>2, <3>1 DEF Closed
    <3>3. s.seg[h].open /\ h \in Range(s.begun)
      BY <3>2 DEF Tree
    <3>4. PICK i \in DOMAIN s.begun : s.begun[i] = h
      BY <3>3 DEF Range
    <3>5. g # None
      BY <1>1, SubagentStreamAssumption DEF Group
    <3>6. PICK j \in 1..(i - 1) : s.begun[j] = g
      BY <2>2, <3>1, <3>4, <3>5 DEF Tree
    <3>7. j \in DOMAIN s.begun /\ DOMAIN s.begun = 1..Len(s.begun) /\ Len(s.begun) \in Nat
      BY <1>1, <3>4, <3>6
    <3>8. j = k
      BY <3>6, <3>7 DEF Tree
    <3>9. i \in T
      BY <3>4, <3>6, <3>7, <3>8
    <3> QED
      BY <3>2, <3>3, <3>4, <3>9
  <2>3. PICK e, r : /\ r = End(s, g, how).out /\ r \in Seq(Events) /\ e \in Boards
                    /\ Leads(x, d, r, e) /\ CallsKept(s, d, End(s, g, how).s, e)
                    /\ CardCloses(s, d, End(s, g, how).s, e, g, how)
    <3>1. d \in Boards
      BY <2>1 DEF EndedOnly
    <3> QED
      BY <1>1, <2>2, <3>1, EndDoes
  <2>4. q \o p \in Seq(Events) /\ Leads(x, b, q \o p, d)
    BY <2>1, LeadsJoin
  <2>5. (q \o p) \o r \in Seq(Events) /\ Leads(x, b, (q \o p) \o r, e)
    <3>1. PICK m \in Seq(Events) : m = q \o p
      BY <2>4
    <3>2. Leads(x, b, m, d) /\ Leads(x, d, r, e) /\ r \in Seq(Events)
      BY <2>3, <2>4, <3>1
    <3>3. Leads(x, b, m \o r, e)
      BY <3>2, LeadsJoin, Zenon
    <3>4. m \o r \in Seq(Events)
      BY <3>2
    <3> QED
      BY <3>1, <3>3, <3>4
  <2>6. Adds(q, s, g, how) = (q \o p) \o r
    BY <1>3, <2>1, <2>3 DEF Adds
  <2>7. Closed(s, b, e, T \cup {k}, how)
    <3>1. e.parent = b.parent
      BY <2>1, <2>3 DEF EndedOnly, CardCloses, Closed
    <3>2. \A f \in Calls : e.tool[f] = d.tool[f] /\ e.runs[f] = d.runs[f]
      BY <2>3 DEF CallsKept, CallKept
    <3>3. e.runs = b.runs
      BY <2>1, <2>3, <3>2, BoardFields DEF EndedOnly, Closed
    <3>4. \A h \in Group : e.card[h] = IF h = g THEN how ELSE c.card[h]
      BY <1>3, <2>1, <2>3 DEF EndedOnly, CardCloses
    <3>5. \A f \in Calls : \/ e.tool[f] = b.tool[f]
                           \/ b.tool[f] = "open" /\ e.tool[f] = "ended"
      BY <2>1, <3>2 DEF EndedOnly, Closed
    <3>6. \A h \in Group : e.card[h] = IF s.seg[h].open /\ \E i \in T \cup {k} : s.begun[i] = h
                                       THEN how ELSE b.card[h]
      BY <1>3, <3>4 DEF Closed
    <3> QED
      BY <2>3, <3>1, <3>3, <3>5, <3>6 DEF Closed
  <2> QED
    BY <2>5, <2>6, <2>7
<1> QED
  BY <1>2, <1>3

\* What is open is closed, innermost first.
LEMMA CloseDoes ==
  ASSUME NEW s \in Streams, NEW b \in Boards, NEW x, NEW suspended \in BOOLEAN, Tree(s, b),
         \A g \in Group, f \in Calls :
           s.seg[g].args[f] # "unsent" /\ f \notin s.seg[g].ended => b.tool[f] = "open"
  PROVE  /\ Close(s, suspended) \in Seq(Events)
         /\ \E c : /\ Leads(x, b, Close(s, suspended), c)
                   /\ Closed(s, b, c, DOMAIN s.begun, HowEnded(suspended))
<1> DEFINE n == Len(s.begun)
           how == HowEnded(suspended)
<1>1. n \in Nat /\ DOMAIN s.begun = 1..n /\ how \in Closings
  BY StreamFields DEF HowEnded, Closings
<1>2. PICK h : Reaches(h, s, suspended)
  BY CloseSteps
<1>3. /\ h[0] = <<>> /\ Close(s, suspended) = h[n]
      /\ \A i \in 1..n : h[i] = Adds(h[i - 1], s, s.begun[n - i + 1], how)
  BY <1>2, Zenon DEF Reaches
<1> HIDE DEF how
<1> DEFINE Good(i) ==
             /\ h[i] \in Seq(Events)
             /\ \E c : Leads(x, b, h[i], c) /\ Closed(s, b, c, (n - i + 1)..n, how)
           N == {i \in Nat : i <= n => Good(i)}
<1>4. 0 \in N
  <2>1. (n - 0 + 1)..n = {} /\ <<>> \in Seq(Events)
    BY <1>1
  <2>2. Closed(s, b, b, {}, how) /\ Leads(x, b, <<>>, b)
    BY LeadsEmpty DEF Closed
  <2>3. Good(0)
    BY <1>3, <2>1, <2>2
  <2> QED
    BY <2>3
<1>5. ASSUME NEW i \in Nat, i \in N
      PROVE  i + 1 \in N
  <2> SUFFICES ASSUME i + 1 <= n PROVE Good(i + 1)
    OBVIOUS
  <2>1. /\ i + 1 \in 1..n /\ (i + 1) - 1 = i /\ n - (i + 1) + 1 = n - i /\ n - i \in 1..n
        /\ Good(i)
    BY <1>1, <1>5
  <2> DEFINE k == n - i
             T == (k + 1)..n
  <2>2. h[i + 1] = Adds(h[i], s, s.begun[k], how)
    BY <1>3, <2>1
  <2>3. n - i + 1 = k + 1 /\ T \cup {k} = k..n
    BY <1>1, <2>1
  <2>4. PICK c : Leads(x, b, h[i], c) /\ Closed(s, b, c, T, how)
    BY <2>1, <2>3
  <2>5. k \in DOMAIN s.begun /\ h[i] \in Seq(Events) /\ T = (k + 1)..Len(s.begun)
    BY <1>1, <2>1
  <2> HIDE DEF Good, N, k, T
  <2>6. /\ Adds(h[i], s, s.begun[k], how) \in Seq(Events)
        /\ \E d : /\ Leads(x, b, Adds(h[i], s, s.begun[k], how), d)
                  /\ Closed(s, b, d, T \cup {k}, how)
    BY <1>1, <2>4, <2>5, AddsOne
  <2>7. (n - (i + 1) + 1)..n = T \cup {k}
    BY <2>1, <2>3 DEF k
  <2> QED
    BY <2>2, <2>6, <2>7 DEF Good
<1> HIDE DEF N, Good
<1>6. Nat \subseteq N
  BY <1>4, <1>5, Induction, Zenon
<1>7. Good(n)
  BY <1>1, <1>6 DEF N
<1>8. (n - n + 1)..n = DOMAIN s.begun
  BY <1>1
<1> QED
  BY <1>3, <1>7, <1>8 DEF Good, how

-----------------------------------------------------------------------------
(* The entry agent's own events, and those about a run.                    *)

\* The entry agent says something, calls a tool, and has its result.
LEMMA ChatSpeaks ==
  ASSUME NEW x, NEW b \in Boards, NEW m \in Ids,
         NEW q, q = <<E("text_start", Chat, m, None), E("text", Chat, m, None),
                      E("text_end", Chat, m, None)>>
  PROVE  q \in Seq(Events) /\ Leads(x, b, q, b)
<1>1. Chat \in Scopes /\ {"text_start", "text", "text_end"} \subseteq Quiet
  BY DEF Scopes, Quiet
<1>2. /\ E("text_start", Chat, m, None) \in Events /\ E("text", Chat, m, None) \in Events
      /\ E("text_end", Chat, m, None) \in Events
  BY <1>1, NoneId, MadeEvents DEF Kinds
<1>3. \A i \in 1..Len(q) : q[i].type \in Quiet
  BY <1>1 DEF E
<1> HIDE DEF E
<1>4. q \in Seq(Events)
  BY <1>2
<1> QED
  BY <1>3, <1>4, QuietLeads

\* Events of a call of the entry agent's lead from b to d: nothing but c is touched.
ChatTold(x, b, q, d, c, tool, waiting) ==
  /\ q \in Seq(Events) /\ d \in Boards /\ Leads(x, b, q, d) /\ Others(b, d, c)
  /\ d.card = b.card /\ d.parent = b.parent /\ d.tool[c] = tool /\ d.runs[c] = b.runs[c]
  /\ c \in d.waiting <=> c \in waiting

LEMMA ChatStarts ==
  ASSUME NEW x, NEW b \in Boards, NEW m \in Ids, NEW c \in Calls,
         NEW q, q = <<E("call_start", Chat, c, m), E("call_args", Chat, c, None),
                      E("call_end", Chat, c, None)>>
  PROVE  \E d : ChatTold(x, b, q, d, c, "ended", Browser \cup b.waiting)
<1> DEFINE e1 == E("call_start", Chat, c, m)
           e2 == E("call_args", Chat, c, None)
           e3 == E("call_end", Chat, c, None)
<1>1. Chat \in Scopes /\ c \in Ids /\ None \in Ids
  BY NoneId DEF Scopes, Ids
<1>2. e1 \in Events /\ e2 \in Events /\ e3 \in Events
  BY <1>1, MadeEvents DEF Kinds, Quiet
<1>3. PICK d1 : d1 = Post(b, e1)
  OBVIOUS
<1>4. /\ d1 \in Boards /\ Others(b, d1, c) /\ d1.card = b.card /\ d1.parent = b.parent
      /\ d1.runs[c] = b.runs[c]
      /\ c \in d1.waiting <=> c \in Browser \cup b.waiting
  BY <1>1, <1>3, CallStartPosts
<1>5. PICK d : d = Post(d1, e3)
  OBVIOUS
<1>6. /\ d \in Boards /\ Others(d1, d, c) /\ d.card = d1.card /\ d.parent = d1.parent
      /\ d.tool[c] = "ended" /\ d.waiting = d1.waiting /\ d.runs = d1.runs
  BY <1>1, <1>4, <1>5, CallEndPosts
<1>7. Fits(x, b, e1) /\ Fits(x, d1, e3) /\ e2.type \in Quiet
  BY <1>2, <1>4 DEF Fits, E, Quiet
<1> HIDE DEF e1, e2, e3
<1>8. Leads(x, b, <<e1>>, d1) /\ <<e1>> \in Seq(Events)
  BY <1>2, <1>3, <1>7, LeadsOne
<1>9. PICK q1 \in Seq(Events) : q1 = <<e1>> /\ Leads(x, b, q1, d1)
  BY <1>8
<1>10. Append(q1, e2) \in Seq(Events) /\ Leads(x, b, Append(q1, e2), d1)
  BY <1>2, <1>4, <1>7, <1>9, QuietThen
<1>11. PICK q2 \in Seq(Events) : q2 = Append(q1, e2) /\ Leads(x, b, q2, d1)
  BY <1>10
<1>12. q2 \o <<e3>> \in Seq(Events) /\ Leads(x, b, q2 \o <<e3>>, d)
  BY <1>5, <1>7, <1>11, LeadsThen
<1>13. q = q2 \o <<e3>>
  BY <1>9, <1>11 DEF e1, e2, e3
<1>14. Others(b, d, c)
  BY <1>4, <1>6 DEF Others
<1> QED
  BY <1>4, <1>6, <1>12, <1>13, <1>14 DEF ChatTold

LEMMA ChatEnds ==
  ASSUME NEW x, NEW b \in Boards, NEW m \in Ids, NEW c \in Calls,
         NEW q, q = <<E("result", Chat, c, m)>>
  PROVE  \E d : ChatTold(x, b, q, d, c, "done", {})
<1> DEFINE e == E("result", Chat, c, m)
<1>1. Chat \in Scopes /\ c \in Ids
  BY DEF Scopes, Ids
<1>2. e \in Events
  BY <1>1, MadeEvents DEF Kinds
<1>3. PICK d : d = Post(b, e)
  OBVIOUS
<1>4. /\ d \in Boards /\ Others(b, d, c) /\ d.card = b.card /\ d.parent = b.parent
      /\ d.tool[c] = "done" /\ d.runs = b.runs /\ c \notin d.waiting
  BY <1>1, <1>3, ResultPosts
<1>5. Fits(x, b, e)
  BY <1>2 DEF Fits, E
<1> HIDE DEF e
<1>6. Leads(x, b, <<e>>, d) /\ <<e>> \in Seq(Events)
  BY <1>2, <1>3, <1>5, LeadsOne
<1> QED
  BY <1>4, <1>6 DEF e, ChatTold

\* What calls are made of.
LEMMA CallFields ==
  ASSUME NEW c \in Calls
  PROVE  c = <<c[1], c[2]>> /\ c[1] \in Workers /\ c[2] \in 1..MaxCalls[c[1]] /\ c # None
         /\ c[2] \in Nat
<1>1. PICK w \in Workers : c \in {w} \X (1..MaxCalls[w])
  BY DEF Calls
<1>2. c # None
  BY SubagentStreamAssumption
<1> QED
  BY <1>1, <1>2

-----------------------------------------------------------------------------
(* What the events say.  A reading is what a client would hold if every     *)
(* message kept the name the stream gave it; AppendOnly names some anew,    *)
(* and Heard says how what the client holds comes of its reading.           *)

Made(g, k) == <<g, "made", k>>
Messages == Scopes \X {"made", "run", "result", "placed"} \X Nat

Readings ==
  [running : BOOLEAN, card : [Group -> Cards], tool : [Calls -> Tools],
   saying : [Scopes -> Ids], thinking : [Scopes -> Ids], ids : [Scopes -> Nat], seen : SUBSET Ids]

Quietly(u, s) == u.saying[s] = None /\ u.thinking[s] = None
NextMade(u, s) == Made(s, u.ids[s] + 1)

\* The messages an event begins or joins.
Names(e) ==
  IF e.type \in {"text_start", "reasoning_start"} THEN {e.id}
  ELSE IF e.type \in {"call_start", "result"} THEN {e.parent} ELSE {}

\* What an event makes of a reading.
Reads(u, e) ==
  [running |-> e.type = "run_started" \/ (u.running /\ e.type # "run_finished"),
   card |-> IF e.type = "started" THEN [u.card EXCEPT ![e.scope] = "active"]
            ELSE IF e.type \in Closings THEN [u.card EXCEPT ![e.scope] = e.type] ELSE u.card,
   tool |-> CASE e.type = "call_start" -> [u.tool EXCEPT ![e.id] = "open"]
              [] e.type = "call_end" -> [u.tool EXCEPT ![e.id] = "ended"]
              [] e.type = "result" -> [u.tool EXCEPT ![e.id] = "done"]
              [] OTHER -> u.tool,
   saying |-> CASE e.type = "text_start" -> [u.saying EXCEPT ![e.scope] = e.id]
                [] e.type = "text_end" -> [u.saying EXCEPT ![e.scope] = None]
                [] OTHER -> u.saying,
   thinking |-> CASE e.type = "reasoning_start" -> [u.thinking EXCEPT ![e.scope] = e.id]
                  [] e.type = "reasoning_end" -> [u.thinking EXCEPT ![e.scope] = None]
                  [] OTHER -> u.thinking,
   ids |-> IF NextMade(u, e.scope) \in Names(e)
           THEN [u.ids EXCEPT ![e.scope] = @ + 1] ELSE u.ids,
   seen |-> u.seen \cup Names(e)]

\* What an event needs: the entry agent's messages of the run n have one name, a
\* delegate's are numbered, and a call may join one of its own that was seen.
Speech(n, u, e) ==
  \/ /\ e.type = "text_start" /\ Quietly(u, e.scope)
     /\ e.id = IF e.scope = Chat THEN <<Chat, "run", n>> ELSE NextMade(u, e.scope)
  \/ e.type \in {"text", "text_end"} /\ u.saying[e.scope] = e.id /\ e.id # None
  \/ /\ e.type = "reasoning_start" /\ Quietly(u, e.scope)
     /\ e.scope # Chat /\ e.id = NextMade(u, e.scope)
  \/ e.type \in {"reasoning", "reasoning_end"} /\ u.thinking[e.scope] = e.id /\ e.id # None
CallAllowed(n, u, e) ==
  /\ e.id \in Calls
  /\ \/ /\ e.type = "call_start" /\ Quietly(u, e.scope) /\ u.tool[e.id] = "none"
        /\ IF e.scope = Chat THEN e.parent = <<Chat, "run", n>>
           ELSE \/ e.parent = NextMade(u, e.scope)
                \/ \E k \in 1..u.ids[e.scope] : e.parent = Made(e.scope, k) /\ e.parent \in u.seen
     \/ e.type \in {"call_args", "call_end"} /\ u.tool[e.id] = "open"
     \/ /\ e.type = "result" /\ u.tool[e.id] = "ended"
        /\ IF e.scope = Chat THEN e.id[1] = Entry /\ e.parent = <<Chat, "result", e.id[2]>>
           ELSE e.parent = NextMade(u, e.scope)
Allowed(n, u, e) ==
  /\ u \in Readings /\ e \in Events
  /\ \/ e.type = "run_started" /\ ~u.running /\ e.scope = Chat /\ e.id = None
     \/ u.running /\ e.type = "finish"
     \/ /\ u.running /\ e.type = "run_finished" /\ e.scope = Chat
        /\ (\A g \in Group : u.card[g] # "active") /\ \A s \in Scopes : Quietly(u, s)
     \/ /\ u.running /\ e.type = "started" /\ e.scope \in Group /\ u.card[e.scope] # "active"
        /\ e.id = None
     \/ /\ u.running /\ e.type \in Closings /\ e.scope \in Group /\ u.card[e.scope] = "active"
        /\ Quietly(u, e.scope) /\ e.id = None
     \/ /\ u.running
        /\ e.scope = Chat \/ u.card[e.scope] = "active"
        /\ Speech(n, u, e) \/ CallAllowed(n, u, e)

\* The queue q, allowed in the run n, makes w of the reading u.
Utters(n, u, q, w) ==
  \E t : /\ t[0] = u /\ t[Len(q)] = w
         /\ \A i \in 1..Len(q) : Allowed(n, t[i - 1], q[i]) /\ t[i] = Reads(t[i - 1], q[i])

-----------------------------------------------------------------------------
(* Lemmas about what queues utter.                                         *)

\* No event makes nothing of a reading.
LEMMA UttersEmpty ==
  ASSUME NEW n \in Nat, NEW v
  PROVE  Utters(n, v, <<>>, v)
<1> DEFINE t == [i \in {0} |-> v]
<1>1. t[0] = v /\ Len(<<>>) = 0 /\ \A i \in 1..0 : FALSE
  OBVIOUS
<1> HIDE DEF t
<1> QED
  BY <1>1 DEF Utters

\* One event makes of a reading what is read.
LEMMA UttersOne ==
  ASSUME NEW n \in Nat, NEW v, NEW e, Allowed(n, v, e)
  PROVE  Utters(n, v, <<e>>, Reads(v, e))
<1> DEFINE t == [i \in {0, 1} |-> IF i = 0 THEN v ELSE Reads(v, e)]
<1>1. t[0] = v /\ t[1] = Reads(v, e) /\ Len(<<e>>) = 1 /\ <<e>>[1] = e
  OBVIOUS
<1> HIDE DEF t
<1> QED
  BY <1>1 DEF Utters

\* What the first event makes of it, the others go on from.
LEMMA UttersHead ==
  ASSUME NEW n \in Nat, NEW q \in Seq(Events), q # <<>>, NEW v, NEW w, Utters(n, v, q, w)
  PROVE  Allowed(n, v, Head(q)) /\ Utters(n, Reads(v, Head(q)), Tail(q), w)
<1>1. PICK t : /\ t[0] = v /\ t[Len(q)] = w
               /\ \A i \in 1..Len(q) : Allowed(n, t[i - 1], q[i]) /\ t[i] = Reads(t[i - 1], q[i])
  BY DEF Utters
<1> DEFINE u == [i \in 0..Len(Tail(q)) |-> t[i + 1]]
<1>2. /\ Len(q) \in Nat /\ Len(q) >= 1 /\ Len(Tail(q)) = Len(q) - 1 /\ Head(q) = q[1]
      /\ \A i \in 1..Len(Tail(q)) : Tail(q)[i] = q[i + 1]
  OBVIOUS
<1>3. /\ u[0] = t[1] /\ u[Len(Tail(q))] = t[Len(q)]
      /\ \A i \in 1..Len(Tail(q)) : u[i] = t[i + 1] /\ u[i - 1] = t[i]
  BY <1>2
<1> HIDE DEF u
<1>4. \A i \in 1..Len(Tail(q)) :
         Allowed(n, u[i - 1], Tail(q)[i]) /\ u[i] = Reads(u[i - 1], Tail(q)[i])
  BY <1>1, <1>2, <1>3
<1> QED
  BY <1>1, <1>2, <1>3, <1>4 DEF Utters

\* One queue behind another goes on from what the other made.
LEMMA UttersJoin ==
  ASSUME NEW n \in Nat, NEW q \in Seq(Events), NEW r \in Seq(Events), NEW v, NEW w, NEW z,
         Utters(n, v, q, w), Utters(n, w, r, z)
  PROVE  Utters(n, v, q \o r, z)
<1>1. PICK t : /\ t[0] = v /\ t[Len(q)] = w
               /\ \A i \in 1..Len(q) : Allowed(n, t[i - 1], q[i]) /\ t[i] = Reads(t[i - 1], q[i])
  BY DEF Utters
<1>2. PICK u : /\ u[0] = w /\ u[Len(r)] = z
               /\ \A i \in 1..Len(r) : Allowed(n, u[i - 1], r[i]) /\ u[i] = Reads(u[i - 1], r[i])
  BY DEF Utters
<1> DEFINE m == Len(q)
           l == Len(r)
           y == [i \in 0..(m + l) |-> IF i <= m THEN t[i] ELSE u[i - m]]
<1>3. /\ m \in Nat /\ l \in Nat /\ Len(q \o r) = m + l
      /\ \A i \in 1..m : (q \o r)[i] = q[i]
      /\ \A i \in (m + 1)..(m + l) : (q \o r)[i] = r[i - m]
  OBVIOUS
<1> HIDE DEF m, l
<1>5. (\A i \in 0..m : y[i] = t[i]) /\ \A i \in (m + 1)..(m + l) : y[i] = u[i - m]
  BY <1>3
<1> HIDE DEF y
<1>4. y[0] = v /\ y[m + l] = z
  <2>1. CASE l = 0
    BY <2>1, <1>1, <1>2, <1>3, <1>5 DEF m, l
  <2>2. CASE l > 0
    BY <2>2, <1>1, <1>2, <1>3, <1>5 DEF l
  <2> QED
    BY <2>1, <2>2, <1>3
<1>6. ASSUME NEW i \in (m + 1)..(m + l)
      PROVE  y[i] = u[i - m] /\ y[i - 1] = u[(i - m) - 1]
  <2>1. CASE i = m + 1
    BY <2>1, <1>1, <1>2, <1>3, <1>5 DEF m
  <2>2. CASE i # m + 1
    <3>1. i - 1 \in (m + 1)..(m + l) /\ (i - 1) - m = (i - m) - 1
      BY <2>2, <1>3
    <3> QED
      BY <3>1, <1>5
  <2> QED
    BY <2>1, <2>2
<1>7. ASSUME NEW i \in 1..(m + l)
      PROVE  Allowed(n, y[i - 1], (q \o r)[i]) /\ y[i] = Reads(y[i - 1], (q \o r)[i])
  <2>1. CASE i \in 1..m
    BY <2>1, <1>1, <1>3, <1>5 DEF m
  <2>2. CASE i \in (m + 1)..(m + l)
    <3>1. i - m \in 1..l
      BY <2>2, <1>3
    <3> QED
      BY <2>2, <3>1, <1>2, <1>3, <1>6 DEF l
  <2> QED
    BY <2>1, <2>2, <1>3
<1> QED
  BY <1>3, <1>4, <1>7 DEF Utters

\* Another event makes of the reading what it says.
LEMMA UttersThen ==
  ASSUME NEW n \in Nat, NEW u, NEW v, NEW q \in Seq(Events), Utters(n, u, q, v),
         NEW e, Allowed(n, v, e)
  PROVE  q \o <<e>> \in Seq(Events) /\ Utters(n, u, q \o <<e>>, Reads(v, e))
<1>1. PICK r \in Seq(Events) : r = <<e>>
  <2>1. <<e>> \in Seq(Events)
    BY DEF Allowed
  <2> QED
    BY <2>1
<1>2. Utters(n, v, r, Reads(v, e))
  BY <1>1, UttersOne
<1>3. PICK w : w = Reads(v, e)
  OBVIOUS
<1>4. Utters(n, u, q \o r, w)
  BY <1>2, <1>3, UttersJoin
<1> QED
  BY <1>1, <1>3, <1>4

-----------------------------------------------------------------------------
(* What an event makes of a reading.                                       *)

\* What a reading is made of, and a message's name.
LEMMA ReadingFields ==
  ASSUME NEW u \in Readings
  PROVE  /\ u.running \in BOOLEAN /\ u.card \in [Group -> Cards] /\ u.tool \in [Calls -> Tools]
         /\ u.saying \in [Scopes -> Ids] /\ u.thinking \in [Scopes -> Ids]
         /\ u.ids \in [Scopes -> Nat] /\ u.seen \subseteq Ids
  BY DEF Readings

\* A message that the stream numbers is one, and no other value.
LEMMA MadeIds ==
  ASSUME NEW s \in Scopes, NEW k \in Nat
  PROVE  Made(s, k) \in Ids /\ Made(s, k) # None /\ Made(s, k) \in Messages
<1>1. Made(s, k) \in Scopes \X {"made", "run", "result"} \X Nat
  BY DEF Made
<1>2. Made(s, k) \in Messages
  BY DEF Made, Messages
<1> QED
  BY <1>1, <1>2, SubagentStreamAssumption DEF Ids, Messages

\* Nothing is read of any scope but g, and what was seen is.
Elsewhere(u, w, g) ==
  /\ w.running = u.running /\ u.seen \subseteq w.seen
  /\ \A h \in Group \ {g} : w.card[h] = u.card[h]
  /\ \A s \in Scopes \ {g} : /\ w.saying[s] = u.saying[s] /\ w.thinking[s] = u.thinking[s]
                             /\ w.ids[s] = u.ids[s]

\* An event that is allowed is of one of these kinds.
LEMMA AllowedKinds ==
  ASSUME NEW n \in Nat, NEW u, NEW e, Allowed(n, u, e)
  PROVE  /\ u \in Readings /\ e \in Events /\ e.scope \in Scopes /\ e.id \in Ids /\ e.parent \in Ids
         /\ e.type \in Closings \cup {"started"} => e.scope \in Group
         /\ e.type \in {"call_start", "call_args", "call_end", "result"} => e.id \in Calls
<1>1. u \in Readings /\ e \in Events /\ e.scope \in Scopes /\ e.id \in Ids /\ e.parent \in Ids
  BY DEF Allowed, Events
<1>2. e.type \in Closings \cup {"started"} => e.scope \in Group
  BY DEF Allowed, Closings, Speech, CallAllowed
<1>3. e.type \in {"call_start", "call_args", "call_end", "result"} => e.id \in Calls
  BY DEF Allowed, Closings, Speech, CallAllowed
<1> QED
  BY <1>1, <1>2, <1>3

\* It leaves a reading, and other scopes as they were.
LEMMA ReadsOn ==
  ASSUME NEW n \in Nat, NEW u, NEW e, Allowed(n, u, e), NEW w, w = Reads(u, e)
  PROVE  /\ u \in Readings /\ w \in Readings /\ e \in Events
         /\ e.type \notin {"run_started", "run_finished"} => Elsewhere(u, w, e.scope)
<1>1. /\ u \in Readings /\ e \in Events /\ e.scope \in Scopes /\ e.id \in Ids /\ e.parent \in Ids
      /\ e.type \in Closings \cup {"started"} => e.scope \in Group
      /\ e.type \in {"call_start", "call_args", "call_end", "result"} => e.id \in Calls
  BY AllowedKinds
<1>2. /\ u.running \in BOOLEAN /\ u.card \in [Group -> Cards] /\ u.tool \in [Calls -> Tools]
      /\ u.saying \in [Scopes -> Ids] /\ u.thinking \in [Scopes -> Ids]
      /\ u.ids \in [Scopes -> Nat] /\ u.seen \subseteq Ids
  BY <1>1, ReadingFields
<1>3. /\ w.running \in BOOLEAN
      /\ e.type \notin {"run_started", "run_finished"} => w.running = u.running
  BY <1>2 DEF Reads
<1>4. /\ w.card \in [Group -> Cards] /\ \A h \in Group \ {e.scope} : w.card[h] = u.card[h]
  BY <1>1, <1>2 DEF Reads, Cards
<1>5. w.tool \in [Calls -> Tools]
  BY <1>1, <1>2 DEF Reads, Tools
<1>6. /\ w.saying \in [Scopes -> Ids]
      /\ \A s \in Scopes \ {e.scope} : w.saying[s] = u.saying[s]
  BY <1>1, <1>2, NoneId DEF Reads
<1>7. /\ w.thinking \in [Scopes -> Ids]
      /\ \A s \in Scopes \ {e.scope} : w.thinking[s] = u.thinking[s]
  BY <1>1, <1>2, NoneId DEF Reads
<1>8. /\ w.ids \in [Scopes -> Nat]
      /\ \A s \in Scopes \ {e.scope} : w.ids[s] = u.ids[s]
  BY <1>1, <1>2 DEF Reads
<1>9. w.seen \subseteq Ids /\ u.seen \subseteq w.seen
  BY <1>1, <1>2 DEF Reads, Names
<1>10. w = [running |-> w.running, card |-> w.card, tool |-> w.tool, saying |-> w.saying,
            thinking |-> w.thinking, ids |-> w.ids, seen |-> w.seen]
  BY DEF Reads
<1> QED
  BY <1>1, <1>3, <1>4, <1>5, <1>6, <1>7, <1>8, <1>9, <1>10 DEF Readings, Elsewhere

\* What each kind makes of its own scope.
LEMMA ReadsHere ==
  ASSUME NEW n \in Nat, NEW u, NEW e, Allowed(n, u, e), NEW w, w = Reads(u, e)
  PROVE  /\ e.scope \in Group =>
              w.card[e.scope] = IF e.type = "started" THEN "active"
                                ELSE IF e.type \in Closings THEN e.type ELSE u.card[e.scope]
         /\ w.saying[e.scope] = IF e.type = "text_start" THEN e.id
                                ELSE IF e.type = "text_end" THEN None ELSE u.saying[e.scope]
         /\ w.thinking[e.scope] = IF e.type = "reasoning_start" THEN e.id
                                  ELSE IF e.type = "reasoning_end" THEN None
                                  ELSE u.thinking[e.scope]
         /\ w.ids[e.scope] = IF NextMade(u, e.scope) \in Names(e) THEN u.ids[e.scope] + 1
                             ELSE u.ids[e.scope]
         /\ w.seen = u.seen \cup Names(e)
         /\ \A c \in Calls :
              w.tool[c] = IF c = e.id /\ e.type = "call_start" THEN "open"
                          ELSE IF c = e.id /\ e.type = "call_end" THEN "ended"
                          ELSE IF c = e.id /\ e.type = "result" THEN "done" ELSE u.tool[c]
<1>1. /\ u \in Readings /\ e \in Events /\ e.scope \in Scopes
      /\ e.type \in Closings \cup {"started"} => e.scope \in Group
      /\ e.type \in {"call_start", "call_args", "call_end", "result"} => e.id \in Calls
  BY AllowedKinds
<1>2. /\ u.card \in [Group -> Cards] /\ u.tool \in [Calls -> Tools]
      /\ u.saying \in [Scopes -> Ids] /\ u.thinking \in [Scopes -> Ids]
      /\ u.ids \in [Scopes -> Nat]
  BY <1>1, ReadingFields
<1>3. e.scope \in Group =>
        w.card[e.scope] = IF e.type = "started" THEN "active"
                          ELSE IF e.type \in Closings THEN e.type ELSE u.card[e.scope]
  BY <1>1, <1>2 DEF Reads
<1>4. w.saying[e.scope] = IF e.type = "text_start" THEN e.id
                          ELSE IF e.type = "text_end" THEN None ELSE u.saying[e.scope]
  BY <1>1, <1>2 DEF Reads
<1>5. w.thinking[e.scope] = IF e.type = "reasoning_start" THEN e.id
                            ELSE IF e.type = "reasoning_end" THEN None
                            ELSE u.thinking[e.scope]
  BY <1>1, <1>2 DEF Reads
<1>6. /\ w.ids[e.scope] = IF NextMade(u, e.scope) \in Names(e) THEN u.ids[e.scope] + 1
                          ELSE u.ids[e.scope]
      /\ w.seen = u.seen \cup Names(e)
  BY <1>1, <1>2 DEF Reads
<1>7. \A c \in Calls :
        w.tool[c] = IF c = e.id /\ e.type = "call_start" THEN "open"
                    ELSE IF c = e.id /\ e.type = "call_end" THEN "ended"
                    ELSE IF c = e.id /\ e.type = "result" THEN "done" ELSE u.tool[c]
  BY <1>1, <1>2 DEF Reads
<1> QED
  BY <1>3, <1>4, <1>5, <1>6, <1>7

\* A queue leaves a reading a reading.
LEMMA UttersReadings ==
  ASSUME NEW n \in Nat, NEW q, Len(q) \in Nat, NEW u \in Readings, NEW w, Utters(n, u, q, w)
  PROVE  w \in Readings
<1>1. PICK t : /\ t[0] = u /\ t[Len(q)] = w
               /\ \A i \in 1..Len(q) : Allowed(n, t[i - 1], q[i]) /\ t[i] = Reads(t[i - 1], q[i])
  BY DEF Utters
<1>2. CASE Len(q) = 0
  BY <1>1, <1>2
<1>3. CASE Len(q) # 0
  BY <1>1, <1>3, ReadsOn
<1> QED
  BY <1>2, <1>3

-----------------------------------------------------------------------------
(* What the operators of the stream utter.                                 *)

\* Of the segment g, the stream s is what the reading u says.
Tracks(s, u, g) ==
  /\ s.seg[g].open <=> u.card[g] = "active"
  /\ u.saying[g] = s.seg[g].text /\ u.thinking[g] = s.seg[g].thought /\ u.ids[g] = s.ids[g]
  /\ ~s.seg[g].open => Quietly(u, g)
  /\ s.seg[g].step # None => /\ s.seg[g].step \in u.seen
                             /\ \E k \in 1..s.ids[g] : s.seg[g].step = Made(g, k)
Follows(s, u) ==
  /\ u.running /\ Quietly(u, Chat) /\ u.ids[Chat] = s.ids[Chat]
  /\ \A g \in Group : Tracks(s, u, g)

\* No segment but g is touched.
Apart(s, t, g) ==
  /\ \A h \in Group \ {g} : t.seg[h] = s.seg[h]
  /\ \A x \in Scopes \ {g} : t.ids[x] = s.ids[x]

\* No more is read than what is being said.
Hushes(u, w, g) ==
  /\ w \in Readings /\ Elsewhere(u, w, g) /\ w.card[g] = u.card[g] /\ w.ids[g] = u.ids[g]
  /\ \A c \in Calls : w.tool[c] = u.tool[c]

\* What two steps leave alone elsewhere, both do.
LEMMA ElsewhereOn ==
  ASSUME NEW u, NEW v, NEW w, NEW g, Elsewhere(u, v, g), Elsewhere(v, w, g)
  PROVE  Elsewhere(u, w, g)
  BY DEF Elsewhere

\* A reading that follows the stream in one segment, and is left alone elsewhere,
\* follows it.
LEMMA FollowsOn ==
  ASSUME NEW s, NEW u, Follows(s, u), NEW g \in Group, NEW t, Apart(s, t, g),
         NEW w, Elsewhere(u, w, g), Tracks(t, w, g)
  PROVE  Follows(t, w)
<1>1. Chat \in Scopes \ {g} /\ Group \subseteq Scopes
  BY SubagentStreamAssumption DEF Scopes
<1>2. w.running /\ Quietly(w, Chat) /\ w.ids[Chat] = t.ids[Chat]
  BY <1>1 DEF Follows, Elsewhere, Apart, Quietly
<1>3. ASSUME NEW h \in Group, h # g
      PROVE  Tracks(t, w, h)
  <2>1. /\ t.seg[h] = s.seg[h] /\ t.ids[h] = s.ids[h] /\ w.card[h] = u.card[h]
        /\ w.saying[h] = u.saying[h] /\ w.thinking[h] = u.thinking[h] /\ w.ids[h] = u.ids[h]
        /\ u.seen \subseteq w.seen /\ Tracks(s, u, h)
    BY <1>1, <1>3 DEF Follows, Elsewhere, Apart
  <2> QED
    BY <2>1 DEF Tracks, Quietly
<1> QED
  BY <1>2, <1>3 DEF Follows

\* So do these events.
LEMMA HushReads ==
  ASSUME NEW n \in Nat, NEW u, NEW e, Allowed(n, u, e), NEW w, w = Reads(u, e), e.scope \in Group,
         e.type \in {"text", "text_end", "reasoning", "reasoning_end", "call_args"}
  PROVE  /\ Hushes(u, w, e.scope)
         /\ w.saying[e.scope] = IF e.type = "text_end" THEN None ELSE u.saying[e.scope]
         /\ w.thinking[e.scope] = IF e.type = "reasoning_end" THEN None ELSE u.thinking[e.scope]
<1>1. Names(e) = {} /\ e.type \notin Closings
  BY DEF Names, Closings
<1>2. w \in Readings /\ Elsewhere(u, w, e.scope)
  BY ReadsOn
<1>3. /\ w.card[e.scope] = u.card[e.scope] /\ w.ids[e.scope] = u.ids[e.scope]
      /\ \A c \in Calls : w.tool[c] = u.tool[c]
      /\ w.saying[e.scope] = IF e.type = "text_end" THEN None ELSE u.saying[e.scope]
      /\ w.thinking[e.scope] = IF e.type = "reasoning_end" THEN None ELSE u.thinking[e.scope]
  BY <1>1, ReadsHere
<1> QED
  BY <1>2, <1>3 DEF Hushes

\* What is being thought, or said, is closed.
LEMMA ThoughtCloses ==
  ASSUME NEW n \in Nat, NEW s \in Streams, NEW g \in Group, NEW u \in Readings, u.running,
         u.card[g] = "active", u.thinking[g] = s.seg[g].thought
  PROVE  /\ CloseThought(s, g) \in Seq(Events)
         /\ \E w : /\ Utters(n, u, CloseThought(s, g), w) /\ Hushes(u, w, g)
                   /\ w.thinking[g] = None /\ w.saying[g] = u.saying[g]
<1>1. CASE s.seg[g].thought = None
  <2>1. CloseThought(s, g) = <<>>
    BY <1>1 DEF CloseThought
  <2>2. Hushes(u, u, g)
    BY DEF Hushes, Elsewhere
  <2> QED
    BY <1>1, <2>1, <2>2, UttersEmpty
<1>2. CASE s.seg[g].thought # None
  <2> DEFINE e == E("reasoning_end", g, s.seg[g].thought, None)
  <2>1. CloseThought(s, g) = <<e>>
    BY <1>2 DEF CloseThought
  <2>2. /\ e.type = "reasoning_end" /\ e.scope = g /\ e.id = s.seg[g].thought /\ e.parent = None
        /\ e \in Events
    <3>1. g \in Scopes /\ s.seg[g].thought \in Ids /\ "reasoning_end" \in Kinds
      BY StreamFields, SegmentFields DEF Scopes, Kinds, Quiet
    <3>2. e \in Events
      BY <3>1, NoneId, MadeEvents
    <3> QED
      BY <3>2 DEF E
  <2> HIDE DEF e
  <2>3. Allowed(n, u, e)
    BY <1>2, <2>2 DEF Allowed, Speech
  <2>4. PICK w : w = Reads(u, e)
    OBVIOUS
  <2>5. Utters(n, u, <<e>>, w) /\ <<e>> \in Seq(Events)
    BY <2>2, <2>3, <2>4, UttersOne
  <2>6. Hushes(u, w, g) /\ w.thinking[g] = None /\ w.saying[g] = u.saying[g]
    BY <2>2, <2>3, <2>4, HushReads
  <2> QED
    BY <2>1, <2>5, <2>6
<1> QED
  BY <1>1, <1>2

\* The text that is being said is closed, and no more is read.
LEMMA TextCloses ==
  ASSUME NEW n \in Nat, NEW s \in Streams, NEW g \in Group, NEW u \in Readings, u.running,
         u.card[g] = "active", u.saying[g] = s.seg[g].text
  PROVE  /\ CloseText(s, g) \in Seq(Events)
         /\ \E w : /\ Utters(n, u, CloseText(s, g), w) /\ Hushes(u, w, g)
                   /\ w.saying[g] = None /\ w.thinking[g] = u.thinking[g]
<1>1. CASE s.seg[g].text = None
  <2>1. CloseText(s, g) = <<>>
    BY <1>1 DEF CloseText
  <2>2. Hushes(u, u, g)
    BY DEF Hushes, Elsewhere
  <2> QED
    BY <1>1, <2>1, <2>2, UttersEmpty
<1>2. CASE s.seg[g].text # None
  <2> DEFINE e == E("text_end", g, s.seg[g].text, None)
  <2>1. CloseText(s, g) = <<e>>
    BY <1>2 DEF CloseText
  <2>2. /\ e.type = "text_end" /\ e.scope = g /\ e.id = s.seg[g].text /\ e.parent = None
        /\ e \in Events
    <3>1. g \in Scopes /\ s.seg[g].text \in Ids /\ "text_end" \in Kinds
      BY StreamFields, SegmentFields DEF Scopes, Kinds, Quiet
    <3>2. e \in Events
      BY <3>1, NoneId, MadeEvents
    <3> QED
      BY <3>2 DEF E
  <2> HIDE DEF e
  <2>3. Allowed(n, u, e)
    BY <1>2, <2>2 DEF Allowed, Speech
  <2>4. PICK w : w = Reads(u, e)
    OBVIOUS
  <2>5. Utters(n, u, <<e>>, w) /\ <<e>> \in Seq(Events)
    BY <2>2, <2>3, <2>4, UttersOne
  <2>6. Hushes(u, w, g) /\ w.saying[g] = None /\ w.thinking[g] = u.thinking[g]
    BY <2>2, <2>3, <2>4, HushReads
  <2> QED
    BY <2>1, <2>5, <2>6
<1> QED
  BY <1>1, <1>2

\* Both are.
LEMMA SpeechCloses ==
  ASSUME NEW n \in Nat, NEW s \in Streams, NEW g \in Group, NEW u \in Readings, u.running,
         Tracks(s, u, g), s.seg[g].open
  PROVE  /\ CloseThought(s, g) \o CloseText(s, g) \in Seq(Events)
         /\ \E w : /\ Utters(n, u, CloseThought(s, g) \o CloseText(s, g), w) /\ Hushes(u, w, g)
                   /\ Quietly(w, g)
<1>1. PICK v \in Readings :
               /\ CloseThought(s, g) \in Seq(Events)
               /\ Utters(n, u, CloseThought(s, g), v) /\ Hushes(u, v, g)
               /\ v.thinking[g] = None /\ v.saying[g] = u.saying[g]
  BY ThoughtCloses DEF Tracks, Hushes
<1>2. v.running /\ v.card[g] = "active" /\ v.saying[g] = s.seg[g].text
  BY <1>1 DEF Tracks, Hushes, Elsewhere
<1>3. PICK w : /\ CloseText(s, g) \in Seq(Events)
               /\ Utters(n, v, CloseText(s, g), w) /\ Hushes(v, w, g)
               /\ w.saying[g] = None /\ w.thinking[g] = v.thinking[g]
  BY <1>2, TextCloses
<1>4. Utters(n, u, CloseThought(s, g) \o CloseText(s, g), w)
  BY <1>1, <1>3, UttersJoin
<1>5. Hushes(u, w, g)
  BY <1>1, <1>3, ElsewhereOn DEF Hushes
<1> QED
  BY <1>1, <1>3, <1>4, <1>5 DEF Quietly

\* The stream becomes t as the queue q makes w of the reading u, which it tracks.
Voiced(n, s, u, g, t, q, w) ==
  /\ t \in Streams /\ q \in Seq(Events) /\ w \in Readings /\ Utters(n, u, q, w)
  /\ Elsewhere(u, w, g) /\ Apart(s, t, g) /\ Tracks(t, w, g)
SameTools(u, w) == \A c \in Calls : w.tool[c] = u.tool[c]

\* There is a board.
LEMMA SomeBoard == \E b : b \in Boards
<1>1. PICK b : b = [card |-> [g \in Group |-> "none"], parent |-> [g \in Group |-> None],
                    tool |-> [c \in Calls |-> "none"],
                    outcome |-> [approvals |-> {}, pending |-> {}], waiting |-> {},
                    runs |-> [c \in Calls |-> None]]
  OBVIOUS
<1>2. [approvals |-> {}, pending |-> {}] \in Outcomes
  BY DEF Outcomes
<1>3. /\ [g \in Group |-> "none"] \in [Group -> Cards]
      /\ [g \in Group |-> None] \in [Group -> Group \cup {None}]
      /\ [c \in Calls |-> "none"] \in [Calls -> Tools]
      /\ [c \in Calls |-> None] \in [Calls -> Group \cup {None}]
  BY DEF Cards, Tools
<1>4. b \in Boards
  BY <1>1, <1>2, <1>3 DEF Boards
<1> QED
  BY <1>4

\* What a call that is announced changes of the segment g: it may number a message.
CallJoins(s, t, g) ==
  /\ Apart(s, t, g)
  /\ t.seg[g].open = s.seg[g].open /\ t.seg[g].text = None /\ t.seg[g].thought = None
  /\ t.seg[g].step = IF s.seg[g].step = None THEN NextId(s, g) ELSE s.seg[g].step
  /\ t.ids[g] = IF s.seg[g].step = None THEN s.ids[g] + 1 ELSE s.ids[g]

\* What text makes of the stream,
LEMMA TokenStream ==
  ASSUME NEW s \in Streams, NEW g \in Group
  PROVE  \E t \in Streams :
         /\ t = Token(s, g).s /\ Apart(s, t, g)
         /\ t.seg[g].open = s.seg[g].open /\ t.seg[g].thought = None
         /\ t.seg[g].text = IF s.seg[g].text = None THEN NextId(s, g) ELSE s.seg[g].text
         /\ t.seg[g].step = IF s.seg[g].text = None THEN NextId(s, g) ELSE s.seg[g].step
         /\ t.ids[g] = IF s.seg[g].text = None THEN s.ids[g] + 1 ELSE s.ids[g]
<1> DEFINE m == IF s.seg[g].text = None THEN NextId(s, g) ELSE s.seg[g].text
           step == IF s.seg[g].text = None THEN m ELSE s.seg[g].step
           id == IF s.seg[g].text = None THEN s.ids[g] + 1 ELSE s.ids[g]
<1>1. s.seg \in [Group -> Segments] /\ s.ids \in [Scopes -> Nat] /\ g \in Scopes
      /\ s.seg[g] \in Segments
  BY StreamFields DEF Scopes
<1>2. PICK t : t = [s EXCEPT !.seg[g].thought = None, !.seg[g].text = m, !.seg[g].step = step,
                    !.ids[g] = id]
  OBVIOUS
<1>8. t = Token(s, g).s
  BY <1>2 DEF Token
<1>3. /\ m = IF s.seg[g].text = None THEN NextId(s, g) ELSE s.seg[g].text
      /\ step = IF s.seg[g].text = None THEN NextId(s, g) ELSE s.seg[g].step
  OBVIOUS
<1> HIDE DEF m, step, id
<1>4. /\ \A h \in Group \ {g} : t.seg[h] = s.seg[h]
      /\ \A x \in Scopes \ {g} : t.ids[x] = s.ids[x]
  BY <1>1, <1>2 DEF Streams
<1>5. /\ t.seg[g].open = s.seg[g].open /\ t.seg[g].thought = None /\ t.seg[g].text = m
      /\ t.seg[g].step = step
  BY <1>1, <1>2 DEF Streams, Segments
<1>6. t.ids[g] = id
  BY <1>1, <1>2 DEF Streams
<1>7. t \in Streams
  BY <1>8, SomeBoard, TokenDoes
<1> QED
  BY <1>3, <1>4, <1>5, <1>6, <1>7, <1>8 DEF id, Apart

\* reasoning,
LEMMA ReasoningStream ==
  ASSUME NEW s \in Streams, NEW g \in Group
  PROVE  \E t \in Streams :
         /\ t = Reasoning(s, g).s /\ Apart(s, t, g)
         /\ t.seg[g].open = s.seg[g].open /\ t.seg[g].text = None
         /\ t.seg[g].thought = IF s.seg[g].thought = None THEN NextId(s, g) ELSE s.seg[g].thought
         /\ t.seg[g].step = IF s.seg[g].thought = None THEN None ELSE s.seg[g].step
         /\ t.ids[g] = IF s.seg[g].thought = None THEN s.ids[g] + 1 ELSE s.ids[g]
<1> DEFINE m == IF s.seg[g].thought = None THEN NextId(s, g) ELSE s.seg[g].thought
           step == IF s.seg[g].thought = None THEN None ELSE s.seg[g].step
           id == IF s.seg[g].thought = None THEN s.ids[g] + 1 ELSE s.ids[g]
<1>1. s.seg \in [Group -> Segments] /\ s.ids \in [Scopes -> Nat] /\ g \in Scopes
      /\ s.seg[g] \in Segments
  BY StreamFields DEF Scopes
<1>2. PICK t : t = [s EXCEPT !.seg[g].text = None, !.seg[g].thought = m, !.seg[g].step = step,
                    !.ids[g] = id]
  OBVIOUS
<1>8. t = Reasoning(s, g).s
  BY <1>2 DEF Reasoning
<1> HIDE DEF m, step, id
<1>4. /\ \A h \in Group \ {g} : t.seg[h] = s.seg[h]
      /\ \A x \in Scopes \ {g} : t.ids[x] = s.ids[x]
  BY <1>1, <1>2 DEF Streams
<1>5. /\ t.seg[g].open = s.seg[g].open /\ t.seg[g].text = None /\ t.seg[g].thought = m
      /\ t.seg[g].step = step
  BY <1>1, <1>2 DEF Streams, Segments
<1>6. t.ids[g] = id
  BY <1>1, <1>2 DEF Streams
<1>7. t \in Streams
  BY <1>8, SomeBoard, ReasoningDoes
<1> QED
  BY <1>4, <1>5, <1>6, <1>7, <1>8 DEF m, step, id, Apart

\* a call that is announced,
LEMMA StartCallStream ==
  ASSUME NEW s \in Streams, NEW g \in Group, NEW c \in Calls, s.seg[g].args[c] = "unsent"
  PROVE  \E t \in Streams : t = StartCall(s, g, c).s /\ CallJoins(s, t, g)
<1> DEFINE m == IF s.seg[g].step = None THEN NextId(s, g) ELSE s.seg[g].step
           id == IF s.seg[g].step = None THEN s.ids[g] + 1 ELSE s.ids[g]
<1>1. s.seg \in [Group -> Segments] /\ s.ids \in [Scopes -> Nat] /\ g \in Scopes
      /\ s.seg[g] \in Segments /\ s.owner \in [Calls -> Group \cup {None}]
      /\ s.seg[g].args \in [Calls -> {"unsent", "empty", "sent"}]
  BY StreamFields, SegmentFields DEF Scopes
<1>2. PICK t : t = [s EXCEPT !.seg[g].text = None, !.seg[g].thought = None, !.seg[g].step = m,
                    !.seg[g].args[c] = "empty", !.owner[c] = g, !.ids[g] = id]
  OBVIOUS
<1>8. t = StartCall(s, g, c).s
  BY <1>2 DEF StartCall
<1> HIDE DEF m, id
<1>4. /\ \A h \in Group \ {g} : t.seg[h] = s.seg[h]
      /\ \A x \in Scopes \ {g} : t.ids[x] = s.ids[x]
  BY <1>1, <1>2 DEF Streams
<1>5. /\ t.seg[g].open = s.seg[g].open /\ t.seg[g].text = None /\ t.seg[g].thought = None
      /\ t.seg[g].step = m
  BY <1>1, <1>2 DEF Streams, Segments
<1>6. t.ids[g] = id
  BY <1>1, <1>2 DEF Streams
<1>7. t \in Streams
  BY <1>8, SomeBoard, StartCallDoes
<1> QED
  BY <1>4, <1>5, <1>6, <1>7, <1>8 DEF m, id, Apart, CallJoins

\* The message a stream begins next is the next one of the reading that it tracks.
LEMMA NextNamed ==
  ASSUME NEW s \in Streams, NEW g \in Group, NEW u \in Readings, u.ids[g] = s.ids[g]
  PROVE  /\ NextId(s, g) = NextMade(u, g) /\ NextId(s, g) = Made(g, s.ids[g] + 1)
         /\ NextId(s, g) # None /\ NextId(s, g) \in Ids /\ s.ids[g] \in Nat /\ g \in Scopes
<1>1. g \in Scopes /\ s.ids[g] \in Nat
  BY StreamFields DEF Scopes
<1>2. NextId(s, g) = Made(g, s.ids[g] + 1) /\ NextId(s, g) = NextMade(u, g)
  BY DEF NextId, NextMade, Made
<1> QED
  BY <1>1, <1>2, MadeIds

\* Text is said in the message that is open, or a new one.
LEMMA TokenUtters ==
  ASSUME NEW n \in Nat, NEW s \in Streams, NEW g \in Group, s.seg[g].open,
         NEW u \in Readings, u.running, Tracks(s, u, g)
  PROVE  \E w : Voiced(n, s, u, g, Token(s, g).s, Token(s, g).out, w) /\ SameTools(u, w)
<1> DEFINE new == s.seg[g].text = None
           m == IF new THEN NextId(s, g) ELSE s.seg[g].text
           e1 == E("text_start", g, m, None)
           e2 == E("text", g, m, None)
           opens == IF new THEN <<e1>> ELSE <<>>
           q == CloseThought(s, g)
<1>1. Token(s, g).out = (q \o opens) \o <<e2>>
  BY DEF Token
<1>2. PICK t \in Streams :
         /\ t = Token(s, g).s /\ Apart(s, t, g)
         /\ t.seg[g].open = s.seg[g].open /\ t.seg[g].thought = None
         /\ t.seg[g].text = IF s.seg[g].text = None THEN NextId(s, g) ELSE s.seg[g].text
         /\ t.seg[g].step = IF s.seg[g].text = None THEN NextId(s, g) ELSE s.seg[g].step
         /\ t.ids[g] = IF s.seg[g].text = None THEN s.ids[g] + 1 ELSE s.ids[g]
  BY TokenStream
<1>3. /\ t.seg[g].text = m
      /\ new => t.seg[g].step = m /\ t.ids[g] = s.ids[g] + 1
      /\ ~new => t.seg[g].step = s.seg[g].step /\ t.ids[g] = s.ids[g]
  BY <1>2
<1>4. PICK v \in Readings :
         /\ q \in Seq(Events) /\ Utters(n, u, q, v) /\ Hushes(u, v, g)
         /\ v.thinking[g] = None /\ v.saying[g] = u.saying[g]
  BY ThoughtCloses DEF Tracks, Hushes
<1>5. /\ v.running /\ v.card[g] = "active" /\ v.ids[g] = s.ids[g]
      /\ v.saying[g] = s.seg[g].text /\ Elsewhere(u, v, g) /\ SameTools(u, v)
  BY <1>4 DEF Tracks, Hushes, Elsewhere, SameTools
<1>6. /\ NextId(s, g) = NextMade(v, g) /\ NextId(s, g) = Made(g, s.ids[g] + 1)
      /\ NextId(s, g) # None /\ NextId(s, g) \in Ids /\ s.ids[g] \in Nat /\ g \in Scopes
  BY <1>5, NextNamed
<1>7. m \in Ids /\ m # None /\ g # Chat
  BY <1>6, StreamFields, SegmentFields, SubagentStreamAssumption
<1>8. /\ e1 \in Events /\ e1.type = "text_start" /\ e1.scope = g /\ e1.id = m
      /\ e2 \in Events /\ e2.type = "text" /\ e2.scope = g /\ e2.id = m
  <2>1. e1 \in Events /\ e2 \in Events
    BY <1>6, <1>7, NoneId, MadeEvents DEF Kinds, Quiet
  <2> QED
    BY <2>1 DEF E
<1>9. new => m = NextId(s, g)
  OBVIOUS
<1>10. ~new => m = s.seg[g].text
  OBVIOUS
<1> HIDE DEF q, e1, e2, m
<1>11. PICK w \in Readings :
          /\ q \o opens \in Seq(Events) /\ Utters(n, u, q \o opens, w)
          /\ Elsewhere(u, w, g) /\ SameTools(u, w) /\ w.card[g] = "active" /\ w.running
          /\ w.saying[g] = m /\ w.thinking[g] = None /\ w.ids[g] = t.ids[g]
          /\ new => m \in w.seen
  <2>1. CASE new
    <3>1. Allowed(n, v, e1)
      BY <2>1, <1>5, <1>4, <1>6, <1>7, <1>8, <1>9 DEF Allowed, Speech, Quietly
    <3>2. PICK w : w = Reads(v, e1)
      OBVIOUS
    <3>3. w \in Readings /\ Elsewhere(v, w, g)
      BY <3>1, <3>2, <1>8, ReadsOn
    <3>4. Names(e1) = {m} /\ e1.type \notin Closings
      BY <1>8 DEF Names, Closings
    <3>8. NextMade(v, g) \in Names(e1)
      BY <3>4, <2>1, <1>6, <1>9
    <3>5. /\ w.card[g] = "active" /\ w.saying[g] = m /\ w.thinking[g] = None
          /\ w.ids[g] = s.ids[g] + 1 /\ m \in w.seen /\ SameTools(v, w)
      <4>1. /\ g \in Group => w.card[g] = v.card[g]
            /\ w.saying[g] = m /\ w.thinking[g] = v.thinking[g]
            /\ w.ids[g] = v.ids[g] + 1 /\ w.seen = v.seen \cup Names(e1)
            /\ \A c \in Calls : w.tool[c] = v.tool[c]
        BY <3>1, <3>2, <3>4, <3>8, <1>8, ReadsHere
      <4> QED
        BY <4>1, <3>4, <1>4, <1>5 DEF SameTools
    <3>6. q \o <<e1>> \in Seq(Events) /\ Utters(n, u, q \o <<e1>>, w)
      BY <3>1, <3>2, <1>4, UttersThen
    <3>7. Elsewhere(u, w, g) /\ SameTools(u, w) /\ w.running
      BY <3>3, <3>5, <1>5, ElsewhereOn DEF SameTools, Elsewhere
    <3> QED
      BY <2>1, <3>3, <3>5, <3>6, <3>7, <1>3
  <2>2. CASE ~new
    <3>1. q \o opens = q
      BY <2>2, <1>4
    <3> QED
      BY <2>2, <3>1, <1>2, <1>3, <1>4, <1>5, <1>10
  <2> QED
    BY <2>1, <2>2
<1>12. Allowed(n, w, e2)
  BY <1>7, <1>8, <1>11 DEF Allowed, Speech
<1>13. PICK z : z = Reads(w, e2)
  OBVIOUS
<1>14. /\ Hushes(w, z, g) /\ z.saying[g] = m /\ z.thinking[g] = None
  BY <1>8, <1>11, <1>12, <1>13, HushReads
<1>15. /\ (q \o opens) \o <<e2>> \in Seq(Events)
       /\ Utters(n, u, (q \o opens) \o <<e2>>, z)
  BY <1>11, <1>12, <1>13, UttersThen
<1>16. z \in Readings /\ Elsewhere(u, z, g) /\ SameTools(u, z) /\ w.seen \subseteq z.seen
  BY <1>11, <1>14, ElsewhereOn DEF Hushes, SameTools, Elsewhere
<1>17. Tracks(t, z, g)
  <2>1. t.seg[g].step # None => /\ t.seg[g].step \in z.seen
                                /\ \E k \in 1..t.ids[g] : t.seg[g].step = Made(g, k)
    <3>1. CASE new
      BY <3>1, <1>3, <1>6, <1>9, <1>11, <1>16
    <3>2. CASE ~new
      BY <3>2, <1>3, <1>16 DEF Tracks, Elsewhere
    <3> QED
      BY <3>1, <3>2
  <2> QED
    BY <2>1, <1>2, <1>3, <1>11, <1>14 DEF Tracks, Hushes
<1> QED
  BY <1>1, <1>2, <1>3, <1>15, <1>16, <1>17 DEF Voiced

\* So is reasoning.
LEMMA ReasoningUtters ==
  ASSUME NEW n \in Nat, NEW s \in Streams, NEW g \in Group, s.seg[g].open,
         NEW u \in Readings, u.running, Tracks(s, u, g)
  PROVE  \E w : Voiced(n, s, u, g, Reasoning(s, g).s, Reasoning(s, g).out, w) /\ SameTools(u, w)
<1> DEFINE new == s.seg[g].thought = None
           m == IF new THEN NextId(s, g) ELSE s.seg[g].thought
           e1 == E("reasoning_start", g, m, None)
           e2 == E("reasoning", g, m, None)
           opens == IF new THEN <<e1>> ELSE <<>>
           q == CloseText(s, g)
<1>1. Reasoning(s, g).out = (q \o opens) \o <<e2>>
  BY DEF Reasoning
<1>2. PICK t \in Streams :
         /\ t = Reasoning(s, g).s /\ Apart(s, t, g)
         /\ t.seg[g].open = s.seg[g].open /\ t.seg[g].text = None
         /\ t.seg[g].thought = IF s.seg[g].thought = None THEN NextId(s, g) ELSE s.seg[g].thought
         /\ t.seg[g].step = IF s.seg[g].thought = None THEN None ELSE s.seg[g].step
         /\ t.ids[g] = IF s.seg[g].thought = None THEN s.ids[g] + 1 ELSE s.ids[g]
  BY ReasoningStream
<1>3. /\ t.seg[g].thought = m
      /\ new => t.seg[g].step = None /\ t.ids[g] = s.ids[g] + 1
      /\ ~new => t.seg[g].step = s.seg[g].step /\ t.ids[g] = s.ids[g]
  BY <1>2
<1>4. PICK v \in Readings :
         /\ q \in Seq(Events) /\ Utters(n, u, q, v) /\ Hushes(u, v, g)
         /\ v.saying[g] = None /\ v.thinking[g] = u.thinking[g]
  BY TextCloses DEF Tracks, Hushes
<1>5. /\ v.running /\ v.card[g] = "active" /\ v.ids[g] = s.ids[g]
      /\ v.thinking[g] = s.seg[g].thought /\ Elsewhere(u, v, g) /\ SameTools(u, v)
  BY <1>4 DEF Tracks, Hushes, Elsewhere, SameTools
<1>6. /\ NextId(s, g) = NextMade(v, g) /\ NextId(s, g) = Made(g, s.ids[g] + 1)
      /\ NextId(s, g) # None /\ NextId(s, g) \in Ids /\ s.ids[g] \in Nat /\ g \in Scopes
  BY <1>5, NextNamed
<1>7. m \in Ids /\ m # None /\ g # Chat
  BY <1>6, StreamFields, SegmentFields, SubagentStreamAssumption
<1>8. /\ e1 \in Events /\ e1.type = "reasoning_start" /\ e1.scope = g /\ e1.id = m
      /\ e2 \in Events /\ e2.type = "reasoning" /\ e2.scope = g /\ e2.id = m
  <2>1. e1 \in Events /\ e2 \in Events
    BY <1>6, <1>7, NoneId, MadeEvents DEF Kinds, Quiet
  <2> QED
    BY <2>1 DEF E
<1>9. new => m = NextId(s, g)
  OBVIOUS
<1>10. ~new => m = s.seg[g].thought
  OBVIOUS
<1> HIDE DEF q, e1, e2, m
<1>11. PICK w \in Readings :
          /\ q \o opens \in Seq(Events) /\ Utters(n, u, q \o opens, w)
          /\ Elsewhere(u, w, g) /\ SameTools(u, w) /\ w.card[g] = "active" /\ w.running
          /\ w.thinking[g] = m /\ w.saying[g] = None /\ w.ids[g] = t.ids[g]
          /\ new => m \in w.seen
  <2>1. CASE new
    <3>1. Allowed(n, v, e1)
      BY <2>1, <1>5, <1>4, <1>6, <1>7, <1>8, <1>9 DEF Allowed, Speech, Quietly
    <3>2. PICK w : w = Reads(v, e1)
      OBVIOUS
    <3>3. w \in Readings /\ Elsewhere(v, w, g)
      BY <3>1, <3>2, <1>8, ReadsOn
    <3>4. Names(e1) = {m} /\ e1.type \notin Closings
      BY <1>8 DEF Names, Closings
    <3>8. NextMade(v, g) \in Names(e1)
      BY <3>4, <2>1, <1>6, <1>9
    <3>5. /\ w.card[g] = "active" /\ w.thinking[g] = m /\ w.saying[g] = None
          /\ w.ids[g] = s.ids[g] + 1 /\ m \in w.seen /\ SameTools(v, w)
      <4>1. /\ g \in Group => w.card[g] = v.card[g]
            /\ w.thinking[g] = m /\ w.saying[g] = v.saying[g]
            /\ w.ids[g] = v.ids[g] + 1 /\ w.seen = v.seen \cup Names(e1)
            /\ \A c \in Calls : w.tool[c] = v.tool[c]
        BY <3>1, <3>2, <3>4, <3>8, <1>8, ReadsHere
      <4> QED
        BY <4>1, <3>4, <1>4, <1>5 DEF SameTools
    <3>6. q \o <<e1>> \in Seq(Events) /\ Utters(n, u, q \o <<e1>>, w)
      BY <3>1, <3>2, <1>4, UttersThen
    <3>7. Elsewhere(u, w, g) /\ SameTools(u, w) /\ w.running
      BY <3>3, <3>5, <1>5, ElsewhereOn DEF SameTools, Elsewhere
    <3> QED
      BY <2>1, <3>3, <3>5, <3>6, <3>7, <1>3
  <2>2. CASE ~new
    <3>1. q \o opens = q
      BY <2>2, <1>4
    <3> QED
      BY <2>2, <3>1, <1>2, <1>3, <1>4, <1>5, <1>10
  <2> QED
    BY <2>1, <2>2
<1>12. Allowed(n, w, e2)
  BY <1>7, <1>8, <1>11 DEF Allowed, Speech
<1>13. PICK z : z = Reads(w, e2)
  OBVIOUS
<1>14. /\ Hushes(w, z, g) /\ z.thinking[g] = m /\ z.saying[g] = None
  BY <1>8, <1>11, <1>12, <1>13, HushReads
<1>15. /\ (q \o opens) \o <<e2>> \in Seq(Events)
       /\ Utters(n, u, (q \o opens) \o <<e2>>, z)
  BY <1>11, <1>12, <1>13, UttersThen
<1>16. z \in Readings /\ Elsewhere(u, z, g) /\ SameTools(u, z) /\ w.seen \subseteq z.seen
  BY <1>11, <1>14, ElsewhereOn DEF Hushes, SameTools, Elsewhere
<1>17. Tracks(t, z, g)
  <2>1. t.seg[g].step # None => /\ t.seg[g].step \in z.seen
                                /\ \E k \in 1..t.ids[g] : t.seg[g].step = Made(g, k)
    <3>1. CASE new
      BY <3>1, <1>3, <1>6, <1>9, <1>11, <1>16
    <3>2. CASE ~new
      BY <3>2, <1>3, <1>16 DEF Tracks, Elsewhere
    <3> QED
      BY <3>1, <3>2
  <2> QED
    BY <2>1, <1>2, <1>3, <1>11, <1>14 DEF Tracks, Hushes
<1> QED
  BY <1>1, <1>2, <1>3, <1>15, <1>16, <1>17 DEF Voiced

\* No call but c is touched.
OtherTools(u, w, c) == \A d \in Calls \ {c} : w.tool[d] = u.tool[d]

\* A call is announced in the step's message, or a new one.
LEMMA StartCallUtters ==
  ASSUME NEW n \in Nat, NEW s \in Streams, NEW g \in Group, s.seg[g].open,
         NEW u \in Readings, u.running, Tracks(s, u, g),
         NEW c \in Calls, s.seg[g].args[c] = "unsent", u.tool[c] = "none"
  PROVE  \E w : /\ Voiced(n, s, u, g, StartCall(s, g, c).s, StartCall(s, g, c).out, w)
                /\ OtherTools(u, w, c) /\ w.tool[c] = "open"
<1> DEFINE new == s.seg[g].step = None
           m == IF new THEN NextId(s, g) ELSE s.seg[g].step
           e == E("call_start", g, c, m)
           q == CloseThought(s, g) \o CloseText(s, g)
<1>1. StartCall(s, g, c).out = q \o <<e>>
  <2>1. StartCall(s, g, c).out = CloseThought(s, g) \o CloseText(s, g) \o <<e>>
    BY DEF StartCall
  <2> QED
    BY <2>1
<1>20. PICK t \in Streams : t = StartCall(s, g, c).s /\ CallJoins(s, t, g)
  BY StartCallStream
<1>2. /\ t \in Streams /\ t = StartCall(s, g, c).s /\ Apart(s, t, g)
      /\ t.seg[g].open = s.seg[g].open /\ t.seg[g].text = None /\ t.seg[g].thought = None
      /\ t.seg[g].step = IF s.seg[g].step = None THEN NextId(s, g) ELSE s.seg[g].step
      /\ t.ids[g] = IF s.seg[g].step = None THEN s.ids[g] + 1 ELSE s.ids[g]
  BY <1>20 DEF CallJoins
<1>3. /\ t.seg[g].step = m
      /\ new => m = NextId(s, g) /\ t.ids[g] = s.ids[g] + 1
      /\ ~new => m = s.seg[g].step /\ t.ids[g] = s.ids[g]
  BY <1>2
<1>4. PICK v \in Readings :
         /\ q \in Seq(Events) /\ Utters(n, u, q, v) /\ Hushes(u, v, g) /\ Quietly(v, g)
  BY SpeechCloses DEF Hushes
<1>5. /\ v.running /\ v.card[g] = "active" /\ v.ids[g] = s.ids[g] /\ u.seen \subseteq v.seen
      /\ Elsewhere(u, v, g) /\ SameTools(u, v) /\ v.tool[c] = "none"
  BY <1>4 DEF Tracks, Hushes, Elsewhere, SameTools
<1>6. /\ NextId(s, g) = NextMade(v, g) /\ NextId(s, g) = Made(g, s.ids[g] + 1)
      /\ NextId(s, g) # None /\ NextId(s, g) \in Ids /\ s.ids[g] \in Nat /\ g \in Scopes
  BY <1>5, NextNamed
<1>7. m \in Ids /\ g # Chat
  BY <1>3, <1>6, StreamFields, SegmentFields, SubagentStreamAssumption
<1>8. /\ e \in Events /\ e.type = "call_start" /\ e.scope = g /\ e.id = c /\ e.parent = m
  <2>1. c \in Ids /\ "call_start" \in Kinds
    BY DEF Ids, Kinds
  <2>2. e \in Events
    BY <2>1, <1>6, <1>7, MadeEvents
  <2> QED
    BY <2>2 DEF E
<1>9. ~new => /\ m \in v.seen /\ NextMade(v, g) # m
              /\ \E k \in 1..v.ids[g] : m = Made(g, k)
  <2>1. SUFFICES ASSUME ~new
                 PROVE  /\ m \in v.seen /\ NextMade(v, g) # m
                        /\ \E k \in 1..v.ids[g] : m = Made(g, k)
    OBVIOUS
  <2>2. m \in u.seen /\ \E k \in 1..s.ids[g] : m = Made(g, k)
    BY <2>1, <1>3 DEF Tracks
  <2>3. PICK k \in 1..s.ids[g] : m = Made(g, k)
    BY <2>2
  <2>4. Made(g, k) # Made(g, s.ids[g] + 1)
    BY <1>6 DEF Made
  <2> QED
    BY <2>2, <2>3, <2>4, <1>5, <1>6
<1> HIDE DEF q, e, m
<1>10. Names(e) = {m} /\ e.type \notin Closings
  BY <1>8 DEF Names, Closings
<1>11. Allowed(n, v, e)
  <2>1. m = NextMade(v, g) \/ \E k \in 1..v.ids[g] : m = Made(g, k) /\ m \in v.seen
    BY <1>3, <1>6, <1>9
  <2>2. CallAllowed(n, v, e)
    BY <2>1, <1>4, <1>5, <1>7, <1>8 DEF CallAllowed
  <2> QED
    BY <2>2, <1>4, <1>5, <1>8 DEF Allowed
<1>12. PICK w : w = Reads(v, e)
  OBVIOUS
<1>13. w \in Readings /\ Elsewhere(v, w, g)
  BY <1>11, <1>12, <1>8, ReadsOn
<1>14. /\ w.card[g] = v.card[g] /\ w.saying[g] = v.saying[g] /\ w.thinking[g] = v.thinking[g]
       /\ w.ids[g] = IF NextMade(v, g) \in Names(e) THEN v.ids[g] + 1 ELSE v.ids[g]
       /\ w.seen = v.seen \cup Names(e)
       /\ \A d \in Calls : w.tool[d] = IF d = c THEN "open" ELSE v.tool[d]
  BY <1>11, <1>12, <1>10, <1>8, ReadsHere
<1>15. q \o <<e>> \in Seq(Events) /\ Utters(n, u, q \o <<e>>, w)
  BY <1>11, <1>12, <1>4, UttersThen
<1>16. Elsewhere(u, w, g)
  BY <1>13, <1>5, ElsewhereOn
<1>17. w.ids[g] = t.ids[g] /\ m \in w.seen /\ \E k \in 1..t.ids[g] : m = Made(g, k)
  <2>1. CASE new
    <3>1. m = Made(g, s.ids[g] + 1) /\ t.ids[g] = s.ids[g] + 1 /\ NextMade(v, g) \in Names(e)
      BY <2>1, <1>3, <1>6, <1>10
    <3>2. s.ids[g] + 1 \in 1..t.ids[g]
      BY <3>1, <1>6
    <3> QED
      BY <3>1, <3>2, <1>5, <1>10, <1>14
  <2>2. CASE ~new
    BY <2>2, <1>3, <1>5, <1>9, <1>10, <1>14
  <2> QED
    BY <2>1, <2>2
<1>18. Tracks(t, w, g)
  BY <1>2, <1>3, <1>4, <1>5, <1>14, <1>17 DEF Tracks, Quietly
<1>19. OtherTools(u, w, c) /\ w.tool[c] = "open"
  BY <1>14, <1>5 DEF OtherTools, SameTools
<1> QED
  BY <1>1, <1>2, <1>13, <1>15, <1>16, <1>18, <1>19 DEF Voiced

\* What one operator makes of a stream, the next goes on with.
LEMMA VoicedSame ==
  ASSUME NEW n \in Nat, NEW s \in Streams, NEW g \in Group, NEW u \in Readings, Tracks(s, u, g)
  PROVE  Voiced(n, s, u, g, s, <<>>, u)
<1>1. Utters(n, u, <<>>, u) /\ <<>> \in Seq(Events)
  BY UttersEmpty
<1> QED
  BY <1>1 DEF Voiced, Elsewhere, Apart

\* One step of the stream after another.
LEMMA VoicedThen ==
  ASSUME NEW n \in Nat, NEW s, NEW g, NEW u, NEW t, NEW q, NEW v, Voiced(n, s, u, g, t, q, v),
         NEW z, NEW r, NEW w, Voiced(n, t, v, g, z, r, w)
  PROVE  Voiced(n, s, u, g, z, q \o r, w)
<1>1. q \in Seq(Events) /\ r \in Seq(Events) /\ Utters(n, u, q, v) /\ Utters(n, v, r, w)
  BY DEF Voiced
<1>2. Utters(n, u, q \o r, w) /\ q \o r \in Seq(Events)
  BY <1>1, UttersJoin
<1>3. Elsewhere(u, w, g)
  BY ElsewhereOn DEF Voiced
<1> QED
  BY <1>2, <1>3 DEF Voiced, Apart

\* One more event of the segment follows, by which no more is said of it than of calls.
LEMMA VoicedCall ==
  ASSUME NEW n \in Nat, NEW s \in Streams, NEW g \in Group, NEW u \in Readings,
         NEW t \in Streams, NEW q \in Seq(Events), NEW v \in Readings,
         Voiced(n, s, u, g, t, q, v), t.seg[g].open, v.running,
         NEW e \in Events, e.scope = g, e.type \in {"call_args", "call_end"},
         NEW c \in Calls, e.id = c, v.tool[c] = "open"
  PROVE  \E w \in Readings :
         /\ Voiced(n, s, u, g, t, q \o <<e>>, w)
         /\ OtherTools(v, w, c) /\ w.tool[c] = IF e.type = "call_end" THEN "ended" ELSE "open"
<1>2. v \in Readings /\ v.card[g] = "active"
  BY DEF Voiced, Tracks
<1>3. Allowed(n, v, e)
  BY <1>2 DEF Allowed, CallAllowed
<1>4. Names(e) = {} /\ e.type \notin Closings
  BY DEF Names, Closings
<1>5. PICK w \in Readings : w = Reads(v, e)
  BY <1>3, ReadsOn
<1>6. Elsewhere(v, w, g)
  BY <1>3, <1>5, ReadsOn
<1>7. /\ w.card[g] = v.card[g] /\ w.saying[g] = v.saying[g] /\ w.thinking[g] = v.thinking[g]
      /\ w.ids[g] = v.ids[g] /\ w.seen = v.seen
      /\ \A d \in Calls : w.tool[d] = IF d = c /\ e.type = "call_end" THEN "ended" ELSE v.tool[d]
  <2>5. e.type # "started" /\ NextMade(v, g) \notin Names(e) /\ v.seen \cup Names(e) = v.seen
    BY <1>4
  <2>1. /\ w.card[g] = v.card[g] /\ w.ids[g] = v.ids[g] /\ w.seen = v.seen
    <3>1. w.card[g] = v.card[g]
      BY <1>3, <1>4, <1>5, <2>5, ReadsHere
    <3>2. w.ids[g] = v.ids[g]
      BY <1>3, <1>5, <2>5, ReadsHere
    <3>3. w.seen = v.seen \cup Names(e)
      BY <1>3, <1>5, ReadsHere, Zenon
    <3> QED
      BY <2>5, <3>1, <3>2, <3>3
  <2>2. e.type \notin {"text_start", "text_end", "reasoning_start", "reasoning_end"}
    OBVIOUS
  <2>3. w.saying[g] = v.saying[g] /\ w.thinking[g] = v.thinking[g]
    BY <1>3, <1>5, <2>2, ReadsHere
  <2>4. \A d \in Calls : w.tool[d] = IF d = c /\ e.type = "call_end" THEN "ended" ELSE v.tool[d]
    BY <1>3, <1>5, ReadsHere
  <2> QED
    BY <2>1, <2>3, <2>4
<1>8. Utters(n, u, q \o <<e>>, w) /\ q \o <<e>> \in Seq(Events)
  BY <1>3, <1>5, UttersThen DEF Voiced
<1>9. Elsewhere(u, w, g)
  BY <1>6, ElsewhereOn DEF Voiced
<1>10. Tracks(t, w, g)
  BY <1>7 DEF Voiced, Tracks, Quietly
<1>11. Voiced(n, s, u, g, t, q \o <<e>>, w)
  BY <1>8, <1>9, <1>10 DEF Voiced
<1>12. OtherTools(v, w, c) /\ w.tool[c] = IF e.type = "call_end" THEN "ended" ELSE "open"
  BY <1>7 DEF OtherTools
<1> QED
  BY <1>11, <1>12

\* What is kept of the calls alone is not read.
Alike(t, z, g) ==
  /\ z \in Streams /\ Apart(t, z, g) /\ z.ids[g] = t.ids[g]
  /\ z.seg[g].open = t.seg[g].open /\ z.seg[g].text = t.seg[g].text
  /\ z.seg[g].thought = t.seg[g].thought /\ z.seg[g].step = t.seg[g].step

\* A stream alike in what is read is voiced alike.
LEMMA VoicedAlike ==
  ASSUME NEW n, NEW s, NEW g, NEW u, NEW t, NEW q, NEW w, Voiced(n, s, u, g, t, q, w),
         NEW z, Alike(t, z, g)
  PROVE  Voiced(n, s, u, g, z, q, w)
<1>1. Tracks(z, w, g)
  BY DEF Voiced, Alike, Tracks
<1> QED
  BY <1>1 DEF Voiced, Alike, Apart

\* These are such events.
LEMMA CallEvents ==
  ASSUME NEW g \in Group, NEW c \in Calls, NEW kind \in {"call_args", "call_end", "call_start"},
         NEW m \in Ids
  PROVE  \E e \in Events : /\ e = E(kind, g, c, m)
                           /\ e.scope = g /\ e.type = kind /\ e.id = c /\ e.parent = m
<1>1. c \in Ids /\ kind \in Kinds /\ g \in Scopes
  BY DEF Ids, Kinds, Quiet, Scopes
<1>2. E(kind, g, c, m) \in Events
  BY <1>1, MadeEvents
<1> QED
  BY <1>2 DEF E

\* A call is as far as its segment says.
Ready(s, u, g, c) == u.tool[c] = IF s.seg[g].args[c] = "unsent" THEN "none" ELSE "open"

\* A call that is not announced is.
LEMMA StartedUtters ==
  ASSUME NEW n \in Nat, NEW s \in Streams, NEW g \in Group, s.seg[g].open,
         NEW u \in Readings, u.running, Tracks(s, u, g), NEW c \in Calls, Ready(s, u, g, c)
  PROVE  \E w \in Readings :
         /\ Voiced(n, s, u, g, Started(s, g, c).s, Started(s, g, c).out, w)
         /\ OtherTools(u, w, c) /\ w.tool[c] = "open" /\ w.running
         /\ Started(s, g, c).s.seg[g].open
<1>1. CASE s.seg[g].args[c] = "unsent"
  <2>1. u.tool[c] = "none" /\ Started(s, g, c) = StartCall(s, g, c)
    BY <1>1 DEF Ready, Started
  <2>2. PICK w : /\ Voiced(n, s, u, g, StartCall(s, g, c).s, StartCall(s, g, c).out, w)
                 /\ OtherTools(u, w, c) /\ w.tool[c] = "open"
    BY <1>1, <2>1, StartCallUtters
  <2>3. w \in Readings /\ w.running
    BY <2>2 DEF Voiced, Elsewhere
  <2>4. StartCall(s, g, c).s.seg[g].open
    BY <1>1, StartCallStream DEF CallJoins
  <2> QED
    BY <2>1, <2>2, <2>3, <2>4
<1>2. CASE s.seg[g].args[c] # "unsent"
  <2>1. Started(s, g, c) = [s |-> s, out |-> <<>>]
    BY <1>2 DEF Started
  <2>2. Voiced(n, s, u, g, s, <<>>, u)
    BY VoicedSame
  <2> QED
    BY <1>2, <2>1, <2>2 DEF OtherTools, Ready
<1> QED
  BY <1>1, <1>2

\* Its arguments come.
LEMMA ToolInputUtters ==
  ASSUME NEW n \in Nat, NEW s \in Streams, NEW g \in Group, s.seg[g].open,
         NEW u \in Readings, u.running, Tracks(s, u, g), NEW c \in Calls, Ready(s, u, g, c),
         c \notin s.seg[g].ended \cup s.known, NEW written \in BOOLEAN
  PROVE  \E w \in Readings :
         /\ Voiced(n, s, u, g, ToolInput(s, g, c, written).s, ToolInput(s, g, c, written).out, w)
         /\ OtherTools(u, w, c)
<1>1. PICK v \in Readings :
         /\ Voiced(n, s, u, g, Started(s, g, c).s, Started(s, g, c).out, v)
         /\ OtherTools(u, v, c) /\ v.tool[c] = "open" /\ v.running
         /\ Started(s, g, c).s.seg[g].open
  BY StartedUtters
<1>2. PICK t \in Streams : t = Started(s, g, c).s
  BY <1>1 DEF Voiced
<1>3. PICK q \in Seq(Events) : q = Started(s, g, c).out
  BY <1>1 DEF Voiced
<1>4. CASE ~written
  <2>1. ToolInput(s, g, c, written) = Started(s, g, c)
    BY <1>4 DEF ToolInput
  <2> QED
    BY <1>1, <2>1
<1>5. CASE written
  <2>7. PICK e \in Events : /\ e = E("call_args", g, c, None)
                            /\ e.scope = g /\ e.type = "call_args" /\ e.id = c
    BY NoneId, CallEvents
  <2>1. PICK z : z = [t EXCEPT !.seg[g].args[c] = "sent"]
    OBVIOUS
  <2>2. ToolInput(s, g, c, written).s = z /\ ToolInput(s, g, c, written).out = Append(q, e)
    BY <1>2, <1>3, <1>5, <2>1, <2>7 DEF ToolInput
  <2>3. Append(q, e) = q \o <<e>>
    OBVIOUS
  <2>4. PICK w \in Readings : /\ Voiced(n, s, u, g, t, q \o <<e>>, w)
                              /\ OtherTools(v, w, c)
    <3>1. Voiced(n, s, u, g, t, q, v) /\ t.seg[g].open
      BY <1>1, <1>2, <1>3
    <3> QED
      BY <1>1, <2>7, <3>1, VoicedCall
  <2>5. Alike(t, z, g)
    <3>1. /\ \A h \in Group \ {g} : z.seg[h] = t.seg[h]
          /\ \A x \in Scopes : z.ids[x] = t.ids[x]
      BY <2>1 DEF Streams
    <3>2. /\ z.seg[g].open = t.seg[g].open /\ z.seg[g].text = t.seg[g].text
          /\ z.seg[g].thought = t.seg[g].thought /\ z.seg[g].step = t.seg[g].step
      BY <2>1 DEF Streams, Segments
    <3>3. z \in Streams
      <4>1. PICK b : b \in Boards
        BY SomeBoard
      <4>2. PICK y : Inputs({}, s, b, ToolInput(s, g, c, written), y, g, c)
        BY <4>1, ToolInputDoes
      <4> QED
        BY <4>2, <2>2 DEF Inputs
    <3> QED
      BY <3>1, <3>2, <3>3 DEF Alike, Apart, Scopes
  <2>6. Voiced(n, s, u, g, z, q \o <<e>>, w)
    BY <2>4, <2>5, VoicedAlike
  <2> QED
    BY <1>1, <2>2, <2>3, <2>4, <2>6 DEF OtherTools
<1> QED
  BY <1>4, <1>5

\* They are complete.
LEMMA ToolStartUtters ==
  ASSUME NEW n \in Nat, NEW s \in Streams, NEW g \in Group, s.seg[g].open,
         NEW u \in Readings, u.running, Tracks(s, u, g), NEW c \in Calls,
         c \notin s.seg[g].ended \cup s.known => Ready(s, u, g, c)
  PROVE  \E w \in Readings :
         /\ Voiced(n, s, u, g, ToolStart(s, g, c).s, ToolStart(s, g, c).out, w)
         /\ OtherTools(u, w, c)
<1>1. PICK z : z = ToolStart(s, g, c).s
  OBVIOUS
<1>2. z \in Streams
  <2>1. PICK b : b \in Boards
    BY SomeBoard
  <2>2. PICK y : y \in Streams /\ y = ToolStart(s, g, c).s
    BY <2>1, ToolStartDoes
  <2> QED
    BY <2>2, <1>1
<1>3. CASE c \in s.seg[g].ended
  <2>1. ToolStart(s, g, c) = [s |-> s, out |-> <<>>]
    BY <1>3 DEF ToolStart
  <2>2. Voiced(n, s, u, g, s, <<>>, u)
    BY VoicedSame
  <2> QED
    BY <2>1, <2>2 DEF OtherTools
<1>4. CASE c \notin s.seg[g].ended /\ c \in s.known
  <2>1. /\ z = [s EXCEPT !.seg[g].ended = @ \cup {c}, !.owner[c] = g]
        /\ ToolStart(s, g, c).out = <<>>
    BY <1>1, <1>4 DEF ToolStart
  <2>2. Voiced(n, s, u, g, s, <<>>, u)
    BY VoicedSame
  <2>3. Alike(s, z, g)
    <3>1. /\ \A h \in Group \ {g} : z.seg[h] = s.seg[h]
          /\ \A x \in Scopes : z.ids[x] = s.ids[x]
      BY <2>1 DEF Streams
    <3>2. /\ z.seg[g].open = s.seg[g].open /\ z.seg[g].text = s.seg[g].text
          /\ z.seg[g].thought = s.seg[g].thought /\ z.seg[g].step = s.seg[g].step
      BY <2>1 DEF Streams, Segments
    <3> QED
      BY <1>2, <3>1, <3>2 DEF Alike, Apart, Scopes
  <2>4. Voiced(n, s, u, g, z, <<>>, u)
    BY <2>2, <2>3, VoicedAlike
  <2> QED
    BY <1>1, <2>1, <2>4 DEF OtherTools
<1>5. CASE c \notin s.seg[g].ended /\ c \notin s.known
  <2>1. PICK v \in Readings :
           /\ Voiced(n, s, u, g, Started(s, g, c).s, Started(s, g, c).out, v)
           /\ OtherTools(u, v, c) /\ v.tool[c] = "open" /\ v.running
           /\ Started(s, g, c).s.seg[g].open
    BY <1>5, StartedUtters
  <2>2. PICK t \in Streams : t = Started(s, g, c).s
    BY <2>1 DEF Voiced
  <2>3. PICK q \in Seq(Events) : q = Started(s, g, c).out
    BY <2>1 DEF Voiced
  <2>4. PICK e1 \in Events : /\ e1 = E("call_args", g, c, None)
                             /\ e1.scope = g /\ e1.type = "call_args" /\ e1.id = c
    BY NoneId, CallEvents
  <2>5. PICK e2 \in Events : /\ e2 = E("call_end", g, c, None)
                             /\ e2.scope = g /\ e2.type = "call_end" /\ e2.id = c
    BY NoneId, CallEvents
  <2> DEFINE p == IF t.seg[g].args[c] = "empty" THEN <<e1>> ELSE <<>>
  <2>6. /\ z = [t EXCEPT !.seg[g].args[c] = "sent", !.seg[g].ended = @ \cup {c}]
        /\ ToolStart(s, g, c).out = q \o p \o <<e2>>
    BY <1>1, <1>5, <2>2, <2>3, <2>4, <2>5 DEF ToolStart
  <2>7. Voiced(n, s, u, g, t, q, v) /\ t.seg[g].open
    BY <2>1, <2>2, <2>3
  <2>8. PICK w \in Readings : /\ Voiced(n, s, u, g, t, q \o p, w) /\ OtherTools(u, w, c)
                              /\ w.tool[c] = "open"
    <3>1. CASE t.seg[g].args[c] = "empty"
      <4>1. PICK w \in Readings : /\ Voiced(n, s, u, g, t, q \o <<e1>>, w)
                                  /\ OtherTools(v, w, c) /\ w.tool[c] = "open"
        BY <2>1, <2>4, <2>7, VoicedCall
      <4> QED
        BY <3>1, <4>1, <2>1 DEF OtherTools
    <3>2. CASE t.seg[g].args[c] # "empty"
      <4>1. q \o p = q
        BY <3>2
      <4> QED
        BY <4>1, <2>1, <2>7
    <3> QED
      BY <3>1, <3>2
  <2>9. PICK r \in Seq(Events) : r = q \o p
    BY <2>8 DEF Voiced
  <2>10. Voiced(n, s, u, g, t, r, w) /\ w.running
    BY <2>8, <2>9 DEF Voiced, Elsewhere
  <2>11. PICK w2 \in Readings : /\ Voiced(n, s, u, g, t, r \o <<e2>>, w2)
                                /\ OtherTools(w, w2, c)
    BY <2>5, <2>7, <2>8, <2>10, VoicedCall
  <2>12. Alike(t, z, g)
    <3>1. /\ \A h \in Group \ {g} : z.seg[h] = t.seg[h]
          /\ \A x \in Scopes : z.ids[x] = t.ids[x]
      BY <2>6 DEF Streams
    <3>2. /\ z.seg[g].open = t.seg[g].open /\ z.seg[g].text = t.seg[g].text
          /\ z.seg[g].thought = t.seg[g].thought /\ z.seg[g].step = t.seg[g].step
      BY <2>6 DEF Streams, Segments
    <3> QED
      BY <1>2, <3>1, <3>2 DEF Alike, Apart, Scopes
  <2>13. Voiced(n, s, u, g, z, r \o <<e2>>, w2)
    BY <2>11, <2>12, VoicedAlike
  <2>14. OtherTools(u, w2, c) /\ ToolStart(s, g, c).out = r \o <<e2>>
    BY <2>6, <2>8, <2>9, <2>11 DEF OtherTools
  <2> QED
    BY <1>1, <2>13, <2>14
<1> QED
  BY <1>3, <1>4, <1>5

\* The result comes.
LEMMA ToolEndUtters ==
  ASSUME NEW n \in Nat, NEW s \in Streams, NEW g \in Group, s.seg[g].open,
         NEW u \in Readings, u.running, Tracks(s, u, g), NEW c \in Calls,
         c \in s.seg[g].ended, u.tool[c] = "ended"
  PROVE  \E w \in Readings :
         /\ Voiced(n, s, u, g, ToolEnd(s, g, c).s, ToolEnd(s, g, c).out, w)
         /\ OtherTools(u, w, c)
<1> DEFINE e == E("result", g, c, NextId(s, g))
<1>1. /\ NextId(s, g) = NextMade(u, g) /\ NextId(s, g) \in Ids /\ s.ids[g] \in Nat /\ g \in Scopes
      /\ g # Chat
  BY NextNamed, SubagentStreamAssumption DEF Tracks
<1>2. /\ e \in Events /\ e.type = "result" /\ e.scope = g /\ e.id = c /\ e.parent = NextMade(u, g)
  <2>1. c \in Ids /\ "result" \in Kinds
    BY DEF Ids, Kinds
  <2>2. e \in Events
    BY <2>1, <1>1, MadeEvents
  <2> QED
    BY <2>2, <1>1 DEF E
<1>3. PICK t : t = [s EXCEPT !.seg[g].step = None, !.ids[g] = s.ids[g] + 1]
  OBVIOUS
<1>4. ToolEnd(s, g, c).s = t /\ ToolEnd(s, g, c).out = <<e>>
  <2>1. ToolStart(s, g, c) = [s |-> s, out |-> <<>>]
    BY DEF ToolStart
  <2> QED
    BY <2>1, <1>3 DEF ToolEnd
<1>5. t \in Streams
  <2>1. PICK b : b \in Boards
    BY SomeBoard
  <2>2. PICK d : Answers({}, s, b, ToolEnd(s, g, c), d, g, c)
    BY <2>1, ToolEndDoes
  <2> QED
    BY <2>2, <1>4 DEF Answers
<1> HIDE DEF e
<1>6. /\ Apart(s, t, g) /\ t.ids[g] = s.ids[g] + 1
      /\ t.seg[g].open = s.seg[g].open /\ t.seg[g].text = s.seg[g].text
      /\ t.seg[g].thought = s.seg[g].thought /\ t.seg[g].step = None
  <2>1. /\ \A h \in Group \ {g} : t.seg[h] = s.seg[h]
        /\ \A x \in Scopes \ {g} : t.ids[x] = s.ids[x]
        /\ t.ids[g] = s.ids[g] + 1
    BY <1>3, <1>1 DEF Streams
  <2>2. /\ t.seg[g].open = s.seg[g].open /\ t.seg[g].text = s.seg[g].text
        /\ t.seg[g].thought = s.seg[g].thought /\ t.seg[g].step = None
    <3>1. t.seg[g] = [s.seg[g] EXCEPT !.step = None] /\ s.seg[g] \in Segments
      BY <1>3 DEF Streams
    <3>2. PICK i \in Segments : i = s.seg[g]
      BY <3>1
    <3>3. PICK j : j = [i EXCEPT !.step = None]
      OBVIOUS
    <3>4. j.open = i.open /\ j.text = i.text /\ j.thought = i.thought /\ j.step = None
      BY <3>3 DEF Segments
    <3>5. t.seg[g] = j
      BY <3>1, <3>2, <3>3
    <3> QED
      BY <3>2, <3>4, <3>5
  <2> QED
    BY <2>1, <2>2 DEF Apart
<1>7. Allowed(n, u, e)
  <2>1. CallAllowed(n, u, e)
    BY <1>1, <1>2 DEF CallAllowed
  <2> QED
    BY <2>1, <1>2 DEF Allowed, Tracks
<1>8. Names(e) = {e.parent} /\ e.type \notin Closings
  BY <1>2 DEF Names, Closings
<1>9. PICK w \in Readings : w = Reads(u, e)
  BY <1>7, ReadsOn
<1>10. Elsewhere(u, w, g)
  BY <1>2, <1>7, <1>9, ReadsOn
<1>11. /\ w.card[g] = u.card[g] /\ w.saying[g] = u.saying[g] /\ w.thinking[g] = u.thinking[g]
       /\ w.ids[g] = u.ids[g] + 1
       /\ \A d \in Calls \ {c} : w.tool[d] = u.tool[d]
  <2>1. NextMade(u, g) \in Names(e)
    BY <1>2, <1>8
  <2>2. w.ids[g] = u.ids[g] + 1
    BY <1>2, <1>7, <1>9, <2>1, ReadsHere
  <2>3. w.card[g] = u.card[g] /\ w.saying[g] = u.saying[g] /\ w.thinking[g] = u.thinking[g]
    BY <1>2, <1>7, <1>8, <1>9, ReadsHere
  <2>4. \A d \in Calls \ {c} : w.tool[d] = u.tool[d]
    BY <1>2, <1>7, <1>9, ReadsHere
  <2> QED
    BY <2>2, <2>3, <2>4
<1>12. Utters(n, u, <<e>>, w) /\ <<e>> \in Seq(Events)
  BY <1>2, <1>7, <1>9, UttersOne
<1>13. Tracks(t, w, g)
  BY <1>6, <1>11 DEF Tracks, Quietly
<1> QED
  BY <1>4, <1>5, <1>6, <1>10, <1>11, <1>12, <1>13 DEF Voiced, OtherTools

\* A card that opens or closes is one that begins or ends its segment.
LEMMA CardEvents ==
  ASSUME NEW g \in Group, NEW kind \in Kinds, kind \in Closings \cup {"started"},
         NEW p \in Group \cup {None}
  PROVE  \E e \in Events : /\ e = E(kind, g, None, p)
                           /\ e.scope = g /\ e.type = kind /\ e.id = None /\ Names(e) = {}
<1>1. /\ p \in Ids /\ None \in Ids /\ g \in Scopes /\ kind \in Kinds
      /\ kind \notin {"text_start", "reasoning_start", "call_start", "result"}
  BY NoneId DEF Ids, Kinds, Scopes, Closings
<1>2. E(kind, g, None, p) \in Events
  BY <1>1, MadeEvents
<1>3. PICK e \in Events : e = E(kind, g, None, p)
  BY <1>2
<1>4. e.scope = g /\ e.type = kind /\ e.id = None
  BY <1>3 DEF E
<1>5. Names(e) = {}
  BY <1>1, <1>4 DEF Names
<1> QED
  BY <1>3, <1>4, <1>5

\* A segment that begins,
LEMMA BeginUtters ==
  ASSUME NEW n \in Nat, NEW s \in Streams, NEW g \in Group,
         NEW u \in Readings, u.running, Tracks(s, u, g), NEW delegation \in Calls \cup {None}
  PROVE  \E w \in Readings :
         /\ Voiced(n, s, u, g, Begin(s, g, delegation).s, Begin(s, g, delegation).out, w)
         /\ SameTools(u, w) /\ Begin(s, g, delegation).s.seg[g].open
<1>1. CASE s.seg[g].open
  <2>1. Begin(s, g, delegation) = [s |-> s, out |-> <<>>]
    BY <1>1 DEF Begin
  <2>2. Voiced(n, s, u, g, s, <<>>, u)
    BY VoicedSame
  <2> QED
    BY <1>1, <2>1, <2>2 DEF SameTools
<1>2. CASE ~s.seg[g].open
  <2> DEFINE parent == IF g \in Range(s.begun) THEN s.seg[g].parent
                       ELSE IF delegation = None THEN None ELSE s.owner[delegation]
             begun == IF g \in Range(s.begun) THEN s.begun ELSE Append(s.begun, g)
             p == Under(s, g, delegation)
  <2>1. g \in Scopes /\ p \in Group \cup {None}
    BY StreamFields, SegmentFields DEF Scopes, Under
  <2>2. PICK t : t = [s EXCEPT !.seg[g].open = TRUE, !.seg[g].parent = parent, !.begun = begun]
    OBVIOUS
  <2>3. PICK e \in Events : /\ e = E("started", g, None, p)
                            /\ e.scope = g /\ e.type = "started" /\ e.id = None /\ Names(e) = {}
    <3> HIDE DEF p
    <3>1. PICK r \in Group \cup {None} : r = p
      BY <2>1
    <3>2. PICK kind \in Kinds : kind = "started"
      BY DEF Kinds
    <3>3. PICK e \in Events : /\ e = E(kind, g, None, r)
                              /\ e.scope = g /\ e.type = kind /\ e.id = None /\ Names(e) = {}
      BY <3>2, CardEvents
    <3> QED
      BY <3>1, <3>2, <3>3
  <2>4. Begin(s, g, delegation).s = t /\ Begin(s, g, delegation).out = <<e>>
    BY <1>2, <2>2, <2>3 DEF Begin, Under
  <2>5. t \in Streams
    <3>1. PICK b : b \in Boards
      BY SomeBoard
    <3>2. PICK y : y \in Streams /\ y = Begin(s, g, delegation).s
      BY <3>1, BeginDoes
    <3> QED
      BY <3>2, <2>4
  <2> HIDE DEF parent, begun, p
  <2>6. /\ Apart(s, t, g) /\ t.ids[g] = s.ids[g]
        /\ t.seg[g].open = TRUE /\ t.seg[g].text = s.seg[g].text
        /\ t.seg[g].thought = s.seg[g].thought /\ t.seg[g].step = s.seg[g].step
    <3>1. /\ \A h \in Group \ {g} : t.seg[h] = s.seg[h]
          /\ \A x \in Scopes : t.ids[x] = s.ids[x]
      BY <2>2 DEF Streams
    <3>2. /\ t.seg[g].open = TRUE /\ t.seg[g].text = s.seg[g].text
          /\ t.seg[g].thought = s.seg[g].thought /\ t.seg[g].step = s.seg[g].step
      BY <2>2 DEF Streams, Segments
    <3> QED
      BY <2>1, <3>1, <3>2 DEF Apart
  <2>7. Allowed(n, u, e)
    BY <1>2, <2>3 DEF Allowed, Tracks
  <2>8. PICK w \in Readings : w = Reads(u, e)
    BY <2>7, ReadsOn
  <2>9. Elsewhere(u, w, g)
    BY <2>3, <2>7, <2>8, ReadsOn
  <2>10. /\ w.card[g] = "active" /\ w.saying[g] = u.saying[g] /\ w.thinking[g] = u.thinking[g]
         /\ w.ids[g] = u.ids[g] /\ w.seen = u.seen /\ SameTools(u, w)
    <3>1. NextMade(u, g) \notin Names(e) /\ u.seen \cup Names(e) = u.seen
      BY <2>3
    <3>5. w.ids[g] = u.ids[g]
      BY <2>3, <2>7, <2>8, <3>1, ReadsHere
    <3>7. w.seen = u.seen \cup Names(e)
      BY <2>3, <2>7, <2>8, ReadsHere
    <3>6. w.seen = u.seen
      BY <3>1, <3>7
    <3>2. w.ids[g] = u.ids[g] /\ w.seen = u.seen
      BY <3>5, <3>6
    <3>3. w.card[g] = "active" /\ w.saying[g] = u.saying[g] /\ w.thinking[g] = u.thinking[g]
      BY <2>3, <2>7, <2>8, ReadsHere
    <3>4. \A d \in Calls : w.tool[d] = u.tool[d]
      BY <2>3, <2>7, <2>8, ReadsHere
    <3> QED
      BY <3>2, <3>3, <3>4 DEF SameTools
  <2>11. Utters(n, u, <<e>>, w) /\ <<e>> \in Seq(Events)
    BY <2>3, <2>7, <2>8, UttersOne
  <2>12. Tracks(t, w, g)
    BY <2>6, <2>10 DEF Tracks, Quietly
  <2> QED
    BY <2>4, <2>5, <2>6, <2>9, <2>10, <2>11, <2>12 DEF Voiced
<1> QED
  BY <1>1, <1>2

\* The segment g is over.
Ended(u, w, g, how) ==
  /\ w \in Readings /\ Elsewhere(u, w, g) /\ SameTools(u, w)
  /\ w.card[g] = how /\ Quietly(w, g) /\ w.ids[g] = u.ids[g]

\* and one that ends.
LEMMA EndReads ==
  ASSUME NEW n \in Nat, NEW s \in Streams, NEW g \in Group, s.seg[g].open,
         NEW u \in Readings, u.running, Tracks(s, u, g), NEW how \in Closings
  PROVE  /\ End(s, g, how).out \in Seq(Events)
         /\ \E w : Utters(n, u, End(s, g, how).out, w) /\ Ended(u, w, g, how)
<1>1. PICK q \in Seq(Events) : q = CloseThought(s, g) \o CloseText(s, g)
  BY SpeechCloses
<1>2. PICK v \in Readings : Utters(n, u, q, v) /\ Hushes(u, v, g) /\ Quietly(v, g)
  BY <1>1, SpeechCloses DEF Hushes
<1>3. PICK e \in Events : /\ e = E(how, g, None, None)
                          /\ e.scope = g /\ e.type = how /\ e.id = None /\ Names(e) = {}
  <2>1. how \in Kinds /\ None \in Group \cup {None}
    BY DEF Kinds
  <2> QED
    BY <2>1, CardEvents
<1>4. End(s, g, how).out = q \o <<e>>
  BY <1>1, <1>3 DEF End
<1>5. v.running /\ v.card[g] = "active" /\ Elsewhere(u, v, g) /\ SameTools(u, v)
  BY <1>2 DEF Hushes, Tracks, Elsewhere, SameTools
<1>6. Allowed(n, v, e)
  BY <1>2, <1>3, <1>5 DEF Allowed
<1>7. PICK w \in Readings : w = Reads(v, e)
  BY <1>6, ReadsOn
<1>8. e.type \notin {"run_started", "run_finished", "started", "text_start", "text_end",
                     "reasoning_start", "reasoning_end", "call_start", "call_end", "result"}
  BY <1>3 DEF Closings
<1>9. Elsewhere(v, w, g)
  BY <1>3, <1>6, <1>7, <1>8, ReadsOn
<1>10. /\ w.card[g] = how /\ w.saying[g] = v.saying[g] /\ w.thinking[g] = v.thinking[g]
       /\ w.ids[g] = v.ids[g] /\ SameTools(v, w)
  <2>1. NextMade(v, g) \notin Names(e)
    BY <1>3
  <2>2. w.ids[g] = v.ids[g]
    BY <1>3, <1>6, <1>7, <2>1, ReadsHere
  <2>3. w.card[g] = how
    BY <1>3, <1>6, <1>7, <1>8, ReadsHere
  <2>4. w.saying[g] = v.saying[g] /\ w.thinking[g] = v.thinking[g]
    BY <1>3, <1>6, <1>7, <1>8, ReadsHere
  <2>5. \A d \in Calls : w.tool[d] = v.tool[d]
    BY <1>3, <1>6, <1>7, <1>8, ReadsHere
  <2> QED
    BY <2>2, <2>3, <2>4, <2>5 DEF SameTools
<1>11. q \o <<e>> \in Seq(Events) /\ Utters(n, u, q \o <<e>>, w)
  BY <1>2, <1>6, <1>7, UttersThen
<1>12. Ended(u, w, g, how)
  <2>1. Elsewhere(u, w, g)
    BY <1>5, <1>9, ElsewhereOn
  <2> QED
    BY <2>1, <1>2, <1>5, <1>10 DEF Ended, SameTools, Quietly, Hushes
<1> QED
  BY <1>4, <1>11, <1>12

\* The end of a segment is said.
LEMMA EndUtters ==
  ASSUME NEW n \in Nat, NEW s \in Streams, NEW g \in Group,
         NEW u \in Readings, u.running, Tracks(s, u, g), NEW how \in Closings
  PROVE  \E w \in Readings :
         Voiced(n, s, u, g, End(s, g, how).s, End(s, g, how).out, w) /\ SameTools(u, w)
<1>1. CASE ~s.seg[g].open
  <2>1. End(s, g, how) = [s |-> s, out |-> <<>>]
    BY <1>1 DEF End
  <2>2. Voiced(n, s, u, g, s, <<>>, u)
    BY VoicedSame
  <2> QED
    BY <2>1, <2>2 DEF SameTools
<1>2. CASE s.seg[g].open
  <2>1. PICK t : /\ t = End(s, g, how).s
                 /\ t = [s EXCEPT !.seg[g].open = FALSE, !.seg[g].text = None,
                                  !.seg[g].thought = None]
    BY <1>2 DEF End
  <2>2. t \in Streams
    <3>1. PICK b \in Boards :
            \A h \in Group : b.card[h] = "active" /\ b.parent[h] = g => h \in Group
      BY SomeBoard
    <3>2. PICK y : y \in Streams /\ y = End(s, g, how).s
      BY <3>1, EndDoes
    <3> QED
      BY <3>2, <2>1
  <2>3. /\ Apart(s, t, g) /\ t.ids[g] = s.ids[g]
        /\ t.seg[g].open = FALSE /\ t.seg[g].text = None
        /\ t.seg[g].thought = None /\ t.seg[g].step = s.seg[g].step
    <3>1. /\ \A h \in Group \ {g} : t.seg[h] = s.seg[h]
          /\ \A x \in Scopes : t.ids[x] = s.ids[x]
      BY <2>1 DEF Streams
    <3>2. /\ t.seg[g].open = FALSE /\ t.seg[g].text = None
          /\ t.seg[g].thought = None /\ t.seg[g].step = s.seg[g].step
      BY <2>1 DEF Streams, Segments
    <3> QED
      BY <3>1, <3>2 DEF Apart, Scopes
  <2>4. /\ End(s, g, how).out \in Seq(Events)
        /\ \E w : Utters(n, u, End(s, g, how).out, w) /\ Ended(u, w, g, how)
    BY <1>2, EndReads
  <2>5. PICK w \in Readings : Utters(n, u, End(s, g, how).out, w) /\ Ended(u, w, g, how)
    BY <2>4 DEF Ended
  <2>6. how # "active"
    BY DEF Closings
  <2>7. Tracks(t, w, g)
    BY <2>3, <2>5, <2>6 DEF Tracks, Ended, Quietly, Elsewhere
  <2> QED
    BY <2>1, <2>2, <2>3, <2>4, <2>5, <2>7 DEF Voiced, Ended
<1> QED
  BY <1>1, <1>2

-----------------------------------------------------------------------------
(* What closing what is open utters.                                       *)

\* The calls that the segment g has announced and not ended; each is one segment's.
Unfinished(s, g, f) == s.seg[g].args[f] # "unsent" /\ f \notin s.seg[g].ended
OwnedOnce(s) ==
  \A g, h \in Group, f \in Calls : Unfinished(s, g, f) /\ Unfinished(s, h, f) => g = h

\* They are listed once.
LEMMA UnendedOnce ==
  ASSUME NEW s, NEW g
  PROVE  LET l == Unended(s, g)
         IN /\ l \in Seq(Calls) /\ \A i \in 1..Len(l) : Unfinished(s, g, l[i])
            /\ \A i, j \in 1..Len(l) : l[i] = l[j] => i = j
<1> DEFINE S == {c \in Calls : s.seg[g].args[c] # "unsent" /\ c \notin s.seg[g].ended}
<1>1. IsFiniteSet(S)
  BY FiniteCalls, FS_Subset, S \subseteq Calls, Zenon
<1>2. \A c \in S : c \in Calls /\ Unfinished(s, g, c)
  BY DEF Unfinished
<1>3. Unended(s, g) = SetToSeq(S)
  BY DEF Unended
<1> HIDE DEF S
<1>4. Cardinality(S) \in Nat /\ ExistsBijection(1..Cardinality(S), S)
  BY <1>1, FS_CardinalityType
<1>5. PICK n \in Nat : n = Cardinality(S)
  BY <1>4
<1>6. PICK f \in [1..n -> S] : IsInjective(f)
  BY <1>4, <1>5 DEF ExistsBijection, Bijection, Injection
<1>7. SetToSeq(S) \in [1..n -> S] /\ IsInjective(SetToSeq(S))
  BY <1>5, <1>6, Zenon DEF SetToSeq
<1>8. PICK l \in [1..n -> S] : l = Unended(s, g) /\ IsInjective(l)
  BY <1>3, <1>7
<1>9. l \in Seq(Calls) /\ Len(l) = n /\ \A i \in 1..n : l[i] \in S
  BY <1>2, <1>8
<1>10. \A i, j \in 1..n : l[i] = l[j] => i = j
  BY <1>8 DEF IsInjective
<1> QED
  BY <1>2, <1>8, <1>9, <1>10

\* A segment's calls are ended.
LEMMA CallEndsUtter ==
  ASSUME NEW n \in Nat, NEW s \in Streams, NEW g \in Group, s.seg[g].open,
         NEW u \in Readings, u.running, Tracks(s, u, g),
         \A f \in Calls : Unfinished(s, g, f) => u.tool[f] = "open"
  PROVE  /\ CallEnds(s, g) \in Seq(Events)
         /\ \E w \in Readings :
              /\ Utters(n, u, CallEnds(s, g), w) /\ Elsewhere(u, w, g) /\ Tracks(s, w, g)
              /\ \A f \in Calls : ~Unfinished(s, g, f) => w.tool[f] = u.tool[f]
<1> DEFINE l == Unended(s, g)
           q == CallEnds(s, g)
           tool(i) == [f \in Calls |-> IF \E k \in 1..i : l[k] = f THEN "ended" ELSE u.tool[f]]
           at(i) == [running |-> u.running, card |-> u.card, tool |-> tool(i),
                     saying |-> u.saying, thinking |-> u.thinking, ids |-> u.ids,
                     seen |-> u.seen]
           t == [i \in 0..Len(l) |-> at(i)]
<1>1. /\ l \in Seq(Calls) /\ \A i \in 1..Len(l) : Unfinished(s, g, l[i])
      /\ \A i, j \in 1..Len(l) : l[i] = l[j] => i = j
  BY UnendedOnce
<1>2. q = [k \in 1..Len(l) |-> E("call_end", g, l[k], None)]
  BY DEF CallEnds
<1> HIDE DEF l, q
<1>3. PICK m \in Nat : m = Len(l)
  BY <1>1
<1>4. ASSUME NEW i \in 1..m
      PROVE  /\ l[i] \in Calls /\ u.tool[l[i]] = "open" /\ q[i] \in Events
             /\ q[i].type = "call_end" /\ q[i].scope = g /\ q[i].id = l[i]
  <2>1. l[i] \in Calls /\ u.tool[l[i]] = "open" /\ q[i] = E("call_end", g, l[i], None)
    BY <1>1, <1>2, <1>3
  <2>2. l[i] \in Ids /\ g \in Scopes /\ "call_end" \in Kinds
    BY <2>1 DEF Ids, Scopes, Kinds
  <2>3. q[i] \in Events
    BY <2>1, <2>2, NoneId, MadeEvents
  <2> QED
    BY <2>1, <2>3 DEF E
<1>5. q \in Seq(Events) /\ Len(q) = m
  <2>1. q \in [1..m -> Events]
    BY <1>2, <1>3, <1>4
  <2> QED
    BY <2>1
<1>6. /\ u.running \in BOOLEAN /\ u.card \in [Group -> Cards] /\ u.tool \in [Calls -> Tools]
      /\ u.saying \in [Scopes -> Ids] /\ u.thinking \in [Scopes -> Ids]
      /\ u.ids \in [Scopes -> Nat] /\ u.seen \subseteq Ids
  BY ReadingFields
<1>7. ASSUME NEW i \in 0..m
      PROVE  at(i) \in Readings
  <2>1. tool(i) \in [Calls -> Tools]
    BY <1>6 DEF Tools
  <2> HIDE DEF tool
  <2> QED
    BY <1>6, <2>1 DEF Readings
<1>8. at(0) = u
  <2>1. tool(0) = u.tool
    BY <1>6
  <2> HIDE DEF tool
  <2> QED
    BY <2>1 DEF Readings
<1>9. ASSUME NEW i \in 1..m
      PROVE  Allowed(n, at(i - 1), q[i]) /\ at(i) = Reads(at(i - 1), q[i])
  <2> DEFINE e == q[i]
  <2>1. i - 1 \in 0..m /\ i \in 0..m
    BY <1>3
  <2>2. tool(i - 1)[l[i]] = "open"
    <3>1. \A k \in 1..(i - 1) : l[k] # l[i]
      BY <1>1, <1>3, <1>4
    <3> QED
      BY <3>1, <1>4
  <2>3. tool(i) = [tool(i - 1) EXCEPT ![l[i]] = "ended"]
    <3>1. \A f : (\E k \in 1..i : l[k] = f) <=> (\E k \in 1..(i - 1) : l[k] = f) \/ f = l[i]
      BY <2>1
    <3>2. \A f \in Calls : tool(i)[f] = [tool(i - 1) EXCEPT ![l[i]] = "ended"][f]
      BY <1>4, <3>1
    <3> QED
      BY <3>2
  <2>4. at(i - 1) \in Readings
    BY <1>7, <2>1
  <2>5. /\ e \in Events /\ e.type = "call_end" /\ e.scope = g /\ e.id = l[i] /\ l[i] \in Calls
    BY <1>4
  <2> HIDE DEF tool, e
  <2>6. Allowed(n, at(i - 1), e)
    <3>1. /\ at(i - 1).running /\ at(i - 1).card[g] = "active" /\ at(i - 1).tool[l[i]] = "open"
      BY <2>2 DEF Tracks
    <3> HIDE DEF at
    <3> QED
      BY <2>4, <2>5, <3>1 DEF Allowed, CallAllowed
  <2>7. at(i) = Reads(at(i - 1), e)
    <3>1. /\ NextMade(at(i - 1), g) \notin Names(e) /\ u.seen \cup Names(e) = u.seen
          /\ e.type \notin Closings
      BY <2>5 DEF Names, Closings
    <3>2. NextMade(at(i - 1), e.scope) \notin Names(e)
      BY <2>5, <3>1
    <3>3. u.running = (e.type = "run_started" \/ (u.running /\ e.type # "run_finished"))
      BY <1>6, <2>5
    <3> HIDE DEF NextMade
    <3> QED
      BY <2>3, <2>5, <3>1, <3>2, <3>3 DEF Reads
  <2> QED
    BY <2>6, <2>7 DEF e
<1>10. Utters(n, u, q, at(m))
  <2>1. /\ t[0] = u /\ t[m] = at(m)
        /\ \A i \in 1..m : t[i - 1] = at(i - 1) /\ t[i] = at(i)
    BY <1>3, <1>8
  <2> HIDE DEF t, at
  <2>2. \A i \in 1..Len(q) : Allowed(n, t[i - 1], q[i]) /\ t[i] = Reads(t[i - 1], q[i])
    BY <1>5, <1>9, <2>1
  <2> QED
    BY <1>5, <2>1, <2>2 DEF Utters
<1>11. /\ Elsewhere(u, at(m), g) /\ Tracks(s, at(m), g)
       /\ \A f \in Calls : ~Unfinished(s, g, f) => at(m).tool[f] = u.tool[f]
  BY <1>1, <1>3 DEF Elsewhere, Tracks, Quietly
<1>12. at(m) \in Readings
  BY <1>7
<1> HIDE DEF at
<1> QED
  BY <1>5, <1>10, <1>11, <1>12 DEF q

\* Of the stream s, the segments at the positions T are closed in the reading w.
Shut(s, w, T) ==
  /\ w \in Readings /\ w.running /\ Quietly(w, Chat) /\ \A x \in Scopes : w.ids[x] = s.ids[x]
  /\ \A g \in Group :
       IF s.seg[g].open /\ \E i \in T : s.begun[i] = g
       THEN w.card[g] # "active" /\ Quietly(w, g)
       ELSE Tracks(s, w, g) /\ \A f \in Calls : Unfinished(s, g, f) => w.tool[f] = "open"

\* One more is closed.
LEMMA AddsUtters ==
  ASSUME NEW n \in Nat, NEW s \in Streams, OwnedOnce(s), NEW how \in Closings, NEW u,
         \A i, j \in DOMAIN s.begun : s.begun[i] = s.begun[j] => i = j,
         NEW k \in DOMAIN s.begun, NEW T, T = (k + 1)..Len(s.begun),
         NEW w \in Readings, Shut(s, w, T), NEW q \in Seq(Events), Utters(n, u, q, w)
  PROVE  /\ Adds(q, s, s.begun[k], how) \in Seq(Events)
         /\ \E z \in Readings : /\ Utters(n, u, Adds(q, s, s.begun[k], how), z)
                                /\ Shut(s, z, T \cup {k})
<1>1. PICK g \in Group : g = s.begun[k]
  BY StreamFields
<1>2. CASE ~s.seg[g].open
  <2>1. Adds(q, s, g, how) = q
    BY <1>2 DEF Adds
  <2>2. Shut(s, w, T \cup {k})
    <3>1. ASSUME NEW h \in Group
          PROVE  (s.seg[h].open /\ \E i \in T \cup {k} : s.begun[i] = h)
                   <=> (s.seg[h].open /\ \E i \in T : s.begun[i] = h)
      BY <1>1, <1>2
    <3> QED
      BY <3>1, Zenon DEF Shut
  <2> QED
    BY <1>1, <2>1, <2>2
<1>3. CASE s.seg[g].open
  <2>1. \A i \in T : s.begun[i] # g
    <3>1. \A i \in T : i \in DOMAIN s.begun /\ i # k
      BY StreamFields
    <3> QED
      BY <1>1, <3>1
  <2>2. /\ Tracks(s, w, g) /\ \A f \in Calls : Unfinished(s, g, f) => w.tool[f] = "open"
        /\ w.running
    BY <2>1 DEF Shut
  <2>3. PICK p \in Seq(Events) : p = CallEnds(s, g)
    BY <1>3, <2>2, CallEndsUtter
  <2>4. PICK v \in Readings :
              /\ Utters(n, w, p, v) /\ Elsewhere(w, v, g) /\ Tracks(s, v, g)
              /\ \A f \in Calls : ~Unfinished(s, g, f) => v.tool[f] = w.tool[f]
    BY <1>3, <2>2, <2>3, CallEndsUtter
  <2>5. v.running
    BY <2>2, <2>4 DEF Elsewhere
  <2>6. PICK r \in Seq(Events) : r = End(s, g, how).out
    BY <1>3, <2>4, <2>5, EndReads
  <2>7. PICK z \in Readings : Utters(n, v, r, z) /\ Ended(v, z, g, how)
    BY <1>3, <2>4, <2>5, <2>6, EndReads DEF Ended
  <2>8. q \o p \in Seq(Events) /\ Utters(n, u, q \o p, v)
    BY <2>4, UttersJoin
  <2>9. PICK o \in Seq(Events) : o = q \o p
    BY <2>8
  <2>10. o \o r \in Seq(Events) /\ Utters(n, u, o \o r, z)
    <3>1. Utters(n, u, o, v)
      BY <2>8, <2>9
    <3> QED
      BY <2>7, <3>1, UttersJoin
  <2>11. Adds(q, s, g, how) = o \o r
    BY <1>3, <2>3, <2>6, <2>9 DEF Adds
  <2>12. Elsewhere(w, z, g) /\ how # "active"
    BY <2>4, <2>7, ElsewhereOn DEF Ended, Closings
  <2>13. /\ z.running /\ Quietly(z, Chat) /\ \A x \in Scopes : z.ids[x] = s.ids[x]
    <3>1. Chat # g /\ Chat \in Scopes
      BY SubagentStreamAssumption DEF Scopes
    <3>2. z.ids[g] = s.ids[g]
      BY <2>4, <2>7 DEF Ended, Tracks
    <3>3. z.running /\ Quietly(z, Chat)
      BY <2>12, <3>1 DEF Shut, Elsewhere, Quietly
    <3> QED
      BY <2>12, <3>2, <3>3 DEF Shut, Elsewhere
  <2>14. ASSUME NEW h \in Group
         PROVE  IF s.seg[h].open /\ \E i \in T \cup {k} : s.begun[i] = h
                THEN z.card[h] # "active" /\ Quietly(z, h)
                ELSE Tracks(s, z, h) /\ \A f \in Calls : Unfinished(s, h, f) => z.tool[f] = "open"
    <3>1. CASE h = g
      BY <1>1, <1>3, <2>7, <2>12, <3>1 DEF Ended
    <3>2. CASE h # g
      <4>1. /\ z.card[h] = w.card[h] /\ z.saying[h] = w.saying[h]
            /\ z.thinking[h] = w.thinking[h] /\ z.ids[h] = w.ids[h] /\ w.seen \subseteq z.seen
        BY <2>12, <3>2 DEF Elsewhere, Scopes
      <4>2. (\E i \in T \cup {k} : s.begun[i] = h) <=> \E i \in T : s.begun[i] = h
        BY <1>1, <3>2
      <4>3. CASE s.seg[h].open /\ \E i \in T : s.begun[i] = h
        BY <4>1, <4>2, <4>3 DEF Shut, Quietly
      <4>4. CASE ~(s.seg[h].open /\ \E i \in T : s.begun[i] = h)
        <5>1. Tracks(s, w, h) /\ \A f \in Calls : Unfinished(s, h, f) => w.tool[f] = "open"
          BY <4>4 DEF Shut
        <5>2. Tracks(s, z, h)
          BY <4>1, <5>1 DEF Tracks, Quietly
        <5>3. ASSUME NEW f \in Calls, Unfinished(s, h, f)
              PROVE  z.tool[f] = "open"
          <6>1. ~Unfinished(s, g, f)
            BY <3>2, <5>3 DEF OwnedOnce
          <6> QED
            BY <2>4, <2>7, <5>1, <5>3, <6>1 DEF Ended, SameTools
        <5> QED
          BY <4>2, <4>4, <5>2, <5>3
      <4> QED
        BY <4>3, <4>4
    <3> QED
      BY <3>1, <3>2
  <2>15. Shut(s, z, T \cup {k})
    BY <2>13, <2>14 DEF Shut
  <2> QED
    BY <1>1, <2>10, <2>11, <2>15
<1> QED
  BY <1>2, <1>3

\* What a stream leaves open is closed, and all is quiet.
Rests(s, w) ==
  /\ w \in Readings /\ w.running /\ \A x \in Scopes : w.ids[x] = s.ids[x] /\ Quietly(w, x)
  /\ \A g \in Group : w.card[g] # "active"

\* Close says the end of every call and segment left open, and of nothing else.
LEMMA CloseUtters ==
  ASSUME NEW n \in Nat, NEW s \in Streams, OwnedOnce(s), NEW b, Tree(s, b),
         NEW u \in Readings, Follows(s, u), NEW suspended \in BOOLEAN,
         \A g \in Group, f \in Calls : Unfinished(s, g, f) => u.tool[f] = "open"
  PROVE  /\ Close(s, suspended) \in Seq(Events)
         /\ \E w \in Readings : Utters(n, u, Close(s, suspended), w) /\ Rests(s, w)
<1> DEFINE m == Len(s.begun)
           how == HowEnded(suspended)
<1>1. m \in Nat /\ DOMAIN s.begun = 1..m /\ how \in Closings
  BY StreamFields DEF HowEnded, Closings
<1>2. PICK h : Reaches(h, s, suspended)
  BY CloseSteps
<1>3. /\ h[0] = <<>> /\ Close(s, suspended) = h[m]
      /\ \A i \in 1..m : h[i] = Adds(h[i - 1], s, s.begun[m - i + 1], how)
  BY <1>2, Zenon DEF Reaches
<1>4. \A i, j \in DOMAIN s.begun : s.begun[i] = s.begun[j] => i = j
  BY DEF Tree
<1> HIDE DEF how
<1> DEFINE Good(i) ==
             /\ h[i] \in Seq(Events)
             /\ \E w \in Readings : Utters(n, u, h[i], w) /\ Shut(s, w, (m - i + 1)..m)
           N == {i \in Nat : i <= m => Good(i)}
<1>5. 0 \in N
  <2>1. (m - 0 + 1)..m = {} /\ <<>> \in Seq(Events)
    BY <1>1
  <2>2. Shut(s, u, {})
    BY DEF Shut, Follows, Tracks, Scopes
  <2>3. Utters(n, u, <<>>, u)
    BY UttersEmpty
  <2>4. Good(0)
    BY <1>3, <2>1, <2>2, <2>3
  <2> QED
    BY <2>4
<1>6. ASSUME NEW i \in Nat, i \in N
      PROVE  i + 1 \in N
  <2> SUFFICES ASSUME i + 1 <= m PROVE Good(i + 1)
    OBVIOUS
  <2>1. /\ i + 1 \in 1..m /\ (i + 1) - 1 = i /\ m - (i + 1) + 1 = m - i /\ m - i \in 1..m
        /\ Good(i)
    BY <1>1, <1>6
  <2>2. PICK k \in DOMAIN s.begun : k = m - i
    BY <1>1, <2>1
  <2> DEFINE T == (k + 1)..Len(s.begun)
  <2>3. h[i + 1] = Adds(h[i], s, s.begun[k], how)
    BY <1>3, <2>1, <2>2
  <2>4. (m - i + 1)..m = T /\ T \cup {k} = (m - (i + 1) + 1)..m
    BY <1>1, <2>1, <2>2
  <2>5. PICK w \in Readings : Utters(n, u, h[i], w) /\ Shut(s, w, T)
    BY <2>1, <2>4
  <2>6. PICK q \in Seq(Events) : q = h[i]
    BY <2>1
  <2> HIDE DEF Good, N, T
  <2>7. /\ Adds(q, s, s.begun[k], how) \in Seq(Events)
        /\ \E z \in Readings : /\ Utters(n, u, Adds(q, s, s.begun[k], how), z)
                               /\ Shut(s, z, T \cup {k})
    <3>1. PICK S : S = T /\ S = (k + 1)..Len(s.begun)
      BY DEF T
    <3>2. Shut(s, w, S) /\ Utters(n, u, q, w)
      BY <2>5, <2>6, <3>1
    <3>3. /\ Adds(q, s, s.begun[k], how) \in Seq(Events)
          /\ \E z \in Readings : /\ Utters(n, u, Adds(q, s, s.begun[k], how), z)
                                 /\ Shut(s, z, S \cup {k})
      BY <1>1, <1>4, <3>1, <3>2, AddsUtters
    <3> QED
      BY <3>1, <3>3
  <2> QED
    BY <2>3, <2>4, <2>6, <2>7 DEF Good
<1> HIDE DEF N, Good
<1>7. Nat \subseteq N
  BY <1>5, <1>6, Induction, Zenon
<1>8. Good(m)
  BY <1>1, <1>7 DEF N
<1>9. PICK w \in Readings : Utters(n, u, h[m], w) /\ Shut(s, w, DOMAIN s.begun)
  <2>1. (m - m + 1)..m = DOMAIN s.begun
    BY <1>1
  <2> QED
    BY <1>8, <2>1 DEF Good
<1>10. Rests(s, w)
  <2>1. ASSUME NEW g \in Group
        PROVE  w.card[g] # "active" /\ Quietly(w, g)
    <3>1. CASE s.seg[g].open
      <4>1. \E i \in DOMAIN s.begun : s.begun[i] = g
        BY <3>1 DEF Tree, Range
      <4> QED
        BY <1>9, <3>1, <4>1 DEF Shut
    <3>2. CASE ~s.seg[g].open
      BY <1>9, <3>2 DEF Shut, Tracks
    <3> QED
      BY <3>1, <3>2
  <2> QED
    BY <1>9, <2>1 DEF Shut, Rests, Scopes
<1> QED
  BY <1>3, <1>8, <1>9, <1>10 DEF Good

-----------------------------------------------------------------------------
(* What the stream utters of a report.                                     *)

\* What a segment needs to tell of a call.
Sayable(s, u, g, r) ==
  \/ r.kind \in {"none", "start", "token", "reasoning"} \cup Closings
  \/ /\ r.kind = "tool_input" /\ r.call \in Calls /\ r.written \in BOOLEAN
     /\ r.call \notin s.seg[g].ended \cup s.known /\ Ready(s, u, g, r.call)
  \/ /\ r.kind = "tool_start" /\ r.call \in Calls
     /\ r.call \notin s.seg[g].ended \cup s.known => Ready(s, u, g, r.call)
  \/ /\ r.kind = "tool_end" /\ r.call \in Calls
     /\ r.call \in s.seg[g].ended /\ u.tool[r.call] = "ended"

\* A segment that opens tells of calls what it told.
LEMMA BeginKeeps ==
  ASSUME NEW s \in Streams, NEW g \in Group, NEW u, NEW w, SameTools(u, w), NEW t,
         t = Begin(s, g, None).s, NEW c \in Calls
  PROVE  /\ c \in t.seg[g].ended <=> c \in s.seg[g].ended
         /\ c \in t.known <=> c \in s.known
         /\ Ready(s, u, g, c) => Ready(t, w, g, c)
         /\ w.tool[c] = u.tool[c]
<1>1. PICK b \in Boards : TRUE
  BY SomeBoard
<1>2. PICK d : CallsKept(s, b, t, d)
  BY <1>1, BeginDoes
<1> QED
  BY <1>2 DEF CallsKept, CallKept, SameTools, Ready

\* What translate makes of a report is said, and the stream follows it.
LEMMA TranslateUtters ==
  ASSUME NEW n \in Nat, NEW s \in Streams, NEW g \in Group,
         NEW u \in Readings, u.running, Tracks(s, u, g), NEW r, Sayable(s, u, g, r)
  PROVE  \E w \in Readings : Voiced(n, s, u, g, Translate(s, g, r).s, Translate(s, g, r).out, w)
<1>1. CASE r.kind = "none" \/ (~s.seg[g].open /\ r.kind \notin Opening)
  <2>1. Translate(s, g, r) = [s |-> s, out |-> <<>>]
    BY <1>1 DEF Translate
  <2> QED
    BY <2>1, VoicedSame
<1>2. CASE r.kind # "none" /\ (s.seg[g].open \/ r.kind \in Opening)
  <2>1. PICK v \in Readings :
           /\ Voiced(n, s, u, g, Begin(s, g, None).s, Begin(s, g, None).out, v)
           /\ SameTools(u, v) /\ Begin(s, g, None).s.seg[g].open
    BY BeginUtters
  <2>2. PICK t \in Streams : t = Begin(s, g, None).s
    BY <2>1 DEF Voiced
  <2>3. PICK q \in Seq(Events) : q = Begin(s, g, None).out
    BY <2>1 DEF Voiced
  <2>4. Voiced(n, s, u, g, t, q, v) /\ t.seg[g].open
    BY <2>1, <2>2, <2>3
  <2>5. v.running /\ Tracks(t, v, g)
    BY <2>4 DEF Voiced, Elsewhere
  <2>6. SUFFICES \E z, p, w : /\ Translate(s, g, r) = [s |-> z, out |-> q \o p]
                              /\ Voiced(n, t, v, g, z, p, w)
    <3>1. PICK z, p, w : /\ Translate(s, g, r) = [s |-> z, out |-> q \o p]
                         /\ Voiced(n, t, v, g, z, p, w)
      BY <2>6
    <3>2. Voiced(n, s, u, g, z, q \o p, w)
      BY <2>4, <3>1, VoicedThen
    <3>3. w \in Readings
      BY <3>1 DEF Voiced
    <3>4. Translate(s, g, r) = [s |-> z, out |-> q \o p]
      BY <3>1
    <3> HIDE <2>6
    <3>5. Translate(s, g, r).s = z /\ Translate(s, g, r).out = q \o p
      BY <3>4
    <3> QED
      BY <3>2, <3>3, <3>5
  <2>7. \A c \in Calls : /\ c \in t.seg[g].ended <=> c \in s.seg[g].ended
                         /\ c \in t.known <=> c \in s.known
                         /\ Ready(s, u, g, c) => Ready(t, v, g, c)
                         /\ v.tool[c] = u.tool[c]
    BY <2>1, <2>2, BeginKeeps
  <2>8. CASE r.kind = "start"
    <3>1. Translate(s, g, r) = [s |-> t, out |-> q \o <<>>]
      BY <2>2, <2>3, <2>8 DEF Translate, Opening
    <3>2. Voiced(n, t, v, g, t, <<>>, v)
      BY <2>5, VoicedSame
    <3> QED
      BY <3>1, <3>2
  <2>9. CASE r.kind = "token"
    <3>1. Translate(s, g, r) = [s |-> Token(t, g).s, out |-> q \o Token(t, g).out]
      BY <2>2, <2>3, <2>9 DEF Translate, Opening
    <3>2. \E w : Voiced(n, t, v, g, Token(t, g).s, Token(t, g).out, w)
      BY <2>4, <2>5, TokenUtters
    <3> QED
      BY <3>1, <3>2
  <2>10. CASE r.kind = "reasoning"
    <3>1. Translate(s, g, r) = [s |-> Reasoning(t, g).s, out |-> q \o Reasoning(t, g).out]
      BY <2>2, <2>3, <2>10 DEF Translate, Opening
    <3>2. \E w : Voiced(n, t, v, g, Reasoning(t, g).s, Reasoning(t, g).out, w)
      BY <2>4, <2>5, ReasoningUtters
    <3> QED
      BY <3>1, <3>2
  <2>11. CASE r.kind = "tool_input"
    <3>1. PICK c \in Calls : c = r.call /\ c \notin t.seg[g].ended \cup t.known /\ Ready(t, v, g, c)
      BY <2>7, <2>11 DEF Sayable, Closings
    <3>2. PICK written \in BOOLEAN : written = r.written
      BY <2>11 DEF Sayable, Closings
    <3>3. Translate(s, g, r) = [s |-> ToolInput(t, g, c, written).s,
                                out |-> q \o ToolInput(t, g, c, written).out]
      BY <2>2, <2>3, <2>11, <3>1, <3>2 DEF Translate, Opening
    <3>4. \E w : Voiced(n, t, v, g, ToolInput(t, g, c, written).s,
                      ToolInput(t, g, c, written).out, w)
      BY <2>4, <2>5, <3>1, ToolInputUtters
    <3> QED
      BY <3>3, <3>4
  <2>12. CASE r.kind = "tool_start"
    <3>1. PICK c \in Calls : c = r.call
                             /\ (c \notin t.seg[g].ended \cup t.known => Ready(t, v, g, c))
      BY <2>7, <2>12 DEF Sayable, Closings
    <3>2. Translate(s, g, r) = [s |-> ToolStart(t, g, c).s, out |-> q \o ToolStart(t, g, c).out]
      BY <2>2, <2>3, <2>12, <3>1 DEF Translate, Opening
    <3>3. \E w : Voiced(n, t, v, g, ToolStart(t, g, c).s, ToolStart(t, g, c).out, w)
      BY <2>4, <2>5, <3>1, ToolStartUtters
    <3> QED
      BY <3>2, <3>3
  <2>13. CASE r.kind = "tool_end"
    <3>1. PICK c \in Calls : c = r.call /\ c \in t.seg[g].ended /\ v.tool[c] = "ended"
      BY <2>7, <2>13 DEF Sayable, Closings
    <3>2. Translate(s, g, r) = [s |-> ToolEnd(t, g, c).s, out |-> q \o ToolEnd(t, g, c).out]
      BY <2>2, <2>3, <2>13, <3>1 DEF Translate, Opening
    <3>3. \E w : Voiced(n, t, v, g, ToolEnd(t, g, c).s, ToolEnd(t, g, c).out, w)
      BY <2>4, <2>5, <3>1, ToolEndUtters
    <3> QED
      BY <3>2, <3>3
  <2>14. CASE r.kind \in Closings
    <3>1. /\ r.kind \notin Opening
          /\ r.kind \notin {"start", "token", "reasoning", "tool_input", "tool_start", "tool_end"}
      BY <2>14 DEF Opening, Closings
    <3>2. PICK how \in Closings : how = r.kind
      BY <2>14
    <3>3. Translate(s, g, r) = [s |-> End(t, g, how).s, out |-> q \o End(t, g, how).out]
      BY <1>2, <2>2, <2>3, <3>1, <3>2 DEF Translate
    <3>4. \E w : Voiced(n, t, v, g, End(t, g, how).s, End(t, g, how).out, w)
      BY <2>5, EndUtters
    <3> QED
      BY <3>3, <3>4
  <2> QED
    BY <1>2, <2>8, <2>9, <2>10, <2>11, <2>12, <2>13, <2>14 DEF Sayable
<1> QED
  BY <1>1, <1>2

-----------------------------------------------------------------------------
(* What the entry agent's events say, and those of a run.                  *)

\* An event of the entry agent's touches no segment.
LEMMA ChatReads ==
  ASSUME NEW n \in Nat, NEW u, NEW e, Allowed(n, u, e), e.scope = Chat,
         e.type \notin {"run_started", "run_finished", "reasoning_end"}, NEW w, w = Reads(u, e)
  PROVE  /\ w \in Readings /\ Elsewhere(u, w, Chat) /\ w.ids[Chat] = u.ids[Chat]
         /\ w.saying[Chat] = IF e.type = "text_start" THEN e.id
                             ELSE IF e.type = "text_end" THEN None ELSE u.saying[Chat]
         /\ w.thinking[Chat] = u.thinking[Chat]
         /\ \A c \in Calls :
              w.tool[c] = IF c = e.id /\ e.type = "call_start" THEN "open"
                          ELSE IF c = e.id /\ e.type = "call_end" THEN "ended"
                          ELSE IF c = e.id /\ e.type = "result" THEN "done" ELSE u.tool[c]
<1>1. w \in Readings /\ Elsewhere(u, w, Chat) /\ u \in Readings
  BY ReadsOn
<1>2. Chat \notin Group
  BY SubagentStreamAssumption
<1>3. NextMade(u, Chat) \notin Names(e)
  BY <1>2 DEF Allowed, Speech, CallAllowed, Names, NextMade, Made, Closings
<1>4. w.ids[Chat] = u.ids[Chat]
  BY <1>3, ReadsHere
<1>5. w.saying[Chat] = IF e.type = "text_start" THEN e.id
                       ELSE IF e.type = "text_end" THEN None ELSE u.saying[Chat]
  BY ReadsHere
<1>6. w.thinking[Chat] = u.thinking[Chat]
  <2>1. e.type # "reasoning_start"
    BY DEF Allowed, Speech, CallAllowed, Closings
  <2> QED
    BY <2>1, ReadsHere
<1> QED
  BY <1>1, <1>4, <1>5, <1>6, ReadsHere

\* What the segments say is followed where none is touched.
LEMMA FollowsChat ==
  ASSUME NEW s, NEW u, Follows(s, u), NEW w, Elsewhere(u, w, Chat), Quietly(w, Chat),
         w.ids[Chat] = u.ids[Chat]
  PROVE  Follows(s, w)
<1>1. Group \subseteq Scopes \ {Chat} /\ Group \subseteq Group \ {Chat}
  BY SubagentStreamAssumption DEF Scopes
<1>2. w.running /\ w.ids[Chat] = s.ids[Chat] /\ u.seen \subseteq w.seen
  BY DEF Follows, Elsewhere
<1>3. ASSUME NEW g \in Group
      PROVE  Tracks(s, w, g)
  <2>1. /\ w.card[g] = u.card[g] /\ w.saying[g] = u.saying[g] /\ w.thinking[g] = u.thinking[g]
        /\ w.ids[g] = u.ids[g] /\ Tracks(s, u, g)
    BY <1>1 DEF Follows, Elsewhere
  <2> QED
    BY <1>2, <2>1 DEF Tracks, Quietly
<1> QED
  BY <1>2, <1>3 DEF Follows

\* It says something,
LEMMA ChatSaysUtters ==
  ASSUME NEW n \in Nat, NEW s, NEW u \in Readings, Follows(s, u),
         NEW m, m = <<Chat, "run", n>>,
         NEW q, q = <<E("text_start", Chat, m, None), E("text", Chat, m, None),
                      E("text_end", Chat, m, None)>>
  PROVE  q \in Seq(Events) /\ \E w \in Readings : Utters(n, u, q, w) /\ Follows(s, w)
<1>1. m \in Ids /\ m # None /\ Chat \in Scopes
  <2>1. Chat \in Scopes
    BY DEF Scopes
  <2>2. m \in Scopes \X {"made", "run", "result", "placed"} \X Nat
    BY <2>1
  <2> QED
    BY <2>1, <2>2, SubagentStreamAssumption DEF Ids
<1>2. \A kind \in Kinds : E(kind, Chat, m, None) \in Events
  BY <1>1, NoneId, MadeEvents
<1>3. PICK x \in Events : x = E("text_start", Chat, m, None)
  BY <1>2 DEF Kinds, Quiet
<1>4. PICK y \in Events : y = E("text", Chat, m, None)
  BY <1>2 DEF Kinds, Quiet
<1>5. PICK z \in Events : z = E("text_end", Chat, m, None)
  BY <1>2 DEF Kinds, Quiet
<1>6. /\ x.type = "text_start" /\ y.type = "text" /\ z.type = "text_end"
      /\ x.scope = Chat /\ y.scope = Chat /\ z.scope = Chat
      /\ x.id = m /\ y.id = m /\ z.id = m
  BY <1>3, <1>4, <1>5 DEF E
<1>7. Allowed(n, u, x)
  BY <1>6 DEF Follows, Allowed, Speech
<1>8. PICK u1 : u1 = Reads(u, x)
  OBVIOUS
<1>9. /\ u1 \in Readings /\ Elsewhere(u, u1, Chat) /\ u1.ids[Chat] = u.ids[Chat]
      /\ u1.saying[Chat] = m /\ u1.thinking[Chat] = u.thinking[Chat]
  BY <1>6, <1>7, <1>8, ChatReads
<1>10. Allowed(n, u1, y)
  BY <1>1, <1>6, <1>9 DEF Follows, Elsewhere, Allowed, Speech
<1>11. PICK u2 : u2 = Reads(u1, y)
  OBVIOUS
<1>12. /\ u2 \in Readings /\ Elsewhere(u1, u2, Chat) /\ u2.ids[Chat] = u1.ids[Chat]
       /\ u2.saying[Chat] = m /\ u2.thinking[Chat] = u1.thinking[Chat]
  BY <1>6, <1>9, <1>10, <1>11, ChatReads
<1>13. Allowed(n, u2, z)
  BY <1>1, <1>6, <1>9, <1>12 DEF Follows, Elsewhere, Allowed, Speech
<1>14. PICK w : w = Reads(u2, z)
  OBVIOUS
<1>15. /\ w \in Readings /\ Elsewhere(u2, w, Chat) /\ w.ids[Chat] = u2.ids[Chat]
       /\ w.saying[Chat] = None /\ w.thinking[Chat] = u2.thinking[Chat]
  BY <1>6, <1>13, <1>14, ChatReads
<1>16. Elsewhere(u, w, Chat) /\ w.ids[Chat] = u.ids[Chat] /\ Quietly(w, Chat)
  <2>1. Elsewhere(u, u2, Chat)
    BY <1>9, <1>12, ElsewhereOn
  <2>2. Elsewhere(u, w, Chat)
    BY <1>15, <2>1, ElsewhereOn
  <2>3. w.thinking[Chat] = None
    BY <1>9, <1>12, <1>15 DEF Follows, Quietly
  <2> QED
    BY <1>9, <1>12, <1>15, <2>2, <2>3 DEF Quietly
<1>17. Follows(s, w)
  BY <1>16, FollowsChat
<1>18. Utters(n, u, <<x>>, u1) /\ <<x>> \in Seq(Events)
  BY <1>7, <1>8, UttersOne
<1>19. Utters(n, u, <<x>> \o <<y>>, u2) /\ <<x>> \o <<y>> \in Seq(Events)
  BY <1>10, <1>11, <1>18, UttersThen
<1>20. PICK p \in Seq(Events) : p = <<x>> \o <<y>>
  BY <1>19
<1>21. Utters(n, u, p \o <<z>>, w) /\ p \o <<z>> \in Seq(Events)
  BY <1>13, <1>14, <1>19, <1>20, UttersThen
<1>22. q = p \o <<z>>
  BY <1>3, <1>4, <1>5, <1>20
<1> QED
  BY <1>15, <1>17, <1>21, <1>22

\* calls a tool,
LEMMA ChatStartsUtters ==
  ASSUME NEW n \in Nat, NEW s, NEW u \in Readings, Follows(s, u),
         NEW c \in Calls, u.tool[c] = "none", NEW m, m = <<Chat, "run", n>>,
         NEW q, q = <<E("call_start", Chat, c, m), E("call_args", Chat, c, None),
                      E("call_end", Chat, c, None)>>
  PROVE  q \in Seq(Events) /\ \E w \in Readings : Utters(n, u, q, w) /\ Follows(s, w)
<1>1. m \in Ids /\ Chat \in Scopes /\ c \in Ids
  BY DEF Scopes, Ids
<1>2. \A kind \in Kinds, p \in Ids : E(kind, Chat, c, p) \in Events
  BY <1>1, MadeEvents
<1>3. PICK x \in Events : x = E("call_start", Chat, c, m)
  BY <1>1, <1>2 DEF Kinds
<1>4. PICK y \in Events : y = E("call_args", Chat, c, None)
  BY <1>2, NoneId DEF Kinds, Quiet
<1>5. PICK z \in Events : z = E("call_end", Chat, c, None)
  BY <1>2, NoneId DEF Kinds
<1>6. /\ x.type = "call_start" /\ y.type = "call_args" /\ z.type = "call_end"
      /\ x.scope = Chat /\ y.scope = Chat /\ z.scope = Chat
      /\ x.id = c /\ y.id = c /\ z.id = c /\ x.parent = m
  BY <1>3, <1>4, <1>5 DEF E
<1>7. Allowed(n, u, x)
  BY <1>6 DEF Follows, Allowed, CallAllowed
<1>8. PICK u1 : u1 = Reads(u, x)
  OBVIOUS
<1>9. /\ u1 \in Readings /\ Elsewhere(u, u1, Chat) /\ u1.ids[Chat] = u.ids[Chat]
      /\ u1.saying[Chat] = u.saying[Chat] /\ u1.thinking[Chat] = u.thinking[Chat]
      /\ u1.tool[c] = "open"
  BY <1>6, <1>7, <1>8, ChatReads
<1>10. Allowed(n, u1, y)
  BY <1>6, <1>9 DEF Follows, Elsewhere, Allowed, CallAllowed
<1>11. PICK u2 : u2 = Reads(u1, y)
  OBVIOUS
<1>12. /\ u2 \in Readings /\ Elsewhere(u1, u2, Chat) /\ u2.ids[Chat] = u1.ids[Chat]
       /\ u2.saying[Chat] = u1.saying[Chat] /\ u2.thinking[Chat] = u1.thinking[Chat]
       /\ u2.tool[c] = "open"
  BY <1>6, <1>9, <1>10, <1>11, ChatReads
<1>13. Allowed(n, u2, z)
  BY <1>6, <1>9, <1>12 DEF Follows, Elsewhere, Allowed, CallAllowed
<1>14. PICK w : w = Reads(u2, z)
  OBVIOUS
<1>15. /\ w \in Readings /\ Elsewhere(u2, w, Chat) /\ w.ids[Chat] = u2.ids[Chat]
       /\ w.saying[Chat] = u2.saying[Chat] /\ w.thinking[Chat] = u2.thinking[Chat]
  BY <1>6, <1>13, <1>14, ChatReads
<1>16. Elsewhere(u, w, Chat) /\ w.ids[Chat] = u.ids[Chat] /\ Quietly(w, Chat)
  <2>1. Elsewhere(u, u2, Chat)
    BY <1>9, <1>12, ElsewhereOn
  <2>2. Elsewhere(u, w, Chat)
    BY <1>15, <2>1, ElsewhereOn
  <2>3. w.thinking[Chat] = None /\ w.saying[Chat] = None
    BY <1>9, <1>12, <1>15 DEF Follows, Quietly
  <2> QED
    BY <1>9, <1>12, <1>15, <2>2, <2>3 DEF Quietly
<1>17. Follows(s, w)
  BY <1>16, FollowsChat
<1>18. Utters(n, u, <<x>>, u1) /\ <<x>> \in Seq(Events)
  BY <1>7, <1>8, UttersOne
<1>19. Utters(n, u, <<x>> \o <<y>>, u2) /\ <<x>> \o <<y>> \in Seq(Events)
  BY <1>10, <1>11, <1>18, UttersThen
<1>20. PICK p \in Seq(Events) : p = <<x>> \o <<y>>
  BY <1>19
<1>21. Utters(n, u, p \o <<z>>, w) /\ p \o <<z>> \in Seq(Events)
  BY <1>13, <1>14, <1>19, <1>20, UttersThen
<1>22. q = p \o <<z>>
  BY <1>3, <1>4, <1>5, <1>20
<1> QED
  BY <1>15, <1>17, <1>21, <1>22

\* has its result, and is done.
LEMMA ChatOneUtters ==
  ASSUME NEW n \in Nat, NEW s, NEW u \in Readings, Follows(s, u), NEW e, e \in Events,
         e.scope = Chat,
         \/ e.type = "finish"
         \/ /\ e.type = "result" /\ e.id \in Calls /\ e.id[1] = Entry /\ u.tool[e.id] = "ended"
            /\ e.parent = <<Chat, "result", e.id[2]>>
  PROVE  Allowed(n, u, e) /\ \E w \in Readings : Utters(n, u, <<e>>, w) /\ Follows(s, w)
<1>1. Allowed(n, u, e)
  BY DEF Follows, Allowed, CallAllowed
<1>2. PICK w : w = Reads(u, e)
  OBVIOUS
<1>3. /\ w \in Readings /\ Elsewhere(u, w, Chat) /\ w.ids[Chat] = u.ids[Chat]
      /\ w.saying[Chat] = u.saying[Chat] /\ w.thinking[Chat] = u.thinking[Chat]
  BY <1>1, <1>2, ChatReads
<1>4. Follows(s, w)
  BY <1>3, FollowsChat DEF Follows, Quietly
<1> QED
  BY <1>1, <1>2, <1>3, <1>4, UttersOne

\* A run begins on a stream of its own, where all rests.
Silently(s, w) ==
  /\ w \in Readings /\ ~w.running
  /\ \A x \in Scopes : w.ids[x] = s.ids[x] /\ Quietly(w, x)
  /\ \A g \in Group : w.card[g] # "active"

\* A run begins where all rests.
LEMMA RunStartsUtters ==
  ASSUME NEW n \in Nat, NEW s, NEW u \in Readings, Silently(s, u),
         NEW t, t.ids = s.ids, \A g \in Group : t.seg[g] = Fresh,
         NEW e, e = E("run_started", Chat, None, None)
  PROVE  e \in Events /\ \E w \in Readings : Utters(n, u, <<e>>, w) /\ Follows(t, w)
<1>1. e \in Events
  BY NoneId, MadeEvents DEF Kinds, Quiet, Scopes
<1>2. e.type = "run_started" /\ e.scope = Chat /\ e.id = None
  BY DEF E
<1>3. Allowed(n, u, e)
  BY <1>1, <1>2 DEF Silently, Allowed
<1>4. PICK w : w = Reads(u, e)
  OBVIOUS
<1>5. w \in Readings
  BY <1>3, <1>4, ReadsOn
<1>6. /\ w.running /\ w.card = u.card /\ w.saying = u.saying /\ w.thinking = u.thinking
      /\ w.ids = u.ids
  BY <1>2, <1>4 DEF Reads, Names, Closings
<1>7. Chat \in Scopes /\ Group \subseteq Scopes
  BY DEF Scopes
<1>8. Follows(t, w)
  BY <1>6, <1>7 DEF Follows, Tracks, Silently, Quietly, Fresh
<1> QED
  BY <1>1, <1>3, <1>4, <1>5, <1>8, UttersOne

\* It finishes where all rests.
LEMMA RunFinishesUtters ==
  ASSUME NEW n \in Nat, NEW s, NEW u \in Readings, Rests(s, u),
         NEW e, e \in Events, e.scope = Chat, e.type = "run_finished"
  PROVE  Allowed(n, u, e) /\ \E w \in Readings : Utters(n, u, <<e>>, w) /\ Silently(s, w)
<1>1. Allowed(n, u, e)
  BY DEF Rests, Allowed
<1>2. PICK w : w = Reads(u, e)
  OBVIOUS
<1>3. w \in Readings
  BY <1>1, <1>2, ReadsOn
<1>4. /\ ~w.running /\ w.card = u.card /\ w.saying = u.saying /\ w.thinking = u.thinking
      /\ w.ids = u.ids
  BY <1>2 DEF Reads, Names, Closings
<1>5. Silently(s, w)
  BY <1>3, <1>4 DEF Rests, Silently, Quietly
<1> QED
  BY <1>1, <1>2, <1>3, <1>5, UttersOne

\* Cards and calls of a queue are what it says, and where it leads, alike.
LEMMA OneBoard ==
  ASSUME NEW x, NEW q \in Seq(Events), NEW b, NEW c, Leads(x, b, q, c),
         NEW n, NEW u, NEW w, Utters(n, u, q, w), b.card = u.card, b.tool = u.tool
  PROVE  c.card = w.card /\ c.tool = w.tool
<1>1. PICK t : /\ t[0] = b /\ t[Len(q)] = c
               /\ \A i \in 1..Len(q) : Fits(x, t[i - 1], q[i]) /\ t[i] = Post(t[i - 1], q[i])
  BY DEF Leads
<1>2. PICK y : /\ y[0] = u /\ y[Len(q)] = w
               /\ \A i \in 1..Len(q) : Allowed(n, y[i - 1], q[i]) /\ y[i] = Reads(y[i - 1], q[i])
  BY DEF Utters
<1> DEFINE S == {i \in Nat : i <= Len(q) => t[i].card = y[i].card /\ t[i].tool = y[i].tool}
<1>3. 0 \in S
  BY <1>1, <1>2
<1>4. ASSUME NEW i \in Nat, i \in S
      PROVE  i + 1 \in S
  <2>1. SUFFICES ASSUME i + 1 <= Len(q)
                 PROVE  t[i + 1].card = y[i + 1].card /\ t[i + 1].tool = y[i + 1].tool
    OBVIOUS
  <2>2. PICK k \in 1..Len(q) : k = i + 1 /\ k - 1 = i
    BY <2>1
  <2>3. t[i].card = y[i].card /\ t[i].tool = y[i].tool
    BY <1>4, <2>1
  <2>4. t[k] = Post(t[i], q[k]) /\ y[k] = Reads(y[i], q[k])
    BY <1>1, <1>2, <2>2
  <2>5. t[k].card = y[k].card /\ t[k].tool = y[k].tool
    BY <2>3, <2>4 DEF Post, Reads
  <2> QED
    BY <2>2, <2>5
<1> HIDE DEF S
<1>5. Nat \subseteq S
  BY <1>3, <1>4, Induction
<1> QED
  BY <1>1, <1>2, <1>5 DEF S

-----------------------------------------------------------------------------
(* What the client and the response's AppendOnly hold of a reading.        *)

\* AppendOnly has the messages of a scope's newest, and what it named anew.
Ordering(o) ==
  o = [newest |-> o.newest, seen |-> o.seen, renamed |-> o.renamed, moved |-> o.moved,
       placed |-> o.placed]
Said(o, m) == IF m \in DOMAIN o.renamed THEN o.renamed[m] ELSE m

\* The client knows what the reading says, by the names AppendOnly gave.
Holds(k, o, u) ==
  /\ k.running = u.running /\ k.card = u.card /\ k.tool = u.tool /\ k.thinking = u.thinking
  /\ k.saying = [s \in Scopes |-> Said(o, u.saying[s])]
  /\ \A s \in Scopes : u.saying[s] # None => u.saying[s][1] = s
  /\ \A m \in DOMAIN o.renamed : /\ o.renamed[m] \in Messages /\ m # None
                                 /\ \E s \in Scopes : m = u.saying[s]

\* A message of the scope s that the client may show.
Given(n, k, o, u, s, m) ==
  \/ \E i \in 1..u.ids[s] : m = Made(s, i)
  \/ \E i \in 1..o.placed : m = <<s, "placed", i>>
  \/ s = Chat /\ \E i \in 0..n : m = <<Chat, "run", i>> /\ (i = n => m \in o.seen)
  \/ s = Chat /\ \E c \in Calls : /\ c[1] = Entry /\ m = <<Chat, "result", c[2]>>
                                  /\ k.tool[c] = "done"

\* What it shows of a scope: the newest is what is being said, or results came since.
Shows(n, k, o, u, s) ==
  /\ o.newest[s] = <<None, "none">> \/ o.newest[s][1] = k.newest[s]
  /\ k.newest[s] # None => k.newest[s] \in k.shown[s]
  /\ k.saying[s] # None => k.newest[s] \in {k.saying[s]} \cup k.answers
  /\ k.thinking[s] # None => k.newest[s] \in {k.thinking[s]} \cup k.answers
  /\ \A m \in k.shown[s] : Given(n, k, o, u, s, m)
Shown(n, k, o, u) ==
  /\ u.seen \subseteq o.seen /\ o.placed \in Nat /\ o.newest = [s \in Scopes |-> o.newest[s]]
  /\ k.shown \in [Scopes -> SUBSET Messages] /\ k.newest \in [Scopes -> Messages \cup {None}]
  /\ \A s \in Scopes : Shows(n, k, o, u, s)
Heard(n, k, o, u) ==
  Client(k) /\ Ordering(o) /\ u \in Readings /\ Holds(k, o, u) /\ Shown(n, k, o, u)

\* The events with which a message begins, or takes a call; the message.
Beginnings == {"text_start", "reasoning_start", "call_start", "result"}
Named(e) == IF e.type \in {"text_start", "reasoning_start"} THEN e.id ELSE e.parent

\* What the client makes of an event: of cards and calls, and of what is said.
FoldedBoard(k, f, l) ==
  /\ l.running = IF f.type = "run_started" THEN TRUE
                 ELSE IF f.type = "run_finished" THEN FALSE ELSE k.running
  /\ l.card = IF f.type = "started" THEN [k.card EXCEPT ![f.scope] = "active"]
              ELSE IF f.type \in Closings THEN [k.card EXCEPT ![f.scope] = f.type]
              ELSE k.card
  /\ l.tool = CASE f.type = "call_start" -> [k.tool EXCEPT ![f.id] = "open"]
                [] f.type = "call_end" -> [k.tool EXCEPT ![f.id] = "ended"]
                [] f.type = "result" -> [k.tool EXCEPT ![f.id] = "done"]
                [] OTHER -> k.tool
  /\ l.thinking = CASE f.type = "reasoning_start" -> [k.thinking EXCEPT ![f.scope] = f.id]
                    [] f.type = "reasoning_end" -> [k.thinking EXCEPT ![f.scope] = None]
                    [] OTHER -> k.thinking
FoldedSpeech(k, f, l) ==
  /\ l.saying = CASE f.type = "text_start" -> [k.saying EXCEPT ![f.scope] = f.id]
                  [] f.type = "text_end" -> [k.saying EXCEPT ![f.scope] = None]
                  [] OTHER -> k.saying
  /\ l.shown = IF f.type \in Beginnings THEN [k.shown EXCEPT ![f.scope] = @ \cup {Named(f)}]
               ELSE k.shown
  /\ l.newest = IF f.type \in Beginnings THEN [k.newest EXCEPT ![f.scope] = Named(f)]
                ELSE k.newest
  /\ l.answers = IF f.type = "result" THEN k.answers \cup {f.parent} ELSE k.answers

\* Folds makes that of it.
LEMMA FoldsFields ==
  ASSUME NEW k, Client(k), NEW f, f.type \in Kinds, f.type # "finish", NEW l, l = Folds(k, f)
  PROVE  Client(l) /\ FoldedBoard(k, f, l) /\ FoldedSpeech(k, f, l)
<1>1. CASE f.type = "started"
  BY <1>1 DEF FoldedBoard, FoldedSpeech, Folds, Client, Closings, Beginnings
<1>2. CASE f.type \in Closings
  BY <1>2 DEF FoldedBoard, FoldedSpeech, Folds, Client, Closings, Beginnings
<1>3. CASE f.type \in {"run_started", "run_finished"}
  BY <1>3 DEF FoldedBoard, FoldedSpeech, Folds, Client, Closings, Beginnings
<1>4. CASE f.type = "text_start"
  BY <1>4 DEF FoldedBoard, FoldedSpeech, Folds, Client, Closings,
     Beginnings, Named
<1>5. CASE f.type = "reasoning_start"
  BY <1>5 DEF FoldedBoard, FoldedSpeech, Folds, Client, Closings,
     Beginnings, Named
<1>6. CASE f.type = "call_start"
  BY <1>6 DEF FoldedBoard, FoldedSpeech, Folds, Client, Closings,
     Beginnings, Named
<1>7. CASE f.type = "result"
  BY <1>7 DEF FoldedBoard, FoldedSpeech, Folds, Client, Closings,
     Beginnings, Named
<1>8. CASE f.type \in {"text_end", "reasoning_end", "call_end"}
  BY <1>8 DEF FoldedBoard, FoldedSpeech, Folds, Client, Closings, Beginnings
<1>9. CASE f.type \in {"text", "reasoning", "call_args"}
  BY <1>9 DEF FoldedBoard, FoldedSpeech, Folds, Client, Closings, Beginnings
<1> QED
  BY <1>1, <1>2, <1>3, <1>4, <1>5, <1>6, <1>7, <1>8, <1>9 DEF Kinds, Quiet

\* A function extended says what it is told, and what it said of the rest.
LEMMA WithSays ==
  ASSUME NEW f, NEW x, NEW v
  PROVE  /\ DOMAIN With(f, x, v) = DOMAIN f \cup {x} /\ With(f, x, v)[x] = v
         /\ \A y \in DOMAIN f : y # x => With(f, x, v)[y] = f[y]
  BY DEF With

\* Where AppendOnly places an event: as it is,
LEMMA PlaceAsIs ==
  ASSUME NEW o, NEW e \in Events, e.type \notin Beginnings \cup {"text", "text_end"},
         NEW p, p = Place(o, e)
  PROVE  p.o = o /\ p.e = e
<1>1. p = [o |-> o, e |-> e]
  BY DEF Place, Beginnings
<1> QED
  BY <1>1

\* where the message it goes on with is,
LEMMA PlaceSaid ==
  ASSUME NEW o, Ordering(o), NEW e \in Events, e.type \in {"text", "text_end"},
         NEW p, p = Place(o, e)
  PROVE  /\ Ordering(p.o) /\ p.e.type = e.type /\ p.e.scope = e.scope /\ p.e.id = Said(o, e.id)
         /\ p.o.newest = o.newest /\ p.o.seen = o.seen /\ p.o.placed = o.placed
         /\ e.type = "text" => DOMAIN p.o.renamed = DOMAIN o.renamed
         /\ e.type = "text_end" => DOMAIN p.o.renamed = DOMAIN o.renamed \ {e.id}
         /\ \A m \in DOMAIN p.o.renamed : p.o.renamed[m] = o.renamed[m]
<1>0. e = E(e.type, e.scope, e.id, e.parent)
  BY DEF Events, E
<1>1. CASE e.id \notin DOMAIN o.renamed
  <2>1. p = [o |-> o, e |-> e]
    BY <1>1 DEF Place
  <2>2. DOMAIN o.renamed \ {e.id} = DOMAIN o.renamed
    BY <1>1
  <2>3. p.o = o /\ p.e = e
    BY <2>1
  <2> QED
    BY <1>1, <2>2, <2>3 DEF Said
<1>2. CASE e.id \in DOMAIN o.renamed
  <2>1. p = [o |-> IF e.type = "text" THEN o
                   ELSE [o EXCEPT !.renamed = [m \in DOMAIN @ \ {e.id} |-> @[m]]],
             e |-> [e EXCEPT !.id = o.renamed[e.id]]]
    BY <1>2 DEF Place
  <2>2. p.e.type = e.type /\ p.e.scope = e.scope /\ p.e.id = Said(o, e.id)
    BY <1>0, <1>2, <2>1 DEF Said, E
  <2>3. CASE e.type = "text"
    BY <2>1, <2>2, <2>3
  <2>4. CASE e.type = "text_end"
    <3>1. p.o = [o EXCEPT !.renamed = [m \in DOMAIN o.renamed \ {e.id} |-> o.renamed[m]]]
      BY <2>1, <2>4
    <3> QED
      BY <2>2, <2>4, <3>1 DEF Ordering
  <2> QED
    BY <2>3, <2>4
<1> QED
  BY <1>1, <1>2

\* at the end of its scope.
Placing(o, e, p, m) ==
  /\ Ordering(p.o) /\ p.e.type = e.type /\ p.e.scope = e.scope /\ m = Named(p.e)
  /\ \E kind : p.o.newest = [o.newest EXCEPT ![e.scope] = <<m, kind>>]
  /\ p.o.seen = o.seen \cup {m}

\* A result and what is thought stay in the message they name.
LEMMA PlaceResult ==
  ASSUME NEW o, Ordering(o), NEW e \in Events, e.type \in {"reasoning_start", "result"},
         NEW p, p = Place(o, e)
  PROVE  /\ Placing(o, e, p, Named(e)) /\ p.e = e
         /\ p.o.placed = o.placed /\ p.o.renamed = o.renamed
<1>1. p = [o |-> Opens(o, e.scope, Named(e), "other"), e |-> e]
  BY DEF Place, Named
<1>2. p.o = Opens(o, e.scope, Named(e), "other") /\ p.e = e
  BY <1>1
<1>3. /\ Ordering(p.o) /\ p.o.newest = [o.newest EXCEPT ![e.scope] = <<Named(e), "other">>]
      /\ p.o.seen = o.seen \cup {Named(e)} /\ p.o.placed = o.placed /\ p.o.renamed = o.renamed
  BY <1>2 DEF Opens, Ordering
<1> QED
  BY <1>2, <1>3 DEF Placing

\* Text stays in the message it names, or is placed in a new one.
LEMMA PlaceStart ==
  ASSUME NEW o, Ordering(o), NEW e \in Events, e.type = "text_start", NEW p, p = Place(o, e)
  PROVE  \/ /\ Placing(o, e, p, e.id) /\ p.e = e
            /\ p.o.placed = o.placed /\ p.o.renamed = o.renamed
            /\ o.newest[e.scope] = <<e.id, "text">> \/ e.id \notin o.seen
         \/ /\ Placing(o, e, p, Placed(o, e.scope)) /\ p.e.id = Placed(o, e.scope)
            /\ p.o.placed = o.placed + 1 /\ p.o.renamed = With(o.renamed, e.id, Placed(o, e.scope))
            /\ e.id \in o.seen
<1>0. e = E(e.type, e.scope, e.id, e.parent) /\ p = PlaceText(o, e)
  BY DEF Events, E, Place
<1>1. CASE o.newest[e.scope] = <<e.id, "text">> \/ e.id \notin o.seen
  <2>1. p = [o |-> Opens(o, e.scope, e.id, "text"), e |-> e]
    BY <1>0, <1>1, Zenon DEF PlaceText
  <2>2. p.o = Opens(o, e.scope, e.id, "text") /\ p.e = e /\ Named(p.e) = e.id
    BY <2>1 DEF Named
  <2>3. /\ Ordering(p.o) /\ p.o.newest = [o.newest EXCEPT ![e.scope] = <<e.id, "text">>]
        /\ p.o.seen = o.seen \cup {e.id} /\ p.o.placed = o.placed /\ p.o.renamed = o.renamed
    BY <2>2 DEF Opens, Ordering
  <2>4. Placing(o, e, p, e.id)
    BY <2>2, <2>3 DEF Placing
  <2> QED
    BY <1>1, <2>2, <2>3, <2>4
<1>2. CASE ~(o.newest[e.scope] = <<e.id, "text">> \/ e.id \notin o.seen)
  <2>0. PICK m : m = Placed(o, e.scope)
    OBVIOUS
  <2>1. p = [o |-> [Opens(o, e.scope, m, "text") EXCEPT !.placed = @ + 1,
                                                        !.renamed = With(@, e.id, m)],
             e |-> [e EXCEPT !.id = m]]
    BY <1>0, <1>2, <2>0, Zenon DEF PlaceText
  <2>2. p.e.type = e.type /\ p.e.scope = e.scope /\ p.e.id = m
    BY <1>0, <2>1 DEF E
  <2>3. PICK q : q = Opens(o, e.scope, m, "text")
    OBVIOUS
  <2>4. p.o = [q EXCEPT !.placed = q.placed + 1, !.renamed = With(q.renamed, e.id, m)]
    BY <2>1, <2>3
  <2>5. /\ Ordering(q) /\ q.newest = [o.newest EXCEPT ![e.scope] = <<m, "text">>]
        /\ q.seen = o.seen \cup {m} /\ q.placed = o.placed /\ q.renamed = o.renamed
    BY <2>3 DEF Opens, Ordering
  <2>6. /\ Ordering(p.o) /\ p.o.newest = q.newest /\ p.o.seen = q.seen
        /\ p.o.placed = q.placed + 1 /\ p.o.renamed = With(q.renamed, e.id, m)
    BY <2>4, <2>5 DEF Ordering
  <2>7. Placing(o, e, p, m)
    BY <2>2, <2>5, <2>6 DEF Placing, Named
  <2> QED
    BY <1>2, <2>0, <2>2, <2>5, <2>6, <2>7
<1> QED
  BY <1>1, <1>2

\* Where a call is placed.
CallPlaced(o, e, p) ==
  /\ p.e.id = e.id /\ p.o.renamed = o.renamed
  /\ \/ /\ Placing(o, e, p, e.parent) /\ p.o.placed = o.placed
        /\ e.parent \notin o.seen \/ o.newest[e.scope][1] = e.parent
     \/ /\ \E m : /\ Placing(o, e, p, m) /\ m # None /\ o.newest[e.scope][1] = m
        /\ p.o.placed = o.placed /\ e.parent \in o.seen
     \/ /\ Placing(o, e, p, Placed(o, e.scope)) /\ p.o.placed = o.placed + 1
        /\ e.parent \in o.seen

\* A call joins the message it names, or the newest, or is placed in a new one.
LEMMA PlaceCalled ==
  ASSUME NEW o, Ordering(o), NEW e \in Events, e.type = "call_start", NEW p, p = Place(o, e)
  PROVE  CallPlaced(o, e, p)
<1> DEFINE newest == o.newest[e.scope]
           before == IF e.parent \in DOMAIN o.moved THEN o.moved[e.parent] ELSE None
           again == before # None /\ newest[1] = before
           kept == e.parent \notin o.seen \/ (newest[1] = e.parent /\ newest[2] # "other")
<1>0. e = E(e.type, e.scope, e.id, e.parent) /\ p = PlaceCall(o, e)
  BY DEF Events, E, Place
<1>1. CASE kept
  <2>1. p = [o |-> Opens(o, e.scope, e.parent, "calls"), e |-> e]
    BY <1>0, <1>1, Zenon DEF PlaceCall
  <2>2. p.o = Opens(o, e.scope, e.parent, "calls") /\ p.e = e /\ Named(p.e) = e.parent
    BY <2>1 DEF Named
  <2>3. /\ Ordering(p.o) /\ p.o.newest = [o.newest EXCEPT ![e.scope] = <<e.parent, "calls">>]
        /\ p.o.seen = o.seen \cup {e.parent} /\ p.o.placed = o.placed /\ p.o.renamed = o.renamed
    BY <2>2 DEF Opens, Ordering
  <2>4. Placing(o, e, p, e.parent)
    BY <2>2, <2>3 DEF Placing
  <2> QED
    BY <1>1, <2>2, <2>3, <2>4 DEF CallPlaced
<1>2. CASE ~kept
  <2>0. PICK m : m = IF again THEN before ELSE Placed(o, e.scope)
    OBVIOUS
  <2>1. p = [o |-> [Opens(o, e.scope, m, "calls") EXCEPT
                      !.placed = IF again THEN @ ELSE @ + 1, !.moved = With(@, e.parent, m)],
             e |-> [e EXCEPT !.parent = m]]
    BY <1>0, <1>2, <2>0, Zenon DEF PlaceCall
  <2>2. p.e.type = e.type /\ p.e.scope = e.scope /\ p.e.parent = m /\ p.e.id = e.id
    BY <1>0, <2>1 DEF E
  <2>3. PICK q : q = Opens(o, e.scope, m, "calls")
    OBVIOUS
  <2> HIDE DEF again
  <2>4. p.o = [q EXCEPT !.placed = IF again THEN q.placed ELSE q.placed + 1,
                        !.moved = With(q.moved, e.parent, m)]
    BY <2>1, <2>3
  <2>5. /\ Ordering(q) /\ q.newest = [o.newest EXCEPT ![e.scope] = <<m, "calls">>]
        /\ q.seen = o.seen \cup {m} /\ q.placed = o.placed /\ q.renamed = o.renamed
    BY <2>3 DEF Opens, Ordering
  <2>6. /\ Ordering(p.o) /\ p.o.newest = q.newest /\ p.o.seen = q.seen
        /\ p.o.placed = (IF again THEN q.placed ELSE q.placed + 1) /\ p.o.renamed = q.renamed
    BY <2>4, <2>5 DEF Ordering
  <2>7. Placing(o, e, p, m)
    BY <2>2, <2>5, <2>6 DEF Placing, Named
  <2> QED
    BY <1>2, <2>0, <2>2, <2>5, <2>6, <2>7 DEF again, CallPlaced
<1> QED
  BY <1>1, <1>2

\* Messages that are not shown yet.
LEMMA NewNames ==
  ASSUME NEW n \in Nat, NEW k, NEW o, NEW u \in Readings, NEW s \in Scopes, o.placed \in Nat,
         Shows(n, k, o, u, s), NEW m,
         \/ s # Chat /\ m = NextMade(u, s)
         \/ m = Placed(o, s)
         \/ s = Chat /\ m = <<Chat, "run", n>> /\ m \notin o.seen
         \/ s = Chat /\ \E c \in Calls : /\ c[1] = Entry /\ m = <<Chat, "result", c[2]>>
                                         /\ k.tool[c] # "done"
  PROVE  m \notin k.shown[s]
<1>1. SUFFICES ASSUME m \in k.shown[s] PROVE FALSE
  OBVIOUS
<1>2. Given(n, k, o, u, s, m) /\ u.ids[s] \in Nat
  BY <1>1, ReadingFields DEF Shows
<1>3. CASE \E i \in 1..u.ids[s] : m = Made(s, i)
  <2>1. PICK i \in 1..u.ids[s] : m = <<s, "made", i>>
    BY <1>3 DEF Made
  <2>2. m[2] = "made" /\ m[3] = i
    BY <2>1
  <2>3. s # Chat /\ m = <<s, "made", u.ids[s] + 1>>
    BY <2>2 DEF Placed, NextMade, Made
  <2>4. m[3] = u.ids[s] + 1
    BY <2>3
  <2> QED
    BY <1>2, <2>2, <2>4
<1>4. CASE \E i \in 1..o.placed : m = <<s, "placed", i>>
  <2>1. PICK i \in 1..o.placed : m = <<s, "placed", i>>
    BY <1>4
  <2>2. m[2] = "placed" /\ m[3] = i
    BY <2>1
  <2>3. m = <<s, "placed", o.placed + 1>>
    BY <2>2 DEF Placed, NextMade, Made
  <2>4. m[3] = o.placed + 1
    BY <2>3
  <2> QED
    BY <2>2, <2>4
<1>5. CASE s = Chat /\ \E i \in 0..n : m = <<Chat, "run", i>> /\ (i = n => m \in o.seen)
  <2>1. PICK i \in 0..n : m = <<Chat, "run", i>> /\ (i = n => m \in o.seen)
    BY <1>5
  <2>2. m[2] = "run" /\ m[3] = i
    BY <2>1
  <2>3. m = <<Chat, "run", n>> /\ m \notin o.seen
    BY <1>5, <2>2 DEF Placed, NextMade, Made
  <2>4. m[3] = n
    BY <2>3
  <2> QED
    BY <2>1, <2>2, <2>3, <2>4
<1>6. CASE s = Chat /\ \E c \in Calls : /\ c[1] = Entry /\ m = <<Chat, "result", c[2]>>
                                        /\ k.tool[c] = "done"
  <2>1. PICK c \in Calls : c[1] = Entry /\ m = <<Chat, "result", c[2]>> /\ k.tool[c] = "done"
    BY <1>6
  <2>2. m[2] = "result" /\ m[3] = c[2]
    BY <2>1
  <2>3. PICK d \in Calls : d[1] = Entry /\ m = <<Chat, "result", d[2]>> /\ k.tool[d] # "done"
    BY <1>6, <2>2 DEF Placed, NextMade, Made
  <2>4. d[2] = c[2]
    BY <2>2, <2>3
  <2>5. d = c
    BY <2>1, <2>3, <2>4, CallFields
  <2> QED
    BY <2>1, <2>3, <2>5
<1> QED
  BY <1>2, <1>3, <1>4, <1>5, <1>6 DEF Given

\* What was given stays so as the run goes on.
Goes(k, o, u, l, p, w) ==
  /\ k.answers \subseteq l.answers /\ o.placed \in Nat /\ p.placed \in Nat /\ o.placed <= p.placed
  /\ o.seen \subseteq p.seen /\ w.seen \subseteq p.seen
  /\ \A s \in Scopes : u.ids[s] \in Nat /\ w.ids[s] \in Nat /\ u.ids[s] <= w.ids[s]
  /\ \A c \in Calls : k.tool[c] = "done" => l.tool[c] = "done"

\* A message that was given still is.
LEMMA GivenStill ==
  ASSUME NEW n \in Nat, NEW k, NEW o, NEW u, NEW l, NEW p, NEW w, Goes(k, o, u, l, p, w),
         NEW s \in Scopes, NEW m, Given(n, k, o, u, s, m)
  PROVE  Given(n, l, p, w, s, m)
<1>1. CASE \E i \in 1..u.ids[s] : m = Made(s, i)
  <2>1. PICK i \in 1..u.ids[s] : m = Made(s, i)
    BY <1>1
  <2>2. i \in 1..w.ids[s]
    BY DEF Goes
  <2> QED
    BY <2>1, <2>2 DEF Given
<1>2. CASE \E i \in 1..o.placed : m = <<s, "placed", i>>
  <2>1. PICK i \in 1..o.placed : m = <<s, "placed", i>>
    BY <1>2
  <2>2. i \in 1..p.placed
    BY DEF Goes
  <2> QED
    BY <2>1, <2>2 DEF Given
<1>3. CASE s = Chat /\ \E i \in 0..n : m = <<Chat, "run", i>> /\ (i = n => m \in o.seen)
  BY <1>3 DEF Given, Goes
<1>4. CASE s = Chat /\ \E c \in Calls : /\ c[1] = Entry /\ m = <<Chat, "result", c[2]>>
                                        /\ k.tool[c] = "done"
  BY <1>4 DEF Given, Goes
<1> QED
  BY <1>1, <1>2, <1>3, <1>4 DEF Given

\* Scopes where no message begins, and one where one does.
LEMMA ShowsStill ==
  ASSUME NEW n \in Nat, NEW k, NEW o, NEW u, NEW l, NEW p, NEW w, Goes(k, o, u, l, p, w),
         NEW s \in Scopes, Shows(n, k, o, u, s),
         p.newest[s] = o.newest[s], l.shown[s] = k.shown[s], l.newest[s] = k.newest[s],
         l.saying[s] \in {k.saying[s], None}, l.thinking[s] \in {k.thinking[s], None}
  PROVE  Shows(n, l, p, w, s)
<1>1. \A m \in l.shown[s] : Given(n, l, p, w, s, m)
  BY GivenStill DEF Shows
<1>2. /\ p.newest[s] = <<None, "none">> \/ p.newest[s][1] = l.newest[s]
      /\ l.newest[s] # None => l.newest[s] \in l.shown[s]
  BY DEF Shows
<1>3. /\ l.saying[s] # None => l.newest[s] \in {l.saying[s]} \cup l.answers
      /\ l.thinking[s] # None => l.newest[s] \in {l.thinking[s]} \cup l.answers
  BY DEF Shows, Goes
<1> QED
  BY <1>1, <1>2, <1>3 DEF Shows

\* A scope where a message begins shows it as its newest.
LEMMA ShowsMore ==
  ASSUME NEW n \in Nat, NEW k, NEW o, NEW u, NEW l, NEW p, NEW w, Goes(k, o, u, l, p, w),
         NEW s \in Scopes, Shows(n, k, o, u, s), NEW m,
         m \in k.shown[s] \/ Given(n, l, p, w, s, m),
         p.newest[s][1] = m, l.shown[s] = k.shown[s] \cup {m}, l.newest[s] = m,
         l.saying[s] # None => m \in {l.saying[s]} \cup l.answers,
         l.thinking[s] # None => m \in {l.thinking[s]} \cup l.answers
  PROVE  Shows(n, l, p, w, s)
<1>1. \A i \in l.shown[s] : Given(n, l, p, w, s, i)
  BY GivenStill DEF Shows
<1> QED
  BY <1>1 DEF Shows

\* An event the response sends, and what it makes of what was heard.
Sending(n, k, o, u, e, p, l, w) ==
  /\ Heard(n, k, o, u) /\ Allowed(n, u, e) /\ e.type # "finish"
  /\ p = Place(o, e) /\ l = Folds(k, p.e) /\ w = Reads(u, e)

\* Cards and calls, and what is being thought, are heard as they are read.
LEMMA HeardBoard ==
  ASSUME NEW n \in Nat, NEW k, NEW o, NEW u, NEW e, NEW p, NEW l, NEW w,
         Sending(n, k, o, u, e, p, l, w)
  PROVE  /\ Client(l) /\ u \in Readings /\ w \in Readings /\ e \in Events
         /\ p.e.type = e.type /\ p.e.scope = e.scope /\ e.type \in Kinds
         /\ e.type \notin {"text_start", "text", "text_end"} => p.e.id = e.id
         /\ e.type # "call_start" => p.e.parent = e.parent
         /\ l.running = w.running /\ l.card = w.card /\ l.tool = w.tool
         /\ l.thinking = w.thinking
<1>1. /\ Heard(n, k, o, u) /\ Allowed(n, u, e) /\ e.type # "finish"
      /\ p = Place(o, e) /\ l = Folds(k, p.e) /\ w = Reads(u, e)
  BY DEF Sending
<1>2. u \in Readings /\ w \in Readings /\ e \in Events
  BY <1>1, ReadsOn
<1>3. e.type \in Kinds
  BY <1>2 DEF Events
<1>4. /\ p.e.type = e.type /\ p.e.scope = e.scope
      /\ e.type \notin {"text_start", "text", "text_end"} => p.e.id = e.id
      /\ e.type # "call_start" => p.e.parent = e.parent
  BY <1>1, <1>2, Places
<1>5. PICK f : f = p.e
  OBVIOUS
<1>6. /\ Client(k) /\ k.running = u.running /\ k.card = u.card /\ k.tool = u.tool
      /\ k.thinking = u.thinking /\ u.running \in BOOLEAN
  BY <1>1, ReadingFields DEF Heard, Holds
<1>7. f.type \in Kinds /\ f.type # "finish" /\ l = Folds(k, f)
  BY <1>1, <1>3, <1>4, <1>5
<1>8. Client(l) /\ FoldedBoard(k, f, l)
  BY <1>6, <1>7, FoldsFields, Zenon
<1>9. l.running = w.running
  BY <1>1, <1>4, <1>5, <1>6, <1>8 DEF FoldedBoard, Reads
<1>10. l.card = w.card
  BY <1>1, <1>4, <1>5, <1>6, <1>8 DEF FoldedBoard, Reads
<1>11. l.tool = w.tool
  BY <1>1, <1>4, <1>5, <1>6, <1>8 DEF FoldedBoard, Reads
<1>12. l.thinking = w.thinking
  BY <1>1, <1>4, <1>5, <1>6, <1>8 DEF FoldedBoard, Reads
<1> QED
  BY <1>2, <1>3, <1>4, <1>8, <1>9, <1>10, <1>11, <1>12

\* What it says and shows of them.
LEMMA HeardSpeech ==
  ASSUME NEW n \in Nat, NEW k, NEW o, NEW u, NEW e, NEW p, NEW l, NEW w,
         Sending(n, k, o, u, e, p, l, w)
  PROVE  FoldedSpeech(k, p.e, l)
<1>1. Client(k) /\ l = Folds(k, p.e) /\ e.type # "finish"
  BY DEF Sending, Heard
<1>2. /\ p.e.type = e.type /\ p.e.scope = e.scope /\ e.type \in Kinds
      /\ e.type # "call_start" => p.e.parent = e.parent
  BY HeardBoard
<1>3. PICK f : f = p.e
  OBVIOUS
<1>4. f.type \in Kinds /\ f.type # "finish" /\ l = Folds(k, f)
  BY <1>1, <1>2, <1>3
<1> QED
  BY <1>1, <1>3, <1>4, FoldsFields, Zenon

\* Nothing given is taken back.
LEMMA SendingGoes ==
  ASSUME NEW n \in Nat, NEW k, NEW o, NEW u, NEW e, NEW p, NEW l, NEW w,
         Sending(n, k, o, u, e, p, l, w),
         p.o.placed \in {o.placed, o.placed + 1}, o.seen \subseteq p.o.seen,
         Names(e) \subseteq p.o.seen
  PROVE  Goes(k, o, u, l, p.o, w)
<1>1. /\ Heard(n, k, o, u) /\ Allowed(n, u, e) /\ w = Reads(u, e)
  BY DEF Sending
<1>2. /\ u \in Readings /\ w \in Readings /\ e \in Events /\ l.tool = w.tool
  BY HeardBoard
<1>3. k.answers \subseteq l.answers
  <2>1. FoldedSpeech(k, p.e, l)
    BY HeardSpeech, Zenon
  <2> QED
    BY <2>1 DEF FoldedSpeech
<1>4. o.placed \in Nat /\ p.o.placed \in Nat /\ o.placed <= p.o.placed
  BY <1>1 DEF Heard, Shown
<1>5. w.seen \subseteq p.o.seen
  <2>1. w.seen = u.seen \cup Names(e) /\ u.seen \subseteq o.seen
    BY <1>1, ReadsHere DEF Heard, Shown
  <2> QED
    BY <2>1
<1>6. ASSUME NEW s \in Scopes
      PROVE  u.ids[s] \in Nat /\ w.ids[s] \in Nat /\ u.ids[s] <= w.ids[s]
  <2>1. u.ids[s] \in Nat /\ w.ids[s] \in Nat
    BY <1>2, ReadingFields
  <2>2. w.ids = IF NextMade(u, e.scope) \in Names(e)
                THEN [u.ids EXCEPT ![e.scope] = @ + 1] ELSE u.ids
    BY <1>1 DEF Reads
  <2>3. e.scope \in Scopes /\ u.ids \in [Scopes -> Nat]
    BY <1>2, ReadingFields DEF Events
  <2>4. w.ids[s] = u.ids[s] \/ w.ids[s] = u.ids[s] + 1
    BY <2>2, <2>3
  <2> QED
    BY <2>1, <2>4
<1>7. ASSUME NEW c \in Calls, k.tool[c] = "done"
      PROVE  l.tool[c] = "done"
  <2>1. w.tool[c] = IF c = e.id /\ e.type = "call_start" THEN "open"
                    ELSE IF c = e.id /\ e.type = "call_end" THEN "ended"
                    ELSE IF c = e.id /\ e.type = "result" THEN "done" ELSE u.tool[c]
    BY <1>1, ReadsHere
  <2>2. u.tool[c] = "done"
    BY <1>1, <1>7 DEF Heard, Holds
  <2>3. ~(c = e.id /\ e.type \in {"call_start", "call_end"})
    BY <1>1, <2>2 DEF Allowed, Speech, CallAllowed, Closings
  <2> QED
    BY <1>2, <2>1, <2>2, <2>3
<1> QED
  BY <1>1, <1>3, <1>4, <1>5, <1>6, <1>7 DEF Goes

\* An event with which no message begins is heard as it is read.
LEMMA HeardSaids ==
  ASSUME NEW o, NEW p, DOMAIN p.renamed = DOMAIN o.renamed,
         \A m \in DOMAIN p.renamed : p.renamed[m] = o.renamed[m], NEW m
  PROVE  Said(p, m) = Said(o, m)
  BY DEF Said

\* Scopes that show the same, show it still.
LEMMA HeardShown ==
  ASSUME NEW n \in Nat, NEW k, NEW o, NEW u, NEW e, NEW p, NEW l, NEW w,
         Sending(n, k, o, u, e, p, l, w), e.type \notin Beginnings,
         p.o.newest = o.newest, p.o.seen = o.seen, p.o.placed = o.placed,
         \A s \in Scopes : l.saying[s] \in {k.saying[s], None}
  PROVE  Shown(n, l, p.o, w)
<1>1. /\ Heard(n, k, o, u) /\ Allowed(n, u, e) /\ w = Reads(u, e) /\ Shown(n, k, o, u)
  BY DEF Sending, Heard
<1>2. Names(e) = {}
  BY DEF Names, Beginnings
<1>3. Goes(k, o, u, l, p.o, w)
  BY <1>1, <1>2, SendingGoes DEF Shown
<1>4. FoldedSpeech(k, p.e, l) /\ p.e.type = e.type /\ l.thinking = w.thinking
  <2>1. FoldedSpeech(k, p.e, l)
    BY HeardSpeech, Zenon
  <2>2. p.e.type = e.type /\ l.thinking = w.thinking
    BY HeardBoard
  <2> QED
    BY <2>1, <2>2
<1>5. l.shown = k.shown /\ l.newest = k.newest
  BY <1>4 DEF FoldedSpeech
<1>6. \A s \in Scopes : l.thinking[s] \in {k.thinking[s], None}
  <2>1. w.thinking = CASE e.type = "reasoning_start" -> [u.thinking EXCEPT ![e.scope] = e.id]
                       [] e.type = "reasoning_end" -> [u.thinking EXCEPT ![e.scope] = None]
                       [] OTHER -> u.thinking
    BY <1>1 DEF Reads
  <2>2. e.type # "reasoning_start" /\ u.thinking \in [Scopes -> Ids] /\ k.thinking = u.thinking
    BY <1>1, ReadingFields DEF Beginnings, Heard, Holds
  <2> QED
    BY <1>4, <2>1, <2>2
<1>7. ASSUME NEW s \in Scopes
      PROVE  Shows(n, l, p.o, w, s)
  <2>1. Shows(n, k, o, u, s)
    BY <1>1 DEF Shown
  <2>2. PICK v : v = p.o
    OBVIOUS
  <2>3. /\ Goes(k, o, u, l, v, w) /\ v.newest[s] = o.newest[s] /\ l.shown[s] = k.shown[s]
        /\ l.newest[s] = k.newest[s] /\ l.saying[s] \in {k.saying[s], None}
        /\ l.thinking[s] \in {k.thinking[s], None}
    BY <1>3, <1>5, <1>6, <2>2
  <2>4. Shows(n, l, v, w, s)
    BY <2>1, <2>3, ShowsStill, Zenon
  <2> QED
    BY <2>2, <2>4
<1>8. w.seen \subseteq p.o.seen
  BY <1>3 DEF Goes
<1> QED
  BY <1>1, <1>5, <1>7, <1>8 DEF Shown

\* What begins no message leaves all of it where it was.
LEMMA HeardOther ==
  ASSUME NEW n \in Nat, NEW k, NEW o, NEW u, NEW e, NEW p, NEW l, NEW w,
         Sending(n, k, o, u, e, p, l, w), e.type \notin Beginnings \cup {"text_end"}
  PROVE  /\ Heard(n, l, p.o, w) /\ l.saying = k.saying
         /\ l.shown = k.shown /\ l.newest = k.newest /\ l.answers = k.answers
         /\ e.type = "text" => p.e.id = Said(o, e.id)
<1>1. /\ Heard(n, k, o, u) /\ Allowed(n, u, e) /\ w = Reads(u, e) /\ p = Place(o, e)
      /\ Ordering(o) /\ Holds(k, o, u) /\ u \in Readings
  BY DEF Sending, Heard
<1>2. /\ Client(l) /\ w \in Readings /\ e \in Events /\ p.e.type = e.type
      /\ l.running = w.running /\ l.card = w.card /\ l.tool = w.tool /\ l.thinking = w.thinking
  BY HeardBoard
<1>20. FoldedSpeech(k, p.e, l)
  BY HeardSpeech, Zenon
<1>3. l.saying = k.saying /\ l.shown = k.shown /\ l.newest = k.newest /\ l.answers = k.answers
  BY <1>2, <1>20 DEF FoldedSpeech, Beginnings
<1>4. /\ Ordering(p.o) /\ p.o.newest = o.newest /\ p.o.seen = o.seen /\ p.o.placed = o.placed
      /\ DOMAIN p.o.renamed = DOMAIN o.renamed
      /\ \A m \in DOMAIN p.o.renamed : p.o.renamed[m] = o.renamed[m]
      /\ e.type = "text" => p.e.id = Said(o, e.id)
  <2>1. CASE e.type = "text"
    <3>1. Ordering(o) /\ e \in Events /\ p = Place(o, e) /\ e.type \in {"text", "text_end"}
      BY <1>1, <1>2, <2>1
    <3> QED
      BY <2>1, <3>1, PlaceSaid
  <2>2. CASE e.type # "text"
    <3>1. p.o = o
      BY <1>1, <1>2, <2>2, PlaceAsIs
    <3>2. \A m \in DOMAIN p.o.renamed : p.o.renamed[m] = o.renamed[m]
      BY <3>1
    <3> QED
      BY <1>1, <2>2, <3>1, <3>2
  <2> QED
    BY <2>1, <2>2
<1>5. w.saying = u.saying
  BY <1>1 DEF Reads, Beginnings
<1>6. Shown(n, l, p.o, w)
  BY <1>3, <1>4, HeardShown
<1>7. \A m : Said(p.o, m) = Said(o, m)
  BY <1>4, HeardSaids
<1>8. Holds(l, p.o, w)
  BY <1>1, <1>2, <1>3, <1>4, <1>5, <1>7 DEF Holds
<1> QED
  BY <1>2, <1>3, <1>4, <1>6, <1>8 DEF Heard

\* Text that ends ends by the name it was given.
LEMMA HeardTextEnd ==
  ASSUME NEW n \in Nat, NEW k, NEW o, NEW u, NEW e, NEW p, NEW l, NEW w,
         Sending(n, k, o, u, e, p, l, w), e.type = "text_end"
  PROVE  /\ Heard(n, l, p.o, w) /\ l.saying = [k.saying EXCEPT ![e.scope] = None]
         /\ l.shown = k.shown /\ l.newest = k.newest /\ l.answers = k.answers
         /\ p.e.id = Said(o, e.id)
<1>1. /\ Heard(n, k, o, u) /\ Allowed(n, u, e) /\ w = Reads(u, e) /\ p = Place(o, e)
      /\ Ordering(o) /\ Holds(k, o, u) /\ u \in Readings
  BY DEF Sending, Heard
<1>2. /\ Client(l) /\ w \in Readings /\ e \in Events /\ p.e.type = e.type /\ p.e.scope = e.scope
      /\ l.running = w.running /\ l.card = w.card /\ l.tool = w.tool /\ l.thinking = w.thinking
  BY HeardBoard
<1>20. FoldedSpeech(k, p.e, l)
  BY HeardSpeech, Zenon
<1>3. /\ l.saying = [k.saying EXCEPT ![e.scope] = None]
      /\ l.shown = k.shown /\ l.newest = k.newest /\ l.answers = k.answers
  BY <1>2, <1>20 DEF FoldedSpeech, Beginnings
<1>4. /\ Ordering(p.o) /\ p.e.id = Said(o, e.id)
      /\ p.o.newest = o.newest /\ p.o.seen = o.seen /\ p.o.placed = o.placed
      /\ DOMAIN p.o.renamed = DOMAIN o.renamed \ {e.id}
      /\ \A m \in DOMAIN p.o.renamed : p.o.renamed[m] = o.renamed[m]
  BY <1>1, <1>2, PlaceSaid
<1>5. /\ w.saying = [u.saying EXCEPT ![e.scope] = None] /\ e.scope \in Scopes
      /\ u.saying \in [Scopes -> Ids] /\ u.saying[e.scope] = e.id /\ e.id # None
  BY <1>1, ReadingFields DEF Reads, Events, Allowed, Speech, CallAllowed, Closings
<1>6. /\ w.saying[e.scope] = None /\ w.saying = [s \in Scopes |-> w.saying[s]]
      /\ \A s \in Scopes \ {e.scope} : w.saying[s] = u.saying[s] /\ u.saying[s] # e.id
  BY <1>1, <1>5 DEF Holds
<1>7. /\ k.saying = [s \in Scopes |-> Said(o, u.saying[s])]
      /\ l.saying = [s \in Scopes |-> IF s = e.scope THEN None ELSE Said(o, u.saying[s])]
  BY <1>1, <1>3, <1>5 DEF Holds
<1>8. Said(p.o, None) = None
  BY <1>1, <1>4 DEF Said, Holds
<1>9. \A s \in Scopes \ {e.scope} : Said(p.o, u.saying[s]) = Said(o, u.saying[s])
  BY <1>4, <1>6 DEF Said
<1>10. l.saying = [s \in Scopes |-> Said(p.o, w.saying[s])]
  BY <1>6, <1>7, <1>8, <1>9
<1>11. \A m \in DOMAIN p.o.renamed : /\ p.o.renamed[m] \in Messages /\ m # None
                                     /\ \E s \in Scopes : m = w.saying[s]
  <2>1. ASSUME NEW m \in DOMAIN p.o.renamed
        PROVE  /\ p.o.renamed[m] \in Messages /\ m # None /\ \E s \in Scopes : m = w.saying[s]
    <3>1. m \in DOMAIN o.renamed /\ m # e.id /\ p.o.renamed[m] = o.renamed[m]
      BY <1>4
    <3>2. PICK s \in Scopes : m = u.saying[s]
      BY <1>1, <3>1 DEF Holds
    <3>3. s # e.scope
      BY <1>5, <3>1, <3>2
    <3> QED
      BY <1>1, <1>6, <3>1, <3>2, <3>3 DEF Holds
  <2> QED
    BY <2>1
<1>12. \A s \in Scopes : w.saying[s] # None => w.saying[s][1] = s
  BY <1>1, <1>6 DEF Holds
<1>13. Holds(l, p.o, w)
  BY <1>2, <1>10, <1>11, <1>12 DEF Holds
<1>14. \A s \in Scopes : l.saying[s] \in {k.saying[s], None}
  BY <1>5, <1>7
<1>15. Shown(n, l, p.o, w)
  BY <1>4, <1>14, HeardShown DEF Beginnings
<1> QED
  BY <1>2, <1>3, <1>4, <1>13, <1>15 DEF Heard

-----------------------------------------------------------------------------
(* Events with which a message begins, or takes a call.                    *)

\* What the client says of a scope that is quiet.
LEMMA HeardQuiet ==
  ASSUME NEW k, NEW o, NEW u \in Readings, Holds(k, o, u), NEW s \in Scopes, Quietly(u, s)
  PROVE  k.saying[s] = None /\ k.thinking[s] = None
<1>1. None \notin DOMAIN o.renamed
  BY DEF Holds
<1> QED
  BY <1>1 DEF Holds, Quietly, Said

\* A message the event names or AppendOnly does is one of the scope's.
LEMMA GivenNow ==
  ASSUME NEW n \in Nat, NEW o, NEW u, NEW e, Allowed(n, u, e), e.type \in Beginnings,
         NEW w, w = Reads(u, e), NEW l, l.tool = w.tool, NEW p, Named(e) \in p.seen
  PROVE  /\ Names(e) = {Named(e)} /\ Named(e) \in Messages /\ Named(e) # None
         /\ Given(n, l, p, w, e.scope, Named(e))
<1>1. e.scope \in Scopes /\ u \in Readings /\ Names(e) = {Named(e)}
  BY AllowedKinds DEF Names, Named, Beginnings
<1>2. u.ids[e.scope] \in Nat
  BY <1>1, ReadingFields
<1>3. w.ids[e.scope] = IF NextMade(u, e.scope) \in Names(e) THEN u.ids[e.scope] + 1
                       ELSE u.ids[e.scope]
  BY ReadsHere
<1>4. \/ Named(e) = NextMade(u, e.scope)
      \/ e.type = "call_start" /\ \E i \in 1..u.ids[e.scope] : Named(e) = Made(e.scope, i)
      \/ e.scope = Chat /\ Named(e) = <<Chat, "run", n>>
      \/ /\ e.type = "result" /\ e.scope = Chat /\ e.id \in Calls /\ e.id[1] = Entry
         /\ Named(e) = <<Chat, "result", e.id[2]>>
  <2>1. CASE e.type \in {"text_start", "reasoning_start"}
    <3>1. Speech(n, u, e)
      BY <2>1 DEF Allowed, Closings, CallAllowed
    <3> QED
      BY <2>1, <3>1 DEF Speech, Named
  <2>2. CASE e.type \in {"call_start", "result"}
    <3>1. CallAllowed(n, u, e)
      BY <2>2 DEF Allowed, Closings, Speech
    <3> QED
      BY <2>2, <3>1 DEF CallAllowed, Named
  <2> QED
    BY <2>1, <2>2 DEF Beginnings
<1>5. CASE Named(e) = NextMade(u, e.scope)
  <2>1. Named(e) \in Messages /\ Named(e) # None
    BY <1>1, <1>2, <1>5, MadeIds DEF NextMade
  <2>2. w.ids[e.scope] = u.ids[e.scope] + 1
    BY <1>1, <1>3, <1>5
  <2>3. u.ids[e.scope] + 1 \in 1..w.ids[e.scope]
    BY <1>2, <2>2
  <2> QED
    BY <1>1, <1>5, <2>1, <2>3 DEF Given, NextMade
<1>6. CASE e.type = "call_start" /\ \E i \in 1..u.ids[e.scope] : Named(e) = Made(e.scope, i)
  <2>1. PICK i \in 1..u.ids[e.scope] : Named(e) = Made(e.scope, i)
    BY <1>6
  <2>2. Named(e) \in Messages /\ Named(e) # None
    BY <1>1, <1>2, <2>1, MadeIds
  <2>3. i \in 1..w.ids[e.scope]
    BY <1>2, <1>3
  <2> QED
    BY <1>1, <2>1, <2>2, <2>3 DEF Given
<1>7. CASE e.scope = Chat /\ Named(e) = <<Chat, "run", n>>
  <2>1. Named(e) \in Messages /\ Named(e) # None
    <3>1. Named(e) \in Scopes \X {"made", "run", "result", "placed"} \X Nat
      BY <1>1, <1>7
    <3> QED
      BY <3>1, SubagentStreamAssumption DEF Messages
  <2>2. n \in 0..n
    OBVIOUS
  <2> QED
    BY <1>1, <1>7, <2>1, <2>2 DEF Given
<1>8. CASE /\ e.type = "result" /\ e.scope = Chat /\ e.id \in Calls /\ e.id[1] = Entry
           /\ Named(e) = <<Chat, "result", e.id[2]>>
  <2>1. Named(e) \in Messages /\ Named(e) # None
    <3>1. e.id[2] \in Nat
      BY <1>8, CallFields
    <3>2. Named(e) \in Scopes \X {"made", "run", "result", "placed"} \X Nat
      BY <1>1, <1>8, <3>1
    <3> QED
      BY <3>2, SubagentStreamAssumption DEF Messages
  <2>2. w.tool[e.id] = "done"
    BY <1>8, ReadsHere
  <2> QED
    BY <1>1, <1>8, <2>1, <2>2 DEF Given
<1> QED
  BY <1>4, <1>5, <1>6, <1>7, <1>8

\* One AppendOnly names is one too.
LEMMA GivenPlaced ==
  ASSUME NEW n \in Nat, NEW l, NEW o, o.placed \in Nat, NEW p, p.placed = o.placed + 1, NEW w,
         NEW s \in Scopes
  PROVE  /\ Placed(o, s) \in Messages /\ Placed(o, s) # None
         /\ Given(n, l, p, w, s, Placed(o, s))
<1>1. Placed(o, s) \in Scopes \X {"made", "run", "result", "placed"} \X Nat
  BY DEF Placed
<1>2. o.placed + 1 \in 1..p.placed
  OBVIOUS
<1> QED
  BY <1>1, <1>2, SubagentStreamAssumption DEF Messages, Given, Placed

\* The scope of the message shows it, and the others what they did.
LEMMA HeardMore ==
  ASSUME NEW n \in Nat, NEW k, NEW o, NEW u, NEW e, NEW p, NEW l, NEW w,
         Sending(n, k, o, u, e, p, l, w), e.type \in Beginnings,
         NEW m \in Messages, Placing(o, e, p, m), p.o.placed \in {o.placed, o.placed + 1},
         Named(e) \in p.o.seen,
         m \in k.shown[e.scope] \/ Given(n, l, p.o, w, e.scope, m),
         l.saying[e.scope] # None => m \in {l.saying[e.scope]} \cup l.answers,
         l.thinking[e.scope] # None => m \in {l.thinking[e.scope]} \cup l.answers
  PROVE  /\ Shown(n, l, p.o, w)
         /\ l.shown = [k.shown EXCEPT ![e.scope] = @ \cup {m}]
         /\ l.newest = [k.newest EXCEPT ![e.scope] = m]
<1>1. /\ Heard(n, k, o, u) /\ Allowed(n, u, e) /\ w = Reads(u, e) /\ Shown(n, k, o, u)
      /\ Holds(k, o, u) /\ u \in Readings
  BY DEF Sending, Heard
<1>2. e.scope \in Scopes /\ Names(e) = {Named(e)}
  BY <1>1, AllowedKinds DEF Names, Named, Beginnings
<1>3. p.e.type = e.type /\ p.e.scope = e.scope /\ l.thinking = w.thinking
  BY HeardBoard
<1>4. FoldedSpeech(k, p.e, l)
  BY HeardSpeech, Zenon
<1>5. PICK v : v = p.o
  OBVIOUS
<1>6. /\ v.seen = o.seen \cup {m} /\ m = Named(p.e)
      /\ \E kind : v.newest = [o.newest EXCEPT ![e.scope] = <<m, kind>>]
  BY <1>5 DEF Placing
<1>7. Goes(k, o, u, l, v, w)
  BY <1>2, <1>5, <1>6, SendingGoes
<1>8. /\ l.shown = [k.shown EXCEPT ![e.scope] = @ \cup {m}]
      /\ l.newest = [k.newest EXCEPT ![e.scope] = m]
  BY <1>3, <1>4, <1>6 DEF FoldedSpeech
<1>9. /\ k.shown \in [Scopes -> SUBSET Messages] /\ k.newest \in [Scopes -> Messages \cup {None}]
      /\ u.seen \subseteq o.seen /\ o.placed \in Nat
      /\ o.newest = [s \in Scopes |-> o.newest[s]]
  BY <1>1 DEF Shown
<1>10. /\ l.shown \in [Scopes -> SUBSET Messages] /\ l.newest \in [Scopes -> Messages \cup {None}]
       /\ v.newest = [s \in Scopes |-> v.newest[s]]
  <2>1. l.shown \in [Scopes -> SUBSET Messages]
    <3>1. k.shown[e.scope] \cup {m} \in SUBSET Messages
      BY <1>2, <1>9
    <3> QED
      BY <1>2, <1>8, <1>9, <3>1
  <2>2. l.newest \in [Scopes -> Messages \cup {None}]
    BY <1>2, <1>8, <1>9
  <2>3. v.newest = [s \in Scopes |-> v.newest[s]]
    BY <1>6, <1>9
  <2> QED
    BY <2>1, <2>2, <2>3
<1>11. v.placed \in Nat /\ w.seen \subseteq v.seen
  BY <1>7 DEF Goes
<1>12. Shows(n, l, v, w, e.scope)
  <2>1. v.newest[e.scope][1] = m /\ l.shown[e.scope] = k.shown[e.scope] \cup {m}
    BY <1>2, <1>6, <1>8, <1>9
  <2>2. l.newest[e.scope] = m /\ Shows(n, k, o, u, e.scope)
    BY <1>1, <1>2, <1>8, <1>9 DEF Shown
  <2> QED
    BY <1>2, <1>5, <1>7, <2>1, <2>2, ShowsMore
<1>13. ASSUME NEW s \in Scopes, s # e.scope
       PROVE  Shows(n, l, v, w, s)
  <2>1. v.newest[s] = o.newest[s] /\ l.shown[s] = k.shown[s] /\ l.newest[s] = k.newest[s]
    BY <1>2, <1>6, <1>8, <1>9, <1>13
  <2>2. Shows(n, k, o, u, s)
    BY <1>1 DEF Shown
  <2>3. k.saying \in [Scopes -> {k.saying[x] : x \in Scopes}]
    BY <1>1 DEF Holds
  <2>4. l.saying[s] = k.saying[s]
    BY <1>3, <1>4, <1>13, <2>3 DEF FoldedSpeech, Beginnings
  <2>5. l.thinking[s] = k.thinking[s]
    <3>1. Elsewhere(u, w, e.scope)
      BY <1>1, ReadsOn DEF Beginnings
    <3> QED
      BY <1>1, <1>3, <1>13, <3>1 DEF Elsewhere, Holds
  <2>6. l.saying[s] \in {k.saying[s], None} /\ l.thinking[s] \in {k.thinking[s], None}
    BY <2>4, <2>5
  <2> QED
    BY <1>7, <2>1, <2>2, <2>6, ShowsStill, Zenon
<1>14. Shown(n, l, v, w)
  BY <1>10, <1>11, <1>12, <1>13 DEF Shown
<1> QED
  BY <1>5, <1>8, <1>14

\* What the client says is as it was, when no text begins.
LEMMA HeardHolds ==
  ASSUME NEW n \in Nat, NEW k, NEW o, NEW u, NEW e, NEW p, NEW l, NEW w,
         Sending(n, k, o, u, e, p, l, w), e.type \in Beginnings \ {"text_start"},
         p.o.renamed = o.renamed
  PROVE  Holds(l, p.o, w) /\ l.saying = k.saying
<1>1. w = Reads(u, e) /\ Holds(k, o, u)
  BY DEF Sending, Heard
<1>2. /\ p.e.type = e.type /\ l.running = w.running /\ l.card = w.card /\ l.tool = w.tool
      /\ l.thinking = w.thinking
  BY HeardBoard
<1>3. FoldedSpeech(k, p.e, l)
  BY HeardSpeech, Zenon
<1>4. l.saying = k.saying
  BY <1>2, <1>3 DEF FoldedSpeech, Beginnings
<1>5. w.saying = u.saying
  BY <1>1 DEF Reads, Beginnings
<1>6. \A m : Said(p.o, m) = Said(o, m)
  BY DEF Said
<1> QED
  BY <1>1, <1>2, <1>4, <1>5, <1>6 DEF Holds

\* A message that is new to a scope, or its newest.
Joins(k, s, m) == m \notin k.shown[s] \/ m = k.newest[s]

\* It is shown, and the newest now.
Grows(k, l, s, m) ==
  l.shown = [k.shown EXCEPT ![s] = @ \cup {m}] /\ l.newest = [k.newest EXCEPT ![s] = m]

\* A result, and reasoning that begins, is heard in a new message.
LEMMA HeardResult ==
  ASSUME NEW n \in Nat, NEW k, NEW o, NEW u, NEW e, NEW p, NEW l, NEW w,
         Sending(n, k, o, u, e, p, l, w), e.type \in {"reasoning_start", "result"}
  PROVE  /\ Heard(n, l, p.o, w) /\ l.saying = k.saying /\ p.e = e
         /\ Named(e) \notin k.shown[e.scope]
         /\ Grows(k, l, e.scope, Named(e))
         /\ e.type = "result" => l.answers = k.answers \cup {Named(e)}
         /\ e.type # "result" => l.answers = k.answers
<1>1. /\ Heard(n, k, o, u) /\ Allowed(n, u, e) /\ w = Reads(u, e) /\ Shown(n, k, o, u)
      /\ Holds(k, o, u) /\ u \in Readings /\ Ordering(o) /\ p = Place(o, e)
  BY DEF Sending, Heard
<1>2. /\ p.e.type = e.type /\ l.thinking = w.thinking /\ l.tool = w.tool /\ e \in Events
      /\ Client(l) /\ w \in Readings
  BY HeardBoard
<1>3. FoldedSpeech(k, p.e, l)
  BY HeardSpeech, Zenon
<1>4. /\ Placing(o, e, p, Named(e)) /\ p.e = e
      /\ p.o.placed = o.placed /\ p.o.renamed = o.renamed
  BY <1>1, <1>2, PlaceResult
<1>5. e.type \in Beginnings \ {"text_start"} /\ e.type \in Beginnings
  BY DEF Beginnings
<1>6. Holds(l, p.o, w) /\ l.saying = k.saying
  BY <1>4, <1>5, HeardHolds
<1>7. l.answers = IF e.type = "result" THEN k.answers \cup {Named(e)} ELSE k.answers
  BY <1>3, <1>4 DEF FoldedSpeech, Named
<1>8. Named(e) \in p.o.seen
  BY <1>4 DEF Placing
<1>9. /\ Named(e) \in Messages /\ Named(e) # None /\ Given(n, l, p.o, w, e.scope, Named(e))
  BY <1>1, <1>2, <1>5, <1>8, GivenNow
<1>10. e.scope \in Scopes
  BY <1>1, AllowedKinds
<1>11. l.saying[e.scope] # None => Named(e) \in {l.saying[e.scope]} \cup l.answers
  <2>1. CASE e.type = "result"
    BY <1>7, <2>1
  <2>2. CASE e.type = "reasoning_start"
    <3>1. Quietly(u, e.scope)
      BY <1>1, <2>2 DEF Allowed, Speech, CallAllowed, Closings
    <3> QED
      BY <1>1, <1>6, <1>10, <3>1, HeardQuiet
  <2> QED
    BY <2>1, <2>2
<1>12. l.thinking[e.scope] # None => Named(e) \in {l.thinking[e.scope]} \cup l.answers
  <2>1. CASE e.type = "result"
    BY <1>7, <2>1
  <2>2. CASE e.type = "reasoning_start"
    BY <1>1, <1>2, <2>2, ReadsHere DEF Named
  <2> QED
    BY <2>1, <2>2
<1>13. /\ Shown(n, l, p.o, w)
       /\ l.shown = [k.shown EXCEPT ![e.scope] = @ \cup {Named(e)}]
       /\ l.newest = [k.newest EXCEPT ![e.scope] = Named(e)]
  BY <1>4, <1>5, <1>8, <1>9, <1>11, <1>12, HeardMore
<1>14. Named(e) \notin k.shown[e.scope]
  <2>1. Shows(n, k, o, u, e.scope) /\ o.placed \in Nat
    BY <1>1, <1>10 DEF Shown
  <2>2. \/ e.scope # Chat /\ Named(e) = NextMade(u, e.scope)
        \/ e.scope = Chat /\ \E c \in Calls : /\ c[1] = Entry /\ k.tool[c] # "done"
                                              /\ Named(e) = <<Chat, "result", c[2]>>
    BY <1>1 DEF Allowed, Speech, CallAllowed, Closings, Named, Holds
  <2> QED
    BY <1>1, <1>10, <2>1, <2>2, NewNames
<1> QED
  BY <1>1, <1>2, <1>4, <1>6, <1>7, <1>13, <1>14 DEF Heard, Placing, Grows

\* A call is heard in a message that is new, or the newest.
LEMMA HeardCall ==
  ASSUME NEW n \in Nat, NEW k, NEW o, NEW u, NEW e, NEW p, NEW l, NEW w,
         Sending(n, k, o, u, e, p, l, w), e.type = "call_start"
  PROVE  /\ Heard(n, l, p.o, w) /\ l.saying = k.saying /\ p.e.id = e.id
         /\ Joins(k, e.scope, l.newest[e.scope])
         /\ Grows(k, l, e.scope, l.newest[e.scope])
         /\ l.answers = k.answers
<1>1. /\ Heard(n, k, o, u) /\ Allowed(n, u, e) /\ w = Reads(u, e) /\ Shown(n, k, o, u)
      /\ Holds(k, o, u) /\ u \in Readings /\ Ordering(o) /\ p = Place(o, e)
  BY DEF Sending, Heard
<1>2. /\ p.e.type = e.type /\ l.thinking = w.thinking /\ l.tool = w.tool /\ e \in Events
      /\ Client(l) /\ w \in Readings
  BY HeardBoard
<1>3. FoldedSpeech(k, p.e, l)
  BY HeardSpeech, Zenon
<1>30. CallPlaced(o, e, p)
  BY <1>1, <1>2, PlaceCalled
<1>4. /\ p.e.id = e.id /\ p.o.renamed = o.renamed
      /\ \/ /\ Placing(o, e, p, e.parent) /\ p.o.placed = o.placed
            /\ e.parent \notin o.seen \/ o.newest[e.scope][1] = e.parent
         \/ /\ \E m : /\ Placing(o, e, p, m) /\ m # None /\ o.newest[e.scope][1] = m
            /\ p.o.placed = o.placed /\ e.parent \in o.seen
         \/ /\ Placing(o, e, p, Placed(o, e.scope)) /\ p.o.placed = o.placed + 1
            /\ e.parent \in o.seen
  BY <1>30 DEF CallPlaced
<1>5. /\ e.type \in Beginnings \ {"text_start"} /\ e.type \in Beginnings
      /\ Named(e) = e.parent /\ e.scope \in Scopes
  BY <1>1, AllowedKinds DEF Beginnings, Named
<1>6. Holds(l, p.o, w) /\ l.saying = k.saying
  BY <1>4, <1>5, HeardHolds
<1>7. l.answers = k.answers
  BY <1>2, <1>3 DEF FoldedSpeech
<1>8. Quietly(u, e.scope)
  BY <1>1 DEF Allowed, Speech, CallAllowed, Closings
<1>9. l.saying[e.scope] = None /\ l.thinking[e.scope] = None
  <2>1. w.thinking = u.thinking
    BY <1>1 DEF Reads
  <2> QED
    BY <1>1, <1>2, <1>5, <1>6, <1>8, <2>1, HeardQuiet DEF Quietly
<1>10. /\ Shows(n, k, o, u, e.scope) /\ o.placed \in Nat /\ k.shown[e.scope] \subseteq Messages
       /\ k.newest \in [Scopes -> Messages \cup {None}]
  BY <1>1, <1>5 DEF Shown
<1>11. ASSUME o.newest[e.scope][1] # None
       PROVE  o.newest[e.scope][1] = k.newest[e.scope] /\ k.newest[e.scope] \in k.shown[e.scope]
  BY <1>10, <1>11 DEF Shows
<1>12. \E m \in Messages :
         /\ Placing(o, e, p, m) /\ p.o.placed \in {o.placed, o.placed + 1}
         /\ e.parent \in p.o.seen /\ Joins(k, e.scope, m)
         /\ m \in k.shown[e.scope] \/ Given(n, l, p.o, w, e.scope, m)
  <2>1. CASE /\ Placing(o, e, p, e.parent) /\ p.o.placed = o.placed
             /\ e.parent \notin o.seen \/ o.newest[e.scope][1] = e.parent
    <3>1. e.parent \in p.o.seen
      BY <2>1 DEF Placing
    <3>2. e.parent \in Messages /\ e.parent # None /\ Given(n, l, p.o, w, e.scope, e.parent)
      <4>1. PICK v : v = p.o
        OBVIOUS
      <4>2. Named(e) \in v.seen
        BY <1>5, <3>1, <4>1
      <4>3. Named(e) \in Messages /\ Named(e) # None /\ Given(n, l, v, w, e.scope, Named(e))
        BY <1>1, <1>2, <1>5, <4>2, GivenNow
      <4> QED
        BY <1>5, <4>1, <4>3
    <3>3. Joins(k, e.scope, e.parent)
      <4>1. CASE o.newest[e.scope][1] = e.parent
        BY <1>11, <3>2, <4>1 DEF Joins
      <4>2. CASE e.parent \notin o.seen
        <5>1. \/ e.scope # Chat /\ e.parent = NextMade(u, e.scope)
              \/ e.scope = Chat /\ e.parent = <<Chat, "run", n>> /\ e.parent \notin o.seen
          BY <1>1, <4>2 DEF Allowed, Speech, CallAllowed, Closings, Shown
        <5> QED
          BY <1>1, <1>5, <1>10, <5>1, NewNames DEF Joins
      <4> QED
        BY <2>1, <4>1, <4>2
    <3> QED
      BY <2>1, <3>1, <3>2, <3>3
  <2>2. CASE /\ \E m : /\ Placing(o, e, p, m) /\ m # None /\ o.newest[e.scope][1] = m
             /\ p.o.placed = o.placed /\ e.parent \in o.seen
    <3>1. PICK m : Placing(o, e, p, m) /\ m # None /\ o.newest[e.scope][1] = m
      BY <2>2
    <3>2. m = k.newest[e.scope] /\ m \in k.shown[e.scope]
      BY <1>11, <3>1
    <3>3. m \in Messages /\ Joins(k, e.scope, m)
      BY <1>10, <3>2 DEF Joins
    <3>4. e.parent \in p.o.seen
      BY <2>2, <3>1 DEF Placing
    <3> QED
      BY <2>2, <3>1, <3>2, <3>3, <3>4
  <2>3. CASE /\ Placing(o, e, p, Placed(o, e.scope)) /\ p.o.placed = o.placed + 1
             /\ e.parent \in o.seen
    <3>1. PICK m, v : m = Placed(o, e.scope) /\ v = p.o
      OBVIOUS
    <3>2. m \in Messages /\ Given(n, l, v, w, e.scope, m)
      BY <1>5, <1>10, <2>3, <3>1, GivenPlaced
    <3>3. Joins(k, e.scope, m)
      BY <1>1, <1>5, <1>10, <3>1, NewNames DEF Joins
    <3>4. e.parent \in p.o.seen
      BY <2>3 DEF Placing
    <3> QED
      BY <2>3, <3>1, <3>2, <3>3, <3>4
  <2> QED
    BY <1>4, <2>1, <2>2, <2>3
<1>13. PICK m \in Messages :
         /\ Placing(o, e, p, m) /\ p.o.placed \in {o.placed, o.placed + 1}
         /\ e.parent \in p.o.seen /\ Joins(k, e.scope, m)
         /\ m \in k.shown[e.scope] \/ Given(n, l, p.o, w, e.scope, m)
  BY <1>12
<1>14. /\ Shown(n, l, p.o, w)
       /\ l.shown = [k.shown EXCEPT ![e.scope] = @ \cup {m}]
       /\ l.newest = [k.newest EXCEPT ![e.scope] = m]
  BY <1>5, <1>9, <1>13, HeardMore
<1>15. l.newest[e.scope] = m
  BY <1>5, <1>10, <1>14
<1> QED
  BY <1>1, <1>2, <1>4, <1>6, <1>7, <1>13, <1>14, <1>15 DEF Heard, Placing, Grows

\* Text begins in a message that is new, or the newest, by the name it was given.
LEMMA HeardStarts ==
  ASSUME NEW n \in Nat, NEW k, NEW o, NEW u, NEW e, NEW p, NEW l, NEW w,
         Sending(n, k, o, u, e, p, l, w), e.type = "text_start",
         p.e.id # None, \/ p.o.renamed = o.renamed /\ p.e.id = e.id
                        \/ p.o.renamed = With(o.renamed, e.id, p.e.id),
         p.e.id \in Messages
  PROVE  Holds(l, p.o, w) /\ l.saying = [k.saying EXCEPT ![e.scope] = p.e.id]
<1>1. /\ Allowed(n, u, e) /\ w = Reads(u, e) /\ Holds(k, o, u) /\ u \in Readings
  BY DEF Sending, Heard
<1>2. /\ p.e.type = e.type /\ p.e.scope = e.scope /\ l.running = w.running /\ l.card = w.card
      /\ l.tool = w.tool /\ l.thinking = w.thinking /\ e.scope \in Scopes
  BY HeardBoard DEF Events
<1>3. FoldedSpeech(k, p.e, l)
  BY HeardSpeech, Zenon
<1>4. l.saying = [k.saying EXCEPT ![e.scope] = p.e.id]
  BY <1>2, <1>3 DEF FoldedSpeech
<1>5. w.saying = [u.saying EXCEPT ![e.scope] = e.id] /\ u.saying \in [Scopes -> Ids]
  BY <1>1, ReadingFields DEF Reads
<1>6. u.saying[e.scope] = None /\ e.id[1] = e.scope /\ e.id # None
  <2>1. /\ Quietly(u, e.scope)
        /\ e.id = IF e.scope = Chat THEN <<Chat, "run", n>> ELSE NextMade(u, e.scope)
    BY <1>1 DEF Allowed, Speech, CallAllowed, Closings
  <2>2. u.ids[e.scope] \in Nat
    BY <1>1, <1>2, ReadingFields
  <2>3. CASE e.scope = Chat
    <3>1. e.id \in Scopes \X {"made", "run", "result", "placed"} \X Nat
      BY <1>2, <2>1, <2>3
    <3> QED
      BY <2>1, <2>3, <3>1, SubagentStreamAssumption DEF Quietly
  <2>4. CASE e.scope # Chat
    <3>1. e.id # None
      BY <1>2, <2>1, <2>2, <2>4, MadeIds DEF NextMade
    <3> QED
      BY <2>1, <2>4, <3>1 DEF Quietly, NextMade, Made
  <2> QED
    BY <2>3, <2>4
<1>7. \A s \in Scopes : u.saying[s] # e.id
  BY <1>1, <1>6 DEF Holds
<1>8. e.id \notin DOMAIN o.renamed
  BY <1>1, <1>7 DEF Holds
<1>9. PICK v, m : v = p.o /\ m = p.e.id
  OBVIOUS
<1>10. /\ Said(v, e.id) = m /\ (\A i : i # e.id => Said(v, i) = Said(o, i))
       /\ \A i \in DOMAIN v.renamed : \/ i = e.id /\ v.renamed[i] = m
                                      \/ i \in DOMAIN o.renamed /\ v.renamed[i] = o.renamed[i]
  <2>1. CASE p.o.renamed = o.renamed /\ p.e.id = e.id
    BY <1>8, <1>9, <2>1 DEF Said
  <2>2. CASE p.o.renamed = With(o.renamed, e.id, p.e.id)
    <3>1. v.renamed = With(o.renamed, e.id, m)
      BY <1>9, <2>2
    <3>2. /\ DOMAIN v.renamed = DOMAIN o.renamed \cup {e.id} /\ v.renamed[e.id] = m
          /\ \A i \in DOMAIN o.renamed : i # e.id => v.renamed[i] = o.renamed[i]
      BY <3>1 DEF With
    <3> QED
      BY <3>2 DEF Said
  <2> QED
    BY <2>1, <2>2
<1>11. /\ w.saying[e.scope] = e.id /\ w.saying = [s \in Scopes |-> w.saying[s]]
       /\ \A s \in Scopes \ {e.scope} : w.saying[s] = u.saying[s]
  BY <1>2, <1>5
<1>12. /\ k.saying = [s \in Scopes |-> Said(o, u.saying[s])]
       /\ l.saying = [s \in Scopes |-> IF s = e.scope THEN m ELSE Said(o, u.saying[s])]
  BY <1>1, <1>2, <1>4, <1>9 DEF Holds
<1>13. l.saying = [s \in Scopes |-> Said(v, w.saying[s])]
  <2>1. ASSUME NEW s \in Scopes
        PROVE  Said(v, w.saying[s]) = IF s = e.scope THEN m ELSE Said(o, u.saying[s])
    BY <1>7, <1>10, <1>11
  <2> QED
    BY <1>12, <2>1
<1>14. \A i \in DOMAIN v.renamed : /\ v.renamed[i] \in Messages /\ i # None
                                   /\ \E s \in Scopes : i = w.saying[s]
  <2>1. ASSUME NEW i \in DOMAIN v.renamed
        PROVE  v.renamed[i] \in Messages /\ i # None /\ \E s \in Scopes : i = w.saying[s]
    <3>1. CASE i = e.id
      BY <1>2, <1>6, <1>8, <1>9, <1>10, <1>11, <3>1
    <3>2. CASE i # e.id
      <4>1. i \in DOMAIN o.renamed /\ v.renamed[i] = o.renamed[i]
        BY <1>10, <3>2
      <4>2. PICK s \in Scopes : i = u.saying[s]
        BY <1>1, <4>1 DEF Holds
      <4>3. s # e.scope /\ i # None /\ o.renamed[i] \in Messages
        BY <1>1, <1>6, <4>1, <4>2 DEF Holds
      <4> QED
        BY <1>11, <4>1, <4>2, <4>3
    <3> QED
      BY <3>1, <3>2
  <2> QED
    BY <2>1
<1>15. \A s \in Scopes : w.saying[s] # None => w.saying[s][1] = s
  BY <1>1, <1>6, <1>11 DEF Holds
<1>16. Holds(l, v, w)
  BY <1>2, <1>13, <1>14, <1>15 DEF Holds
<1> QED
  BY <1>4, <1>9, <1>16

\* Text is heard where it was placed.
LEMMA HeardText ==
  ASSUME NEW n \in Nat, NEW k, NEW o, NEW u, NEW e, NEW p, NEW l, NEW w,
         Sending(n, k, o, u, e, p, l, w), e.type = "text_start"
  PROVE  /\ Heard(n, l, p.o, w) /\ l.saying = [k.saying EXCEPT ![e.scope] = p.e.id]
         /\ Joins(k, e.scope, p.e.id)
         /\ Grows(k, l, e.scope, p.e.id)
         /\ l.answers = k.answers
<1>1. /\ Heard(n, k, o, u) /\ Allowed(n, u, e) /\ w = Reads(u, e) /\ Shown(n, k, o, u)
      /\ Holds(k, o, u) /\ u \in Readings /\ Ordering(o) /\ p = Place(o, e)
  BY DEF Sending, Heard
<1>2. /\ p.e.type = e.type /\ l.thinking = w.thinking /\ l.tool = w.tool /\ e \in Events
      /\ Client(l) /\ w \in Readings
  BY HeardBoard
<1>3. FoldedSpeech(k, p.e, l)
  BY HeardSpeech, Zenon
<1>4. \/ /\ Placing(o, e, p, e.id) /\ p.e = e
         /\ p.o.placed = o.placed /\ p.o.renamed = o.renamed
         /\ o.newest[e.scope] = <<e.id, "text">> \/ e.id \notin o.seen
      \/ /\ Placing(o, e, p, Placed(o, e.scope)) /\ p.e.id = Placed(o, e.scope)
         /\ p.o.placed = o.placed + 1 /\ p.o.renamed = With(o.renamed, e.id, Placed(o, e.scope))
         /\ e.id \in o.seen
  BY <1>1, <1>2, PlaceStart, Zenon
<1>5. e.type \in Beginnings /\ Named(e) = e.id /\ e.scope \in Scopes
  BY <1>1, AllowedKinds DEF Beginnings, Named
<1>6. l.answers = k.answers
  BY <1>2, <1>3 DEF FoldedSpeech
<1>7. /\ Quietly(u, e.scope)
      /\ e.id = IF e.scope = Chat THEN <<Chat, "run", n>> ELSE NextMade(u, e.scope)
  BY <1>1 DEF Allowed, Speech, CallAllowed, Closings
<1>8. l.thinking[e.scope] = None
  <2>1. w.thinking = u.thinking
    BY <1>1 DEF Reads
  <2> QED
    BY <1>2, <1>7, <2>1 DEF Quietly
<1>9. /\ Shows(n, k, o, u, e.scope) /\ o.placed \in Nat /\ k.shown[e.scope] \subseteq Messages
      /\ k.newest \in [Scopes -> Messages \cup {None}] /\ k.saying = [s \in Scopes |-> k.saying[s]]
  BY <1>1, <1>5 DEF Shown, Holds
<1>10. PICK m, v : m = p.e.id /\ v = p.o
  OBVIOUS
<1>11. /\ m \in Messages /\ Placing(o, e, p, m) /\ v.placed \in {o.placed, o.placed + 1}
       /\ e.id \in v.seen /\ Joins(k, e.scope, m) /\ Given(n, l, v, w, e.scope, m)
       /\ (v.renamed = o.renamed /\ m = e.id) \/ v.renamed = With(o.renamed, e.id, m)
  <2>1. CASE /\ Placing(o, e, p, e.id) /\ p.e = e
             /\ p.o.placed = o.placed /\ p.o.renamed = o.renamed
             /\ o.newest[e.scope] = <<e.id, "text">> \/ e.id \notin o.seen
    <3>1. m = e.id /\ v.placed = o.placed /\ v.renamed = o.renamed
      BY <1>10, <2>1
    <3>2. Named(e) \in v.seen
      BY <1>5, <1>10, <2>1 DEF Placing
    <3>3. Named(e) \in Messages /\ Named(e) # None /\ Given(n, l, v, w, e.scope, Named(e))
      BY <1>1, <1>2, <1>5, <3>2, GivenNow
    <3>4. Joins(k, e.scope, e.id)
      <4>1. CASE o.newest[e.scope] = <<e.id, "text">>
        <5>1. o.newest[e.scope][1] = e.id /\ o.newest[e.scope] # <<None, "none">>
          BY <4>1
        <5> QED
          BY <1>9, <5>1 DEF Shows, Joins
      <4>2. CASE e.id \notin o.seen
        <5>1. \/ e.scope # Chat /\ e.id = NextMade(u, e.scope)
              \/ e.scope = Chat /\ e.id = <<Chat, "run", n>> /\ e.id \notin o.seen
          BY <1>7, <4>2
        <5> QED
          BY <1>1, <1>5, <1>9, <5>1, NewNames DEF Joins
      <4> QED
        BY <2>1, <4>1, <4>2
    <3> QED
      BY <1>5, <2>1, <3>1, <3>2, <3>3, <3>4
  <2>2. CASE /\ Placing(o, e, p, Placed(o, e.scope)) /\ p.e.id = Placed(o, e.scope)
             /\ p.o.placed = o.placed + 1
             /\ p.o.renamed = With(o.renamed, e.id, Placed(o, e.scope)) /\ e.id \in o.seen
    <3>1. m = Placed(o, e.scope) /\ v.placed = o.placed + 1 /\ v.renamed = With(o.renamed, e.id, m)
      BY <1>10, <2>2
    <3>2. m \in Messages /\ Given(n, l, v, w, e.scope, m)
      BY <1>5, <1>9, <3>1, GivenPlaced
    <3>3. Joins(k, e.scope, m)
      BY <1>1, <1>5, <1>9, <3>1, NewNames DEF Joins
    <3>4. e.id \in v.seen
      BY <1>10, <2>2 DEF Placing
    <3> QED
      BY <2>2, <3>1, <3>2, <3>3, <3>4
  <2> QED
    BY <1>4, <2>1, <2>2
<1>12. Holds(l, p.o, w) /\ l.saying = [k.saying EXCEPT ![e.scope] = p.e.id]
  <2>1. /\ p.e.id # None /\ p.e.id \in Messages
        /\ (p.o.renamed = o.renamed /\ p.e.id = e.id) \/ p.o.renamed = With(o.renamed, e.id, p.e.id)
    BY <1>10, <1>11, SubagentStreamAssumption DEF Messages
  <2> QED
    BY <2>1, HeardStarts
<1>13. l.saying[e.scope] = m
  BY <1>5, <1>9, <1>10, <1>12
<1>14. /\ Shown(n, l, p.o, w)
       /\ l.shown = [k.shown EXCEPT ![e.scope] = @ \cup {m}]
       /\ l.newest = [k.newest EXCEPT ![e.scope] = m]
  BY <1>5, <1>8, <1>10, <1>11, <1>13, HeardMore
<1> QED
  BY <1>1, <1>2, <1>6, <1>10, <1>11, <1>12, <1>14 DEF Heard, Placing, Grows

-----------------------------------------------------------------------------
(* What is sent keeps the promise.                                         *)

\* What was said, and what a scope that is heard allows.
LEMMA SaidSome ==
  ASSUME NEW k, NEW o, NEW u, Holds(k, o, u), NEW m, m # None
  PROVE  Said(o, m) # None
<1>1. None \notin Messages
  BY SubagentStreamAssumption DEF Messages
<1> QED
  BY <1>1 DEF Holds, Said

\* Cards: a run begins and ends, a card opens and closes.
LEMMA CardsPromised ==
  ASSUME NEW n \in Nat, NEW v, NEW e, NEW p, NEW w,
         Sending(n, client, order, v, e, p, client', w), p.e = e,
         e.type \in {"run_started", "run_finished", "started"} \cup Closings,
         last' = <<e.type, e.scope, IF e.type = "run_finished" THEN None ELSE e.id>>
  PROVE  Promised!Next
<1>1. /\ Heard(n, client, order, v) /\ Allowed(n, v, e) /\ w = Reads(v, e)
      /\ Holds(client, order, v) /\ v \in Readings
  BY DEF Sending, Heard
<1>2. /\ client'.running = w.running /\ client'.card = w.card /\ client'.tool = w.tool
      /\ client'.thinking = w.thinking
  BY HeardBoard
<1>3. e.type \notin Beginnings \cup {"text_end"}
  BY DEF Beginnings, Closings
<1>4. /\ client'.saying = client.saying /\ client'.shown = client.shown
      /\ client'.newest = client.newest /\ client'.answers = client.answers
  BY <1>3, HeardOther
<1>5. /\ client.running = v.running /\ client.card = v.card /\ client.tool = v.tool
      /\ client.thinking = v.thinking
  BY <1>1 DEF Holds
<1>6. client'.thinking = client.thinking /\ client'.tool = client.tool
  BY <1>1, <1>2, <1>5 DEF Reads, Closings
<1>7. v.running \in BOOLEAN
  BY <1>1, ReadingFields
<1>8. CASE e.type = "run_started"
  <2>1. ~v.running /\ e.scope = Chat /\ e.id = None
    BY <1>1, <1>8 DEF Allowed, Speech, CallAllowed, Closings
  <2>2. last' = <<"run_started", Chat, None>>
    BY <1>8, <2>1
  <2>3. client'.running = TRUE /\ client'.card = client.card
    BY <1>1, <1>2, <1>5, <1>8 DEF Reads, Closings
  <2>4. Promised!BeginRun
    BY <1>4, <1>5, <1>6, <1>8, <2>1, <2>2, <2>3 DEF Promised!BeginRun
  <2> QED
    BY <2>4 DEF Promised!Next
<1>9. CASE e.type = "run_finished"
  <2>1. /\ v.running /\ e.scope = Chat /\ (\A g \in Group : v.card[g] # "active")
        /\ \A s \in Scopes : Quietly(v, s)
    BY <1>1, <1>9 DEF Allowed, Speech, CallAllowed, Closings
  <2>2. last' = <<"run_finished", Chat, None>>
    BY <1>9, <2>1
  <2>3. client'.running = FALSE /\ client'.card = client.card
    BY <1>1, <1>2, <1>5, <1>9 DEF Reads, Closings
  <2>4. \A s \in Scopes : client.saying[s] = None /\ client.thinking[s] = None
    BY <1>1, <2>1, HeardQuiet
  <2>5. Promised!FinishRun
    BY <1>4, <1>5, <1>6, <1>9, <2>1, <2>2, <2>3, <2>4
    DEF Promised!FinishRun, Promised!Silent, Promised!Scopes, Scopes
  <2> QED
    BY <2>5 DEF Promised!Next
<1>10. CASE e.type = "started"
  <2>1. v.running /\ e.scope \in Group /\ v.card[e.scope] # "active" /\ e.id = None
    BY <1>1, <1>10 DEF Allowed, Speech, CallAllowed, Closings
  <2>2. last' = <<"started", e.scope, None>>
    BY <1>10, <2>1
  <2>3. /\ client'.running = client.running
        /\ client'.card = [client.card EXCEPT ![e.scope] = "active"]
    BY <1>1, <1>2, <1>5, <1>7, <1>10 DEF Reads
  <2>4. Promised!OpenCard(e.scope)
    BY <1>4, <1>5, <1>6, <1>10, <2>1, <2>2, <2>3 DEF Promised!OpenCard
  <2> QED
    BY <2>1, <2>4 DEF Promised!Next
<1>11. CASE e.type \in Closings
  <2>1. /\ v.running /\ e.scope \in Group /\ v.card[e.scope] = "active" /\ e.id = None
        /\ Quietly(v, e.scope)
    BY <1>1, <1>11 DEF Allowed, Speech, CallAllowed, Closings
  <2>2. last' = <<e.type, e.scope, None>>
    BY <1>11, <2>1 DEF Closings
  <2>3. /\ client'.running = client.running
        /\ client'.card = [client.card EXCEPT ![e.scope] = e.type]
    BY <1>1, <1>2, <1>5, <1>7, <1>11 DEF Reads, Closings
  <2>4. client.saying[e.scope] = None /\ client.thinking[e.scope] = None
    BY <1>1, <2>1, HeardQuiet DEF Scopes
  <2>5. Promised!CloseCard(e.scope, e.type)
    BY <1>4, <1>5, <1>6, <2>1, <2>2, <2>3, <2>4
    DEF Promised!CloseCard, Promised!Live, Promised!Silent
  <2> QED
    BY <1>11, <2>1, <2>5 DEF Promised!Next, Closings
<1> QED
  BY <1>8, <1>9, <1>10, <1>11

\* Of a scope that is live, what needs no message.
LEMMA LivePromised ==
  ASSUME NEW n \in Nat, NEW v, NEW e, NEW p, NEW w,
         Sending(n, client, order, v, e, p, client', w), e.type \in Kinds,
         e.type \notin {"run_started", "run_finished", "started"} \cup Closings
  PROVE  /\ e.scope \in Promised!Scopes /\ e.scope \in Scopes /\ Promised!Live(e.scope)
         /\ client'.running = client.running /\ client'.card = client.card
         /\ Speech(n, v, e) \/ CallAllowed(n, v, e)
         /\ client'.tool = w.tool /\ client'.thinking = w.thinking
         /\ client.tool = v.tool /\ client.thinking = v.thinking
         /\ w = Reads(v, e) /\ Holds(client, order, v) /\ v \in Readings
         /\ Shown(n, client, order, v) /\ Client(client)
<1>1. /\ Heard(n, client, order, v) /\ Allowed(n, v, e) /\ w = Reads(v, e)
      /\ Holds(client, order, v) /\ v \in Readings /\ e.type # "finish"
      /\ Shown(n, client, order, v) /\ Client(client)
  BY DEF Sending, Heard
<1>2. /\ client'.running = w.running /\ client'.card = w.card /\ client'.tool = w.tool
      /\ client'.thinking = w.thinking
  BY HeardBoard
<1>3. /\ client.running = v.running /\ client.card = v.card /\ client.tool = v.tool
      /\ client.thinking = v.thinking /\ v.running \in BOOLEAN
  BY <1>1, ReadingFields DEF Holds
<1>4. /\ v.running
      /\ e.scope = Chat \/ v.card[e.scope] = "active"
      /\ Speech(n, v, e) \/ CallAllowed(n, v, e)
  BY <1>1 DEF Allowed
<1>5. w.running = v.running /\ w.card = v.card
  BY <1>1, <1>3 DEF Reads
<1>6. e.scope \in Scopes
  BY <1>1, AllowedKinds
<1> QED
  BY <1>1, <1>2, <1>3, <1>4, <1>5, <1>6 DEF Promised!Live, Promised!Scopes, Scopes

\* Text and reasoning begin when the scope is silent, and go on in its newest
\* message, or after results.
LEMMA SpeechPromised ==
  ASSUME NEW n \in Nat, NEW v, NEW e, NEW p, NEW w,
         Sending(n, client, order, v, e, p, client', w),
         e.type \in {"text_start", "text", "text_end",
                     "reasoning_start", "reasoning", "reasoning_end"},
         last' = <<e.type, e.scope, p.e.id>>
  PROVE  Promised!Next
<1>1. e.type \in Kinds /\ e.type \notin {"run_started", "run_finished", "started"} \cup Closings
  BY DEF Kinds, Quiet, Closings
<1>2. /\ e.scope \in Promised!Scopes /\ e.scope \in Scopes /\ Promised!Live(e.scope)
      /\ client'.running = client.running /\ client'.card = client.card
      /\ Speech(n, v, e) \/ CallAllowed(n, v, e)
      /\ client'.tool = w.tool /\ client'.thinking = w.thinking
      /\ client.tool = v.tool /\ client.thinking = v.thinking
      /\ w = Reads(v, e) /\ Holds(client, order, v) /\ v \in Readings
      /\ Shown(n, client, order, v) /\ Client(client)
  BY <1>1, LivePromised
<1>3. Speech(n, v, e) /\ client'.tool = client.tool
  BY <1>2 DEF CallAllowed, Reads
<1>4. last'[3] = p.e.id
  OBVIOUS
<1>5. e.type \notin {"text_start", "text", "text_end"} => p.e.id = e.id
  BY HeardBoard
<1>6. Shows(n, client, order, v, e.scope)
  BY <1>2 DEF Shown
<1>7. client.saying[e.scope] = Said(order, v.saying[e.scope])
  BY <1>2 DEF Holds
<1>8. CASE e.type = "text_start"
  <2>1. Quietly(v, e.scope)
    BY <1>3, <1>8 DEF Speech
  <2>2. client.saying[e.scope] = None /\ client.thinking[e.scope] = None
    BY <1>2, <2>1, HeardQuiet
  <2>3. /\ client'.saying = [client.saying EXCEPT ![e.scope] = p.e.id]
        /\ Joins(client, e.scope, p.e.id)
        /\ Grows(client, client', e.scope, p.e.id)
        /\ client'.answers = client.answers
    BY <1>8, HeardText
  <2>4. client'.thinking = client.thinking
    BY <1>2, <1>8 DEF Reads
  <2>5. last' = <<"text_start", e.scope, p.e.id>>
    BY <1>8
  <2>6. Promised!StartText(e.scope, p.e.id)
    BY <1>2, <1>3, <2>2, <2>3, <2>4, <2>5
    DEF Promised!StartText, Promised!Silent, Promised!NewOrNewest, Promised!New,
        Promised!Appends, Grows, Joins
  <2> QED
    BY <1>2, <1>4, <2>6 DEF Promised!Next
<1>9. CASE e.type \in {"text", "text_end"}
  <2>1. v.saying[e.scope] = e.id /\ e.id # None
    BY <1>3, <1>9 DEF Speech
  <2>2. client'.thinking = client.thinking
    BY <1>2, <1>9 DEF Reads
  <2>3. CASE e.type = "text"
    <3>1. e.type \notin Beginnings \cup {"text_end"}
      BY <2>3 DEF Beginnings
    <3>2. /\ client'.saying = client.saying /\ client'.shown = client.shown
          /\ client'.newest = client.newest /\ client'.answers = client.answers
          /\ p.e.id = Said(order, e.id)
      BY <2>3, <3>1, HeardOther
    <3>3. client.saying[e.scope] = p.e.id /\ client.saying[e.scope] # None
      BY <1>2, <1>7, <2>1, <3>2, SaidSome
    <3>4. client.newest[e.scope] \in {p.e.id} \cup client.answers
      BY <1>6, <3>3 DEF Shows
    <3>5. last' = <<"text", e.scope, p.e.id>>
      BY <2>3
    <3>6. Promised!Text(e.scope, p.e.id)
      BY <1>2, <1>3, <2>2, <3>2, <3>3, <3>4, <3>5 DEF Promised!Text, Promised!Continues
    <3> QED
      BY <1>2, <1>4, <3>6 DEF Promised!Next
  <2>4. CASE e.type = "text_end"
    <3>1. /\ client'.saying = [client.saying EXCEPT ![e.scope] = None]
          /\ client'.shown = client.shown /\ client'.newest = client.newest
          /\ client'.answers = client.answers /\ p.e.id = Said(order, e.id)
      BY <2>4, HeardTextEnd
    <3>2. client.saying[e.scope] = p.e.id
      BY <1>7, <2>1, <3>1
    <3>3. last' = <<"text_end", e.scope, p.e.id>>
      BY <2>4
    <3>4. Promised!EndText(e.scope, p.e.id)
      BY <1>2, <1>3, <2>2, <3>1, <3>2, <3>3 DEF Promised!EndText
    <3> QED
      BY <1>2, <1>4, <3>4 DEF Promised!Next
  <2> QED
    BY <1>9, <2>3, <2>4
<1>10. CASE e.type = "reasoning_start"
  <2>1. Quietly(v, e.scope)
    BY <1>3, <1>10 DEF Speech
  <2>2. client.saying[e.scope] = None /\ client.thinking[e.scope] = None
    BY <1>2, <2>1, HeardQuiet
  <2>3. Named(e) = e.id /\ p.e.id = e.id
    BY <1>5, <1>10 DEF Named
  <2>4. /\ client'.saying = client.saying /\ Named(e) \notin client.shown[e.scope]
        /\ Grows(client, client', e.scope, Named(e))
        /\ client'.answers = client.answers
    BY <1>10, HeardResult
  <2>5. client'.thinking = [client.thinking EXCEPT ![e.scope] = p.e.id]
    BY <1>2, <1>10, <2>3 DEF Reads
  <2>6. last' = <<"reasoning_start", e.scope, p.e.id>>
    BY <1>10
  <2>7. Promised!StartReasoning(e.scope, p.e.id)
    BY <1>2, <1>3, <1>10, <2>2, <2>3, <2>4, <2>5, <2>6
    DEF Promised!StartReasoning, Promised!Silent, Promised!New, Promised!Appends, Grows
  <2> QED
    BY <1>2, <1>4, <2>7 DEF Promised!Next
<1>11. CASE e.type \in {"reasoning", "reasoning_end"}
  <2>1. v.thinking[e.scope] = e.id /\ e.id # None /\ p.e.id = e.id
    BY <1>3, <1>5, <1>11 DEF Speech
  <2>2. e.type \notin Beginnings \cup {"text_end"}
    BY <1>11 DEF Beginnings
  <2>3. /\ client'.saying = client.saying /\ client'.shown = client.shown
        /\ client'.newest = client.newest /\ client'.answers = client.answers
    BY <2>2, HeardOther
  <2>4. CASE e.type = "reasoning"
    <3>1. client'.thinking = client.thinking
      BY <1>2, <2>4 DEF Reads
    <3>2. client.newest[e.scope] \in {p.e.id} \cup client.answers
      BY <1>2, <1>6, <2>1 DEF Shows
    <3>3. last' = <<"reasoning", e.scope, p.e.id>>
      BY <2>4
    <3>4. Promised!Reasoning(e.scope, p.e.id)
      BY <1>2, <1>3, <2>1, <2>3, <3>1, <3>2, <3>3 DEF Promised!Reasoning, Promised!Continues
    <3> QED
      BY <1>2, <1>4, <3>4 DEF Promised!Next
  <2>5. CASE e.type = "reasoning_end"
    <3>1. client'.thinking = [client.thinking EXCEPT ![e.scope] = None]
      BY <1>2, <2>5 DEF Reads
    <3>2. last' = <<"reasoning_end", e.scope, p.e.id>>
      BY <2>5
    <3>3. Promised!EndReasoning(e.scope, p.e.id)
      BY <1>2, <1>3, <2>1, <2>3, <3>1, <3>2 DEF Promised!EndReasoning
    <3> QED
      BY <1>2, <1>4, <3>3 DEF Promised!Next
  <2> QED
    BY <1>11, <2>4, <2>5
<1> QED
  BY <1>8, <1>9, <1>10, <1>11

\* Calls are announced once, and have one result, in a message of its own.
LEMMA CallsPromised ==
  ASSUME NEW n \in Nat, NEW v, NEW e, NEW p, NEW w,
         Sending(n, client, order, v, e, p, client', w),
         e.type \in {"call_start", "call_args", "call_end", "result"},
         last' = <<e.type, e.scope, p.e.id>>
  PROVE  Promised!Next
<1>1. e.type \in Kinds /\ e.type \notin {"run_started", "run_finished", "started"} \cup Closings
  BY DEF Kinds, Quiet, Closings
<1>2. /\ e.scope \in Promised!Scopes /\ e.scope \in Scopes /\ Promised!Live(e.scope)
      /\ client'.running = client.running /\ client'.card = client.card
      /\ Speech(n, v, e) \/ CallAllowed(n, v, e)
      /\ client'.tool = w.tool /\ client'.thinking = w.thinking
      /\ client.tool = v.tool /\ client.thinking = v.thinking
      /\ w = Reads(v, e) /\ Holds(client, order, v) /\ v \in Readings
      /\ Shown(n, client, order, v) /\ Client(client)
  BY <1>1, LivePromised
<1>3. CallAllowed(n, v, e) /\ e.id \in Calls /\ client'.thinking = client.thinking
  BY <1>2 DEF CallAllowed, Speech, Reads
<1>4. p.e.id = e.id
  BY HeardBoard
<1>5. client.newest \in [Scopes -> Messages \cup {None}]
  BY <1>2 DEF Shown
<1>6. CASE e.type = "call_start"
  <2>1. Quietly(v, e.scope) /\ v.tool[e.id] = "none"
    BY <1>3, <1>6 DEF CallAllowed
  <2>2. client.saying[e.scope] = None /\ client.thinking[e.scope] = None
    BY <1>2, <2>1, HeardQuiet
  <2>3. PICK m : m = client'.newest[e.scope]
    OBVIOUS
  <2>4. /\ client'.saying = client.saying
        /\ Joins(client, e.scope, m)
        /\ Grows(client, client', e.scope, m)
        /\ client'.answers = client.answers
    BY <1>6, <2>3, HeardCall
  <2>5. client'.tool = [client.tool EXCEPT ![e.id] = "open"]
    BY <1>2, <1>6 DEF Reads
  <2>6. last' = <<"call_start", e.scope, e.id>>
    BY <1>4, <1>6
  <2>7. Promised!StartCall(e.scope, e.id, m)
    BY <1>2, <1>3, <2>1, <2>2, <2>4, <2>5, <2>6
    DEF Promised!StartCall, Promised!Silent, Promised!NewOrNewest, Promised!New,
        Promised!Appends, Grows, Joins
  <2> QED
    BY <1>2, <1>3, <2>3, <2>6, <2>7 DEF Promised!Next
<1>7. CASE e.type \in {"call_args", "call_end"}
  <2>1. v.tool[e.id] = "open"
    BY <1>3, <1>7 DEF CallAllowed
  <2>2. e.type \notin Beginnings \cup {"text_end"}
    BY <1>7 DEF Beginnings
  <2>3. /\ client'.saying = client.saying /\ client'.shown = client.shown
        /\ client'.newest = client.newest /\ client'.answers = client.answers
    BY <2>2, HeardOther
  <2>4. CASE e.type = "call_args"
    <3>1. client'.tool = client.tool
      BY <1>2, <2>4 DEF Reads
    <3>2. last' = <<"call_args", e.scope, e.id>>
      BY <1>4, <2>4
    <3>3. Promised!Arguments(e.scope, e.id)
      BY <1>2, <1>3, <2>1, <2>3, <3>1, <3>2 DEF Promised!Arguments
    <3> QED
      BY <1>2, <1>3, <3>2, <3>3 DEF Promised!Next
  <2>5. CASE e.type = "call_end"
    <3>1. client'.tool = [client.tool EXCEPT ![e.id] = "ended"]
      BY <1>2, <2>5 DEF Reads
    <3>2. last' = <<"call_end", e.scope, e.id>>
      BY <1>4, <2>5
    <3>3. Promised!EndCall(e.scope, e.id)
      BY <1>2, <1>3, <2>1, <2>3, <3>1, <3>2 DEF Promised!EndCall
    <3> QED
      BY <1>2, <1>3, <3>2, <3>3 DEF Promised!Next
  <2> QED
    BY <1>7, <2>4, <2>5
<1>8. CASE e.type = "result"
  <2>1. v.tool[e.id] = "ended"
    BY <1>3, <1>8 DEF CallAllowed
  <2>2. PICK m : m = Named(e)
    OBVIOUS
  <2>3. /\ client'.saying = client.saying /\ m \notin client.shown[e.scope]
        /\ Grows(client, client', e.scope, m)
        /\ client'.answers = client.answers \cup {m}
    BY <1>8, <2>2, HeardResult
  <2>4. client'.tool = [client.tool EXCEPT ![e.id] = "done"] /\ client'.newest[e.scope] = m
    BY <1>2, <1>5, <1>8, <2>3 DEF Reads, Grows
  <2>5. last' = <<"result", e.scope, e.id>>
    BY <1>4, <1>8
  <2>6. Promised!Result(e.scope, e.id, m)
    BY <1>2, <1>3, <2>1, <2>3, <2>4, <2>5
    DEF Promised!Result, Promised!New, Promised!Appends, Grows
  <2> QED
    BY <1>2, <1>3, <2>4, <2>5, <2>6 DEF Promised!Next
<1> QED
  BY <1>6, <1>7, <1>8

\* Every event the response sends is heard as it is read, and keeps the promise.
LEMMA SendPromised ==
  ASSUME NEW n \in Nat, NEW v, NEW e, NEW p, NEW w,
         Sending(n, client, order, v, e, p, client', w),
         last' = <<p.e.type, p.e.scope, IF p.e.type = "run_finished" THEN None ELSE p.e.id>>
  PROVE  Heard(n, client', p.o, w) /\ Promised!Next
<1>1. /\ p = Place(order, e) /\ e \in Events /\ e.type \in Kinds \ {"finish"}
      /\ p.e.type = e.type /\ p.e.scope = e.scope
  BY HeardBoard DEF Sending
<1>2. Heard(n, client', p.o, w)
  <2>1. CASE e.type = "text_start"
    <3>1. /\ Heard(n, client', p.o, w)
          /\ client'.saying = [client.saying EXCEPT ![e.scope] = p.e.id]
      BY <2>1, HeardText
    <3> QED
      BY <3>1
  <2>2. CASE e.type = "text_end"
    <3>1. /\ Heard(n, client', p.o, w)
          /\ client'.saying = [client.saying EXCEPT ![e.scope] = None]
          /\ client'.shown = client.shown /\ client'.newest = client.newest
          /\ client'.answers = client.answers /\ p.e.id = Said(order, e.id)
      BY <2>2, HeardTextEnd
    <3> QED
      BY <3>1
  <2>3. CASE e.type \in {"reasoning_start", "result"}
    BY <2>3, HeardResult
  <2>4. CASE e.type = "call_start"
    BY <2>4, HeardCall
  <2>5. CASE e.type \notin Beginnings \cup {"text_end"}
    BY <2>5, HeardOther
  <2> QED
    BY <2>1, <2>2, <2>3, <2>4, <2>5 DEF Beginnings
<1>3. CASE e.type \in {"run_started", "run_finished", "started"} \cup Closings
  <2>1. e.type \notin Beginnings \cup {"text", "text_end"}
    BY <1>3 DEF Closings, Beginnings
  <2>2. p.e = e
    BY <1>1, <2>1, PlaceAsIs
  <2> QED
    BY <1>2, <1>3, <2>2, CardsPromised
<1>4. CASE e.type \in {"text_start", "text", "text_end",
                       "reasoning_start", "reasoning", "reasoning_end"}
  BY <1>1, <1>2, <1>4, SpeechPromised
<1>5. CASE e.type \in {"call_start", "call_args", "call_end", "result"}
  BY <1>1, <1>2, <1>5, CallsPromised
<1> QED
  BY <1>1, <1>3, <1>4, <1>5 DEF Kinds, Quiet, Closings
===============================================================================
