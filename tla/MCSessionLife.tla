---------------------------- MODULE MCSessionLife ---------------------------
(***************************************************************************)
(* A small instance of SessionLife.  Names keep up to three characters;    *)
(* the scenarios cover names to sanitise, variables, several files, nested *)
(* orchestrations, leaves that differ and runs that bring overlays.        *)
(***************************************************************************)
EXTENDS SessionLife

\* Characters: a blank is not kept in a name; V, W and Z stand for ${v}, ${w:-a}, ${z}.
OddChars == {" "}
Characters == <<" ", "_", "a", "b", "c", "d", "e", "p", "q", "r", "V", "W", "Z">>
Expressions == ("V" :> [var |-> "v", default |-> None])
               @@ ("W" :> [var |-> "w", default |-> <<"a">>])
               @@ ("Z" :> [var |-> "z", default |-> None])
Environment == "z" :> <<"b">>

-----------------------------------------------------------------------------
(* Building blocks.                                                        *)

Agent(prompt) == [prompt |-> prompt, model |-> None, thinking |-> None, imports |-> {},
                  mcp |-> {}, session_manager |-> Unset, stream |-> None, history |-> None]
Model(id) == [provider |-> "bedrock", model_id |-> id, thinking |-> None,
              request_thinking |-> FALSE, client_config |-> None]
Client == [server |-> None, url |-> None, command |-> None, transport |-> None,
           auth |-> None, filters |-> None]
Delegate(entry, connections) ==
  [mode |-> "delegate", entry_name |-> entry, session_manager |-> Unset,
   connections |-> connections]
Swarm(entry, agents) ==
  [mode |-> "swarm", entry_name |-> entry, session_manager |-> Unset,
   agents |-> agents, chat_output |-> None]
Graph(entry, edges) ==
  [mode |-> "graph", entry_name |-> entry, session_manager |-> Unset,
   edges |-> [i \in DOMAIN edges |-> [from |-> edges[i][1], to |-> edges[i][2]]],
   chat_output |-> None]

a == <<"a">>
b == <<"b">>
c == <<"c">>
d == <<"d">>
e == <<"e">>
p == <<"p">>
q == <<"q">>
r == <<"r">>
x == <<"x">>

File(block, raw) == [file |-> TRUE, vars |-> block, raw |-> raw]
Process(way, sources) == [way |-> way, sources |-> sources, allowed |-> {"ours"}]

-----------------------------------------------------------------------------
(* Names: a model is written with one of several names and referred to by  *)
(* another, in one file or two, through a variable or not.                 *)

Written == {<<"b">>, <<"a", "b", "a", "b">>, <<"a", " ", "b">>, <<"a", " ", " ", "b">>, <<"a", "_", "b">>, <<" ">>}
Read == Written \cup {<<"V">>, <<"W", " ", "b">>, <<"a", "_", "Z">>}

Variables == {<<>>,
              <<[name |-> "v", text |-> <<"b">>]>>,
              <<[name |-> "v", text |-> <<"W", " ", "Z">>]>>,
              <<[name |-> "w", text |-> <<"b">>], [name |-> "v", text |-> <<"W">>]>>,
              <<[name |-> "v", text |-> <<"W">>], [name |-> "w", text |-> <<"b">>]>>}

Reader(n) == ("agents" :> (a :> [Agent("A") EXCEPT !.model = n])) @@ ("entry" :> a)
Models(n) == "models" :> (n :> Model("M"))

OneFile == {Process("load", <<File(block, Reader(n) @@ Models(m))>>) :
              block \in Variables, n \in Read, m \in Written}
TwoFiles == {Process("load", <<File(<<>>, Reader(n) @@ Models(m)),
                               File(<<>>, "models" :> (k :> Model("K")))>>) :
               n \in Written, m \in Written, k \in Written}

-----------------------------------------------------------------------------
(* Orchestrations: p over q over r, each a delegate, a swarm or a graph.   *)

ShapesP == {Delegate(a, <<q>>), Delegate(a, <<b, q>>), Delegate(a, <<q, r>>), Swarm(a, <<a, b>>),
            Swarm(a, <<a, q>>), Graph(a, << <<a, q>> >>), Graph(q, << <<q, a>> >>),
            Graph(a, << <<a, q>>, <<q, r>> >>), Graph(r, << <<a, q>> >>)}
ShapesQ == {Delegate(b, <<c>>), Delegate(b, <<r>>), Delegate(c, <<p>>), Delegate(p, <<b>>),
            Swarm(b, <<b, c>>), Swarm(b, <<c, d>>), Graph(b, << <<b, r>> >>),
            Graph(c, << <<c, b>> >>)}
ShapesR == {Delegate(d, <<e>>), Delegate(d, <<q>>), Swarm(d, <<d, e>>), Graph(d, << <<d, e>> >>)}

Shape(one, two, three, entry, agents) ==
  Process("load", <<File(<<>>, [agents |-> agents, orchestrations |-> (p :> one) @@ (q :> two) @@ (r :> three),
                                entry |-> entry, history |-> TRUE])>>)
Five == (a :> Agent("A")) @@ (b :> Agent("B")) @@ (c :> Agent("C")) @@ (d :> Agent("D"))
        @@ (e :> Agent("E"))

Shapes == {Shape(one, two, three, p, Five) : one \in ShapesP, two \in ShapesQ, three \in ShapesR}

History(group) == [enabled |-> TRUE, group |-> group, keep |-> "full",
                   summarize_over |-> None, summarize_model |-> None]
\* Cards and memories asked for, and sessions kept by leaves of each kind.
Labelled == {[Five EXCEPT ![n].stream = <<x>>] : n \in {a, c, e}}
            \cup {[Five EXCEPT ![n].history = h] : n \in {b, e},
                    h \in {History(<<x>>), [History(None) EXCEPT !.enabled = FALSE]}}
            \cup {[Five EXCEPT ![n].session_manager = "file"] : n \in {b, d, e}}
            \cup {[Five EXCEPT ![d].session_manager = "other"]}
LabelledShapes ==
  {Shape(one, two, three, p, agents) :
     one \in {Delegate(a, <<q>>), Graph(a, << <<a, q>> >>)},
     two \in {Delegate(b, <<c, r>>), Swarm(b, <<b, c>>)},
     three \in {Delegate(d, <<e>>), [Delegate(d, <<e>>) EXCEPT !.session_manager = None]},
     agents \in Labelled}

-----------------------------------------------------------------------------
(* Leaves: clients, servers, imports, a global session manager.  A process *)
(* that serves conversations needs no other configuration than one.        *)

Managed == [Client EXCEPT !.server = b]
Hosted == [Client EXCEPT !.url = [host |-> "ours", sse |-> FALSE]]
Elsewhere == [Client EXCEPT !.url = [host |-> "theirs", sse |-> FALSE]]
Spawned == [Client EXCEPT !.command = "run"]
Clients == {Managed, Hosted, Spawned, [Managed EXCEPT !.transport = "stdio"],
            [Hosted EXCEPT !.auth = "token"], [Hosted EXCEPT !.url.sse = TRUE, !.auth = "token"],
            [Hosted EXCEPT !.command = "run"]}
Leaves(client, path, manager) ==
  [agents |-> (a :> [Agent("A") EXCEPT !.mcp = {c},
                                       !.imports = {[field |-> path, path |-> "relative"]}]),
   mcp_servers |-> (b :> [type |-> "relative"]), mcp_clients |-> (c :> client),
   entry |-> a, session_manager |-> manager]
LeafProcesses == {Process("load", <<File(<<>>, Leaves(client, path, manager))>>) :
                    client \in Clients, path \in {"tools", "views"},
                    manager \in {None, "file", "agentcore"}}
Served == {Process("fixed", <<File(<<>>, Leaves(client, "tools", "file"))>>) :
             client \in {Managed, Hosted}}

-----------------------------------------------------------------------------
(* Runs with their own configuration.                                      *)

Base(client) ==
  [Leaves(client, "tools", None) EXCEPT !.agents[a].model = <<"a", " ", "b">>]
  @@ ("models" :> (<<"a", " ", "b">> :> Model("M")))
PerRun == {Process("perRun", <<File(<<>>, Base(client))>>) : client \in {Managed, Spawned}}

Submitted(raw) == [file |-> FALSE, vars |-> <<>>, raw |-> raw]
Uses(n) == "agents" :> (d :> [Agent("D") EXCEPT !.mcp = n, !.model = <<"a", "_", "b">>]) @@ ("entry" :> d)
ManyOverlays ==
  {None, Submitted(Uses({c})), Submitted(Uses({e})),
   Submitted(Uses({c, e}) @@ ("mcp_clients" :> (e :> Hosted))),
   Submitted(Uses({e}) @@ ("mcp_clients" :> (e :> Elsewhere))),
   Submitted(Uses({e}) @@ ("mcp_clients" :> (e :> Spawned))),
   Submitted(Uses({c, e}) @@ ("mcp_clients" :> (e :> [Managed EXCEPT !.filters = "some"]))),
   Submitted("models" :> (<<"a", " ", "b">> :> Model("N"))),
   Submitted(Uses({}) @@ ("orchestrations" :> (p :> Delegate(d, <<p>>)))),
   Submitted(Uses({c}) @@ ("orchestrations" :> ((p :> Swarm(d, <<q>>)) @@ (q :> Delegate(d, <<>>))))),
   Submitted("mcp_servers" :> (e :> [type |-> "absolute"]))}

AllScenarios == OneFile \cup TwoFiles \cup Shapes \cup LabelledShapes
                \cup LeafProcesses \cup Served \cup PerRun

Symmetry == Permutations(Runs) \cup Permutations(Threads)
=============================================================================
