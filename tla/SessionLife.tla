---------------------------- MODULE SessionLife -----------------------------
(***************************************************************************)
(* A process from its sources to its sessions.  It loads a configuration,  *)
(* resolves it, starts its MCP servers and then, in one of three ways,     *)
(* builds sessions:                                                        *)
(*   fixed    create_agui_app on one configuration: a session at boot that *)
(*            proves it builds, then one per conversation, the least       *)
(*            recently used dropped beyond a limit;                        *)
(*   perRun   create_agui_app with a session_config_key: one per run, of   *)
(*            the overlay it brings, with client sessions of its own;      *)
(*   load     load() of one or several files: one session, until closed.   *)
(***************************************************************************)
EXTENDS Orchestrations, McpLifecycle

CONSTANTS
  Scenarios,  \* the processes considered: [way, sources, allowed]
  Overlays,   \* what a run may submit: a source, or None
  Threads,    \* conversations
  limit       \* sessions kept (256 in the code)

ASSUME SessionLifeAssumption ==
  limit \in Nat \ {0} /\ Boot \notin Runs

VARIABLES
  given,      \* this process's scenario
  app,        \* cold, loaded, resolved, serving, stopped or refused
  base,       \* the raw configuration runs are layered over
  config,     \* the validated configuration
  kept,       \* _ConversationSessions: threads, the most recently used last
  since,      \* for each conversation served, the others served since
  runs        \* a run with its own configuration: [phase, source, config]

vars == <<given, app, base, config, kept, since, runs, mcpVars>>

\* A run without a session: before it has one, and after nothing holds it.
Without(p) == [phase |-> p, source |-> None, config |-> None]
RunPhases == {"new", "refused", "built", "lost", "ended"}

-----------------------------------------------------------------------------
(* Building a session.                                                     *)

\* Clients that do not answer: managed ones without a server, any other by chance.
Unreachable(clients) ==
  LET managed == {n \in DOMAIN clients : clients[n].server # None}
      dead == {n \in managed : ~Answers(clients[n].server)}
  IN {dead \cup down : down \in SUBSET (DOMAIN clients \ managed)}

\* The clients its agents register.
Used(c) == UNION {d.mcp : d \in Range(c.agents)}

\* Why the configuration's objects cannot be made.
resolve_infra(c) ==
  (IF \E d \in Range(c.mcp_servers) : d.type = "relative" THEN {"import"} ELSE {})
  \cup (IF \E d \in Range(c.mcp_clients) : ~resolve_mcp_client(d) THEN {"transport"} ELSE {})
  \cup (IF c.session_manager = "agentcore" THEN {"agentcore"} ELSE {})

-----------------------------------------------------------------------------
(* Boot.                                                                   *)

Init ==
  /\ given \in Scenarios /\ app = "cold" /\ base = None /\ config = None
  /\ kept = <<>> /\ since = <<>> /\ runs = [r \in Runs |-> Without("new")]
  /\ McpInit

Load ==
  /\ app = "cold"
  /\ base' = parse_config_sources(given.sources)
  /\ config' = IF base' = None THEN None ELSE validate_raw_config(base')
  /\ app' = IF config' = None THEN "refused" ELSE "loaded"
  /\ UNCHANGED <<given, kept, since, runs, mcpVars>>

Resolve ==
  /\ app = "loaded"
  /\ IF resolve_infra(config) = {}
     THEN app' = "resolved" /\ AddServers(DOMAIN config.mcp_servers)
     ELSE app' = "refused" /\ UNCHANGED mcpVars
  /\ UNCHANGED <<given, base, config, kept, since, runs>>

\* The lifecycle's start; when it raises, so does the application's.
BootServers ==
  /\ app = "resolved"
  /\ \/ app' = app /\ (StartServers \/ Started \/ \E s \in DOMAIN thread : wait_ready(s))
     \/ app' = "refused" /\ \E s \in DOMAIN thread : NotReady(s)
  /\ UNCHANGED <<given, base, config, kept, since, runs>>

\* A server's thread, whatever the process is doing.
ServerThread ==
  /\ \E s \in DOMAIN thread : Bind(s)
  /\ UNCHANGED <<given, app, base, config, kept, since, runs>>

\* The configuration's own session, built before any request; agents made before
\* one that fails have opened their clients.
BuildStatic ==
  /\ app = "resolved" /\ phase = "started" /\ given.way # "perRun"
  /\ \E down \in Unreachable(config.mcp_clients) :
       LET reached == {config.mcp_clients[n] : n \in Used(config) \ down}
       IN IF load_session(config, down) = {}
          THEN app' = "serving" /\ open' = Opened(Boot, reached)
          ELSE app' = "refused" /\ \E some \in SUBSET reached : open' = Opened(Boot, some)
  /\ UNCHANGED <<given, base, config, kept, since, runs, thread, taken, ready, phase>>

ServeRuns ==
  /\ app = "resolved" /\ phase = "started" /\ given.way = "perRun"
  /\ app' = "serving"
  /\ UNCHANGED <<given, base, config, kept, since, runs, mcpVars>>

-----------------------------------------------------------------------------
(* Conversations of a fixed configuration.                                 *)

\* A request of t is answered by t's session.
ServedBy(t) ==
  since' = [u \in DOMAIN since \cup {t} |-> IF u = t THEN {} ELSE since[u] \cup {t}]

\* Mutant: a session used again keeps its place in the line.
Warm_InPlace(t) ==
  /\ given.way = "fixed" /\ app = "serving" /\ t \in Range(kept)
  /\ ServedBy(t)
  /\ UNCHANGED <<given, app, base, config, kept, runs, mcpVars>>

\* The session it has moves to the end of the line.
Warm(t) ==
  /\ given.way = "fixed" /\ app = "serving"
  /\ \E i \in DOMAIN kept : kept[i] = t /\ kept' = Append(RemoveAt(kept, i), t)
  /\ ServedBy(t)
  /\ UNCHANGED <<given, app, base, config, runs, mcpVars>>

\* One is built, and the oldest dropped beyond the limit.
Cold(t) ==
  /\ given.way = "fixed" /\ app = "serving" /\ t \notin Range(kept)
  /\ \E down \in Unreachable(config.mcp_clients) : load_session(config, down) = {}
  /\ kept' = IF Len(kept) < limit THEN Append(kept, t) ELSE Append(Tail(kept), t)
  /\ ServedBy(t)
  /\ UNCHANGED <<given, app, base, config, runs, mcpVars>>

forget(t) ==
  /\ given.way = "fixed" /\ app = "serving"
  /\ \E i \in DOMAIN kept : kept[i] = t /\ kept' = RemoveAt(kept, i)
  /\ since' = [u \in DOMAIN since \ {t} |-> since[u]]
  /\ UNCHANGED <<given, app, base, config, runs, mcpVars>>

-----------------------------------------------------------------------------
(* Runs with their own configuration.                                      *)

\* A run's session of configuration c, or none: what was opened before a builder
\* raised belongs to agents nobody holds.
BuildRun(r, overlay, c, clients) ==
  IF clients = None THEN runs' = [runs EXCEPT ![r] = Without("refused")] /\ open' = open
  ELSE \E down \in Unreachable(c.mcp_clients) :
         LET run(p) == [runs EXCEPT ![r] = [phase |-> p, source |-> overlay, config |-> c]]
             reached == {clients[n] : n \in Used(c) \ down}
         IN IF load_session(c, down) = {}
            THEN runs' = run("built") /\ open' = Opened(r, reached)
            ELSE runs' = run("lost") /\ \E some \in SUBSET reached : open' = Opened(r, some)

\* resolve_session: the overlay is layered and checked, the run's clients made, its
\* agents and orchestrations built.
Submit(r) ==
  /\ given.way = "perRun" /\ app = "serving" /\ runs[r].phase = "new"
  /\ \E overlay \in Overlays :
       LET clients(c) == IF c = None THEN None
                         ELSE resolve_run_clients(c.mcp_clients, DOMAIN thread)
           built(c) == BuildRun(r, overlay, c, clients(c))
       IN built(load_session_config(base, overlay, given.allowed))
  /\ UNCHANGED <<given, app, base, config, kept, since, thread, taken, ready, phase>>

\* Mutant: only the queue is closed.
aclose_QueueOnly(r) ==
  /\ runs[r].phase = "built"
  /\ runs' = [runs EXCEPT ![r] = Without("ended")]
  /\ UNCHANGED <<given, app, base, config, kept, since, mcpVars>>

\* The response ended, or a refused resume did: its queue closes, then its clients.
aclose(r) ==
  /\ runs[r].phase = "built"
  /\ runs' = [runs EXCEPT ![r] = Without("ended")]
  /\ open' = [open EXCEPT ![r] = {}]
  /\ UNCHANGED <<given, app, base, config, kept, since, thread, taken, ready, phase>>

\* Equipping the entry raised, or nobody ever read the response: nothing closes it.
Lose(r) ==
  /\ runs[r].phase = "built"
  /\ runs' = [runs EXCEPT ![r].phase = "lost"]
  /\ UNCHANGED <<given, app, base, config, kept, since, mcpVars>>

\* The interpreter collects a lost run's agents; a client without consumers closes.
Collect(r) ==
  /\ runs[r].phase = "lost"
  /\ runs' = [runs EXCEPT ![r] = Without("ended")]
  /\ open' = [open EXCEPT ![r] = {}]
  /\ UNCHANGED <<given, app, base, config, kept, since, thread, taken, ready, phase>>

-----------------------------------------------------------------------------
(* Shutdown: the server has finished its responses; the queues close, then *)
(* the lifecycle stops.                                                    *)

Shutdown ==
  /\ app = "serving" /\ \A r \in Runs : runs[r].phase # "built"
  /\ app' = "stopped" /\ kept' = <<>> /\ since' = <<>>
  /\ StopClients
  /\ UNCHANGED <<given, base, config, runs>>

StopServers ==
  /\ app = "stopped" /\ \E s \in DOMAIN thread : StopServer(s)
  /\ UNCHANGED <<given, app, base, config, kept, since, runs>>

Next ==
  \/ Load \/ Resolve \/ BootServers \/ ServerThread \/ BuildStatic \/ ServeRuns
  \/ \E t \in Threads : Warm(t) \/ Cold(t) \/ forget(t)
  \/ \E r \in Runs : Submit(r) \/ aclose(r) \/ Lose(r) \/ Collect(r)
  \/ Shutdown \/ StopServers

Spec == Init /\ [][Next]_vars
-----------------------------------------------------------------------------
(* Properties.                                                             *)

\* What documents declare, each definition with the document it stands in.
Declared(sources) ==
  UNION {UNION {{[at |-> i, key |-> k, name |-> n, def |-> sources[i].raw[k][n]]
                   : n \in DOMAIN sources[i].raw[k]}
                 : k \in DOMAIN sources[i].raw \cap CollectionKeys}
          : i \in DOMAIN sources}

\* A run's documents, what the overlay replaces left out of the first.
Layered(raw, overlay) ==
  LET hidden(k) == IF k \notin DOMAIN overlay.raw THEN {}
                   ELSE IF k \in OverlayUnionKeys THEN {Clean(n) : n \in DOMAIN overlay.raw[k]}
                   ELSE DOMAIN raw[k]
      left(k) == [n \in DOMAIN raw[k] \ hidden(k) |-> raw[k][n]]
      seen == [k \in DOMAIN raw |-> IF k \in CollectionKeys THEN left(k) ELSE raw[k]]
  IN <<[file |-> FALSE, vars |-> <<>>, raw |-> seen], overlay>>

\* What tells a definition apart once it may have been renamed.
Identity(e) ==
  CASE e.key = "agents" -> <<"agent", e.def.prompt>>
    [] e.key = "models" -> <<"model", e.def.model_id>>
    [] e.key = "mcp_clients" -> <<"client", e.def.url, e.def.command>>
    [] e.key = "orchestrations" -> <<"orchestration", Clean(e.name)>>
    [] OTHER -> <<"server", Clean(e.name)>>

\* The names a definition refers by, with the sections they may be found in.
Refers(e) ==
  LET nodes(o) == (IF o.mode = "delegate" THEN Range(o.connections)
                   ELSE IF o.mode = "swarm" THEN Range(o.agents) ELSE node_ids(o))
                  \cup {o.entry_name}
  IN CASE e.key = "agents" ->
            {<<{"models"}, e.def.model>>} \cup {<<{"mcp_clients"}, n>> : n \in e.def.mcp}
       [] e.key = "mcp_clients" -> {<<{"mcp_servers"}, e.def.server>>}
       [] e.key = "orchestrations" ->
            {<<{"agents", "orchestrations"}, n>> : n \in nodes(e.def)}
       [] OTHER -> {}

\* Who refers to whom: a name means its own document's definition before another's,
\* where it may also be read as it was sanitised.
Links(sources) ==
  LET all == Declared(sources)
      known == [i \in DOMAIN sources |-> ResolveVars(sources[i].vars)]
      named(e, ref) == LET text == Lenient(ref[2], known[e.at])
                       IN {f \in all : /\ f.key \in ref[1]
                                       /\ text = f.name \/ (f.at # e.at /\ text = Clean(f.name))}
      meant(e, ref) == LET own == {f \in named(e, ref) : f.at = e.at}
                       IN IF own # {} THEN own ELSE named(e, ref)
  IN UNION {UNION {{<<Identity(e), Identity(f)>> : f \in meant(e, ref)}
                    : ref \in {r \in Refers(e) : r[2] # None}} : e \in all}

Keeps(sources, c) == Links(sources) \subseteq Links(<<[vars |-> <<>>, raw |-> c]>>)

\* The nodes an orchestration runs besides the entry a delegate forks.
Members(o) == IF o.mode = "delegate" THEN o.connections
              ELSE IF o.mode = "swarm" THEN o.agents ELSE SetToSeq(node_ids(o))

\* What the planner promises of an accepted configuration: it gives up only on a
\* cycle, and a session that builds had every node before whatever names it.
Buildable(c) ==
  LET all == c.orchestrations
      order == topological_sort(all)
      waits(p) == collect_node_refs(all[p]) \cap DOMAIN all
      before(p) == (Range(Members(all[p])) \cup {all[p].entry_name}) \cap DOMAIN all
      reasons == load_session(c, {})
  IN /\ "missing" \notin reasons
     /\ order = None => \E S \in SUBSET DOMAIN all : S # {} /\ \A p \in S : waits(p) \cap S # {}
     /\ reasons = {} => \A i, j \in DOMAIN order : order[j] \in before(order[i]) => j < i

\* The configurations in use: the process's once it is loaded, a run's once it is built.
InUse == (IF app = "loaded" THEN {config} ELSE {})
         \cup {runs[r].config : r \in {q \in Runs : runs[q].phase = "built"}}

\* Whatever files, variables, renamings, merges and overlays a configuration came
\* through, each name still means what the document that wrote it meant, and it
\* fails to build only for what is not a reference (loaders.py 186-275, planner.py).
LoadsWhatIsWritten ==
  /\ app = "loaded" => Keeps(given.sources, config)
  /\ \A r \in Runs : runs[r].phase = "built" /\ runs[r].source # None =>
       Keeps(Layered(base, runs[r].source), runs[r].config)
  /\ \A c \in InUse : Buildable(c)

\* Where each node runs once: in one orchestration, or as the entry of one; and
\* only an outermost delegate's entry asks for a card of its own.
Users(c, n) == {p \in DOMAIN c.orchestrations : n \in Range(Members(c.orchestrations[p]))}
Forks(c, n) == {p \in DOMAIN c.orchestrations :
                  c.orchestrations[p].mode = "delegate" /\ c.orchestrations[p].entry_name = n}
Simple(c) ==
  /\ \A n \in DOMAIN c.agents : Cardinality(Users(c, n)) + Cardinality(Forks(c, n)) <= 1
  /\ \A p \in DOMAIN c.orchestrations : Cardinality(Users(c, p)) <= 1
  /\ \A p \in DOMAIN c.orchestrations : \A n \in DOMAIN c.agents :
       p \in Forks(c, n) /\ c.agents[n].stream # None => Users(c, p) = {}

\* A node's card lies directly under that of the orchestration that runs it, however
\* deep orchestrations nest, so that a reader who opens one finds what it ran.
CardsNest(c) ==
  LET cards == auto_resolve_stream_groups(c)
      card(p) == LET o == c.orchestrations[p]
                 IN IF Users(c, p) # {} THEN cards[p]
                    ELSE IF o.mode = "delegate" THEN AgentLabel(c, o.entry_name) ELSE <<p>>
  IN \A p \in DOMAIN c.orchestrations : \A n \in Range(Members(c.orchestrations[p])) :
       cards[n] = card(p) \o AgentLabel(c, n)

\* Two nodes that run share a memory only if they were given one history group, or
\* are an agent and its fork.
MemoriesApart(c, keys) ==
  LET source(n) == IF n \in DOMAIN c.agents THEN n ELSE c.orchestrations[n].entry_name
      grouped(n) == c.agents[source(n)].history # None
                    /\ c.agents[source(n)].history.group # None
  IN \A m, n \in DOMAIN keys :
       keys[m] = keys[n] /\ source(m) # source(n) => grouped(m) \/ grouped(n)

\* The chat speaks with the voice of a node its entry runs.
VoiceRuns(c, voice) ==
  voice # None => c.entry \in DOMAIN c.orchestrations
                  /\ voice \in Range(Members(c.orchestrations[c.entry]))

\* Wherever each node runs once, it is shown under what runs it and remembers on its
\* own, and the chat is told by one of them (config.py 117-412, wire.py 318-371).
EveryNodeHasItsPlace ==
  \A c \in InUse :
    /\ VoiceRuns(c, resolve_chat_output(c))
    /\ load_session(c, {}) = {} /\ Simple(c) => CardsNest(c) /\ MemoriesApart(c, Memories(c))

\* A client session is open only while somebody will close it: the process until it
\* stops, a run until it ends, the interpreter for a run that was lost.  It reaches
\* only what the base declares or hosts a run may reach, and its server outlives it;
\* requests are served only while every server is ready
\* (lifecycle.py 125-215, agui.py 693-709 and 862-885).
ConnectionsOwned ==
  /\ open[Boot] # {} => given.way # "perRun" /\ app \in {"serving", "refused"}
  /\ \A r \in Runs : open[r] # {} => runs[r].phase \in {"built", "lost"}
  /\ \A r \in Runs : \A d \in open[r] :
       \/ d \in {Connection(e) : e \in Range(config.mcp_clients)}
       \/ d.command = None /\ (d.url = None \/ given.allowed = None \/ d.url.host \in given.allowed)
  /\ \A o \in Runs \cup {Boot} : \A d \in open[o] :
       d.server # None /\ thread[d.server] \in {"none", "abandoned"} =>
         o # Boot /\ runs[o].phase = "lost"
  /\ \A s \in DOMAIN thread : thread[s] = "abandoned" => phase = "closing"
  /\ app = "serving" => phase = "started" /\ ready = DOMAIN thread

\* A conversation finds its session again, and resumes warm, as long as fewer than
\* limit others were served since, and no more than limit are kept (agui.py 801-838).
WarmResume ==
  given.way = "fixed" /\ app = "serving" =>
    /\ Len(kept) <= limit
    /\ \A t \in DOMAIN since : Cardinality(since[t]) < limit => t \in Range(kept)

=============================================================================
