--------------------------- MODULE Orchestrations ---------------------------
(***************************************************************************)
(* What a session is built of: the order orchestrations are built in, what *)
(* each builder accepts, the card every node's events are shown on, the    *)
(* memory it keeps and who speaks in the chat.                             *)
(*                                                                         *)
(* A node's card is a path of names.  Building answers with the set of     *)
(* reasons it fails for: empty when it succeeds.                           *)
(***************************************************************************)
EXTENDS ConfigLoading

CONSTANT Alphabet   \* the characters of names, in the order strings compare by

-----------------------------------------------------------------------------
(* The planner.                                                            *)

Before(a, b) ==
  LET differs == {i \in 1..Min({Len(a), Len(b)}) : a[i] # b[i]}
      rank(c) == CHOOSE k \in DOMAIN Alphabet : Alphabet[k] = c
  IN IF differs = {} THEN Len(a) < Len(b)
     ELSE rank(a[Min(differs)]) < rank(b[Min(differs)])

\* The nodes an orchestration waits for; the entry of a swarm or graph is not among them.
collect_node_refs(o) ==
  CASE o.mode = "delegate" -> {o.entry_name} \cup Range(o.connections)
    [] o.mode = "swarm" -> Range(o.agents)
    [] o.mode = "graph" -> UNION {{e.from, e.to} : e \in Range(o.edges)}

\* Dependencies first, the least name among those ready; None on a cycle.
topological_sort(orchestrations) ==
  LET names == DOMAIN orchestrations
      ready(order) ==
        {n \in names \ Range(order) :
           collect_node_refs(orchestrations[n]) \cap names \subseteq Range(order)}
      extended(order, n) ==
        IF ready(order) = {} THEN order
        ELSE Append(order, CHOOSE m \in ready(order) : \A k \in ready(order) : ~Before(k, m))
      order == FoldLeft(extended, <<>>, SetToSeq(names))
  IN IF Len(order) = Cardinality(names) THEN order ELSE None

-----------------------------------------------------------------------------
(* Agents.                                                                 *)

\* A leaf's own session manager, its opting out, or the configuration's.
resolve_leaf_session_manager(leaf, global) ==
  IF leaf = Unset THEN global ELSE leaf

Providers == {"file", "s3", "agentcore"}
resolve_session_manager(provider) ==
  IF provider \in Providers \cup {None} THEN {} ELSE {"provider"}

\* Why an agent cannot be built.  members are the names the declared agents of
\* swarms and graphs have: they keep no session.  A path still relative is looked
\* for in the working directory; clients connect as the agent is made.
build_agent_from_def(name, d, config, members, unreachable) ==
  LET session == resolve_leaf_session_manager(d.session_manager, config.session_manager)
  IN (IF d.model # None /\ d.model \notin DOMAIN config.models THEN {"missing"} ELSE {})
     \cup (IF d.mcp \subseteq DOMAIN config.mcp_clients THEN {} ELSE {"missing"})
     \cup (IF \E s \in d.imports : s.path = "relative" THEN {"import"} ELSE {})
     \cup resolve_session_manager(session)
     \cup (IF name \in members /\ session # None THEN {"session"} ELSE {})
     \cup (IF d.mcp \cap unreachable # {} THEN {"connect"} ELSE {})

\* Agents that are nodes of a swarm or a graph.
orchestration_agent_names(config) ==
  UNION {CASE o.mode = "swarm" -> Range(o.agents)
           [] o.mode = "graph" -> node_ids(o)
           [] OTHER -> {} : o \in Range(config.orchestrations)}

resolve_agents(config, unreachable) ==
  UNION {build_agent_from_def(n, config.agents[n], config,
                              orchestration_agent_names(config), unreachable)
           : n \in DOMAIN config.agents}

-----------------------------------------------------------------------------
(* Builders.  A built node is [kind, session]: what it is, and what session *)
(* it keeps.  nodes are those built so far.                                *)

AgentNode(d, config) ==
  [kind |-> "agent", session |-> resolve_leaf_session_manager(d.session_manager, config.session_manager)]

\* The entry agent's definition, forked with the orchestration's own session manager.
Forked(o, config) ==
  LET d == config.agents[o.entry_name]
  IN IF o.session_manager = Unset THEN d ELSE [d EXCEPT !.session_manager = o.session_manager]

build_delegate(name, o, nodes, config, unreachable) ==
  IF o.entry_name \notin DOMAIN config.agents THEN {"delegate_entry"}
  ELSE IF ~(Range(o.connections) \subseteq DOMAIN nodes) THEN {"missing"}
  ELSE build_agent_from_def(name, Forked(o, config), config, {}, unreachable)

\* What the library refuses of a swarm's or a graph's agents.
KeepsSession(n, nodes) == nodes[n].kind = "agent" /\ nodes[n].session # None

OwnSession(o, config) ==
  resolve_leaf_session_manager(o.session_manager, config.session_manager)

build_swarm(o, nodes, config) ==
  LET members == Range(o.agents)
  IN resolve_session_manager(OwnSession(o, config))
     \cup IF ~(members \subseteq DOMAIN nodes) THEN {"missing"}
          ELSE IF \E n \in members \cup {o.entry_name} : nodes[n].kind # "agent" THEN {"swarm_node"}
          ELSE IF o.entry_name \notin members THEN {"swarm_entry"}
          ELSE IF \E n \in members : KeepsSession(n, nodes) THEN {"session"} ELSE {}

build_graph(o, nodes, config) ==
  resolve_session_manager(OwnSession(o, config))
  \cup IF ~(node_ids(o) \subseteq DOMAIN nodes) THEN {"missing"}
       ELSE IF \E n \in node_ids(o) : KeepsSession(n, nodes) THEN {"session"} ELSE {}

\* One orchestration; its entry must be a node by now.
build_one(name, nodes, config, unreachable) ==
  LET o == config.orchestrations[name]
  IN IF o.entry_name \notin DOMAIN nodes THEN {"entry_order"}
     ELSE CASE o.mode = "delegate" -> build_delegate(name, o, nodes, config, unreachable)
            [] o.mode = "swarm" -> build_swarm(o, nodes, config)
            [] o.mode = "graph" -> build_graph(o, nodes, config)

\* Each in turn until one fails; what is built becomes a node for the next.
build_all(config, unreachable) ==
  LET agents == [n \in DOMAIN config.agents |-> AgentNode(config.agents[n], config)]
      node(o) == IF o.mode = "delegate" THEN AgentNode(Forked(o, config), config)
                 ELSE [kind |-> o.mode, session |-> OwnSession(o, config)]
      built(b, n) ==
        LET reasons == build_one(n, b.nodes, config, unreachable)
        IN IF b.reasons # {} THEN b
           ELSE IF reasons # {} THEN [b EXCEPT !.reasons = reasons]
           ELSE [b EXCEPT !.nodes = (n :> node(config.orchestrations[n])) @@ @]
      order == topological_sort(config.orchestrations)
  IN IF order = None THEN {"cycle"}
     ELSE FoldLeft(built, [nodes |-> agents, reasons |-> {}], order).reasons

\* Why a session of this configuration cannot be built: its agents come first.
load_session(config, unreachable) ==
  LET reasons == resolve_agents(config, unreachable)
  IN IF reasons # {} THEN reasons ELSE build_all(config, unreachable)

-----------------------------------------------------------------------------
(* Cards.                                                                  *)

\* The card an agent asks for: its stream group, else its name.
AgentLabel(config, n) ==
  IF n \in DOMAIN config.agents /\ config.agents[n].stream # None
  THEN config.agents[n].stream ELSE <<n>>

\* Mutant: a delegate's entry keeps a card of its own under the orchestration's.
Nested_Phantom(prefix, member, entry, card) ==
  IF IsPrefix(<<member>>, card) THEN prefix \o card ELSE Append(prefix, member) \o card

\* Where a card of a nested orchestration's subtree moves.  A delegate's entry runs
\* as the orchestration and takes its card; what already names it is only re-rooted.
Nested(prefix, member, entry, card) ==
  IF entry # None /\ IsPrefix(<<entry>>, card) THEN Append(prefix, member) \o Tail(card)
  ELSE IF IsPrefix(<<member>>, card) THEN prefix \o card
  ELSE Append(prefix, member) \o card

\* A member under prefix, with its whole subtree when it is an orchestration.
\* acc holds the cards, this orchestration's members and every earlier one's.
PlaceMember(config, acc, prefix, member) ==
  LET orchestration == member \in DOMAIN config.orchestrations
      o == config.orchestrations[member]
      entry == IF o.mode = "delegate" THEN o.entry_name ELSE None
      inner == IF member \in DOMAIN acc.listed THEN acc.listed[member] ELSE <<>>
      move(cards, n) == (n :> Nested(prefix, member, entry, cards[n])) @@ cards
  IN IF orchestration
     THEN [acc EXCEPT !.cards = FoldLeft(move, (member :> Append(prefix, member)) @@ @, inner),
                      !.members = @ \o <<member>> \o inner]
     ELSE [acc EXCEPT !.cards = (member :> prefix \o AgentLabel(config, member)) @@ @,
                      !.members = Append(@, member)]

auto_resolve_stream_groups(config) ==
  LET place(acc, name) ==
        LET o == config.orchestrations[name]
            entry == AgentLabel(config, o.entry_name)
            start == [acc EXCEPT !.members = <<>>]
            done ==
              CASE o.mode = "delegate" ->
                     FoldLeft(LAMBDA a, m : PlaceMember(config, a, entry, m),
                              [start EXCEPT !.cards = (o.entry_name :> entry) @@ @,
                                            !.members = <<o.entry_name>>],
                              o.connections)
                [] o.mode = "swarm" ->
                     FoldLeft(LAMBDA a, m : PlaceMember(config, a, <<name>>, m), start, o.agents)
                [] o.mode = "graph" ->
                     FoldLeft(LAMBDA a, m : PlaceMember(config, a, <<name>>, m), start,
                              SetToSortSeq(node_ids(o), Before))
        IN [done EXCEPT !.listed = (name :> done.members) @@ @]
      all == FoldLeft(place, [cards |-> <<>>, members |-> <<>>, listed |-> <<>>],
                      topological_sort(config.orchestrations))
  IN all.cards @@ [n \in DOMAIN config.agents |-> AgentLabel(config, n)]

-----------------------------------------------------------------------------
(* Memories and the chat.                                                  *)

\* The agent whose transcript is the chat: a delegate's entry.
resolve_chat_owner(config) ==
  LET entry == config.entry IN
  IF entry \in DOMAIN config.orchestrations /\ config.orchestrations[entry].mode = "delegate"
  THEN config.orchestrations[entry].entry_name ELSE None

\* The node whose text a swarm's or a graph's chat shows as it comes, None to wait for the end.
resolve_chat_output(config) ==
  IF config.entry \notin DOMAIN config.orchestrations THEN None
  ELSE LET o == config.orchestrations[config.entry]
       IN CASE o.mode = "swarm" -> o.chat_output
            [] o.mode = "graph" ->
                 IF o.chat_output # None THEN o.chat_output
                 ELSE IF Cardinality(terminal_nodes(o)) = 1
                      THEN CHOOSE n \in terminal_nodes(o) : TRUE ELSE None
            [] OTHER -> None

\* An agent's history: the key it is kept under and whether it is kept.  A delegate
\* has its entry agent's.
resolve_history(config, cards) ==
  LET group(h) == IF h = None THEN None ELSE h.group
      agent(n) ==
        LET h == config.agents[n].history
        IN [key |-> IF group(h) = None THEN cards[n] ELSE h.group,
            enabled |-> IF h = None THEN config.history ELSE h.enabled]
      delegates == {p \in DOMAIN config.orchestrations :
                      /\ config.orchestrations[p].mode = "delegate"
                      /\ config.orchestrations[p].entry_name \in DOMAIN config.agents}
  IN [n \in delegates \cup DOMAIN config.agents |->
        agent(IF n \in delegates THEN config.orchestrations[n].entry_name ELSE n)]

\* The nodes make_event_queue gives a memory, with the key each uses: the chat's
\* owner, its fork and the entry have none.
HistoryHooks(config, history) ==
  LET owner == resolve_chat_owner(config)
      skip == IF owner # None THEN owner ELSE config.entry
      wired(n) == IF n \in DOMAIN config.agents THEN n # skip ELSE n # config.entry
  IN [n \in {m \in DOMAIN history : history[m].enabled /\ wired(m)} |-> history[n].key]

Memories(config) ==
  HistoryHooks(config, resolve_history(config, auto_resolve_stream_groups(config)))

=============================================================================
