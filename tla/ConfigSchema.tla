---------------------------- MODULE ConfigSchema ----------------------------
(***************************************************************************)
(* What a YAML configuration holds and which ones the schema accepts.      *)
(*                                                                         *)
(* A raw configuration is a record of the sections it mentions; a section  *)
(* maps names to definitions.  A name is a sequence of characters, for     *)
(* names are sanitised and written in variables.  A definition keeps the   *)
(* fields by which it refers to others, those its validators relate and    *)
(* one that tells it apart (prompt, model_id); the rest is left out.       *)
(*                                                                         *)
(*   model          [provider, model_id, thinking, request_thinking,       *)
(*                   client_config]                                        *)
(*   mcp client     [server, url, command, transport, auth, filters]       *)
(*   agent          [prompt, model, thinking, imports, mcp,                *)
(*                   session_manager, stream, history]                     *)
(*   orchestration  [mode, entry_name, session_manager, ...]               *)
(***************************************************************************)
EXTENDS Naturals, Sequences, FiniteSets, SequencesExt, TLC

CONSTANTS
  None,     \* written null, or a default of None
  Unset     \* a field the document does not mention (model_fields_set)

CollectionKeys == {"models", "mcp_servers", "mcp_clients", "agents", "orchestrations"}

\* A section of a raw configuration, empty when it is not mentioned.
Section(raw, key) == IF key \in DOMAIN raw THEN raw[key] ELSE <<>>
Names(raw, key) == DOMAIN Section(raw, key)
Field(raw, key, default) == IF key \in DOMAIN raw THEN raw[key] ELSE default

-----------------------------------------------------------------------------
(* The validators of each class.                                           *)

\* Only Bedrock models think, and say so once; their client_config is checked.
ModelDef(d) ==
  /\ d.thinking # None => d.provider = "bedrock" /\ ~d.request_thinking
  /\ d.provider = "bedrock" => d.client_config # "bad"

MCPClientDef(d) ==
  /\ Cardinality({f \in {"server", "url", "command"} : d[f] # None}) = 1
  /\ d.auth # None => d.command = None

HistoryDef(h) ==
  h.summarize_over # None => h.keep = "masked" /\ h.summarize_model # None

AgentDef(d) == d.history # None => HistoryDef(d.history)

SwarmOrchestrationDef(o) == o.chat_output # None => o.chat_output \in Range(o.agents)

\* Every node a graph names: its entry and the ends of its edges.
node_ids(o) == {o.entry_name} \cup UNION {{e.from, e.to} : e \in Range(o.edges)}

\* Nodes no edge leaves: the candidates for the chat's voice.
terminal_nodes(o) == node_ids(o) \ {e.from : e \in Range(o.edges)}

GraphOrchestrationDef(o) == o.chat_output # None => o.chat_output \in node_ids(o)

OrchestrationDef(o) ==
  CASE o.mode = "delegate" -> TRUE
    [] o.mode = "swarm" -> SwarmOrchestrationDef(o)
    [] o.mode = "graph" -> GraphOrchestrationDef(o)
    [] OTHER -> FALSE

\* AppConfig's own: the entry names a node, agents and orchestrations share names.
AppConfig(raw) ==
  /\ "entry" \in DOMAIN raw
  /\ raw.entry \in Names(raw, "agents") \cup Names(raw, "orchestrations")
  /\ Names(raw, "agents") \cap Names(raw, "orchestrations") = {}
  /\ \A d \in Range(Section(raw, "models")) : ModelDef(d)
  /\ \A d \in Range(Section(raw, "mcp_clients")) : MCPClientDef(d)
  /\ \A d \in Range(Section(raw, "agents")) : AgentDef(d)
  /\ \A o \in Range(Section(raw, "orchestrations")) : OrchestrationDef(o)

\* The validated configuration: every section and field, at its default if not given.
Complete(raw) ==
  [models |-> Section(raw, "models"), mcp_servers |-> Section(raw, "mcp_servers"),
   mcp_clients |-> Section(raw, "mcp_clients"), agents |-> Section(raw, "agents"),
   orchestrations |-> Section(raw, "orchestrations"), entry |-> raw.entry,
   history |-> Field(raw, "history", FALSE),
   session_manager |-> Field(raw, "session_manager", None)]

-----------------------------------------------------------------------------
(* References.                                                             *)

\* _rename: a name by its new one, if it has one.
Renamed(to, n) == IF n \in DOMAIN to THEN to[n] ELSE n

\* reference_fields: an orchestration with the names it refers by renamed.
ReferenceFields(o, to) ==
  LET F(n) == Renamed(to, n)
      one(n) == IF n = None THEN None ELSE F(n)
      each(s) == [i \in DOMAIN s |-> F(s[i])]
  IN CASE o.mode = "delegate" ->
            [o EXCEPT !.entry_name = F(@), !.connections = each(@)]
       [] o.mode = "swarm" ->
            [o EXCEPT !.entry_name = F(@), !.chat_output = one(@), !.agents = each(@)]
       [] o.mode = "graph" ->
            [o EXCEPT !.entry_name = F(@), !.chat_output = one(@),
                      !.edges = [i \in DOMAIN @ |-> [from |-> F(@[i].from), to |-> F(@[i].to)]]]
       [] OTHER -> o

\* A raw configuration with the names it refers by renamed, in every section.
MapReferences(raw, to) ==
  LET F(n) == Renamed(to, n)
      one(n) == IF n = None THEN None ELSE F(n)
      summary(h) == IF h = None THEN None ELSE [h EXCEPT !.summarize_model = one(@)]
      agent(d) == [d EXCEPT !.model = one(@), !.mcp = {F(n) : n \in @}, !.history = summary(@)]
      client(d) == [d EXCEPT !.server = one(@)]
      orchestration(o) == ReferenceFields(o, to)
      mapped(key, value) ==
        CASE key = "entry" -> F(value)
          [] key = "agents" -> [n \in DOMAIN value |-> agent(value[n])]
          [] key = "mcp_clients" -> [n \in DOMAIN value |-> client(value[n])]
          [] key = "orchestrations" -> [n \in DOMAIN value |-> orchestration(value[n])]
          [] OTHER -> value
  IN [key \in DOMAIN raw |-> mapped(key, raw[key])]

=============================================================================
