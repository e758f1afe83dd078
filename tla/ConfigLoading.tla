---------------------------- MODULE ConfigLoading ---------------------------
(***************************************************************************)
(* From sources to a validated configuration: interpolation, anchoring of  *)
(* relative paths, sanitising of names, merging, layering a run's overlay, *)
(* and the check of references.  Every step returns None where the code    *)
(* raises.                                                                 *)
(*                                                                         *)
(* A source is [file, vars, raw]: whether it was read from a file, its     *)
(* vars: block in order, and the rest of its document.                     *)
(***************************************************************************)
EXTENDS ConfigSchema

CONSTANTS
  Expr,     \* the characters that stand for ${...}: to their [var, default]
  Env,      \* the process's environment, variable to text
  Odd,      \* the characters a sanitised name does not keep
  MaxName   \* the longest name (64 in the code)

-----------------------------------------------------------------------------
(* Interpolation.                                                          *)

\* _resolve_lenient, for each ${...} of a text: left as it is when it has no value.
Lenient(text, known) ==
  LET piece(c) ==
        IF c \notin DOMAIN Expr THEN <<c>>
        ELSE LET e == Expr[c] IN
             IF e.var \in DOMAIN known THEN known[e.var]
             ELSE IF e.var \in DOMAIN Env THEN Env[e.var]
             ELSE IF e.default # None THEN e.default ELSE <<c>>
  IN FlattenSeq([i \in DOMAIN text |-> piece(text[i])])

Unresolved(text) == Range(text) \cap DOMAIN Expr # {}

\* The two passes over vars: against the environment alone, then each against those before it.
ResolveVars(vars) ==
  LET pass1 == [i \in DOMAIN vars |-> [vars[i] EXCEPT !.text = Lenient(@, <<>>)]]
  IN FoldLeft(LAMBDA known, v : (v.name :> Lenient(v.text, known)) @@ known, <<>>, pass1)

\* The names a raw configuration refers by.
References(raw) ==
  LET model(d) == {d.model} \cup (IF d.history = None THEN {} ELSE {d.history.summarize_model})
      ofAgent(d) == model(d) \cup d.mcp
      ofOrchestration(o) ==
        CASE o.mode = "delegate" -> {o.entry_name} \cup Range(o.connections)
          [] o.mode = "swarm" -> {o.entry_name, o.chat_output} \cup Range(o.agents)
          [] o.mode = "graph" -> {o.chat_output} \cup node_ids(o)
          [] OTHER -> {}
  IN ({Field(raw, "entry", None)}
      \cup UNION {ofAgent(d) : d \in Range(Section(raw, "agents"))}
      \cup {d.server : d \in Range(Section(raw, "mcp_clients"))}
      \cup UNION {ofOrchestration(o) : o \in Range(Section(raw, "orchestrations"))}) \ {None}

\* A variable left in the vars block or in the document raises.
interpolate(raw, vars) ==
  LET known == ResolveVars(vars)
      text == [n \in References(raw) |-> Lenient(n, known)]
  IN IF \E t \in Range(known) \cup Range(text) : Unresolved(t)
     THEN None ELSE MapReferences(raw, text)

-----------------------------------------------------------------------------
(* Paths.                                                                  *)

\* The import specs of an agent that are anchored to the configuration's directory;
\* its views, approval subjects, conversation and session managers are not.
Anchored == {"tools", "hooks", "type", "output_schema"}

make_absolute(path) == IF path = "relative" THEN "absolute" ELSE path

rewrite_relative_paths(raw) ==
  LET spec(s) == IF s.field \in Anchored THEN [s EXCEPT !.path = make_absolute(@)] ELSE s
      agent(d) == [d EXCEPT !.imports = {spec(s) : s \in @}]
      server(d) == [d EXCEPT !.type = make_absolute(@)]
      rewritten(key, value) ==
        CASE key = "agents" -> [n \in DOMAIN value |-> agent(value[n])]
          [] key = "mcp_servers" -> [n \in DOMAIN value |-> server(value[n])]
          [] OTHER -> value
  IN [key \in DOMAIN raw |-> rewritten(key, raw[key])]

\* A step that raised gives None, and so do those after it.
parse_single_source(source) ==
  LET raw == interpolate(source.raw, source.vars)
  IN IF raw = None \/ ~source.file THEN raw ELSE rewrite_relative_paths(raw)

-----------------------------------------------------------------------------
(* Names.                                                                  *)

Valid(name) == name # <<>> /\ Len(name) <= MaxName /\ Range(name) \cap Odd = {}

\* Odd characters become underscores, runs of them one, those at the ends none.
sanitize_name(name) ==
  LET marked == [i \in DOMAIN name |-> IF name[i] \in Odd THEN "_" ELSE name[i]]
      single == FoldLeft(LAMBDA s, c : IF c = "_" /\ s # <<>> /\ Last(s) = "_"
                                       THEN s ELSE Append(s, c), <<>>, marked)
      from == IF Head(single) = "_" THEN 2 ELSE 1
      to == IF Last(single) = "_" THEN Len(single) - 1 ELSE Len(single)
      stripped == SubSeq(single, from, to)
  IN SubSeq(stripped, 1, Min({MaxName, Len(stripped)}))

Clean(name) == IF Valid(name) THEN name ELSE sanitize_name(name)

\* Each section's keys, then every reference of this source to a key it renamed.
sanitize_collection_keys(raw) ==
  LET sections == DOMAIN raw \cap CollectionKeys
      keys == UNION {DOMAIN raw[key] : key \in sections}
      renamed == {n \in keys : Clean(n) # n}
      clean(section) == [n \in {Clean(m) : m \in DOMAIN section} |->
                           section[CHOOSE m \in DOMAIN section : Clean(m) = n]]
      rename == [n \in renamed |-> Clean(n)]
      faulty == \E key \in sections : \E n, m \in DOMAIN raw[key] :
                  Clean(n) = <<>> \/ (n # m /\ Clean(n) = Clean(m))
  IN IF faulty THEN None
     ELSE MapReferences([key \in DOMAIN raw |-> IF key \in sections THEN clean(raw[key])
                                                ELSE raw[key]], rename)

-----------------------------------------------------------------------------
(* Merging.                                                                *)

\* Two files describing one application may not name a thing twice; other keys: the last wins.
merge_raw_configs(raws) ==
  LET present(key) == {i \in DOMAIN raws : key \in DOMAIN raws[i]}
      last(key) == CHOOSE i \in present(key) : \A j \in present(key) : j <= i
      merged(key) == IF key \in CollectionKeys
                     THEN FoldLeft(LAMBDA all, raw : all @@ Section(raw, key), <<>>, raws)
                     ELSE raws[last(key)][key]
  IN IF \E key \in CollectionKeys : \E i, j \in DOMAIN raws :
          i # j /\ Names(raws[i], key) \cap Names(raws[j], key) # {}
     THEN None
     ELSE [key \in {k \in UNION {DOMAIN raws[i] : i \in DOMAIN raws} :
                      k \in CollectionKeys => merged(k) # <<>>} |-> merged(key)]

OverlayUnionKeys == {"models", "mcp_clients"}

\* A run spawns no process and reaches no host the service does not allow.
check_overlay_client(client, allowed) ==
  /\ client.command = None
  /\ allowed # None /\ client.url # None => client.url.host \in allowed

\* What one mapping says over what another says.
Over(f, g) == [x \in DOMAIN f \cup DOMAIN g |-> IF x \in DOMAIN f THEN f[x] ELSE g[x]]

\* Mutant: the base's definitions win over the overlay's.
merge_session_overlay_BaseWins(base, overlay, allowed) ==
  IF \E c \in Range(Section(overlay, "mcp_clients")) : ~check_overlay_client(c, allowed)
  THEN None
  ELSE Over([key \in DOMAIN overlay |->
               IF key \in OverlayUnionKeys THEN Over(Section(base, key), overlay[key])
               ELSE overlay[key]], base)

merge_session_overlay(base, overlay, allowed) ==
  IF \/ Section(overlay, "mcp_servers") # <<>>
     \/ \E c \in Range(Section(overlay, "mcp_clients")) : ~check_overlay_client(c, allowed)
  THEN None
  ELSE Over([key \in DOMAIN overlay |->
               IF key \in OverlayUnionKeys THEN Over(overlay[key], Section(base, key))
               ELSE overlay[key]], base)

-----------------------------------------------------------------------------
(* The check of references.                                                *)

\* An agent's thinking needs a Bedrock model to apply to.
validate_agent_thinking(agent, config) ==
  agent.thinking # None =>
    agent.model # None /\ config.models[agent.model].provider = "bedrock"

validate_orchestration_refs(o, nodes) ==
  /\ o.entry_name \in nodes
  /\ CASE o.mode = "delegate" -> \A n \in Range(o.connections) : n \in nodes /\ n # o.entry_name
       [] o.mode = "swarm" -> Range(o.agents) \subseteq nodes
       [] o.mode = "graph" -> node_ids(o) \subseteq nodes

validate_references(config) ==
  LET defined(n, key) == n = None \/ n \in DOMAIN config[key]
      nodes == DOMAIN config.agents \cup DOMAIN config.orchestrations
  IN /\ \A d \in Range(config.agents) :
          /\ defined(d.model, "models")
          /\ validate_agent_thinking(d, config)
          /\ d.history # None => defined(d.history.summarize_model, "models")
          /\ d.mcp \subseteq DOMAIN config.mcp_clients
     /\ \A c \in Range(config.mcp_clients) : defined(c.server, "mcp_servers")
     /\ \A o \in Range(config.orchestrations) : validate_orchestration_refs(o, nodes)

\* normalize, the schema and the references.
validate_raw_config(raw) ==
  IF Field(raw, "version", "1") = "1" /\ AppConfig(raw) /\ validate_references(Complete(raw))
  THEN Complete(raw) ELSE None

-----------------------------------------------------------------------------
(* The loaders.                                                            *)

read_source(source) ==
  LET raw == parse_single_source(source)
  IN IF raw = None THEN None ELSE sanitize_collection_keys(raw)

parse_config_sources(sources) ==
  LET merge(raws) == IF None \in Range(raws) THEN None
                     ELSE IF Len(raws) > 1 THEN merge_raw_configs(raws) ELSE raws[1]
  IN merge([i \in DOMAIN sources |-> read_source(sources[i])])

Validated(raw) == IF raw = None THEN None ELSE validate_raw_config(raw)

load_config(sources) == Validated(parse_config_sources(sources))

\* A run's own configuration: the overlay it submits, if any, over the service's.
load_session_config(base, overlay, allowed) ==
  IF overlay = None THEN validate_raw_config(base)
  ELSE LET raw == read_source(overlay)
       IN IF raw = None THEN None ELSE Validated(merge_session_overlay(base, raw, allowed))

=============================================================================
