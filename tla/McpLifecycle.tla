---------------------------- MODULE McpLifecycle ----------------------------
(***************************************************************************)
(* The MCP servers a process runs and the client sessions held to them and *)
(* to other hosts.  A server is a thread that binds a port.  It counts as  *)
(* ready when something answers on its port.  A client session opens when  *)
(* the first agent registers it and belongs to the lifecycle it was added  *)
(* to: the process's, or that of one run.                                  *)
(***************************************************************************)
EXTENDS ConfigSchema

CONSTANTS
  Runs,     \* the runs that bring their own configuration
  Boot      \* the process's own lifecycle

VARIABLES
  thread,   \* server name to its thread: none, starting, up, failed, abandoned
  taken,    \* servers whose port another program listens on
  ready,    \* servers start() has found ready
  phase,    \* the process's lifecycle: cold, waiting, started, closing
  open      \* lifecycle to the client sessions it has open

mcpVars == <<thread, taken, ready, phase, open>>

ThreadStates == {"none", "starting", "up", "failed", "abandoned"}

-----------------------------------------------------------------------------
(* Clients.                                                                *)

DefaultTransport == "streamable-http"

\* The transport auth is wired for: explicit, or told from the URL.
effective_transport(d) ==
  IF d.transport # None THEN d.transport
  ELSE IF d.url # None /\ d.url.sse THEN "sse" ELSE DefaultTransport

\* The transport the client connects by: explicit, or the default.
client_transport(d) == IF d.transport # None THEN d.transport ELSE DefaultTransport

\* A subprocess needs nothing; over HTTP the transport must be one, and take the
\* options auth was wired as.
resolve_mcp_client(d) ==
  \/ d.command # None
  \/ /\ client_transport(d) \in {"sse", "streamable-http"}
     /\ d.auth # None => effective_transport(d) = client_transport(d)

\* A client's session is shared by those that differ only in their filters.
Connection(d) ==
  [server |-> d.server, url |-> d.url, command |-> d.command, transport |-> d.transport,
   auth |-> d.auth, filters |-> None]

\* What a run's agents connect to, given the servers the process runs.
resolve_run_clients(clients, servers) ==
  IF \E d \in Range(clients) : (d.server # None /\ d.server \notin servers) \/ ~resolve_mcp_client(d)
  THEN None ELSE [n \in DOMAIN clients |-> Connection(clients[n])]

\* A session can be opened to a managed server when something answers on its port.
Answers(s) == thread[s] = "up" \/ s \in taken

-----------------------------------------------------------------------------
(* The process's lifecycle.                                                *)

McpInit ==
  /\ thread = <<>> /\ taken = {} /\ ready = {} /\ phase = "cold"
  /\ open = [o \in Runs \cup {Boot} |-> {}]

\* The servers the configuration declares, some of whose ports are in use.
AddServers(servers) ==
  /\ phase = "cold" /\ thread' = [s \in servers |-> "none"]
  /\ taken' \in SUBSET servers
  /\ UNCHANGED <<ready, phase, open>>

\* Phase 1 of start: every server's thread.
StartServers ==
  /\ phase = "cold" /\ phase' = "waiting"
  /\ thread' = [s \in DOMAIN thread |-> "starting"]
  /\ UNCHANGED <<taken, ready, open>>

\* The thread binds its port, or ends: the port is another program's, or it fails.
Bind(s) ==
  /\ thread[s] = "starting"
  /\ \/ s \notin taken /\ thread' = [thread EXCEPT ![s] = "up"]
     \/ thread' = [thread EXCEPT ![s] = "failed"]
  /\ UNCHANGED <<taken, ready, phase, open>>

\* Phase 2, one server after another: its thread has not ended and its port answers.
wait_ready(s) ==
  /\ phase = "waiting" /\ s \notin ready
  /\ thread[s] # "failed" /\ Answers(s)
  /\ ready' = ready \cup {s}
  /\ UNCHANGED <<thread, taken, phase, open>>

\* A server ended or took too long: start raises, and the others keep running.
NotReady(s) ==
  /\ phase = "waiting" /\ s \notin ready
  /\ (thread[s] = "failed" \/ ~Answers(s))
  /\ UNCHANGED <<thread, taken, ready, phase, open>>

Started ==
  /\ phase = "waiting" /\ ready = DOMAIN thread
  /\ phase' = "started"
  /\ UNCHANGED <<thread, taken, ready, open>>

\* An owner's sessions after agents registered what they use.
Opened(owner, connections) == [open EXCEPT ![owner] = @ \cup connections]

\* stop, phase 1: every client; one never opened is skipped.
StopClients ==
  /\ phase = "started" /\ phase' = "closing"
  /\ open' = [open EXCEPT ![Boot] = {}]
  /\ UNCHANGED <<thread, taken, ready>>

\* Phase 2: a server drains, or outlives both of its timeouts and is left behind.
StopServer(s) ==
  /\ phase = "closing" /\ thread[s] \in {"starting", "up", "failed"}
  /\ \/ thread' = [thread EXCEPT ![s] = "none"]
     \/ thread[s] # "failed" /\ thread' = [thread EXCEPT ![s] = "abandoned"]
  /\ UNCHANGED <<taken, ready, phase, open>>

Stopped == phase = "closing" /\ Range(thread) \subseteq {"none", "abandoned"}

=============================================================================
