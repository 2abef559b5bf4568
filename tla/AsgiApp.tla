--------------------------------- MODULE AsgiApp ---------------------------------
(***************************************************************************)
(* The ASGI wrapper around the Django and MCP applications: the server's     *)
(* lifespan messages are passed to both and answered once both are ready,    *)
(* also when one of them dies; and the MCP application's database            *)
(* connection is recycled around each of its requests.                       *)
(***************************************************************************)
EXTENDS Naturals

CONSTANT MaxFailovers   \* bound: times the database drops its connections
ASSUME FailoverAssumption == MaxFailovers \in Nat

Apps == {"django", "mcp"}
VARIABLES
  server,  \* the lifespan message in hand: "none", "startup", "up", "shutdown", "failed" or "down"
  app,     \* sub-application -> "waiting" (for a message), "starting", "running", "stopping" or "ended"
  ok, done, failed, \* the events the handler waits on, and its failure flag
  conn,    \* the connection the MCP queries use: "live" or "dead"
  call,    \* the MCP request: "idle", "recycled" or "served"
  excuse,  \* history: the connection died, or its recycling raised, during this request
  failovers
asgiVars == <<server, app, ok, done, failed, conn, call, excuse, failovers>>
span == <<server, app, ok, done, failed>>
mcpdb == <<conn, call, excuse, failovers>>

AsgiInit ==
  /\ server = "none" /\ app = [a \in Apps |-> "waiting"]
  /\ ok = [a \in Apps |-> FALSE] /\ done = [a \in Apps |-> FALSE] /\ failed = FALSE
  /\ conn = "live" /\ call = "idle" /\ excuse = FALSE /\ failovers = 0
--------------------------------------------------------------------------------
\* _handle_lifespan puts the server's message in both queues ...
ServerSays(message, before, next) ==
  /\ server = before /\ server' = message
  /\ app' = [a \in Apps |-> IF app[a] \in {"waiting", "running"} THEN next ELSE app[a]]
  /\ UNCHANGED <<ok, done, failed, mcpdb>>
Startup == ServerSays("startup", "none", "starting")
Shutdown == ServerSays("shutdown", "up", "stopping")
\* ... and a sub-application answers (django_send, mcp_send).
Reports(a) ==
  /\ \/ /\ app[a] = "starting" /\ ok' = [ok EXCEPT ![a] = TRUE] /\ UNCHANGED done
        /\ \/ app' = [app EXCEPT ![a] = "running"] /\ UNCHANGED failed
           \/ app' = [app EXCEPT ![a] = "stopping"] /\ failed' = TRUE
     \/ /\ app[a] = "stopping" /\ done' = [done EXCEPT ![a] = TRUE]
        /\ app' = [app EXCEPT ![a] = "ended"] /\ UNCHANGED <<ok, failed>>
  /\ UNCHANGED <<server, mcpdb>>
\* What run_subapp's finally settles when its application is gone.
SettleDoneOnly(a) == UNCHANGED <<ok, failed>> /\ done' = [done EXCEPT ![a] = TRUE]
Settle(a) ==
  /\ failed' = (failed \/ ~ok[a]) /\ ok' = [ok EXCEPT ![a] = TRUE]
  /\ done' = [done EXCEPT ![a] = TRUE]
\* run_subapp: the application raises, or returns without finishing the protocol.
Dies(a) ==
  /\ app[a] # "ended" /\ app' = [app EXCEPT ![a] = "ended"]
  /\ Settle(a) /\ UNCHANGED <<server, mcpdb>>
\* The handler waits for both, then answers; a failed startup cancels the tasks.
AnswerStartup ==
  /\ server = "startup" /\ \A a \in Apps : ok[a]
  /\ server' = IF failed THEN "failed" ELSE "up"
  /\ app' = IF failed THEN [a \in Apps |-> "ended"] ELSE app
  /\ UNCHANGED <<ok, done, failed, mcpdb>>
AnswerShutdown ==
  /\ server = "shutdown" /\ \A a \in Apps : done[a]
  /\ server' = "down" /\ app' = [a \in Apps |-> "ended"]
  /\ UNCHANGED <<ok, done, failed, mcpdb>>
--------------------------------------------------------------------------------
\* _recycle_db_connections: a dead connection goes back to the pool; a raise is
\* logged and leaves it.
_recycle_db_connections(raises) == IF raises THEN conn ELSE "live"
\* RecycleConnectionsMiddleware: recycle, call the application, recycle again,
\* also when the client hung up.
McpRequest(raises) ==
  /\ server = "up" /\ call = "idle" /\ call' = "recycled"
  /\ conn' = _recycle_db_connections(raises) /\ excuse' = raises
  /\ UNCHANGED <<span, failovers>>
McpRequestStraight(raises) ==
  /\ server = "up" /\ call = "idle" /\ call' = "recycled" /\ raises = FALSE
  /\ excuse' = FALSE /\ UNCHANGED <<conn, span, failovers>>
BeginRequest(raises) == McpRequest(raises)
ServeRequest ==
  /\ call = "recycled" /\ call' = "served" /\ UNCHANGED <<span, conn, excuse, failovers>>
EndRequest(raises) ==
  /\ call = "served" /\ call' = "idle" /\ conn' = _recycle_db_connections(raises) /\ excuse' = FALSE
  /\ UNCHANGED <<span, failovers>>
\* Postgres fails over: the connection in use, idle or not, is dead.
Failover ==
  /\ failovers < MaxFailovers /\ failovers' = failovers + 1
  /\ conn' = "dead" /\ excuse' = TRUE /\ UNCHANGED <<span, call>>

AsgiNext ==
  \/ Startup \/ Shutdown \/ AnswerStartup \/ AnswerShutdown
  \/ \E a \in Apps : Reports(a) \/ Dies(a)
  \/ \E raises \in BOOLEAN : BeginRequest(raises) \/ EndRequest(raises)
  \/ ServeRequest \/ Failover
\* A sub-application goes on or ends: none hangs; the handler runs when it can.
AsgiFairness == WF_asgiVars(AnswerStartup \/ AnswerShutdown) /\ \A a \in Apps : WF_asgiVars(Reports(a))
AsgiSpec == AsgiInit /\ [][AsgiNext]_asgiVars /\ AsgiFairness
--------------------------------------------------------------------------------
\* Every lifespan message of the server is answered, whichever of the two
\* applications fails to start, raises or returns early and when: a broken
\* application never wedges the worker.
LifespanAnswered == server \in {"startup", "shutdown"} ~> server \in {"up", "failed", "down"}

\* A connection that died between two MCP requests is not met by the next one: a
\* request sees a dead connection only if it died, or its recycling raised,
\* during that request.
NoStaleConnection == call # "idle" /\ conn = "dead" => excuse
================================================================================
