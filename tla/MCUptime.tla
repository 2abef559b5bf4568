------------------------------- MODULE MCUptime -------------------------------
(***************************************************************************)
(* The monitors, and the ASGI application's answers to its server.  Each   *)
(* part is explored by itself: focus is the part that moves.  Liveness is  *)
(* checked, which symmetry would make unsound, so none is declared.        *)
(***************************************************************************)
EXTENDS Uptime, AsgiApp

VARIABLE focus

MCInterval == [m \in Monitors |-> m]

serveVars == <<focus, uptimeVars, asgiVars>>
Monitoring == focus = "uptime"
Serving    == focus = "asgi"
ServeInit ==
  /\ focus \in {"uptime", "asgi"}
  /\ Serving => service = [m \in Monitors |-> "ok"] /\ throttled = FALSE
  /\ UptimeInit /\ AsgiInit
\* Bound: the first failure of a heartbeat counts, as the default has it.
Confirmed == \A m \in Rows' : mon'[m].kind = HEARTBEAT => mon'[m].thr = 1
ServeNext ==
  /\ UNCHANGED focus
  /\ \/ Monitoring /\ UptimeNext /\ Confirmed /\ UNCHANGED asgiVars
     \/ Serving /\ AsgiNext /\ UNCHANGED uptimeVars
\* The fairness of each part, of the behaviours in which it moves.
ServeFairness ==
  /\ WF_uptimeVars(Monitoring /\ dispatch_checks)
  /\ \A j \in Slots : WF_uptimeVars(Monitoring /\ (Work(j) \/ perform_checks(j)))
  /\ WF_asgiVars(Serving /\ (AnswerStartup \/ AnswerShutdown))
  /\ \A a \in Apps : WF_asgiVars(Serving /\ Reports(a))
ServeSpec == ServeInit /\ [][ServeNext]_serveVars /\ ServeFairness
================================================================================
