--------------------------- MODULE MCIssueAlerts ---------------------------
(***************************************************************************)
(* IssueAlerts with a bound on what disturbs a behaviour.  Liveness is     *)
(* checked, which symmetry would make unsound, so none is declared.        *)
(***************************************************************************)
EXTENDS IssueAlerts

CONSTANT i1
CONSTANT MaxDisturbances  \* bound: resolved issues, failed tasks and, twice, slides of the window

\* Issues may be swapped, so it is enough to resolve the first.
MCNext == AlertsNext /\ resolved' \subseteq {i1} /\ resolves' + 2 * slides' + crashes' <= MaxDisturbances
MCSpec == AlertsInit /\ [][MCNext]_alertVars /\ AlertsFairness
================================================================================
