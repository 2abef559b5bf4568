------------------------------ MODULE MCIssueOps ------------------------------
(***************************************************************************)
(* Issues deleted, and issues edited in bulk, while events arrive.  Each   *)
(* part is explored by itself: focus is the part that moves.  Liveness is  *)
(* checked, which symmetry would make unsound, so none is declared.        *)
(***************************************************************************)
EXTENDS IssueLifecycle, BulkIssueUpdate

CONSTANT MaxDisturbances  \* bound: requests, comments, unmerges, aged issues, changed filters
                          \* and, twice, crashes
VARIABLE focus

opsVars == <<focus, lifecycleVars, bulkVars>>
OneStatus == [i \in BulkIssues |-> "unresolved"]
OpsInit ==
  /\ focus \in {"deletion", "bulk"}
  /\ focus # "bulk" => /\ status = OneStatus
                       /\ eventIssue = CHOOSE f \in [BulkEvents -> (1..Existing) \cup {NoRow}] :
                            /\ \A e \in BulkEvents : f[e] # NoRow <=> e \in Stored
                            /\ \A i \in 1..Existing : \E e \in Stored : f[e] = i
  /\ LifecycleInit /\ BulkInit
  /\ focus # "bulk" => api.op = "status" /\ api.filter = "all"
Disturbances ==
  (MaxRequests + MaxComments + MaxUnmerges + MaxAges + MaxChanges + MaxCrashes)
  - (budget.requests + budget.comments + budget.unmerges + budget.ages + budget.changes + budget.crashes)
OpsNext ==
  /\ UNCHANGED focus
  /\ \/ focus = "deletion" /\ LifecycleNext /\ Disturbances' + (MaxCrashes - budget'.crashes) <= MaxDisturbances /\ UNCHANGED bulkVars
     \* Users interfere with the edits of a status only.
     \/ focus = "bulk"     /\ BulkNext /\ (userEdits' > 0 => api.op = "status") /\ UNCHANGED lifecycleVars
\* The fairness of each part, of the behaviours in which it moves.
Deleting == focus = "deletion"
Editing  == focus = "bulk"
OpsFairness ==
  /\ \A w \in Workers : WF_lifecycleVars(Deleting /\ IngestStep(w))
  /\ WF_lifecycleVars(Deleting /\ EnqueueStep)
  /\ \A d \in Deleters : /\ WF_lifecycleVars(Deleting /\ DeleteStep(d))
                          /\ WF_lifecycleVars(Deleting /\ StartCleanup(d))
                          /\ WF_lifecycleVars(Deleting /\ StartTask(d))
  /\ WF_bulkVars(Editing /\ ApiStep) /\ WF_bulkVars(Editing /\ TaskStep)
OpsSpec == OpsInit /\ [][OpsNext]_opsVars /\ OpsFairness
================================================================================
