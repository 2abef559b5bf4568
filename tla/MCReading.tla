------------------------------ MODULE MCReading ------------------------------
(***************************************************************************)
(* Rows written while they are read: the statistics of transaction groups, *)
(* and the endpoints and tools that show issues and events.  Each part is  *)
(* explored by itself: focus is the part that moves.                       *)
(***************************************************************************)
EXTENDS TransactionStats, IssueReads, TLC

VARIABLE focus

\* Two organizations with a project each, two issues in the first.
MCOrgOf == "a" :> 1 @@ "b" :> 2
MCProjectOf == 1 :> "a" @@ 2 :> "a" @@ 3 :> "b"

readingVars == <<focus, statsVars, readVars>>
ReadingInit ==
  /\ focus \in {"groups", "reads"}
  /\ focus # "reads" => member = Users \X Orgs
  /\ StatsInit /\ ReadInit
ReadingNext ==
  /\ UNCHANGED focus
  /\ \/ focus = "groups" /\ StatsNext /\ UNCHANGED readVars
     \/ focus = "reads"  /\ ReadNext  /\ UNCHANGED statsVars
     \* Only the transaction groups are checked for deadlock.
     \/ focus = "reads"  /\ UNCHANGED <<statsVars, readVars>>
ReadingSpec == ReadingInit /\ [][ReadingNext]_readingVars

\* Neither workers nor group keys are told apart.
StatsSymmetry == Permutations(Workers) \cup Permutations(Keys)
================================================================================
