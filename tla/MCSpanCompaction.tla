-------------------------- MODULE MCSpanCompaction --------------------------
(* Spans of one transaction name and operation, each of a transaction of its *)
(* own: no N+1 pattern.                                                      *)
EXTENDS SpanQueries

CONSTANTS s1, s2

MCNameOf  == [s \in Spans |-> "checkout"]
MCOpOf    == [s \in Spans |-> "db"]
MCTraceOf == [s \in Spans |-> s]

\* The two spans may be swapped, so one order of them is enough; and a second
\* failure only befalls spans of one hour.  A query meets no failure but a chunk
\* that was cut short before it began.
MCInit ==
  /\ QueriesInit
  /\ \/ hourOf[s1] < hourOf[s2]
     \/ hourOf[s1] = hourOf[s2] /\ (s2 \in garbage => s1 \in garbage)
MCNext ==
  /\ QueriesNext
  /\ hourOf[s1] # hourOf[s2] => mishaps' <= 1
  /\ query.at = "none" /\ query'.at # "none" /\ mishaps > 0 => Torn # {}
  /\ query.at # "none" => mishaps' = mishaps
MCSpec == MCInit /\ [][MCNext]_queryVars /\ Fairness
================================================================================
