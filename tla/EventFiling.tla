------------------------------ MODULE EventFiling ------------------------------
(***************************************************************************)
(* What issue ingest promises, without workers, replicas or statements: a  *)
(* hash gets an issue of its own, once and for all, and events are filed   *)
(* under the issue of their hash, and stay there.                          *)
(***************************************************************************)

CONSTANTS Events, Hashes, Issues, NoIssue

VARIABLES
  hashOf,   \* the hash of each event, given from the start
  owner,    \* the issue of each hash, NoIssue before its first event
  filed     \* the issue each event is filed under, NoIssue before
vars == <<hashOf, owner, filed>>

Init ==
  /\ hashOf \in [Events -> Hashes]
  /\ \A g, h \in Hashes : g # h /\ owner[g] # NoIssue => owner[g] # owner[h]
  /\ filed = [e \in Events |-> NoIssue]

\* A new issue, that no other hash has.
Open(h, i) ==
  /\ owner[h] = NoIssue /\ i # NoIssue
  /\ \A g \in Hashes : owner[g] # i
  /\ owner' = [owner EXCEPT ![h] = i]
  /\ UNCHANGED <<hashOf, filed>>

\* Events whose hashes have issues are filed, all of them in one step.
File(S) ==
  /\ \A e \in S : owner[hashOf[e]] # NoIssue
  /\ filed' = [e \in Events |-> IF e \in S THEN owner[hashOf[e]] ELSE filed[e]]
  /\ UNCHANGED <<hashOf, owner>>

Next == (\E h \in Hashes, i \in Issues : Open(h, i)) \/ (\E S \in SUBSET Events : File(S))

Spec == Init /\ [][Next]_vars
================================================================================
