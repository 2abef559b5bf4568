------------------------------ MODULE IssueIngest ------------------------------
(***************************************************************************)
(* Issue-event ingest: several ingest workers run process_issue_events on  *)
(* batches of the event stream, one autocommitted database statement per   *)
(* action, while users change the status of issues through the API and a   *)
(* read replica lags behind the primary.                                   *)
(*                                                                         *)
(* One project is modelled, so an IssueHash row is keyed by its value      *)
(* alone.  A number 0 stands for SQL NULL / Python None in id columns.     *)
(***************************************************************************)
EXTENDS Integers, FiniteSets

CONSTANTS
  Workers,        \* ingest task workers
  Clients,        \* API callers of update_issue_status
  Hashes,         \* values of IssueHash.value
  Releases,       \* releases known to the project
  NoRelease,      \* NULL release
  LegacyHashes,   \* at most one hash whose issue predates the IssueIndex leaf
  ReadReplica,    \* TRUE when settings.DATABASES has "read_only"
  MaxEvents,      \* bound: events in the stream
  MaxIssues,      \* bound: values of the issue id sequence
  MaxBatch,       \* bound: events per ingest batch (100 in VTASKS_QUEUES)
  MaxStatusCalls, \* bound: API status updates
  MaxFailures     \* bound: ingest tasks that die half way

ASSUME WorkersAssumption == IsFiniteSet(Workers) /\ IsFiniteSet(Clients)
ASSUME BoundsAssumption ==
  /\ MaxEvents \in Nat /\ MaxIssues \in Nat /\ MaxBatch \in Nat \ {0}
  /\ MaxStatusCalls \in Nat /\ MaxFailures \in Nat
  /\ ReadReplica \in BOOLEAN
ASSUME ReleaseAssumption == NoRelease \notin Releases
ASSUME LegacyAssumption ==
  /\ LegacyHashes \subseteq Hashes
  /\ \A g, h \in LegacyHashes : g = h
  /\ LegacyHashes # {} => MaxIssues >= 1

EventIds == 1..MaxEvents
IssueIds == 1..MaxIssues
NoIssue  == 0
Statuses == {"unresolved", "resolved", "ignored"}
ReleaseIds == Releases \cup {NoRelease}

\* All that ingest decides on of an event: the grouping hash computed from its
\* title, culprit, type and fingerprint, and the release it was sent for.
ProcessingEvent == [hash : Hashes, release : ReleaseIds]

\* The statement a worker executes next.
Steps == {"idle", "fetch", "fallback", "create", "insert", "winner", "apply",
          "sadd", "reopen_leaf", "reopen_issue", "copy",
          "stats", "aggregate"}

VARIABLES
  \* the event stream: contents chosen once, consumed in order of `received`
  ev, taken,
  \* PostgreSQL, primary: row sets and columns
  issues, shortId, resolvedIn,          \* issue_events_issue
  leaves, count, lastSeen, status,      \* issue_events_issueindex
  hash,                                 \* issue_events_issuehash
  stored,                               \* issue_events_issueevent
  projStat, aggr,                       \* hourly statistics, IssueAggregate
  counter, issueSeq,                    \* ProjectCounter, issue id sequence
  \* PostgreSQL, replica: what the hash lookup would return there
  replica,
  \* Valkey: set of issue ids waiting for the alert task
  pending,
  \* ingest workers
  pc, batch, att, created, reopen, short, snap,
  \* API callers
  api,
  \* history: dead batches, bulk-edited issues, status writes, owed reopens
  lost, bulk, epoch, owed, calls, failures

dbVars     == <<issues, shortId, resolvedIn, leaves, count, lastSeen, status,
                hash, stored, projStat, aggr, counter, issueSeq>>
workerVars == <<pc, batch, att, created, reopen, short, snap>>
histVars   == <<lost, bulk, epoch, owed, calls, failures>>
vars       == <<ev, taken, dbVars, replica, pending, workerVars, api, histVars>>
--------------------------------------------------------------------------------
(***************************************************************************)
(* Reads                                                                   *)
(***************************************************************************)
\* What the hash lookup returns for one hash: the IssueHash row joined with
\* its Issue and its IssueIndex leaf; issue = NoIssue when the join is empty.
JoinRow(h) ==
  LET i == hash[h] IN
  IF i \in issues /\ i \in leaves
  THEN [issue |-> i, status |-> status[i], resolvedIn |-> resolvedIn[i]]
  ELSE [issue |-> NoIssue, status |-> "unresolved", resolvedIn |-> NoRelease]

\* The rows such a lookup can return.
JoinRows == [issue : 0..MaxIssues, status : Statuses, resolvedIn : ReleaseIds]

\* A resolved issue regresses on an event, unless it was resolved in a release
\* and the event carries no release or that same one.
Regresses(row, release) ==
  /\ row.issue # NoIssue
  /\ row.status = "resolved"
  /\ \/ row.resolvedIn = NoRelease
     \/ release # NoRelease /\ row.resolvedIn # release

EventsOf(i)   == {e \in EventIds : stored[e] = i}
Unresolved(w) == {e \in batch[w] : att[w][e] = NoIssue}
First(S)      == CHOOSE e \in S : \A f \in S : e <= f
Latest(S)     == CHOOSE e \in S : \A f \in S : e >= f
IsBusy(w)     == pc[w] # "idle"

\* Events of the batch that update_issues counts on issue i: all but the one
\* whose insertion already wrote count = 1.
Counted(w, i) == {e \in batch[w] \ created[w] : att[w][e] = i}
ToUpdate(w)   == {att[w][e] : e \in batch[w] \ created[w]}
--------------------------------------------------------------------------------
Init ==
  /\ ev \in [EventIds -> ProcessingEvent]
  /\ taken = 0
  /\ issues = IF LegacyHashes = {} THEN {} ELSE {1}
  /\ shortId = [i \in IssueIds |-> IF i \in issues THEN 1 ELSE 0]
  /\ resolvedIn = [i \in IssueIds |-> NoRelease]
  /\ leaves = {}
  /\ count = [i \in IssueIds |-> 0]
  /\ lastSeen = [i \in IssueIds |-> 0]
  /\ status = [i \in IssueIds |-> "unresolved"]
  /\ hash = [h \in Hashes |-> IF h \in LegacyHashes THEN 1 ELSE NoIssue]
  /\ stored = [e \in EventIds |-> NoIssue]
  /\ projStat = 0
  /\ aggr = [i \in IssueIds |-> 0]
  /\ counter = IF LegacyHashes = {} THEN 0 ELSE 1
  /\ issueSeq = IF LegacyHashes = {} THEN 0 ELSE 1
  /\ replica = [h \in Hashes |-> [issue |-> NoIssue, status |-> "unresolved",
                                  resolvedIn |-> NoRelease]]
  /\ pending = {}
  /\ pc = [w \in Workers |-> "idle"]
  /\ batch = [w \in Workers |-> {}]
  /\ att = [w \in Workers |-> [e \in EventIds |-> NoIssue]]
  /\ created = [w \in Workers |-> {}]
  /\ reopen = [w \in Workers |-> {}]
  /\ short = [w \in Workers |-> 0]
  /\ snap = [w \in Workers |-> {}]
  /\ api = [c \in Clients |-> [issue |-> NoIssue, status |-> "unresolved"]]
  /\ lost = {}
  /\ bulk = {}
  /\ epoch = [i \in IssueIds |-> 0]
  /\ owed = [w \in Workers |-> {}]
  /\ calls = 0
  /\ failures = 0
--------------------------------------------------------------------------------
(***************************************************************************)
(* Ingest worker: process_issue_events                                     *)
(***************************************************************************)
\* The task queue hands worker w the next n events.
TakeBatch(w, n) ==
  /\ pc[w] = "idle"
  /\ taken + n <= MaxEvents
  /\ taken' = taken + n
  /\ batch' = [batch EXCEPT ![w] = taken + 1 .. taken + n]
  /\ pc' = [pc EXCEPT ![w] = "fetch"]
  /\ owed' = [owed EXCEPT ![w] =
       {<<hash[ev[e].hash], epoch[hash[ev[e].hash]]>> :
          e \in {f \in taken + 1 .. taken + n :
                   Regresses(JoinRow(ev[f].hash), ev[f].release)}}]
  /\ UNCHANGED <<ev, dbVars, replica, pending, att, created, reopen, short,
                 snap, api, lost, bulk, epoch, calls, failures>>

\* Mutant of Lookup: an event without a release never reopens.
LookupWithReleaseOnly(w, es, row) ==
  /\ att' = [att EXCEPT ![w] = [e \in EventIds |->
               IF e \in es THEN row[ev[e].hash].issue ELSE att[w][e]]]
  /\ reopen' = [reopen EXCEPT ![w] = @ \cup
       {row[ev[e].hash].issue :
          e \in {f \in es : /\ Regresses(row[ev[f].hash], ev[f].release)
                            /\ ev[f].release # NoRelease}}]

\* The outcome of one hash lookup for the events es of the batch: attribute
\* the hits and remember which of their issues have to be reopened.
Lookup(w, es, row) ==
  /\ att' = [att EXCEPT ![w] = [e \in EventIds |->
               IF e \in es THEN row[ev[e].hash].issue ELSE att[w][e]]]
  /\ reopen' = [reopen EXCEPT ![w] = @ \cup
       {row[ev[e].hash].issue :
          e \in {f \in es : Regresses(row[ev[f].hash], ev[f].release)}}]

\* _fetch_issue_hashes on the replica when there is one, else on the primary.
FetchHashes(w) ==
  /\ pc[w] = "fetch"
  /\ Lookup(w, batch[w],
            IF ReadReplica THEN replica ELSE [h \in Hashes |-> JoinRow(h)])
  /\ pc' = [pc EXCEPT ![w] =
       IF ReadReplica /\ \E e \in batch[w] : att'[w][e] = NoIssue
       THEN "fallback" ELSE "create"]
  /\ UNCHANGED <<ev, taken, dbVars, replica, pending, batch, created, short,
                 snap, api, histVars>>

\* Primary fallback for the hashes the replica did not have.
FetchMissing(w) ==
  /\ pc[w] = "fallback"
  /\ Lookup(w, Unresolved(w), [h \in Hashes |-> JoinRow(h)])
  /\ pc' = [pc EXCEPT ![w] = "create"]
  /\ UNCHANGED <<ev, taken, dbVars, replica, pending, batch, created, short,
                 snap, api, histVars>>

\* Mutant of TakeShortId: the counter is read, not upserted.
TakeShortIdReadOnly(w) ==
  /\ pc[w] = "create"
  /\ Unresolved(w) # {}
  /\ counter' = counter
  /\ short' = [short EXCEPT ![w] = counter + 1]
  /\ pc' = [pc EXCEPT ![w] = "insert"]
  /\ UNCHANGED <<ev, taken, issues, shortId, resolvedIn, leaves, count,
                 lastSeen, status, hash, stored, projStat, aggr, issueSeq,
                 replica, pending, batch, att, created, reopen, snap,
                 api, histVars>>

\* _create_issue_and_hash: the project counter is taken in a statement of its
\* own, before the atomic block.
TakeShortId(w) ==
  /\ pc[w] = "create"
  /\ Unresolved(w) # {}
  /\ counter' = counter + 1
  /\ short' = [short EXCEPT ![w] = counter + 1]
  /\ pc' = [pc EXCEPT ![w] = "insert"]
  /\ UNCHANGED <<ev, taken, issues, shortId, resolvedIn, leaves, count,
                 lastSeen, status, hash, stored, projStat, aggr, issueSeq,
                 replica, pending, batch, att, created, reopen, snap,
                 api, histVars>>

\* check_set_issue_id: the events of the batch that share a new issue's hash.
FiledWith(w, h) == {e \in Unresolved(w) : ev[e].hash = h}

\* The atomic block commits: Issue, IssueHash and IssueIndex rows appear
\* together, and check_set_issue_id attributes the batch's other new events.
InsertIssue(w) ==
  LET e == First(Unresolved(w))
      h == ev[e].hash
      i == issueSeq + 1
  IN
  /\ pc[w] = "insert"
  /\ issueSeq < MaxIssues
  /\ hash[h] = NoIssue
  /\ issueSeq' = i
  /\ issues' = issues \cup {i}
  /\ shortId' = [shortId EXCEPT ![i] = short[w]]
  /\ resolvedIn' = [resolvedIn EXCEPT ![i] = NoRelease]
  /\ hash' = [hash EXCEPT ![h] = i]
  /\ leaves' = leaves \cup {i}
  /\ count' = [count EXCEPT ![i] = 1]
  /\ lastSeen' = [lastSeen EXCEPT ![i] = e]
  /\ status' = [status EXCEPT ![i] = "unresolved"]
  /\ att' = [att EXCEPT ![w] = [f \in EventIds |->
               IF f \in FiledWith(w, h) THEN i ELSE att[w][f]]]
  /\ created' = [created EXCEPT ![w] = @ \cup {e}]
  /\ pc' = [pc EXCEPT ![w] = "create"]
  /\ UNCHANGED <<ev, taken, stored, projStat, aggr, counter, replica,
                 pending, batch, reopen, short, snap, api, histVars>>

\* The unique (project, value) constraint refuses the IssueHash row: the block
\* rolls back, leaving only the two sequences advanced.
LoseRace(w) ==
  LET h == ev[First(Unresolved(w))].hash IN
  /\ pc[w] = "insert"
  /\ issueSeq < MaxIssues
  /\ hash[h] # NoIssue
  /\ issueSeq' = issueSeq + 1
  /\ pc' = [pc EXCEPT ![w] = "winner"]
  /\ UNCHANGED <<ev, taken, issues, shortId, resolvedIn, leaves, count,
                 lastSeen, status, hash, stored, projStat, aggr, counter,
                 replica, pending, batch, att, created, reopen, short,
                 snap, api, histVars>>

\* Mutant of ReadWinner: the loser reports created=True.
ReadWinnerAsCreated(w) ==
  LET e == First(Unresolved(w))
      h == ev[e].hash
  IN
  /\ pc[w] = "winner"
  /\ hash[h] # NoIssue
  /\ att' = [att EXCEPT ![w][e] = hash[h]]
  /\ created' = [created EXCEPT ![w] = @ \cup {e}]
  /\ pc' = [pc EXCEPT ![w] = "create"]
  /\ UNCHANGED <<ev, taken, dbVars, replica, pending, batch, reopen,
                 short, snap, api, histVars>>

\* The loser reads the winner's id; it created nothing.
ReadWinner(w) ==
  LET e == First(Unresolved(w))
      h == ev[e].hash
  IN
  /\ pc[w] = "winner"
  /\ hash[h] # NoIssue
  /\ att' = [att EXCEPT ![w][e] = hash[h]]
  /\ pc' = [pc EXCEPT ![w] = "create"]
  /\ UNCHANGED <<ev, taken, dbVars, replica, pending, batch, created, reopen,
                 short, snap, api, histVars>>

\* update_issues, first half: the statement takes its snapshot of the leaves.
\* With nothing to update it returns before the statement.
SnapshotLeaves(w) ==
  /\ pc[w] = "create"
  /\ Unresolved(w) = {}
  /\ snap' = [snap EXCEPT ![w] = ToUpdate(w) \cap leaves]
  /\ pc' = [pc EXCEPT ![w] = IF ToUpdate(w) = {} THEN "sadd" ELSE "apply"]
  /\ UNCHANGED <<ev, taken, dbVars, replica, pending, batch, att, created,
                 reopen, short, api, histVars>>

\* The leaves update_issues has to insert.
MissingLeaves(w) == ToUpdate(w) \ leaves

\* update_issues, second half: UPDATE the leaves of the snapshot that still
\* exist, INSERT the others ... ON CONFLICT DO NOTHING.
UpdateIssues(w) ==
  LET updated  == ToUpdate(w) \cap snap[w] \cap leaves
      inserted == MissingLeaves(w)
  IN
  /\ pc[w] = "apply"
  /\ leaves' = leaves \cup inserted
  /\ count' = [i \in IssueIds |->
       CASE i \in updated  -> count[i] + Cardinality(Counted(w, i))
         [] i \in inserted -> Cardinality(Counted(w, i))
         [] OTHER          -> count[i]]
  /\ lastSeen' = [i \in IssueIds |->
       CASE i \in updated  -> Latest(Counted(w, i) \cup {lastSeen[i]})
         [] i \in inserted -> Latest(Counted(w, i))
         [] OTHER          -> lastSeen[i]]
  /\ status' = [i \in IssueIds |->
       IF i \in inserted THEN "unresolved" ELSE status[i]]
  /\ pc' = [pc EXCEPT ![w] = "sadd"]
  /\ UNCHANGED <<ev, taken, issues, shortId, resolvedIn, hash, stored,
                 projStat, aggr, counter, issueSeq, replica, pending,
                 batch, att, created, reopen, short, snap, api, histVars>>

\* SADD of the batch's issue ids, for the alert task to process later.
AddPending(w) ==
  /\ pc[w] = "sadd"
  /\ pending' = pending \cup {att[w][e] : e \in batch[w]}
  /\ pc' = [pc EXCEPT ![w] = IF reopen[w] = {} THEN "copy" ELSE "reopen_leaf"]
  /\ UNCHANGED <<ev, taken, dbVars, replica, batch, att, created, reopen,
                 short, snap, api, histVars>>

\* Reopening: the leaf's status ...
ReopenLeaf(w) ==
  /\ pc[w] = "reopen_leaf"
  /\ status' = [i \in IssueIds |->
       IF i \in reopen[w] \cap leaves THEN "unresolved" ELSE status[i]]
  /\ pc' = [pc EXCEPT ![w] = "reopen_issue"]
  /\ UNCHANGED <<ev, taken, issues, shortId, resolvedIn, leaves, count,
                 lastSeen, hash, stored, projStat, aggr, counter, issueSeq,
                 replica, pending, batch, att, created, reopen, short,
                 snap, api, histVars>>

\* ... then the issue's resolved_in_release.  (The third statement, which
\* deletes the issue's notifications, is DropNotifications of IssueAlerts.)
ReopenIssue(w) ==
  /\ pc[w] = "reopen_issue"
  /\ resolvedIn' = [i \in IssueIds |->
       IF i \in reopen[w] THEN NoRelease ELSE resolvedIn[i]]
  /\ pc' = [pc EXCEPT ![w] = "copy"]
  /\ UNCHANGED <<ev, taken, issues, shortId, leaves, count, lastSeen, status,
                 hash, stored, projStat, aggr, counter, issueSeq,
                 replica, pending, batch, att, created, reopen, short, snap,
                 api, histVars>>

\* Mutant of CopyEvents: only events that created an issue are stored.
CopyEventsOfNewIssues(w) ==
  /\ pc[w] = "copy"
  /\ stored' = [e \in EventIds |->
       IF e \in created[w] THEN att[w][e] ELSE stored[e]]
  /\ pc' = [pc EXCEPT ![w] = "stats"]
  /\ UNCHANGED <<ev, taken, issues, shortId, resolvedIn, leaves, count,
                 lastSeen, status, hash, projStat, aggr, counter, issueSeq,
                 replica, pending, batch, att, created, reopen, short,
                 snap, api, histVars>>

\* Mutant of CopyEvents: the rows there were are replaced by the batch's.
CopyEventsReplacing(w) ==
  /\ pc[w] = "copy"
  /\ stored' = [e \in EventIds |-> IF e \in batch[w] THEN att[w][e] ELSE NoIssue]
  /\ pc' = [pc EXCEPT ![w] = "stats"]
  /\ UNCHANGED <<ev, taken, issues, shortId, resolvedIn, leaves, count,
                 lastSeen, status, hash, projStat, aggr, counter, issueSeq,
                 replica, pending, batch, att, created, reopen, short,
                 snap, api, histVars>>

\* Mutant of CopyEvents: every row gets the issue of the batch's first event.
CopyEventsOfFirst(w) ==
  /\ pc[w] = "copy"
  /\ stored' = [e \in EventIds |->
       IF e \in batch[w] THEN att[w][First(batch[w])] ELSE stored[e]]
  /\ pc' = [pc EXCEPT ![w] = "stats"]
  /\ UNCHANGED <<ev, taken, issues, shortId, resolvedIn, leaves, count,
                 lastSeen, status, hash, projStat, aggr, counter, issueSeq,
                 replica, pending, batch, att, created, reopen, short,
                 snap, api, histVars>>

\* COPY of the event rows (or, after a unique violation, the tolerant INSERT).
CopyEvents(w) ==
  /\ pc[w] = "copy"
  /\ stored' = [e \in EventIds |->
       IF e \in batch[w] THEN att[w][e] ELSE stored[e]]
  /\ pc' = [pc EXCEPT ![w] = "stats"]
  /\ UNCHANGED <<ev, taken, issues, shortId, resolvedIn, leaves, count,
                 lastSeen, status, hash, projStat, aggr, counter, issueSeq,
                 replica, pending, batch, att, created, reopen, short,
                 snap, api, histVars>>

\* update_statistics: the project's hourly counter.
UpdateStatistics(w) ==
  /\ pc[w] = "stats"
  /\ projStat' = projStat + Cardinality(batch[w])
  /\ pc' = [pc EXCEPT ![w] = "aggregate"]
  /\ UNCHANGED <<ev, taken, issues, shortId, resolvedIn, leaves, count,
                 lastSeen, status, hash, stored, aggr, counter, issueSeq,
                 replica, pending, batch, att, created, reopen, short,
                 snap, api, histVars>>

\* A finished or dead task leaves no local state behind.
ResetWorker(w) ==
  /\ pc' = [pc EXCEPT ![w] = "idle"]
  /\ batch' = [batch EXCEPT ![w] = {}]
  /\ att' = [att EXCEPT ![w] = [e \in EventIds |-> NoIssue]]
  /\ created' = [created EXCEPT ![w] = {}]
  /\ reopen' = [reopen EXCEPT ![w] = {}]
  /\ short' = [short EXCEPT ![w] = 0]
  /\ snap' = [snap EXCEPT ![w] = {}]
  /\ owed' = [owed EXCEPT ![w] = {}]

\* update_org_statistics: the issue aggregates; the task ends.
UpdateAggregates(w) ==
  /\ pc[w] = "aggregate"
  /\ aggr' = [i \in IssueIds |->
       aggr[i] + Cardinality({e \in batch[w] : att[w][e] = i})]
  /\ ResetWorker(w)
  /\ UNCHANGED <<ev, taken, issues, shortId, resolvedIn, leaves, count,
                 lastSeen, status, hash, stored, projStat, counter, issueSeq,
                 replica, pending, api, lost, bulk, epoch, calls,
                 failures>>

\* The task raises or its process dies between two statements; nothing in the
\* repository delivers the batch again.
FailBatch(w) ==
  /\ IsBusy(w)
  /\ failures < MaxFailures
  /\ failures' = failures + 1
  /\ lost' = lost \cup batch[w]
  /\ ResetWorker(w)
  /\ UNCHANGED <<ev, taken, dbVars, replica, pending, api, bulk, epoch, calls>>
--------------------------------------------------------------------------------
(***************************************************************************)
(* API: status of one issue (update_issue_status), of many (update_issues) *)
(***************************************************************************)

\* resolved_in_release after a status call: set by "resolved in release",
\* cleared by any other status, left alone by a plain "resolved".
ReleaseAfter(old, s, release) ==
  CASE s # "resolved" -> NoRelease
    [] s = "resolved" /\ release # NoRelease -> release
    [] OTHER -> old

\* The call saves resolved_in_release first ...
BeginUpdateStatus(c, i, s, release) ==
  /\ calls < MaxStatusCalls
  /\ api[c].issue = NoIssue
  /\ i \in issues
  /\ release # NoRelease => s = "resolved"
  /\ resolvedIn' = [resolvedIn EXCEPT ![i] = ReleaseAfter(@, s, release)]
  /\ api' = [api EXCEPT ![c] = [issue |-> i, status |-> s]]
  /\ epoch' = [epoch EXCEPT ![i] = @ + 1]
  /\ calls' = calls + 1
  /\ UNCHANGED <<ev, taken, issues, shortId, leaves, count, lastSeen, status,
                 hash, stored, projStat, aggr, counter, issueSeq,
                 replica, pending, workerVars, lost, bulk, owed, failures>>

\* ... then the leaf's status.
EndUpdateStatus(c) ==
  LET i == api[c].issue IN
  /\ i # NoIssue
  /\ status' = [j \in IssueIds |->
       IF j = i /\ i \in leaves THEN api[c].status ELSE status[j]]
  /\ api' = [api EXCEPT ![c] = [issue |-> NoIssue, status |-> "unresolved"]]
  /\ epoch' = [epoch EXCEPT ![i] = @ + 1]
  /\ UNCHANGED <<ev, taken, issues, shortId, resolvedIn, leaves, count,
                 lastSeen, hash, stored, projStat, aggr, counter, issueSeq,
                 replica, pending, workerVars, lost, bulk, owed, calls,
                 failures>>

\* Bulk update: only the leaves are written, resolved_in_release is not.
BulkUpdateStatus(S, s) ==
  /\ calls < MaxStatusCalls
  /\ S # {}
  /\ status' = [i \in IssueIds |-> IF i \in S \cap leaves THEN s ELSE status[i]]
  /\ bulk' = bulk \cup S
  /\ epoch' = [i \in IssueIds |-> IF i \in S THEN epoch[i] + 1 ELSE epoch[i]]
  /\ calls' = calls + 1
  /\ UNCHANGED <<ev, taken, issues, shortId, resolvedIn, leaves, count,
                 lastSeen, hash, stored, projStat, aggr, counter, issueSeq,
                 replica, pending, workerVars, api, lost, owed, failures>>

\* Streaming replication catches up with the primary.
ReplicaCatchUp ==
  /\ ReadReplica
  /\ replica' = [h \in Hashes |-> JoinRow(h)]
  /\ UNCHANGED <<ev, taken, dbVars, pending, workerVars, api, histVars>>
--------------------------------------------------------------------------------
WorkerStep(w) ==
  \/ FetchHashes(w) \/ FetchMissing(w)
  \/ TakeShortId(w) \/ InsertIssue(w) \/ LoseRace(w) \/ ReadWinner(w)
  \/ SnapshotLeaves(w) \/ UpdateIssues(w) \/ AddPending(w)
  \/ ReopenLeaf(w) \/ ReopenIssue(w)
  \/ CopyEvents(w) \/ UpdateStatistics(w) \/ UpdateAggregates(w)

ApiStep ==
  \/ \E c \in Clients, i \in IssueIds, s \in Statuses, r \in ReleaseIds :
       BeginUpdateStatus(c, i, s, r)
  \/ \E c \in Clients : EndUpdateStatus(c)
  \/ Clients # {} /\ \E S \in SUBSET issues, s \in Statuses :
       BulkUpdateStatus(S, s)

\* The bounded stream is used up and nobody is in the middle of anything.
StreamEnded ==
  /\ taken = MaxEvents
  /\ \A w \in Workers : pc[w] = "idle"
  /\ \A c \in Clients : api[c].issue = NoIssue
  /\ UNCHANGED vars

Next ==
  \/ \E w \in Workers : \E n \in 1..MaxBatch : TakeBatch(w, n)
  \/ \E w \in Workers : WorkerStep(w) \/ FailBatch(w)
  \/ ApiStep
  \/ ReplicaCatchUp
  \/ StreamEnded

Spec == Init /\ [][Next]_vars

\* Workers run to completion once they hold a batch, and the queue is served.
Advance(w) == WorkerStep(w) \/ \E n \in 1..MaxBatch : TakeBatch(w, n)
FairSpec == Spec /\ \A w \in Workers : WF_vars(Advance(w))
--------------------------------------------------------------------------------
TypeOK ==
  /\ ev \in [EventIds -> ProcessingEvent]
  /\ taken \in 0..MaxEvents
  /\ issues \subseteq IssueIds
  /\ leaves \subseteq IssueIds
  /\ shortId \in [IssueIds -> Nat]
  /\ resolvedIn \in [IssueIds -> ReleaseIds]
  /\ count \in [IssueIds -> Nat]
  /\ lastSeen \in [IssueIds -> 0..MaxEvents]
  /\ status \in [IssueIds -> Statuses]
  /\ hash \in [Hashes -> 0..MaxIssues]
  /\ stored \in [EventIds -> 0..MaxIssues]
  /\ projStat \in Nat
  /\ aggr \in [IssueIds -> Nat]
  /\ counter \in Nat
  /\ issueSeq \in 0..MaxIssues
  /\ replica \in [Hashes -> JoinRows]
  /\ pc \in [Workers -> Steps]
  /\ batch \in [Workers -> SUBSET EventIds]
  /\ att \in [Workers -> [EventIds -> 0..MaxIssues]]
  /\ created \in [Workers -> SUBSET EventIds]
  /\ reopen \in [Workers -> SUBSET IssueIds]
  /\ short \in [Workers -> Nat]
  /\ snap \in [Workers -> SUBSET IssueIds]
  /\ api \in [Clients -> [issue : 0..MaxIssues, status : Statuses]]
  /\ pending \subseteq IssueIds
--------------------------------------------------------------------------------
(***************************************************************************)
(* Properties                                                              *)
(***************************************************************************)
\* Every stored event row carries the issue its hash row names, whichever of
\* the replica, the primary, its own insert or a lost race supplied the id.
EventsFiledByHash ==
  \A e \in EventIds : stored[e] # NoIssue => stored[e] = hash[ev[e].hash]

\* Concurrent first events of one hash produce one issue: hash rows name
\* existing issues, no two hashes share one, and a lost race leaves no issue
\* without a hash behind.
OneIssuePerHash ==
  /\ \A h \in Hashes : hash[h] # NoIssue => hash[h] \in issues
  /\ \A g, h \in Hashes : g # h /\ hash[g] # NoIssue => hash[g] # hash[h]
  /\ \A i \in issues : \E h \in Hashes : hash[h] = i

\* Issue numbers shown to users (PROJECT-12) are unique although the counter
\* is taken outside the transaction that stores it.
ShortIdsDistinct ==
  \A i, j \in issues : i # j => shortId[i] # shortId[j]

\* "Every non-deleted issue has a leaf row": only the issue that predates the
\* leaf table may lack one, and it gets one before its next event is stored.
LeafForEveryIssue ==
  \A i \in issues \ leaves :
    /\ \E h \in LegacyHashes : hash[h] = i
    /\ EventsOf(i) = {}

Received(i) == {e \in 1..taken : hash[ev[e].hash] = i}

\* At no moment, whatever dies half way, does a leaf count more events than
\* were received for its issue.
CountNeverExceedsReceived ==
  \A i \in leaves : count[i] <= Cardinality(Received(i))

AllIdle == \A w \in Workers : pc[w] = "idle"

\* With no batch in progress or lost, the issue's leaf, its event rows and
\* its aggregate tell the same number, and last_seen is its newest event.  (The
\* leaf of the legacy issue misses the events of a worker that lost the race to
\* heal it.)
CountsAgreeWhenIdle ==
  AllIdle /\ lost = {} =>
    /\ projStat = taken
    /\ \A i \in issues :
         /\ aggr[i] = Cardinality(EventsOf(i))
         /\ (\A h \in LegacyHashes : hash[h] # i) =>
              /\ count[i] = Cardinality(EventsOf(i))
              /\ lastSeen[i] = Latest(EventsOf(i))

\* The leaf rows of issues agree with the events: each issue has one, it never
\* counts more than was received, and with no batch under way exactly that.
CountsHold == LeafForEveryIssue /\ CountNeverExceedsReceived /\ CountsAgreeWhenIdle

\* An issue that is not resolved keeps no resolved_in_release, because the API
\* writes release then status and ingest writes status then release: a
\* leftover needs a bulk edit, a task that died, or a call still in progress.
\* (Two overlapping calls for one issue can leave one, and so can a call for the
\* issue that has no leaf to write the status to; see README.)
ReleaseClearedWithStatus ==
  Cardinality(Clients) <= 1 /\ failures = 0 =>
    \A i \in issues :
      (\A h \in LegacyHashes : hash[h] # i) /\ status[i] # "resolved" /\ resolvedIn[i] # NoRelease =>
        \/ i \in bulk
        \/ \E c \in Clients : api[c].issue = i
        \/ \E w \in Workers : pc[w] = "reopen_issue" /\ i \in reopen[w]

PastReopen == {"reopen_issue", "copy", "stats", "aggregate"}

\* A regression is never swallowed when hashes are read from the primary: an
\* issue that was resolved when the batch was taken, and that nobody changed
\* since, is no longer resolved once its worker is past the reopen statement.
RegressionReopens ==
  ~ReadReplica =>
    \A w \in Workers : pc[w] \in PastReopen =>
      \A o \in owed[w] : epoch[o[1]] = o[2] => status[o[1]] # "resolved"

\* Status and resolved_in_release follow each other through overlapping API
\* calls and ingest, and a regression is acted on.
StatusKeepsUp == ReleaseClearedWithStatus /\ RegressionReopens

\* Every received event is stored in the end, however the workers race, unless
\* the task that held it died.
AllEventsStored == <>[](\A e \in EventIds : stored[e] # NoIssue \/ e \in lost)

\* Ingest implements EventFiling: seen through the hash rows and the event rows
\* alone, every statement of every worker opens one issue for one hash, files
\* events under their hashes' issues, or changes nothing.
HashOfEvent == [e \in EventIds |-> ev[e].hash]
Filing == INSTANCE EventFiling WITH
            Events <- EventIds, Issues <- IssueIds, hashOf <- HashOfEvent, owner <- hash, filed <- stored
ImplementsFiling == Filing!Spec
--------------------------------------------------------------------------------
(***************************************************************************)
(* The inductive invariant behind EventsFiledByHash, OneIssuePerHash and   *)
(* ShortIdsDistinct                                                        *)
(***************************************************************************)
\* Whatever a worker or the replica believes about a hash is what its row
\* says: rows are never repointed by ingest.
BeliefsMatchRows ==
  /\ \A w \in Workers, e \in EventIds :
       att[w][e] # NoIssue => att[w][e] = hash[ev[e].hash]
  /\ \A h \in Hashes : replica[h].issue # NoIssue => replica[h].issue = hash[h]

\* Issue ids come from the sequence, so the next value is unused.
IdsFromSequence == \A i \in issues : i <= issueSeq

\* Numbers in use, and numbers held by workers about to insert, have been
\* handed out by the counter, each of them once.
Holds(w) == pc[w] = "insert"
ShortIdsHandedOut ==
  /\ \A i \in issues : shortId[i] <= counter
  /\ \A w \in Workers : Holds(w) =>
       /\ short[w] <= counter
       /\ \A i \in issues : shortId[i] # short[w]
       /\ \A v \in Workers : Holds(v) /\ v # w => short[v] # short[w]

\* A worker creates an issue for some event, and counts, alerts and stores
\* only once every event of its batch has an issue.
Progress ==
  \A w \in Workers :
    /\ pc[w] \in {"insert", "winner"} => Unresolved(w) # {}
    /\ pc[w] \in {"apply", "sadd", "reopen_leaf", "reopen_issue",
                   "copy", "stats", "aggregate"} =>
         Unresolved(w) = {}

IInv ==
  /\ TypeOK
  /\ BeliefsMatchRows
  /\ EventsFiledByHash
  /\ IdsFromSequence
  /\ OneIssuePerHash
  /\ ShortIdsHandedOut
  /\ ShortIdsDistinct
  /\ Progress
================================================================================
