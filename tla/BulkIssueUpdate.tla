---------------------------- MODULE BulkIssueUpdate ----------------------------
(***************************************************************************)
(* One bulk edit of the issues a filter selects: the API handler           *)
(* update_issues freezes the highest id, edits the first Limit issues at   *)
(* once and leaves the rest to update_issues_task, which works in chunks;  *)
(* meanwhile events arrive and users change the status of single issues.   *)
(* A payload sets the status, the assignee, or merges the issues.          *)
(***************************************************************************)
EXTENDS Integers, FiniteSets, FiniteSetsExt

CONSTANTS
  Ops,         \* what the payload asks for: some of status, assign, merge
  Filters,     \* the queries asked: some of all, unresolved (is:unresolved)
  BulkEvents,      \* events, stored or still to come
  NoRow,       \* no event, no issue
  Existing,    \* issues there are before the request
  Stored,      \* events there are before the request
  Limit,       \* issues the handler edits itself (50)
  ChunkSize,   \* issues the task edits at a time (1000)
  EventChunk,  \* events one merge statement moves (1000)
  MaxBulkIssues,   \* bound: issues ever created
  MaxUserEdits \* bound: status changes by users

ASSUME BulkAssumption ==
  /\ Ops \subseteq {"status", "assign", "merge"} /\ Filters \subseteq {"all", "unresolved"}
  /\ IsFiniteSet(BulkEvents) /\ Stored \subseteq BulkEvents
  /\ MaxBulkIssues \in Nat /\ Existing \in 0..MaxBulkIssues /\ MaxUserEdits \in Nat
  /\ Limit \in Nat \ {0} /\ ChunkSize \in Nat \ {0} /\ EventChunk \in Nat \ {0}
  /\ NoRow \notin BulkEvents /\ NoRow \notin 1..MaxBulkIssues

BulkIssues   == 1..MaxBulkIssues
Statuses == {"unresolved", "resolved"}

VARIABLES
  last,       \* highest issue id
  status,     \* IssueIndex.status
  count,      \* IssueIndex.count
  assigned,   \* issues the request's assignee is set on
  soft,       \* issues with is_deleted
  hashTarget,     \* the issue that the hash of each issue points at
  eventIssue,      \* IssueEvent.issue of the stored events
  ingest,     \* the ingest worker
  api,        \* the API request
  bulkQueue,      \* update_issues_task arguments
  task,       \* the running update_issues_task
  matched,    \* history: issues the request selected when it froze the ids
  edited,     \* history: issues whose status somebody else changed since
  written,    \* history: issues the request wrote
  userEdits   \* status changes by users so far

issueTables  == <<last, status, count, assigned, soft, hashTarget, eventIssue>>
history == <<matched, edited, written>>
bulkVars    == <<issueTables, ingest, api, bulkQueue, task, history, userEdits>>

IdleIngest == [pc |-> "idle", ev |-> NoRow, issue |-> NoRow, reopen |-> FALSE]
IdleTask   == [pc |-> "idle", batch |-> {}, evs |-> {}, moved |-> 0]
Live       == (1..last) \ soft

\* The queryset of a filter; neither API nor task exclude soft-deleted issues.
Matching(f) == {i \in 1..last : f = "all" \/ status[i] = "unresolved"}

\* At most n elements of S, in whatever order the database returns them.
FirstOf(S, n) == {T \in SUBSET S :
  Cardinality(T) = IF Cardinality(S) < n THEN Cardinality(S) ELSE n}
--------------------------------------------------------------------------------
BulkInit ==
  /\ last = Existing
  /\ status \in [BulkIssues -> Statuses]
  /\ \A i \in BulkIssues : i > last => status[i] = "unresolved"
  /\ eventIssue \in [BulkEvents -> (1..last) \cup {NoRow}]
  /\ \A e \in BulkEvents : eventIssue[e] # NoRow <=> e \in Stored
  /\ \A i \in 1..last : \E e \in Stored : eventIssue[e] = i
  /\ count = [i \in BulkIssues |-> Cardinality({e \in BulkEvents : eventIssue[e] = i})]
  /\ assigned = {} /\ soft = {}
  /\ hashTarget = [i \in BulkIssues |-> i]
  /\ ingest = IdleIngest
  /\ \E op \in Ops, f \in Filters :
       api = [pc |-> "max", op |-> op, filter |-> f, max |-> 0, ids |-> {},
              target |-> NoRow, evs |-> {}]
  /\ bulkQueue = {} /\ task = IdleTask
  /\ matched = {} /\ edited = {} /\ written = {}
  /\ userEdits = 0
--------------------------------------------------------------------------------
(***************************************************************************)
(* The API handler update_issues                                           *)
(***************************************************************************)
\* Freezes the set of issues: ids up to the highest that matches.
ReadMaxId ==
  LET ids == Matching(api.filter) IN
  /\ api.pc = "max"
  /\ api' = IF ids = {} THEN [api EXCEPT !.pc = "done"]
            ELSE [api EXCEPT !.pc = "first", !.max = Max(ids)]
  /\ matched' = ids
  /\ UNCHANGED <<issueTables, ingest, bulkQueue, task, edited, written, userEdits>>

\* The first Limit issues.
ReadFirst ==
  /\ api.pc = "first"
  /\ \E ids \in FirstOf({i \in Matching(api.filter) : i <= api.max}, Limit) :
       api' = [api EXCEPT !.pc = IF api.op = "merge" THEN "target" ELSE "write", !.ids = ids]
  /\ UNCHANGED <<issueTables, ingest, bulkQueue, task, history, userEdits>>

\* Sets the status to resolved, or the assignee, on the first issues.
WriteFirst ==
  /\ api.pc = "write"
  /\ IF api.op = "status"
     THEN /\ status' = [i \in BulkIssues |-> IF i \in api.ids THEN "resolved" ELSE status[i]]
          /\ UNCHANGED assigned
     ELSE assigned' = assigned \cup api.ids /\ UNCHANGED status
  /\ written' = written \cup api.ids
  /\ api' = [api EXCEPT !.pc = "enqueue"]
  /\ UNCHANGED <<last, count, soft, hashTarget, eventIssue, ingest, bulkQueue, task, matched,
                 edited, userEdits>>

\* The merge target is the highest id that still matches.
PickTarget ==
  LET ids == {i \in Matching(api.filter) : i <= api.max} IN
  /\ api.pc = "target"
  /\ api' = IF ids = {} THEN [api EXCEPT !.pc = "done"]
            ELSE [api EXCEPT !.pc = "soft", !.target = Max(ids)]
  /\ UNCHANGED <<issueTables, ingest, bulkQueue, task, history, userEdits>>

\* The issues the handler merges into the target.
Sources == api.ids \ {api.target}

SoftDeleteFirst ==
  /\ api.pc = "soft"
  /\ soft' = soft \cup Sources
  /\ written' = written \cup Sources
  /\ api' = [api EXCEPT !.pc = "hashes"]
  /\ UNCHANGED <<last, status, count, assigned, hashTarget, eventIssue, ingest, bulkQueue, task,
                 matched, edited, userEdits>>

\* The hashes of S point at the target from now on.
Repointed(S, target) ==
  [i \in BulkIssues |-> IF hashTarget[i] \in S THEN target ELSE hashTarget[i]]

MoveFirstHashes ==
  /\ api.pc = "hashes"
  /\ hashTarget' = Repointed(Sources, api.target)
  /\ api' = [api EXCEPT !.pc = "events"]
  /\ UNCHANGED <<last, status, count, assigned, soft, eventIssue, ingest, bulkQueue, task,
                 history, userEdits>>

\* Some events of S, EventChunk at most.
EventsOf(S) == FirstOf({e \in BulkEvents : eventIssue[e] \in S}, EventChunk)

ReadFirstEvents ==
  /\ api.pc = "events"
  /\ \E evs \in EventsOf(Sources) : api' = [api EXCEPT !.pc = "move", !.evs = evs]
  /\ UNCHANGED <<issueTables, ingest, bulkQueue, task, history, userEdits>>

MoveFirstEvents ==
  /\ api.pc = "move"
  /\ eventIssue' = [e \in BulkEvents |-> IF e \in api.evs THEN api.target ELSE eventIssue[e]]
  /\ api' = [api EXCEPT !.pc = "count"]
  /\ UNCHANGED <<last, status, count, assigned, soft, hashTarget, ingest, bulkQueue, task,
                 history, userEdits>>

CountFirstEvents ==
  /\ api.pc = "count"
  /\ count' = [count EXCEPT ![api.target] = @ + Cardinality(api.evs)]
  /\ api' = [api EXCEPT !.pc = "enqueue"]
  /\ UNCHANGED <<last, status, assigned, soft, hashTarget, eventIssue, ingest, bulkQueue, task,
                 history, userEdits>>

\* The handler read as many as it may: there could be more.
ShouldEnqueue == Cardinality(api.ids) = Limit

EnqueueTask ==
  /\ api.pc = "enqueue"
  /\ bulkQueue' = IF ShouldEnqueue THEN {"update_issues_task"} ELSE bulkQueue
  /\ api' = [api EXCEPT !.pc = "done"]
  /\ UNCHANGED <<issueTables, ingest, task, history, userEdits>>
--------------------------------------------------------------------------------
(***************************************************************************)
(* update_issues_task                                                      *)
(***************************************************************************)
\* Mutant of TaskIssues: the ids are not capped.
TaskIssuesUncapped == Matching(api.filter) \ api.ids

\* The issues of the filter that the handler left: exclude_ids and max_id.
TaskIssues == {i \in Matching(api.filter) \ api.ids : i <= api.max}

\* Mutant of StatusIssues: rows that match already are not excluded.
StatusIssuesAll == TaskIssues

\* The status loop leaves out the issues that have the status already.
StatusIssues == {i \in TaskIssues : status[i] # "resolved"}

BeginTask ==
  /\ task.pc = "idle" /\ bulkQueue # {}
  /\ bulkQueue' = {}
  /\ task' = [task EXCEPT !.pc = api.op]
  /\ UNCHANGED <<issueTables, ingest, api, history, userEdits>>

\* Ids of the next chunk; the loop ends when there is none.
ReadStatusChunk ==
  /\ task.pc = "status"
  /\ \E ids \in FirstOf(StatusIssues, ChunkSize) :
       task' = IF ids = {} THEN IdleTask ELSE [task EXCEPT !.pc = "set", !.batch = ids]
  /\ UNCHANGED <<issueTables, ingest, api, bulkQueue, history, userEdits>>

SetStatusChunk ==
  /\ task.pc = "set"
  /\ status' = [i \in BulkIssues |-> IF i \in task.batch THEN "resolved" ELSE status[i]]
  /\ written' = written \cup task.batch
  /\ task' = [task EXCEPT !.pc = "status", !.batch = {}]
  /\ UNCHANGED <<last, count, assigned, soft, hashTarget, eventIssue, ingest, api, bulkQueue,
                 matched, edited, userEdits>>

ReadAssignChunk ==
  /\ task.pc = "assign"
  /\ \E ids \in FirstOf(TaskIssues, ChunkSize) :
       task' = IF ids = {} THEN IdleTask ELSE [task EXCEPT !.pc = "own", !.batch = ids]
  /\ UNCHANGED <<issueTables, ingest, api, bulkQueue, history, userEdits>>

AssignChunk ==
  /\ task.pc = "own"
  /\ assigned' = assigned \cup task.batch
  /\ written' = written \cup task.batch
  /\ task' = [task EXCEPT !.pc = "assign", !.batch = {}]
  /\ UNCHANGED <<last, status, count, soft, hashTarget, eventIssue, ingest, api, bulkQueue,
                 matched, edited, userEdits>>

\* A chunk of merge sources; when there is none the moved events are counted.
ReadMergeChunk ==
  /\ task.pc = "merge"
  /\ \E ids \in FirstOf(TaskIssues \ {api.target}, ChunkSize) :
       IF ids = {}
       THEN /\ count' = [count EXCEPT ![api.target] = @ + task.moved]
            /\ task' = IdleTask
       ELSE /\ task' = [task EXCEPT !.pc = "soft", !.batch = ids]
            /\ UNCHANGED count
  /\ UNCHANGED <<last, status, assigned, soft, hashTarget, eventIssue, ingest, api, bulkQueue,
                 history, userEdits>>

SoftDeleteChunk ==
  /\ task.pc = "soft"
  /\ soft' = soft \cup task.batch
  /\ written' = written \cup task.batch
  /\ task' = [task EXCEPT !.pc = "hashes"]
  /\ UNCHANGED <<last, status, count, assigned, hashTarget, eventIssue, ingest, api, bulkQueue,
                 matched, edited, userEdits>>

MoveChunkHashes ==
  /\ task.pc = "hashes"
  /\ hashTarget' = Repointed(task.batch, api.target)
  /\ task' = [task EXCEPT !.pc = "events"]
  /\ UNCHANGED <<last, status, count, assigned, soft, eventIssue, ingest, api, bulkQueue,
                 history, userEdits>>

ReadChunkEvents ==
  /\ task.pc = "events"
  /\ \E evs \in EventsOf(task.batch) : task' = [task EXCEPT !.pc = "move", !.evs = evs]
  /\ UNCHANGED <<issueTables, ingest, api, bulkQueue, history, userEdits>>

MoveChunkEvents ==
  /\ task.pc = "move"
  /\ eventIssue' = [e \in BulkEvents |-> IF e \in task.evs THEN api.target ELSE eventIssue[e]]
  /\ task' = [pc |-> "merge", batch |-> {}, evs |-> {},
              moved |-> task.moved + Cardinality(task.evs)]
  /\ UNCHANGED <<last, status, count, assigned, soft, hashTarget, ingest, api, bulkQueue,
                 history, userEdits>>
--------------------------------------------------------------------------------
(***************************************************************************)
(* Meanwhile                                                               *)
(***************************************************************************)
\* An event of the hash of issue i arrives and is looked up.
Lookup(e, i) ==
  /\ ingest.pc = "idle" /\ eventIssue[e] = NoRow /\ i \in 1..last
  /\ ingest' = [pc |-> "count", ev |-> e, issue |-> hashTarget[i],
                reopen |-> status[hashTarget[i]] = "resolved"]
  /\ UNCHANGED <<issueTables, api, bulkQueue, task, history, userEdits>>

\* A new hash: a new issue with its leaf, counting the event.
CreateIssue(e) ==
  /\ ingest.pc = "idle" /\ eventIssue[e] = NoRow /\ last < MaxBulkIssues
  /\ last' = last + 1
  /\ count' = [count EXCEPT ![last + 1] = 1]
  /\ ingest' = [pc |-> "copy", ev |-> e, issue |-> last + 1, reopen |-> FALSE]
  /\ UNCHANGED <<status, assigned, soft, hashTarget, eventIssue, api, bulkQueue, task, history,
                 userEdits>>

\* update_issues of ingest.
CountEvent ==
  /\ ingest.pc = "count"
  /\ count' = [count EXCEPT ![ingest.issue] = @ + 1]
  /\ ingest' = [ingest EXCEPT !.pc = IF ingest.reopen THEN "reopen" ELSE "copy"]
  /\ UNCHANGED <<last, status, assigned, soft, hashTarget, eventIssue, api, bulkQueue, task,
                 history, userEdits>>

\* The regression of an issue that was resolved when it was looked up.
Reopen ==
  /\ ingest.pc = "reopen"
  /\ status' = [status EXCEPT ![ingest.issue] = "unresolved"]
  /\ edited' = edited \cup {ingest.issue}
  /\ ingest' = [ingest EXCEPT !.pc = "copy"]
  /\ UNCHANGED <<last, count, assigned, soft, hashTarget, eventIssue, api, bulkQueue, task,
                 matched, written, userEdits>>

CopyEvent ==
  /\ ingest.pc = "copy"
  /\ eventIssue' = [eventIssue EXCEPT ![ingest.ev] = ingest.issue]
  /\ ingest' = IdleIngest
  /\ UNCHANGED <<last, status, count, assigned, soft, hashTarget, api, bulkQueue, task,
                 history, userEdits>>

\* A user resolves or reopens one issue.
UserEdit(i, s) ==
  /\ i \in 1..last /\ status[i] # s /\ userEdits < MaxUserEdits
  /\ status' = [status EXCEPT ![i] = s]
  /\ edited' = edited \cup {i}
  /\ userEdits' = userEdits + 1
  /\ UNCHANGED <<last, count, assigned, soft, hashTarget, eventIssue, ingest, api, bulkQueue, task,
                 matched, written>>
--------------------------------------------------------------------------------
ApiStep ==
  \/ ReadMaxId \/ ReadFirst \/ WriteFirst \/ PickTarget \/ SoftDeleteFirst
  \/ MoveFirstHashes \/ ReadFirstEvents \/ MoveFirstEvents \/ CountFirstEvents
  \/ EnqueueTask

TaskStep ==
  \/ BeginTask \/ ReadStatusChunk \/ SetStatusChunk \/ ReadAssignChunk \/ AssignChunk
  \/ ReadMergeChunk \/ SoftDeleteChunk \/ MoveChunkHashes \/ ReadChunkEvents
  \/ MoveChunkEvents

BulkIngestStep ==
  \/ \E e \in BulkEvents : CreateIssue(e) \/ \E i \in BulkIssues : Lookup(e, i)
  \/ CountEvent \/ Reopen \/ CopyEvent

BulkNext ==
  \/ ApiStep \/ TaskStep \/ BulkIngestStep
  \/ \E i \in BulkIssues, s \in Statuses : UserEdit(i, s)

BulkSpec == BulkInit /\ [][BulkNext]_bulkVars

\* Server and worker keep running; nobody has to send events or edit.
FairBulk == BulkSpec /\ WF_bulkVars(ApiStep) /\ WF_bulkVars(TaskStep)
--------------------------------------------------------------------------------

\* Handler and task are through with the request.
Finished == api.pc = "done" /\ bulkQueue = {} /\ task.pc = "idle"

\* The handler freezes the set of issues: an issue created after that is never
\* edited by the request, in its handler or in its task.
LaterIssuesUntouched == api.pc # "max" => \A i \in written : i <= api.max

\* A finished request reached every issue it selected when it froze the ids,
\* in the handler or in the task, unless somebody else changed the status of
\* the issue meanwhile or it is the merge target.
EveryMatchReached ==
  Finished => \A i \in matched :
    \/ i \in written \cup edited \/ i = api.target
    \/ api.op = "status" /\ status[i] = "resolved"

\* After a merge the count of each visible issue is the number of its events,
\* the moved ones included, whatever was ingested during the merge.
CountsOwnEvents ==
  Finished /\ ingest.pc = "idle" =>
    \A i \in Live : count[i] = Cardinality({e \in BulkEvents : eventIssue[e] = i})

\* The task that sets the status ends, although issues regress while it runs.
StatusTaskEnds == task.pc = "status" ~> task.pc = "idle"

\* The task that sets the assignee ends: it updates issues in chunks.
AssignTaskEnds == task.pc = "assign" ~> task.pc = "idle"

\* Handler and task of a bulk edit write the issues they selected and no other,
\* and a merge loses no event of what it moves.
EditsTheFrozenSet == LaterIssuesUntouched /\ EveryMatchReached /\ CountsOwnEvents
================================================================================
