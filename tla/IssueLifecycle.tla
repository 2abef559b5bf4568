---------------------------- MODULE IssueLifecycle ----------------------------
(***************************************************************************)
(* The life and death of issues: ingest creates and feeds them, users      *)
(* delete them through the API, maintenance deletes the ones nobody saw    *)
(* for retention + 7 days, and delete_issues_in_batches removes the rows   *)
(* of seven tables one statement at a time while ingest goes on.           *)
(*                                                                         *)
(* The tables with a foreign key to the issue (IssueHash, Comment,         *)
(* UserReport, the notification through table) refuse orphans; the         *)
(* partitioned ones (IssueEvent, IssueAggregate, IssueTag, IssueIndex)     *)
(* have none.  Batches of one event: module IssueIngest has the others.    *)
(***************************************************************************)
EXTENDS Integers, FiniteSets

CONSTANTS
  Workers,      \* ingest workers
  Deleters,     \* tasks that may run delete_issues_in_batches at a time
  Events,       \* events to ingest
  Hashes,       \* issue hashes of the project
  None,         \* no issue, no event, no hash
  MaxIssues,    \* bound: issues ever created
  MaxRequests,  \* bound: API deletions
  MaxComments,  \* bound: comments and notifications
  MaxUnmerges,  \* bound: hashes removed through the API
  MaxAges,      \* bound: issues that fall out of retention
  MaxChanges,   \* bound: filters whose result changes between two statements of a request
  MaxCrashes    \* bound: tasks that die half way

ASSUME LifecycleAssumption ==
  /\ IsFiniteSet(Workers) /\ IsFiniteSet(Deleters)
  /\ IsFiniteSet(Events) /\ IsFiniteSet(Hashes)
  /\ MaxIssues \in Nat /\ MaxRequests \in Nat /\ MaxComments \in Nat
  /\ MaxUnmerges \in Nat /\ MaxAges \in Nat /\ MaxChanges \in Nat /\ MaxCrashes \in Nat
  /\ None \notin 1..MaxIssues /\ None \notin Events /\ None \notin Hashes

Issues == 1..MaxIssues

VARIABLES
  row,        \* issue_events_issue: absent, live or soft (is_deleted)
  seq,        \* its id sequence
  hashOf,     \* issue_events_issuehash: the issue of each hash
  leaf,       \* issue_events_issueindex: absent, fresh or old last_seen
  event,      \* issue_events_issueevent: the issue of each stored event
  aggr,       \* issues with rows in IssueAggregate or IssueTag
  links,      \* issues with rows in the notification through table
  comments,   \* issues with rows in Comment or UserReport
  replica,    \* the hash lookup's result on the read replica
  todo,       \* events not yet received
  worker,     \* ingest workers
  request,    \* the API deletion under way
  queue,      \* delete_issue_task arguments
  del,        \* runs of delete_issues_in_batches
  skipped,    \* history: issues whose batch ended in an IntegrityError
  unqueued,   \* history: issues marked deleted whose id no request handed to a task since
  raced,      \* history: issues deleted under a worker that had looked them up
  budget      \* what is left of the bounds

tables == <<row, seq, hashOf, leaf, event, aggr, links, comments>>
lifecycleVars   == <<tables, replica, todo, worker, request, queue, del, skipped, unqueued, raced, budget>>

Absent     == "absent"
IdleWorker == [pc |-> "idle", ev |-> None, hash |-> None, issue |-> None]
IdleDelete == [pc |-> "idle", src |-> "none", arg |-> {}, ids |-> {}, batch |-> {}]
NoRequest  == [pc |-> "idle", ids |-> {}]
Budgets    == {"requests", "comments", "unmerges", "ages", "changes", "crashes"}
Rows       == {i \in Issues : row[i] # Absent}

Spend(b) == budget[b] > 0 /\ budget' = [budget EXCEPT ![b] = @ - 1]

\* The hash lookup joins issue and leaf: without a leaf the hash is not found.
JoinRow == [h \in Hashes |->
  IF hashOf[h] # None /\ leaf[hashOf[h]] # Absent THEN hashOf[h] ELSE None]
--------------------------------------------------------------------------------
LifecycleInit ==
  /\ row = [i \in Issues |-> Absent] /\ seq = 0
  /\ hashOf = [h \in Hashes |-> None]
  /\ leaf = [i \in Issues |-> Absent]
  /\ event = [e \in Events |-> None]
  /\ aggr = {} /\ links = {} /\ comments = {}
  /\ replica = [h \in Hashes |-> None]
  /\ todo = Events
  /\ worker = [w \in Workers |-> IdleWorker]
  /\ request = NoRequest /\ queue = {}
  /\ del = [d \in Deleters |-> IdleDelete]
  /\ skipped = {} /\ unqueued = {} /\ raced = {}
  /\ budget = [requests |-> MaxRequests, comments |-> MaxComments,
               unmerges |-> MaxUnmerges, ages |-> MaxAges, changes |-> MaxChanges,
               crashes |-> MaxCrashes]
--------------------------------------------------------------------------------
(***************************************************************************)
(* Ingest                                                                  *)
(***************************************************************************)
\* An event arrives and its hash is looked up, on the replica first.
TakeEvent(w, e, h) ==
  LET found == IF replica[h] # None THEN replica[h] ELSE JoinRow[h] IN
  /\ worker[w].pc = "idle" /\ e \in todo
  /\ todo' = todo \ {e}
  /\ worker' = [worker EXCEPT ![w] =
       [pc |-> IF found = None THEN "create" ELSE "update",
        ev |-> e, hash |-> h, issue |-> found]]
  /\ UNCHANGED <<tables, replica, request, queue, del, skipped, unqueued, budget>>

\* The leaf of a new issue.
NewLeaf(i) == [leaf EXCEPT ![i] = "fresh"]

\* Issue, hash and leaf are inserted in one transaction.
InsertIssue(w) ==
  /\ worker[w].pc = "create" /\ hashOf[worker[w].hash] = None /\ seq < MaxIssues
  /\ seq' = seq + 1
  /\ row' = [row EXCEPT ![seq + 1] = "live"]
  /\ hashOf' = [hashOf EXCEPT ![worker[w].hash] = seq + 1]
  /\ leaf' = NewLeaf(seq + 1)
  /\ worker' = [worker EXCEPT ![w].pc = "copy", ![w].issue = seq + 1]
  /\ UNCHANGED <<event, aggr, links, comments, replica, todo, request, queue, del,
                 skipped, unqueued, budget>>

\* The hash exists after all: the insert fails, the winner's id is read next.
LoseRace(w) ==
  /\ worker[w].pc = "create" /\ hashOf[worker[w].hash] # None
  /\ worker' = [worker EXCEPT ![w].pc = "winner"]
  /\ UNCHANGED <<tables, replica, todo, request, queue, del, skipped, unqueued, budget>>

\* Reads the winner's id; when a deletion removed the hash meanwhile there is
\* no row to read, the task dies and the event is lost.
ReadWinner(w) ==
  LET won == hashOf[worker[w].hash] IN
  /\ worker[w].pc = "winner"
  /\ worker' = [worker EXCEPT ![w] =
       IF won = None THEN IdleWorker ELSE [@ EXCEPT !.pc = "update", !.issue = won]]
  /\ UNCHANGED <<tables, replica, todo, request, queue, del, skipped, unqueued, budget>>

\* update_issues: the leaf is refreshed, or inserted when there is none.
UpdateIssues(w) ==
  /\ worker[w].pc = "update"
  /\ leaf' = [leaf EXCEPT ![worker[w].issue] = "fresh"]
  /\ worker' = [worker EXCEPT ![w].pc = "copy"]
  /\ UNCHANGED <<row, seq, hashOf, event, aggr, links, comments, replica, todo, request,
                 queue, del, skipped, unqueued, budget>>

\* COPY of the event: nothing checks that its issue still exists.
CopyEvents(w) ==
  /\ worker[w].pc = "copy"
  /\ event' = [event EXCEPT ![worker[w].ev] = worker[w].issue]
  /\ worker' = [worker EXCEPT ![w].pc = "aggregate"]
  /\ UNCHANGED <<row, seq, hashOf, leaf, aggr, links, comments, replica, todo, request,
                 queue, del, skipped, unqueued, budget>>

\* Tags and aggregates, again without a foreign key.
UpdateAggregates(w) ==
  /\ worker[w].pc = "aggregate"
  /\ aggr' = aggr \cup {worker[w].issue}
  /\ worker' = [worker EXCEPT ![w] = IdleWorker]
  /\ UNCHANGED <<row, seq, hashOf, leaf, event, links, comments, replica, todo, request,
                 queue, del, skipped, unqueued, budget>>
--------------------------------------------------------------------------------
(***************************************************************************)
(* Users and time                                                          *)
(***************************************************************************)
\* Rows are marked; which, the request reads back before it enqueues them.
SoftDelete(S, pc) ==
  /\ request.pc = "idle" /\ Spend("requests")
  /\ S # {} /\ S \subseteq Rows
  /\ row' = [i \in Issues |-> IF i \in S THEN "soft" ELSE row[i]]
  /\ request' = [pc |-> pc, ids |-> S]
  /\ UNCHANGED <<seq, hashOf, leaf, event, aggr, links, comments, replica, todo, worker,
                 queue, del, skipped, unqueued, raced>>
delete_issue(i) == SoftDelete({i}, "enqueue")
\* The issues a filter selects; the list queryset joins the leaf.
delete_issues(S) == (\A i \in S : leaf[i] # Absent) /\ SoftDelete(S, "read")

\* delete_issue_task is enqueued with ids; a marked issue that is not among them
\* has no task.
Enqueue(ids) ==
  /\ queue' = queue \cup {ids}
  /\ unqueued' = (unqueued \cup {i \in request.ids : row[i] = "soft"}) \ ids
  /\ request' = NoRequest
  /\ UNCHANGED <<tables, replica, todo, worker, del, skipped, raced>>
\* delete_issue: the id it was given.
EnqueueDelete == request.pc = "enqueue" /\ Enqueue(request.ids) /\ UNCHANGED budget
\* delete_issues evaluates its filter once more, for rows marked deleted by now.
\* Status, level, tags or texts of an issue may have changed since the update: it
\* has left the filter, or one deleted earlier has entered it.
EnqueueSelected(ids) ==
  LET marked == {i \in Rows : row[i] = "soft" /\ leaf[i] # Absent} IN
  /\ request.pc = "read" /\ ids \subseteq marked /\ Enqueue(ids)
  /\ IF ids = request.ids \cap marked THEN UNCHANGED budget ELSE Spend("changes")

\* A comment or a user report: its foreign key needs the issue.
AddComment(i) ==
  /\ i \in Rows /\ i \notin comments /\ Spend("comments")
  /\ comments' = comments \cup {i}
  /\ UNCHANGED <<row, seq, hashOf, leaf, event, aggr, links, replica, todo, worker, request,
                 queue, del, skipped, unqueued, raced>>

\* An alert names the issue in a notification, with a foreign key too.
AddLink(i) ==
  /\ i \in Rows /\ i \notin links /\ Spend("comments")
  /\ links' = links \cup {i}
  /\ UNCHANGED <<row, seq, hashOf, leaf, event, aggr, comments, replica, todo, worker,
                 request, queue, del, skipped, unqueued, raced>>

\* A user unmerges a hash: its next event starts a new issue.
DeleteHash(h) ==
  /\ hashOf[h] # None /\ Spend("unmerges")
  /\ hashOf' = [hashOf EXCEPT ![h] = None]
  /\ UNCHANGED <<row, seq, leaf, event, aggr, links, comments, replica, todo, worker, request,
                 queue, del, skipped, unqueued, raced>>

\* Retention passes without an event: partitions with the issue's events and
\* aggregates are dropped, its last_seen is old.
Age(i) ==
  /\ leaf[i] = "fresh" /\ Spend("ages")
  /\ \A w \in Workers : worker[w].issue # i
  /\ leaf' = [leaf EXCEPT ![i] = "old"]
  /\ event' = [e \in Events |-> IF event[e] = i THEN None ELSE event[e]]
  /\ aggr' = aggr \ {i}
  /\ UNCHANGED <<row, seq, hashOf, links, comments, replica, todo, worker, request, queue,
                 del, skipped, unqueued, raced>>

ReplicaCatchUp ==
  /\ replica # JoinRow
  /\ replica' = JoinRow
  /\ UNCHANGED <<tables, todo, worker, request, queue, del, skipped, unqueued, raced, budget>>
--------------------------------------------------------------------------------
(***************************************************************************)
(* delete_issues_in_batches, one statement per action                      *)
(***************************************************************************)
\* Mutant of Selected: a task does not see the soft-deleted rows it is to delete.
SelectedLive(src, arg, present) ==
  IF src = "task" THEN {i \in arg \cap present : row[i] = "live"}
  ELSE {i \in present : leaf[i] = "old"}

\* The queryset: the ids a task was given, or every issue with an old leaf.
Selected(src, arg, present) ==
  IF src = "task" THEN arg \cap present ELSE {i \in present : leaf[i] = "old"}

\* The SELECT before each batch, given the rows present.
SelectBatch(d, src, arg, present) ==
  LET ids == Selected(src, arg, present) IN
  del' = [del EXCEPT ![d] =
    IF ids = {} THEN IdleDelete
    ELSE [pc |-> "events", src |-> src, arg |-> arg, ids |-> ids, batch |-> {}]]

BeginDeleteTask(d, arg) ==
  /\ del[d].pc = "idle" /\ arg \in queue
  /\ queue' = queue \ {arg}
  /\ SelectBatch(d, "task", arg, Rows)
  /\ UNCHANGED <<tables, replica, todo, worker, request, skipped, unqueued, budget>>

BeginCleanup(d) ==
  /\ del[d].pc = "idle" /\ Selected("maintenance", {}, Rows) # {}
  /\ SelectBatch(d, "maintenance", {}, Rows)
  /\ UNCHANGED <<tables, replica, todo, worker, request, queue, skipped, unqueued, budget>>

\* Mutant of SelectEvents: the events are left to a cascade there is not.
SelectEventsNot(d) ==
  /\ del[d].pc = "events"
  /\ del' = [del EXCEPT ![d].pc = "aggregates"]
  /\ UNCHANGED <<tables, replica, todo, worker, request, queue, skipped, unqueued, budget>>

\* raw_delete_in_batches reads event ids until there are none...
SelectEvents(d) ==
  LET found == {e \in Events : event[e] \in del[d].ids} IN
  /\ del[d].pc = "events"
  /\ del' = [del EXCEPT ![d].pc = IF found = {} THEN "aggregates" ELSE "raw",
                        ![d].batch = found]
  /\ UNCHANGED <<tables, replica, todo, worker, request, queue, skipped, unqueued, budget>>

\* ...and deletes them by id.
DeleteEvents(d) ==
  /\ del[d].pc = "raw"
  /\ event' = [e \in Events |-> IF e \in del[d].batch THEN None ELSE event[e]]
  /\ del' = [del EXCEPT ![d].pc = "events", ![d].batch = {}]
  /\ UNCHANGED <<row, seq, hashOf, leaf, aggr, links, comments, replica, todo, worker,
                 request, queue, skipped, unqueued, budget>>

DeleteAggregates(d) ==
  /\ del[d].pc = "aggregates"
  /\ aggr' = aggr \ del[d].ids
  /\ del' = [del EXCEPT ![d].pc = "leaf"]
  /\ UNCHANGED <<row, seq, hashOf, leaf, event, links, comments, replica, todo, worker,
                 request, queue, skipped, unqueued, budget>>

DeleteLeaf(d) ==
  /\ del[d].pc = "leaf"
  /\ leaf' = [i \in Issues |-> IF i \in del[d].ids THEN Absent ELSE leaf[i]]
  /\ del' = [del EXCEPT ![d].pc = "links"]
  /\ UNCHANGED <<row, seq, hashOf, event, aggr, links, comments, replica, todo, worker,
                 request, queue, skipped, unqueued, budget>>

DeleteLinks(d) ==
  /\ del[d].pc = "links"
  /\ links' = links \ del[d].ids
  /\ del' = [del EXCEPT ![d].pc = "hashes"]
  /\ UNCHANGED <<row, seq, hashOf, leaf, event, aggr, comments, replica, todo, worker,
                 request, queue, skipped, unqueued, budget>>

DeleteHashes(d) ==
  /\ del[d].pc = "hashes"
  /\ hashOf' = [h \in Hashes |-> IF hashOf[h] \in del[d].ids THEN None ELSE hashOf[h]]
  /\ del' = [del EXCEPT ![d].pc = "comments"]
  /\ UNCHANGED <<row, seq, leaf, event, aggr, links, comments, replica, todo, worker,
                 request, queue, skipped, unqueued, budget>>

\* Comments and user reports.
DeleteComments(d) ==
  /\ del[d].pc = "comments"
  /\ comments' = comments \ del[d].ids
  /\ del' = [del EXCEPT ![d].pc = "issue"]
  /\ UNCHANGED <<row, seq, hashOf, leaf, event, aggr, links, replica, todo, worker,
                 request, queue, skipped, unqueued, budget>>

\* Rows that still refer to one of ids by a foreign key.
Referenced(ids) ==
  (links \cup comments) \cap ids # {} \/ \E h \in Hashes : hashOf[h] \in ids

\* The issue rows go, and the next batch is selected.  Whoever looked an id up
\* and has not stored its rows yet will store them under a missing issue.
DeleteIssue(d) ==
  LET ids == del[d].ids IN
  /\ del[d].pc = "issue" /\ ~Referenced(ids)
  /\ row' = [i \in Issues |-> IF i \in ids THEN Absent ELSE row[i]]
  /\ SelectBatch(d, del[d].src, del[d].arg, Rows \ ids)
  /\ UNCHANGED <<seq, hashOf, leaf, event, aggr, links, comments, replica, todo, worker,
                 request, queue, skipped, unqueued, budget>>

\* IntegrityError: the run stops.
DeleteIssueRefused(d) ==
  /\ del[d].pc = "issue" /\ Referenced(del[d].ids)
  /\ skipped' = skipped \cup (del[d].ids \cap Rows)
  /\ del' = [del EXCEPT ![d] = IdleDelete]
  /\ UNCHANGED <<tables, replica, todo, worker, request, queue, unqueued, budget>>

\* A deletion, an ingest task or the API request dies between two statements.
Crash ==
  /\ Spend("crashes")
  /\ \/ \E d \in Deleters :
          /\ del[d].pc # "idle"
          /\ del' = [del EXCEPT ![d] = IdleDelete]
          /\ skipped' = skipped \cup (del[d].ids \cap Rows)
          /\ UNCHANGED <<worker, request, unqueued>>
     \/ \E w \in Workers :
          /\ worker[w].pc # "idle"
          /\ worker' = [worker EXCEPT ![w] = IdleWorker]
          /\ UNCHANGED <<del, request, skipped, unqueued>>
     \/ /\ request.pc # "idle"
        /\ request' = NoRequest
        /\ unqueued' = unqueued \cup (request.ids \cap Rows)
        /\ UNCHANGED <<del, worker, skipped>>
  /\ UNCHANGED <<tables, replica, todo, queue, raced>>
--------------------------------------------------------------------------------
\* History: an issue is raced once a worker holds its id while it is being
\* deleted or after it is gone.
NoteRaces == raced' = raced \cup
  {i \in Issues : /\ \E w \in Workers : worker'[w].issue = i
                  /\ row'[i] = Absent \/ \E d \in Deleters : i \in del'[d].ids}

IngestStep(w) ==
  /\ \/ \E e \in Events, h \in Hashes : TakeEvent(w, e, h)
     \/ InsertIssue(w) \/ LoseRace(w) \/ ReadWinner(w) \/ UpdateIssues(w)
     \/ CopyEvents(w) \/ UpdateAggregates(w)
  /\ NoteRaces

DeleteStep(d) ==
  /\ \/ SelectEvents(d) \/ DeleteEvents(d) \/ DeleteAggregates(d) \/ DeleteLeaf(d)
     \/ DeleteLinks(d) \/ DeleteHashes(d) \/ DeleteComments(d)
     \/ DeleteIssue(d) \/ DeleteIssueRefused(d)
  /\ NoteRaces

StartTask(d)    == (\E arg \in queue : BeginDeleteTask(d, arg)) /\ NoteRaces
StartCleanup(d) == BeginCleanup(d) /\ NoteRaces

\* The request goes on.
EnqueueStep == EnqueueDelete \/ \E ids \in SUBSET Issues : EnqueueSelected(ids)

LifecycleNext ==
  \/ \E w \in Workers : IngestStep(w)
  \/ \E i \in Issues : delete_issue(i)
  \/ \E S \in SUBSET Issues : delete_issues(S)
  \/ EnqueueStep
  \/ \E i \in Issues : AddComment(i) \/ AddLink(i)
  \/ \E h \in Hashes : DeleteHash(h)
  \/ \E i \in Issues : Age(i)
  \/ ReplicaCatchUp
  \/ \E d \in Deleters : StartTask(d) \/ StartCleanup(d) \/ DeleteStep(d)
  \/ Crash

LifecycleSpec == LifecycleInit /\ [][LifecycleNext]_lifecycleVars

\* Workers take and finish their tasks, maintenance is scheduled daily.
Fairness ==
  /\ \A w \in Workers : WF_lifecycleVars(IngestStep(w))
  /\ WF_lifecycleVars(EnqueueStep)
  /\ \A d \in Deleters :
       /\ WF_lifecycleVars(DeleteStep(d))
       /\ WF_lifecycleVars(StartCleanup(d)) /\ WF_lifecycleVars(StartTask(d))

FairLifecycle == LifecycleSpec /\ Fairness
--------------------------------------------------------------------------------

\* Rows left behind under an issue that is gone: events, leaf, aggregates.
Orphaned == {i \in Issues : /\ row[i] = Absent
                            /\ \/ leaf[i] # Absent \/ i \in aggr
                               \/ \E e \in Events : event[e] = i}

\* delete_issues_in_batches leaves no row behind under an issue it deleted,
\* unless an ingest worker held the issue's id during the deletion or got it
\* from a lagging replica afterwards.
OrphansNeedARace == Orphaned \subseteq raced

\* Every issue has the leaf that the list queryset joins, outside a deletion,
\* unless a deletion of it was given up half way (IntegrityError, crash).
LeafUnlessSkipped ==
  \A i \in Rows : leaf[i] = Absent => i \in skipped \/ \E d \in Deleters : i \in del[d].ids

\* An issue a user deleted is eventually gone, events arriving meanwhile or not,
\* unless a deletion of it was given up half way, or no task ever got its id: the
\* request died, or the issue left the filter of delete_issues between the update
\* and the read.  Such an issue is hidden, and goes when it is out of retention.
DeletionCompletes ==
  \A i \in Issues : row[i] = "soft" ~>
    (row[i] = Absent \/ i \in skipped \/ (i \in unqueued /\ leaf[i] # "old"))

\* What delete_issues_in_batches leaves behind while ingest goes on: no rows
\* without their issue, no issue without its leaf, outside the named races.
DeletionsLeaveNoDebris == OrphansNeedARace /\ LeafUnlessSkipped
================================================================================
