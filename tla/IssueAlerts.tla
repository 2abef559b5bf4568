------------------------------ MODULE IssueAlerts ------------------------------
(***************************************************************************)
(* Issue alerts of one project: ingest notes the issues of a batch in a    *)
(* Valkey set, then stores the events; every minute process_event_alerts   *)
(* empties the set and creates notifications for issues with enough recent *)
(* events; send_notification delivers them.  A regression deletes the      *)
(* notifications that mention the issue, so that it can alert again.       *)
(*                                                                         *)
(* Of ingest (module IssueIngest) only the statements alerts depend on are *)
(* kept, in their order: hash lookup, SADD, status, notifications, COPY.   *)
(***************************************************************************)
EXTENDS Integers, FiniteSets

CONSTANTS
  Ingesters,    \* ingest task workers
  Alerters,     \* concurrent process_event_alerts runs (one is scheduled)
  Issues,       \* issues of the project
  Alerts,       \* its project alerts with quantity and timespan set
  Quantity,     \* ProjectAlert.quantity, of every alert
  Valkey,       \* settings.CACHE_IS_VALKEY
  MaxArrivals,    \* bound: events per issue
  MaxNotifs,    \* bound: notifications ever created
  MaxResolves,  \* bound: times a user resolves an issue
  MaxSlides,    \* bound: times recent events fall out of the timespan
  MaxCrashes    \* bound: alert and send tasks that die or raise half way

ASSUME AlertAssumption ==
  /\ IsFiniteSet(Ingesters) /\ IsFiniteSet(Alerters)
  /\ IsFiniteSet(Issues) /\ IsFiniteSet(Alerts)
  /\ Quantity \in Nat \ {0} /\ Valkey \in BOOLEAN
  /\ MaxArrivals \in Nat /\ MaxNotifs \in Nat /\ MaxResolves \in Nat
  /\ MaxSlides \in Nat /\ MaxCrashes \in Nat

NotifIds == 1..MaxNotifs

VARIABLES
  sent,             \* events sent so far, per issue
  recent,           \* stored events inside the timespan, per issue
  resolved,         \* issues whose status is resolved
  pendingAlerts,          \* ISSUE_IDS_KEY
  live, notif,      \* rows of alerts_notification, their alert and issues
  isSent, notifSeq, \* is_sent, id sequence
  queue,            \* send_notification tasks: waiting, delivered but not saved
  ing,              \* ingest workers
  task,             \* process_event_alerts runs
  told, dropped,    \* history: deliveries and deletions per alert and issue
  stranded,         \* history: notifications whose alert or send task failed
  missed,           \* history: issues no alert run looks at again before their next event
  resolves, slides, crashes

notifVars == <<live, notif, isSent, notifSeq>>
toldVars  == <<told, dropped, stranded, missed, resolves, slides, crashes>>
alertVars      == <<sent, recent, resolved, pendingAlerts, notifVars, queue, ing, task, toldVars>>

IdleIngest  == [pc |-> "idle", issues |-> {}, reopen |-> {}]
IdleTask    == [pc |-> "idle", ids |-> {}, todo |-> {},
                cur |-> {}, list |-> {}, n |-> 0]

\* Issues already named by a notification of alert a.
Notified(a) == UNION {notif[n].issues : n \in {m \in live : notif[m].alert = a}}
--------------------------------------------------------------------------------
AlertsInit ==
  /\ sent = [i \in Issues |-> 0]
  /\ recent = [i \in Issues |-> 0]
  /\ resolved = {}
  /\ pendingAlerts = {}
  /\ live = {} /\ notifSeq = 0 /\ isSent = {}
  /\ notif = [n \in {} |-> 0]
  /\ queue = [waiting |-> {}, saving |-> {}]
  /\ ing = [w \in Ingesters |-> IdleIngest]
  /\ task = [t \in Alerters |-> IdleTask]
  /\ told = [a \in Alerts |-> [i \in Issues |-> 0]]
  /\ dropped = [a \in Alerts |-> [i \in Issues |-> 0]]
  /\ stranded = {} /\ missed = {}
  /\ resolves = 0 /\ slides = 0 /\ crashes = 0
--------------------------------------------------------------------------------
(***************************************************************************)
(* Ingest, as far as alerts are concerned                                  *)
(***************************************************************************)
\* A batch with one event of each issue of S; the lookup reads the statuses.
TakeArrivals(w, S) ==
  /\ ing[w].pc = "idle"
  /\ S # {} /\ \A i \in S : sent[i] < MaxArrivals
  /\ sent' = [i \in Issues |-> IF i \in S THEN sent[i] + 1 ELSE sent[i]]
  /\ ing' = [ing EXCEPT ![w] =
       [pc |-> "sadd", issues |-> S, reopen |-> S \cap resolved]]
  /\ UNCHANGED <<recent, resolved, pendingAlerts, notifVars, queue, task, toldVars>>

\* SADD of the batch's issue ids.
MarkPending(w) ==
  /\ ing[w].pc = "sadd"
  /\ pendingAlerts' = IF Valkey THEN pendingAlerts \cup ing[w].issues ELSE pendingAlerts
  /\ missed' = missed \ ing[w].issues
  /\ ing' = [ing EXCEPT ![w].pc = IF ing[w].reopen = {} THEN "copy" ELSE "reopen"]
  /\ UNCHANGED <<sent, recent, resolved, notifVars, queue, task, told, dropped, stranded,
                 resolves, slides, crashes>>

\* The statuses of the regressed issues go back to unresolved.
ReopenIssues(w) ==
  /\ ing[w].pc = "reopen"
  /\ resolved' = resolved \ ing[w].reopen
  /\ ing' = [ing EXCEPT ![w].pc = "drop"]
  /\ UNCHANGED <<sent, recent, pendingAlerts, notifVars, queue, task, toldVars>>

\* The notifications a regression deletes: whole, with the other issues too.
Doomed(reopen) == {n \in live : notif[n].issues \cap reopen # {}}

\* Through rows and notification rows go in one statement.
DropNotifications(w) ==
  LET D == Doomed(ing[w].reopen) IN
  /\ ing[w].pc = "drop"
  /\ live' = live \ D
  /\ dropped' = [a \in Alerts |-> [i \in Issues |->
       dropped[a][i] + Cardinality({n \in D : notif[n].alert = a /\ i \in notif[n].issues})]]
  /\ missed' = missed \cup ((UNION {notif[n].issues : n \in D}) \ pendingAlerts)
  /\ ing' = [ing EXCEPT ![w].pc = "copy"]
  /\ UNCHANGED <<sent, recent, resolved, pendingAlerts, notif, isSent, notifSeq, queue,
                 task, told, stranded, resolves, slides, crashes>>

\* COPY of the event rows; the batch is done.
StoreArrivals(w) ==
  /\ ing[w].pc = "copy"
  /\ recent' = [i \in Issues |->
       IF i \in ing[w].issues THEN recent[i] + 1 ELSE recent[i]]
  /\ ing' = [ing EXCEPT ![w] = IdleIngest]
  /\ UNCHANGED <<sent, resolved, pendingAlerts, notifVars, queue, task, toldVars>>

\* A user resolves an issue.
Resolve(i) ==
  /\ i \notin resolved /\ recent[i] > 0 /\ resolves < MaxResolves
  /\ resolved' = resolved \cup {i}
  /\ resolves' = resolves + 1
  /\ UNCHANGED <<sent, recent, pendingAlerts, notifVars, queue, ing, task, told,
                 dropped, stranded, missed, slides, crashes>>

\* The oldest recent event of an issue leaves the alert's timespan.
Slide(i) ==
  /\ recent[i] > 0 /\ slides < MaxSlides
  /\ recent' = [recent EXCEPT ![i] = @ - 1]
  /\ slides' = slides + 1
  /\ UNCHANGED <<sent, resolved, pendingAlerts, notifVars, queue, ing, task, told,
                 dropped, stranded, missed, resolves, crashes>>
--------------------------------------------------------------------------------
(***************************************************************************)
(* process_event_alerts                                                    *)
(***************************************************************************)
\* Empty the set atomically and select the alerts; with no new ids there is
\* nothing to do, without Valkey every issue is looked at.  An issue whose batch has
\* not stored its events is taken out all the same.
BeginAlerts(t) ==
  /\ task[t].pc = "idle"
  /\ Valkey => pendingAlerts # {}
  /\ pendingAlerts' = {}
  /\ task' = [task EXCEPT ![t] =
       [IdleTask EXCEPT !.pc = "alert", !.todo = Alerts,
                        !.ids = IF Valkey THEN pendingAlerts ELSE Issues]]
  /\ missed' = missed \cup {i \in pendingAlerts : \E w \in Ingesters :
                              ing[w].pc # "sadd" /\ i \in ing[w].issues}
  /\ UNCHANGED <<sent, recent, resolved, notifVars, queue, ing, told, dropped, stranded,
                 resolves, slides, crashes>>

\* Mutant of Matches: issues already notified are not excluded.
MatchesAgain(t, a) == {i \in task[t].ids : recent[i] >= Quantity}

\* The issues alert a fires for.
Matches(t, a) == {i \in task[t].ids : recent[i] >= Quantity} \ Notified(a)

\* One alert of the loop: run its query.
CheckAlert(t, a) ==
  /\ task[t].pc = "alert" /\ a \in task[t].todo
  /\ task' = [task EXCEPT ![t].todo = @ \ {a}, ![t].list = Matches(t, a),
       ![t].cur = IF Matches(t, a) = {} THEN {} ELSE {a},
       ![t].pc = IF Matches(t, a) = {} THEN "alert" ELSE "create"]
  /\ UNCHANGED <<sent, recent, resolved, pendingAlerts, notifVars, queue, ing, toldVars>>

\* acreate: a notification without issues.
CreateNotification(t, a) ==
  /\ task[t].pc = "create" /\ a \in task[t].cur
  /\ notifSeq < MaxNotifs
  /\ notifSeq' = notifSeq + 1
  /\ live' = live \cup {notifSeq + 1}
  /\ notif' = [n \in 1..(notifSeq + 1) |->
       IF n <= notifSeq THEN notif[n] ELSE [alert |-> a, issues |-> {}]]
  /\ task' = [task EXCEPT ![t].pc = "set", ![t].n = notifSeq + 1]
  /\ UNCHANGED <<sent, recent, resolved, pendingAlerts, isSent, queue, ing, toldVars>>

\* issues.aset
SetIssues(t) ==
  /\ task[t].pc = "set"
  /\ notif' = [notif EXCEPT ![task[t].n].issues = task[t].list]
  /\ task' = [task EXCEPT ![t].pc = "enqueue"]
  /\ UNCHANGED <<sent, recent, resolved, pendingAlerts, live, isSent, notifSeq, queue,
                 ing, toldVars>>

\* Mutant of Enqueued: the task is not enqueued.
EnqueuedNot(n) == {}

Enqueued(n) == {n}

\* send_notification.aenqueue, then the next alert.
EnqueueSend(t) ==
  /\ task[t].pc = "enqueue"
  /\ queue' = [queue EXCEPT !.waiting = @ \cup Enqueued(task[t].n)]
  /\ task' = [task EXCEPT ![t].pc = "alert", ![t].cur = {}, ![t].list = {},
                          ![t].n = 0]
  /\ UNCHANGED <<sent, recent, resolved, pendingAlerts, notifVars, ing, toldVars>>

EndAlerts(t) ==
  /\ task[t].pc = "alert" /\ task[t].todo = {}
  /\ task' = [task EXCEPT ![t] = IdleTask]
  /\ UNCHANGED <<sent, recent, resolved, pendingAlerts, notifVars, queue, ing, toldVars>>

\* The task raises or dies; the ids it took are gone.
CrashAlerts(t) ==
  /\ task[t].pc # "idle" /\ crashes < MaxCrashes
  /\ crashes' = crashes + 1
  /\ stranded' = IF task[t].n = 0 THEN stranded ELSE stranded \cup {task[t].n}
  /\ task' = [task EXCEPT ![t] = IdleTask]
  /\ UNCHANGED <<sent, recent, resolved, pendingAlerts, notifVars, queue, ing, told,
                 dropped, missed, resolves, slides>>
--------------------------------------------------------------------------------
(***************************************************************************)
(* send_notification                                                       *)
(***************************************************************************)
ToldAbout(n) ==
  [told EXCEPT ![notif[n].alert] = [i \in Issues |->
    IF i \in notif[n].issues THEN @[i] + 1 ELSE @[i]]]
\* Deliver to every recipient at once; a failing recipient stops nobody.
Deliver(n) ==
  /\ n \in queue.waiting /\ n \in live
  /\ told' = ToldAbout(n)
  /\ queue' = [waiting |-> queue.waiting \ {n}, saving |-> queue.saving \cup {n}]
  /\ UNCHANGED <<sent, recent, resolved, pendingAlerts, notifVars, ing, task, dropped,
                 stranded, missed, resolves, slides, crashes>>

\* The send task fails and is not run again: it dies, whoever was told by then; or,
\* of an alert without recipients, the e-mail to the team raises, which is sent
\* outside the gather; or the save after the delivery fails.
SendFails(n) ==
  /\ crashes < MaxCrashes /\ crashes' = crashes + 1
  /\ \/ /\ n \in queue.waiting /\ n \in live
        /\ told' \in {told, ToldAbout(n)}
     \/ n \in queue.saving /\ UNCHANGED told
  /\ queue' = [waiting |-> queue.waiting \ {n}, saving |-> queue.saving \ {n}]
  /\ stranded' = stranded \cup {n}
  /\ UNCHANGED <<sent, recent, resolved, pendingAlerts, notifVars, ing, task, dropped,
                 missed, resolves, slides>>

\* aget finds no row: the task fails.
DeliverGone(n) ==
  /\ n \in queue.waiting \ live
  /\ queue' = [queue EXCEPT !.waiting = @ \ {n}]
  /\ UNCHANGED <<sent, recent, resolved, pendingAlerts, notifVars, ing, task, toldVars>>

\* asave of the whole row: a row deleted meanwhile is inserted again, without
\* its issues.
SaveSent(n) ==
  /\ n \in queue.saving
  /\ isSent' = isSent \cup {n}
  /\ live' = live \cup {n}
  /\ notif' = [notif EXCEPT ![n].issues = IF n \in live THEN @ ELSE {}]
  /\ queue' = [queue EXCEPT !.saving = @ \ {n}]
  /\ UNCHANGED <<sent, recent, resolved, pendingAlerts, notifSeq, ing, task, toldVars>>
--------------------------------------------------------------------------------
IngestStep(w) ==
  MarkPending(w) \/ ReopenIssues(w) \/ DropNotifications(w) \/ StoreArrivals(w)

TaskStep(t) ==
  \/ \E a \in Alerts : CheckAlert(t, a) \/ CreateNotification(t, a)
  \/ SetIssues(t) \/ EnqueueSend(t) \/ EndAlerts(t)

SendStep == \E n \in NotifIds : Deliver(n) \/ DeliverGone(n) \/ SaveSent(n)

\* Every issue has had its events and everybody is done.
Quiet ==
  /\ \A w \in Ingesters : ing[w].pc = "idle"
  /\ \A t \in Alerters : task[t].pc = "idle"
  /\ queue = [waiting |-> {}, saving |-> {}]
  /\ UNCHANGED alertVars

AlertsNext ==
  \/ \E w \in Ingesters : (\E S \in SUBSET Issues : TakeArrivals(w, S)) \/ IngestStep(w)
  \/ \E i \in Issues : Resolve(i) \/ Slide(i)
  \/ \E t \in Alerters : BeginAlerts(t) \/ TaskStep(t) \/ CrashAlerts(t)
  \/ SendStep
  \/ \E n \in NotifIds : SendFails(n)
  \/ Quiet

AlertsSpec == AlertsInit /\ [][AlertsNext]_alertVars

\* Started tasks finish, the schedule keeps starting the alert task, and the
\* queue of send tasks is served.
AlertsFairness ==
  /\ \A w \in Ingesters : WF_alertVars(IngestStep(w))
  /\ \A t \in Alerters : WF_alertVars(BeginAlerts(t)) /\ WF_alertVars(TaskStep(t))
  /\ WF_alertVars(SendStep)
FairAlerts == AlertsSpec /\ AlertsFairness
--------------------------------------------------------------------------------

\* With one alert task at a time, an alert tells its recipients about an issue
\* once, and once more for every time a regression deleted a notification that
\* named the issue.
ToldOncePerRegression ==
  Cardinality(Alerters) = 1 =>
    \A a \in Alerts, i \in Issues : told[a][i] <= 1 + dropped[a][i]

\* Every notification that names an issue is sent, or deleted by a regression,
\* or its alert task died before enqueueing it, or its one send task failed:
\* nothing retries either.
NotificationsSettle ==
  \A n \in NotifIds :
    (n \in live /\ notif[n].issues # {}) ~>
      (n \in isSent \/ n \notin live \/ n \in stranded)

Firing(a, i) == recent[i] >= Quantity /\ i \notin Notified(a)

\* An issue that goes over the quantity is notified, unless an alert task dies or
\* time runs out.  Until its next event it may be forgotten in two ways, noted in
\* missed: an alert run took it out of the set before its batch stored the event,
\* or its notification went with another issue's regression.
FiringIssueNotified ==
  \A a \in Alerts, i \in Issues :
    Firing(a, i) ~> (~Firing(a, i) \/ crashes > 0 \/ i \in missed)

\* process_event_alerts and send_notification get there: an issue over the
\* quantity is notified, and what was created for it is sent.
AlertsGetThrough == NotificationsSettle /\ FiringIssueNotified
================================================================================
