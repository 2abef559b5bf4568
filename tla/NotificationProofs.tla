--------------------------- MODULE NotificationProofs ---------------------------
(***************************************************************************)
(* Proofs of ToldOncePerRegression, for any number of ingest workers,      *)
(* issues, alerts, notifications, regressions and crashes; of              *)
(* NoticesMatchState, for any number of monitors, thresholds and jobs at a *)
(* time; and of NoStaleConnection, for any number of failovers.            *)
(***************************************************************************)
EXTENDS IssueAlerts, Uptime, AsgiApp, FiniteSetTheorems, TLAPS

(***************************************************************************)
(* Issue alerts                                                            *)
(***************************************************************************)
Stages == {"idle", "alert", "create", "set", "enqueue"}
Batches == [pc : {"idle", "sadd", "reopen", "drop", "copy"},
            issues : SUBSET Issues, reopen : SUBSET Issues]
Runs == [pc : Stages, ids : SUBSET Issues, todo : SUBSET Alerts,
         cur : SUBSET Alerts, list : SUBSET Issues, n : Nat]
AlertsTypeOK ==
  /\ notifSeq \in Nat /\ live \subseteq 1..notifSeq
  /\ notif \in [1..notifSeq -> [alert : Alerts, issues : SUBSET Issues]]
  /\ queue \in [waiting : SUBSET (1..notifSeq), saving : SUBSET (1..notifSeq)]
  /\ task \in [Alerters -> Runs]
  /\ told \in [Alerts -> [Issues -> Nat]] /\ dropped \in [Alerts -> [Issues -> Nat]]
  /\ pendingAlerts \subseteq Issues
  /\ ing \in [Ingesters -> Batches]

\* Notification n of alert a mentions issue i.
Names(n, a, i) == n \in live /\ notif[n].alert = a /\ i \in notif[n].issues

\* A notification that is being made has no issues and is not queued yet.
Making ==
  \A t \in Alerters :
    /\ task[t].n \notin queue.waiting \cup queue.saving
    /\ \A s \in Alerters : task[s].n = task[t].n => s = t \/ task[t].n = 0
    /\ task[t].pc \in {"set", "enqueue"} => task[t].n \in 1..notifSeq
    /\ task[t].pc \notin {"set", "enqueue"} => task[t].n = 0
    /\ task[t].pc = "set" => notif[task[t].n].issues = {}

\* The issues an alert is about to mention are not mentioned yet, whatever was
\* sent and deleted since the query.
ListNew(t) ==
  \A n \in NotifIds, i \in task[t].list :
    /\ task[t].pc = "create" => \A a \in task[t].cur : ~Names(n, a, i)
    /\ task[t].pc = "set" => ~Names(n, notif[task[t].n].alert, i)
ListStaysNew == \A t \in Alerters : ListNew(t)

\* No issue is mentioned by two notifications of an alert.
OneNotification ==
  \A a \in Alerts, i \in Issues : \A m, n \in NotifIds : Names(m, a, i) /\ Names(n, a, i) => m = n

\* A notification that may still be delivered.
Undelivered(n) == n \in queue.waiting \/ \E t \in Alerters : task[t].n = n

\* Every delivery is accounted for: by a deletion, or by the one notification
\* that mentions the issue and is not going to be delivered again.
Delivered(a, i) == \E n \in NotifIds : Names(n, a, i) /\ ~Undelivered(n)
Accounted ==
  \A a \in Alerts, i \in Issues :
    told[a][i] <= dropped[a][i] + (IF Delivered(a, i) THEN 1 ELSE 0)

OneAlerter == \A s, t \in Alerters : s = t
AlertsInv ==
  /\ AlertsTypeOK
  /\ notifSeq <= MaxNotifs
  /\ Making
  /\ OneAlerter => ListStaysNew /\ OneNotification /\ Accounted
--------------------------------------------------------------------------------
\* Steps that deliver and delete nothing.
LEMMA AccountsKept ==
  ASSUME AlertsTypeOK, Accounted, UNCHANGED <<told, dropped>>,
         \A a \in Alerts, i \in Issues : Delivered(a, i) => Delivered(a, i)'
  PROVE  Accounted'
<1> SUFFICES ASSUME NEW a \in Alerts, NEW i \in Issues
             PROVE  told[a][i] <= dropped[a][i] + (IF Delivered(a, i)' THEN 1 ELSE 0)
  BY DEF Accounted
<1>1. told[a][i] <= dropped[a][i] + (IF Delivered(a, i) THEN 1 ELSE 0)
  BY DEF Accounted
<1>2. told[a][i] \in Nat /\ dropped[a][i] \in Nat
  BY DEF AlertsTypeOK
<1>3. Delivered(a, i) => Delivered(a, i)'
  OBVIOUS
<1> QED
  BY <1>1, <1>2, <1>3

\* Steps after which the same notifications mention the same issues.
LEMMA RowsKept ==
  ASSUME AlertsTypeOK, OneNotification, Accounted, UNCHANGED <<told, dropped>>,
         \A n \in NotifIds, a \in Alerts, i \in Issues : Names(n, a, i)' <=> Names(n, a, i),
         \A n \in NotifIds, a \in Alerts, i \in Issues :
           Names(n, a, i) /\ Undelivered(n)' => Undelivered(n)
  PROVE  OneNotification' /\ Accounted'
<1>1. OneNotification'
  BY DEF OneNotification
<1>2. \A a \in Alerts, i \in Issues : Delivered(a, i) => Delivered(a, i)'
  BY DEF Delivered
<1> QED
  BY <1>1, <1>2, AccountsKept

\* Steps of ingest and of users, but for the deletion of notifications.
LEMMA OthersKeep ==
  ASSUME AlertsInv, UNCHANGED <<notifVars, queue, task, told, dropped>>,
         pendingAlerts' \subseteq Issues, ing' \in [Ingesters -> Batches]
  PROVE  AlertsInv'
<1> USE DEF AlertsInv
<1>1. AlertsTypeOK' /\ notifSeq' <= MaxNotifs /\ Making'
  BY DEF AlertsTypeOK, Making, notifVars
<1>2. ASSUME OneAlerter PROVE ListStaysNew' /\ OneNotification' /\ Accounted'
  <2>1. ListStaysNew'
    BY <1>2 DEF ListStaysNew, ListNew, Names, notifVars
  <2>2. \A n, a, i : Names(n, a, i)' <=> Names(n, a, i)
    BY DEF Names, notifVars
  <2>3. \A n : Undelivered(n)' => Undelivered(n)
    BY DEF Undelivered
  <2> QED
    BY <1>2, <2>1, <2>2, <2>3, RowsKept
<1> QED
  BY <1>1, <1>2 DEF OneAlerter

\* A step of ingest keeps the invariant.
LEMMA IngestSteps ==
  ASSUME AlertsInv, NEW w \in Ingesters,
         (\E S \in SUBSET Issues : TakeArrivals(w, S)) \/ MarkPending(w) \/ ReopenIssues(w)
           \/ StoreArrivals(w)
  PROVE  AlertsInv'
<1> USE DEF AlertsInv
<1>1. ing' \in [Ingesters -> Batches]
  <2>1. ing \in [Ingesters -> Batches]
    BY DEF AlertsTypeOK
  <2>2. ASSUME NEW S \in SUBSET Issues, TakeArrivals(w, S) PROVE ing' \in [Ingesters -> Batches]
    <3>1. [pc |-> "sadd", issues |-> S, reopen |-> S \cap resolved] \in Batches
      BY DEF Batches
    <3> QED
      BY <2>1, <2>2, <3>1 DEF TakeArrivals
  <2>3. CASE MarkPending(w)
    BY <2>1, <2>3 DEF MarkPending, Batches
  <2>4. CASE ReopenIssues(w)
    BY <2>1, <2>4 DEF ReopenIssues, Batches
  <2>5. CASE StoreArrivals(w)
    <3>1. IdleIngest \in Batches
      BY DEF IdleIngest, Batches
    <3> QED
      BY <2>1, <2>5, <3>1 DEF StoreArrivals
  <2> QED
    BY <2>2, <2>3, <2>4, <2>5
<1>2. pendingAlerts' \subseteq Issues
  BY DEF AlertsTypeOK, Batches, TakeArrivals, MarkPending, ReopenIssues, StoreArrivals
<1>3. UNCHANGED <<notifVars, queue, task, told, dropped>>
  BY DEF TakeArrivals, MarkPending, ReopenIssues, StoreArrivals, toldVars
<1> QED
  BY <1>1, <1>2, <1>3, OthersKeep

\* A finite set that has an element counts at least one.
LEMMA CountPositive ==
  ASSUME NEW S, IsFiniteSet(S)
  PROVE  Cardinality(S) \in Nat /\ \A x \in S : Cardinality(S) >= 1
<1>1. Cardinality(S) \in Nat
  BY FS_CardinalityType
<1>2. Cardinality(S) = 0 <=> S = {}
  BY FS_EmptySet
<1> QED
  BY <1>1, <1>2

Mentions(D, a, i) == {n \in D : notif[n].alert = a /\ i \in notif[n].issues}
Dismissed(D, a, i) == Cardinality(Mentions(D, a, i))

\* A regression deletes notifications: each issue a deleted one mentioned may be
\* told about once more.
LEMMA DropStep ==
  ASSUME AlertsInv, NEW w \in Ingesters, DropNotifications(w)
  PROVE  AlertsInv'
<1> DEFINE D == Doomed(ing[w].reopen)
<1> USE DEF AlertsInv
<1>1. /\ live' = live \ D /\ UNCHANGED <<notif, notifSeq, queue, task, told, pendingAlerts>>
      /\ dropped' = [a \in Alerts |-> [i \in Issues |-> dropped[a][i] + Dismissed(D, a, i)]]
  BY DEF DropNotifications, Dismissed, Mentions
<1>2. D \subseteq live
  BY DEF Doomed
<1>3. \A n, a, i : Names(n, a, i)' <=> Names(n, a, i) /\ n \notin D
  BY <1>1, <1>2 DEF Names
<1> HIDE DEF D
<1>4. ASSUME NEW a \in Alerts, NEW i \in Issues
      PROVE  Dismissed(D, a, i) \in Nat /\ \A n \in Mentions(D, a, i) : Dismissed(D, a, i) >= 1
  <2>1. IsFiniteSet(1..notifSeq) /\ Mentions(D, a, i) \subseteq 1..notifSeq
    <3>1. 1 \in Int /\ notifSeq \in Int /\ D \subseteq 1..notifSeq
      BY <1>2 DEF AlertsTypeOK
    <3> QED
      BY <3>1, FS_Interval DEF Mentions
  <2>2. IsFiniteSet(Mentions(D, a, i))
    BY <2>1, FS_Subset
  <2> QED
    BY <2>2, CountPositive DEF Dismissed
<1>5. \A a \in Alerts, i \in Issues : dropped'[a][i] = dropped[a][i] + Dismissed(D, a, i)
  BY <1>1
<1>6. dropped' \in [Alerts -> [Issues -> Nat]]
  BY <1>1, <1>4 DEF AlertsTypeOK
<1>7. AlertsTypeOK' /\ notifSeq' <= MaxNotifs /\ Making'
  <2>1. ing' \in [Ingesters -> Batches]
    BY DEF DropNotifications, AlertsTypeOK, Batches
  <2> QED
    BY <1>1, <1>6, <2>1 DEF AlertsTypeOK, Making
<1>8. ASSUME OneAlerter PROVE ListStaysNew' /\ OneNotification'
  BY <1>1, <1>3, <1>8 DEF ListStaysNew, ListNew, OneNotification
<1>9. ASSUME OneAlerter PROVE Accounted'
  <2> SUFFICES ASSUME NEW a \in Alerts, NEW i \in Issues
               PROVE  told[a][i] <= dropped'[a][i] + (IF Delivered(a, i)' THEN 1 ELSE 0)
    BY <1>1 DEF Accounted
  <2>1. /\ told[a][i] <= dropped[a][i] + (IF Delivered(a, i) THEN 1 ELSE 0)
        /\ told[a][i] \in Nat /\ dropped[a][i] \in Nat
    BY <1>9 DEF Accounted, AlertsTypeOK
  <2>2. CASE ~Delivered(a, i)
    BY <1>4, <1>5, <2>1, <2>2
  <2>3. CASE Delivered(a, i)
    <3>1. PICK n \in NotifIds : Names(n, a, i) /\ ~Undelivered(n)
      BY <2>3 DEF Delivered
    <3>2. CASE n \in D
      <4>1. n \in Mentions(D, a, i)
        BY <3>1, <3>2 DEF Names, Mentions
      <4> QED
        BY <1>4, <1>5, <2>1, <2>3, <4>1
    <3>3. CASE n \notin D
      <4>1. Names(n, a, i)' /\ ~Undelivered(n)'
        BY <1>1, <1>3, <3>1, <3>3 DEF Undelivered
      <4>2. Delivered(a, i)'
        BY <4>1 DEF Delivered
      <4> QED
        BY <1>4, <1>5, <2>1, <2>3, <4>2
    <3> QED
      BY <3>2, <3>3
  <2> QED
    BY <2>2, <2>3
<1> QED
  BY <1>7, <1>8, <1>9 DEF OneAlerter
--------------------------------------------------------------------------------
\* A step of alert run t that leaves the rows, the queue and the history alone.
Turns(t, r) == r \in Runs /\ task' = [task EXCEPT ![t] = r]
\* A turn of one evaluation that makes no notification keeps the invariant.
LEMMA TurnKeeps ==
  ASSUME AlertsInv, NEW t \in Alerters, NEW r, Turns(t, r),
         r.n = task[t].n \/ r.n = 0,
         r.pc \in {"set", "enqueue"} => r.n # 0 /\ r.n = task[t].n /\ task[t].pc \in {"set", "enqueue"},
         r.pc = "set" => task[t].pc = "set",
         r.pc \notin {"set", "enqueue"} => r.n = 0,
         ListNew(t)', pendingAlerts' \subseteq Issues,
         UNCHANGED <<notifVars, queue, told, dropped, ing>>
  PROVE  AlertsInv'
<1> USE DEF AlertsInv
<1>1. /\ task' \in [Alerters -> Runs] /\ task'[t] = r
      /\ \A s \in Alerters : s # t => task'[s] = task[s]
  BY DEF Turns, AlertsTypeOK
<1>2. AlertsTypeOK' /\ notifSeq' <= MaxNotifs
  BY <1>1 DEF AlertsTypeOK, notifVars
<1>3. Making'
  <2> SUFFICES ASSUME NEW s \in Alerters
               PROVE  /\ task'[s].n \notin queue.waiting \cup queue.saving
                      /\ \A u \in Alerters : task'[u].n = task'[s].n => u = s \/ task'[s].n = 0
                      /\ task'[s].pc \in {"set", "enqueue"} => task'[s].n \in 1..notifSeq
                      /\ task'[s].pc \notin {"set", "enqueue"} => task'[s].n = 0
                      /\ task'[s].pc = "set" => notif[task'[s].n].issues = {}
    BY DEF Making, notifVars
  <2>1. 0 \notin queue.waiting \cup queue.saving
    BY DEF AlertsTypeOK
  <2>2. CASE s = t
    BY <1>1, <2>1, <2>2 DEF Making
  <2>3. CASE s # t
    BY <1>1, <2>3 DEF Making
  <2> QED
    BY <2>2, <2>3
<1>4. \A n, a, i : Names(n, a, i)' <=> Names(n, a, i)
  BY DEF Names, notifVars
<1>5. ASSUME OneAlerter PROVE ListStaysNew'
  BY <1>1, <1>5 DEF ListStaysNew, OneAlerter
<1>6. \A n \in NotifIds : Undelivered(n)' => Undelivered(n)
  <2> SUFFICES ASSUME NEW n \in NotifIds, NEW s \in Alerters, task'[s].n = n
               PROVE  task[s].n = n
    BY DEF Undelivered
  <2>1. n # 0
    BY DEF NotifIds
  <2> QED
    BY <1>1, <2>1
<1>7. ASSUME OneAlerter PROVE OneNotification' /\ Accounted'
  BY <1>4, <1>6, <1>7, RowsKept
<1> QED
  BY <1>2, <1>3, <1>5, <1>7 DEF OneAlerter

\* An evaluation that is not running holds nothing.
LEMMA IdleRun == IdleTask \in Runs /\ IdleTask.pc = "idle" /\ IdleTask.n = 0 /\ IdleTask.list = {}
BY DEF IdleTask, Runs, Stages

\* Beginning, ending and dying.
LEMMA TurnSteps ==
  ASSUME AlertsInv, NEW t \in Alerters, BeginAlerts(t) \/ EndAlerts(t) \/ CrashAlerts(t)
  PROVE  AlertsInv'
<1> USE DEF AlertsInv
<1>1. CASE BeginAlerts(t)
  <2> DEFINE r == [IdleTask EXCEPT !.pc = "alert", !.todo = Alerts,
                                   !.ids = IF Valkey THEN pendingAlerts ELSE Issues]
  <2>1. r \in Runs /\ r.pc = "alert" /\ r.n = 0 /\ r.list = {}
    BY IdleRun DEF Runs, Stages, AlertsTypeOK
  <2>2. task' = [task EXCEPT ![t] = r] /\ task[t].pc = "idle"
    BY <1>1 DEF BeginAlerts
  <2> HIDE DEF r
  <2>3. ListNew(t)'
    BY <2>1, <2>2 DEF ListNew, AlertsTypeOK
  <2> QED
    BY <1>1, <2>1, <2>2, <2>3, TurnKeeps DEF Turns, BeginAlerts, toldVars
<1>2. CASE EndAlerts(t) \/ CrashAlerts(t)
  <2>1. task' = [task EXCEPT ![t] = IdleTask]
        /\ UNCHANGED <<notifVars, queue, told, dropped, ing, pendingAlerts>>
    BY <1>2 DEF EndAlerts, CrashAlerts, toldVars
  <2>2. ListNew(t)'
    BY <2>1, IdleRun DEF ListNew, AlertsTypeOK
  <2> QED
    BY <2>1, <2>2, IdleRun, TurnKeeps DEF Turns, AlertsTypeOK
<1> QED
  BY <1>1, <1>2

\* The query of an alert finds issues that none of its notifications mentions.
LEMMA CheckStep ==
  ASSUME AlertsInv, NEW t \in Alerters, NEW a \in Alerts, CheckAlert(t, a)
  PROVE  AlertsInv'
<1> USE DEF AlertsInv
<1> DEFINE found == Matches(t, a)
           r == [task[t] EXCEPT !.todo = @ \ {a}, !.list = found,
                   !.cur = IF found = {} THEN {} ELSE {a},
                   !.pc = IF found = {} THEN "alert" ELSE "create"]
<1>1. task[t] \in Runs /\ task[t].pc = "alert" /\ task[t].n = 0
  BY DEF CheckAlert, AlertsTypeOK, Making
<1>2. found \subseteq Issues /\ \A i \in found : i \notin Notified(a)
  BY <1>1 DEF Matches, Runs
<1>3. task' = [task EXCEPT ![t] = r]
  BY DEF CheckAlert, AlertsTypeOK
<1> HIDE DEF found
<1>4. /\ r \in Runs /\ r.list = found /\ r.n = 0
      /\ r.cur \subseteq {a} /\ r.pc \in {"alert", "create"}
  BY <1>1, <1>2 DEF Runs, Stages
<1> HIDE DEF r
<1>5. task'[t] = r
  BY <1>3 DEF AlertsTypeOK
<1>6. UNCHANGED <<notifVars, queue, told, dropped, ing, pendingAlerts>>
  BY DEF CheckAlert, toldVars
<1>7. ListNew(t)'
  BY <1>2, <1>4, <1>5, <1>6 DEF ListNew, Names, Notified, notifVars
<1> QED
  BY <1>1, <1>3, <1>4, <1>6, <1>7, TurnKeeps DEF Turns, AlertsTypeOK

\* The new notification mentions nothing yet, and only its run knows it.
LEMMA CreateStep ==
  ASSUME AlertsInv, NEW t \in Alerters, NEW a \in Alerts, CreateNotification(t, a)
  PROVE  AlertsInv'
<1> USE DEF AlertsInv
<1> DEFINE k == notifSeq + 1
           r == [task[t] EXCEPT !.pc = "set", !.n = k]
<1>1. task[t] \in Runs /\ task[t].pc = "create" /\ a \in task[t].cur
  BY DEF CreateNotification, AlertsTypeOK
<1>2. r \in Runs /\ r.pc = "set" /\ r.n = k /\ r.list = task[t].list
  <2>1. k \in Nat
    BY DEF AlertsTypeOK
  <2> HIDE DEF k
  <2> QED
    BY <1>1, <2>1 DEF Runs, Stages
<1>3. task' = [task EXCEPT ![t] = r]
  BY DEF CreateNotification, AlertsTypeOK
<1> HIDE DEF r
<1>4. task' \in [Alerters -> Runs] /\ task'[t] = r /\ \A s \in Alerters : s # t => task'[s] = task[s]
  BY <1>2, <1>3 DEF AlertsTypeOK
<1>5. /\ k \in Nat /\ k <= MaxNotifs /\ notifSeq' = k /\ live' = live \cup {k}
      /\ 1..notifSeq \subseteq 1..k /\ k \in 1..k /\ k \notin 1..notifSeq /\ k # 0
      /\ UNCHANGED <<queue, told, dropped, ing, pendingAlerts>>
  BY AlertAssumption DEF CreateNotification, AlertsTypeOK, toldVars
<1>6. /\ notif' \in [1..k -> [alert : Alerts, issues : SUBSET Issues]]
      /\ notif'[k] = [alert |-> a, issues |-> {}]
      /\ \A n \in 1..notifSeq : notif'[n] = notif[n]
  BY <1>5 DEF CreateNotification, AlertsTypeOK
<1>7. AlertsTypeOK' /\ notifSeq' <= MaxNotifs
  BY <1>4, <1>5, <1>6 DEF AlertsTypeOK
<1>8. Making'
  <2> SUFFICES ASSUME NEW s \in Alerters
               PROVE  /\ task'[s].n \notin queue.waiting \cup queue.saving
                      /\ \A u \in Alerters : task'[u].n = task'[s].n => u = s \/ task'[s].n = 0
                      /\ task'[s].pc \in {"set", "enqueue"} => task'[s].n \in 1..k
                      /\ task'[s].pc \notin {"set", "enqueue"} => task'[s].n = 0
                      /\ task'[s].pc = "set" => notif'[task'[s].n].issues = {}
    BY <1>5 DEF Making
  <2> HIDE DEF k
  <2>1. \A u \in Alerters : task[u].n # k /\ (task[u].n \in 1..notifSeq \/ task[u].n = 0)
    BY <1>5 DEF Making
  <2>2. \A u \in Alerters : task'[u].n = IF u = t THEN k ELSE task[u].n
    BY <1>2, <1>4
  <2>3. \A u \in Alerters : task'[u].n = task'[s].n => u = s \/ task'[s].n = 0
    BY <2>1, <2>2 DEF Making
  <2>4. CASE s = t
    BY <1>2, <1>4, <1>5, <1>6, <2>3, <2>4 DEF AlertsTypeOK
  <2>5. CASE s # t
    BY <1>4, <1>5, <1>6, <2>3, <2>5 DEF Making
  <2> QED
    BY <2>4, <2>5
<1>9. \A n, b, i : Names(n, b, i)' <=> Names(n, b, i)
  <2> HIDE DEF k
  <2> SUFFICES ASSUME NEW n, NEW b, NEW i PROVE Names(n, b, i)' <=> Names(n, b, i)
    OBVIOUS
  <2>1. n \in live => n \in 1..notifSeq /\ n # k
    BY <1>5 DEF AlertsTypeOK
  <2> QED
    BY <1>5, <1>6, <2>1 DEF Names
<1>10. ASSUME OneAlerter PROVE ListStaysNew'
  <2>1. ListNew(t)
    BY <1>10 DEF ListStaysNew
  <2>2. ListNew(t)'
    BY <1>1, <1>2, <1>4, <1>6, <1>9, <2>1 DEF ListNew
  <2> QED
    BY <1>10, <2>2 DEF ListStaysNew, OneAlerter
<1>11. ASSUME NEW n \in NotifIds, NEW b \in Alerts, NEW i \in Issues,
              Names(n, b, i), Undelivered(n)'
       PROVE  Undelivered(n)
  <2>1. n \in 1..notifSeq
    BY <1>11 DEF Names, AlertsTypeOK
  <2> QED
    BY <1>2, <1>4, <1>5, <1>11, <2>1 DEF Undelivered
<1>12. ASSUME OneAlerter PROVE OneNotification' /\ Accounted'
  BY <1>5, <1>9, <1>11, <1>12, RowsKept
<1> QED
  BY <1>7, <1>8, <1>10, <1>12 DEF OneAlerter

\* The issues are set: with one alert run nothing mentioned them since the query.
LEMMA SetStep ==
  ASSUME AlertsInv, NEW t \in Alerters, SetIssues(t)
  PROVE  AlertsInv'
<1> USE DEF AlertsInv
<1> DEFINE k == task[t].n
           r == [task[t] EXCEPT !.pc = "enqueue"]
<1>1. task[t] \in Runs /\ task[t].pc = "set" /\ k \in 1..notifSeq /\ notif[k].issues = {}
  BY DEF SetIssues, AlertsTypeOK, Making
<1>2. r \in Runs /\ r.pc = "enqueue" /\ r.n = k
  BY <1>1 DEF Runs, Stages
<1>3. task' = [task EXCEPT ![t] = r]
  BY DEF SetIssues, AlertsTypeOK
<1> HIDE DEF r
<1>4. task' \in [Alerters -> Runs] /\ task'[t] = r /\ \A s \in Alerters : s # t => task'[s] = task[s]
  BY <1>2, <1>3 DEF AlertsTypeOK
<1>5. /\ notif' \in [1..notifSeq -> [alert : Alerts, issues : SUBSET Issues]]
      /\ notif'[k].alert = notif[k].alert /\ notif'[k].issues = task[t].list
      /\ \A n \in 1..notifSeq : n # k => notif'[n] = notif[n]
      /\ UNCHANGED <<live, notifSeq, queue, told, dropped, ing, pendingAlerts>>
  <2> DEFINE row == [notif[k] EXCEPT !.issues = task[t].list]
  <2>1. notif[k] \in [alert : Alerts, issues : SUBSET Issues] /\ task[t].list \in SUBSET Issues
    BY <1>1 DEF AlertsTypeOK, Runs
  <2>2. /\ row \in [alert : Alerts, issues : SUBSET Issues]
        /\ row.alert = notif[k].alert /\ row.issues = task[t].list
    BY <2>1
  <2>3. notif' = [notif EXCEPT ![k] = row]
    BY <1>1 DEF SetIssues, AlertsTypeOK
  <2> HIDE DEF row, k
  <2>4. UNCHANGED <<live, notifSeq, queue, told, dropped, ing, pendingAlerts>>
    BY DEF SetIssues, toldVars
  <2> QED
    BY <1>1, <2>2, <2>3, <2>4 DEF AlertsTypeOK
<1>6. AlertsTypeOK' /\ notifSeq' <= MaxNotifs
  BY <1>4, <1>5 DEF AlertsTypeOK
<1>7. \A s \in Alerters : task'[s].n = task[s].n
  BY <1>2, <1>4
<1>8. ASSUME NEW s \in Alerters, s # t, task[s].pc = "set", OneAlerter PROVE FALSE
  BY <1>8 DEF OneAlerter
<1>9. \A n \in NotifIds, b \in Alerts, i \in Issues :
        Names(n, b, i)' <=> IF n = k THEN k \in live /\ notif[k].alert = b /\ i \in task[t].list
                            ELSE Names(n, b, i)
  BY <1>5 DEF Names, AlertsTypeOK
<1>10. \A b \in Alerts, i \in Issues : ~Names(k, b, i)
  BY <1>1 DEF Names
<1>11. Making'
  <2> SUFFICES ASSUME NEW s \in Alerters
               PROVE  /\ task'[s].n \notin queue.waiting \cup queue.saving
                      /\ \A u \in Alerters : task'[u].n = task'[s].n => u = s \/ task'[s].n = 0
                      /\ task'[s].pc \in {"set", "enqueue"} => task'[s].n \in 1..notifSeq
                      /\ task'[s].pc \notin {"set", "enqueue"} => task'[s].n = 0
                      /\ task'[s].pc = "set" => notif'[task'[s].n].issues = {}
    BY <1>5 DEF Making
  <2>1. CASE s = t
    BY <1>1, <1>2, <1>4, <2>1 DEF Making
  <2>2. CASE s # t
    <3>1. task'[s] = task[s] /\ (task[s].n = k => task[s].n = 0)
      BY <1>4, <2>2 DEF Making
    <3>2. \A u \in Alerters : task'[u].n = task'[s].n => u = s \/ task'[s].n = 0
      BY <1>7 DEF Making
    <3>3. task[s].pc = "set" => notif'[task[s].n] = notif[task[s].n]
      BY <1>1, <1>5, <3>1 DEF Making
    <3> QED
      BY <3>1, <3>2, <3>3 DEF Making
  <2> QED
    BY <2>1, <2>2
<1>12. ASSUME OneAlerter PROVE ListStaysNew'
  <2>1. ListNew(t)'
    BY <1>2, <1>4 DEF ListNew
  <2> QED
    BY <1>12, <2>1 DEF ListStaysNew, OneAlerter
<1>13. ASSUME OneAlerter PROVE OneNotification'
  <2> SUFFICES ASSUME NEW b \in Alerts, NEW i \in Issues, NEW m \in NotifIds, NEW n \in NotifIds,
                      Names(m, b, i)', Names(n, b, i)', n # k
               PROVE  m = n
    BY DEF OneNotification
  <2>1. Names(n, b, i)
    BY <1>9
  <2>2. m # k
    BY <1>1, <1>9, <1>13, <2>1 DEF ListStaysNew, ListNew
  <2> QED
    BY <1>9, <1>13, <2>1, <2>2 DEF OneNotification
<1>14. ASSUME OneAlerter PROVE Accounted'
  <2>1. ASSUME NEW b \in Alerts, NEW i \in Issues, Delivered(b, i) PROVE Delivered(b, i)'
    <3>1. PICK n \in NotifIds : Names(n, b, i) /\ ~Undelivered(n)
      BY <2>1 DEF Delivered
    <3>2. Names(n, b, i)' /\ ~Undelivered(n)'
      BY <1>5, <1>7, <1>9, <1>10, <3>1 DEF Undelivered
    <3> QED
      BY <3>2 DEF Delivered
  <2> QED
    BY <1>5, <1>14, <2>1, AccountsKept
<1> QED
  BY <1>6, <1>11, <1>12, <1>13, <1>14 DEF OneAlerter

\* The notification goes from its run to the queue.
LEMMA EnqueueStep ==
  ASSUME AlertsInv, NEW t \in Alerters, EnqueueSend(t)
  PROVE  AlertsInv'
<1> USE DEF AlertsInv
<1> DEFINE k == task[t].n
           r == [task[t] EXCEPT !.pc = "alert", !.cur = {}, !.list = {}, !.n = 0]
<1>1. task[t] \in Runs /\ k \in 1..notifSeq
  BY DEF EnqueueSend, AlertsTypeOK, Making
<1>2. r \in Runs /\ r.pc = "alert" /\ r.n = 0 /\ r.list = {}
  BY <1>1 DEF Runs, Stages
<1>3. task' = [task EXCEPT ![t] = r]
  BY DEF EnqueueSend, AlertsTypeOK
<1> HIDE DEF r
<1>4. task' \in [Alerters -> Runs] /\ task'[t] = r /\ \A s \in Alerters : s # t => task'[s] = task[s]
  BY <1>2, <1>3 DEF AlertsTypeOK
<1>5. /\ queue' \in [waiting : SUBSET (1..notifSeq), saving : SUBSET (1..notifSeq)]
      /\ queue'.waiting = queue.waiting \cup {k} /\ queue'.saving = queue.saving
      /\ UNCHANGED <<notifVars, told, dropped, ing, pendingAlerts>>
  BY <1>1 DEF EnqueueSend, Enqueued, AlertsTypeOK, toldVars
<1>6. AlertsTypeOK' /\ notifSeq' <= MaxNotifs
  BY <1>4, <1>5 DEF AlertsTypeOK, notifVars
<1>7. Making'
  <2> SUFFICES ASSUME NEW s \in Alerters
               PROVE  /\ task'[s].n \notin queue'.waiting \cup queue'.saving
                      /\ \A u \in Alerters : task'[u].n = task'[s].n => u = s \/ task'[s].n = 0
                      /\ task'[s].pc \in {"set", "enqueue"} => task'[s].n \in 1..notifSeq
                      /\ task'[s].pc \notin {"set", "enqueue"} => task'[s].n = 0
                      /\ task'[s].pc = "set" => notif[task'[s].n].issues = {}
    BY <1>5 DEF Making, notifVars
  <2>1. \A u \in Alerters : task'[u].n = IF u = t THEN 0 ELSE task[u].n
    BY <1>2, <1>4
  <2>2. \A u \in Alerters : task'[u].n = task'[s].n => u = s \/ task'[s].n = 0
    BY <2>1 DEF Making
  <2>3. CASE s = t
    <3>1. 0 \notin queue'.waiting \cup queue'.saving
      BY <1>5
    <3> QED
      BY <1>2, <1>4, <2>2, <2>3, <3>1
  <2>4. CASE s # t
    <3>1. task[s].n # k
      BY <1>1, <2>4 DEF Making
    <3> QED
      BY <1>4, <1>5, <2>2, <2>4, <3>1 DEF Making
  <2> QED
    BY <2>3, <2>4
<1>8. \A n, a, i : Names(n, a, i)' <=> Names(n, a, i)
  BY <1>5 DEF Names, notifVars
<1>9. ASSUME OneAlerter PROVE ListStaysNew'
  <2>1. ListNew(t)'
    BY <1>2, <1>4 DEF ListNew
  <2> QED
    BY <1>9, <2>1 DEF ListStaysNew, OneAlerter
<1>10. \A n \in NotifIds : Undelivered(n)' => Undelivered(n)
  <2> SUFFICES ASSUME NEW n \in NotifIds, Undelivered(n)', n # k PROVE Undelivered(n)
    BY DEF Undelivered
  <2>1. n # 0
    BY DEF NotifIds
  <2> QED
    BY <1>2, <1>4, <1>5, <2>1 DEF Undelivered
<1>11. ASSUME OneAlerter PROVE OneNotification' /\ Accounted'
  BY <1>5, <1>8, <1>10, <1>11, RowsKept
<1> QED
  BY <1>6, <1>7, <1>9, <1>11 DEF OneAlerter

\* A delivery: what the notification mentions was not delivered since the last
\* regression, and this notification will not be delivered again.
LEMMA DeliveryKeeps ==
  ASSUME AlertsInv, NEW n \in NotifIds, n \in queue.waiting, n \in live, told' = ToldAbout(n),
         queue' \in [waiting : {queue.waiting \ {n}}, saving : SUBSET (queue.saving \cup {n})],
         UNCHANGED <<notifVars, dropped, ing, task, pendingAlerts>>
  PROVE  AlertsInv'
<1> USE DEF AlertsInv
<1> DEFINE b == notif[n].alert
           S == notif[n].issues
           row == [i \in Issues |-> IF i \in S THEN told[b][i] + 1 ELSE told[b][i]]
<1>1. /\ n \in 1..notifSeq /\ b \in Alerts /\ S \subseteq Issues
      /\ n \in live /\ n \in queue.waiting
  BY DEF AlertsTypeOK
<1>2. told' = [told EXCEPT ![b] = row]
  BY <1>1 DEF ToldAbout, AlertsTypeOK
<1>3. /\ UNCHANGED <<notifVars, dropped, ing, task, pendingAlerts>>
      /\ queue' \in [waiting : SUBSET (1..notifSeq), saving : SUBSET (1..notifSeq)]
      /\ queue'.waiting = queue.waiting \ {n} /\ queue'.saving \subseteq queue.saving \cup {n}
  BY <1>1 DEF AlertsTypeOK
<1>4. row \in [Issues -> Nat]
  BY <1>1 DEF AlertsTypeOK
<1>5. told' \in [Alerts -> [Issues -> Nat]]
  BY <1>2, <1>4 DEF AlertsTypeOK
<1>6. \A a \in Alerts, i \in Issues :
        told'[a][i] = IF a = b /\ i \in S THEN told[a][i] + 1 ELSE told[a][i]
  BY <1>1, <1>2, <1>4 DEF AlertsTypeOK
<1> HIDE DEF row
<1>7. AlertsTypeOK' /\ notifSeq' <= MaxNotifs
  BY <1>1, <1>3, <1>5 DEF AlertsTypeOK, notifVars
<1>8. \A t \in Alerters : task[t].n # n
  BY <1>1 DEF Making
<1>9. Making'
  BY <1>3, <1>8 DEF Making, notifVars
<1>10. \A m, a, i : Names(m, a, i)' <=> Names(m, a, i)
  BY <1>3 DEF Names, notifVars
<1>11. ASSUME OneAlerter PROVE ListStaysNew' /\ OneNotification'
  BY <1>3, <1>10, <1>11 DEF ListStaysNew, ListNew, OneNotification, notifVars
<1>12. \A m : Undelivered(m)' <=> Undelivered(m) /\ m # n
  BY <1>3, <1>8 DEF Undelivered
<1>13. Undelivered(n)
  BY <1>1 DEF Undelivered
<1>14. ASSUME OneAlerter PROVE Accounted'
  <2> SUFFICES ASSUME NEW a \in Alerts, NEW i \in Issues
               PROVE  told'[a][i] <= dropped[a][i] + (IF Delivered(a, i)' THEN 1 ELSE 0)
    BY <1>3 DEF Accounted
  <2>1. /\ told[a][i] <= dropped[a][i] + (IF Delivered(a, i) THEN 1 ELSE 0)
        /\ told[a][i] \in Nat /\ dropped[a][i] \in Nat
    BY <1>14 DEF Accounted, AlertsTypeOK
  <2>2. Delivered(a, i) => Delivered(a, i)'
    BY <1>10, <1>12 DEF Delivered
  <2>3. CASE a = b /\ i \in S
    <3>1. Names(n, a, i)
      BY <1>1, <2>3 DEF Names
    <3>2. ~Delivered(a, i)
      BY <1>13, <1>14, <3>1 DEF Delivered, OneNotification
    <3>3. Delivered(a, i)'
      BY <1>10, <1>12, <3>1 DEF Delivered
    <3> QED
      BY <1>6, <2>1, <2>3, <3>2, <3>3
  <2>4. CASE ~(a = b /\ i \in S)
    BY <1>6, <2>1, <2>2, <2>4
  <2> QED
    BY <2>3, <2>4
<1> QED
  BY <1>7, <1>9, <1>11, <1>14 DEF OneAlerter

LEMMA DeliverStep == ASSUME AlertsInv, NEW n \in NotifIds, Deliver(n) PROVE AlertsInv'
<1>1. /\ n \in queue.waiting /\ n \in live /\ told' = ToldAbout(n)
      /\ queue' \in [waiting : {queue.waiting \ {n}}, saving : SUBSET (queue.saving \cup {n})]
      /\ UNCHANGED <<notifVars, dropped, ing, task, pendingAlerts>>
  BY DEF Deliver
<1> QED
  BY <1>1, DeliveryKeeps

\* A send task that goes without a delivery.
LEMMA QueueShrinks ==
  ASSUME AlertsInv, queue' \in [waiting : SUBSET queue.waiting, saving : SUBSET queue.saving],
         UNCHANGED <<notifVars, told, dropped, ing, task, pendingAlerts>>
  PROVE  AlertsInv'
<1> USE DEF AlertsInv
<1>1. /\ queue' \in [waiting : SUBSET (1..notifSeq), saving : SUBSET (1..notifSeq)]
      /\ queue'.waiting \subseteq queue.waiting /\ queue'.saving \subseteq queue.saving
      /\ UNCHANGED <<notifVars, told, dropped, ing, task, pendingAlerts>>
  BY DEF AlertsTypeOK
<1>2. AlertsTypeOK' /\ notifSeq' <= MaxNotifs /\ Making'
  BY <1>1 DEF AlertsTypeOK, Making, notifVars
<1>3. \A m, a, i : Names(m, a, i)' <=> Names(m, a, i)
  BY <1>1 DEF Names, notifVars
<1>4. ASSUME OneAlerter PROVE ListStaysNew'
  BY <1>1, <1>3, <1>4 DEF ListStaysNew, ListNew, notifVars
<1>5. \A m : Undelivered(m)' => Undelivered(m)
  BY <1>1 DEF Undelivered
<1>6. ASSUME OneAlerter PROVE OneNotification' /\ Accounted'
  BY <1>1, <1>3, <1>5, <1>6, RowsKept
<1> QED
  BY <1>2, <1>4, <1>6 DEF OneAlerter

\* The notification was deleted before its delivery, or its send task fails.
LEMMA GoneStep ==
  ASSUME AlertsInv, NEW n \in NotifIds, DeliverGone(n) \/ SendFails(n)
  PROVE  AlertsInv'
<1>1. CASE DeliverGone(n)
  <2>1. /\ queue' \in [waiting : SUBSET queue.waiting, saving : SUBSET queue.saving]
        /\ UNCHANGED <<notifVars, told, dropped, ing, task, pendingAlerts>>
    BY <1>1 DEF DeliverGone, AlertsInv, AlertsTypeOK, toldVars
  <2> QED
    BY <2>1, QueueShrinks
<1>2. CASE SendFails(n)
  <2>1. /\ queue' = [waiting |-> queue.waiting \ {n}, saving |-> queue.saving \ {n}]
        /\ UNCHANGED <<notifVars, dropped, ing, task, pendingAlerts>>
        /\ told' = told \/ (n \in queue.waiting /\ n \in live /\ told' = ToldAbout(n))
    BY <1>2 DEF SendFails
  <2>2. /\ queue' \in [waiting : SUBSET queue.waiting, saving : SUBSET queue.saving]
        /\ queue' \in [waiting : {queue.waiting \ {n}}, saving : SUBSET (queue.saving \cup {n})]
    BY <2>1
  <2> QED
    BY <2>1, <2>2, QueueShrinks, DeliveryKeeps
<1> QED
  BY <1>1, <1>2

\* A deleted notification that is saved again mentions nothing any more.
LEMMA SaveStep ==
  ASSUME AlertsInv, NEW n \in NotifIds, SaveSent(n)
  PROVE  AlertsInv'
<1> USE DEF AlertsInv
<1> DEFINE row == [notif[n] EXCEPT !.issues = IF n \in live THEN @ ELSE {}]
<1>1. n \in 1..notifSeq /\ notif[n] \in [alert : Alerts, issues : SUBSET Issues]
  BY DEF SaveSent, AlertsTypeOK
<1>2. /\ row \in [alert : Alerts, issues : SUBSET Issues] /\ row.alert = notif[n].alert
      /\ row.issues = IF n \in live THEN notif[n].issues ELSE {}
  BY <1>1
<1>3. notif' = [notif EXCEPT ![n] = row]
  BY <1>1 DEF SaveSent, AlertsTypeOK
<1> HIDE DEF row
<1>4. /\ notif' \in [1..notifSeq -> [alert : Alerts, issues : SUBSET Issues]]
      /\ \A m \in 1..notifSeq : notif'[m] = IF m = n THEN row ELSE notif[m]
  BY <1>1, <1>2, <1>3 DEF AlertsTypeOK
<1>5. /\ live' = live \cup {n}
      /\ queue' \in [waiting : SUBSET (1..notifSeq), saving : SUBSET (1..notifSeq)]
      /\ queue'.waiting = queue.waiting /\ queue'.saving = queue.saving \ {n}
      /\ UNCHANGED <<notifSeq, told, dropped, ing, task, pendingAlerts>>
  BY DEF SaveSent, AlertsTypeOK, toldVars
<1>6. AlertsTypeOK' /\ notifSeq' <= MaxNotifs
  BY <1>1, <1>4, <1>5 DEF AlertsTypeOK
<1>7. \A t \in Alerters : task[t].n # n
  BY DEF Making, SaveSent
<1>8. Making'
  <2> SUFFICES ASSUME NEW t \in Alerters, task[t].pc = "set"
               PROVE  notif'[task[t].n].issues = {}
    BY <1>5 DEF Making
  <2> QED
    BY <1>4, <1>7 DEF Making
<1>9. \A m, a, i : Names(m, a, i)' <=> Names(m, a, i)
  <2> SUFFICES ASSUME NEW m, NEW a, NEW i PROVE Names(m, a, i)' <=> Names(m, a, i)
    OBVIOUS
  <2>1. CASE m = n
    BY <1>1, <1>2, <1>4, <1>5, <2>1 DEF Names
  <2>2. CASE m # n
    <3>1. m \in live => m \in 1..notifSeq
      BY DEF AlertsTypeOK
    <3> QED
      BY <1>4, <1>5, <2>2, <3>1 DEF Names
  <2> QED
    BY <2>1, <2>2
<1>10. ASSUME OneAlerter PROVE ListStaysNew'
  <2> SUFFICES ASSUME NEW t \in Alerters PROVE ListNew(t)'
    BY DEF ListStaysNew
  <2>1. ListNew(t)
    BY <1>10 DEF ListStaysNew
  <2>2. task[t].pc = "set" => notif'[task[t].n].alert = notif[task[t].n].alert
    BY <1>4, <1>7 DEF Making
  <2> QED
    BY <1>5, <1>9, <2>1, <2>2 DEF ListNew
<1>11. \A m : Undelivered(m)' => Undelivered(m)
  BY <1>5 DEF Undelivered
<1>12. ASSUME OneAlerter PROVE OneNotification' /\ Accounted'
  BY <1>5, <1>9, <1>11, <1>12, RowsKept
<1> QED
  BY <1>6, <1>8, <1>10, <1>12 DEF OneAlerter
--------------------------------------------------------------------------------
\* A user who resolves an issue, or time that slides the window, keeps the invariant.
LEMMA UsersKeep ==
  ASSUME AlertsInv, NEW i \in Issues, Resolve(i) \/ Slide(i)
  PROVE  AlertsInv'
BY OthersKeep DEF Resolve, Slide, AlertsInv, AlertsTypeOK

\* So does every step.
LEMMA AlertsNextKeeps ==
  ASSUME AlertsInv, [AlertsNext]_alertVars
  PROVE  AlertsInv'
<1>1. ASSUME UNCHANGED alertVars PROVE AlertsInv'
  BY <1>1, OthersKeep DEF alertVars, toldVars, AlertsInv, AlertsTypeOK
<1>2. ASSUME NEW w \in Ingesters,
             (\E S \in SUBSET Issues : TakeArrivals(w, S)) \/ IngestStep(w)
      PROVE  AlertsInv'
  BY <1>2, IngestSteps, DropStep DEF IngestStep
<1>3. ASSUME NEW i \in Issues, Resolve(i) \/ Slide(i) PROVE AlertsInv'
  BY <1>3, UsersKeep
<1>4. ASSUME NEW t \in Alerters, BeginAlerts(t) \/ TaskStep(t) \/ CrashAlerts(t) PROVE AlertsInv'
  BY <1>4, TurnSteps, CheckStep, CreateStep, SetStep, EnqueueStep DEF TaskStep
<1>5. ASSUME SendStep PROVE AlertsInv'
  BY <1>5, DeliverStep, GoneStep, SaveStep DEF SendStep
<1>6. ASSUME NEW n \in NotifIds, SendFails(n) PROVE AlertsInv'
  BY <1>6, GoneStep
<1> QED
  BY <1>1, <1>2, <1>3, <1>4, <1>5, <1>6 DEF AlertsNext, Quiet

\* The inductive invariant: each notification has at most one maker and, with
\* one evaluation at a time, every regression told of is delivered or dropped.
THEOREM AlertsInvariant == AlertsSpec => []AlertsInv
<1>1. AlertsInit => AlertsInv
  <2> SUFFICES ASSUME AlertsInit PROVE AlertsInv
    OBVIOUS
  <2> USE AlertAssumption DEF AlertsInit
  <2>1. 1..0 = {} /\ notifSeq = 0 /\ 0 <= MaxNotifs
    OBVIOUS
  <2>2. notif \in [1..0 -> [alert : Alerts, issues : SUBSET Issues]]
    BY <2>1
  <2>3. IdleIngest \in Batches
    BY DEF IdleIngest, Batches
  <2>4. queue \in [waiting : SUBSET (1..0), saving : SUBSET (1..0)]
    BY <2>1
  <2>5. /\ told \in [Alerts -> [Issues -> Nat]] /\ dropped \in [Alerts -> [Issues -> Nat]]
        /\ \A a \in Alerts, i \in Issues : told[a][i] = 0 /\ dropped[a][i] = 0
    OBVIOUS
  <2>6. AlertsTypeOK
    BY <2>1, <2>2, <2>3, <2>4, <2>5, IdleRun DEF AlertsTypeOK
  <2>7. \A t \in Alerters : task[t] = IdleTask
    OBVIOUS
  <2>8. Making
    BY <2>7, IdleRun DEF Making
  <2>9. ListStaysNew
    BY <2>7, IdleRun DEF ListStaysNew, ListNew
  <2>10. OneNotification
    BY DEF OneNotification, Names
  <2>11. Accounted
    BY <2>5 DEF Accounted
  <2> QED
    BY <2>1, <2>6, <2>8, <2>9, <2>10, <2>11 DEF AlertsInv
<1>2. AlertsInv /\ [AlertsNext]_alertVars => AlertsInv'
  BY AlertsNextKeeps
<1> QED
  BY <1>1, <1>2, PTL DEF AlertsSpec

\* With one alert task at a time, whatever ingest, users, crashes and the send
\* tasks do in between, an alert tells about an issue once, and once more for
\* every notification about the issue that a regression deleted.
THEOREM AlertsToldOnce == AlertsSpec => []ToldOncePerRegression
<1>1. AlertsInv => ToldOncePerRegression
  <2> SUFFICES ASSUME AlertsInv, Cardinality(Alerters) = 1, NEW a \in Alerts, NEW i \in Issues
               PROVE  told[a][i] <= 1 + dropped[a][i]
    BY DEF ToldOncePerRegression
  <2>1. \E t : Alerters = {t}
    BY FS_Singleton, AlertAssumption
  <2>2. OneAlerter
    BY <2>1 DEF OneAlerter
  <2>3. told[a][i] <= dropped[a][i] + (IF Delivered(a, i) THEN 1 ELSE 0)
    BY <2>2 DEF AlertsInv, Accounted
  <2>4. told[a][i] \in Nat /\ dropped[a][i] \in Nat
    BY DEF AlertsInv, AlertsTypeOK
  <2> QED
    BY <2>3, <2>4
<1> QED
  BY <1>1, AlertsInvariant, PTL

(***************************************************************************)
(* Uptime monitors                                                         *)
(***************************************************************************)
Ups == {"none", "up", "down"}
Row == [kind : Kinds, thr : Thresholds, up : Ups, down : Nat, since : BOOLEAN]
Jobs == [op : {"free", "round", "beat", "edit"}, pending : SUBSET Monitors,
         got : UNION {[S -> Row] : S \in SUBSET Monitors},
         buffer : UNION {[S -> BOOLEAN] : S \in SUBSET Monitors},
         at : {"free", "probe", "update", "save", "notify"}]
History == [fails : Nat, told : Ups \cup {"muddled"}, sure : BOOLEAN, marked : Ups]
UptimeTypeOK ==
  /\ mon \in [Monitors -> Row \cup {Unborn, Gone}]
  /\ jobs \in [Slots -> Jobs]
  /\ hist \in [Monitors -> History]

\* A job's own columns: what it read were rows, and each is probed once.
JobOK(j) ==
  /\ jobs[j].op = "free" => jobs[j] = Free
  /\ jobs[j].pending \cup DOMAIN jobs[j].buffer \subseteq DOMAIN jobs[j].got
  /\ jobs[j].pending \cap DOMAIN jobs[j].buffer = {}
  /\ jobs[j].op # "round" => \A m, n \in DOMAIN jobs[j].got : m = n
  /\ \A m \in DOMAIN jobs[j].got :
       mon[m] # Unborn /\ (jobs[j].got[m].up # "none" => jobs[j].got[m].since)

\* The last notice is of the state in the row, but for a heartbeat's first.
Told(m, row) ==
  hist[m].told = row.up \/ (row.kind = HEARTBEAT /\ row.up = "up" /\ hist[m].told = "none")
\* What the history says of a monitor nobody is writing.
Settled(m) ==
  /\ hist[m].marked = mon[m].up /\ Told(m, mon[m])
  /\ mon[m].down <= hist[m].fails

\* How far a job that holds a monitor has come with it.
Result(j, m) == _next_state(jobs[j].got[m], jobs[j].buffer[m])
Unwritten(j, m) == jobs[j].got[m] = mon[m] /\ Settled(m)
ToSave(j, m) ==
  /\ hist[m].marked = Result(j, m).up /\ Result(j, m).down <= hist[m].fails
  /\ Told(m, jobs[j].got[m])
  /\ IF jobs[j].at = "update" THEN mon[m] = jobs[j].got[m]
     ELSE /\ mon[m].kind = jobs[j].got[m].kind
          /\ mon[m].up = Result(j, m).up /\ mon[m].down = Result(j, m).down
Beating(j, m) ==
  /\ jobs[j].got[m].kind = HEARTBEAT /\ hist[m].marked = "up" /\ Told(m, jobs[j].got[m])
  /\ jobs[j].at = "save" => mon[m] = jobs[j].got[m]
  /\ jobs[j].at = "notify" => mon[m].up = "up" /\ mon[m].down = 0
HolderOK(j, m) ==
  /\ jobs[j].op = "round" /\ (m \notin DOMAIN jobs[j].buffer \/ jobs[j].at = "probe") => Unwritten(j, m)
  /\ jobs[j].op = "round" /\ m \in DOMAIN jobs[j].buffer =>
       /\ jobs[j].buffer[m] => jobs[j].got[m].kind # HEARTBEAT
       /\ jobs[j].at # "probe" => ToSave(j, m)
  /\ jobs[j].op = "beat" => Beating(j, m)
  /\ jobs[j].op = "edit" => Unwritten(j, m)

\* A monitor whose history is clear is held by one job at most.
MonitorOK(m) ==
  /\ mon[m] = Unborn => hist[m] = Blank
  /\ m \in Rows /\ mon[m].up # "none" => mon[m].since
  /\ Clear(m) =>
       /\ hist[m].sure
       /\ \A j, k \in Slots : Holds(j, m) /\ Holds(k, m) => j = k
       /\ \A j \in Slots : Holds(j, m) => m \in Rows /\ HolderOK(j, m)
       /\ m \in Rows /\ ~Held(m) => Settled(m)

UptimeInv ==
  /\ UptimeTypeOK
  /\ \A j \in Slots : JobOK(j)
  /\ \A m \in Monitors : MonitorOK(m)
--------------------------------------------------------------------------------
\* The greatest threshold bounds them all.
LEMMA MaxThresholdIs == MaxThreshold \in Nat /\ \A t \in Thresholds : t <= MaxThreshold
<1>1. \E t \in Thresholds : \A u \in Thresholds : u <= t
  BY UptimeAssumption
<1>2. MaxThreshold \in Thresholds /\ \A t \in Thresholds : t <= MaxThreshold
  BY <1>1 DEF MaxThreshold
<1> QED
  BY <1>2, UptimeAssumption

\* What a result does to a row's columns.
Stepped(n, row, up) ==
  /\ n.up \in Ups /\ n.down \in Nat /\ n.is_change \in BOOLEAN
  /\ n.is_change => n.up = Word(up)
  /\ ~n.is_change => n.up = row.up
  /\ n.up # "none" => n.is_change \/ row.since
  /\ n.down <= row.down + 1 /\ n.down <= row.thr
  /\ up => n.up = "up" /\ n.down = 0
  /\ n.changed => n.up # row.up /\ n.up # "none" /\ (n.up = "down" => ~up /\ n.down >= row.thr)
  /\ ~n.changed => n.up = row.up

\* What _next_state does to a row: Stepped.
LEMMA NextState ==
  ASSUME NEW row \in Row, NEW up \in BOOLEAN, row.up # "none" => row.since
  PROVE  Stepped(_next_state(row, up), row, up)
<1>1. row.down \in Nat /\ row.thr \in Nat /\ row.up \in Ups /\ row.since \in BOOLEAN
  BY UptimeAssumption DEF Row
<1>2. PICK n : n = _next_state(row, up)
  OBVIOUS
<1> SUFFICES Stepped(n, row, up)
  BY <1>2
<1>3. CASE up
  <2>1. n.up = "up" /\ n.down = 0 /\ (n.changed <=> row.up # "up") /\ (n.is_change <=> row.up # "up" \/ ~row.since)
        /\ n.is_change \in BOOLEAN
    BY <1>2, <1>3 DEF _next_state
  <2>2. Word(up) = "up" /\ 0 <= row.down + 1 /\ 0 <= row.thr /\ "up" \in Ups /\ "up" # "down"
    BY <1>1, <1>3 DEF Word, Ups
  <2>3. n.up = Word(up) /\ (~n.changed => n.up = row.up) /\ (n.changed => n.up # row.up)
    BY <2>1, <2>2
  <2>4. ~n.is_change => n.up = row.up
    BY <2>1
  <2>5. n.up # "none" => n.is_change \/ row.since
    <3>1. CASE row.since
      BY <3>1
    <3>2. CASE ~row.since
      BY <2>1, <3>2
    <3> QED
      BY <3>1, <3>2
  <2>6. n.up \in Ups /\ n.down \in Nat /\ n.down <= row.down + 1 /\ n.down <= row.thr
    BY <1>1, <2>1, <2>2
  <2>7. n.up # "down" /\ n.is_change \in BOOLEAN
    BY <2>1
  <2> QED
    BY <1>3, <2>1, <2>3, <2>4, <2>5, <2>6, <2>7, Zenon DEF Stepped
<1>4. CASE ~up
  <2>1. PICK d : d = MinOf(row.down + 1, row.thr)
    OBVIOUS
  <2>2. PICK s : s = IF d >= row.thr THEN "down" ELSE row.up
    OBVIOUS
  <2>3. n.up = s /\ n.down = d /\ (n.changed <=> s # "none" /\ s # row.up)
        /\ (n.is_change <=> s # "none" /\ (s # row.up \/ ~row.since)) /\ n.is_change \in BOOLEAN
    BY <1>2, <1>4, <2>1, <2>2 DEF _next_state
  <2>4. d \in Nat /\ d <= row.down + 1 /\ d <= row.thr
    BY <1>1, <2>1 DEF MinOf
  <2>5. CASE d >= row.thr
    <3>1. s = "down"
      BY <2>2, <2>5
    <3> QED
      BY <1>1, <1>4, <2>3, <2>4, <2>5, <3>1 DEF Stepped, Word, Ups
  <2>6. CASE ~(d >= row.thr)
    <3>1. s = row.up
      BY <2>2, <2>6
    <3>2. ~n.changed /\ (n.is_change <=> s # "none" /\ ~row.since)
      BY <2>3, <3>1
    <3>3. ~n.is_change
      BY <3>1, <3>2
    <3> QED
      BY <1>1, <1>4, <2>3, <2>4, <2>6, <3>1, <3>2, <3>3 DEF Stepped, Word, Ups
  <2> QED
    BY <2>5, <2>6
<1> QED
  BY <1>3, <1>4

\* The columns of a job are what JobOK and HolderOK take them for.
LEMMA JobColumns ==
  ASSUME NEW x \in Jobs
  PROVE  /\ x.got \in [DOMAIN x.got -> Row] /\ DOMAIN x.got \subseteq Monitors
         /\ x.buffer \in [DOMAIN x.buffer -> BOOLEAN] /\ DOMAIN x.buffer \subseteq Monitors
         /\ x.pending \subseteq Monitors
<1>1. x.got \in UNION {[S -> Row] : S \in SUBSET Monitors}
  BY DEF Jobs
<1>2. x.buffer \in UNION {[S -> BOOLEAN] : S \in SUBSET Monitors}
  BY DEF Jobs
<1>3. x.pending \subseteq Monitors
  BY DEF Jobs
<1> QED
  BY <1>1, <1>2, <1>3

\* A row is neither of the marks.
LEMMA RowIsNoMark == ASSUME NEW r \in Row PROVE r # Unborn /\ r # Gone
BY UptimeAssumption DEF Row, Unborn, Gone

\* A round that has read nothing yet.
LEMMA EmptyColumns ==
  /\ <<>> \in UNION {[S -> Row] : S \in SUBSET Monitors}
  /\ <<>> \in UNION {[S -> BOOLEAN] : S \in SUBSET Monitors}
  /\ DOMAIN <<>> = {}
OBVIOUS

\* A free slot holds nothing,
LEMMA FreeJob == Free \in Jobs /\ DOMAIN Free.got = {} /\ DOMAIN Free.buffer = {} /\ Free.pending = {} /\ Free.op = "free"
<1>2. /\ Free.op = "free" /\ Free.pending = {} /\ Free.got = <<>> /\ Free.buffer = <<>> /\ Free.at = "free"
      /\ Free = [op |-> "free", pending |-> {}, got |-> <<>>, buffer |-> <<>>, at |-> "free"]
  BY DEF Free
<1>4. {} \in SUBSET Monitors
  OBVIOUS
<1>5. Free \in Jobs
  BY <1>2, <1>4, EmptyColumns DEF Jobs
<1> QED
  BY <1>2, <1>5, EmptyColumns

\* no monitor either.
LEMMA FreeHoldsNothing == ASSUME NEW j, jobs[j] = Free, NEW m PROVE ~Holds(j, m)
BY FreeJob DEF Holds

\* Of a monitor held after a step the job held it before, and has come no
\* further with it.
KeptHold(j, m) ==
  Holds(j, m)' =>
    /\ Holds(j, m) /\ jobs'[j].op = jobs[j].op /\ jobs'[j].got[m] = jobs[j].got[m]
    /\ m \in DOMAIN jobs'[j].buffer <=> m \in DOMAIN jobs[j].buffer
    /\ m \in DOMAIN jobs[j].buffer => jobs'[j].buffer[m] = jobs[j].buffer[m] /\ jobs'[j].at = jobs[j].at
    /\ jobs[j].op # "round" => jobs'[j].at = jobs[j].at

\* A job that stands still holds what it held.
LEMMA SameHold == ASSUME NEW j, NEW m, jobs'[j] = jobs[j] PROVE KeptHold(j, m) /\ Holds(j, m)' = Holds(j, m)
BY DEF KeptHold, Holds

\* A monitor whose row and history a step leaves alone.
LEMMA Untouched ==
  ASSUME NEW m \in Monitors, MonitorOK(m), mon'[m] = mon[m], hist'[m] = hist[m],
         \A j \in Slots : KeptHold(j, m),
         Clear(m) /\ Held(m) /\ ~Held(m)' => Settled(m)
  PROVE  MonitorOK(m)'
<1>1. /\ Clear(m)' <=> Clear(m)
      /\ m \in Rows' <=> m \in Rows
      /\ Settled(m)' <=> Settled(m)
      /\ \A r : Told(m, r)' <=> Told(m, r)
  BY DEF Clear, Rows, Settled, Told
<1>2. ASSUME NEW j \in Slots, Clear(m), Holds(j, m)' PROVE m \in Rows /\ HolderOK(j, m)'
  <2>1. /\ Holds(j, m) /\ jobs'[j].op = jobs[j].op /\ jobs'[j].got[m] = jobs[j].got[m]
        /\ m \in DOMAIN jobs'[j].buffer <=> m \in DOMAIN jobs[j].buffer
        /\ m \in DOMAIN jobs[j].buffer => jobs'[j].buffer[m] = jobs[j].buffer[m] /\ jobs'[j].at = jobs[j].at
        /\ jobs[j].op # "round" => jobs'[j].at = jobs[j].at
    BY <1>2 DEF KeptHold
  <2>2. m \in Rows /\ HolderOK(j, m)
    BY <1>2, <2>1 DEF MonitorOK
  <2>3. Unwritten(j, m)' <=> Unwritten(j, m)
    BY <1>1, <2>1 DEF Unwritten
  <2>4. jobs[j].op = "beat" => Beating(j, m)'
    BY <1>1, <2>1, <2>2 DEF Beating, HolderOK, Told
  <2>5. ASSUME m \in DOMAIN jobs[j].buffer PROVE ToSave(j, m)' <=> ToSave(j, m)
    BY <1>1, <2>1, <2>5 DEF ToSave, Result, Told
  <2> QED
    BY <2>1, <2>2, <2>3, <2>4, <2>5 DEF HolderOK
<1>3. ASSUME Clear(m), NEW j \in Slots, NEW k \in Slots, Holds(j, m)', Holds(k, m)' PROVE j = k
  BY <1>3 DEF MonitorOK, KeptHold
<1>4. ASSUME Clear(m), m \in Rows, ~Held(m)' PROVE Settled(m)
  BY <1>4 DEF MonitorOK
<1> QED
  BY <1>1, <1>2, <1>3, <1>4 DEF MonitorOK

\* A monitor whose history is no longer told.
LEMMA Untold ==
  ASSUME NEW m \in Monitors, MonitorOK(m), ~Clear(m)', mon'[m] # Unborn,
         m \in Rows' /\ mon'[m].up # "none" => mon'[m].since
  PROVE  MonitorOK(m)'
BY DEF MonitorOK

\* A step of one job.
LEMMA OneJob ==
  ASSUME UptimeInv, NEW j \in Slots, NEW x \in Jobs, jobs' = [jobs EXCEPT ![j] = x], JobOK(j)',
         \A m \in Monitors : mon[m] # Unborn => mon'[m] # Unborn
  PROVE  jobs' \in [Slots -> Jobs] /\ jobs'[j] = x /\ \A k \in Slots : JobOK(k)' /\ (k # j => jobs'[k] = jobs[k])
<1>1. jobs' \in [Slots -> Jobs] /\ jobs'[j] = x /\ \A k \in Slots : k # j => jobs'[k] = jobs[k]
  BY DEF UptimeInv, UptimeTypeOK
<1>2. ASSUME NEW k \in Slots, k # j PROVE JobOK(k)'
  <2>1. jobs'[k] = jobs[k] /\ JobOK(k) /\ jobs[k] \in Jobs
    BY <1>1, <1>2 DEF UptimeInv, UptimeTypeOK
  <2>2. DOMAIN jobs[k].got \subseteq Monitors
    BY <2>1, JobColumns
  <2> QED
    BY <2>1, <2>2 DEF JobOK
<1> QED
  BY <1>1, <1>2
\* What is known of a clear monitor and the job that holds it.
LEMMA HolderIs ==
  ASSUME UptimeInv, NEW m \in Monitors, NEW j \in Slots, Holds(j, m)
  PROVE  /\ mon[m] # Unborn /\ m \in DOMAIN jobs[j].got /\ jobs[j].got[m] \in Row
         /\ jobs[j].got[m].up # "none" => jobs[j].got[m].since
         /\ Clear(m) => /\ m \in Rows /\ mon[m] \in Row /\ HolderOK(j, m)
                        /\ \A k \in Slots : Holds(k, m) => k = j
<1>1. jobs[j] \in Jobs /\ JobOK(j) /\ MonitorOK(m) /\ mon[m] \in Row \cup {Unborn, Gone}
  BY DEF UptimeInv, UptimeTypeOK
<1>2. m \in DOMAIN jobs[j].got
  BY DEF Holds
<1>3. jobs[j].got[m] \in Row
  BY <1>1, <1>2, JobColumns
<1>4. m \in Rows => mon[m] \in Row
  BY <1>1 DEF Rows
<1> QED
  BY <1>1, <1>2, <1>3, <1>4 DEF JobOK, MonitorOK

\* A free worker takes rows nobody wrote since: those another job holds are
\* no longer told.
LEMMA Takes ==
  ASSUME UptimeInv, NEW j \in Slots, jobs[j] = Free, NEW ms \in SUBSET Rows,
         NEW op \in {"round", "edit"}, NEW at \in {"probe", "save"}, op = "edit" => \A m, n \in ms : m = n,
         jobs' = [jobs EXCEPT ![j] = Job(op, Read(ms), at)], hist' = Muddle(ms), UNCHANGED mon
  PROVE  UptimeInv'
<1>1. PICK x : x = Job(op, Read(ms), at)
  OBVIOUS
<1>2. ms \subseteq Monitors /\ \A m \in ms : mon[m] \in Row
  BY DEF Rows, UptimeInv, UptimeTypeOK
<1>3. Read(ms) \in [ms -> Row] /\ DOMAIN Read(ms) = ms /\ \A m \in ms : Read(ms)[m] = mon[m]
  BY <1>2 DEF Read
<1>4. x.op = op /\ x.pending = ms /\ x.got = Read(ms) /\ x.buffer = <<>> /\ x.at = at
      /\ x = [op |-> op, pending |-> ms, got |-> Read(ms), buffer |-> <<>>, at |-> at]
  BY <1>1, <1>3 DEF Job
<1>5. DOMAIN x.buffer = {}
  BY <1>4
<1>6. x \in Jobs
  <2>1. Read(ms) \in UNION {[S -> Row] : S \in SUBSET Monitors}
    BY <1>2, <1>3
  <2>2. <<>> \in UNION {[S -> BOOLEAN] : S \in SUBSET Monitors}
    BY EmptyColumns
  <2> QED
    BY <1>2, <1>4, <2>1, <2>2 DEF Jobs
<1>7. JobOK(j)'
  <2>1. jobs'[j] = x
    BY <1>1 DEF UptimeInv, UptimeTypeOK
  <2>2. \A m \in ms : mon[m] # Unborn /\ (mon[m].up # "none" => mon[m].since)
    <3>1. \A m \in ms : MonitorOK(m) /\ m \in Rows
      BY <1>2 DEF UptimeInv
    <3> QED
      BY <3>1 DEF MonitorOK, Rows
  <2> QED
    BY <1>3, <1>4, <1>5, <2>1, <2>2 DEF JobOK
<1>8. jobs' \in [Slots -> Jobs] /\ jobs'[j] = x /\ \A k \in Slots : JobOK(k)' /\ (k # j => jobs'[k] = jobs[k])
  BY <1>1, <1>6, <1>7, OneJob
<1>9. \A m \in Monitors : hist'[m] = IF m \in ms /\ Held(m) THEN Muddled ELSE hist[m]
  BY DEF Muddle
<1>10. UptimeTypeOK'
  <2>1. hist' \in [Monitors -> History]
    BY DEF Muddle, Muddled, Blank, UptimeInv, UptimeTypeOK, History, Ups
  <2> QED
    BY <1>8, <2>1 DEF UptimeInv, UptimeTypeOK
<1>11. ASSUME NEW m \in Monitors PROVE MonitorOK(m)'
  <2>0. MonitorOK(m)
    BY DEF UptimeInv
  <2>1. Holds(j, m)' <=> m \in ms
    BY <1>2, <1>3, <1>4, <1>5, <1>8 DEF Holds
  <2>2. ~Holds(j, m)
    BY FreeHoldsNothing
  <2>3. \A k \in Slots : k # j => KeptHold(k, m) /\ (Holds(k, m)' <=> Holds(k, m))
    BY <1>8, SameHold
  <2>4. CASE m \in ms /\ Held(m)
    <3>1. ~Clear(m)'
      BY <1>9, <2>4 DEF Clear
    <3>2. mon'[m] # Unborn /\ mon'[m] = mon[m]
      BY <2>4 DEF Rows
    <3> QED
      BY <2>0, <2>4, <3>1, <3>2 DEF MonitorOK, Rows
  <2>5. CASE m \in ms /\ ~Held(m)
    <3>1. hist'[m] = hist[m] /\ mon'[m] = mon[m] /\ m \in Rows /\ jobs'[j].got[m] = mon[m]
      BY <1>3, <1>4, <1>8, <1>9, <2>5
    <3>2. Clear(m) => hist[m].sure /\ Settled(m)
      BY <2>0, <2>5, <3>1 DEF MonitorOK
    <3>3. (Clear(m)' <=> Clear(m)) /\ (Settled(m)' <=> Settled(m)) /\ m \in Rows'
      BY <3>1 DEF Clear, Settled, Told, Rows
    <3>4. \A k \in Slots : Holds(k, m)' => k = j
      BY <2>3, <2>5 DEF Held
    <3>5. Clear(m) => HolderOK(j, m)'
      BY <1>4, <1>5, <1>8, <3>1, <3>2, <3>3 DEF HolderOK, Unwritten
    <3>6. Held(m)'
      BY <2>1, <2>5 DEF Held
    <3> QED
      BY <2>0, <3>1, <3>2, <3>3, <3>4, <3>5, <3>6 DEF MonitorOK
  <2>6. CASE m \notin ms
    <3>1. hist'[m] = hist[m] /\ mon'[m] = mon[m]
      BY <1>9, <2>6
    <3>2. \A k \in Slots : KeptHold(k, m)
      BY <2>1, <2>3, <2>6 DEF KeptHold
    <3>3. Held(m) => Held(m)'
      BY <2>2, <2>3 DEF Held
    <3> QED
      BY <2>0, <3>1, <3>2, <3>3, Untouched
  <2> QED
    BY <2>4, <2>5, <2>6
<1> QED
  BY <1>8, <1>10, <1>11 DEF UptimeInv

\* A round of checks reads its monitors.
LEMMA RoundsStart ==
  ASSUME UptimeInv, NEW j \in Slots, perform_checks(j)
  PROVE  UptimeInv'
<1>1. PICK ms : ms = Head(checkQueue) \cap Rows
  OBVIOUS
<1>2. ms \in SUBSET Rows
  BY <1>1
<1>3. jobs[j] = Free /\ hist' = Muddle(ms) /\ mon' = mon
      /\ jobs' = IF ms = {} THEN jobs ELSE [jobs EXCEPT ![j] = Job("round", Read(ms), "probe")]
  BY <1>1 DEF perform_checks
<1>4. CASE ms = {}
  <2>1. jobs' = jobs /\ mon' = mon /\ hist' = hist
    BY <1>3, <1>4 DEF Muddle, UptimeInv, UptimeTypeOK
  <2> QED
    BY <2>1 DEF UptimeInv, UptimeTypeOK, JobOK, MonitorOK, Clear, Holds, Held, Rows, HolderOK, Unwritten, ToSave,
                Beating, Result, Settled, Told
<1>5. CASE ms # {}
  BY <1>2, <1>3, <1>5, Takes
<1> QED
  BY <1>4, <1>5

\* An edit reads its monitor.
LEMMA EditsStart ==
  ASSUME UptimeInv, NEW j \in Slots, NEW m \in Monitors, update_monitor(j, m)
  PROVE  UptimeInv'
<1>1. {m} \in SUBSET Rows /\ \A a, b \in {m} : a = b
  BY DEF update_monitor
<1> QED
  BY <1>1, Takes DEF update_monitor

\* A probe's result is buffered, or nothing is left of it.
LEMMA Probes ==
  ASSUME UptimeInv, NEW j \in Slots, NEW m \in Monitors, run_checks(j, m)
  PROVE  UptimeInv'
<1>0. jobs[j] \in Jobs /\ JobOK(j) /\ jobs[j].op = "round" /\ jobs[j].at = "probe" /\ m \in jobs[j].pending
      /\ mon' = mon /\ hist' = hist
  BY DEF run_checks, UptimeInv, UptimeTypeOK
<1>1. PICK up \in fetch(m, jobs[j].got[m]) :
        LET drop == up /\ jobs[j].got[m].kind = HEARTBEAT
            rest == jobs[j].pending \ {m}
            kept == IF drop THEN jobs[j].buffer
                    ELSE [y \in DOMAIN jobs[j].buffer \cup {m} |-> IF y = m THEN up ELSE jobs[j].buffer[y]] IN
        jobs' = [jobs EXCEPT ![j] = IF rest = {} /\ DOMAIN kept = {} THEN Free
                                    ELSE [@ EXCEPT !.pending = rest, !.buffer = kept]]
  BY DEF run_checks
<1>2. up \in BOOLEAN
  BY DEF fetch
<1>3. PICK rest : rest = jobs[j].pending \ {m}
  OBVIOUS
<1>4. PICK kept : kept = IF up /\ jobs[j].got[m].kind = HEARTBEAT THEN jobs[j].buffer
                         ELSE [y \in DOMAIN jobs[j].buffer \cup {m} |-> IF y = m THEN up ELSE jobs[j].buffer[y]]
  OBVIOUS
<1>5. PICK x : x = IF rest = {} /\ DOMAIN kept = {} THEN Free
                   ELSE [jobs[j] EXCEPT !.pending = rest, !.buffer = kept]
  OBVIOUS
<1>6. jobs' = [jobs EXCEPT ![j] = x]
  BY <1>1, <1>3, <1>4, <1>5
<1>7. /\ jobs[j].buffer \in [DOMAIN jobs[j].buffer -> BOOLEAN] /\ DOMAIN jobs[j].buffer \subseteq Monitors
      /\ jobs[j].pending \subseteq Monitors /\ m \notin DOMAIN jobs[j].buffer
  BY <1>0, JobColumns DEF JobOK
<1>8. /\ kept \in [DOMAIN kept -> BOOLEAN] /\ DOMAIN kept \subseteq Monitors
      /\ DOMAIN jobs[j].buffer \subseteq DOMAIN kept /\ DOMAIN kept \subseteq DOMAIN jobs[j].buffer \cup {m}
      /\ \A y \in DOMAIN jobs[j].buffer : kept[y] = jobs[j].buffer[y]
      /\ m \in DOMAIN kept => kept[m] = up /\ ~(up /\ jobs[j].got[m].kind = HEARTBEAT)
  <2>1. CASE up /\ jobs[j].got[m].kind = HEARTBEAT
    BY <1>4, <1>7, <2>1
  <2>2. CASE ~(up /\ jobs[j].got[m].kind = HEARTBEAT)
    BY <1>2, <1>4, <1>7, <2>2
  <2> QED
    BY <2>1, <2>2
<1>9. x \in Jobs
  <2>1. kept \in UNION {[S -> BOOLEAN] : S \in SUBSET Monitors} /\ rest \in SUBSET Monitors
    BY <1>3, <1>7, <1>8
  <2> QED
    BY <1>0, <1>5, <2>1, FreeJob DEF Jobs
<1>10. CASE x = Free
  <2>1. rest = {} /\ DOMAIN kept = {}
    BY <1>0, <1>5, <1>10, FreeJob DEF Jobs
  <2>2. JobOK(j)'
    BY <1>6, <1>10, FreeJob DEF JobOK, UptimeInv, UptimeTypeOK
  <2>3. jobs' \in [Slots -> Jobs] /\ jobs'[j] = Free /\ \A k \in Slots : JobOK(k)' /\ (k # j => jobs'[k] = jobs[k])
    BY <1>0, <1>6, <1>9, <1>10, <2>2, OneJob
  <2>4. ASSUME NEW n \in Monitors PROVE MonitorOK(n)'
    <3>1. \A k \in Slots : k # j => KeptHold(k, n) /\ (Holds(k, n)' <=> Holds(k, n))
      BY <2>3, SameHold
    <3>2. ~Holds(j, n)' /\ KeptHold(j, n)
      BY <2>3, FreeJob DEF Holds, KeptHold
    <3>3. Holds(j, n) => n = m
      BY <1>0, <1>3, <1>8, <2>1 DEF Holds
    <3>4. Clear(n) /\ Held(n) /\ ~Held(n)' => Settled(n)
      <4>1. ASSUME Clear(n), Held(n), ~Held(n)' PROVE Holds(j, n)
        BY <3>1, <4>1 DEF Held
      <4>2. ASSUME Clear(n), Holds(j, n) PROVE Settled(n)
        BY <1>0, <4>2, HolderIs DEF HolderOK, Unwritten
      <4> QED
        BY <4>1, <4>2
    <3> QED
      BY <1>0, <3>1, <3>2, <3>4, Untouched DEF UptimeInv
  <2> QED
    BY <1>0, <2>3, <2>4 DEF UptimeInv, UptimeTypeOK
<1>11. CASE x = [jobs[j] EXCEPT !.pending = rest, !.buffer = kept]
  <2>1. x.op = "round" /\ x.at = "probe" /\ x.got = jobs[j].got /\ x.pending = rest /\ x.buffer = kept
    BY <1>0, <1>11 DEF Jobs
  <2>2. JobOK(j)'
    <3>1. jobs'[j] = x
      BY <1>6 DEF UptimeInv, UptimeTypeOK
    <3>2. rest \cup DOMAIN kept \subseteq DOMAIN x.got /\ rest \cap DOMAIN kept = {}
      BY <1>0, <1>3, <1>7, <1>8, <2>1 DEF JobOK
    <3> QED
      BY <1>0, <2>1, <3>1, <3>2 DEF JobOK
  <2>3. jobs' \in [Slots -> Jobs] /\ jobs'[j] = x /\ \A k \in Slots : JobOK(k)' /\ (k # j => jobs'[k] = jobs[k])
    BY <1>0, <1>6, <1>9, <2>2, OneJob
  <2>4. ASSUME NEW n \in Monitors PROVE MonitorOK(n)'
    <3>0. MonitorOK(n) /\ MonitorOK(m)
      BY DEF UptimeInv
    <3>1. \A k \in Slots : k # j => KeptHold(k, n) /\ (Holds(k, n)' <=> Holds(k, n))
      BY <2>3, SameHold
    <3>2. CASE n # m
      <4>1. (Holds(j, n)' <=> Holds(j, n)) /\ KeptHold(j, n)
        BY <1>0, <1>3, <1>8, <2>1, <2>3, <3>2 DEF Holds, KeptHold
      <4>2. \A k \in Slots : KeptHold(k, n) /\ (Holds(k, n)' <=> Holds(k, n))
        BY <3>1, <4>1
      <4>3. Held(n)' <=> Held(n)
        BY <4>2 DEF Held
      <4> QED
        BY <1>0, <3>0, <4>2, <4>3, Untouched
    <3>3. CASE n = m
      <4>1. Holds(j, m)
        BY <1>0 DEF Holds, JobOK
      <4>2. ASSUME Clear(m) PROVE Unwritten(j, m) /\ m \in Rows /\ hist[m].sure /\ \A k \in Slots : Holds(k, m) => k = j
        BY <1>0, <3>0, <4>1, <4>2, HolderIs DEF HolderOK, MonitorOK
      <4>3. /\ Clear(m)' <=> Clear(m)
            /\ m \in Rows' <=> m \in Rows
            /\ Settled(m)' <=> Settled(m)
            /\ Unwritten(j, m) => Unwritten(j, m)'
        BY <1>0, <2>1, <2>3 DEF Clear, Rows, Settled, Told, Unwritten
      <4>4. Unwritten(j, m) => HolderOK(j, m)'
        BY <1>8, <2>1, <2>3, <4>3 DEF HolderOK
      <4>5. Clear(m) => \A k \in Slots : Holds(k, m)' => k = j
        BY <3>1, <3>3, <4>2
      <4>6. Unwritten(j, m) => Settled(m)
        BY DEF Unwritten
      <4> QED
        BY <1>0, <3>0, <3>3, <4>2, <4>3, <4>4, <4>5, <4>6 DEF MonitorOK
    <3> QED
      BY <3>2, <3>3
  <2> QED
    BY <1>0, <2>3, <2>4 DEF UptimeInv, UptimeTypeOK
<1> QED
  BY <1>5, <1>10, <1>11
--------------------------------------------------------------------------------
(***************************************************************************)
(* A batch of results is saved: the checks, the monitors, the notices      *)
(***************************************************************************)
\* The job's state moves on, or the job ends; what it read stays.
LEMMA JobMovesOn ==
  ASSUME UptimeInv, NEW j \in Slots, NEW at \in {"probe", "update", "save", "notify"}, jobs[j].op # "free"
  PROVE  LET x == [jobs[j] EXCEPT !.at = at] IN
         x \in Jobs /\ x.at = at /\ x.op = jobs[j].op /\ x.got = jobs[j].got /\ x.buffer = jobs[j].buffer
         /\ x.pending = jobs[j].pending
<1>1. jobs[j] \in Jobs
  BY DEF UptimeInv, UptimeTypeOK
<1> QED
  BY <1>1 DEF Jobs

\* The job of a monitor ends with the monitor settled, or no longer told.
LEMMA JobEnds ==
  ASSUME UptimeInv, NEW j \in Slots, jobs' = [jobs EXCEPT ![j] = Free],
         \A m \in Monitors : mon[m] # Unborn => mon'[m] # Unborn,
         UptimeTypeOK',
         \A m \in Monitors : Holds(j, m) =>
           (m \in Rows' /\ mon'[m].up # "none" => mon'[m].since)
             /\ (Clear(m)' => Clear(m) /\ Settled(m)' /\ hist'[m].sure),
         \A m \in Monitors : ~Holds(j, m) => mon'[m] = mon[m] /\ hist'[m] = hist[m]
  PROVE  UptimeInv'
<1>1. JobOK(j)'
  <2>1. jobs'[j] = Free
    BY DEF UptimeInv, UptimeTypeOK
  <2> QED
    BY <2>1, FreeJob DEF JobOK
<1>2. jobs' \in [Slots -> Jobs] /\ jobs'[j] = Free /\ \A k \in Slots : JobOK(k)' /\ (k # j => jobs'[k] = jobs[k])
  BY <1>1, OneJob, FreeJob
<1>3. ASSUME NEW m \in Monitors PROVE MonitorOK(m)'
  <2>0. MonitorOK(m)
    BY DEF UptimeInv
  <2>1. \A k \in Slots : k # j => KeptHold(k, m) /\ (Holds(k, m)' <=> Holds(k, m))
    BY <1>2, SameHold
  <2>2. ~Holds(j, m)' /\ KeptHold(j, m)
    BY <1>2, FreeJob DEF Holds, KeptHold
  <2>3. CASE Holds(j, m)
    <3>1. mon[m] # Unborn /\ mon'[m] # Unborn
      BY <2>3, HolderIs
    <3>2. ASSUME Clear(m)' PROVE ~\E k \in Slots : Holds(k, m)'
      BY <2>1, <2>2, <2>3, <3>2, HolderIs
    <3> QED
      BY <2>3, <3>1, <3>2 DEF MonitorOK
  <2>4. CASE ~Holds(j, m)
    <3>1. \A k \in Slots : KeptHold(k, m)
      BY <2>1, <2>2
    <3>2. Held(m) => Held(m)'
      BY <2>1, <2>4 DEF Held
    <3> QED
      BY <2>0, <2>4, <3>1, <3>2, Untouched
  <2> QED
    BY <2>3, <2>4
<1> QED
  BY <1>2, <1>3 DEF UptimeInv

\* A round saves its checks,
LEMMA ChecksSaved ==
  ASSUME UptimeInv, NEW j \in Slots, SaveChecks(j)
  PROVE  UptimeInv'
<1>0. /\ jobs[j] \in Jobs /\ JobOK(j) /\ jobs[j].op = "round" /\ jobs[j].at = "probe" /\ mon' = mon
      /\ mon \in [Monitors -> Row \cup {Unborn, Gone}] /\ hist \in [Monitors -> History]
  BY DEF SaveChecks, UptimeInv, UptimeTypeOK
<1>1. PICK buf : buf = jobs[j].buffer
  OBVIOUS
<1>2. CASE ~(DOMAIN buf \subseteq Rows)
  <2>1. jobs' = [jobs EXCEPT ![j] = Free] /\ hist' = hist
    BY <1>1, <1>2 DEF SaveChecks
  <2>2. UptimeTypeOK'
    BY <1>0, <2>1, FreeJob DEF UptimeInv, UptimeTypeOK
  <2>3. ASSUME NEW m \in Monitors, Holds(j, m)
        PROVE  (m \in Rows' /\ mon'[m].up # "none" => mon'[m].since)
               /\ (Clear(m)' => Clear(m) /\ Settled(m)' /\ hist'[m].sure)
    <3>1. MonitorOK(m)
      BY DEF UptimeInv
    <3>2. Clear(m) => Settled(m)
      BY <1>0, <2>3, HolderIs DEF HolderOK, Unwritten
    <3> QED
      BY <1>0, <2>1, <3>1, <3>2 DEF MonitorOK, Rows, Clear, Settled, Told
  <2> QED
    BY <1>0, <2>1, <2>2, <2>3, JobEnds
<1>3. CASE DOMAIN buf \subseteq Rows
  <2>1. PICK x : x = [jobs[j] EXCEPT !.at = "update"]
    OBVIOUS
  <2>2. /\ jobs' = [jobs EXCEPT ![j] = x]
        /\ hist' = [m \in Monitors |->
             IF m \notin DOMAIN buf \/ ~Clear(m) THEN hist[m]
             ELSE [hist[m] EXCEPT !.fails = IF buf[m] THEN 0 ELSE MinOf(@ + 1, MaxThreshold),
                                  !.marked = IF Result(j, m).is_change THEN Word(buf[m]) ELSE @]]
    BY <1>1, <1>3, <2>1 DEF SaveChecks, Result
  <2>3. x \in Jobs /\ x.at = "update" /\ x.op = "round" /\ x.got = jobs[j].got /\ x.buffer = buf /\ x.pending = jobs[j].pending
    BY <1>0, <1>1, <2>1, JobMovesOn
  <2>4. JobOK(j)'
    <3>1. jobs'[j] = x
      BY <2>2 DEF UptimeInv, UptimeTypeOK
    <3> QED
      BY <1>0, <1>1, <2>3, <3>1 DEF JobOK
  <2>5. jobs' \in [Slots -> Jobs] /\ jobs'[j] = x /\ \A k \in Slots : JobOK(k)' /\ (k # j => jobs'[k] = jobs[k])
    BY <1>0, <2>2, <2>3, <2>4, OneJob
  <2>6. ASSUME NEW m \in Monitors, m \in DOMAIN buf, Clear(m)
        PROVE  /\ Holds(j, m) /\ Unwritten(j, m) /\ m \in Rows /\ (buf[m] => jobs[j].got[m].kind # HEARTBEAT)
               /\ hist'[m].fails \in Nat /\ hist'[m].marked \in Ups
               /\ hist'[m].told = hist[m].told /\ hist'[m].sure = hist[m].sure
               /\ hist'[m].marked = Result(j, m).up /\ Result(j, m).down <= hist'[m].fails
    <3>1. Holds(j, m)
      BY <1>0, <1>1, <2>6 DEF Holds, JobOK
    <3>2. /\ Unwritten(j, m) /\ m \in Rows /\ (buf[m] => jobs[j].got[m].kind # HEARTBEAT)
          /\ jobs[j].got[m] \in Row /\ (jobs[j].got[m].up # "none" => jobs[j].got[m].since)
      BY <1>0, <1>1, <2>6, <3>1, HolderIs DEF HolderOK
    <3>3. buf[m] \in BOOLEAN
      BY <1>0, <1>1, <2>6, JobColumns
    <3>4. Stepped(Result(j, m), jobs[j].got[m], buf[m])
      BY <1>1, <3>2, <3>3, NextState DEF Result
    <3>5. /\ hist'[m].fails = IF buf[m] THEN 0 ELSE MinOf(hist[m].fails + 1, MaxThreshold)
          /\ hist'[m].marked = IF Result(j, m).is_change THEN Word(buf[m]) ELSE hist[m].marked
          /\ hist'[m].told = hist[m].told /\ hist'[m].sure = hist[m].sure
      BY <1>0, <2>2, <2>6 DEF History
    <3>6. hist[m].fails \in Nat /\ hist[m].marked = jobs[j].got[m].up /\ jobs[j].got[m].down <= hist[m].fails
          /\ jobs[j].got[m].down \in Nat /\ jobs[j].got[m].thr \in Thresholds
      BY <1>0, <3>2 DEF Unwritten, Settled, History, Row
    <3>7. hist'[m].marked = Result(j, m).up /\ Result(j, m).up \in Ups
      BY <3>4, <3>5, <3>6 DEF Stepped
    <3>8. hist'[m].fails \in Nat /\ Result(j, m).down <= hist'[m].fails
      <4>1. Result(j, m).down \in Nat /\ Result(j, m).down <= jobs[j].got[m].down + 1
            /\ Result(j, m).down <= jobs[j].got[m].thr /\ (buf[m] => Result(j, m).down = 0)
        BY <3>4 DEF Stepped
      <4>2. MaxThreshold \in Nat /\ jobs[j].got[m].thr <= MaxThreshold /\ jobs[j].got[m].thr \in Nat
        BY <3>6, MaxThresholdIs, UptimeAssumption
      <4>3. CASE buf[m]
        BY <3>5, <4>1, <4>3
      <4>4. CASE ~buf[m]
        <5>1. hist'[m].fails = MinOf(hist[m].fails + 1, MaxThreshold)
          BY <3>5, <4>4
        <5> QED
          BY <3>6, <4>1, <4>2, <5>1 DEF MinOf
      <4> QED
        BY <4>3, <4>4
    <3> QED
      BY <3>1, <3>2, <3>5, <3>7, <3>8
  <2>7. UptimeTypeOK'
    <3>1. ASSUME NEW m \in Monitors PROVE hist'[m] \in History
      <4>1. CASE m \notin DOMAIN buf \/ ~Clear(m)
        BY <1>0, <2>2, <4>1
      <4>2. CASE m \in DOMAIN buf /\ Clear(m)
        <5>1. PICK f, g : hist'[m] = [hist[m] EXCEPT !.fails = f, !.marked = g]
          BY <2>2, <4>2
        <5>2. hist'[m] = [hist[m] EXCEPT !.fails = hist'[m].fails, !.marked = hist'[m].marked]
          BY <1>0, <5>1 DEF History
        <5> QED
          BY <1>0, <2>6, <4>2, <5>2 DEF History
      <4> QED
        BY <4>1, <4>2
    <3>2. hist' \in [Monitors -> History]
      BY <2>2, <3>1
    <3> QED
      BY <1>0, <2>5, <3>2 DEF UptimeInv, UptimeTypeOK
  <2>8. ASSUME NEW m \in Monitors PROVE MonitorOK(m)'
    <3>0. MonitorOK(m)
      BY DEF UptimeInv
    <3>1. \A k \in Slots : k # j => KeptHold(k, m) /\ (Holds(k, m)' <=> Holds(k, m))
      BY <2>5, SameHold
    <3>2. Holds(j, m)' <=> Holds(j, m)
      BY <1>0, <1>1, <2>3, <2>5 DEF Holds
    <3>3. Held(m)' <=> Held(m)
      BY <3>1, <3>2 DEF Held
    <3>4. CASE m \notin DOMAIN buf
      <4>1. hist'[m] = hist[m] /\ KeptHold(j, m)
        BY <1>0, <1>1, <2>2, <2>3, <2>5, <3>2, <3>4 DEF KeptHold
      <4> QED
        BY <1>0, <3>0, <3>1, <3>3, <4>1, Untouched
    <3>5. CASE m \in DOMAIN buf /\ ~Clear(m)
      <4>1. hist'[m] = hist[m] /\ ~Clear(m)'
        BY <2>2, <3>5 DEF Clear
      <4> QED
        BY <1>0, <3>0, <4>1 DEF MonitorOK, Rows
    <3>6. CASE m \in DOMAIN buf /\ Clear(m)
      <4>1. /\ Holds(j, m) /\ Unwritten(j, m) /\ m \in Rows /\ (buf[m] => jobs[j].got[m].kind # HEARTBEAT)
            /\ hist'[m].told = hist[m].told /\ hist'[m].sure = hist[m].sure
            /\ hist'[m].marked = Result(j, m).up /\ Result(j, m).down <= hist'[m].fails
        BY <2>6, <3>6
      <4>2. Result(j, m)' = Result(j, m)
        BY <1>1, <2>3, <2>5 DEF Result
      <4>3. ToSave(j, m)'
        BY <1>0, <2>3, <2>5, <4>1, <4>2 DEF ToSave, Unwritten, Settled, Told
      <4>4. HolderOK(j, m)'
        BY <1>1, <2>3, <2>5, <3>6, <4>1, <4>3 DEF HolderOK
      <4>5. \A k \in Slots : Holds(k, m)' => k = j
        BY <3>1, <3>2, <3>6, <4>1, HolderIs
      <4>6. m \in Rows' /\ Held(m)' /\ mon'[m] # Unborn
        BY <1>0, <3>3, <4>1 DEF Rows, Held
      <4> QED
        BY <1>0, <3>0, <3>6, <4>1, <4>4, <4>5, <4>6 DEF MonitorOK
    <3> QED
      BY <3>4, <3>5, <3>6
  <2> QED
    BY <2>5, <2>7, <2>8 DEF UptimeInv
<1> QED
  BY <1>2, <1>3
\* then the monitors,
LEMMA MonitorsUpdated ==
  ASSUME UptimeInv, NEW j \in Slots, UpdateMonitors(j)
  PROVE  UptimeInv'
<1>0. /\ jobs[j] \in Jobs /\ JobOK(j) /\ jobs[j].op = "round" /\ jobs[j].at = "update" /\ hist' = hist
      /\ mon \in [Monitors -> Row \cup {Unborn, Gone}] /\ hist \in [Monitors -> History]
  BY DEF UpdateMonitors, UptimeInv, UptimeTypeOK
<1>1. PICK buf : buf = jobs[j].buffer
  OBVIOUS
<1>2. PICK x : x = [jobs[j] EXCEPT !.at = "notify"]
  OBVIOUS
<1>3. /\ jobs' = [jobs EXCEPT ![j] = x]
      /\ mon' = [m \in Monitors |->
                   IF m \in DOMAIN buf \cap Rows
                   THEN [mon[m] EXCEPT !.up = Result(j, m).up, !.down = Result(j, m).down,
                                       !.since = Result(j, m).is_change \/ jobs[j].got[m].since]
                   ELSE mon[m]]
  BY <1>1, <1>2 DEF UpdateMonitors, Result
<1>4. x \in Jobs /\ x.at = "notify" /\ x.op = "round" /\ x.got = jobs[j].got /\ x.buffer = buf /\ x.pending = jobs[j].pending
  BY <1>0, <1>1, <1>2, JobMovesOn
<1>5. ASSUME NEW m \in Monitors, m \in DOMAIN buf
      PROVE  /\ Holds(j, m) /\ jobs[j].got[m] \in Row /\ (jobs[j].got[m].up # "none" => jobs[j].got[m].since)
             /\ Stepped(Result(j, m), jobs[j].got[m], buf[m])
  <2>1. Holds(j, m)
    BY <1>0, <1>1, <1>5 DEF Holds, JobOK
  <2>2. buf[m] \in BOOLEAN
    BY <1>0, <1>1, <1>5, JobColumns
  <2>3. jobs[j].got[m] \in Row /\ (jobs[j].got[m].up # "none" => jobs[j].got[m].since)
    BY <2>1, HolderIs
  <2> QED
    BY <1>1, <2>1, <2>2, <2>3, NextState DEF Result
<1>6. ASSUME NEW m \in Monitors, m \in DOMAIN buf \cap Rows
      PROVE  /\ mon'[m] \in Row /\ mon'[m].kind = mon[m].kind /\ mon'[m].up = Result(j, m).up
             /\ mon'[m].down = Result(j, m).down /\ (mon'[m].up # "none" => mon'[m].since)
  <2>1. mon[m] \in Row
    BY <1>0, <1>6 DEF Rows
  <2>2. PICK u, d, s : u = Result(j, m).up /\ d = Result(j, m).down
                       /\ s = (Result(j, m).is_change \/ jobs[j].got[m].since)
    OBVIOUS
  <2>3. u \in Ups /\ d \in Nat /\ s \in BOOLEAN /\ (u # "none" => s)
    BY <1>5, <1>6, <2>2 DEF Stepped
  <2>4. mon'[m] = [mon[m] EXCEPT !.up = u, !.down = d, !.since = s]
    BY <1>3, <1>6, <2>2
  <2>5. mon'[m].kind = mon[m].kind /\ mon'[m].up = u /\ mon'[m].down = d /\ mon'[m].since = s /\ mon'[m] \in Row
    BY <2>1, <2>3, <2>4 DEF Row
  <2> QED
    BY <2>2, <2>3, <2>5
<1>7. \A m \in Monitors : m \notin DOMAIN buf \cap Rows => mon'[m] = mon[m]
  BY <1>3
<1>8. /\ \A m \in Monitors : (mon[m] # Unborn => mon'[m] # Unborn) /\ (m \in Rows' <=> m \in Rows)
      /\ mon' \in [Monitors -> Row \cup {Unborn, Gone}]
  <2>1. \A m \in Monitors : m \in DOMAIN buf \cap Rows => mon'[m] # Unborn /\ mon'[m] # Gone
    BY <1>6, RowIsNoMark
  <2>2. mon' \in [Monitors -> Row \cup {Unborn, Gone}]
    BY <1>0, <1>3, <1>6, <1>7
  <2> QED
    BY <1>7, <2>1, <2>2 DEF Rows
<1>9. JobOK(j)'
  <2>1. jobs'[j] = x
    BY <1>3 DEF UptimeInv, UptimeTypeOK
  <2>2. \A m \in DOMAIN jobs[j].got : m \in Monitors
    BY <1>0, JobColumns
  <2> QED
    BY <1>0, <1>1, <1>4, <1>8, <2>1, <2>2 DEF JobOK
<1>10. jobs' \in [Slots -> Jobs] /\ jobs'[j] = x /\ \A k \in Slots : JobOK(k)' /\ (k # j => jobs'[k] = jobs[k])
  BY <1>0, <1>3, <1>4, <1>8, <1>9, OneJob
<1>11. ASSUME NEW m \in Monitors PROVE MonitorOK(m)'
  <2>0. MonitorOK(m)
    BY DEF UptimeInv
  <2>1. \A k \in Slots : k # j => KeptHold(k, m) /\ (Holds(k, m)' <=> Holds(k, m))
    BY <1>10, SameHold
  <2>2. Holds(j, m)' <=> Holds(j, m)
    BY <1>0, <1>1, <1>4, <1>10 DEF Holds
  <2>3. Held(m)' <=> Held(m)
    BY <2>1, <2>2 DEF Held
  <2>4. CASE m \notin DOMAIN buf
    <3>1. mon'[m] = mon[m] /\ KeptHold(j, m)
      BY <1>0, <1>1, <1>4, <1>7, <1>10, <2>2, <2>4 DEF KeptHold
    <3> QED
      BY <1>0, <2>0, <2>1, <2>3, <3>1, Untouched
  <2>5. CASE m \in DOMAIN buf /\ ~Clear(m)
    <3>1. m \in Rows' /\ mon'[m].up # "none" => mon'[m].since
      BY <1>6, <1>7, <1>8, <2>0, <2>5 DEF MonitorOK
    <3>2. mon'[m] # Unborn
      BY <1>5, <1>8, <2>5, HolderIs
    <3>3. ~Clear(m)'
      BY <1>0, <2>5 DEF Clear
    <3> QED
      BY <3>1, <3>2, <3>3 DEF MonitorOK
  <2>6. CASE m \in DOMAIN buf /\ Clear(m)
    <3>1. /\ Holds(j, m) /\ m \in Rows /\ (buf[m] => jobs[j].got[m].kind # HEARTBEAT) /\ ToSave(j, m)
          /\ \A k \in Slots : Holds(k, m) => k = j
      BY <1>0, <1>1, <1>5, <2>6, HolderIs DEF HolderOK
    <3>2. Result(j, m)' = Result(j, m)
      BY <1>1, <1>4, <1>10 DEF Result
    <3>3. ToSave(j, m)'
      BY <1>0, <1>4, <1>6, <1>10, <2>6, <3>1, <3>2 DEF ToSave, Told
    <3>4. HolderOK(j, m)'
      BY <1>4, <1>10, <2>6, <3>1, <3>3 DEF HolderOK
    <3>5. \A k \in Slots : Holds(k, m)' => k = j
      BY <2>1, <3>1
    <3>6. m \in Rows' /\ Held(m)' /\ mon'[m] # Unborn /\ (mon'[m].up # "none" => mon'[m].since)
      BY <1>6, <1>8, <2>3, <2>6, <3>1 DEF Rows, Held
    <3>7. hist'[m].sure
      BY <1>0, <2>0, <2>6 DEF MonitorOK
    <3> QED
      BY <3>4, <3>5, <3>6, <3>7 DEF MonitorOK
  <2> QED
    BY <2>4, <2>5, <2>6
<1> QED
  BY <1>0, <1>8, <1>10, <1>11 DEF UptimeInv, UptimeTypeOK

\* then enqueues its notices.
LEMMA NoticesSent ==
  ASSUME UptimeInv, NEW j \in Slots, Notify(j)
  PROVE  UptimeInv'
<1>0. /\ jobs[j] \in Jobs /\ JobOK(j) /\ jobs[j].op = "round" /\ jobs[j].at = "notify" /\ mon' = mon
      /\ mon \in [Monitors -> Row \cup {Unborn, Gone}] /\ hist \in [Monitors -> History]
  BY DEF Notify, UptimeInv, UptimeTypeOK
<1>1. PICK buf : buf = jobs[j].buffer
  OBVIOUS
<1>2. hist' = [m \in Monitors |->
        IF m \in DOMAIN buf /\ Clear(m) /\ Result(j, m).changed
        THEN [hist[m] EXCEPT !.told = Result(j, m).up,
                             !.sure = Result(j, m).up = "up" \/ hist[m].fails >= jobs[j].got[m].thr]
        ELSE hist[m]]
  BY <1>1 DEF Notify, Result
<1>3. ASSUME NEW m \in Monitors, m \in DOMAIN buf, Clear(m)
      PROVE  hist'[m] \in History /\ hist'[m].sure /\ Settled(m)'
  <2>1. Holds(j, m)
    BY <1>0, <1>1, <1>3 DEF Holds, JobOK
  <2>2. /\ ToSave(j, m) /\ jobs[j].got[m] \in Row /\ (jobs[j].got[m].up # "none" => jobs[j].got[m].since)
        /\ buf[m] \in BOOLEAN /\ hist[m] \in History /\ hist[m].sure
    <3>1. MonitorOK(m) /\ buf[m] \in BOOLEAN
      BY <1>0, <1>1, <1>3, JobColumns DEF UptimeInv
    <3> QED
      BY <1>0, <1>1, <1>3, <2>1, <3>1, HolderIs DEF HolderOK, MonitorOK
  <2>3. Stepped(Result(j, m), jobs[j].got[m], buf[m])
    BY <1>1, <2>2, NextState DEF Result
  <2>4. /\ hist[m].marked = mon[m].up /\ mon[m].down <= hist[m].fails /\ Told(m, jobs[j].got[m])
        /\ mon[m].kind = jobs[j].got[m].kind /\ mon[m].up = Result(j, m).up /\ mon[m].down = Result(j, m).down
    BY <1>0, <2>2 DEF ToSave
  <2>5. CASE Result(j, m).changed
    <3>1. PICK s : s = (Result(j, m).up = "up" \/ hist[m].fails >= jobs[j].got[m].thr)
      OBVIOUS
    <3>2. s \in BOOLEAN /\ s
      <4>1. Result(j, m).up = "down" => Result(j, m).down >= jobs[j].got[m].thr
        BY <2>3, <2>5 DEF Stepped
      <4>2. Result(j, m).up \in {"up", "down"} /\ Result(j, m).down \in Nat
        BY <2>3, <2>5 DEF Stepped, Ups
      <4>3. hist[m].fails \in Nat /\ jobs[j].got[m].thr \in Nat
        BY <2>2, UptimeAssumption DEF History, Row
      <4>4. Result(j, m).up = "up" \/ hist[m].fails >= jobs[j].got[m].thr
        BY <2>4, <4>1, <4>2, <4>3
      <4>5. (Result(j, m).up = "up" \/ hist[m].fails >= jobs[j].got[m].thr) = TRUE
        BY <4>4
      <4> QED
        BY <3>1, <4>5
    <3>3. hist'[m] = [hist[m] EXCEPT !.told = Result(j, m).up, !.sure = s]
      BY <1>2, <1>3, <2>5, <3>1
    <3>4. Result(j, m).up \in Ups
      BY <2>3 DEF Stepped
    <3>5. hist'[m] \in History /\ hist'[m].sure /\ hist'[m].told = Result(j, m).up
          /\ hist'[m].marked = hist[m].marked /\ hist'[m].fails = hist[m].fails
      BY <2>2, <3>2, <3>3, <3>4 DEF History
    <3> QED
      BY <1>0, <2>4, <3>5 DEF Settled, Told
  <2>6. CASE ~Result(j, m).changed
    <3>1. hist'[m] = hist[m] /\ Result(j, m).up = jobs[j].got[m].up
      BY <1>2, <2>3, <2>6 DEF Stepped
    <3> QED
      BY <1>0, <2>2, <2>4, <3>1 DEF Settled, Told
  <2> QED
    BY <2>5, <2>6
<1>4. \A m \in Monitors : ~(m \in DOMAIN buf /\ Clear(m)) => hist'[m] = hist[m]
  BY <1>2
<1>5. hist' \in [Monitors -> History]
  <2>1. \A m \in Monitors : hist'[m] \in History
    BY <1>0, <1>3, <1>4
  <2> QED
    BY <1>2, <2>1
<1>6. CASE jobs[j].pending = {}
  <2>1. jobs' = [jobs EXCEPT ![j] = Free]
    BY <1>6 DEF Notify
  <2>2. UptimeTypeOK'
    BY <1>0, <1>5, <2>1, FreeJob DEF UptimeInv, UptimeTypeOK
  <2>3. ASSUME NEW m \in Monitors, Holds(j, m)
        PROVE  (m \in Rows' /\ mon'[m].up # "none" => mon'[m].since)
               /\ (Clear(m)' => Clear(m) /\ Settled(m)' /\ hist'[m].sure)
    <3>1. MonitorOK(m) /\ m \in DOMAIN buf
      BY <1>0, <1>1, <1>6, <2>3 DEF UptimeInv, Holds
    <3>2. Clear(m)' => Clear(m)
      BY <1>4 DEF Clear
    <3> QED
      BY <1>0, <1>3, <3>1, <3>2 DEF MonitorOK, Rows
  <2>4. ASSUME NEW m \in Monitors, ~Holds(j, m) PROVE hist'[m] = hist[m]
    <3>1. m \notin DOMAIN buf
      BY <1>0, <1>1, <2>4 DEF Holds, JobOK
    <3> QED
      BY <1>4, <3>1
  <2> QED
    BY <1>0, <2>1, <2>2, <2>3, <2>4, JobEnds
<1>7. CASE jobs[j].pending # {}
  <2>1. PICK x : x = [jobs[j] EXCEPT !.buffer = <<>>, !.at = "probe"]
    OBVIOUS
  <2>2. jobs' = [jobs EXCEPT ![j] = x]
    BY <1>7, <2>1 DEF Notify
  <2>3. x \in Jobs /\ x.op = "round" /\ x.got = jobs[j].got /\ x.pending = jobs[j].pending /\ x.buffer = <<>>
        /\ x.at = "probe"
    BY <1>0, <2>1, EmptyColumns DEF Jobs
  <2>4. DOMAIN x.buffer = {}
    BY <2>3, EmptyColumns
  <2>5. JobOK(j)'
    <3>1. jobs'[j] = x
      BY <2>2 DEF UptimeInv, UptimeTypeOK
    <3> QED
      BY <1>0, <2>3, <2>4, <3>1 DEF JobOK
  <2>6. jobs' \in [Slots -> Jobs] /\ jobs'[j] = x /\ \A k \in Slots : JobOK(k)' /\ (k # j => jobs'[k] = jobs[k])
    BY <1>0, <2>2, <2>3, <2>5, OneJob
  <2>7. ASSUME NEW m \in Monitors PROVE MonitorOK(m)'
    <3>0. MonitorOK(m)
      BY DEF UptimeInv
    <3>1. \A k \in Slots : k # j => KeptHold(k, m) /\ (Holds(k, m)' <=> Holds(k, m))
      BY <2>6, SameHold
    <3>2. Holds(j, m)' <=> m \in jobs[j].pending
      BY <1>0, <2>3, <2>4, <2>6 DEF Holds, JobOK
    <3>3. CASE m \notin DOMAIN buf
      <4>1. (Holds(j, m)' <=> Holds(j, m)) /\ KeptHold(j, m)
        BY <1>0, <1>1, <2>3, <2>4, <2>6, <3>2, <3>3 DEF KeptHold, Holds, JobOK
      <4>2. Held(m)' <=> Held(m)
        BY <3>1, <4>1 DEF Held
      <4> QED
        BY <1>0, <1>4, <3>0, <3>1, <3>3, <4>1, <4>2, Untouched
    <3>4. CASE m \in DOMAIN buf
      <4>1. Holds(j, m) /\ ~Holds(j, m)'
        BY <1>0, <1>1, <3>2, <3>4 DEF Holds, JobOK
      <4>2. Clear(m)' => Clear(m)
        BY <1>4 DEF Clear
      <4>3. ASSUME Clear(m) PROVE \A k \in Slots : ~Holds(k, m)'
        BY <3>1, <4>1, <4>3, HolderIs
      <4>4. mon'[m] # Unborn
        BY <1>0, <4>1, HolderIs
      <4> QED
        BY <1>0, <1>3, <3>0, <3>4, <4>2, <4>3, <4>4 DEF MonitorOK, Rows
    <3> QED
      BY <3>3, <3>4
  <2> QED
    BY <1>0, <1>5, <2>6, <2>7 DEF UptimeInv, UptimeTypeOK
<1> QED
  BY <1>6, <1>7
--------------------------------------------------------------------------------
(***************************************************************************)
(* Heartbeats, edits, deletions and crashes                                *)
(***************************************************************************)
LEMMA BeatsStart ==
  ASSUME UptimeInv, NEW j \in Slots, NEW m \in Monitors, heartbeat_check(j, m)
  PROVE  UptimeInv'
<1>0. /\ jobs[j] = Free /\ m \in Rows /\ mon[m].kind = HEARTBEAT /\ mon' = mon /\ MonitorOK(m)
      /\ mon \in [Monitors -> Row \cup {Unborn, Gone}] /\ hist \in [Monitors -> History]
  BY DEF heartbeat_check, UptimeInv, UptimeTypeOK
<1>1. PICK x : x = Job("beat", Read({m}), "save")
  OBVIOUS
<1>2. mon[m] \in Row
  BY <1>0 DEF Rows
<1>3. Read({m}) \in [{m} -> Row] /\ DOMAIN Read({m}) = {m} /\ Read({m})[m] = mon[m]
  BY <1>2 DEF Read
<1>4. x.op = "beat" /\ x.pending = {m} /\ x.got = Read({m}) /\ x.buffer = <<>> /\ x.at = "save"
      /\ x = [op |-> "beat", pending |-> {m}, got |-> Read({m}), buffer |-> <<>>, at |-> "save"]
  BY <1>1, <1>3 DEF Job
<1>5. DOMAIN x.buffer = {}
  BY <1>4, EmptyColumns
<1>6. x \in Jobs
  <2>1. Read({m}) \in UNION {[S -> Row] : S \in SUBSET Monitors}
    BY <1>3
  <2> QED
    BY <1>4, <2>1, EmptyColumns DEF Jobs
<1>7. jobs' = [jobs EXCEPT ![j] = x]
  BY <1>1 DEF heartbeat_check
<1>8. JobOK(j)'
  <2>1. jobs'[j] = x
    BY <1>7 DEF UptimeInv, UptimeTypeOK
  <2>2. DOMAIN x.got = {m} /\ x.got[m] = mon[m] /\ x.op = "beat" /\ x.pending = {m} /\ DOMAIN x.buffer = {}
    BY <1>3, <1>4, <1>5
  <2>3. mon'[m] # Unborn /\ (mon[m].up # "none" => mon[m].since)
    BY <1>0 DEF MonitorOK, Rows
  <2> QED
    BY <2>1, <2>2, <2>3 DEF JobOK
<1>9. jobs' \in [Slots -> Jobs] /\ jobs'[j] = x /\ \A k \in Slots : JobOK(k)' /\ (k # j => jobs'[k] = jobs[k])
  BY <1>0, <1>6, <1>7, <1>8, OneJob
<1>10. CASE Held(m) \/ ~Clear(m)
  <2>1. hist' = Muddle({m})
    BY <1>10 DEF heartbeat_check
  <2>2. hist' \in [Monitors -> History] /\ ~Clear(m)' /\ \A n \in Monitors : n # m => hist'[n] = hist[n]
    BY <1>0, <1>10, <2>1 DEF Muddle, Muddled, Blank, History, Ups, Clear
  <2> QED
    <3>1. ASSUME NEW n \in Monitors PROVE MonitorOK(n)'
      <4>0. MonitorOK(n)
        BY DEF UptimeInv
      <4>1. CASE n = m
        BY <1>0, <2>2, <4>1 DEF MonitorOK, Rows
      <4>2. CASE n # m
        <5>1. \A k \in Slots : k # j => KeptHold(k, n) /\ (Holds(k, n)' <=> Holds(k, n))
          BY <1>9, SameHold
        <5>2. ~Holds(j, n)' /\ ~Holds(j, n) /\ KeptHold(j, n)
          BY <1>0, <1>3, <1>4, <1>9, <4>2, FreeHoldsNothing DEF Holds, KeptHold
        <5>3. Held(n)' <=> Held(n)
          BY <5>1, <5>2 DEF Held
        <5> QED
          BY <1>0, <2>2, <4>0, <4>2, <5>1, <5>2, <5>3, Untouched
      <4> QED
        BY <4>1, <4>2
    <3> QED
      BY <1>0, <1>9, <2>2, <3>1 DEF UptimeInv, UptimeTypeOK
<1>11. CASE ~Held(m) /\ Clear(m)
  <2>1. hist' = [hist EXCEPT ![m].fails = 0, ![m].marked = IF mon[m].up # "up" \/ ~mon[m].since THEN "up" ELSE @]
    BY <1>11 DEF heartbeat_check
  <2>2. /\ hist'[m].fails = 0 /\ hist'[m].told = hist[m].told /\ hist'[m].sure = hist[m].sure
        /\ hist'[m].marked = IF mon[m].up # "up" \/ ~mon[m].since THEN "up" ELSE hist[m].marked
        /\ hist' \in [Monitors -> History] /\ \A n \in Monitors : n # m => hist'[n] = hist[n]
    BY <1>0, <2>1 DEF History, Ups
  <2>3. Settled(m) /\ hist[m].sure
    BY <1>0, <1>11 DEF MonitorOK
  <2>4. hist'[m].marked = "up"
    BY <2>2, <2>3 DEF Settled
  <2>5. ASSUME NEW n \in Monitors PROVE MonitorOK(n)'
    <3>0. MonitorOK(n)
      BY DEF UptimeInv
    <3>1. \A k \in Slots : k # j => KeptHold(k, n) /\ (Holds(k, n)' <=> Holds(k, n))
      BY <1>9, SameHold
    <3>2. CASE n # m
      <4>1. ~Holds(j, n)' /\ ~Holds(j, n) /\ KeptHold(j, n)
        BY <1>0, <1>3, <1>4, <1>9, <3>2, FreeHoldsNothing DEF Holds, KeptHold
      <4>2. Held(n)' <=> Held(n)
        BY <3>1, <4>1 DEF Held
      <4> QED
        BY <1>0, <2>2, <3>0, <3>1, <3>2, <4>1, <4>2, Untouched
    <3>3. CASE n = m
      <4>1. Holds(j, m)' /\ \A k \in Slots : Holds(k, m)' => k = j
        BY <1>3, <1>4, <1>9, <1>11, <3>1, <3>3 DEF Holds, Held
      <4>2. Beating(j, m)'
        BY <1>0, <1>3, <1>4, <1>9, <2>2, <2>3, <2>4 DEF Beating, Told, Settled
      <4>3. HolderOK(j, m)'
        BY <1>4, <1>9, <4>2 DEF HolderOK
      <4> QED
        BY <1>0, <2>2, <2>3, <3>3, <4>1, <4>3 DEF MonitorOK, Rows, Held
    <3> QED
      BY <3>2, <3>3
  <2> QED
    BY <1>0, <1>9, <2>2, <2>5 DEF UptimeInv, UptimeTypeOK
<1> QED
  BY <1>10, <1>11

\* A request is about one monitor.
LEMMA OneMonitor ==
  ASSUME UptimeInv, NEW j \in Slots, NEW m \in DOMAIN jobs[j].got, jobs[j].op \in {"beat", "edit"}
  PROVE  Holds(j, m) /\ \A n : Holds(j, n) => n = m
BY DEF UptimeInv, JobOK, Holds

\* A heartbeat is saved,
LEMMA BeatSaved ==
  ASSUME UptimeInv, NEW j \in Slots, NEW m \in Monitors, SaveBeat(j, m)
  PROVE  UptimeInv'
<1>0. /\ jobs[j] \in Jobs /\ JobOK(j) /\ jobs[j].op = "beat" /\ jobs[j].at = "save" /\ hist' = hist
      /\ m \in DOMAIN jobs[j].got
      /\ mon \in [Monitors -> Row \cup {Unborn, Gone}] /\ hist \in [Monitors -> History]
  BY DEF SaveBeat, UptimeInv, UptimeTypeOK
<1>1. Holds(j, m) /\ (\A n : Holds(j, n) => n = m) /\ mon[m] # Unborn /\ jobs[j].got[m] \in Row /\ MonitorOK(m)
  BY <1>0, OneMonitor, HolderIs DEF UptimeInv
<1>2. ASSUME Clear(m)
      PROVE m \in Rows /\ Beating(j, m) /\ hist[m].sure /\ \A k \in Slots : Holds(k, m) => k = j
  BY <1>0, <1>1, <1>2, HolderIs DEF HolderOK, MonitorOK
<1>3. CASE m \notin Rows
  <2>1. jobs' = [jobs EXCEPT ![j] = Free] /\ mon' = mon
    BY <1>3 DEF SaveBeat
  <2>2. UptimeTypeOK'
    BY <1>0, <2>1, FreeJob DEF UptimeInv, UptimeTypeOK
  <2>3. ~Clear(m)' /\ m \notin Rows'
    BY <1>0, <1>2, <1>3, <2>1 DEF Clear, Rows
  <2> QED
    BY <1>0, <1>1, <2>1, <2>2, <2>3, JobEnds
<1>4. CASE m \in Rows
  <2>1. /\ mon' = [mon EXCEPT ![m].up = "up", ![m].down = 0, ![m].since = TRUE]
        /\ jobs' = [jobs EXCEPT ![j] = IF jobs[j].got[m].up = "down" THEN [@ EXCEPT !.at = "notify"] ELSE Free]
    BY <1>4 DEF SaveBeat
  <2>2. mon[m] \in Row
    BY <1>0, <1>4 DEF Rows
  <2>3. mon'[m] = [mon[m] EXCEPT !.up = "up", !.down = 0, !.since = TRUE] /\ \A n \in Monitors : n # m => mon'[n] = mon[n]
    BY <1>0, <2>1
  <2>4. /\ mon'[m].kind = mon[m].kind /\ mon'[m].up = "up" /\ mon'[m].down = 0 /\ mon'[m].since = TRUE
        /\ mon'[m] \in Row
    <3>1. mon[m] = [kind |-> mon[m].kind, thr |-> mon[m].thr, up |-> mon[m].up, down |-> mon[m].down, since |-> mon[m].since]
          /\ mon[m].kind \in Kinds /\ mon[m].thr \in Thresholds
      BY <2>2 DEF Row
    <3>2. mon'[m] = [kind |-> mon[m].kind, thr |-> mon[m].thr, up |-> "up", down |-> 0, since |-> TRUE]
      BY <2>3, <3>1
    <3> QED
      BY <3>1, <3>2 DEF Row, Ups
  <2>5. mon' \in [Monitors -> Row \cup {Unborn, Gone}] /\ mon'[m] # Unborn /\ mon'[m] # Gone
    BY <1>0, <2>1, <2>3, <2>4, RowIsNoMark
  <2>6. \A n \in Monitors : mon[n] # Unborn => mon'[n] # Unborn
    BY <2>3, <2>5
  <2>7. CASE jobs[j].got[m].up # "down"
    <3>1. jobs' = [jobs EXCEPT ![j] = Free]
      BY <2>1, <2>7
    <3>2. UptimeTypeOK'
      BY <1>0, <2>5, <3>1, FreeJob DEF UptimeInv, UptimeTypeOK
    <3>3. ASSUME Clear(m)' PROVE Clear(m) /\ Settled(m)' /\ hist'[m].sure
      <4>1. Clear(m)
        BY <1>0, <3>3 DEF Clear
      <4>2. Beating(j, m) /\ hist[m].sure /\ jobs[j].got[m].up \in {"none", "up"} /\ hist[m].fails \in Nat
        BY <1>0, <1>1, <1>2, <2>7, <4>1 DEF Row, Ups, History
      <4> QED
        BY <1>0, <2>4, <4>1, <4>2 DEF Settled, Beating, Told
    <3>4. ASSUME NEW n \in Monitors, Holds(j, n)
          PROVE  (n \in Rows' /\ mon'[n].up # "none" => mon'[n].since)
                   /\ (Clear(n)' => Clear(n) /\ Settled(n)' /\ hist'[n].sure)
      <4>1. n = m
        BY <1>1, <3>4
      <4> QED
        BY <2>4, <3>3, <4>1
    <3>5. ASSUME NEW n \in Monitors, ~Holds(j, n) PROVE mon'[n] = mon[n] /\ hist'[n] = hist[n]
      BY <1>0, <1>1, <2>3, <3>5
    <3> QED
      BY <2>6, <3>1, <3>2, <3>4, <3>5, JobEnds
  <2>8. CASE jobs[j].got[m].up = "down"
    <3>1. PICK x : x = [jobs[j] EXCEPT !.at = "notify"]
      OBVIOUS
    <3>2. jobs' = [jobs EXCEPT ![j] = x]
      BY <2>1, <2>8, <3>1
    <3>3. x \in Jobs /\ x.at = "notify" /\ x.op = "beat" /\ x.got = jobs[j].got /\ x.buffer = jobs[j].buffer
          /\ x.pending = jobs[j].pending
      BY <1>0, <3>1, JobMovesOn
    <3>4. JobOK(j)'
      <4>1. jobs'[j] = x
        BY <3>2 DEF UptimeInv, UptimeTypeOK
      <4>2. \A n \in DOMAIN jobs[j].got : n \in Monitors
        BY <1>0, JobColumns
      <4> QED
        BY <1>0, <2>6, <3>3, <4>1, <4>2 DEF JobOK
    <3>5. jobs' \in [Slots -> Jobs] /\ jobs'[j] = x /\ \A k \in Slots : JobOK(k)' /\ (k # j => jobs'[k] = jobs[k])
      BY <2>6, <3>2, <3>3, <3>4, OneJob
    <3>6. ASSUME NEW n \in Monitors PROVE MonitorOK(n)'
      <4>0. MonitorOK(n)
        BY DEF UptimeInv
      <4>1. \A k \in Slots : k # j => KeptHold(k, n) /\ (Holds(k, n)' <=> Holds(k, n))
        BY <3>5, SameHold
      <4>2. Holds(j, n)' <=> Holds(j, n)
        BY <1>0, <3>3, <3>5 DEF Holds
      <4>3. Held(n)' <=> Held(n)
        BY <4>1, <4>2 DEF Held
      <4>4. CASE n # m
        <5>1. KeptHold(j, n)
          BY <1>1, <4>2, <4>4 DEF KeptHold
        <5> QED
          BY <1>0, <2>3, <4>0, <4>1, <4>3, <4>4, <5>1, Untouched
      <4>5. CASE n = m
        <5>1. Clear(m)' <=> Clear(m)
          BY <1>0 DEF Clear
        <5>2. ASSUME Clear(m) PROVE HolderOK(j, m)' /\ hist'[m].sure /\ \A k \in Slots : Holds(k, m)' => k = j
          <6>1. Beating(j, m)'
            BY <1>0, <1>2, <2>4, <3>3, <3>5, <5>2 DEF Beating, Told
          <6>2. HolderOK(j, m)'
            BY <3>3, <3>5, <6>1 DEF HolderOK
          <6> QED
            BY <1>0, <1>2, <4>1, <4>5, <5>2, <6>2
        <5>3. m \in Rows' /\ Held(m)'
          BY <1>1, <2>5, <4>2, <4>5 DEF Rows, Held
        <5> QED
          BY <2>4, <2>5, <4>5, <5>1, <5>2, <5>3 DEF MonitorOK
      <4> QED
        BY <4>4, <4>5
    <3> QED
      BY <1>0, <2>5, <3>5, <3>6 DEF UptimeInv, UptimeTypeOK
  <2> QED
    BY <2>7, <2>8
<1> QED
  BY <1>3, <1>4

\* and its notice enqueued.
LEMMA BeatNotified ==
  ASSUME UptimeInv, NEW j \in Slots, NEW m \in Monitors, NotifyBeat(j, m)
  PROVE  UptimeInv'
<1>0. /\ jobs[j] \in Jobs /\ jobs[j].op = "beat" /\ jobs[j].at = "notify" /\ mon' = mon /\ m \in DOMAIN jobs[j].got
      /\ jobs' = [jobs EXCEPT ![j] = Free] /\ MonitorOK(m)
      /\ mon \in [Monitors -> Row \cup {Unborn, Gone}] /\ hist \in [Monitors -> History]
  BY DEF NotifyBeat, UptimeInv, UptimeTypeOK
<1>1. Holds(j, m) /\ \A n : Holds(j, n) => n = m
  BY <1>0, OneMonitor
<1>2. hist' = IF Clear(m) THEN [hist EXCEPT ![m].told = "up", ![m].sure = TRUE] ELSE hist
  BY DEF NotifyBeat
<1>3. /\ hist' \in [Monitors -> History] /\ (\A n \in Monitors : n # m => hist'[n] = hist[n])
      /\ Clear(m) => /\ hist'[m].told = "up" /\ hist'[m].sure = TRUE
                     /\ hist'[m].marked = hist[m].marked /\ hist'[m].fails = hist[m].fails
  BY <1>0, <1>2 DEF History, Ups
<1>4. UptimeTypeOK'
  BY <1>0, <1>3, FreeJob DEF UptimeInv, UptimeTypeOK
<1>5. ASSUME Clear(m)' PROVE Clear(m) /\ Settled(m)' /\ hist'[m].sure
  <2>1. Clear(m)
    BY <1>2, <1>5 DEF Clear
  <2>2. Beating(j, m) /\ hist[m].fails \in Nat
    BY <1>0, <1>1, <2>1, HolderIs DEF HolderOK, History
  <2> QED
    BY <1>0, <1>3, <2>1, <2>2 DEF Beating, Settled, Told
<1> QED
  BY <1>0, <1>1, <1>3, <1>4, <1>5, JobEnds DEF MonitorOK, Rows

\* An edit is saved.
LEMMA EditSaved ==
  ASSUME UptimeInv, NEW j \in Slots, NEW m \in Monitors, NEW thr \in Thresholds, SaveMonitor(j, m, thr)
  PROVE  UptimeInv'
<1>0. /\ jobs[j] \in Jobs /\ jobs[j].op = "edit" /\ hist' = hist /\ m \in DOMAIN jobs[j].got
      /\ jobs' = [jobs EXCEPT ![j] = Free] /\ MonitorOK(m)
      /\ mon \in [Monitors -> Row \cup {Unborn, Gone}] /\ hist \in [Monitors -> History]
  BY DEF SaveMonitor, UptimeInv, UptimeTypeOK
<1>1. /\ Holds(j, m) /\ (\A n : Holds(j, n) => n = m) /\ jobs[j].got[m] \in Row
      /\ jobs[j].got[m].up # "none" => jobs[j].got[m].since
  BY <1>0, OneMonitor, HolderIs
<1>2. mon' = [mon EXCEPT ![m] = [jobs[j].got[m] EXCEPT !.thr = thr]]
  BY DEF SaveMonitor
<1>3. /\ mon'[m] \in Row /\ mon'[m].kind = jobs[j].got[m].kind /\ mon'[m].up = jobs[j].got[m].up
      /\ mon'[m].down = jobs[j].got[m].down /\ mon'[m].since = jobs[j].got[m].since
      /\ \A n \in Monitors : n # m => mon'[n] = mon[n]
  BY <1>0, <1>1, <1>2 DEF Row
<1>4. mon' \in [Monitors -> Row \cup {Unborn, Gone}] /\ mon'[m] # Unborn
  BY <1>0, <1>2, <1>3, RowIsNoMark
<1>5. UptimeTypeOK'
  BY <1>0, <1>4, FreeJob DEF UptimeInv, UptimeTypeOK
<1>6. ASSUME Clear(m)' PROVE Clear(m) /\ Settled(m)' /\ hist'[m].sure
  <2>1. Clear(m)
    BY <1>0, <1>6 DEF Clear
  <2>2. Unwritten(j, m) /\ hist[m].sure
    BY <1>0, <1>1, <2>1, HolderIs DEF HolderOK, MonitorOK
  <2> QED
    BY <1>0, <1>3, <2>1, <2>2 DEF Unwritten, Settled, Told
<1> QED
  BY <1>0, <1>1, <1>3, <1>4, <1>5, <1>6, JobEnds

\* A job dies half way.
LEMMA JobCrashes ==
  ASSUME UptimeInv, NEW j \in Slots, Crash(j)
  PROVE  UptimeInv'
<1>0. /\ jobs' = [jobs EXCEPT ![j] = Free] /\ mon' = mon
      /\ hist' = [m \in Monitors |-> IF Holds(j, m) THEN Muddled ELSE hist[m]]
  BY DEF Crash
<1>1. UptimeTypeOK'
  <2>1. hist' \in [Monitors -> History]
    BY <1>0 DEF Muddled, Blank, History, Ups, UptimeInv, UptimeTypeOK
  <2> QED
    BY <1>0, <2>1, FreeJob DEF UptimeInv, UptimeTypeOK
<1>2. ASSUME NEW m \in Monitors, Holds(j, m)
      PROVE ~Clear(m)' /\ (m \in Rows' /\ mon'[m].up # "none" => mon'[m].since)
  BY <1>0, <1>2 DEF Clear, UptimeInv, MonitorOK, Rows
<1> QED
  BY <1>0, <1>1, <1>2, JobEnds

\* Nobody's job: a monitor is created or deleted.
LEMMA NoJob ==
  ASSUME UptimeInv, NEW m \in Monitors, UNCHANGED jobs, UptimeTypeOK', mon'[m] # Unborn, MonitorOK(m)',
         \A n \in Monitors : n # m => mon'[n] = mon[n] /\ hist'[n] = hist[n]
  PROVE  UptimeInv'
<1>1. ASSUME NEW j \in Slots PROVE JobOK(j)'
  <2>1. JobOK(j) /\ DOMAIN jobs[j].got \subseteq Monitors
    BY JobColumns DEF UptimeInv, UptimeTypeOK
  <2> QED
    BY <2>1 DEF JobOK
<1>2. ASSUME NEW n \in Monitors, n # m PROVE MonitorOK(n)'
  <2>1. \A k \in Slots : KeptHold(k, n) /\ (Holds(k, n)' <=> Holds(k, n))
    BY SameHold
  <2>2. Held(n)' <=> Held(n)
    BY <2>1 DEF Held
  <2> QED
    BY <1>2, <2>1, <2>2, Untouched DEF UptimeInv
<1> QED
  BY <1>1, <1>2 DEF UptimeInv

\* A monitor is created.
LEMMA Creates ==
  ASSUME UptimeInv, NEW m \in Monitors, NEW kind \in Kinds, NEW thr \in Thresholds, create_monitor(m, kind, thr)
  PROVE  UptimeInv'
<1>1. PICK row : row = [kind |-> kind, thr |-> thr, up |-> "none", down |-> 0, since |-> FALSE]
  OBVIOUS
<1>2. mon[m] = Unborn /\ mon' = [mon EXCEPT ![m] = row] /\ UNCHANGED <<jobs, hist>> /\ MonitorOK(m)
      /\ mon \in [Monitors -> Row \cup {Unborn, Gone}]
  BY <1>1 DEF create_monitor, UptimeInv, UptimeTypeOK
<1>3. row \in Row /\ row # Unborn /\ row # Gone
  <2>1. row \in Row
    BY <1>1 DEF Row, Ups
  <2> QED
    BY <2>1, RowIsNoMark
<1>4. UptimeTypeOK' /\ mon'[m] = row /\ \A n \in Monitors : n # m => mon'[n] = mon[n]
  BY <1>2, <1>3 DEF UptimeInv, UptimeTypeOK
<1>5. hist'[m] = Blank
  BY <1>2 DEF MonitorOK
<1>6. \A j \in Slots : ~Holds(j, m)'
  <2>1. \A j \in Slots : ~Holds(j, m)
    BY <1>2, HolderIs
  <2> QED
    BY <1>2, <2>1 DEF Holds
<1>7. Settled(m)' /\ hist'[m].sure
  BY <1>1, <1>4, <1>5 DEF Settled, Told, Blank
<1>8. MonitorOK(m)'
  BY <1>1, <1>3, <1>4, <1>6, <1>7 DEF MonitorOK
<1> QED
  BY <1>2, <1>3, <1>4, <1>8, NoJob

\* A monitor is deleted.
LEMMA Deletes ==
  ASSUME UptimeInv, NEW m \in Monitors, delete_monitor(m)
  PROVE  UptimeInv'
<1>1. mon' = [mon EXCEPT ![m] = Gone] /\ hist' = [hist EXCEPT ![m] = Muddled] /\ jobs' = jobs
      /\ mon \in [Monitors -> Row \cup {Unborn, Gone}] /\ hist \in [Monitors -> History]
  BY DEF delete_monitor, UptimeInv, UptimeTypeOK
<1>2. UptimeTypeOK'
  BY <1>1 DEF UptimeInv, UptimeTypeOK, Muddled, Blank, History, Ups
<1>3. mon'[m] = Gone /\ hist'[m] = Muddled /\ \A n \in Monitors : n # m => mon'[n] = mon[n] /\ hist'[n] = hist[n]
  BY <1>1
<1>4. Gone # Unborn
  BY DEF Gone, Unborn
<1>5. MonitorOK(m)'
  BY <1>3, <1>4 DEF MonitorOK, Clear, Rows
<1> QED
  BY <1>1, <1>2, <1>3, <1>4, <1>5, NoJob

\* A step that changes no table keeps the invariant.
LEMMA NothingHappens ==
  ASSUME UptimeInv, UNCHANGED <<mon, jobs, hist>>
  PROVE  UptimeInv'
<1>1. \A j \in Slots : JobOK(j)'
  BY DEF UptimeInv, JobOK
<1>2. ASSUME NEW m \in Monitors PROVE MonitorOK(m)'
  <2>1. \A k \in Slots : KeptHold(k, m) /\ (Holds(k, m)' <=> Holds(k, m))
    BY SameHold
  <2>2. Held(m)' <=> Held(m)
    BY <2>1 DEF Held
  <2> QED
    BY <2>1, <2>2, Untouched DEF UptimeInv
<1> QED
  BY <1>1, <1>2 DEF UptimeInv, UptimeTypeOK
--------------------------------------------------------------------------------
\* The invariant holds at the start.
LEMMA UptimeInitInv == UptimeInit => UptimeInv
<1> SUFFICES ASSUME UptimeInit PROVE UptimeInv
  OBVIOUS
<1>1. /\ \A m \in Monitors : mon[m] = Unborn /\ hist[m] = Blank
      /\ \A j \in Slots : jobs[j] = Free
  BY DEF UptimeInit
<1>2. UptimeTypeOK
  <2>1. Blank \in History
    BY DEF Blank, History, Ups
  <2> QED
    BY <2>1, FreeJob DEF UptimeInit, UptimeTypeOK
<1>3. \A j \in Slots : JobOK(j)
  BY <1>1, FreeJob DEF JobOK
<1>4. ASSUME NEW m \in Monitors PROVE MonitorOK(m)
  <2>1. \A j \in Slots : ~Holds(j, m)
    BY <1>1, FreeHoldsNothing
  <2>2. m \notin Rows /\ hist[m].sure
    BY <1>1 DEF Rows, Blank
  <2> QED
    BY <1>1, <2>1, <2>2 DEF MonitorOK
<1> QED
  BY <1>2, <1>3, <1>4 DEF UptimeInv

\* Every step keeps it.
LEMMA UptimeStep == UptimeInv /\ [UptimeNext]_uptimeVars => UptimeInv'
<1> SUFFICES ASSUME UptimeInv, [UptimeNext]_uptimeVars PROVE UptimeInv'
  OBVIOUS
<1>1. ASSUME NEW m \in Monitors, NEW o \in Outcomes, Change(m, o) PROVE UptimeInv'
  BY <1>1, NothingHappens DEF Change
<1>2. CASE dispatch_checks \/ LoseCounter
  BY <1>2, NothingHappens DEF dispatch_checks, LoseCounter
<1>3. ASSUME NEW j \in Slots, perform_checks(j) \/ Crash(j) PROVE UptimeInv'
  BY <1>3, RoundsStart, JobCrashes
<1>4. ASSUME NEW j \in Slots, Work(j) PROVE UptimeInv'
  <2>1. CASE SaveChecks(j) \/ UpdateMonitors(j) \/ Notify(j)
    BY <2>1, ChecksSaved, MonitorsUpdated, NoticesSent
  <2>2. ASSUME NEW m \in Monitors, run_checks(j, m) \/ SaveBeat(j, m) \/ NotifyBeat(j, m) PROVE UptimeInv'
    BY <2>2, Probes, BeatSaved, BeatNotified
  <2>3. ASSUME NEW m \in Monitors, NEW thr \in Thresholds, SaveMonitor(j, m, thr) PROVE UptimeInv'
    BY <2>3, EditSaved
  <2> QED
    BY <1>4, <2>1, <2>2, <2>3 DEF Work
<1>5. ASSUME NEW j \in Slots, NEW m \in Monitors, heartbeat_check(j, m) \/ update_monitor(j, m) PROVE UptimeInv'
  BY <1>5, BeatsStart, EditsStart
<1>6. ASSUME NEW m \in Monitors, delete_monitor(m) PROVE UptimeInv'
  BY <1>6, Deletes
<1>7. ASSUME NEW m \in Monitors, NEW k \in Kinds, NEW thr \in Thresholds, create_monitor(m, k, thr) PROVE UptimeInv'
  BY <1>7, Creates
<1>8. CASE UNCHANGED uptimeVars
  BY <1>8, NothingHappens DEF uptimeVars
<1> QED
  BY <1>1, <1>2, <1>3, <1>4, <1>5, <1>6, <1>7, <1>8 DEF UptimeNext

\* Every job that holds a monitor of its own is as far with it as the row and
\* the history say.
THEOREM UptimeInvariant == UptimeSpec => []UptimeInv
<1>1. UptimeInit => UptimeInv
  BY UptimeInitInv
<1>2. UptimeInv /\ [UptimeNext]_uptimeVars => UptimeInv'
  BY UptimeStep
<1> QED
  BY <1>1, <1>2, PTL DEF UptimeSpec

\* Between the jobs of a monitor the last notice, the last check marked as a
\* change and the state shown agree, and no notice says "down" too early.
THEOREM UptimeNoticesMatchState == UptimeSpec => []NoticesMatchState
<1>1. UptimeInv => NoticesMatchState
  <2> SUFFICES ASSUME UptimeInv PROVE NoticesMatchState
    OBVIOUS
  <2>1. ASSUME NEW m \in Rows, Clear(m) PROVE hist[m].sure /\ (~Held(m) => Settled(m))
    <3>1. MonitorOK(m)
      BY DEF UptimeInv, Rows
    <3> QED
      BY <2>1, <3>1 DEF MonitorOK
  <2> QED
    BY <2>1 DEF NoticesMatchState, Settled, Told
<1> QED
  BY <1>1, UptimeInvariant, PTL

\* An MCP request meets a dead connection only if it died, or could not be
\* recycled, during that request.
THEOREM AsgiNoStaleConnection == AsgiSpec => []NoStaleConnection
<1>1. AsgiInit => NoStaleConnection
  BY DEF AsgiInit, NoStaleConnection
<1>2. NoStaleConnection /\ [AsgiNext]_asgiVars => NoStaleConnection'
  <2> SUFFICES ASSUME NoStaleConnection, [AsgiNext]_asgiVars PROVE NoStaleConnection'
    OBVIOUS
  <2>1. ASSUME NEW raises \in BOOLEAN, BeginRequest(raises) \/ EndRequest(raises) PROVE NoStaleConnection'
    BY <2>1 DEF BeginRequest, McpRequest, EndRequest, _recycle_db_connections, NoStaleConnection
  <2>2. CASE ServeRequest \/ Failover
    BY <2>2 DEF ServeRequest, Failover, NoStaleConnection
  <2>3. CASE UNCHANGED mcpdb
    BY <2>3 DEF mcpdb, NoStaleConnection
  <2>4. CASE UNCHANGED asgiVars
    BY <2>4 DEF asgiVars, NoStaleConnection
  <2>5. ASSUME NEW a \in Apps, Reports(a) \/ Dies(a) PROVE NoStaleConnection'
    BY <2>3, <2>5 DEF Reports, Dies
  <2>6. CASE Startup \/ Shutdown \/ AnswerStartup \/ AnswerShutdown
    BY <2>3, <2>6 DEF Startup, Shutdown, ServerSays, AnswerStartup, AnswerShutdown
  <2> QED
    BY <2>1, <2>2, <2>4, <2>5, <2>6 DEF AsgiNext
<1> QED
  BY <1>1, <1>2, PTL DEF AsgiSpec
========================================
