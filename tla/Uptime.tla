--------------------------------- MODULE Uptime ---------------------------------
(***************************************************************************)
(* Uptime monitors: the dispatcher's tick, rounds of checks that overlap,   *)
(* the cached state with its flap damping, heartbeats, edits and notices.   *)
(* A round reads its monitors, probes each, and saves results in batches:  *)
(* the checks, then the monitors, then the notices.                         *)
(***************************************************************************)
EXTENDS Naturals, Sequences, FiniteSets

CONSTANTS
  Monitors,      \* ids, numbers
  Interval,      \* Interval[m], in ticks
  Outcomes,      \* of a probe: "ok", another "status" (or body), "refused"
  Kinds,         \* bound: the monitor types created
  Thresholds,    \* bound: the confirmation thresholds given
  Slots,         \* tasks and requests at a time
  MaxQueue,      \* bound on perform_checks messages waiting
  Budget         \* bound on edits, deletions, crashes and losses of the counter

ASSUME UptimeAssumption ==
  /\ "unborn" \notin Kinds /\ "gone" \notin Kinds
  /\ Thresholds \subseteq Nat /\ \E t \in Thresholds : \A u \in Thresholds : u <= t

HEARTBEAT == "heartbeat"
Unborn == [kind |-> "unborn"]
Gone == [kind |-> "gone"]

VARIABLES
  mon,        \* Monitor rows
  service,    \* what a probe of the monitor would find; a heartbeat's service checks in when "ok"
  throttled,  \* event_throttle_rate >= 100
  tick,       \* UPTIME_COUNTER_KEY
  checkQueue,      \* perform_checks messages
  jobs,       \* tasks and requests in progress
  age,        \* intervals since the newest MonitorCheck row of the monitor, 2 for longer
  hist,       \* history of the monitor, see Blank; Muddled after two jobs held it at once or a crash
  left        \* of the budget
uptimeVars == <<mon, service, throttled, tick, checkQueue, jobs, age, hist, left>>
--------------------------------------------------------------------------------
Rows == { m \in Monitors : mon[m] \notin {Unborn, Gone} }
\* The consecutive failed rows, the last notice, whether a "down" notice came
\* after as many as the threshold, and the last row with is_change.
Blank == [fails |-> 0, told |-> "none", sure |-> TRUE, marked |-> "none"]
Muddled == [Blank EXCEPT !.told = "muddled"]
Free == [op |-> "free", pending |-> {}, got |-> <<>>, buffer |-> <<>>, at |-> "free"]
Job(op, got, at) == [op |-> op, pending |-> DOMAIN got, got |-> got, buffer |-> <<>>, at |-> at]
Holds(j, m) == m \in DOMAIN jobs[j].got /\ (jobs[j].op # "round" \/ m \in jobs[j].pending \cup DOMAIN jobs[j].buffer)
Held(m) == \E j \in Slots : Holds(j, m)
Clear(m) == hist[m] # Muddled
Muddle(ms) == [m \in Monitors |-> IF m \in ms /\ Held(m) THEN Muddled ELSE hist[m]]
Word(up) == IF up THEN "up" ELSE "down"
MinOf(a, b) == IF a < b THEN a ELSE b
MaxThreshold == CHOOSE t \in Thresholds : \A u \in Thresholds : u <= t
Read(ms) == [m \in ms |-> mon[m]]

UptimeInit ==
  /\ mon = [m \in Monitors |-> Unborn] /\ service \in [Monitors -> {"ok", "refused"}]
  /\ throttled \in BOOLEAN /\ tick = 0 /\ checkQueue = <<>> /\ jobs = [j \in Slots |-> Free]
  /\ age = [m \in Monitors |-> 2] /\ hist = [m \in Monitors |-> Blank] /\ left = Budget

\* Outside: the service changes.
Change(m, o) ==
  /\ service[m] # o /\ service' = [service EXCEPT ![m] = o]
  /\ UNCHANGED <<mon, throttled, tick, checkQueue, jobs, age, hist, left>>
--------------------------------------------------------------------------------
\* Monitors whose turn it is; a throttled organization has none.
Due(t) == IF throttled THEN {} ELSE { m \in Rows : (t + m) % Interval[m] = 0 }
\* The counter is modelled up to the least common period of the intervals, 2.
dispatch_checks ==
  /\ Len(checkQueue) < MaxQueue
  /\ tick' = (tick + 1) % 2
  /\ LET due == Due(tick + 1) IN
     /\ checkQueue' = IF due = {} THEN checkQueue ELSE Append(checkQueue, due)
     /\ age' = [m \in Monitors |-> IF m \in due THEN MinOf(age[m] + 1, 2) ELSE age[m]]
  /\ UNCHANGED <<mon, service, throttled, jobs, hist, left>>
LoseCounter ==
  /\ left > 0 /\ left' = left - 1 /\ tick' = 0
  /\ UNCHANGED <<mon, service, throttled, checkQueue, jobs, age, hist>>

perform_checks(j) ==
  /\ jobs[j] = Free /\ checkQueue # <<>> /\ checkQueue' = Tail(checkQueue)
  /\ LET ms == Head(checkQueue) \cap Rows IN
     /\ jobs' = IF ms = {} THEN jobs ELSE [jobs EXCEPT ![j] = Job("round", Read(ms), "probe")]
     /\ hist' = Muddle(ms)
  /\ UNCHANGED <<mon, service, throttled, tick, age, left>>

\* A heartbeat is up when any row, a failed one too, is no older than its
\* interval; a row of the interval before may or may not be.  A ping is up
\* whatever the status.
fetch(m, row) ==
  IF row.kind = HEARTBEAT
  THEN CASE age[m] = 0 -> {TRUE} [] age[m] = 1 -> BOOLEAN [] OTHER -> {FALSE}
  ELSE {service[m] = "ok" \/ (row.kind = "ping" /\ service[m] = "status")}
run_checks(j, m) ==
  /\ jobs[j].op = "round" /\ jobs[j].at = "probe" /\ m \in jobs[j].pending
  /\ \E up \in fetch(m, jobs[j].got[m]) :
       LET drop == up /\ jobs[j].got[m].kind = HEARTBEAT
           rest == jobs[j].pending \ {m}
           kept == IF drop THEN jobs[j].buffer
                   ELSE [x \in DOMAIN jobs[j].buffer \cup {m} |-> IF x = m THEN up ELSE jobs[j].buffer[x]] IN
       jobs' = [jobs EXCEPT ![j] = IF rest = {} /\ DOMAIN kept = {} THEN Free
                                   ELSE [@ EXCEPT !.pending = rest, !.buffer = kept]]
  /\ UNCHANGED <<mon, service, throttled, tick, checkQueue, age, hist, left>>

\* Mutant of _next_state: one failure more than the threshold is needed.
NextStatePastThreshold(row, up) ==
  LET down  == IF up THEN 0 ELSE MinOf(row.down + 1, row.thr)
      state == IF up THEN "up" ELSE IF down > row.thr THEN "down" ELSE row.up
      changed == state # "none" /\ state # row.up IN
  [up |-> state, down |-> down, changed |-> changed,
   is_change |-> state # "none" /\ (changed \/ ~row.since)]
\* Mutant of _next_state: the first failure already counts as down.
NextStateEveryFailure(row, up) ==
  LET down  == IF up THEN 0 ELSE MinOf(row.down + 1, row.thr)
      state == IF up THEN "up" ELSE "down"
      changed == state # "none" /\ state # row.up IN
  [up |-> state, down |-> down, changed |-> changed,
   is_change |-> state # "none" /\ (changed \/ ~row.since)]
\* From a row as it was read and a result: the row's new columns, and whether
\* the state changed.
_next_state(row, up) ==
  LET down  == IF up THEN 0 ELSE MinOf(row.down + 1, row.thr)
      state == IF up THEN "up" ELSE IF down >= row.thr THEN "down" ELSE row.up
      changed == state # "none" /\ state # row.up IN
  [up |-> state, down |-> down, changed |-> changed,
   is_change |-> state # "none" /\ (changed \/ ~row.since)]

\* save_monitor_checks, in three steps.  A batch that holds a deleted monitor
\* fails, and the round with it.
SaveChecks(j) ==
  LET buf == jobs[j].buffer
      S == DOMAIN buf
      Next(m) == _next_state(jobs[j].got[m], buf[m]) IN
  /\ jobs[j].op = "round" /\ jobs[j].at = "probe" /\ S # {}
  /\ IF S \subseteq Rows
     THEN /\ jobs' = [jobs EXCEPT ![j].at = "update"]
          /\ age' = [m \in Monitors |-> IF m \in S THEN 0 ELSE age[m]]
          /\ hist' = [m \in Monitors |->
               IF m \notin S \/ ~Clear(m) THEN hist[m]
               ELSE [hist[m] EXCEPT !.fails = IF buf[m] THEN 0 ELSE MinOf(@ + 1, MaxThreshold),
                                    !.marked = IF Next(m).is_change THEN Word(buf[m]) ELSE @]]
     ELSE /\ jobs' = [jobs EXCEPT ![j] = Free] /\ UNCHANGED <<age, hist>>
  /\ UNCHANGED <<mon, service, throttled, tick, checkQueue, left>>
UpdateMonitors(j) ==
  LET Next(m) == _next_state(jobs[j].got[m], jobs[j].buffer[m]) IN
  /\ jobs[j].op = "round" /\ jobs[j].at = "update"
  /\ mon' = [m \in Monitors |->
               IF m \in DOMAIN jobs[j].buffer \cap Rows
               THEN [mon[m] EXCEPT !.up = Next(m).up, !.down = Next(m).down,
                                   !.since = Next(m).is_change \/ jobs[j].got[m].since]
               ELSE mon[m]]
  /\ jobs' = [jobs EXCEPT ![j].at = "notify"]
  /\ UNCHANGED <<service, throttled, tick, checkQueue, age, hist, left>>
Notify(j) ==
  LET Next(m) == _next_state(jobs[j].got[m], jobs[j].buffer[m]) IN
  /\ jobs[j].op = "round" /\ jobs[j].at = "notify"
  /\ hist' = [m \in Monitors |->
       IF m \in DOMAIN jobs[j].buffer /\ Clear(m) /\ Next(m).changed
       THEN [hist[m] EXCEPT !.told = Next(m).up, !.sure = Next(m).up = "up" \/ hist[m].fails >= jobs[j].got[m].thr]
       ELSE hist[m]]
  /\ jobs' = [jobs EXCEPT ![j] = IF @.pending = {} THEN Free ELSE [@ EXCEPT !.buffer = <<>>, !.at = "probe"]]
  /\ UNCHANGED <<mon, service, throttled, tick, checkQueue, age, left>>
--------------------------------------------------------------------------------
\* A check-in: the row first, then the monitor, then the notice.
heartbeat_check(j, m) ==
  /\ jobs[j] = Free /\ m \in Rows /\ mon[m].kind = HEARTBEAT /\ service[m] = "ok"
  /\ jobs' = [jobs EXCEPT ![j] = Job("beat", Read({m}), "save")]
  /\ age' = [age EXCEPT ![m] = 0]
  /\ hist' = IF Held(m) \/ ~Clear(m) THEN Muddle({m})
             ELSE [hist EXCEPT ![m].fails = 0, ![m].marked = IF mon[m].up # "up" \/ ~mon[m].since THEN "up" ELSE @]
  /\ UNCHANGED <<mon, service, throttled, tick, checkQueue, left>>
\* The save of a deleted monitor raises.
SaveBeat(j, m) ==
  /\ jobs[j].op = "beat" /\ jobs[j].at = "save" /\ m \in DOMAIN jobs[j].got
  /\ IF m \in Rows
     THEN /\ mon' = [mon EXCEPT ![m].up = "up", ![m].down = 0, ![m].since = TRUE]
          /\ jobs' = [jobs EXCEPT ![j] = IF jobs[j].got[m].up = "down" THEN [@ EXCEPT !.at = "notify"] ELSE Free]
     ELSE jobs' = [jobs EXCEPT ![j] = Free] /\ UNCHANGED mon
  /\ UNCHANGED <<service, throttled, tick, checkQueue, age, hist, left>>
NotifyBeat(j, m) ==
  /\ jobs[j].op = "beat" /\ jobs[j].at = "notify" /\ m \in DOMAIN jobs[j].got
  /\ hist' = IF Clear(m) THEN [hist EXCEPT ![m].told = "up", ![m].sure = TRUE] ELSE hist
  /\ jobs' = [jobs EXCEPT ![j] = Free]
  /\ UNCHANGED <<mon, service, throttled, tick, checkQueue, age, left>>

\* Monitor.save asks for a check at once, but not of a heartbeat.
Saved(m, row) == IF row.kind = HEARTBEAT THEN checkQueue ELSE Append(checkQueue, {m})
create_monitor(m, kind, thr) ==
  /\ mon[m] = Unborn /\ Len(checkQueue) < MaxQueue
  /\ LET row == [kind |-> kind, thr |-> thr, up |-> "none", down |-> 0, since |-> FALSE] IN
     mon' = [mon EXCEPT ![m] = row] /\ checkQueue' = Saved(m, row)
  /\ UNCHANGED <<service, throttled, tick, jobs, age, hist, left>>
\* Reads the row, then writes every column of it, the cached ones as they were
\* read; a row deleted meanwhile comes back.
update_monitor(j, m) ==
  /\ left > 0 /\ left' = left - 1
  /\ jobs[j] = Free /\ m \in Rows
  /\ jobs' = [jobs EXCEPT ![j] = Job("edit", Read({m}), "save")] /\ hist' = Muddle({m})
  /\ UNCHANGED <<mon, service, throttled, tick, checkQueue, age>>
SaveMonitor(j, m, thr) ==
  /\ jobs[j].op = "edit" /\ m \in DOMAIN jobs[j].got
  /\ LET row == [jobs[j].got[m] EXCEPT !.thr = thr] IN
     mon' = [mon EXCEPT ![m] = row] /\ checkQueue' = Saved(m, row)
  /\ jobs' = [jobs EXCEPT ![j] = Free]
  /\ UNCHANGED <<service, throttled, tick, age, hist, left>>
delete_monitor(m) ==
  /\ left > 0 /\ left' = left - 1
  /\ m \in Rows /\ mon' = [mon EXCEPT ![m] = Gone] /\ age' = [age EXCEPT ![m] = 2]
  /\ hist' = [hist EXCEPT ![m] = Muddled]
  /\ UNCHANGED <<service, throttled, tick, checkQueue, jobs>>

\* A task or a request dies between two of its steps.
Crash(j) ==
  /\ left > 0 /\ left' = left - 1
  /\ jobs[j] # Free /\ jobs' = [jobs EXCEPT ![j] = Free]
  /\ hist' = [m \in Monitors |-> IF Holds(j, m) THEN Muddled ELSE hist[m]]
  /\ UNCHANGED <<mon, service, throttled, tick, checkQueue, age>>
--------------------------------------------------------------------------------
Work(j) ==
  \/ SaveChecks(j) \/ UpdateMonitors(j) \/ Notify(j)
  \/ \E m \in Monitors : run_checks(j, m) \/ SaveBeat(j, m) \/ NotifyBeat(j, m)
                         \/ \E thr \in Thresholds : SaveMonitor(j, m, thr)
UptimeNext ==
  \/ \E m \in Monitors, o \in Outcomes : Change(m, o)
  \/ dispatch_checks \/ LoseCounter
  \/ \E j \in Slots : perform_checks(j) \/ Work(j) \/ Crash(j)
  \/ \E j \in Slots, m \in Monitors : heartbeat_check(j, m) \/ update_monitor(j, m)
  \/ \E m \in Monitors : delete_monitor(m) \/ \E k \in Kinds, thr \in Thresholds : create_monitor(m, k, thr)

\* The scheduler runs dispatch_checks every second, a worker takes what is queued,
\* and a task that was started goes on.
UptimeFairness ==
  /\ WF_uptimeVars(dispatch_checks)
  /\ \A j \in Slots : WF_uptimeVars(Work(j) \/ perform_checks(j))
UptimeSpec == UptimeInit /\ [][UptimeNext]_uptimeVars /\ UptimeFairness
--------------------------------------------------------------------------------
\* Between jobs on a monitor that never met another one, nor a crash, the last
\* notice sent, the last check marked as a change and the state shown are the
\* same (a heartbeat's first check-in is not announced), and no notice says
\* "down" before the threshold of failed checks in a row.
NoticesMatchState ==
  \A m \in Rows : Clear(m) =>
    /\ ~Held(m) => /\ hist[m].marked = mon[m].up
                    /\ \/ hist[m].told = mon[m].up
                       \/ mon[m].kind = HEARTBEAT /\ mon[m].up = "up" /\ hist[m].told = "none"
    /\ hist[m].sure

\* However rounds overlap, edits restore old columns or tasks crash, a service
\* that stays down, or up, is shown so in the end and from then on.
Answers(m) == service[m] = "ok" \/ (m \in Rows /\ mon[m].kind = "ping" /\ service[m] = "status")
Shown(m, s) == m \in Rows => mon[m].up = s
StateSettles ==
  ~throttled => \A m \in Monitors :
    /\ <>[](~Answers(m)) => <>[]Shown(m, "down")
    /\ <>[](m \in Rows => mon[m].kind # HEARTBEAT /\ Answers(m)) => <>[]Shown(m, "up")
================================================================================
