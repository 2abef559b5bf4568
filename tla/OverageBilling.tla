---------------------------- MODULE OverageBilling ----------------------------
(***************************************************************************)
(* Throttle checks of one paying organization: concurrent tasks count its  *)
(* events, report billable overage to Stripe as additive deltas guarded by *)
(* a cache lock and a write-ahead counter, then save the throttle rate.    *)
(* Tasks may crash, the lock may expire, requests may be refused, time out *)
(* or arrive late, the billing cycle rolls over and owners move the cap.   *)
(*                                                                         *)
(* Cycles are numbered from 1; 0 is a NULL overage_period_start.           *)
(***************************************************************************)
EXTENDS Integers, FiniteSets

CONSTANTS
  Workers,            \* concurrently running throttle checks
  Plan,               \* events included in the plan (product.events)
  Caps,               \* spend caps an owner may choose, as units_for_budget
  LockMayExpire,      \* TRUE: a task may outlive its 60 s lock
  SendMayTimeOut,     \* TRUE: a meter event may time out on the client
  MaxCycles,          \* bound: billing cycles
  MaxUsage,           \* bound: events counted per cycle
  MaxCapChanges,      \* bound: calls of the overage settings endpoint
  MaxCrashes          \* bound: processes killed inside a check

ASSUME PlanAssumption == Plan \in Nat
ASSUME CapsAssumption == Caps \subseteq Nat /\ Caps # {}
ASSUME BoundsAssumption ==
  /\ MaxCycles \in Nat \ {0} /\ MaxUsage \in Nat
  /\ MaxCapChanges \in Nat /\ MaxCrashes \in Nat
  /\ LockMayExpire \in BOOLEAN /\ SendMayTimeOut \in BOOLEAN

Cycles == 1..MaxCycles
Rates  == {0, 10, 50, 100}
Steps  == {"idle", "count", "lock", "read", "persist", "reset", "send",
           "rollback", "unlock", "rate"}
\* Positions between taking the cache lock and deleting it.
Locked == {"read", "persist", "reset", "send", "rollback", "unlock"}

VARIABLES
  usage, cycle,            \* hourly statistics summed per cycle; the clock
  cap, metered, throttle,  \* organization row
  reported, period,        \* overage_units_reported, overage_period_start
  lock,                    \* the cache key overage-report-<sub>
  recorded, charged,       \* Stripe: identifiers seen, units invoiced
  late,                    \* meter events still under way after a timeout
  job,                     \* the running checks
  ceiling, races, changes, crashes   \* history

orgVars   == <<cap, metered, throttle>>
subVars   == <<reported, period>>
stripeVars == <<recorded, charged, late>>
histVars  == <<ceiling, races, changes, crashes>>
vars == <<usage, cycle, orgVars, subVars, lock, stripeVars, job, histVars>>

Idle == [pc |-> "idle", cap |-> 0, metered |-> FALSE, rate |-> 0, cyc |-> 0,
         use |-> 0, target |-> 0, base |-> 0]
At(w, step) == job[w].pc = step
Goto(w, step) == job' = [job EXCEPT ![w].pc = step]
--------------------------------------------------------------------------------
\* Events above the plan in cycle c.
Overage(c) == IF usage[c] > Plan THEN usage[c] - Plan ELSE 0

\* billable = min(max(0, total_event_count - plan_events), cap_units)
Billable(use, capUnits) ==
  LET over == IF use > Plan THEN use - Plan ELSE 0
  IN  IF over < capUnits THEN over ELSE capUnits

\* _progressive_throttle: 0, 10, 50, 100 past start over width.
ProgressiveThrottle(use, start, width) ==
  CASE use > start + width                                -> 100
    [] use > start + width \div 2 /\ use <= start + width -> 50
    [] use > start /\ use <= start + width \div 2         -> 10
    [] OTHER                                              -> 0

\* The ramp starts past the paid budget when overage is enabled.
RateFor(use, capUnits, isMetered) ==
  ProgressiveThrottle(use, Plan + (IF isMetered THEN capUnits ELSE 0), Plan)
--------------------------------------------------------------------------------
Init ==
  /\ usage = [c \in Cycles |-> 0]
  /\ cycle = 1
  /\ cap \in Caps
  /\ metered = TRUE
  /\ throttle = 0
  /\ reported = 0 /\ period = 0
  /\ lock = FALSE
  /\ recorded = {} /\ charged = [c \in Cycles |-> 0] /\ late = {}
  /\ job = [w \in Workers |-> Idle]
  /\ ceiling = cap
  /\ races = {}
  /\ changes = 0 /\ crashes = 0
--------------------------------------------------------------------------------
(***************************************************************************)
(* One throttle check, one await per action                                *)
(***************************************************************************)
\* The organization is loaded, up to 499 organizations ahead of its check.
LoadOrg(w) ==
  /\ At(w, "idle")
  /\ job' = [job EXCEPT ![w] = [Idle EXCEPT !.pc = "count", !.cap = cap,
                                  !.metered = metered, !.rate = throttle]]
  /\ UNCHANGED <<usage, cycle, orgVars, subVars, lock, stripeVars, histVars>>

\* Period dates and event counts are read now, the cap is the loaded one.
CountEvents(w) ==
  /\ At(w, "count")
  /\ job' = [job EXCEPT ![w] =
       [@ EXCEPT !.pc = IF job[w].metered THEN "lock" ELSE "rate",
                 !.cyc = cycle,
                 !.use = usage[cycle],
                 !.target = Billable(usage[cycle], job[w].cap)]]
  /\ UNCHANGED <<usage, cycle, orgVars, subVars, lock, stripeVars, histVars>>

\* Mutant of TakeLock: the lock is set but its previous value is ignored.
TakeLockAnyway(w) ==
  /\ At(w, "lock")
  /\ lock' = TRUE
  /\ Goto(w, "read")
  /\ UNCHANGED <<usage, cycle, orgVars, subVars, stripeVars, histVars>>

\* cache.aadd: a check that finds the key set skips the report.
TakeLock(w) ==
  /\ At(w, "lock")
  /\ lock' = TRUE
  /\ Goto(w, IF lock THEN "rate" ELSE "read")
  /\ UNCHANGED <<usage, cycle, orgVars, subVars, stripeVars, histVars>>

\* The counter counts from zero in a new cycle; with nothing to send only the
\* cycle anchor is moved.
ReadCounter(w) ==
  LET base == IF period = job[w].cyc THEN reported ELSE 0 IN
  /\ At(w, "read")
  /\ job' = [job EXCEPT ![w] =
       [@ EXCEPT !.base = base,
                 !.pc = IF job[w].target > base THEN "persist"
                        ELSE IF period # job[w].cyc THEN "reset" ELSE "unlock"]]
  /\ UNCHANGED <<usage, cycle, orgVars, subVars, lock, stripeVars, histVars>>

\* _persist_overage: within a cycle the counter only moves forward.
Persist(w) ==
  LET j == job[w]
      advances == period # j.cyc \/ reported < j.target
  IN
  /\ j.pc \in {"persist", "reset"}
  /\ reported' = IF advances THEN j.target ELSE reported
  /\ period' = IF advances THEN j.cyc ELSE period
  /\ races' = IF advances /\ j.cyc < period THEN races \cup {"stale cycle"}
              ELSE races
  /\ Goto(w, IF j.pc = "persist" THEN "send" ELSE "unlock")
  /\ UNCHANGED <<usage, cycle, orgVars, lock, stripeVars, ceiling, changes,
                 crashes>>

\* Stripe records a meter event once per identifier <<cycle, base>>.
Record(c, base, value) ==
  IF <<c, base>> \in recorded THEN UNCHANGED <<recorded, charged>>
  ELSE /\ recorded' = recorded \cup {<<c, base>>}
       /\ charged' = [charged EXCEPT ![c] = @ + value]

\* 200, or 400 for an identifier already recorded: the counter stays.
SendAnswered(w) ==
  /\ At(w, "send")
  /\ Record(job[w].cyc, job[w].base, job[w].target - job[w].base)
  /\ Goto(w, "unlock")
  /\ UNCHANGED <<usage, cycle, orgVars, subVars, lock, late, histVars>>

\* Refused on every attempt (429, 5xx) or never connected.
SendRefused(w) ==
  /\ At(w, "send")
  /\ Goto(w, "rollback")
  /\ UNCHANGED <<usage, cycle, orgVars, subVars, lock, stripeVars, histVars>>

\* No answer within STRIPE_TIMEOUT: not retried, Stripe may act on it yet.
SendTimesOut(w) ==
  /\ SendMayTimeOut
  /\ At(w, "send")
  /\ late' = late \cup {<<job[w].cyc, job[w].base, job[w].target - job[w].base>>}
  /\ races' = races \cup {"timeout"}
  /\ Goto(w, "rollback")
  /\ UNCHANGED <<usage, cycle, orgVars, subVars, lock, recorded, charged,
                 ceiling, changes, crashes>>

\* Mutant of Rollback: the write-ahead counter is never reverted.
RollbackNever(w) ==
  /\ At(w, "rollback")
  /\ Goto(w, "unlock")
  /\ UNCHANGED <<usage, cycle, orgVars, subVars, lock, stripeVars, histVars>>

\* _rollback_overage: only while the counter still holds this task's value.
Rollback(w) ==
  /\ At(w, "rollback")
  /\ reported' = IF period = job[w].cyc /\ reported = job[w].target
                 THEN job[w].base ELSE reported
  /\ Goto(w, "unlock")
  /\ UNCHANGED <<usage, cycle, orgVars, period, lock, stripeVars, histVars>>

\* finally: the key is deleted, whoever set it.
Unlock(w) ==
  /\ At(w, "unlock")
  /\ lock' = FALSE
  /\ Goto(w, "rate")
  /\ UNCHANGED <<usage, cycle, orgVars, subVars, stripeVars, histVars>>

\* Mutant of SaveThrottle: the rate is only ever raised.
SaveThrottleRaiseOnly(w) ==
  LET new == RateFor(job[w].use, job[w].cap, job[w].metered) IN
  /\ At(w, "rate")
  /\ throttle' = IF new > job[w].rate THEN new ELSE throttle
  /\ job' = [job EXCEPT ![w] = Idle]
  /\ UNCHANGED <<usage, cycle, cap, metered, subVars, lock, stripeVars,
                 histVars>>

\* The rate is saved when it differs from the one that was loaded.
SaveThrottle(w) ==
  LET new == RateFor(job[w].use, job[w].cap, job[w].metered) IN
  /\ At(w, "rate")
  /\ throttle' = IF new # job[w].rate THEN new ELSE throttle
  /\ job' = [job EXCEPT ![w] = Idle]
  /\ UNCHANGED <<usage, cycle, cap, metered, subVars, lock, stripeVars,
                 histVars>>

\* The process is killed; a lock it held stays set.
Crash(w) ==
  /\ ~At(w, "idle")
  /\ crashes < MaxCrashes
  /\ crashes' = crashes + 1
  /\ job' = [job EXCEPT ![w] = Idle]
  /\ UNCHANGED <<usage, cycle, orgVars, subVars, lock, stripeVars, ceiling,
                 races, changes>>
--------------------------------------------------------------------------------
(***************************************************************************)
(* The environment                                                         *)
(***************************************************************************)
\* The key expires, under a running task only when LockMayExpire.
ExpireLock ==
  LET owned == \E w \in Workers : job[w].pc \in Locked IN
  /\ lock
  /\ owned => LockMayExpire
  /\ lock' = FALSE
  /\ races' = IF owned THEN races \cup {"expired lock"} ELSE races
  /\ UNCHANGED <<usage, cycle, orgVars, subVars, stripeVars, job, ceiling,
                 changes, crashes>>

\* A request given up by its sender reaches Stripe after all.
ArriveLate(r) ==
  /\ r \in late
  /\ late' = late \ {r}
  /\ Record(r[1], r[2], r[3])
  /\ UNCHANGED <<usage, cycle, orgVars, subVars, lock, job, histVars>>

\* Events of the current cycle are counted.
UseEvents(n) ==
  /\ usage[cycle] < n /\ n <= MaxUsage
  /\ usage' = [usage EXCEPT ![cycle] = n]
  /\ UNCHANGED <<cycle, orgVars, subVars, lock, stripeVars, job, histVars>>

\* The webhook or the nightly job moves the subscription to the next cycle.
RollOver ==
  /\ cycle < MaxCycles
  /\ cycle' = cycle + 1
  /\ UNCHANGED <<usage, orgVars, subVars, lock, stripeVars, job, histVars>>

\* The owner enables overage with a cap, or disables it (which keeps the cap).
SetOverage(enabled, newCap) ==
  /\ changes < MaxCapChanges
  /\ changes' = changes + 1
  /\ metered' = enabled
  /\ cap' = IF enabled THEN newCap ELSE cap
  /\ ceiling' = IF cap' > ceiling THEN cap' ELSE ceiling
  /\ UNCHANGED <<usage, cycle, throttle, subVars, lock, stripeVars, job, races,
                 crashes>>
--------------------------------------------------------------------------------
CheckStep(w) ==
  \/ CountEvents(w) \/ TakeLock(w) \/ ReadCounter(w) \/ Persist(w)
  \/ SendAnswered(w) \/ SendRefused(w) \/ SendTimesOut(w)
  \/ Rollback(w) \/ Unlock(w) \/ SaveThrottle(w)

Next ==
  \/ \E w \in Workers : LoadOrg(w) \/ CheckStep(w) \/ Crash(w)
  \/ ExpireLock
  \/ \E r \in late : ArriveLate(r)
  \/ \E n \in 1..MaxUsage : UseEvents(n)
  \/ RollOver
  \/ \E enabled \in BOOLEAN, newCap \in Caps : SetOverage(enabled, newCap)

Spec == Init /\ [][Next]_vars

\* Checks are scheduled over and over and run to completion.
Fairness == \A w \in Workers : WF_vars(LoadOrg(w) \/ CheckStep(w))
FairSpec == Spec /\ Fairness
--------------------------------------------------------------------------------
Jobs == [pc : Steps, cap : Nat, metered : BOOLEAN, rate : Rates,
         cyc : 0..MaxCycles, use : Nat, target : Nat, base : Nat]

TypeOK ==
  /\ usage \in [Cycles -> Nat] /\ cycle \in Cycles
  /\ cap \in Nat /\ metered \in BOOLEAN /\ throttle \in Rates
  /\ reported \in Nat /\ period \in 0..MaxCycles
  /\ lock \in BOOLEAN
  /\ recorded \subseteq Cycles \X Nat
  /\ charged \in [Cycles -> Nat]
  /\ late \subseteq Cycles \X Nat \X Nat
  /\ job \in [Workers -> Jobs]
  /\ ceiling \in Nat
  /\ races \subseteq {"stale cycle", "timeout", "expired lock"}
  /\ changes \in Nat /\ crashes \in Nat
--------------------------------------------------------------------------------
(***************************************************************************)
(* Properties                                                              *)
(***************************************************************************)
\* What is invoiced for a cycle stays within the overage of that cycle and
\* within the highest spend cap the owner chose.
WithinOverage(c) == charged[c] <= Overage(c) /\ charged[c] <= ceiling

\* An organization is overcharged only after one of three races: a lock that
\* expired under its holder, a meter event that timed out, or a check of an
\* old cycle that moved the anchor back.  Crashes, refusals, cap changes,
\* rollovers and overlapping checks never suffice.
OverchargeNeedsARace ==
  races = {} => \A c \in Cycles : WithinOverage(c)

\* Without crashes and races nothing is left unbilled: between checks Stripe
\* has been sent exactly what the counter says, however many sends failed.
NothingStranded ==
  races = {} /\ crashes = 0 /\ (\A w \in Workers : job[w].pc \notin Locked)
    /\ period # 0 => charged[period] = reported

\* The rate in force converges to the one the usage, the cap and the overage
\* switch call for, although checks decide on what they loaded earlier.
ThrottleConverges == <>[](throttle = RateFor(usage[cycle], cap, metered))
--------------------------------------------------------------------------------
(***************************************************************************)
(* The inductive invariant behind OverchargeNeedsARace                     *)
(***************************************************************************)
\* At most one check is between taking and deleting the lock.
Exclusive ==
  /\ \A w \in Workers : job[w].pc \in Locked => lock
  /\ \A v, w \in Workers :
       job[v].pc \in Locked /\ job[w].pc \in Locked => v = w

Reporting == {"persist", "send", "rollback"}

\* A check aims at no more than the overage of its cycle and its cap, and
\* reports a positive delta.
TargetsJustified ==
  /\ cap <= ceiling
  /\ \A w \in Workers :
    /\ job[w].cap <= ceiling
    /\ job[w].pc \in Reporting => job[w].base < job[w].target
    /\ job[w].pc \in Locked \cup {"lock"} =>
         /\ job[w].cyc \in Cycles
         /\ job[w].target <= Overage(job[w].cyc) /\ job[w].target <= ceiling

\* The counter bounds the charges of its cycle, later cycles have none yet.
CounterBounds ==
  /\ period # 0 => /\ charged[period] <= reported
                   /\ reported <= Overage(period) /\ reported <= ceiling
  /\ \A c \in Cycles : IF c > period THEN charged[c] = 0 ELSE WithinOverage(c)

\* What a check inside the lock knows about the counter.
LockedView ==
  \A w \in Workers :
    /\ job[w].pc = "reset" => period # job[w].cyc /\ job[w].target = 0
    /\ job[w].pc = "persist" =>
         job[w].base = (IF period = job[w].cyc THEN reported ELSE 0)
    /\ job[w].pc \in {"send", "rollback"} =>
         /\ period = job[w].cyc /\ reported = job[w].target
         /\ charged[period] <= job[w].base

IInv ==
  /\ TypeOK
  /\ TargetsJustified
  /\ races = {} => Exclusive /\ late = {} /\ CounterBounds /\ LockedView
================================================================================
