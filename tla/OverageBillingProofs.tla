------------------------ MODULE OverageBillingProofs ------------------------
(***************************************************************************)
(* Proofs about OverageBilling: type correctness, and that an overcharge   *)
(* needs a lock that expired under its holder, a timed-out meter event or  *)
(* a check of an old cycle, for any number of concurrent checks, any plan, *)
(* caps, cycles, crashes and refusals.  And about BillingPeriods: the      *)
(* free-tier windows tile for months of any lengths, and an account that   *)
(* was accepted invoices by the schedule it was checked against.           *)
(***************************************************************************)
EXTENDS OverageBilling, BillingPeriods, FiniteSetTheorems, TLAPS

\* Billable units are a natural number within the overage and the cap.
LEMMA BillableBounds ==
  ASSUME NEW use \in Nat, NEW capUnits \in Nat
  PROVE  /\ Billable(use, capUnits) \in Nat
         /\ Billable(use, capUnits) <= capUnits
         /\ Billable(use, capUnits) <= (IF use > Plan THEN use - Plan ELSE 0)
BY PlanAssumption DEF Billable

\* The ramp takes one of four values.
LEMMA RateType ==
  ASSUME NEW use, NEW capUnits, NEW isMetered
  PROVE  RateFor(use, capUnits, isMetered) \in Rates
BY DEF RateFor, ProgressiveThrottle, Rates

\* Overage is a natural number that grows with the usage.
LEMMA OverageMonotone ==
  ASSUME TypeOK, NEW c \in Cycles,
         usage' \in [Cycles -> Nat], usage[c] <= usage'[c]
  PROVE  Overage(c) \in Nat /\ Overage(c)' \in Nat /\ Overage(c) <= Overage(c)'
<1>1. usage[c] \in Nat /\ usage'[c] \in Nat
  BY DEF TypeOK
<1> QED
  BY <1>1, PlanAssumption DEF Overage

\* The invariant holds at the start.
LEMMA InitIInv == Init => IInv
<1> SUFFICES ASSUME Init PROVE IInv
  OBVIOUS
<1> USE BoundsAssumption, PlanAssumption, CapsAssumption
<1>1. TypeOK
  <2>1. 1 \in Cycles
    BY DEF Cycles
  <2>2. Idle \in Jobs
    BY DEF Idle, Jobs, Steps, Rates
  <2>3. cap \in Nat /\ ceiling \in Nat /\ cycle \in Cycles
    BY <2>1 DEF Init
  <2>4. usage \in [Cycles -> Nat] /\ charged \in [Cycles -> Nat]
    BY DEF Init
  <2>5. job \in [Workers -> Jobs]
    BY <2>2 DEF Init
  <2>6. period \in 0..MaxCycles /\ throttle \in Rates /\ reported \in Nat
    BY DEF Init, Rates
  <2>7. /\ recorded \subseteq Cycles \X Nat /\ late \subseteq Cycles \X Nat \X Nat
        /\ races \subseteq {"stale cycle", "timeout", "expired lock"}
        /\ metered \in BOOLEAN /\ lock \in BOOLEAN
        /\ changes \in Nat /\ crashes \in Nat
    BY DEF Init
  <2> QED
    BY <2>3, <2>4, <2>5, <2>6, <2>7 DEF TypeOK
<1>2. TargetsJustified
  BY DEF Init, TargetsJustified, Idle, Locked, Reporting
<1>3. Exclusive /\ late = {} /\ LockedView
  BY DEF Init, Exclusive, LockedView, Idle, Locked
<1>4. CounterBounds
  BY DEF Init, CounterBounds, Cycles
<1> QED
  BY <1>1, <1>2, <1>3, <1>4 DEF IInv

--------------------------------------------------------------------------------
\* The numbers of a well-typed state.
LEMMA Numbers ==
  ASSUME TypeOK
  PROVE  /\ \A c \in Cycles : c \in Int /\ c # 0 /\ c \in 0..MaxCycles
         /\ \A c \in Cycles : charged[c] \in Nat /\ Overage(c) \in Nat
         /\ period \in Int /\ period >= 0 /\ reported \in Nat /\ ceiling \in Nat
         /\ cycle \in Cycles /\ cap \in Nat
<1>1. \A c \in Cycles : c \in Int /\ c # 0 /\ c \in 0..MaxCycles
  BY BoundsAssumption DEF Cycles
<1>2. period \in 0..MaxCycles /\ reported \in Nat /\ ceiling \in Nat
      /\ cycle \in Cycles /\ cap \in Nat
  BY DEF TypeOK
<1>3. period \in Int /\ period >= 0
  BY <1>2, BoundsAssumption
<1>4. charged \in [Cycles -> Nat] /\ usage \in [Cycles -> Nat]
  BY DEF TypeOK
<1>5. \A c \in Cycles : charged[c] \in Nat /\ Overage(c) \in Nat
  BY <1>4, PlanAssumption DEF Overage
<1> QED
  BY <1>1, <1>2, <1>3, <1>5

\* The numbers of a check.
LEMMA JobNumbers ==
  ASSUME TypeOK, NEW w \in Workers
  PROVE  /\ job[w] \in Jobs /\ job[w].cap \in Nat /\ job[w].target \in Nat
         /\ job[w].base \in Nat /\ job[w].cyc \in Int
<1>1. job[w] \in Jobs
  BY DEF TypeOK
<1> QED
  BY <1>1, BoundsAssumption DEF Jobs

\* Only check w moves, to step.
Moves(w, step) ==
  /\ job' \in [Workers -> Jobs]
  /\ job'[w].pc = step
  /\ \A v \in Workers : v # w => job'[v] = job[v]

\* Check w keeps what it has loaded, counted and read.
Keeps(w) ==
  /\ job'[w].cap = job[w].cap /\ job'[w].cyc = job[w].cyc
  /\ job'[w].target = job[w].target /\ job'[w].base = job[w].base

\* Going to a step moves the worker and keeps what it read.
LEMMA GotoMoves ==
  ASSUME TypeOK, NEW w \in Workers, NEW step \in Steps, Goto(w, step)
  PROVE  Moves(w, step) /\ Keeps(w)
<1>1. job' = [job EXCEPT ![w].pc = step] /\ job \in [Workers -> Jobs]
  BY DEF Goto, TypeOK
<1>2. job'[w] = [job[w] EXCEPT !.pc = step] /\ job[w] \in Jobs
  BY <1>1
<1>3. job'[w] \in Jobs /\ job'[w].pc = step /\ Keeps(w)
  BY <1>2 DEF Jobs, Keeps
<1> QED
  BY <1>1, <1>3 DEF Moves

\* A worker that is done is idle and holds no cap.
LEMMA IdleMoves ==
  ASSUME TypeOK, NEW w \in Workers, job' = [job EXCEPT ![w] = Idle]
  PROVE  Moves(w, "idle") /\ job'[w].cap = 0
<1>1. Idle \in Jobs
  BY BoundsAssumption DEF Idle, Jobs, Steps, Rates
<1>2. Idle.pc = "idle" /\ Idle.cap = 0
  BY DEF Idle
<1> QED
  BY <1>1, <1>2 DEF TypeOK, Moves

\* Recording a charge adds at most its units to the cycle, and nothing to another.
LEMMA RecordEffect ==
  ASSUME TypeOK, NEW c \in Cycles, NEW b \in Nat, NEW n \in Nat, Record(c, b, n)
  PROVE  /\ recorded' \subseteq Cycles \X Nat
         /\ charged' \in [Cycles -> Nat]
         /\ charged'[c] <= charged[c] + n
         /\ \A d \in Cycles : d # c => charged'[d] = charged[d]
<1>1. charged \in [Cycles -> Nat] /\ charged[c] \in Nat
  BY DEF TypeOK
<1>2. CASE <<c, b>> \in recorded
  <2>1. recorded' = recorded /\ charged' = charged
    BY <1>2 DEF Record
  <2>2. recorded' \subseteq Cycles \X Nat
    BY <2>1, Zenon DEF TypeOK
  <2> QED
    BY <1>1, <2>1, <2>2
<1>3. CASE <<c, b>> \notin recorded
  <2>1. /\ recorded' = recorded \cup {<<c, b>>}
        /\ charged' = [charged EXCEPT ![c] = @ + n]
    BY <1>3 DEF Record
  <2>2. recorded' \subseteq Cycles \X Nat
    <3>1. <<c, b>> \in Cycles \X Nat
      OBVIOUS
    <3> QED
      BY <2>1, <3>1, Zenon DEF TypeOK
  <2>3. charged[c] + n \in Nat
    BY <1>1
  <2>4. /\ charged' \in [Cycles -> Nat] /\ charged'[c] = charged[c] + n
        /\ \A d \in Cycles : d # c => charged'[d] = charged[d]
    BY <1>1, <2>1, <2>3
  <2> QED
    BY <2>2, <2>3, <2>4
<1> QED
  BY <1>2, <1>3

\* A step that moves one check without changing what it holds, and touches
\* neither usage nor ceiling, keeps targets justified.
LEMMA TargetsKept ==
  ASSUME TypeOK, TargetsJustified, NEW w \in Workers, NEW step,
         Moves(w, step), Keeps(w),
         job[w].pc \in Locked \cup {"lock"} \/ step \notin Locked \cup {"lock"},
         step \in Reporting => job[w].pc \in Reporting,
         UNCHANGED <<usage, ceiling, cap>>
  PROVE  TargetsJustified'
<1>1. \A v \in Workers : /\ job'[v].cap = job[v].cap /\ job'[v].cyc = job[v].cyc
                         /\ job'[v].target = job[v].target /\ job'[v].base = job[v].base
  BY DEF Moves, Keeps
<1>2. \A v \in Workers : job'[v].pc \in Locked \cup {"lock"} =>
                           job[v].pc \in Locked \cup {"lock"}
  BY DEF Moves
<1>3. \A v \in Workers : job'[v].pc \in Reporting => job[v].pc \in Reporting
  BY DEF Moves
<1> QED
  BY <1>1, <1>2, <1>3 DEF TargetsJustified, Overage

\* A step that moves a check without entering or leaving the locked part.
LEMMA ExclusiveKept ==
  ASSUME Exclusive, NEW w \in Workers, NEW step, Moves(w, step),
         job[w].pc \in Locked \/ step \notin Locked, lock' = lock
  PROVE  Exclusive'
BY DEF Exclusive, Moves

\* Without new charges, usage or counter values the counter keeps its bounds.
LEMMA BoundsKept ==
  ASSUME CounterBounds, UNCHANGED <<usage, subVars, charged, ceiling>>
  PROVE  CounterBounds'
BY DEF CounterBounds, WithinOverage, Overage, subVars

\* A step outside the lock leaves the views inside it alone.
LEMMA ViewKept ==
  ASSUME LockedView, NEW w \in Workers, NEW step, Moves(w, step),
         step \in {"idle", "count", "lock", "read", "unlock", "rate"},
         UNCHANGED <<subVars, charged>>
  PROVE  LockedView'
BY DEF LockedView, Moves, subVars
--------------------------------------------------------------------------------
\* Every action preserves the inductive invariant.
LEMMA StepIInv == IInv /\ [Next]_vars => IInv'
<1> SUFFICES ASSUME IInv, [Next]_vars PROVE IInv'
  OBVIOUS
<1> USE BoundsAssumption
<1> TypeOK /\ TargetsJustified
  BY DEF IInv
<1>1. ASSUME NEW w \in Workers, LoadOrg(w) PROVE IInv'
  <2>a. /\ job' = [job EXCEPT ![w] = [Idle EXCEPT !.pc = "count", !.cap = cap,
                                        !.metered = metered, !.rate = throttle]]
        /\ UNCHANGED <<usage, cycle, orgVars, subVars, lock, stripeVars, histVars>>
    BY <1>1 DEF LoadOrg
  <2>b. Moves(w, "count") /\ job'[w].cap = cap
    <3>1. [Idle EXCEPT !.pc = "count", !.cap = cap, !.metered = metered,
                       !.rate = throttle] \in Jobs
      <4>1. cap \in Nat /\ metered \in BOOLEAN /\ throttle \in Rates
        BY DEF TypeOK
      <4>2. Idle \in Jobs /\ "count" \in Steps
        BY DEF Idle, Jobs, Steps, Rates
      <4> QED
        BY <4>1, <4>2 DEF Jobs
    <3> QED
      BY <2>a, <3>1 DEF Moves, Idle, TypeOK
  <2>1. TypeOK'
    BY <2>a, <2>b DEF TypeOK, Moves, orgVars, subVars, stripeVars, histVars
  <2>2. TargetsJustified'
    BY <2>a, <2>b DEF TargetsJustified, Moves, Overage, Locked, Reporting, orgVars, histVars
  <2>3. races' = {} => Exclusive' /\ late' = {} /\ CounterBounds' /\ LockedView'
    BY <1>1, <2>a, <2>b, ExclusiveKept, BoundsKept, ViewKept
       DEF IInv, Locked, stripeVars, histVars
  <2> QED
    BY <2>1, <2>2, <2>3 DEF IInv
<1>2. ASSUME NEW w \in Workers, CountEvents(w) PROVE IInv'
  <2> DEFINE step == IF job[w].metered THEN "lock" ELSE "rate"
             target == Billable(usage[cycle], job[w].cap)
  <2>a. /\ job' = [job EXCEPT ![w] = [@ EXCEPT !.pc = step, !.cyc = cycle,
                                        !.use = usage[cycle], !.target = target]]
        /\ UNCHANGED <<usage, cycle, orgVars, subVars, lock, stripeVars, histVars>>
        /\ job[w].pc = "count"
    BY <1>2 DEF CountEvents, At
  <2>b. /\ usage[cycle] \in Nat /\ job[w] \in Jobs /\ job[w].cap \in Nat
        /\ target \in Nat /\ target <= job[w].cap /\ target <= Overage(cycle)
    <3>1. usage[cycle] \in Nat
      BY DEF TypeOK
    <3> QED
      BY <3>1, JobNumbers, BillableBounds DEF Overage
  <2> HIDE DEF target
  <2>c. /\ Moves(w, step) /\ job'[w].cap = job[w].cap /\ job'[w].cyc = cycle
        /\ job'[w].target = target
    <3>1. cycle \in 0..MaxCycles /\ step \in Steps
      BY Numbers DEF Steps
    <3>2. job'[w] = [job[w] EXCEPT !.pc = step, !.cyc = cycle,
                                   !.use = usage[cycle], !.target = target]
      BY <2>a DEF TypeOK
    <3>3. job'[w] \in Jobs
      BY <2>b, <3>1, <3>2 DEF Jobs
    <3>4. /\ job'[w].pc = step /\ job'[w].cap = job[w].cap
          /\ job'[w].cyc = cycle /\ job'[w].target = target
      BY <2>b, <3>2 DEF Jobs
    <3> QED
      BY <2>a, <3>3, <3>4 DEF Moves, TypeOK
  <2> HIDE DEF step
  <2>1. TypeOK'
    BY <2>a, <2>c DEF TypeOK, Moves, orgVars, subVars, stripeVars, histVars
  <2>2. TargetsJustified'
    <3>1. \A v \in Workers \ {w} : job'[v] = job[v]
      BY <2>c DEF Moves
    <3>2. /\ ceiling \in Nat /\ ceiling' = ceiling /\ cap' = cap
          /\ usage' = usage /\ cycle \in Cycles
      BY <2>a DEF TypeOK, orgVars, histVars
    <3> QED
      BY <2>b, <2>c, <3>1, <3>2 DEF TargetsJustified, Moves, Overage, Reporting, step
  <2>3. races' = {} => Exclusive' /\ late' = {} /\ CounterBounds' /\ LockedView'
    BY <2>a, <2>c, ExclusiveKept, BoundsKept, ViewKept
       DEF IInv, Locked, stripeVars, histVars, step
  <2> QED
    BY <2>1, <2>2, <2>3 DEF IInv
<1>3. ASSUME NEW w \in Workers, TakeLock(w) PROVE IInv'
  <2> DEFINE step == IF lock THEN "rate" ELSE "read"
  <2>a. /\ job[w].pc = "lock" /\ lock' = TRUE /\ Goto(w, step)
        /\ UNCHANGED <<usage, cycle, orgVars, subVars, stripeVars, histVars>>
    BY <1>3 DEF TakeLock, At
  <2>b. Moves(w, step) /\ Keeps(w)
    BY <2>a, GotoMoves DEF Steps
  <2>1. TypeOK'
    BY <2>a, <2>b DEF TypeOK, Moves, orgVars, subVars, stripeVars, histVars
  <2>2. TargetsJustified'
    BY <2>a, <2>b, TargetsKept DEF Reporting, orgVars, histVars
  <2>3. races' = {} => Exclusive' /\ late' = {} /\ CounterBounds' /\ LockedView'
    <3>1. races = {} => Exclusive'
      BY <2>a, <2>b DEF IInv, Exclusive, Moves, Locked
    <3> QED
      BY <2>a, <2>b, <3>1, BoundsKept, ViewKept DEF IInv, stripeVars, histVars
  <2> QED
    BY <2>1, <2>2, <2>3 DEF IInv
<1>4. ASSUME NEW w \in Workers, ReadCounter(w) PROVE IInv'
  <2> DEFINE base == IF period = job[w].cyc THEN reported ELSE 0
             step == IF job[w].target > base THEN "persist"
                     ELSE IF period # job[w].cyc THEN "reset" ELSE "unlock"
  <2>a. /\ job[w].pc = "read"
        /\ job' = [job EXCEPT ![w] = [@ EXCEPT !.base = base, !.pc = step]]
        /\ UNCHANGED <<usage, cycle, orgVars, subVars, lock, stripeVars, histVars>>
    BY <1>4 DEF ReadCounter, At
  <2>b. /\ job[w] \in Jobs /\ base \in Nat /\ step \in Steps
        /\ job[w].target \in Nat
    <3>1. job[w] \in Jobs /\ base \in Nat
      BY DEF TypeOK
    <3> QED
      BY <3>1 DEF Jobs, Steps
  <2>c. job'[w] = [job[w] EXCEPT !.base = base, !.pc = step]
    BY <2>a DEF TypeOK
  <2>d. /\ step \in {"persist", "reset", "unlock"}
        /\ step = "persist" => base < job[w].target
        /\ step = "reset" => period # job[w].cyc /\ job[w].target = 0
    BY <2>b
  <2>e. base = (IF period = job[w].cyc THEN reported ELSE 0)
    OBVIOUS
  <2> HIDE DEF base, step
  <2>f. /\ job'[w] \in Jobs /\ job'[w].pc = step /\ job'[w].base = base
        /\ job'[w].cap = job[w].cap /\ job'[w].cyc = job[w].cyc
        /\ job'[w].target = job[w].target
    BY <2>b, <2>c DEF Jobs
  <2>g. Moves(w, step)
    BY <2>a, <2>f DEF Moves, TypeOK
  <2>1. TypeOK'
    BY <2>a, <2>g DEF TypeOK, Moves, orgVars, subVars, stripeVars, histVars
  <2>2. TargetsJustified'
    BY <2>a, <2>d, <2>f, <2>g DEF TargetsJustified, Moves, Overage, Locked, Reporting,
       orgVars, histVars
  <2>3. races' = {} => Exclusive' /\ late' = {} /\ CounterBounds' /\ LockedView'
    <3>1. LockedView => LockedView'
      BY <2>a, <2>d, <2>e, <2>f, <2>g DEF LockedView, Moves, subVars, stripeVars
    <3> QED
      BY <2>a, <2>d, <2>g, <3>1, ExclusiveKept, BoundsKept
         DEF IInv, Locked, stripeVars, histVars
  <2> QED
    BY <2>1, <2>2, <2>3 DEF IInv
<1>5. ASSUME NEW w \in Workers, Persist(w) PROVE IInv'
  <2> DEFINE advances == period # job[w].cyc \/ reported < job[w].target
             step == IF job[w].pc = "persist" THEN "send" ELSE "unlock"
  <2>a. /\ job[w].pc \in {"persist", "reset"} /\ Goto(w, step)
        /\ reported' = (IF advances THEN job[w].target ELSE reported)
        /\ period' = (IF advances THEN job[w].cyc ELSE period)
        /\ races' = (IF advances /\ job[w].cyc < period
                     THEN races \cup {"stale cycle"} ELSE races)
        /\ UNCHANGED <<usage, cycle, orgVars, lock, stripeVars, ceiling, changes,
                       crashes>>
    BY <1>5 DEF Persist
  <2>b. Moves(w, step) /\ Keeps(w)
    BY <2>a, GotoMoves DEF Steps
  <2>c. /\ job[w].cyc \in Cycles /\ job[w].target \in Nat /\ job[w].base \in Nat
        /\ job[w].target <= Overage(job[w].cyc) /\ job[w].target <= ceiling
    <3>2. job[w].target \in Nat /\ job[w].base \in Nat
      BY JobNumbers
    <3> QED
      BY <2>a, <3>2 DEF TargetsJustified, Locked
  <2>1. TypeOK'
    <3>0. period \in 0..MaxCycles
      BY DEF TypeOK
    <3>1. reported' \in Nat /\ period' \in 0..MaxCycles
      BY <2>a, <2>c, <3>0, Numbers
    <3>2. races' \subseteq {"stale cycle", "timeout", "expired lock"}
      BY <2>a DEF TypeOK
    <3> QED
      BY <2>a, <2>b, <3>1, <3>2 DEF TypeOK, Moves, orgVars, stripeVars
  <2>2. TargetsJustified'
    BY <2>a, <2>b, TargetsKept DEF Locked, Reporting, orgVars
  <2>3. races' = {} => Exclusive' /\ late' = {} /\ CounterBounds' /\ LockedView'
    <3> SUFFICES ASSUME races' = {}
                 PROVE  Exclusive' /\ late' = {} /\ CounterBounds' /\ LockedView'
      OBVIOUS
    <3>1. /\ races = {} /\ (advances => period <= job[w].cyc)
          /\ period \in Int /\ job[w].cyc \in Int /\ period >= 0
      <4>1. ~(advances /\ job[w].cyc < period)
        BY <2>a
      <4>2. races = {}
        BY <2>a, <4>1
      <4> QED
        BY <2>c, <4>1, <4>2, Numbers
    <3>2. Exclusive /\ late = {} /\ CounterBounds /\ LockedView
      BY <3>1 DEF IInv
    <3>3. advances
      BY <2>a, <3>2 DEF LockedView, TargetsJustified, Reporting
    <3>4. /\ reported' = job[w].target /\ period' = job[w].cyc
          /\ job[w].cyc # 0 /\ charged' = charged /\ usage' = usage
      BY <2>a, <2>c, <3>3, Numbers DEF stripeVars
    <3>5. /\ charged[job[w].cyc] <= job[w].target
          /\ job[w].pc = "persist" => charged[job[w].cyc] <= job[w].base
      <4>1. CASE period = job[w].cyc
        <5>1. charged[job[w].cyc] <= reported
          BY <4>1, <3>2, <3>4 DEF CounterBounds
        <5>2. job[w].pc = "persist" /\ job[w].base = reported /\ reported < job[w].target
          BY <2>a, <4>1, <3>2 DEF LockedView, TargetsJustified, Reporting
        <5> QED
          BY <5>1, <5>2, <2>c, Numbers
      <4>2. CASE period # job[w].cyc
        <5>1. charged[job[w].cyc] = 0
          BY <4>2, <3>1, <3>2, <3>3, <2>c DEF CounterBounds
        <5> QED
          BY <5>1, <2>c
      <4> QED
        BY <4>1, <4>2
    <3>6. CounterBounds'
      <4>1. \A c \in Cycles : IF c > job[w].cyc THEN charged[c] = 0 ELSE WithinOverage(c)
        <5> SUFFICES ASSUME NEW c \in Cycles
                     PROVE  IF c > job[w].cyc THEN charged[c] = 0 ELSE WithinOverage(c)
          OBVIOUS
        <5>1. c \in Int /\ charged[c] \in Nat /\ Overage(c) \in Nat /\ ceiling \in Nat
          BY Numbers
        <5>2. IF c > period THEN charged[c] = 0 ELSE WithinOverage(c)
          BY <3>2 DEF CounterBounds
        <5>3. CASE c = job[w].cyc
          BY <5>1, <5>3, <3>5, <2>c DEF WithinOverage
        <5>4. CASE c # job[w].cyc
          BY <5>1, <5>2, <5>4, <3>1, <3>3 DEF WithinOverage
        <5> QED
          BY <5>3, <5>4
      <4>2. \A c \in Cycles : WithinOverage(c)' = WithinOverage(c)
        BY <2>a, <3>4 DEF WithinOverage, Overage
      <4>3. Overage(job[w].cyc) = (IF usage'[job[w].cyc] > Plan
                                   THEN usage'[job[w].cyc] - Plan ELSE 0)
        BY <3>4 DEF Overage
      <4> QED
        BY <2>a, <2>c, <3>4, <3>5, <4>1, <4>2, <4>3 DEF CounterBounds, Overage
    <3>7. LockedView'
      <4>1. \A v \in Workers : v # w => job'[v].pc \notin Locked
        BY <2>a, <2>b, <3>2 DEF Exclusive, Moves, Locked
      <4>2. job[w].pc = "persist" => job[w].base < job[w].target
        BY DEF TargetsJustified, Reporting
      <4> QED
        BY <2>a, <2>b, <3>4, <3>5, <4>1, <4>2 DEF LockedView, Moves, Keeps, Locked
    <3> QED
      BY <2>a, <2>b, <3>2, <3>6, <3>7, ExclusiveKept DEF Locked, stripeVars
  <2> QED
    BY <2>1, <2>2, <2>3 DEF IInv
<1>6. ASSUME NEW w \in Workers, SendAnswered(w) PROVE IInv'
  <2> DEFINE n == job[w].target - job[w].base
  <2>a. /\ job[w].pc = "send" /\ Goto(w, "unlock")
        /\ Record(job[w].cyc, job[w].base, n)
        /\ UNCHANGED <<usage, cycle, orgVars, subVars, lock, late, histVars>>
    BY <1>6 DEF SendAnswered, At
  <2>b. Moves(w, "unlock") /\ Keeps(w)
    BY <2>a, GotoMoves DEF Steps
  <2>c. /\ job[w].cyc \in Cycles /\ job[w].target \in Nat /\ job[w].base \in Nat
        /\ n \in Nat
    <3>2. job[w].target \in Nat /\ job[w].base \in Nat
      BY JobNumbers
    <3>3. job[w].cyc \in Cycles
      BY <2>a DEF TargetsJustified, Locked
    <3>4. job[w].base <= job[w].target
      BY <2>a, <3>2 DEF TargetsJustified, Reporting
    <3> QED
      BY <3>2, <3>3, <3>4
  <2>d. /\ recorded' \subseteq Cycles \X Nat /\ charged' \in [Cycles -> Nat]
        /\ charged'[job[w].cyc] <= charged[job[w].cyc] + n
        /\ \A c \in Cycles : c # job[w].cyc => charged'[c] = charged[c]
    BY <2>a, <2>c, RecordEffect
  <2>1. TypeOK'
    BY <2>a, <2>b, <2>d DEF TypeOK, Moves, orgVars, subVars, histVars
  <2>2. TargetsJustified'
    BY <2>a, <2>b, TargetsKept DEF Locked, Reporting, orgVars, histVars
  <2>3. races' = {} => Exclusive' /\ late' = {} /\ CounterBounds' /\ LockedView'
    <3> SUFFICES ASSUME races' = {}
                 PROVE  Exclusive' /\ late' = {} /\ CounterBounds' /\ LockedView'
      OBVIOUS
    <3>1. Exclusive /\ late = {} /\ CounterBounds /\ LockedView
      BY <2>a DEF IInv, histVars
    <3>2. /\ period = job[w].cyc /\ reported = job[w].target
          /\ charged[period] <= job[w].base
      BY <2>a, <3>1 DEF LockedView
    <3>3. /\ charged'[period] <= reported
          /\ \A c \in Cycles : c # period => charged'[c] = charged[c]
      BY <2>c, <2>d, <3>2, Numbers
    <3>4. CounterBounds'
      <4>1. /\ period' = period /\ reported' = reported /\ usage' = usage
            /\ ceiling' = ceiling
        BY <2>a DEF subVars, histVars
      <4>2. /\ period # 0 /\ period \in Cycles
            /\ reported <= Overage(period) /\ reported <= ceiling
        BY <2>c, <3>1, <3>2 DEF CounterBounds, Cycles
      <4>3. charged'[period] \in Nat /\ reported \in Nat /\ ceiling \in Nat
            /\ Overage(period) \in Nat
        BY <2>d, <4>2, Numbers
      <4>4. charged'[period] <= Overage(period) /\ charged'[period] <= ceiling
        BY <3>3, <4>2, <4>3
      <4>5. \A c \in Cycles : IF c > period THEN charged'[c] = 0
                              ELSE charged'[c] <= Overage(c) /\ charged'[c] <= ceiling
        <5>1. \A c \in Cycles : IF c > period THEN charged[c] = 0
                                ELSE charged[c] <= Overage(c) /\ charged[c] <= ceiling
          BY <3>1 DEF CounterBounds, WithinOverage
        <5>2. ~(period > period)
          BY <4>2 DEF Cycles
        <5> QED
          BY <3>3, <4>4, <5>1, <5>2
      <4>6. \A c \in Cycles : Overage(c)' = Overage(c)
        BY <4>1 DEF Overage
      <4> QED
        BY <3>3, <4>1, <4>2, <4>5, <4>6 DEF CounterBounds, WithinOverage, Overage
    <3>5. LockedView'
      <4>1. \A v \in Workers : v # w => job'[v].pc \notin Locked
        BY <2>a, <2>b, <3>1 DEF Exclusive, Moves, Locked
      <4> QED
        BY <2>b, <4>1 DEF LockedView, Moves, Locked
    <3> QED
      BY <2>a, <2>b, <3>1, <3>4, <3>5, ExclusiveKept DEF Locked
  <2> QED
    BY <2>1, <2>2, <2>3 DEF IInv
<1>7. ASSUME NEW w \in Workers, SendRefused(w) PROVE IInv'
  <2>a. /\ job[w].pc = "send" /\ Goto(w, "rollback")
        /\ UNCHANGED <<usage, cycle, orgVars, subVars, lock, stripeVars, histVars>>
    BY <1>7 DEF SendRefused, At
  <2>b. Moves(w, "rollback") /\ Keeps(w)
    BY <2>a, GotoMoves DEF Steps
  <2>1. TypeOK'
    BY <2>a, <2>b DEF TypeOK, Moves, orgVars, subVars, stripeVars, histVars
  <2>2. TargetsJustified'
    BY <2>a, <2>b, TargetsKept DEF Locked, Reporting, orgVars, histVars
  <2>3. races' = {} => Exclusive' /\ late' = {} /\ CounterBounds' /\ LockedView'
    <3>1. LockedView => LockedView'
      BY <2>a, <2>b DEF LockedView, Moves, Keeps, subVars, stripeVars
    <3> QED
      BY <2>a, <2>b, <3>1, ExclusiveKept, BoundsKept
         DEF IInv, Locked, stripeVars, histVars
  <2> QED
    BY <2>1, <2>2, <2>3 DEF IInv
<1>8. ASSUME NEW w \in Workers, SendTimesOut(w) PROVE IInv'
  <2> DEFINE r == <<job[w].cyc, job[w].base, job[w].target - job[w].base>>
  <2>a. /\ job[w].pc = "send" /\ Goto(w, "rollback")
        /\ late' = late \cup {r} /\ races' = races \cup {"timeout"}
        /\ UNCHANGED <<usage, cycle, orgVars, subVars, lock, recorded, charged,
                       ceiling, changes, crashes>>
    BY <1>8 DEF SendTimesOut, At
  <2>b. Moves(w, "rollback") /\ Keeps(w)
    BY <2>a, GotoMoves DEF Steps
  <2>1. TypeOK'
    <3>1. job[w].cyc \in Cycles /\ job[w].base < job[w].target
      BY <2>a DEF TargetsJustified, Locked, Reporting
    <3>2. job[w].base \in Nat /\ job[w].target - job[w].base \in Nat
      BY <3>1, JobNumbers
    <3>3. r \in Cycles \X Nat \X Nat
      BY <3>1, <3>2
    <3> HIDE DEF r
    <3>4. late' \subseteq Cycles \X Nat \X Nat
      BY <2>a, <3>3, Zenon DEF TypeOK
    <3>5. races' \subseteq {"stale cycle", "timeout", "expired lock"}
      BY <2>a DEF TypeOK
    <3> QED
      BY <2>a, <2>b, <3>4, <3>5 DEF TypeOK, Moves, orgVars, subVars
  <2>2. TargetsJustified'
    BY <2>a, <2>b, TargetsKept DEF Locked, Reporting, orgVars
  <2>3. races' = {} => Exclusive' /\ late' = {} /\ CounterBounds' /\ LockedView'
    BY <2>a
  <2> QED
    BY <2>1, <2>2, <2>3 DEF IInv
<1>9. ASSUME NEW w \in Workers, Rollback(w) PROVE IInv'
  <2>a. /\ job[w].pc = "rollback" /\ Goto(w, "unlock")
        /\ reported' = (IF period = job[w].cyc /\ reported = job[w].target
                        THEN job[w].base ELSE reported)
        /\ UNCHANGED <<usage, cycle, orgVars, period, lock, stripeVars, histVars>>
    BY <1>9 DEF Rollback, At
  <2>b. Moves(w, "unlock") /\ Keeps(w)
    BY <2>a, GotoMoves DEF Steps
  <2>1. TypeOK'
    <3>1. reported' \in Nat
      BY <2>a, JobNumbers, Numbers
    <3> QED
      BY <2>a, <2>b, <3>1 DEF TypeOK, Moves, orgVars, stripeVars, histVars
  <2>2. TargetsJustified'
    BY <2>a, <2>b, TargetsKept DEF Locked, Reporting, orgVars, histVars
  <2>3. races' = {} => Exclusive' /\ late' = {} /\ CounterBounds' /\ LockedView'
    <3> SUFFICES ASSUME races = {}
                 PROVE  Exclusive' /\ late' = {} /\ CounterBounds' /\ LockedView'
      BY <2>a DEF histVars
    <3>1. Exclusive /\ late = {} /\ CounterBounds /\ LockedView
      BY DEF IInv
    <3>2. /\ period = job[w].cyc /\ reported = job[w].target
          /\ charged[period] <= job[w].base /\ period \in Cycles
          /\ job[w].base < job[w].target /\ reported' = job[w].base
      BY <2>a, <3>1 DEF LockedView, TargetsJustified, Locked, Reporting
    <3>3. /\ reported <= Overage(period) /\ reported <= ceiling
      BY <3>1, <3>2, Numbers DEF CounterBounds
    <3>4. reported' <= Overage(period) /\ reported' <= ceiling
      BY <3>2, <3>3, Numbers, JobNumbers
    <3>5. CounterBounds'
      BY <2>a, <3>1, <3>2, <3>4
         DEF CounterBounds, WithinOverage, Overage, stripeVars, histVars
    <3>6. LockedView'
      <4>1. \A v \in Workers : v # w => job'[v].pc \notin Locked
        BY <2>a, <2>b, <3>1 DEF Exclusive, Moves, Locked
      <4> QED
        BY <2>b, <4>1 DEF LockedView, Moves, Locked
    <3> QED
      BY <2>a, <2>b, <3>1, <3>5, <3>6, ExclusiveKept DEF Locked, stripeVars
  <2> QED
    BY <2>1, <2>2, <2>3 DEF IInv
<1>10. ASSUME NEW w \in Workers, Unlock(w) PROVE IInv'
  <2>a. /\ job[w].pc = "unlock" /\ lock' = FALSE /\ Goto(w, "rate")
        /\ UNCHANGED <<usage, cycle, orgVars, subVars, stripeVars, histVars>>
    BY <1>10 DEF Unlock, At
  <2>b. Moves(w, "rate") /\ Keeps(w)
    BY <2>a, GotoMoves DEF Steps
  <2>1. TypeOK'
    BY <2>a, <2>b DEF TypeOK, Moves, orgVars, subVars, stripeVars, histVars
  <2>2. TargetsJustified'
    BY <2>a, <2>b, TargetsKept DEF Locked, Reporting, orgVars, histVars
  <2>3. races' = {} => Exclusive' /\ late' = {} /\ CounterBounds' /\ LockedView'
    <3>1. Exclusive => Exclusive'
      BY <2>a, <2>b DEF Exclusive, Moves, Locked
    <3> QED
      BY <2>a, <2>b, <3>1, BoundsKept, ViewKept DEF IInv, stripeVars, histVars
  <2> QED
    BY <2>1, <2>2, <2>3 DEF IInv
<1>11. ASSUME NEW w \in Workers, SaveThrottle(w) PROVE IInv'
  <2>a. /\ job' = [job EXCEPT ![w] = Idle]
        /\ UNCHANGED <<usage, cycle, cap, metered, subVars, lock, stripeVars,
                       histVars>>
    BY <1>11 DEF SaveThrottle
  <2>b. Moves(w, "idle") /\ job'[w].cap = 0
    BY <2>a, IdleMoves
  <2>1. TypeOK'
    <3>1. throttle' \in Rates
      BY <1>11, RateType DEF SaveThrottle, TypeOK
    <3> QED
      BY <2>a, <2>b, <3>1 DEF TypeOK, Moves, subVars, stripeVars, histVars
  <2>2. TargetsJustified'
    <3>1. 0 <= ceiling
      BY Numbers
    <3> QED
      BY <2>a, <2>b, <3>1 DEF TargetsJustified, Moves, Overage, Locked, Reporting,
         orgVars, histVars
  <2>3. races' = {} => Exclusive' /\ late' = {} /\ CounterBounds' /\ LockedView'
    BY <2>a, <2>b, ExclusiveKept, BoundsKept, ViewKept
       DEF IInv, Locked, stripeVars, histVars
  <2> QED
    BY <2>1, <2>2, <2>3 DEF IInv
<1>12. ASSUME NEW w \in Workers, Crash(w) PROVE IInv'
  <2>a. /\ job' = [job EXCEPT ![w] = Idle] /\ crashes' = crashes + 1
        /\ UNCHANGED <<usage, cycle, orgVars, subVars, lock, stripeVars, ceiling,
                       races, changes>>
    BY <1>12 DEF Crash
  <2>b. Moves(w, "idle") /\ job'[w].cap = 0
    BY <2>a, IdleMoves
  <2>1. TypeOK'
    <3>1. crashes' \in Nat
      <4>1. crashes \in Nat
        BY DEF TypeOK
      <4> QED
        BY <2>a, <4>1
    <3> QED
      BY <2>a, <2>b, <3>1 DEF TypeOK, Moves, orgVars, subVars, stripeVars
  <2>2. TargetsJustified'
    <3>1. 0 <= ceiling
      BY Numbers
    <3> QED
      BY <2>a, <2>b, <3>1 DEF TargetsJustified, Moves, Overage, Locked, Reporting,
         orgVars, histVars
  <2>3. races' = {} => Exclusive' /\ late' = {} /\ CounterBounds' /\ LockedView'
    BY <2>a, <2>b, ExclusiveKept, BoundsKept, ViewKept
       DEF IInv, Locked, stripeVars, histVars
  <2> QED
    BY <2>1, <2>2, <2>3 DEF IInv
<1>13. ASSUME ExpireLock PROVE IInv'
  <2>a. /\ lock' = FALSE
        /\ races' = (IF \E w \in Workers : job[w].pc \in Locked
                     THEN races \cup {"expired lock"} ELSE races)
        /\ UNCHANGED <<usage, cycle, orgVars, subVars, stripeVars, job, ceiling,
                       changes, crashes>>
    BY <1>13 DEF ExpireLock
  <2>1. TypeOK'
    <3>1. races' \subseteq {"stale cycle", "timeout", "expired lock"}
      BY <2>a DEF TypeOK
    <3> QED
      BY <2>a, <3>1 DEF TypeOK, orgVars, subVars, stripeVars
  <2>2. TargetsJustified'
    BY <2>a DEF TargetsJustified, Overage, orgVars
  <2>3. races' = {} => Exclusive' /\ late' = {} /\ CounterBounds' /\ LockedView'
    <3> SUFFICES ASSUME races' = {}
                 PROVE  Exclusive' /\ late' = {} /\ CounterBounds' /\ LockedView'
      OBVIOUS
    <3>1. \A w \in Workers : job[w].pc \notin Locked
      BY <2>a
    <3>2. races = {}
      BY <2>a, <3>1
    <3>3. Exclusive'
      BY <2>a, <3>1 DEF Exclusive
    <3>4. LockedView => LockedView'
      BY <2>a DEF LockedView, subVars, stripeVars
    <3> QED
      BY <2>a, <3>2, <3>3, <3>4, BoundsKept DEF IInv, stripeVars
  <2> QED
    BY <2>1, <2>2, <2>3 DEF IInv
<1>14. ASSUME NEW r \in late, ArriveLate(r) PROVE IInv'
  <2>a. /\ late' = late \ {r} /\ Record(r[1], r[2], r[3])
        /\ UNCHANGED <<usage, cycle, orgVars, subVars, lock, job, histVars>>
    BY <1>14 DEF ArriveLate
  <2>b. r[1] \in Cycles /\ r[2] \in Nat /\ r[3] \in Nat
    <3>1. r \in Cycles \X Nat \X Nat
      BY Zenon DEF TypeOK
    <3> QED
      BY <3>1
  <2>c. recorded' \subseteq Cycles \X Nat /\ charged' \in [Cycles -> Nat]
    BY <2>a, <2>b, RecordEffect
  <2>1. TypeOK'
    <3>1. late' \subseteq Cycles \X Nat \X Nat
      BY <2>a, Zenon DEF TypeOK
    <3> QED
      BY <2>a, <2>c, <3>1 DEF TypeOK, orgVars, subVars, histVars
  <2>2. TargetsJustified'
    BY <2>a DEF TargetsJustified, Overage, orgVars, histVars
  <2>3. races' = {} => Exclusive' /\ late' = {} /\ CounterBounds' /\ LockedView'
    BY <2>a DEF IInv, histVars
  <2> QED
    BY <2>1, <2>2, <2>3 DEF IInv
<1>15. ASSUME NEW n \in 1..MaxUsage, UseEvents(n) PROVE IInv'
  <2>a. /\ usage[cycle] < n /\ usage' = [usage EXCEPT ![cycle] = n]
        /\ UNCHANGED <<cycle, orgVars, subVars, lock, stripeVars, job, histVars>>
    BY <1>15 DEF UseEvents
  <2>b. /\ usage' \in [Cycles -> Nat]
        /\ \A c \in Cycles : /\ Overage(c) \in Nat
                             /\ Overage(c) <= (IF usage'[c] > Plan
                                               THEN usage'[c] - Plan ELSE 0)
    <3>a. usage \in [Cycles -> Nat] /\ cycle \in Cycles
      BY DEF TypeOK
    <3>0. n \in Nat /\ usage \in [Cycles -> Nat] /\ cycle \in Cycles
      BY <3>a
    <3>1. usage' \in [Cycles -> Nat]
      BY <2>a, <3>0
    <3>2. \A c \in Cycles : usage[c] <= usage'[c]
      <4>1. \A c \in Cycles : c # cycle => usage'[c] = usage[c]
        BY <2>a, <3>0
      <4>2. usage'[cycle] = n
        BY <2>a, <3>0
      <4>3. \A c \in Cycles : usage[c] \in Nat
        BY <3>0
      <4> QED
        BY <2>a, <3>0, <4>1, <4>2, <4>3
    <3> QED
      BY <3>1, <3>2, OverageMonotone DEF Overage
  <2>1. TypeOK'
    BY <2>a, <2>b DEF TypeOK, orgVars, subVars, stripeVars, histVars
  <2>2. TargetsJustified'
    <3>1. \A w \in Workers : job[w].pc \in Locked \cup {"lock"} =>
            job[w].target <= (IF usage'[job[w].cyc] > Plan
                              THEN usage'[job[w].cyc] - Plan ELSE 0)
      <4> SUFFICES ASSUME NEW w \in Workers, job[w].pc \in Locked \cup {"lock"}
                   PROVE  job[w].target <= (IF usage'[job[w].cyc] > Plan
                                            THEN usage'[job[w].cyc] - Plan ELSE 0)
        OBVIOUS
      <4>1. job[w].cyc \in Cycles /\ job[w].target <= Overage(job[w].cyc)
        BY DEF TargetsJustified
      <4>2. usage'[job[w].cyc] \in Nat
        BY <2>b, <4>1
      <4> QED
        BY <2>b, <4>1, <4>2, JobNumbers, PlanAssumption
    <3> QED
      BY <2>a, <3>1 DEF TargetsJustified, Overage, orgVars, histVars
  <2>3. races' = {} => Exclusive' /\ late' = {} /\ CounterBounds' /\ LockedView'
    <3>1. CounterBounds => CounterBounds'
      <4> SUFFICES ASSUME CounterBounds PROVE CounterBounds'
        OBVIOUS
      <4>1. /\ period' = period /\ reported' = reported /\ charged' = charged
            /\ ceiling' = ceiling
        BY <2>a DEF subVars, stripeVars, histVars
      <4>2. \A c \in Cycles : usage'[c] \in Nat
        BY <2>b
      <4>3. \A c \in Cycles : WithinOverage(c) =>
              /\ charged[c] <= (IF usage'[c] > Plan THEN usage'[c] - Plan ELSE 0)
              /\ charged[c] <= ceiling
        BY <2>b, <4>2, Numbers, PlanAssumption DEF WithinOverage
      <4>4. period # 0 => period \in Cycles
        <5>1. period \in 0..MaxCycles
          BY DEF TypeOK
        <5> QED
          BY <5>1 DEF Cycles
      <4>5. period # 0 => reported <= (IF usage'[period] > Plan
                                       THEN usage'[period] - Plan ELSE 0)
        BY <2>b, <4>2, <4>4, Numbers, PlanAssumption DEF CounterBounds
      <4> QED
        BY <4>1, <4>3, <4>5 DEF CounterBounds, WithinOverage, Overage
    <3>2. LockedView => LockedView'
      BY <2>a DEF LockedView, subVars, stripeVars
    <3> QED
      BY <2>a, <3>1, <3>2 DEF IInv, Exclusive, stripeVars, histVars
  <2> QED
    BY <2>1, <2>2, <2>3 DEF IInv
<1>16. ASSUME RollOver PROVE IInv'
  <2>a. /\ cycle < MaxCycles /\ cycle' = cycle + 1
        /\ UNCHANGED <<usage, orgVars, subVars, lock, stripeVars, job, histVars>>
    BY <1>16 DEF RollOver
  <2>1. TypeOK'
    <3>1. cycle' \in Cycles
      <4>1. cycle \in 1..MaxCycles
        BY DEF TypeOK, Cycles
      <4> QED
        BY <2>a, <4>1 DEF Cycles
    <3> QED
      BY <2>a, <3>1 DEF TypeOK, orgVars, subVars, stripeVars, histVars
  <2>2. TargetsJustified'
    BY <2>a DEF TargetsJustified, Overage, orgVars, histVars
  <2>3. races' = {} => Exclusive' /\ late' = {} /\ CounterBounds' /\ LockedView'
    <3>1. LockedView => LockedView'
      BY <2>a DEF LockedView, subVars, stripeVars
    <3> QED
      BY <2>a, <3>1, BoundsKept DEF IInv, Exclusive, stripeVars, histVars
  <2> QED
    BY <2>1, <2>2, <2>3 DEF IInv
<1>17. ASSUME NEW enabled \in BOOLEAN, NEW newCap \in Caps, SetOverage(enabled, newCap)
      PROVE  IInv'
  <2>a. /\ metered' = enabled /\ cap' = (IF enabled THEN newCap ELSE cap)
        /\ ceiling' = (IF cap' > ceiling THEN cap' ELSE ceiling)
        /\ changes' = changes + 1
        /\ UNCHANGED <<usage, cycle, throttle, subVars, lock, stripeVars, job, races,
                       crashes>>
    BY <1>17 DEF SetOverage
  <2>b. cap' \in Nat /\ ceiling' \in Nat /\ ceiling <= ceiling' /\ cap' <= ceiling'
    <3>1. cap' \in Nat
      <4>1. cap \in Nat /\ newCap \in Nat
        BY Numbers, CapsAssumption
      <4>2. CASE enabled
        BY <2>a, <4>1, <4>2
      <4>3. CASE ~enabled
        BY <2>a, <4>1, <4>3
      <4> QED
        BY <4>2, <4>3
    <3>2. ceiling \in Nat
      BY Numbers
    <3>3. ceiling' = (IF cap' > ceiling THEN cap' ELSE ceiling)
      BY <2>a
    <3> QED
      BY <3>1, <3>2, <3>3
  <2>1. TypeOK'
    <3>1. changes' \in Nat
      <4>1. changes \in Nat
        BY DEF TypeOK
      <4> QED
        BY <2>a, <4>1
    <3>2. metered' \in BOOLEAN
      BY <2>a
    <3> QED
      BY <2>a, <2>b, <3>1, <3>2 DEF TypeOK, subVars, stripeVars
  <2>2. TargetsJustified'
    <3>1. \A w \in Workers : /\ job[w].cap <= ceiling'
                             /\ job[w].target <= ceiling => job[w].target <= ceiling'
      BY <2>b, JobNumbers, Numbers DEF TargetsJustified
    <3> QED
      BY <2>a, <2>b, <3>1 DEF TargetsJustified, Overage
  <2>3. races' = {} => Exclusive' /\ late' = {} /\ CounterBounds' /\ LockedView'
    <3>1. CounterBounds => CounterBounds'
      <4>1. reported <= ceiling => reported <= ceiling'
        BY <2>b, Numbers
      <4>2. \A c \in Cycles : charged[c] <= ceiling => charged[c] <= ceiling'
        BY <2>b, Numbers
      <4> QED
        BY <2>a, <4>1, <4>2
           DEF CounterBounds, WithinOverage, Overage, subVars, stripeVars
    <3>2. LockedView => LockedView'
      BY <2>a DEF LockedView, subVars, stripeVars
    <3> QED
      BY <2>a, <3>1, <3>2 DEF IInv, Exclusive, stripeVars
  <2> QED
    BY <2>1, <2>2, <2>3 DEF IInv
<1>18. ASSUME UNCHANGED vars PROVE IInv'
  <2>a. UNCHANGED <<usage, cycle, orgVars, subVars, lock, stripeVars, job, histVars>>
    BY <1>18 DEF vars
  <2>1. TypeOK'
    BY <2>a DEF TypeOK, orgVars, subVars, stripeVars, histVars
  <2>2. TargetsJustified'
    BY <2>a DEF TargetsJustified, Overage, orgVars, histVars
  <2>3. races' = {} => Exclusive' /\ late' = {} /\ CounterBounds' /\ LockedView'
    <3>1. LockedView => LockedView'
      BY <2>a DEF LockedView, subVars, stripeVars
    <3> QED
      BY <2>a, <3>1, BoundsKept DEF IInv, Exclusive, stripeVars, histVars
  <2> QED
    BY <2>1, <2>2, <2>3 DEF IInv
<1> QED
  BY <1>1, <1>2, <1>3, <1>4, <1>5, <1>6, <1>7, <1>8, <1>9, <1>10, <1>11, <1>12, <1>13, <1>14, <1>15, <1>16, <1>17, <1>18
     DEF Next, CheckStep

--------------------------------------------------------------------------------
\* The inductive invariant holds in every reachable state.
THEOREM OverageInvariant == Spec => []IInv
BY InitIInv, StepIInv, PTL DEF Spec

\* Type correctness of the billing model.
THEOREM OverageTypeOK == Spec => []TypeOK
<1>1. IInv => TypeOK
  BY DEF IInv
<1> QED
  BY <1>1, OverageInvariant, PTL

\* No interleaving of any number of checks, crashes, refusals, cap changes
\* and rollovers charges more than the overage of a cycle or the highest cap
\* chosen, unless the lock expired under its holder, a send timed out, or a
\* check of an old cycle moved the counter's anchor back.
THEOREM OverageNeedsARace == Spec => []OverchargeNeedsARace
<1>1. IInv => OverchargeNeedsARace
  <2> SUFFICES ASSUME IInv, races = {}, NEW c \in Cycles PROVE WithinOverage(c)
    BY DEF OverchargeNeedsARace
  <2>1. TypeOK /\ CounterBounds
    BY DEF IInv
  <2>2. charged[c] = 0 => WithinOverage(c)
    BY <2>1, Numbers DEF WithinOverage
  <2> QED
    BY <2>1, <2>2 DEF CounterBounds
<1> QED
  BY <1>1, OverageInvariant, PTL
--------------------------------------------------------------------------------
(***************************************************************************)
(* Nothing is stranded                                                     *)
(***************************************************************************)
\* The steps between writing the counter ahead and settling it.
Pending == {"send", "rollback"}

\* The counter and Stripe agree unless a check is settling its delta, which
\* starts from what Stripe has; identifiers of a cycle lie below its charges.
Settled ==
  /\ period # 0 /\ (\A w \in Workers : job[w].pc \notin Pending)
       => charged[period] = reported
  /\ \A w \in Workers : job[w].pc \in Pending => charged[period] = job[w].base
  /\ \A c \in Cycles, b \in Nat : <<c, b>> \in recorded => b < charged[c]

CounterSettled == races = {} /\ crashes = 0 => Settled

\* A step that settles nothing keeps the counter settled.
LEMMA SettledKept ==
  ASSUME Settled, UNCHANGED <<subVars, recorded, charged>>,
         \A w \in Workers : /\ job'[w].pc \in Pending <=> job[w].pc \in Pending
                            /\ job[w].pc \in Pending => job'[w].base = job[w].base
  PROVE  Settled'
BY DEF Settled, subVars

\* A check that moves outside the two pending steps.
LEMMA SettledMoves ==
  ASSUME TypeOK, Settled, UNCHANGED <<subVars, recorded, charged>>,
         NEW w \in Workers, NEW step, job' = [job EXCEPT ![w] = step],
         job[w].pc \notin Pending, step.pc \notin Pending
  PROVE  Settled'
<1>1. job'[w] = step /\ \A v \in Workers : v # w => job'[v] = job[v]
  BY DEF TypeOK
<1> QED
  BY <1>1, SettledKept

\* A check writes the counter ahead, or moves the anchor with nothing to send.
LEMMA PersistSettles ==
  ASSUME IInv, races = {}, Settled, NEW w \in Workers, Persist(w), races' = {}
  PROVE  Settled'
<1> DEFINE j == job[w]
<1>1. TypeOK /\ TargetsJustified /\ Exclusive /\ CounterBounds /\ LockedView
  BY DEF IInv
<1>2. /\ j.target \in Nat /\ j.base \in Nat /\ j.cyc \in Int /\ reported \in Nat
      /\ period \in Int /\ period >= 0
      /\ \A c \in Cycles : c \in Int /\ c # 0 /\ charged[c] \in Nat
  BY <1>1, Numbers, JobNumbers
<1>3. j.pc \in {"persist", "reset"} /\ j.cyc \in Cycles
  BY <1>1 DEF Persist, TargetsJustified, Locked
<1>4. Moves(w, IF j.pc = "persist" THEN "send" ELSE "unlock") /\ Keeps(w)
  BY <1>1, GotoMoves DEF Persist, Steps
<1>5. UNCHANGED <<recorded, charged>>
  BY DEF Persist, stripeVars
<1>6. \A v \in Workers : v # w => job[v].pc \notin Pending /\ job'[v].pc \notin Pending
  BY <1>1, <1>3, <1>4 DEF Exclusive, Moves, Locked, Pending
<1>7. period # 0 => charged[period] = reported
  BY <1>3, <1>6 DEF Settled, Pending
<1>8. period # j.cyc \/ reported < j.target
  BY <1>1, <1>2, <1>3 DEF LockedView, TargetsJustified, Reporting
<1>9. period' = j.cyc /\ reported' = j.target
  BY <1>8 DEF Persist
<1>10. period # j.cyc => charged[j.cyc] = 0
  <2>1. period # j.cyc => ~(j.cyc < period)
    BY DEF Persist
  <2>2. period # j.cyc => j.cyc > period
    BY <1>2, <2>1
  <2> QED
    BY <1>1, <1>3, <2>2 DEF CounterBounds
<1>11. CASE j.pc = "persist"
  <2>1. charged[j.cyc] = j.base
    BY <1>1, <1>2, <1>3, <1>7, <1>10, <1>11 DEF LockedView
  <2>2. job'[w].pc = "send" /\ job'[w].base = j.base
    BY <1>4, <1>11 DEF Moves, Keeps
  <2> QED
    BY <1>5, <1>6, <1>9, <2>1, <2>2 DEF Settled, Pending
<1>12. CASE j.pc = "reset"
  <2>1. charged[j.cyc] = j.target
    BY <1>1, <1>10, <1>12 DEF LockedView
  <2>2. job'[w].pc = "unlock"
    BY <1>4, <1>12 DEF Moves
  <2> QED
    BY <1>5, <1>6, <1>9, <2>1, <2>2 DEF Settled, Pending
<1> QED
  BY <1>3, <1>11, <1>12

\* Stripe answers: the identifier is new, so the delta is charged.
LEMMA AnswerSettles ==
  ASSUME IInv, races = {}, Settled, NEW w \in Workers, SendAnswered(w)
  PROVE  Settled'
<1> DEFINE j == job[w]
<1>1. TypeOK /\ TargetsJustified /\ Exclusive /\ LockedView
  BY DEF IInv
<1>2. j.pc = "send" /\ j.cyc \in Cycles /\ j.base < j.target
  BY <1>1 DEF SendAnswered, At, TargetsJustified, Locked, Reporting
<1>3. /\ j.target \in Nat /\ j.base \in Nat
      /\ \A c \in Cycles : charged[c] \in Nat
  BY <1>1, Numbers, JobNumbers
<1>4. period = j.cyc /\ reported = j.target /\ charged[j.cyc] = j.base
  BY <1>1, <1>2 DEF LockedView, Settled, Pending
<1>5. Moves(w, "unlock")
  BY <1>1, GotoMoves DEF SendAnswered, Steps
<1>6. \A v \in Workers : job'[v].pc \notin Pending
  BY <1>1, <1>2, <1>5 DEF Exclusive, Moves, Locked, Pending
<1>7. <<j.cyc, j.base>> \notin recorded
  <2>1. ~(j.base < charged[j.cyc])
    BY <1>3, <1>4
  <2> QED
    BY <1>2, <1>3, <2>1 DEF Settled
<1>8. /\ recorded' = recorded \cup {<<j.cyc, j.base>>}
      /\ charged' = [charged EXCEPT ![j.cyc] = charged[j.cyc] + (j.target - j.base)]
  BY <1>7 DEF SendAnswered, Record
<1>9. charged \in [Cycles -> Nat]
  BY <1>1 DEF TypeOK
<1>10. charged'[j.cyc] = j.target /\ \A c \in Cycles : charged'[c] >= charged[c]
  BY <1>2, <1>3, <1>4, <1>8, <1>9
<1>11. UNCHANGED subVars
  BY DEF SendAnswered
<1>12. \A c \in Cycles : charged'[c] \in Nat
  BY <1>2, <1>3, <1>8, <1>9
<1>13. ASSUME NEW c \in Cycles, NEW b \in Nat, <<c, b>> \in recorded'
       PROVE  b < charged'[c]
  <2>1. CASE <<c, b>> \in recorded
    BY <1>3, <1>10, <1>12, <2>1 DEF Settled
  <2>2. CASE <<c, b>> \notin recorded
    <3>1. c = j.cyc /\ b = j.base
      BY <1>8, <1>13, <2>2
    <3> QED
      BY <1>2, <1>10, <3>1
  <2> QED
    BY <2>1, <2>2
<1> QED
  BY <1>4, <1>6, <1>10, <1>11, <1>13 DEF Settled, subVars

\* A refused delta is taken back.
LEMMA RollbackSettles ==
  ASSUME IInv, races = {}, Settled, NEW w \in Workers, Rollback(w)
  PROVE  Settled'
<1> DEFINE j == job[w]
<1>1. TypeOK /\ Exclusive /\ LockedView /\ j.pc = "rollback"
  BY DEF IInv, Rollback, At
<1>2. period = j.cyc /\ reported = j.target /\ charged[period] = j.base
  BY <1>1 DEF LockedView, Settled, Pending
<1>3. reported' = j.base /\ UNCHANGED <<period, recorded, charged>>
  BY <1>2 DEF Rollback, stripeVars
<1>4. Moves(w, "unlock")
  BY <1>1, GotoMoves DEF Rollback, Steps
<1>5. \A v \in Workers : job'[v].pc \notin Pending
  BY <1>1, <1>4 DEF Exclusive, Moves, Locked, Pending
<1> QED
  BY <1>2, <1>3, <1>5 DEF Settled

\* Every step keeps the counter settled.
LEMMA StepSettled == IInv /\ CounterSettled /\ [Next]_vars => CounterSettled'
<1> SUFFICES ASSUME IInv, CounterSettled, [Next]_vars, races' = {}, crashes' = 0
             PROVE  Settled'
  BY DEF CounterSettled
<1>0. TypeOK /\ (races = {} => Exclusive /\ late = {} /\ CounterBounds /\ LockedView)
  BY DEF IInv
<1> USE <1>0 DEF CounterSettled, histVars, stripeVars
<1>1. ASSUME NEW w \in Workers, LoadOrg(w) PROVE Settled'
  <2> DEFINE new == [Idle EXCEPT !.pc = "count", !.cap = cap,
                                 !.metered = metered, !.rate = throttle]
  <2>1. new.pc = "count" /\ job[w].pc = "idle" /\ job' = [job EXCEPT ![w] = new]
    BY <1>1 DEF LoadOrg, Idle, At
  <2> HIDE DEF new
  <2> QED
    BY <1>1, <2>1, SettledMoves DEF LoadOrg, Pending
<1>2. ASSUME NEW w \in Workers, CountEvents(w) PROVE Settled'
  <2> DEFINE new == [job[w] EXCEPT !.pc = IF job[w].metered THEN "lock" ELSE "rate",
                                   !.cyc = cycle, !.use = usage[cycle],
                                   !.target = Billable(usage[cycle], job[w].cap)]
  <2>1. job[w] \in Jobs /\ job[w].pc = "count"
    BY <1>2, JobNumbers DEF CountEvents, At
  <2>2. new.pc \in {"lock", "rate"} /\ job' = [job EXCEPT ![w] = new]
    BY <1>2, <2>1 DEF CountEvents, TypeOK, Jobs
  <2> HIDE DEF new
  <2> QED
    BY <1>2, <2>1, <2>2, SettledMoves DEF CountEvents, Pending
<1>3. ASSUME NEW w \in Workers, TakeLock(w) PROVE Settled'
  <2>1. job[w].pc = "lock" /\ Moves(w, IF lock THEN "rate" ELSE "read")
    BY <1>3, GotoMoves DEF TakeLock, At, Steps
  <2> QED
    BY <1>3, <2>1, SettledKept DEF TakeLock, Moves, Pending
<1>4. ASSUME NEW w \in Workers, ReadCounter(w) PROVE Settled'
  <2> DEFINE base == IF period = job[w].cyc THEN reported ELSE 0
             new == [job[w] EXCEPT !.base = base,
                       !.pc = IF job[w].target > base THEN "persist"
                              ELSE IF period # job[w].cyc THEN "reset" ELSE "unlock"]
  <2>1. job[w] \in Jobs /\ job[w].pc = "read"
    BY <1>4, JobNumbers DEF ReadCounter, At
  <2>2. new.pc \in {"persist", "reset", "unlock"} /\ job' = [job EXCEPT ![w] = new]
    BY <1>4, <2>1 DEF ReadCounter, TypeOK, Jobs
  <2>3. UNCHANGED <<subVars, recorded, charged>> /\ races = {} /\ crashes = 0
    BY <1>4 DEF ReadCounter
  <2>4. Settled
    BY <2>3
  <2> HIDE DEF new, base
  <2>5. job[w].pc \notin Pending /\ new.pc \notin Pending
    BY <2>1, <2>2 DEF Pending
  <2> QED
    BY <2>2, <2>3, <2>4, <2>5, SettledMoves
<1>5. ASSUME NEW w \in Workers, Persist(w) PROVE Settled'
  <2>1. races = {}
    BY <1>5 DEF Persist
  <2> QED
    BY <1>5, <2>1, PersistSettles DEF Persist
<1>6. ASSUME NEW w \in Workers, SendAnswered(w) PROVE Settled'
  BY <1>6, AnswerSettles DEF SendAnswered
<1>7. ASSUME NEW w \in Workers, SendRefused(w) PROVE Settled'
  <2>1. job[w].pc = "send" /\ Moves(w, "rollback") /\ Keeps(w)
    BY <1>7, GotoMoves DEF SendRefused, At, Steps
  <2> QED
    BY <1>7, <2>1, SettledKept DEF SendRefused, Moves, Keeps, Pending
<1>8. ASSUME NEW w \in Workers, SendTimesOut(w) PROVE Settled'
  BY <1>8 DEF SendTimesOut
<1>9. ASSUME NEW w \in Workers, Rollback(w) PROVE Settled'
  BY <1>9, RollbackSettles DEF Rollback
<1>10. ASSUME NEW w \in Workers, Unlock(w) PROVE Settled'
  <2>1. job[w].pc = "unlock" /\ Moves(w, "rate")
    BY <1>10, GotoMoves DEF Unlock, At, Steps
  <2> QED
    BY <1>10, <2>1, SettledKept DEF Unlock, Moves, Pending
<1>11. ASSUME NEW w \in Workers, SaveThrottle(w) PROVE Settled'
  <2>1. job[w].pc = "rate" /\ Moves(w, "idle")
    BY <1>11, IdleMoves DEF SaveThrottle, At
  <2> QED
    BY <1>11, <2>1, SettledKept DEF SaveThrottle, Moves, Pending
<1>12. ASSUME NEW w \in Workers, Crash(w) PROVE Settled'
  <2>1. crashes \in Nat /\ crashes' = crashes + 1
    BY <1>12 DEF Crash, TypeOK
  <2> QED
    BY <2>1
<1>13. ASSUME ExpireLock PROVE Settled'
  <2>1. races = {}
    BY <1>13 DEF ExpireLock
  <2> QED
    BY <1>13, <2>1, SettledKept DEF ExpireLock
<1>14. ASSUME NEW r \in late, ArriveLate(r) PROVE Settled'
  BY <1>14 DEF ArriveLate
<1>15. ASSUME NEW n \in 1..MaxUsage, UseEvents(n) PROVE Settled'
  BY <1>15, SettledKept DEF UseEvents
<1>16. ASSUME RollOver PROVE Settled'
  BY <1>16, SettledKept DEF RollOver
<1>17. ASSUME NEW enabled \in BOOLEAN, NEW newCap \in Caps, SetOverage(enabled, newCap)
       PROVE  Settled'
  BY <1>17, SettledKept DEF SetOverage
<1>18. ASSUME UNCHANGED vars PROVE Settled'
  BY <1>18, SettledKept DEF vars
<1> QED
  BY <1>1, <1>2, <1>3, <1>4, <1>5, <1>6, <1>7, <1>8, <1>9, <1>10, <1>11, <1>12, <1>13, <1>14, <1>15, <1>16, <1>17, <1>18
     DEF Next, CheckStep

\* Without crashes and races, however many sends Stripe refuses and however the
\* checks overlap: whenever no check is inside the lock, Stripe has been sent
\* exactly what the counter of the cycle says.
THEOREM OverageNothingStranded == Spec => []NothingStranded
<1>1. Init => CounterSettled
  BY DEF Init, CounterSettled, Settled, Pending, Idle
<1>2. Spec => []CounterSettled
  <2>1. IInv /\ CounterSettled /\ [Next]_vars => CounterSettled'
    BY StepSettled
  <2> QED
    BY <1>1, <2>1, OverageInvariant, PTL DEF Spec
<1>3. CounterSettled => NothingStranded
  BY DEF CounterSettled, Settled, NothingStranded, Locked, Pending
<1> QED
  BY <1>2, <1>3, PTL
--------------------------------------------------------------------------------
\* Billing periods and prices ---------------------------------------------------

Dates == [m : Int, d : Int]
DatesOK == today \in Dates /\ created \in Dates

LEMMA MonthLengthIs == ASSUME NEW m \in Int PROVE MonthLength(m) \in Nat \ {0}
<1>1. Len(MonthLengths) \in Nat \ {0} /\ \A i \in 1..Len(MonthLengths) : MonthLengths[i] \in Nat \ {0}
  BY MonthsAssumption
<1>2. \A n \in Nat \ {0} : m % n \in 0..(n - 1)
  OBVIOUS
<1>3. (m % Len(MonthLengths)) + 1 \in 1..Len(MonthLengths)
  BY <1>1, <1>2
<1> QED
  BY <1>1, <1>3 DEF MonthLength

LEMMA AddMonthsIs ==
  ASSUME NEW a \in Dates, NEW k \in Int
  PROVE  AddMonths(a, k) \in Dates /\ AddMonths(a, k).m = a.m + k
<1>1. MonthLength(a.m + k) \in Int
  BY MonthLengthIs DEF Dates
<1> QED
  BY <1>1 DEF AddMonths, Date, Dates

LEMMA FreeWindowsTile == DatesOK => FreeTierTiles
<1> SUFFICES ASSUME DatesOK PROVE FreeTierTiles
  OBVIOUS
<1> DEFINE whole == today.m - created.m
           first == IF Before(today, created) THEN 0
                    ELSE IF Before(today, AddMonths(created, whole)) THEN whole - 1 ELSE whole
<1>1. today.m \in Int /\ today.d \in Int /\ created.m \in Int /\ created.d \in Int /\ whole \in Int /\ first \in Int
  BY DEF DatesOK, Dates
<1>2. \A n : get_free_tier_cycle(created, n) = <<AddMonths(created, first - n), AddMonths(created, first - n + 1)>>
  BY DEF get_free_tier_cycle
<1>3. \A n \in 0..MaxAgo : get_free_tier_cycle(created, n)[1] = get_free_tier_cycle(created, n + 1)[2]
  <2>1. \A n \in Int : first - (n + 1) + 1 = first - n
    BY <1>1
  <2> QED
    BY <1>2, <2>1
<1>4. ASSUME NotAfter(created, today)
      PROVE  NotAfter(get_free_tier_cycle(created, 0)[1], today) /\ Before(today, get_free_tier_cycle(created, 0)[2])
  <2>1. ~Before(today, created)
    BY <1>1, <1>4 DEF NotAfter, Before
  <2>2. /\ AddMonths(created, whole) \in Dates /\ AddMonths(created, whole).m = today.m
        /\ AddMonths(created, whole - 1) \in Dates /\ AddMonths(created, whole - 1).m = today.m - 1
        /\ AddMonths(created, whole + 1) \in Dates /\ AddMonths(created, whole + 1).m = today.m + 1
    <3>1. /\ created.m + whole = today.m /\ created.m + (whole - 1) = today.m - 1
          /\ created.m + (whole + 1) = today.m + 1 /\ whole - 1 \in Int /\ whole + 1 \in Int
      BY <1>1
    <3>2. \A k \in Int : AddMonths(created, k) \in Dates /\ AddMonths(created, k).m = created.m + k
      BY AddMonthsIs DEF DatesOK
    <3> HIDE DEF whole
    <3> QED
      BY <1>1, <3>1, <3>2
  <2>3. get_free_tier_cycle(created, 0)[1] = AddMonths(created, first) /\ get_free_tier_cycle(created, 0)[2] = AddMonths(created, first + 1)
    <3>1. first - 0 = first
      BY <1>1
    <3> QED
      BY <1>2, <3>1
  <2>4. CASE Before(today, AddMonths(created, whole))
    <3>1. first = whole - 1 /\ first + 1 = whole
      BY <1>1, <2>1, <2>4
    <3>2. NotAfter(AddMonths(created, whole - 1), today)
      BY <1>1, <2>2 DEF NotAfter, Before
    <3> QED
      BY <2>3, <2>4, <3>1, <3>2
  <2>5. CASE ~Before(today, AddMonths(created, whole))
    <3>1. first = whole
      BY <2>1, <2>5
    <3>2. NotAfter(AddMonths(created, whole), today)
      BY <1>1, <2>2, <2>5 DEF NotAfter, Before, DatesOK, Dates
    <3>3. Before(today, AddMonths(created, whole + 1))
      BY <1>1, <2>2 DEF Before
    <3> QED
      BY <2>3, <3>1, <3>2, <3>3
  <2> QED
    BY <2>4, <2>5
<1> QED
  BY <1>3, <1>4 DEF FreeTierTiles

LEMMA InitDatesOK == PeriodInit => DatesOK
<1> SUFFICES ASSUME PeriodInit PROVE DatesOK
  OBVIOUS
<1>1. MonthLength(0) \in Nat
  BY MonthLengthIs
<1>2. today = Date(0, MonthLength(0)) /\ \E d \in 1..MonthLength(0) : created = Date(0, d)
  BY DEF PeriodInit
<1> QED
  BY <1>1, <1>2 DEF DatesOK, Dates, Date

LEMMA StepDatesOK == DatesOK /\ [PeriodNext]_periodVars => DatesOK'
<1> SUFFICES ASSUME DatesOK, [PeriodNext]_periodVars PROVE DatesOK'
  OBVIOUS
<1>1. created' = created /\ (today' = today \/ today' = Tomorrow(today))
  <2>1. CASE WindowNext
    BY <2>1 DEF WindowNext, NextDay, Renewed, update_subscription_cycles,
                subscription_events_count_daily
  <2>2. CASE PriceNext
    BY <2>2 DEF PriceNext, get_overage_status, _provision, PriceByHand, _verify, windowVars
  <2>3. CASE UNCHANGED periodVars
    BY <2>3 DEF periodVars, windowVars
  <2> QED
    BY <2>1, <2>2, <2>3 DEF PeriodNext
<1>2. Tomorrow(today) \in Dates
  BY DEF Tomorrow, Date, Dates, DatesOK
<1> QED
  BY <1>1, <1>2 DEF DatesOK

\* The free-tier windows of an organization follow each other without gap or
\* overlap, and the first contains today, for months of any lengths.
THEOREM FreeTierWindowsTile == PeriodSpec => []FreeTierTiles
BY InitDatesOK, StepDatesOK, FreeWindowsTile, PTL DEF PeriodSpec

Active == {p \in account.prices : p.active}
\* What a check that accepted the account vouches for.
VerifiedPrice ==
  verified # <<>> =>
    \E p \in account.prices :
      /\ Active = {p} /\ p.interval = "month" /\ p.currency = "usd"
      /\ p.tiers = verified /\ p.mode = "graduated" /\ ~p.flat

LEMMA AcceptedPrice ==
  ASSUME NEW tiers, _verify(tiers), IsFiniteSet(account.prices) PROVE VerifiedPrice'
<1>1. account' = account /\ Active' = Active
  BY DEF _verify, Active
<1>2. ASSUME Cardinality(Active) = 1, \A p \in Active : p.interval = "month" /\ tier_problems(tiers, p) = {}, verified' = tiers
      PROVE  VerifiedPrice'
  <2>1. PICK p : Active = {p}
    <3>1. IsFiniteSet(Active)
      BY FS_Subset DEF Active
    <3> QED
      BY <1>2, <3>1, FS_Singleton
  <2>2. p \in account.prices /\ p.interval = "month" /\ tier_problems(tiers, p) = {}
    BY <1>2, <2>1 DEF Active
  <2>3. \A x \in {"tiers_mode", "currency", "tiers", "flat_amount"} : x \notin tier_problems(tiers, p)
    BY <2>2
  <2>4. p.mode = "graduated" /\ p.currency = "usd" /\ p.tiers = tiers /\ ~p.flat
    BY <2>3 DEF tier_problems
  <2> QED
    BY <1>1, <1>2, <2>1, <2>2, <2>4 DEF VerifiedPrice
<1>3. CASE verified' = <<>>
  BY <1>3 DEF VerifiedPrice
<1>4. \/ verified' = <<>>
      \/ /\ Cardinality(Active) = 1 /\ \A p \in Active : p.interval = "month" /\ tier_problems(tiers, p) = {}
         /\ verified' = tiers
  BY DEF _verify, Active
<1> QED
  BY <1>2, <1>3, <1>4

AccountFinite ==
  /\ account \in [meter : BOOLEAN, product : {0, 1}, hosted : {"none", "bare", "priced"},
                  prices : SUBSET (LivePrices \cup {create_metered_price(TestSchedule)})]
  /\ IsFiniteSet(account.prices)
LEMMA StepAccountFinite == AccountFinite /\ [PeriodNext]_periodVars => AccountFinite'
<1> SUFFICES ASSUME AccountFinite, [PeriodNext]_periodVars PROVE AccountFinite'
  OBVIOUS
<1>1. ASSUME NEW p \in LivePrices, PriceByHand(p) PROVE AccountFinite'
  <2>1. account' = [account EXCEPT !.meter = TRUE, !.product = 1, !.prices = account.prices \cup {p}]
    BY <1>1 DEF PriceByHand
  <2>2. IsFiniteSet(account.prices \cup {p})
    BY FS_AddElement DEF AccountFinite
  <2> QED
    BY <2>1, <2>2 DEF AccountFinite
<1>2. CASE UNCHANGED account
  BY <1>2 DEF AccountFinite
<1>3. CASE WindowNext
  <2>1. UNCHANGED priceVars
    BY <1>3 DEF WindowNext, NextDay, Renewed, update_subscription_cycles,
                subscription_events_count_daily
  <2> QED
    BY <1>2, <2>1 DEF priceVars
<1>4. CASE _provision
  <2>1. \/ account' = account
        \/ account' = [account EXCEPT !.meter = TRUE]
        \/ account' = [account EXCEPT !.product = 1]
        \/ account' = [account EXCEPT !.prices = {create_metered_price(TestSchedule)}]
        \/ account' = [account EXCEPT !.hosted = "bare"]
        \/ account' = [account EXCEPT !.hosted = "priced"]
    BY <1>4 DEF _provision
  <2>2. IsFiniteSet({create_metered_price(TestSchedule)})
    BY FS_Singleton
  <2>3. PICK made : made = create_metered_price(TestSchedule)
    OBVIOUS
  <2> QED
    BY <2>1, <2>2, <2>3 DEF AccountFinite
<1>5. CASE PriceNext
  BY <1>1, <1>2, <1>4, <1>5 DEF PriceNext, get_overage_status, _verify
<1> QED
  BY <1>2, <1>3, <1>5 DEF PeriodNext, periodVars, priceVars

LEMMA StepVerifiedPrice == VerifiedPrice /\ AccountFinite /\ [PeriodNext]_periodVars => VerifiedPrice'
<1> SUFFICES ASSUME VerifiedPrice, AccountFinite, [PeriodNext]_periodVars PROVE VerifiedPrice'
  OBVIOUS
<1>1. CASE \E tiers \in Schedules : _verify(tiers)
  BY <1>1, AcceptedPrice DEF AccountFinite
<1>2. CASE verified' = <<>> \/ UNCHANGED <<account, verified>>
  BY <1>2 DEF VerifiedPrice, Active
<1>3. CASE WindowNext
  <2>1. UNCHANGED priceVars
    BY <1>3 DEF WindowNext, NextDay, Renewed, update_subscription_cycles,
                subscription_events_count_daily
  <2> QED
    BY <1>2, <2>1 DEF priceVars
<1>4. CASE _provision
  <2>1. verified' = IF account' = account THEN verified ELSE <<>>
    BY <1>4 DEF _provision
  <2> QED
    BY <1>2, <2>1
<1>5. CASE PriceNext
  BY <1>1, <1>2, <1>4, <1>5 DEF PriceNext, get_overage_status, PriceByHand
<1> QED
  BY <1>2, <1>3, <1>5 DEF PeriodNext, periodVars, priceVars

\* Once a check has accepted the Stripe account there is one active price, and it is
\* the monthly graduated one of the schedule the spend caps are computed with, until
\* the account changes (stripe overage command, _verify and tier_problems).
THEOREM AcceptedPriceIsTheSchedule == PeriodSpec => []VerifiedPrice
<1>1. PeriodInit => VerifiedPrice /\ AccountFinite
  BY FS_EmptySet DEF PeriodInit, VerifiedPrice, AccountFinite
<1> QED
  BY <1>1, StepVerifiedPrice, StepAccountFinite, PTL DEF PeriodSpec
================================================================================
