---------------------------- MODULE BillingPeriods ----------------------------
(***************************************************************************)
(* The windows usage is counted in, and the price of overage.  A date is a *)
(* month and a day of it; months differ in length, so adding months clamps *)
(* the day.  An organization is on the free tier or has a monthly or an    *)
(* annual subscription, whose row keeps the Stripe period and the cycle    *)
(* computed from it.  The overage price exists twice, as the schedule of   *)
(* the settings the cap is computed with and as the price Stripe invoices; *)
(* a command creates the second, or checks it.                             *)
(***************************************************************************)
EXTENDS Integers, Sequences, FiniteSets, FiniteSetsExt

CONSTANTS
  MonthLengths,    \* days of month 0, 1, ... repeated
  YearMonths,      \* months of an annual period
  MaxMonth,        \* bound: the last month
  MaxAgo,          \* bound: periods_ago asked for
  RetentionDays,   \* GLITCHTIP_RETENTION_DAYS
  Schedules,       \* overage tiers: sequences of [upto, rate], upto 0 = no end,
                   \* the rate in hundredths of a cent
  Budgets,         \* spend caps, in cents
  LivePrices,      \* prices an operator makes by hand in Stripe
  Loads,           \* usage of one day: [events, tenths, size], tenths those
                   \* of the categories billed at a tenth
  TestSchedule     \* GLITCHTIP_OVERAGE_TIERS of the test server

\* A month has days.
ASSUME MonthsAssumption == MonthLengths \in Seq(Nat \ {0}) /\ MonthLengths # <<>>

Plans == {"free", "monthly", "annual"}
NoWindow == <<>>

VARIABLES
  today,       \* the current date
  created,     \* Organization.created
  plan,        \* the kind of the primary subscription, "free" without one
  subPeriod,      \* current_period_start and _end
  subCycle,       \* subscription_cycle_start and _end
  daily,       \* the last chart answered with: sum of the bars, period total
  quote,       \* last overage schedule and cap shown, with its unit ceiling
  account,     \* Stripe: meters, overage products and prices, the hosted plan
  prov,        \* _provision: position
  verified     \* the schedule the last check of the account accepted
windowVars == <<today, created, plan, subPeriod, subCycle, daily>>
priceVars  == <<quote, account, prov, verified>>
periodVars == <<windowVars, priceVars>>
--------------------------------------------------------------------------------
\* Dates -----------------------------------------------------------------------
MonthLength(m) == MonthLengths[(m % Len(MonthLengths)) + 1]
Date(m, d) == [m |-> m, d |-> d]
Before(a, b) == a.m < b.m \/ (a.m = b.m /\ a.d < b.d)
NotAfter(a, b) == a = b \/ Before(a, b)
\* dateutil: + relativedelta(months=k), clamped to the month's last day.
AddMonths(a, k) ==
  LET n == MonthLength(a.m + k) IN Date(a.m + k, IF a.d > n THEN n ELSE a.d)
Tomorrow(a) == IF a.d < MonthLength(a.m) THEN Date(a.m, a.d + 1) ELSE Date(a.m + 1, 1)
--------------------------------------------------------------------------------
\* Annual plans advance month by month from the period start until the cycle
\* reaches today; every boundary is counted from the start itself.
compute_cycle(start, end, annual) ==
  IF ~annual THEN <<start, end>>
  ELSE LET k == CHOOSE n \in 0..MaxMonth :
                  /\ ~Before(AddMonths(start, n + 1), today)
                  /\ \A l \in 0..(n - 1) : Before(AddMonths(start, l + 1), today)
       IN  <<AddMonths(start, k), AddMonths(start, k + 1)>>


\* A row with a cycle is taken for an annual plan.
compute_cycle_n_ago(per, cyc, ago) ==
  IF cyc # NoWindow
  THEN LET w == <<AddMonths(cyc[1], -ago), AddMonths(cyc[1], -(ago - 1))>> IN
       IF Before(w[1], per[1]) THEN NoWindow ELSE w
  ELSE <<AddMonths(per[1], -ago), AddMonths(per[1], -(ago - 1))>>

\* Free tier: monthly windows anchored on the creation date.
get_free_tier_cycle(anchor, ago) ==
  LET whole == today.m - anchor.m
      index == (IF Before(today, anchor) THEN 0
                ELSE IF Before(today, AddMonths(anchor, whole)) THEN whole - 1 ELSE whole) - ago
  IN  <<AddMonths(anchor, index), AddMonths(anchor, index + 1)>>

\* The window of the usage endpoints, the admin and throttling.
get_current_period_dates(ago) ==
  IF plan = "free" THEN get_free_tier_cycle(created, ago)
  ELSE IF ago = 0 THEN (IF subCycle # NoWindow THEN subCycle ELSE subPeriod)
  ELSE compute_cycle_n_ago(subPeriod, subCycle, ago)

\* What the usage endpoint answers for, the retention permitting.
subscription_events_count_for_period ==
  { ago \in 0..MaxAgo : ago * 30 <= (IF RetentionDays < 30 THEN 30 ELSE RetentionDays) }

--------------------------------------------------------------------------------
\* Overage prices ----------------------------------------------------------------
BandEnd(t, units) == IF t.upto = 0 \/ units < t.upto THEN units ELSE t.upto
\* Hundredths of a cent: each tier prices the units inside its band.
RawCost(tiers, units) ==
  LET Start(i) == IF i = 1 THEN 0 ELSE BandEnd(tiers[i - 1], units)
      Band(i)  == BandEnd(tiers[i], units) - Start(i)
      Sum[i \in 0..Len(tiers)] ==
        IF i = 0 THEN 0 ELSE Sum[i - 1] + (IF Band(i) > 0 THEN Band(i) * tiers[i].rate ELSE 0)
  IN  Sum[Len(tiers)]
\* Rounded half up to whole cents.
cost_cents_for_units(tiers, units) ==
  IF units <= 0 THEN 0 ELSE (RawCost(tiers, units) + 50) \div 100

\* The walk over the tiers with what is left of the budget.
units_for_budget(tiers, cap) ==
  LET Walk[i \in 0..Len(tiers)] ==
        IF i = 0 THEN [units |-> 0, left |-> cap * 100, prev |-> 0, done |-> cap <= 0]
        ELSE LET w == Walk[i - 1]
                 t == tiers[i]
                 room == t.upto - w.prev
                 can  == w.left \div t.rate IN
             IF w.done THEN w
             ELSE IF t.rate = 0
               THEN (IF t.upto = 0 THEN [w EXCEPT !.done = TRUE]
                     ELSE [w EXCEPT !.units = @ + room, !.prev = t.upto])
             ELSE IF t.upto = 0 \/ can <= room THEN [w EXCEPT !.units = @ + can, !.done = TRUE]
             ELSE [units |-> w.units + room, left |-> w.left - room * t.rate,
                   prev |-> t.upto, done |-> FALSE]
  IN  Walk[Len(tiers)].units

\* The price made from the settings, and what a price lacks to be that one.
create_metered_price(tiers) ==
  [tiers |-> tiers, mode |-> "graduated", currency |-> "usd", flat |-> FALSE,
   interval |-> "month", active |-> TRUE]
\* Mutant: a flat amount is not looked for.
TiersOnlyProblems(tiers, p) == IF p.tiers # tiers \/ p.mode # "graduated" THEN {"tiers"} ELSE {}
tier_problems(tiers, p) ==
  { x \in {"tiers_mode", "currency", "tiers", "flat_amount"} :
      \/ x = "tiers_mode" /\ p.mode # "graduated"
      \/ x = "currency" /\ p.currency # "usd"
      \/ x = "tiers" /\ p.tiers # tiers
      \/ x = "flat_amount" /\ p.flat }
\* What Stripe invoices for a number of units, in hundredths of a cent.
Invoice(p, units) ==
  LET tier == CHOOSE i \in DOMAIN p.tiers :
                /\ p.tiers[i].upto = 0 \/ units <= p.tiers[i].upto
                /\ \A j \in 1..(i - 1) : units > p.tiers[j].upto /\ p.tiers[j].upto # 0
  IN  (IF p.flat THEN 100 ELSE 0)
      + (IF p.mode = "graduated" THEN RawCost(p.tiers, units) ELSE units * p.tiers[tier].rate)
--------------------------------------------------------------------------------
NoChart  == [sum |-> 0, total |-> 0, size |-> 0]
PeriodInit ==
  /\ today = Date(0, MonthLength(0))
  /\ created \in { Date(0, d) : d \in 1..MonthLength(0) }
  /\ plan \in Plans
  /\ subPeriod = IF plan = "free" THEN NoWindow
              ELSE <<created, AddMonths(created, IF plan = "annual" THEN YearMonths ELSE 1)>>
  /\ subCycle = IF plan = "free" THEN NoWindow
             ELSE compute_cycle(subPeriod[1], subPeriod[2], plan = "annual")
  /\ daily = NoChart
  /\ quote = [tiers |-> <<>>, cap |-> 0, units |-> 0]
  /\ account = [meter |-> FALSE, product |-> 0, prices |-> {}, hosted |-> "none"]
  /\ prov = "idle" /\ verified = <<>>

NextDay ==
  /\ today.m < MaxMonth /\ today' = Tomorrow(today)
  /\ UNCHANGED <<created, plan, subPeriod, subCycle, daily, priceVars>>

\* The subscription webhook after a renewal: Stripe counts from the same anchor.
Renewed ==
  /\ plan # "free" /\ NotAfter(subPeriod[2], today)
  /\ LET length == IF plan = "annual" THEN YearMonths ELSE 1
         k == CHOOSE n \in 1..MaxMonth : subPeriod[2] = AddMonths(created, n * length) IN
     /\ subPeriod' = <<subPeriod[2], AddMonths(created, (k + 1) * length)>>
     /\ subCycle' = compute_cycle(subPeriod'[1], subPeriod'[2], plan = "annual")
  /\ UNCHANGED <<today, created, plan, daily, priceVars>>

\* The nightly job rolls the cycles of annual plans that are over.
update_subscription_cycles ==
  /\ plan = "annual" /\ Before(subCycle[2], today)
  /\ subCycle' = compute_cycle(subPeriod[1], subPeriod[2], TRUE)
  /\ UNCHANGED <<today, created, plan, subPeriod, daily, priceVars>>

\* Usage of the days of a window, rows existing up to today only.  One day of
\* the window carries the load; every other day has one event.
DaysOf(w) == { d \in { Date(m, n) : m \in w[1].m..w[2].m, n \in 1..31 } :
                 d.d <= MonthLength(d.m) /\ NotAfter(w[1], d) /\ Before(d, w[2]) /\ NotAfter(d, today) }
UseOn(d, busyDay, load) == IF d = busyDay THEN load ELSE [events |-> 1, tenths |-> 0, size |-> 0]
\* EventCounts: the weighted total, floored once; sizes count in the total only.
get_event_counts(w, busyDay, load) ==
  LET Sum(F(_)) == MapThenSumSet(LAMBDA d : F(UseOn(d, busyDay, load)), DaysOf(w))
      size == Sum(LAMBDA u : u.size)
  IN  [total |-> (10 * (Sum(LAMBDA u : u.events) + size) + Sum(LAMBDA u : u.tenths)) \div 10,
       size |-> size]

\* The chart of the current period: a bar, in tenths, for every day up to the
\* period's end or today, both included.
ChartedDays(w) ==
  { d \in { Date(m, n) : m \in w[1].m..w[2].m, n \in 1..31 } :
      d.d <= MonthLength(d.m) /\ NotAfter(w[1], d) /\ NotAfter(d, w[2]) /\ NotAfter(d, today) }
subscription_events_count_daily(busyDay, load) ==
  LET w == get_current_period_dates(0)
      Bar(d) == IF d \in DaysOf(w)
                THEN 10 * UseOn(d, busyDay, load).events + UseOn(d, busyDay, load).tenths ELSE 0
      counts == get_event_counts(w, busyDay, load)
  IN  /\ w # NoWindow
      /\ daily' = [total |-> counts.total, size |-> counts.size,
                   sum |-> MapThenSumSet(Bar, ChartedDays(w))]
      /\ UNCHANGED <<today, created, plan, subPeriod, subCycle, priceVars>>
--------------------------------------------------------------------------------
\* get_overage_status turns the cap into units; throttling stops reporting there.
get_overage_status(tiers, cap) ==
  /\ quote' = [tiers |-> tiers, cap |-> cap, units |-> units_for_budget(tiers, cap)]
  /\ UNCHANGED <<windowVars, account, prov, verified>>

\* _provision: each object is looked for and made if missing; the command may
\* die between any two requests and is run again.
_provision ==
  LET Made(next, acct) == prov' = next /\ account' = acct IN
  /\ \/ prov = "idle"    /\ Made("meter", account)
     \/ prov = "meter"   /\ Made("product", [account EXCEPT !.meter = TRUE])
     \/ prov = "product" /\ Made("price", IF account.product > 0 THEN account
                                          ELSE [account EXCEPT !.product = 1])
     \/ prov = "price"   /\ Made("hosted", IF account.prices # {} THEN account
                                           ELSE [account EXCEPT !.prices = {create_metered_price(TestSchedule)}])
     \/ prov = "hosted"  /\ account.hosted = "none" /\ Made("base", [account EXCEPT !.hosted = "bare"])
     \/ prov = "hosted"  /\ account.hosted # "none" /\ Made("idle", account)
     \/ prov = "base"    /\ Made("idle", [account EXCEPT !.hosted = "priced"])
     \/ prov # "idle"    /\ Made("idle", account)
  /\ verified' = IF account' = account THEN verified ELSE <<>>
  /\ UNCHANGED <<windowVars, quote>>

\* An operator adds or archives a price by hand, before or after verifying.
PriceByHand(p) ==
  /\ prov = "idle" /\ Cardinality(account.prices) < 2
  /\ account' = [account EXCEPT !.meter = TRUE, !.product = 1, !.prices = @ \cup {p}]
  /\ verified' = <<>> /\ UNCHANGED <<windowVars, quote, prov>>

\* _verify: raises a problem, or accepts the account for the settings' schedule.
_verify(tiers) ==
  LET active == { p \in account.prices : p.active } IN
  /\ account.meter /\ account.product > 0
  /\ verified' = IF /\ Cardinality(active) = 1
                    /\ \A p \in active : p.interval = "month" /\ tier_problems(tiers, p) = {}
                 THEN tiers ELSE <<>>
  /\ UNCHANGED <<windowVars, quote, account, prov>>

WindowNext ==
  \/ NextDay \/ Renewed \/ update_subscription_cycles
  \/ \E load \in Loads : \E d \in {today, get_current_period_dates(0)[1]} :
       subscription_events_count_daily(d, load)
PriceNext ==
  \/ \E tiers \in Schedules, cap \in Budgets : get_overage_status(tiers, cap)
  \/ _provision
  \/ \E p \in LivePrices : PriceByHand(p)
  \/ \E tiers \in Schedules : _verify(tiers)
PeriodNext == WindowNext \/ PriceNext
PeriodSpec == PeriodInit /\ [][PeriodNext]_periodVars
--------------------------------------------------------------------------------
\* The free-tier windows of an organization follow each other without gap or
\* overlap and the first one contains today, whatever day it signed up on.
FreeTierTiles ==
  plan = "free" =>
    /\ \A n \in 0..MaxAgo : get_free_tier_cycle(created, n)[1] = get_free_tier_cycle(created, n + 1)[2]
    /\ NotAfter(created, today) =>
         /\ NotAfter(get_free_tier_cycle(created, 0)[1], today)
         /\ Before(today, get_free_tier_cycle(created, 0)[2])

\* The unit ceiling made of a spend cap costs at most the cap, and one more
\* event would cost more (unless the schedule is free from there on); and when
\* the account was verified against the schedule, Stripe invoices no more than
\* the cap for that many units.
SpendCapHolds ==
  LET cost(n) == RawCost(quote.tiers, n) IN
  quote.tiers # <<>> =>
    /\ cost_cents_for_units(quote.tiers, quote.units) <= quote.cap
    /\ quote.cap > 0 => \/ cost(quote.units + 1) > quote.cap * 100
                        \/ quote.tiers[Len(quote.tiers)].rate = 0
    /\ verified = quote.tiers /\ quote.units > 0 =>
         \A p \in account.prices : p.active => Invoice(p, quote.units) <= quote.cap * 100

\* The bars of the usage chart add up to the total the period is billed with.
DailySumsToTotal == daily.total = daily.sum \div 10 + daily.size

\* A paid plan is counted in its Stripe period, or an annual one in the months
\* counted from the period's start, and the windows reported of earlier months
\* meet and lie within the subscription.  They are the months usage was counted
\* in if every month has the anchor's day; they step back from a clamped start
\* otherwise, so begin too early, and the first may be missing.  Of a monthly
\* plan, whose row has a cycle like any other, no earlier window is reported.
PaidWindows ==
  LET start == subPeriod[1]
      k == subCycle[1].m - start.m
      Counted(n) == <<AddMonths(start, k - n), AddMonths(start, k - n + 1)>>
      Reported(n) == get_current_period_dates(n)
      Earlier(n) ==
        /\ Reported(n) # NoWindow =>
             /\ plan = "annual" /\ n <= k
             /\ NotAfter(start, Reported(n)[1]) /\ NotAfter(Reported(n)[1], Counted(n)[1])
             /\ Reported(n)[1].m = Counted(n)[1].m
             /\ Reported(n - 1) # NoWindow /\ Reported(n)[2] = Reported(n - 1)[1]
        /\ plan = "annual" /\ n <= k =>
             IF \A i \in DOMAIN MonthLengths : start.d <= MonthLengths[i]
             THEN Reported(n) = Counted(n) ELSE n < k => Reported(n) # NoWindow
  IN plan # "free" =>
       /\ Reported(0) = IF plan = "monthly" THEN subPeriod ELSE Counted(0)
       /\ \A n \in subscription_events_count_for_period \ {0} : Earlier(n)

================================================================================
