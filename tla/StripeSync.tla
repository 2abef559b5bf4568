------------------------------ MODULE StripeSync ------------------------------
(***************************************************************************)
(* What one organization knows about its Stripe subscriptions.  Stripe     *)
(* keeps the truth; the server learns of it from webhooks (reordered,      *)
(* repeated, retried after a failure, or lost), from the nightly sync and  *)
(* from the endpoints that create a free subscription or attach the        *)
(* overage item.  Every one of them awaits between reading and writing.    *)
(*                                                                         *)
(* Months are numbers; "now" is the middle of a month.  Each subscription  *)
(* stands for a plan of its own (product and price).  License is the       *)
(* support subscription, whose customer has no organization.               *)
(***************************************************************************)
EXTENDS Integers, Sequences, FiniteSets

CONSTANTS
  Subs,            \* subscriptions whose customer carries the organization id
  License,         \* the support-license subscription
  Annual,          \* those of Subs billed by the year
  Free,            \* those of Subs bought through stripe_create_subscription
  Quota,           \* product.events of each plan
  YearLength,      \* months in a "year"
  Scenes,          \* bounds: the objects Stripe sells and has sold, the last
                   \* month, the changes, and whether the catalog is known
  MaxBusy          \* bound: webhook requests in progress

None == "none"
Objects  == Subs \cup {License}
ACTIVE_SUBSCRIPTION_STATUSES == {"active"}
Statuses == {"incomplete", "active", "canceled"}
NoRow    == [st |-> "absent", start |-> 0, end |-> 0, cycle |-> 0, item |-> FALSE]
IsActive(r) == r.st \in ACTIVE_SUBSCRIPTION_STATUSES

VARIABLES
  scene,
  hist,      \* Stripe: the snapshots of each subscription, the last one current
  listed,    \* Stripe: plans whose product is active
  now,
  pend,      \* Stripe: events <<object, snapshot>> not yet acknowledged
  first,     \* cache "stripe" + object id: created time of the first event seen
  dedup,     \* cache "stripe" + event id, of the events Stripe may still send
  busy,      \* webhook requests in progress
  products, prices,  \* StripeProduct and StripePrice rows
  row,       \* StripeSubscription rows
  prim,      \* Organization.stripe_primary_subscription_id
  night,     \* the nightly sync
  cyc,       \* RollCycles: the row it read
  buy,       \* stripe_create_subscription: position
  overage,   \* configure_overage: position
  mails      \* license mails sent, 2 standing for more

stripeSide == <<hist, listed, now, pend>>
hooks      == <<first, dedup, busy>>
tables     == <<products, prices, row, prim>>
jobs       == <<night, cyc, buy, overage>>
moving     == <<stripeSide, hooks, tables, jobs, mails>>
syncVars == <<scene, moving>>

--------------------------------------------------------------------------------
\* What a new, paid subscription looks like.
Bought(month) == [st |-> "active", start |-> month, items |-> <<"base">>, marked |-> FALSE]
Current(o) == hist[o][Len(hist[o])]
Exists(o)  == hist[o] # <<>>
PeriodLength(s) == IF s \in Annual THEN YearLength ELSE 1

\* A snapshot has the items in either order, or the metered one alone.
select_subscription_items(items) ==
  LET OfKind(k) == SelectSeq(items, LAMBDA i : i = k) IN
  [base    |-> IF OfKind("base") # <<>> THEN "base" ELSE IF items # <<>> THEN items[1] ELSE None,
   metered |-> OfKind("metered") # <<>>]

\* The first month of the cycle that covers now, counted from the period start.
CycleMonth(start, annual) ==
  IF ~annual THEN start
  ELSE CHOOSE c \in start..(start + now + 1) :
         /\ c + 1 > now
         /\ \A d \in start..(c - 1) : d + 1 <= now

\* The row an update writes from a snapshot taken at Stripe.
RowOf(s, snap) ==
  LET items == select_subscription_items(snap.items) IN
  [st |-> snap.st, start |-> snap.start, end |-> snap.start + PeriodLength(s),
   cycle |-> CycleMonth(snap.start, s \in Annual), item |-> items.metered]

\* The answer of one request: each attempt ends it unless it may be repeated.
_stripe_request(answers) ==
  LET Final(a) == answers[a] # "retry" \/ a = Len(answers)
      last == CHOOSE a \in DOMAIN answers : Final(a) /\ \A b \in 1..(a - 1) : ~Final(b)
  IN  IF answers[last] = "retry" THEN "error" ELSE answers[last]
\* A subscription asked for by id exists at Stripe: the request works or fails.
Outcomes == { _stripe_request(a) : a \in [1..4 -> {"ok", "error", "retry"}] }

\* get_primary_subscription over the rows: the largest quota, then the newest.
BestOf(rows) ==
  LET active == { s \in Subs : IsActive(rows[s]) } IN
  IF active = {} THEN None
  ELSE CHOOSE s \in active : \A t \in active : Quota[t] <= Quota[s]

NightIdle == [pc |-> "idle", todo |-> {}, sub |-> None, got |-> NoRow,
              orgs |-> FALSE]
StripeInit ==
  /\ scene \in Scenes
  /\ hist = [o \in Objects |-> IF o \in scene.old THEN <<Bought(0)>> ELSE <<>>] /\ listed = scene.objects \cap Subs /\ now = 0 /\ pend = {}
  /\ first = [o \in Objects |-> 0] /\ dedup = {} /\ busy = {}
  /\ products = (IF scene.known THEN Subs ELSE {}) /\ prices = products
  /\ row = [s \in Subs |-> IF s \in scene.old THEN RowOf(s, Bought(0)) ELSE NoRow]
  /\ prim = BestOf(row)
  /\ night = NightIdle /\ cyc = [pc |-> "idle", sub |-> None, cycle |-> 0]
  /\ buy = "idle" /\ overage = "idle" /\ mails = 0
--------------------------------------------------------------------------------
\* Stripe ------------------------------------------------------------------
Emit(o, snap) ==
  /\ o \in scene.objects /\ now < scene.last
  /\ Cardinality(UNION { {p} \X DOMAIN hist[p] : p \in Objects })
       < scene.changes + Cardinality(scene.old)
  /\ hist' = [hist EXCEPT ![o] = Append(@, snap)]
  /\ pend' = pend \cup {<<o, Len(hist[o]) + 1>>}

\* A checkout completes at Stripe, or a license is bought.
Checkout(o) ==
  /\ o \notin Free /\ ~Exists(o)
  /\ \E st \in {"incomplete", "active"} :
       Emit(o, [Bought(now) EXCEPT !.st = st])
  /\ UNCHANGED <<listed, now, hooks, tables, jobs, mails>>

\* Payment succeeds or the subscription is canceled.
Change(o) ==
  /\ Exists(o)
  /\ \E st \in {"active", "canceled"} \ {Current(o).st} :
       /\ Current(o).st # "canceled"
       /\ Emit(o, [Current(o) EXCEPT !.st = st])
  /\ UNCHANGED <<listed, now, hooks, tables, jobs, mails>>

\* A month passes; active subscriptions whose period is over are renewed.
Tick ==
  /\ now < scene.last /\ now' = now + 1
  /\ LET due == { s \in Subs : /\ Exists(s) /\ Current(s).st = "active"
                               /\ Current(s).start + PeriodLength(s) <= now + 1 } IN
     /\ hist' = [o \in Objects |-> IF o \in due
                   THEN Append(hist[o], [Current(o) EXCEPT !.start = now + 1]) ELSE hist[o]]
     /\ pend' = pend \cup { <<s, Len(hist[s]) + 1>> : s \in due }
  /\ UNCHANGED <<listed, hooks, tables, jobs, mails>>

\* Stripe stops redelivering an event, delivered or not.
GiveUp ==
  /\ \E e \in pend : /\ pend' = pend \ {e}
                     /\ dedup' = IF \E b \in busy : b.ev = e THEN dedup ELSE dedup \ {e}
  /\ UNCHANGED <<hist, listed, now, first, busy, tables, jobs, mails>>

\* Cache entries live ten minutes.
Expire ==
  /\ first' = [o \in Objects |-> 0] /\ dedup' = {}
  /\ first # first' \/ dedup # dedup'
  /\ UNCHANGED <<stripeSide, busy, tables, jobs, mails>>
--------------------------------------------------------------------------------
\* Webhooks ----------------------------------------------------------------
\* stripe_webhook_view up to the dispatch: the order check compares with the
\* FIRST event seen of the object in the window, the entry is never moved on.
\* A subscription's handler first fetches the customer and, if its metadata
\* name the organization, reads that row.
stripe_webhook_view(e) ==
  LET o == e[1]
      seen == IF first[o] = 0 THEN e[2] ELSE first[o] IN
  /\ e \in pend
  /\ first' = [first EXCEPT ![o] = seen]
  /\ \/ /\ e[2] < seen \/ e \in dedup
        /\ pend' = pend \ {e}
        /\ UNCHANGED <<dedup, busy>>
     \/ /\ e[2] >= seen /\ e \notin dedup /\ Cardinality(busy) < MaxBusy
        /\ \/ /\ "ok" \in Outcomes
              /\ dedup' = dedup \cup {e}
              /\ busy' = busy \cup {[ev |-> e, pc |-> IF o = License THEN "license" ELSE "upsert",
                                     prim |-> prim]}
           \/ "error" \in Outcomes /\ UNCHANGED <<dedup, busy>>
        /\ UNCHANGED pend
  /\ UNCHANGED <<hist, listed, now, tables, jobs, mails>>

HookStep(b, pc)  == busy' = (busy \ {b}) \cup {[b EXCEPT !.pc = pc]}
HookAnswer(b)    == busy' = busy \ {b} /\ pend' = pend \ {b.ev} /\ dedup' = dedup \ {b.ev}
\* The handler raised: the dedup key is released and Stripe gets a 500.
HookRaise(b)     == busy' = busy \ {b} /\ dedup' = dedup \ {b.ev}
HookPayload(b)   == hist[b.ev[1]][b.ev[2]]

\* update_or_create of the row; an unknown price breaks the foreign key.
HookUpsert(b) ==
  LET s == b.ev[1] IN
  /\ b.pc = "upsert"
  /\ \/ /\ s \notin prices /\ HookRaise(b) /\ UNCHANGED row
     \/ /\ s \in prices
        /\ row' = [row EXCEPT ![s] = RowOf(s, HookPayload(b))]
        /\ HookStep(b, "primary") /\ UNCHANGED dedup
  /\ UNCHANGED <<stripeSide, first, products, prices, prim, jobs, mails>>

\* The primary pointer, compared with the organization read at the start.
HookPrimary(b) ==
  LET s == b.ev[1]
      best == BestOf(row) IN
  /\ b.pc = "primary"
  /\ prim' = IF IsActive(HookPayload(b))
             THEN (IF best # None /\ best # b.prim THEN best ELSE prim)
             ELSE (IF s = b.prim THEN None ELSE prim)
  /\ HookAnswer(b)
  /\ UNCHANGED <<hist, listed, now, first, products, prices, row, jobs, mails>>

\* handle_support_subscription: send, then mark at Stripe.
handle_support_subscription(b) ==
  /\ b.pc = "license"
  /\ \/ /\ HookPayload(b).marked \/ ~IsActive(HookPayload(b))
        /\ HookAnswer(b) /\ UNCHANGED mails
     \/ /\ ~HookPayload(b).marked /\ IsActive(HookPayload(b))
        /\ \/ HookStep(b, "mark") /\ mails' = (IF mails = 2 THEN 2 ELSE mails + 1) /\ UNCHANGED <<pend, dedup>>
           \/ HookRaise(b) /\ UNCHANGED <<pend, mails>>
  /\ UNCHANGED <<hist, listed, now, first, tables, jobs>>

\* mark_welcome_sent merges the flag into the subscription's metadata.
mark_welcome_sent(b) ==
  /\ b.pc = "mark"
  /\ \/ /\ hist' = [hist EXCEPT ![License] = Append(@, [Current(License) EXCEPT !.marked = TRUE])]
        /\ pend' = (pend \ {b.ev}) \cup {<<License, Len(hist[License]) + 1>>}
        /\ busy' = busy \ {b} /\ dedup' = dedup \ {b.ev}
     \/ HookRaise(b) /\ UNCHANGED <<hist, pend>>
  /\ UNCHANGED <<listed, now, first, tables, jobs, mails>>

\* A process dies in a handler: nothing is released, nothing is answered.
HookDies(b) ==
  /\ busy' = busy \ {b}
  /\ UNCHANGED <<stripeSide, first, dedup, tables, jobs, mails>>

\* product.* events: hosted plans and the overage product are upserted.
update_product(s) ==
  /\ s \in listed /\ products' = products \cup {s}
  /\ UNCHANGED <<stripeSide, hooks, prices, row, prim, jobs, mails>>

\* price.* events: dropped with a 200 while the product is unknown.
update_price(s) ==
  /\ s \in products /\ prices' = prices \cup {s}
  /\ UNCHANGED <<stripeSide, hooks, products, row, prim, jobs, mails>>
--------------------------------------------------------------------------------
\* The nightly sync ----------------------------------------------------------
Referenced == { s \in Subs : row[s] # NoRow }

\* StripeProduct.sync_from_stripe: upsert what is listed, with its default
\* price, delete what is neither listed nor referenced (prices cascade); then
\* StripePrice.sync_from_stripe: the prices of the known products.
SyncedProducts == listed \cup (products \cap Referenced)
SyncCatalog ==
  /\ night.pc = "idle"
  /\ products' = SyncedProducts /\ prices' = SyncedProducts
  /\ night' = [night EXCEPT !.pc = "page", !.todo = { s \in Subs : Exists(s) }]
  /\ UNCHANGED <<stripeSide, hooks, row, prim, cyc, buy, overage, mails>>

\* One page of list_subscriptions, which leaves canceled ones out; the price is
\* upserted, or the subscription skipped when its product is unknown.
SyncPage ==
  /\ night.pc = "page"
  /\ \E s \in night.todo :
       LET lists == Exists(s) /\ Current(s).st # "canceled"
           keeps == lists /\ s \in products IN
       /\ night' = [night EXCEPT !.todo = @ \ {s}, !.orgs = @ \/ lists,
                      !.pc = IF keeps THEN "rows" ELSE "page",
                      !.sub = IF keeps THEN s ELSE None,
                      !.got = IF keeps THEN RowOf(s, Current(s)) ELSE NoRow]
       /\ prices' = IF keeps THEN prices \cup {s} ELSE prices
  /\ UNCHANGED <<stripeSide, hooks, products, row, prim, cyc, buy, overage, mails>>

\* The page is written with one upsert.
SyncRows ==
  /\ night.pc = "rows"
  /\ row' = [row EXCEPT ![night.sub] = night.got]
  /\ night' = [night EXCEPT !.pc = "page", !.sub = None, !.got = NoRow]
  /\ UNCHANGED <<stripeSide, hooks, products, prices, prim, cyc, buy, overage, mails>>

\* Mutant: a period that ended this month is not over yet.
OutdatedLate == { s \in Subs : IsActive(row[s]) /\ row[s].end < now }
\* Rows still active past their period.
Outdated == { s \in Subs : IsActive(row[s]) /\ row[s].end <= now }

\* set_primary_subscriptions_for_organizations, for those met on the pages;
\* the outdated rows are looked up next.
SetPrimaries ==
  /\ night.pc = "page" /\ night.todo = {}
  /\ prim' = IF night.orgs THEN BestOf(row) ELSE prim
  /\ night' = [night EXCEPT !.pc = "fetch", !.orgs = FALSE, !.todo = Outdated]
  /\ UNCHANGED <<stripeSide, hooks, products, prices, row, cyc, buy, overage, mails>>

\* update_outdated_subscriptions: each is fetched and saved.
update_outdated_subscriptions ==
  /\ \/ /\ night.pc = "fetch"
        /\ \E s \in night.todo :
             night' = [night EXCEPT !.pc = "save", !.sub = s, !.todo = @ \ {s},
                         !.got = RowOf(s, Current(s))]
        /\ UNCHANGED row
     \/ /\ night.pc = "save"
        /\ row' = [row EXCEPT ![night.sub] = night.got]
        /\ night' = [night EXCEPT !.pc = "fetch", !.sub = None, !.got = NoRow]
  /\ UNCHANGED <<stripeSide, hooks, products, prices, prim, cyc, buy, overage, mails>>

\* remove_inactive_primary_subscriptions ends the night.
remove_inactive_primary_subscriptions ==
  /\ night.pc = "fetch" /\ night.todo = {}
  /\ prim' = IF prim # None /\ ~IsActive(row[prim]) THEN None ELSE prim
  /\ night' = NightIdle
  /\ UNCHANGED <<stripeSide, hooks, products, prices, row, cyc, buy, overage, mails>>

\* A Stripe error ends the sync where it stands; the next night starts anew.
SyncFails ==
  /\ night.pc \in {"page", "fetch"} /\ now < scene.last
  /\ night' = NightIdle
  /\ UNCHANGED <<stripeSide, hooks, tables, cyc, buy, overage, mails>>

\* RollCycles: read a row whose cycle is over, save the new one.
RollCycles ==
  /\ \/ /\ cyc.pc = "idle"
        /\ \E s \in Annual :
             /\ IsActive(row[s]) /\ row[s].cycle + 1 <= now
             /\ cyc' = [pc |-> "save", sub |-> s, cycle |-> CycleMonth(row[s].start, TRUE)]
        /\ UNCHANGED row
     \/ /\ cyc.pc = "save"
        /\ row' = [row EXCEPT ![cyc.sub].cycle = cyc.cycle]
        /\ cyc' = [pc |-> "idle", sub |-> None, cycle |-> 0]
  /\ UNCHANGED <<stripeSide, hooks, products, prices, prim, night, buy, overage, mails>>
--------------------------------------------------------------------------------
\* Endpoints -------------------------------------------------------------------
\* stripe_create_subscription: refuse if a row is active, create at Stripe,
\* insert the row (refused if a webhook was faster), point at it.
stripe_create_subscription ==
  /\ \E s \in Free :
       \/ /\ buy = "idle" /\ ~Exists(s) /\ s \in prices
          /\ \A t \in Subs : ~IsActive(row[t])
          /\ buy' = "create" /\ UNCHANGED <<hist, pend, row, prim>>
       \/ /\ buy = "create"
          /\ \/ /\ Emit(s, Bought(now))
                /\ buy' = "insert"
             \/ buy' = "idle" /\ UNCHANGED <<hist, pend>>
          /\ UNCHANGED <<row, prim>>
       \/ /\ buy = "insert"
          /\ \/ row[s] # NoRow /\ buy' = "done" /\ UNCHANGED row
             \/ row[s] = NoRow /\ s \notin prices /\ buy' = "done" /\ UNCHANGED row
             \/ /\ row[s] = NoRow /\ s \in prices
                /\ row' = [row EXCEPT ![s] = RowOf(s, [hist[s][1] EXCEPT !.st = "active"])]
                /\ buy' = "point"
          /\ UNCHANGED <<hist, pend, prim>>
       \/ /\ buy = "point" /\ prim' = s /\ buy' = "done"
          /\ UNCHANGED <<hist, pend, row>>
  /\ UNCHANGED <<listed, now, hooks, products, prices, night, cyc, overage, mails>>

\* configure_overage: reuse the metered item Stripe already has, or attach one;
\* either way its id is saved afterwards.
configure_overage ==
  /\ \E s \in Subs :
       \/ /\ overage = "idle" /\ prim = s /\ Quota[s] > 0 /\ ~row[s].item
          /\ IF select_subscription_items(Current(s).items).metered
               THEN UNCHANGED <<hist, pend>>
               ELSE /\ Current(s).st # "canceled"
                    /\ \E items \in {<<"metered", "base">>} :
                         Emit(s, [Current(s) EXCEPT !.items = items])
          /\ overage' = s /\ UNCHANGED row
       \/ /\ overage = s
          /\ \/ row' = [row EXCEPT ![s].item = TRUE]
             \/ UNCHANGED row               \* the process dies before the save
          /\ overage' = "idle" /\ UNCHANGED <<hist, pend>>
  /\ UNCHANGED <<listed, now, hooks, products, prices, prim, night, cyc, buy, mails>>
--------------------------------------------------------------------------------
Hook(b) == \/ HookUpsert(b) \/ HookPrimary(b)
           \/ handle_support_subscription(b) \/ mark_welcome_sent(b)
Nightly == \/ SyncCatalog \/ SyncPage \/ SyncRows \/ SetPrimaries
           \/ update_outdated_subscriptions \/ remove_inactive_primary_subscriptions
StripeNext ==
  /\ UNCHANGED scene
  /\ \/ \E o \in Objects : Checkout(o) \/ Change(o)
     \/ Tick \/ GiveUp \/ Expire
     \/ \E e \in pend : stripe_webhook_view(e)
     \/ \E b \in busy : Hook(b) \/ HookDies(b)
     \/ \E s \in Subs : update_product(s) \/ update_price(s)
     \/ Nightly \/ SyncFails \/ RollCycles
     \/ stripe_create_subscription \/ configure_overage

\* The nightly job, the hourly cycle job, requests in progress and time go on;
\* Stripe redelivers an event for a few days only.
StripeFairness ==
  /\ WF_moving(Nightly) /\ WF_moving(RollCycles)
  /\ WF_moving(Tick) /\ WF_moving(GiveUp)
  /\ WF_moving(\E b \in busy : Hook(b) \/ HookDies(b))
  /\ WF_moving(stripe_create_subscription /\ buy # "idle")
  /\ WF_moving(configure_overage /\ overage # "idle")
StripeSpec == StripeInit /\ [][StripeNext]_syncVars /\ StripeFairness
--------------------------------------------------------------------------------
\* A license marked as welcomed was sent its mail.
MarkedMeansMailed ==
  Exists(License) /\ Current(License).marked => mails > 0

\* Once Stripe is quiet the server agrees with it for good, whatever webhooks
\* were lost, repeated or reordered: every subscription is active here exactly
\* when it is there, with its period and metered item, the quota cycle covers
\* today, and the primary subscription is the best active one.  On the way a
\* welcome mail is never marked before it is sent, however often the handler
\* failed, died or was run twice.
Agrees ==
  /\ \A s \in Subs : Exists(s) =>
       /\ IsActive(row[s]) <=> Current(s).st = "active"
       /\ IsActive(row[s]) => /\ row[s].start = Current(s).start
                              /\ row[s].item = select_subscription_items(Current(s).items).metered
                              /\ row[s].cycle <= now /\ now < row[s].cycle + 1
  /\ prim = BestOf(row)
StripeConverges == <>[]Agrees /\ []MarkedMeansMailed
================================================================================
