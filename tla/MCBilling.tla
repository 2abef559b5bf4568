------------------------------- MODULE MCBilling -------------------------------
(***************************************************************************)
(* The subscription tables and the arithmetic of periods and prices, each  *)
(* explored by itself: focus is the part that moves.                       *)
(***************************************************************************)
EXTENDS StripeSync, BillingPeriods

CONSTANTS s1, s2, s3
VARIABLE focus

MCQuota == [s \in Subs |-> IF s \in Free THEN 1 ELSE 2]
Scene(objects, old, last, changes, known) ==
  [objects |-> objects, old |-> old, last |-> last, changes |-> changes, known |-> known]
NoScene == Scene({}, {}, 0, 0, TRUE)
\* Two paid plans at once, a new plan, a free plan, an annual plan whose product
\* was never seen, an annual plan that renews, a support license.
MCScenes == {NoScene,
             Scene({s1, s2}, {s1, s2}, 1, 1, TRUE), Scene({s1}, {}, 1, 2, TRUE),
             Scene({s2}, {}, 1, 1, TRUE), Scene({s3}, {}, 2, 1, FALSE),
             Scene({s3}, {s3}, 2, 1, TRUE), Scene({License}, {}, 1, 2, TRUE)}

MCMonths == <<4, 2, 3>>
Tier(upto, rate) == [upto |-> upto, rate |-> rate]
MCSchedules == {<<Tier(0, 30)>>, <<Tier(3, 0), Tier(7, 70), Tier(0, 25)>>,
                <<Tier(2, 90), Tier(5, 40), Tier(0, 33)>>, <<Tier(4, 150), Tier(0, 0)>>}
MCBudgets == {0, 1, 3, 12}
Graduated == <<Tier(2, 90), Tier(5, 40), Tier(0, 33)>>
Price(tiers, mode, flat, active) ==
  [tiers |-> tiers, mode |-> mode, currency |-> "usd", flat |-> flat,
   interval |-> "month", active |-> active]
MCLivePrices == {Price(Graduated, "graduated", FALSE, TRUE), Price(Graduated, "volume", FALSE, TRUE),
                 Price(Graduated, "graduated", TRUE, TRUE), Price(<<Tier(0, 90)>>, "graduated", FALSE, TRUE),
                 Price(<<Tier(0, 90)>>, "volume", FALSE, FALSE)}
MCLoads == {[events |-> 0, tenths |-> 0, size |-> 0], [events |-> 2, tenths |-> 13, size |-> 1]}

billingVars == <<focus, syncVars, periodVars>>
BillingInit ==
  /\ focus \in {"stripe", "windows", "prices"}
  /\ StripeInit /\ PeriodInit
  /\ focus = "stripe" <=> scene # NoScene
  /\ focus # "windows" => plan = "free" /\ created.d = 1
\* Bound: while two plans are paid nobody uses the endpoints.
Unasked == Cardinality(scene.old) = 2 => UNCHANGED <<buy, overage>>
BillingNext ==
  /\ UNCHANGED focus
  /\ \/ focus = "stripe"  /\ StripeNext /\ Unasked /\ UNCHANGED periodVars
     \/ focus = "windows" /\ WindowNext /\ UNCHANGED syncVars
     \/ focus = "prices"  /\ PriceNext  /\ UNCHANGED syncVars
\* StripeFairness, of the behaviours in which that part moves.
Moves == focus = "stripe"
BillingFairness ==
  /\ WF_moving(Moves /\ Nightly) /\ WF_moving(Moves /\ RollCycles)
  /\ WF_moving(Moves /\ Tick) /\ WF_moving(Moves /\ GiveUp)
  /\ WF_moving(Moves /\ \E b \in busy : Hook(b) \/ HookDies(b))
  /\ WF_moving(Moves /\ stripe_create_subscription /\ buy # "idle")
  /\ WF_moving(Moves /\ configure_overage /\ overage # "idle")
BillingSpec == BillingInit /\ [][BillingNext]_billingVars /\ BillingFairness
================================================================================
