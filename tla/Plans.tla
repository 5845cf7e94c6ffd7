-------------------------------- MODULE Plans --------------------------------
(***************************************************************************)
(* The plan catalog of conpass_common/plans.py and what services/merchants   *)
(* and services/admin compute from it.  Exact money is counted in mills       *)
(* (1/1000 USD), the precision of the per-card rates; what is shown is money   *)
(* rounded to cents.                                                          *)
(***************************************************************************)
EXTENDS Integers, Sequences, FiniteSets, Folds

TierOrder == <<"starter", "growth", "pro">>
Tier == {"starter", "growth", "pro"}
PaymentStatus == {"pending", "paid", "overdue", "suspended"}

Unlimited == -1  \* operation_user_limit = None

StarterFeatures == {"campaigns", "basic_notifications", "reports", "user_management"}
GrowthFeatures == StarterFeatures \cup {"nearby_notifications", "manual_campaigns"}
ProFeatures == GrowthFeatures \cup {"automated_campaigns"}
Feature == ProFeatures

PLANS ==
  [starter |-> [price_usd |-> 4990, included_cards |-> 200, extra_card_usd |-> 44,
                included_notifications |-> 500, extra_notification_usd |-> 15,
                operation_user_limit |-> 2, features |-> StarterFeatures],
   growth  |-> [price_usd |-> 14990, included_cards |-> 1000, extra_card_usd |-> 34,
                included_notifications |-> 1000, extra_notification_usd |-> 10,
                operation_user_limit |-> 5, features |-> GrowthFeatures],
   pro     |-> [price_usd |-> 24990, included_cards |-> 5000, extra_card_usd |-> 24,
                included_notifications |-> 10000, extra_notification_usd |-> 5,
                operation_user_limit |-> Unlimited, features |-> ProFeatures]]

Rank(tier) == CHOOSE n \in DOMAIN TierOrder : TierOrder[n] = tier

\* The first tier of TierOrder among those of a non-empty set.
FirstOf(tiers) == TierOrder[CHOOSE n \in DOMAIN TierOrder :
                     /\ TierOrder[n] \in tiers
                     /\ \A k \in DOMAIN TierOrder : TierOrder[k] \in tiers => n <= k]

Has(tier, feature) == feature \in PLANS[tier].features

\* Faulty variant of CheapestWith: the last tier that has the feature.
DearestWith(feature) ==
  CHOOSE t \in Tier : Has(t, feature) /\ \A u \in Tier : Has(u, feature) => Rank(u) <= Rank(t)

CheapestWith(feature) == FirstOf({t \in Tier : Has(t, feature)})

\* require_feature: 402 with the tier to upgrade to, or "allowed"
RequireFeature(tier, feature) ==
  IF Has(tier, feature) THEN "allowed" ELSE CheapestWith(feature)

\* What POST /notifications/reminders asks of the plan before it answers.
ReminderGate(tier, segment) ==
  IF RequireFeature(tier, "manual_campaigns") # "allowed" \/ segment # "birthday"
  THEN RequireFeature(tier, "manual_campaigns")
  ELSE RequireFeature(tier, "automated_campaigns")

\* Does a limit leave room for one more than n operators?
HasRoom(limit, n) == limit = Unlimited \/ n < limit

NextTierWithMoreOperators(tier) ==
  LET current == PLANS[tier].operation_user_limit
      better == {t \in Tier : /\ Rank(t) > Rank(tier)
                              /\ HasRoom(PLANS[t].operation_user_limit, current)}
  IN IF current = Unlimited \/ better = {} THEN "none" ELSE FirstOf(better)

\* POST operation-users with n operators: 402 with the tier to upgrade to, or "allowed"
OperatorGate(tier, n) ==
  IF HasRoom(PLANS[tier].operation_user_limit, n) THEN "allowed"
  ELSE NextTierWithMoreOperators(tier)

-----------------------------------------------------------------------------
\* Faulty variant of Money: cents cut off.
MoneyCut(mills) == mills \div 10

\* money: to cents, ROUND_HALF_UP (amounts are never negative)
Money(mills) == (mills + 5) \div 10

Over(used, included) == IF used > included THEN used - included ELSE 0

Estimate(tier, active_cards, notifications) ==
  LET plan == PLANS[tier]
      extra_cards == Over(active_cards, plan.included_cards)
      extra_notifications == Over(notifications, plan.included_notifications)
      cards == plan.extra_card_usd * extra_cards
      notifs == plan.extra_notification_usd * extra_notifications
  IN [extra_cards |-> extra_cards, extra_cards_usd |-> Money(cards),
      extra_notifications |-> extra_notifications,
      extra_notifications_usd |-> Money(notifs),
      total_usd |-> Money(plan.price_usd + cards + notifs)]

\* subscription_to_api and plan_to_api: price, inclusion and limit are the catalog's.
SubscriptionView(sub, active_cards) ==
  [tier |-> sub.tier, paymentStatus |-> sub.payment_status,
   priceUsd |-> Money(PLANS[sub.tier].price_usd),
   includedCards |-> PLANS[sub.tier].included_cards,
   operationUserLimit |-> PLANS[sub.tier].operation_user_limit,
   activeCards |-> active_cards]

\* GET /merchants/{id}/usage: notifications are not metered yet.
Usage(sub, active_cards) == Estimate(sub.tier, active_cards, 0)

\* The row of GET /admin/clients for a merchant with a subscription.
AdminClient(sub, active_cards) ==
  [merchantId |-> sub.merchant, tier |-> sub.tier, paymentStatus |-> sub.payment_status,
   priceUsd |-> Money(PLANS[sub.tier].price_usd), activeCards |-> active_cards,
   includedCards |-> PLANS[sub.tier].included_cards,
   estimatedMonthlyUsd |-> Estimate(sub.tier, active_cards, 0).total_usd]

Paid(subs) == {s \in subs : s.payment_status = "paid"}

\* GET /admin/stats: the sums are over rows, one subscription per merchant.
Stats(subs, active) ==
  LET sum(f(_)) == MapThenFoldSet(LAMBDA a, b : a + b, 0, f, LAMBDA T : CHOOSE s \in T : TRUE,
                                  Paid(subs))
  IN [activeClients |-> Cardinality(Paid(subs)),
      mrrUsd |-> sum(LAMBDA s : Estimate(s.tier, active[s.merchant], 0).total_usd),
      subscriptionMrrUsd |-> sum(LAMBDA s : Money(PLANS[s.tier].price_usd)),
      tierCounts |-> [t \in Tier |-> Cardinality({s \in subs : s.tier = t})],
      overdueCount |-> Cardinality({s \in subs : s.payment_status = "overdue"})]
=============================================================================
