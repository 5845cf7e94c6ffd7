---------------------------- MODULE RewardLogic ----------------------------
(***************************************************************************)
(* The pure reward arithmetic of services/operations/logic.py: what one     *)
(* accrual and one redemption make of a card's balance.                      *)
(* Money and rates are fixed-point: an amount counts                         *)
(* 1/Scale of a dollar and a rate 1/Scale of a point per dollar.  A missing  *)
(* `stamps` is 0 and a missing `amount` is -1: the code refuses them with    *)
(* the same branch as these values.  A missing threshold or rate is 0, as    *)
(* `rules.x or 0` makes it.                                                  *)
(***************************************************************************)
EXTENDS Integers

CONSTANTS
  Scale,
  ShortProducts  \* amounts and rates whose float product misses a whole number

ASSUME ScaleAssumption == Scale \in Nat \ {0}

ASSUME ShortAssumption == ShortProducts \subseteq (Nat \ {0}) \X (Nat \ {0})

\* The balance columns of a card that an operation reads or writes.
CardState == [stamps: Int, points: Int, rewards_available: Int,
              rewards_redeemed: Int, active: BOOLEAN]

Balance(stamps, points, available, redeemed, active) ==
  [stamps |-> stamps, points |-> points, rewards_available |-> available,
   rewards_redeemed |-> redeemed, active |-> active]

ProgramRules == [mechanic: {"stamps", "points", "none"}, stamps_for_reward: Nat,
                 points_for_reward: Nat, points_per_dollar: Nat]

-----------------------------------------------------------------------------
(* Faulty variants of the operators below: what the properties must catch.    *)

ResettingRollOver(threshold, total) ==
  LET earned == IF threshold = 0 THEN 0 ELSE total \div threshold
  IN  [earned |-> earned, remaining |-> IF earned > 0 THEN 0 ELSE total]

StrictRollOver(threshold, total) ==
  LET earned == IF threshold # 0 /\ total > threshold THEN total \div threshold ELSE 0
  IN  [earned |-> earned, remaining |-> total - earned * threshold]

RoundedUpPoints(amount, rate) ==
  (amount * rate + Scale * Scale - 1) \div (Scale * Scale)

RedeemNeverRefused(state) == FALSE

RedeemKeepsAvailable(state) ==
  [state EXCEPT !.rewards_redeemed = @ + 1]

-----------------------------------------------------------------------------
\* Whole rewards a running total buys, and what is left towards the next one.
RollOver(threshold, total) ==
  LET earned == IF threshold = 0 THEN 0 ELSE total \div threshold
  IN  [earned |-> earned, remaining |-> total - earned * threshold]

ExactPoints(amount, rate) == (amount * rate) \div (Scale * Scale)

WholePoints(amount, rate) == ExactPoints(amount, rate) * (Scale * Scale) = amount * rate

\* int(amount * points_per_dollar): the product is one of binary floats.  Where it
\* should be whole it may come out just below, and int() then drops a point (0.29
\* at 100 points a dollar earns 28); elsewhere it is too far from a whole number
\* for the rounding of the product to reach it.
PointsGained(amount, rate) ==
  ExactPoints(amount, rate)
    - IF WholePoints(amount, rate) /\ <<amount, rate>> \in ShortProducts THEN 1 ELSE 0

AccrueRefused(rules, state, add) ==
  \/ ~state.active
  \/ rules.mechanic = "stamps" /\ add.stamps < 1
  \/ rules.mechanic = "points" /\ add.amount < 0
  \/ rules.mechanic \notin {"stamps", "points"}

AccrueStamps(rules, state, stamps) ==
  LET rolled == RollOver(rules.stamps_for_reward, state.stamps + stamps)
  IN  [state |-> Balance(rolled.remaining, state.points,
                         state.rewards_available + rolled.earned,
                         state.rewards_redeemed, state.active),
       kind |-> "accrue_stamps", stamps_delta |-> stamps, points_delta |-> 0]

AccruePoints(rules, state, amount) ==
  LET gained == PointsGained(amount, rules.points_per_dollar)
      rolled == RollOver(rules.points_for_reward, state.points + gained)
  IN  [state |-> Balance(state.stamps, rolled.remaining,
                         state.rewards_available + rolled.earned,
                         state.rewards_redeemed, state.active),
       kind |-> "accrue_points", stamps_delta |-> 0, points_delta |-> gained]

AccrueOutcome(rules, state, add) ==
  IF rules.mechanic = "stamps" THEN AccrueStamps(rules, state, add.stamps)
                               ELSE AccruePoints(rules, state, add.amount)

RedeemRefused(state) == state.rewards_available < 1

RedeemedState(state) ==
  Balance(state.stamps, state.points, state.rewards_available - 1,
          state.rewards_redeemed + 1, state.active)

-----------------------------------------------------------------------------
\* What a balance is worth in stamps or points, rewards counted at their price.
Price(rules) == IF rules.mechanic = "stamps" THEN rules.stamps_for_reward
                                             ELSE rules.points_for_reward

Counter(rules, state) == IF rules.mechanic = "stamps" THEN state.stamps
                                                      ELSE state.points

Worth(rules, state) ==
  Counter(rules, state)
    + Price(rules) * (state.rewards_available + state.rewards_redeemed)
=============================================================================
