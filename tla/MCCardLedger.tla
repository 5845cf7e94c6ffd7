---------------------------- MODULE MCCardLedger ----------------------------
(* Instance of CardLedger for TLC: a stamp card issued with a welcome bonus    *)
(* above its price, and a point card at 50 points a dollar.                     *)
EXTENDS CardLedger, TLC

CONSTANTS stampCard, pointCard

NewCard == [stamps |-> 0, points |-> 0, rewards_available |-> 0,
            rewards_redeemed |-> 0, active |-> TRUE]

MCIssued == stampCard :> [NewCard EXCEPT !.stamps = 4] @@ pointCard :> NewCard

MCRules ==
  stampCard :> [mechanic |-> "stamps", stamps_for_reward |-> 3,
                points_for_reward |-> 0, points_per_dollar |-> 0] @@
  pointCard :> [mechanic |-> "points", stamps_for_reward |-> 0,
                points_for_reward |-> 10, points_per_dollar |-> 50 * Scale]

MCBodies ==
  [op: {"accrue"}, card: {stampCard}, stamps: {1, 2, 7}, amount: {-1}]
    \cup [op: {"accrue"}, card: {pointCard}, stamps: {0}, amount: {13, 28, 30, 58, 114}]
    \cup [op: {"redeem"}, card: {stampCard, pointCard}, stamps: {0}, amount: {-1}]

\* 0.58 * 50.0 and the like come out of Python as 28.999999999999996: of the
\* amounts above and their sums, these do.
MCShortProducts == {58, 114, 116, 228} \X {50 * Scale}

MCRequests == [key: Key, body: MCBodies]
=============================================================================
