-------------------------- MODULE MCCardOperations --------------------------
(***************************************************************************)
(* Instances of CardOperations for TLC.                                      *)
(***************************************************************************)
EXTENDS CardOperationsRefinement, TLC

CONSTANTS stampCard, pointCard, seasonalCard, idleCard, goneCard,
          k1, k2, k3, shop, rival, cashier, leaver

MCCard == {stampCard, pointCard, seasonalCard, idleCard, goneCard}

NewCard == [stamps |-> 0, points |-> 0, rewards_available |-> 0,
            rewards_redeemed |-> 0, active |-> TRUE]

\* stampCard: one stamp short of a second reward; seasonalCard: born with its
\* single discount; idleCard: switched off.
MCIssued ==
  stampCard :> [NewCard EXCEPT !.stamps = 1, !.rewards_available = 1] @@
  pointCard :> NewCard @@
  seasonalCard :> [NewCard EXCEPT !.rewards_available = 1] @@
  idleCard :> [NewCard EXCEPT !.active = FALSE]

StampRules == [mechanic |-> "stamps", stamps_for_reward |-> 2,
               points_for_reward |-> 0, points_per_dollar |-> 0]
PointRules == [mechanic |-> "points", stamps_for_reward |-> 0,
               points_for_reward |-> 3, points_per_dollar |-> 3]
NoRules == [StampRules EXCEPT !.mechanic = "none", !.stamps_for_reward = 0]

MCRules == stampCard :> StampRules @@ pointCard :> PointRules @@
           seasonalCard :> NoRules @@ idleCard :> StampRules

MCCardMerchant == [c \in DOMAIN MCIssued |-> shop]

Accrue(key, card, stamps, amount) ==
  [key |-> key, caller |-> shop,
   body |-> [op |-> "accrue", card |-> card, operator |-> cashier,
             stamps |-> stamps, amount |-> amount]]
Redeem(key, card) ==
  [key |-> key, caller |-> shop,
   body |-> [op |-> "redeem", card |-> card, operator |-> cashier,
             stamps |-> 0, amount |-> -1]]

\* Two cashiers and their retries on one stamp card; one key reused.
StampRequests ==
  {Accrue(k1, stampCard, 1, -1), Accrue(k2, stampCard, 3, -1), Redeem(k2, stampCard)}

\* The races of two cashiers and their retries: the stamp card above, a seasonal
\* card, and an operator whose profile is gone.
RaceRequests ==
  StampRequests \cup
  {[Accrue(k2, stampCard, 1, -1) EXCEPT !.body.operator = leaver], Redeem(k2, seasonalCard)}

\* Every early return of the handlers: unknown card, another merchant's card,
\* inactive card, missing stamps, missing amount, a card that does not accrue.
RefusedRequests ==
  {Accrue(k1, goneCard, 1, -1),
   [Accrue(k1, stampCard, 1, -1) EXCEPT !.caller = rival],
   Accrue(k1, idleCard, 1, -1), Accrue(k1, stampCard, 0, 1),
   Accrue(k1, pointCard, 1, -1), Accrue(k1, seasonalCard, 1, -1)}

\* Several cards and keys, for the isolated regime.
LedgerRequests ==
  {Accrue(k1, stampCard, 3, -1), Redeem(k2, stampCard), Accrue(k2, pointCard, 0, 5),
   Accrue(k3, stampCard, 1, -1), Redeem(k3, seasonalCard), Redeem(k1, seasonalCard)}

\* Served or refused, for the liveness run.
ServedOrRefused ==
  RefusedRequests \cup
  {Accrue(k1, stampCard, 3, -1), Redeem(k2, stampCard), Accrue(k2, pointCard, 0, 5),
   Redeem(k1, seasonalCard)}

OneAccrual == {Accrue(k1, stampCard, 1, -1)}
AccrueAndRedeem == {Accrue(k1, stampCard, 1, -1), Redeem(k2, stampCard)}
LeaverRequests == {[Accrue(k1, stampCard, 1, -1) EXCEPT !.body.operator = leaver]}

InvocationSymmetry == Permutations(Invocation)

=============================================================================
