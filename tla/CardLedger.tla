----------------------------- MODULE CardLedger -----------------------------
(***************************************************************************)
(* What services/operations promises a client, apart from how it is kept: a  *)
(* keyed operation changes a card's balance and is answered in one           *)
(* indivisible step, at most once per Idempotency-Key, and its answer never  *)
(* changes.  A refused operation leaves no trace, so it is not a step here.  *)
(***************************************************************************)
EXTENDS RewardLogic

CONSTANTS Key, Account, Txn, Requests, Rules, Issued

\* A missing `stamps` is 0 and a missing `amount` -1 (see RewardLogic).
ASSUME LedgerAssumption ==
  /\ Issued \in [Account -> CardState] /\ Rules \in [Account -> ProgramRules]
  /\ \A r \in Requests : r.body.stamps \in Nat /\ r.body.amount \in Int

VARIABLES balance, answer, credited, redemptions

ledgerVars == <<balance, answer, credited, redemptions>>

LedgerInit ==
  /\ balance = Issued
  /\ answer = [k \in Key |-> {}]
  /\ credited = [c \in Account |-> Worth(Rules[c], Issued[c])]
  /\ redemptions = [c \in Account |-> Issued[c].rewards_redeemed]

Answer(k, body, id, state, delta) ==
  /\ answer[k] = {}
  /\ balance' = [balance EXCEPT ![body.card] = state]
  /\ answer' = [answer EXCEPT ![k] =
       {[hash |-> body,
         body |-> [txn |-> id, card |-> body.card, state |-> state, delta |-> delta]]}]

AccrueOnce(k, body, id) ==
  LET rules == Rules[body.card]
      outcome == AccrueOutcome(rules, balance[body.card], body)
  IN
  /\ body.op = "accrue"
  /\ ~AccrueRefused(rules, balance[body.card], body)
  /\ Answer(k, body, id, outcome.state,
            [kind |-> outcome.kind, stamps_delta |-> outcome.stamps_delta,
             points_delta |-> outcome.points_delta])
  /\ credited' = [credited EXCEPT ![body.card] =
                    @ + outcome.stamps_delta + outcome.points_delta]
  /\ UNCHANGED redemptions

RedeemOnce(k, body, id) ==
  /\ body.op = "redeem"
  /\ ~RedeemRefused(balance[body.card])
  /\ Answer(k, body, id, RedeemedState(balance[body.card]),
            [kind |-> "redeem", stamps_delta |-> 0, points_delta |-> 0])
  /\ redemptions' = [redemptions EXCEPT ![body.card] = @ + 1]
  /\ UNCHANGED credited

LedgerNext ==
  \E r \in Requests, id \in Txn :
    /\ r.body.card \in Account
    /\ AccrueOnce(r.key, r.body, id) \/ RedeemOnce(r.key, r.body, id)

LedgerSpec == LedgerInit /\ [][LedgerNext]_ledgerVars

-----------------------------------------------------------------------------
(* Properties. *)

\* Nothing is lost and nothing minted: a card's stamps or points, with its
\* rewards at their price, are exactly what its issue and its answered accruals
\* credited, and its redeemed count is exactly its answered redemptions.
LedgerBalances ==
  \A c \in Account :
    /\ Worth(Rules[c], balance[c]) = credited[c]
    /\ balance[c].rewards_redeemed = redemptions[c]

\* The reference: stamps handed out one at a time, a reward at each full card.
OneByOne(price, state, n) ==
  LET after[m \in 0 .. n] ==
        IF m = 0 THEN state
        ELSE LET one == after[m - 1] IN
             IF one.stamps + 1 = price
             THEN [one EXCEPT !.stamps = 0, !.rewards_available = @ + 1]
             ELSE [one EXCEPT !.stamps = @ + 1]
  IN after[n]

\* n stamps at once do what n single stamps do, on every card with a counter below
\* its price (logic.accrue awards each reward a batch fills).
BatchIsOneByOne(rules, state, n) ==
  (/\ rules.mechanic = "stamps" /\ rules.stamps_for_reward > 0 /\ n > 0
   /\ state.stamps \in 0 .. rules.stamps_for_reward - 1)
    => AccrueStamps(rules, state, n).state = OneByOne(rules.stamps_for_reward, state, n)

\* A purchase earns at most amount * points_per_dollar and at most one point less.
\* Paid in two parts it earns what it would at once, or a point less; only where
\* each part is worth whole points, so that the float products may miss them, can
\* it earn one point more, or two less.
SplitPurchase(rules, state, a, b) ==
  (rules.mechanic = "points" /\ a >= 0 /\ b >= 0)
    => LET first == AccruePoints(rules, state, a).state
           whole == AccruePoints(rules, state, a + b).state
           split == AccruePoints(rules, first, b).state
           exact == a * rules.points_per_dollar
           lost == Worth(rules, whole) - Worth(rules, split)
       IN /\ (Worth(rules, first) - Worth(rules, state)) * (Scale * Scale)
               \in exact - Scale * Scale .. exact
          /\ lost \in -1 .. 2
          /\ lost \in {-1, 2} => /\ WholePoints(a, rules.points_per_dollar)
                                 /\ WholePoints(b, rules.points_per_dollar)

\* Splitting an accrual in two or more changes nothing on a stamp card, and on a
\* point card no more than the truncation of int(amount * points_per_dollar) does.
SplittingIsBounded ==
  \A c \in Account, r, s \in Requests :
    /\ BatchIsOneByOne(Rules[c], balance[c], r.body.stamps)
    /\ SplitPurchase(Rules[c], balance[c], r.body.amount, s.body.amount)
=============================================================================
