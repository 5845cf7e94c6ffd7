-------------------------- MODULE CardLedgerProofs --------------------------
(***************************************************************************)
(* The exactly-once ledger keeps its books for all cards, prices, rates,      *)
(* requests and keys.                                                         *)
(***************************************************************************)
EXTENDS CardLedger, RewardLogicProofs, FiniteSetTheorems, WellFoundedInduction

LedgerType ==
  /\ balance \in [Account -> CardState]
  /\ credited \in [Account -> Int] /\ redemptions \in [Account -> Int]

LedgerInv == LedgerType /\ LedgerBalances

\* A card is worth what it was issued with.
LEMMA LedgerInitHolds ==
  ASSUME LedgerInit
  PROVE  LedgerInv
<1>1. ASSUME NEW c \in Account
      PROVE  /\ Issued[c] \in CardState /\ Issued[c].rewards_redeemed \in Int
             /\ Worth(Rules[c], Issued[c]) \in Int
  <2>1. Issued[c] \in CardState /\ Rules[c] \in ProgramRules
    BY LedgerAssumption
  <2> QED BY <2>1, PriceAndCounter DEF CardState
<1> QED BY <1>1, LedgerAssumption DEF LedgerInit, LedgerInv, LedgerType, LedgerBalances

\* A credit or a redemption is added to the card it is of, and to its account.
LEMMA OneCardChanges ==
  ASSUME LedgerInv, NEW card \in Account, balance'[card] \in CardState,
         \E state : balance' = [balance EXCEPT ![card] = state],
         credited' \in [Account -> Int], redemptions' \in [Account -> Int],
         \A c \in Account \ {card} :
           credited'[c] = credited[c] /\ redemptions'[c] = redemptions[c],
         Worth(Rules[card], balance'[card]) = credited'[card],
         balance'[card].rewards_redeemed = redemptions'[card]
  PROVE  LedgerInv'
<1>1. LedgerType'
  BY DEF LedgerInv, LedgerType
<1>2. ASSUME NEW c \in Account
      PROVE  /\ Worth(Rules[c], balance'[c]) = credited'[c]
             /\ balance'[c].rewards_redeemed = redemptions'[c]
  <2>1. /\ Worth(Rules[c], balance[c]) = credited[c]
        /\ balance[c].rewards_redeemed = redemptions[c]
    BY DEF LedgerInv, LedgerBalances
  <2>2. CASE c = card
    BY <2>2
  <2>3. CASE c # card
    <3>1. balance'[c] = balance[c]
      BY <2>3 DEF LedgerInv, LedgerType
    <3> QED BY <2>1, <2>3, <3>1
  <2> QED BY <2>2, <2>3
<1> QED BY <1>1, <1>2 DEF LedgerInv, LedgerBalances

LEMMA LedgerStep ==
  ASSUME LedgerInv, LedgerNext
  PROVE  LedgerInv'
<1>1. PICK r \in Requests, id \in Txn :
        /\ r.body.card \in Account
        /\ AccrueOnce(r.key, r.body, id) \/ RedeemOnce(r.key, r.body, id)
  BY DEF LedgerNext
<1> DEFINE card == r.body.card
<1>2. /\ card \in Account /\ balance[card] \in CardState /\ Rules[card] \in ProgramRules
      /\ r.body.stamps \in Nat /\ r.body.amount \in Int
      /\ credited \in [Account -> Int] /\ redemptions \in [Account -> Int]
  BY <1>1, LedgerAssumption DEF LedgerInv, LedgerType
<1>3. CASE AccrueOnce(r.key, r.body, id)
  <2> DEFINE outcome == AccrueOutcome(Rules[card], balance[card], r.body)
  <2>1. /\ outcome.state \in CardState
        /\ outcome.stamps_delta \in Nat /\ outcome.points_delta \in Nat
        /\ Worth(Rules[card], outcome.state)
             = Worth(Rules[card], balance[card]) + outcome.stamps_delta + outcome.points_delta
        /\ outcome.state.rewards_redeemed = balance[card].rewards_redeemed
    BY <1>2, <1>3, AccrueFacts DEF AccrueOnce
  <2>2. /\ balance' = [balance EXCEPT ![card] = outcome.state]
        /\ credited' = [credited EXCEPT ![card] =
                          @ + outcome.stamps_delta + outcome.points_delta]
        /\ redemptions' = redemptions
    BY <1>3 DEF AccrueOnce, Answer
  <2> HIDE DEF outcome, card
  <2>3. /\ Worth(Rules[card], balance[card]) = credited[card] /\ credited[card] \in Int
        /\ balance[card].rewards_redeemed = redemptions[card]
    BY <1>2 DEF LedgerInv, LedgerBalances
  <2>4. /\ balance'[card] = outcome.state /\ redemptions'[card] = redemptions[card]
        /\ credited'[card] = credited[card] + outcome.stamps_delta + outcome.points_delta
        /\ credited' \in [Account -> Int] /\ redemptions' \in [Account -> Int]
        /\ \A c \in Account \ {card} :
             credited'[c] = credited[c] /\ redemptions'[c] = redemptions[c]
    BY <1>2, <2>1, <2>2 DEF LedgerInv, LedgerType
  <2> QED BY <1>2, <2>1, <2>2, <2>3, <2>4, OneCardChanges
<1>4. CASE RedeemOnce(r.key, r.body, id)
  <2> DEFINE state == RedeemedState(balance[card])
  <2>1. /\ state \in CardState
        /\ Worth(Rules[card], state) = Worth(Rules[card], balance[card])
        /\ state.rewards_redeemed = balance[card].rewards_redeemed + 1
    BY <1>2, <1>4, RedeemFacts DEF RedeemOnce
  <2>2. /\ balance' = [balance EXCEPT ![card] = state]
        /\ redemptions' = [redemptions EXCEPT ![card] = @ + 1]
        /\ credited' = credited
    BY <1>4 DEF RedeemOnce, Answer
  <2> HIDE DEF state, card
  <2>3. /\ Worth(Rules[card], balance[card]) = credited[card]
        /\ balance[card].rewards_redeemed = redemptions[card]
    BY <1>2 DEF LedgerInv, LedgerBalances
  <2>4. /\ balance'[card] = state /\ redemptions'[card] = redemptions[card] + 1
        /\ credited'[card] = credited[card]
        /\ credited' \in [Account -> Int] /\ redemptions' \in [Account -> Int]
        /\ \A c \in Account \ {card} :
             credited'[c] = credited[c] /\ redemptions'[c] = redemptions[c]
    BY <1>2, <2>2 DEF LedgerInv, LedgerType
  <2> QED BY <1>2, <2>1, <2>2, <2>3, <2>4, OneCardChanges
<1> QED BY <1>1, <1>3, <1>4

LEMMA LedgerHolds == LedgerSpec => []LedgerInv
<1>1. LedgerInit => LedgerInv
  BY LedgerInitHolds
<1>2. LedgerInv /\ [LedgerNext]_ledgerVars => LedgerInv'
  <2>1. CASE UNCHANGED ledgerVars
    BY <2>1 DEF ledgerVars, LedgerInv, LedgerType, LedgerBalances
  <2> QED BY <2>1, LedgerStep
<1> QED BY <1>1, <1>2, PTL DEF LedgerSpec

\* An exactly-once ledger neither loses nor mints: what a card holds, its rewards at
\* their price, is what its issue and its answered accruals credited.
THEOREM BooksBalance == LedgerSpec => []LedgerBalances
<1>1. LedgerInv => LedgerBalances
  BY DEF LedgerInv
<1> QED BY LedgerHolds, <1>1, PTL

-----------------------------------------------------------------------------
(* Splitting an accrual.                                                      *)

\* Induction, as a fact about a set: it is found in the well-foundedness of the
\* finite sets of numbers, the intervals 0 .. m with m outside S among them.
LEMMA SetInduction ==
  ASSUME NEW S, 0 \in S, \A m \in Nat : m \in S => m + 1 \in S
  PROVE  Nat \subseteq S
<1> SUFFICES ASSUME NEW bad \in Nat, bad \notin S PROVE FALSE
  OBVIOUS
<1> DEFINE T == {0 .. m : m \in Nat \ S}
<1>1. T \subseteq FiniteSubsetsOf(Nat) /\ T # {}
  <2>1. \A m \in Nat : IsFiniteSet(0 .. m) /\ 0 .. m \subseteq Nat
    BY FS_Interval
  <2> QED BY <2>1 DEF FiniteSubsetsOf
<1>2. IsWellFoundedOn(StrictSubsetOrdering(Nat), FiniteSubsetsOf(Nat))
  BY FS_StrictSubsetOrderingWellFounded
<1>3. \E x \in T : \A y \in T : ~(<<y, x>> \in StrictSubsetOrdering(Nat))
  <2> HIDE DEF T
  <2> QED BY <1>1, <1>2, WFMin
<1>4. PICK m \in Nat \ S : \A y \in T : ~(<<y, 0 .. m>> \in StrictSubsetOrdering(Nat))
  BY <1>3
<1>5. m # 0 /\ m - 1 \in Nat /\ m - 1 \notin S
  <2>1. m # 0
    BY <1>4
  <2>2. m - 1 \in Nat /\ (m - 1) + 1 = m
    BY <2>1
  <2> QED BY <1>4, <2>1, <2>2
<1>6. /\ 0 .. (m - 1) \in T
      /\ 0 .. (m - 1) \subseteq 0 .. m /\ 0 .. (m - 1) # 0 .. m
      /\ 0 .. m \subseteq Nat
  <2>1. m \in 0 .. m /\ m \notin 0 .. (m - 1)
    BY <1>5
  <2> QED BY <1>5, <2>1
<1>7. <<0 .. (m - 1), 0 .. m>> \in StrictSubsetOrdering(Nat)
  <2> HIDE DEF T
  <2> QED BY <1>6 DEF StrictSubsetOrdering
<1> QED BY <1>4, <1>6, <1>7

\* A quotient is known by its remainder.
LEMMA QuotientUnique ==
  ASSUME NEW total \in Int, NEW price \in Nat, price > 0, NEW q \in Int,
         total - q * price \in 0 .. price - 1
  PROVE  total \div price = q
<1>1. PICK p \in Int : p = total \div price
  BY DivisionRemainder
<1>2. total - p * price \in 0 .. price - 1
  BY <1>1, DivisionRemainder
<1>3. (p - q) * price = p * price - q * price
  OBVIOUS
<1>4. PICK d \in Int : d = p - q
  OBVIOUS
<1>5. d * price < price /\ d * price > -price
  BY <1>2, <1>3, <1>4
<1>6. ~(d >= 1) /\ ~(d <= -1)
  <2>1. ASSUME d >= 1 PROVE d * price >= price
    BY <2>1
  <2>2. ASSUME d <= -1 PROVE d * price <= -price
    BY <2>2
  <2> QED BY <1>5, <2>1, <2>2
<1> QED BY <1>1, <1>4, <1>6

\* One stamp more: at the price it becomes a reward, below it it is kept.
LEMMA OneMoreStamp ==
  ASSUME NEW total \in Nat, NEW price \in Nat, price > 0
  PROVE  LET before == RollOver(price, total)
             after == RollOver(price, total + 1)
         IN IF before.remaining + 1 = price
            THEN after.remaining = 0 /\ after.earned = before.earned + 1
            ELSE after.remaining = before.remaining + 1 /\ after.earned = before.earned
<1>1. PICK q \in Int : q = total \div price /\ total - q * price \in 0 .. price - 1
  BY DivisionRemainder
<1>2. RollOver(price, total) = [earned |-> q, remaining |-> total - q * price]
  BY <1>1 DEF RollOver
<1>3. (q + 1) * price = q * price + price
  OBVIOUS
<1>4. CASE total - q * price + 1 = price
  <2>1. (total + 1) - (q + 1) * price = 0
    BY <1>1, <1>3, <1>4
  <2>2. (total + 1) \div price = q + 1
    BY <2>1, QuotientUnique
  <2> QED BY <1>2, <1>4, <2>1, <2>2 DEF RollOver
<1>5. CASE total - q * price + 1 # price
  <2>1. /\ (total + 1) - q * price \in 0 .. price - 1
        /\ (total + 1) - q * price = (total - q * price) + 1
    BY <1>1, <1>5
  <2>2. (total + 1) \div price = q
    BY <2>1, QuotientUnique
  <2> QED BY <1>2, <1>5, <2>1, <2>2 DEF RollOver
<1> QED BY <1>4, <1>5

\* The recursion of OneByOne, solved: n single stamps are one batch of n.
LEMMA OneByOneIsBatch ==
  ASSUME NEW rules \in ProgramRules, rules.stamps_for_reward > 0,
         NEW state \in CardState, state.stamps \in 0 .. rules.stamps_for_reward - 1,
         NEW n \in Nat
  PROVE  OneByOne(rules.stamps_for_reward, state, n) = AccrueStamps(rules, state, n).state
<1> DEFINE price == rules.stamps_for_reward
           Batch(m) == AccrueStamps(rules, state, m).state
           OneMore(one) == IF one.stamps + 1 = price
                           THEN [one EXCEPT !.stamps = 0, !.rewards_available = @ + 1]
                           ELSE [one EXCEPT !.stamps = @ + 1]
           Stamped(g) == [m \in 0 .. n |-> IF m = 0 THEN state ELSE OneMore(g[m - 1])]
<1>0. price \in Nat /\ price > 0 /\ state.stamps \in Nat
  BY DEF ProgramRules
<1>1. Batch(0) = state
  <2>1. state.stamps - 0 * price \in 0 .. price - 1 /\ 0 * price = 0
    BY <1>0
  <2>2. state.stamps \div price = 0
    BY <1>0, <2>1, QuotientUnique
  <2>3. state.stamps + 0 = state.stamps /\ state.stamps - 0 * price = state.stamps
    BY <1>0, <2>1
  <2>4. RollOver(price, state.stamps + 0) = [earned |-> 0, remaining |-> state.stamps]
    BY <1>0, <2>2, <2>3 DEF RollOver
  <2> QED BY <2>4 DEF AccrueStamps, Balance, CardState
<1>2. ASSUME NEW m \in Nat PROVE Batch(m + 1) = OneMore(Batch(m))
  <2> DEFINE before == RollOver(price, state.stamps + m)
             after == RollOver(price, (state.stamps + m) + 1)
  <2>1. state.stamps + m \in Nat /\ state.stamps + (m + 1) = (state.stamps + m) + 1
    BY <1>0
  <2>2. IF before.remaining + 1 = price
        THEN after.remaining = 0 /\ after.earned = before.earned + 1
        ELSE after.remaining = before.remaining + 1 /\ after.earned = before.earned
    BY <1>0, <2>1, OneMoreStamp
  <2>3. before.earned \in Int /\ before.remaining \in Int
    BY <1>0, <2>1, RollOverFacts
  <2> HIDE DEF before, after
  <2>4. /\ Batch(m) = Balance(before.remaining, state.points,
                              state.rewards_available + before.earned,
                              state.rewards_redeemed, state.active)
        /\ Batch(m + 1) = Balance(after.remaining, state.points,
                                  state.rewards_available + after.earned,
                                  state.rewards_redeemed, state.active)
    BY <2>1 DEF AccrueStamps, before, after
  <2>5. state.rewards_available \in Int
    BY DEF CardState
  <2> DEFINE one == Batch(m)
  <2> HIDE DEF Batch
  <2>6. /\ one.stamps = before.remaining
        /\ one = Balance(before.remaining, state.points,
                         state.rewards_available + before.earned,
                         state.rewards_redeemed, state.active)
    BY <2>4 DEF Balance
  <2>7. CASE before.remaining + 1 = price
    <3>1. OneMore(one) = [one EXCEPT !.stamps = 0, !.rewards_available = @ + 1]
      BY <2>6, <2>7
    <3>2. OneMore(one) = Balance(0, state.points, (state.rewards_available + before.earned) + 1,
                                 state.rewards_redeemed, state.active)
      <4>1. /\ one.rewards_available = state.rewards_available + before.earned
            /\ one.points = state.points /\ one.active = state.active
            /\ one.rewards_redeemed = state.rewards_redeemed
            /\ DOMAIN one = {"stamps", "points", "rewards_available", "rewards_redeemed",
                             "active"}
        BY <2>6 DEF Balance
      <4> HIDE DEF one, OneMore
      <4> QED BY <3>1, <4>1 DEF Balance
    <3>3. (state.rewards_available + before.earned) + 1 = state.rewards_available + after.earned
      BY <2>2, <2>3, <2>5, <2>7
    <3> QED BY <2>2, <2>4, <2>7, <3>2, <3>3
  <2>8. CASE before.remaining + 1 # price
    <3>1. OneMore(one) = [one EXCEPT !.stamps = @ + 1]
      BY <2>6, <2>8
    <3>2. OneMore(one) = Balance(before.remaining + 1, state.points,
                                 state.rewards_available + before.earned,
                                 state.rewards_redeemed, state.active)
      BY <2>6, <3>1 DEF Balance
    <3> QED BY <2>2, <2>4, <2>8, <3>2
  <2> QED BY <2>7, <2>8
<1> HIDE DEF Batch, OneMore
<1>3. [m \in 0 .. n |-> Batch(m)] = Stamped([m \in 0 .. n |-> Batch(m)])
  <2>1. ASSUME NEW m \in 0 .. n, m # 0
        PROVE  m - 1 \in Nat /\ m - 1 \in 0 .. n /\ Batch(m) = OneMore(Batch(m - 1))
    <3>1. m - 1 \in Nat /\ m - 1 \in 0 .. n /\ (m - 1) + 1 = m
      BY <2>1
    <3> QED BY <1>2, <3>1
  <2> QED BY <1>1, <2>1
<1>4. OneByOne(price, state, n) = (CHOOSE g : g = Stamped(g))[n]
  BY DEF OneByOne, OneMore
<1>5. PICK g : g = Stamped(g) /\ OneByOne(price, state, n) = g[n]
  <2> DEFINE chosen == CHOOSE g : g = Stamped(g)
  <2>1. chosen = Stamped(chosen)
    <3> HIDE DEF Stamped
    <3> QED BY <1>3
  <2> QED BY <1>4, <2>1
<1>6. Nat \subseteq {m \in Nat : m <= n => g[m] = Batch(m)}
  <2> DEFINE S == {m \in Nat : m <= n => g[m] = Batch(m)}
  <2>1. 0 \in S
    BY <1>1, <1>5
  <2>2. ASSUME NEW m \in Nat, m \in S PROVE m + 1 \in S
    <3>1. CASE m + 1 <= n
      <4>1. g[m + 1] = OneMore(g[(m + 1) - 1])
        BY <1>5, <3>1
      <4>2. (m + 1) - 1 = m /\ g[m] = Batch(m)
        BY <2>2, <3>1
      <4> QED BY <1>2, <4>1, <4>2
    <3> QED BY <3>1
  <2> HIDE DEF S
  <2>3. Nat \subseteq S
    BY <2>1, <2>2, SetInduction
  <2> QED BY <2>3 DEF S
<1> QED BY <1>5, <1>6 DEF Batch

\* A purchase adds its points to what a card is worth, whether the card is active or not.
LEMMA PurchaseWorth ==
  ASSUME NEW rules \in ProgramRules, rules.mechanic = "points", NEW state \in CardState,
         NEW amount \in Nat
  PROVE  LET after == AccruePoints(rules, state, amount).state IN
         /\ after \in CardState
         /\ Worth(rules, after)
              = Worth(rules, state) + PointsGained(amount, rules.points_per_dollar)
<1> DEFINE open == [state EXCEPT !.active = TRUE]
           add == [stamps |-> 0, amount |-> amount]
           after == AccruePoints(rules, state, amount).state
<1>1. /\ open \in CardState /\ open.active = TRUE
      /\ state.points = open.points /\ state.stamps = open.stamps
      /\ state.rewards_available = open.rewards_available
      /\ state.rewards_redeemed = open.rewards_redeemed
  BY DEF CardState
<1>2. AccrueOutcome(rules, open, add) = AccruePoints(rules, open, amount)
  BY DEF AccrueOutcome
<1>3. ~AccrueRefused(rules, open, add)
  BY <1>1 DEF AccrueRefused
<1>4. AccruePoints(rules, open, amount).points_delta
        = PointsGained(amount, rules.points_per_dollar)
      /\ AccruePoints(rules, open, amount).stamps_delta = 0
  BY DEF AccruePoints
<1> HIDE DEF open
<1>5. LET outcome == AccruePoints(rules, open, amount)
      IN /\ outcome.state \in CardState
         /\ Worth(rules, outcome.state)
              = Worth(rules, open) + outcome.stamps_delta + outcome.points_delta
  BY <1>1, <1>2, <1>3, AccrueFacts
<1>6. /\ after.points = AccruePoints(rules, open, amount).state.points
      /\ after.stamps = AccruePoints(rules, open, amount).state.stamps
      /\ after.rewards_available = AccruePoints(rules, open, amount).state.rewards_available
      /\ after.rewards_redeemed = AccruePoints(rules, open, amount).state.rewards_redeemed
  BY <1>1 DEF AccruePoints, Balance
<1>7. after \in CardState
  <2>1. after.active = state.active
    BY DEF AccruePoints, Balance
  <2>2. after = Balance(after.stamps, after.points, after.rewards_available,
                        after.rewards_redeemed, after.active)
    BY DEF AccruePoints, Balance
  <2> HIDE DEF after
  <2> QED BY <1>5, <1>6, <2>1, <2>2 DEF Balance, CardState
<1>8. /\ Worth(rules, after) = Worth(rules, AccruePoints(rules, open, amount).state)
      /\ Worth(rules, state) = Worth(rules, open)
  <2> HIDE DEF after
  <2> QED BY <1>1, <1>6 DEF Worth, Counter
<1>9. /\ Worth(rules, open) \in Int
      /\ PointsGained(amount, rules.points_per_dollar) \in Int
  BY <1>1, PriceAndCounter, PointsGainedNat DEF ProgramRules
<1> HIDE DEF after
<1> QED BY <1>4, <1>5, <1>7, <1>8, <1>9 DEF after

\* The whole part of a sum is that of its parts, or one more.
LEMMA WholeParts ==
  ASSUME NEW x \in Int, NEW y \in Int, NEW unit \in Nat, unit > 0
  PROVE  (x + y) \div unit - (x \div unit + y \div unit) \in 0 .. 1
<1>1. PICK p \in Int : p = x \div unit /\ x - p * unit \in 0 .. unit - 1
  BY DivisionRemainder
<1>2. PICK q \in Int : q = y \div unit /\ y - q * unit \in 0 .. unit - 1
  BY DivisionRemainder
<1>3. (p + q) * unit = p * unit + q * unit /\ (p + q + 1) * unit = p * unit + q * unit + unit
  OBVIOUS
<1>4. CASE (x - p * unit) + (y - q * unit) < unit
  <2>1. (x + y) - (p + q) * unit \in 0 .. unit - 1
    BY <1>1, <1>2, <1>3, <1>4
  <2>2. (x + y) \div unit = p + q
    BY <2>1, QuotientUnique
  <2> QED BY <1>1, <1>2, <2>2
<1>5. CASE (x - p * unit) + (y - q * unit) >= unit
  <2>1. (x + y) - (p + q + 1) * unit \in 0 .. unit - 1
    BY <1>1, <1>2, <1>3, <1>5
  <2>2. (x + y) \div unit = p + q + 1
    BY <2>1, QuotientUnique
  <2> QED BY <1>1, <1>2, <2>2
<1> QED BY <1>1, <1>2, <1>4, <1>5

\* What one purchase and its split earn, in points: x and y are the exact products,
\* p, q and m their whole parts and that of the sum, s, t and u the points missed.
LEMMA TwoPurchases ==
  ASSUME NEW x \in Int, NEW y \in Int, NEW unit \in Nat, unit > 0,
         NEW s \in {0, 1}, NEW t \in {0, 1}, NEW u \in {0, 1},
         s = 1 => (x \div unit) * unit = x,
         t = 1 => (y \div unit) * unit = y,
         u = 1 => ((x + y) \div unit) * unit = x + y
  PROVE  LET lost == ((x + y) \div unit - u) - ((x \div unit - s) + (y \div unit - t))
         IN /\ lost \in -1 .. 2
            /\ lost \in {-1, 2} => /\ (x \div unit) * unit = x
                                   /\ (y \div unit) * unit = y
<1>1. PICK p \in Int : p = x \div unit /\ x - p * unit \in 0 .. unit - 1
  BY DivisionRemainder
<1>2. PICK q \in Int : q = y \div unit /\ y - q * unit \in 0 .. unit - 1
  BY DivisionRemainder
<1>3. PICK m \in Int : m = (x + y) \div unit /\ m - (p + q) \in 0 .. 1
  <2>1. x + y \in Int /\ (x + y) \div unit \in Int
    BY DivisionRemainder
  <2> QED BY <1>1, <1>2, <2>1, WholeParts
<1>4. PICK c \in Int, d \in Int : c = p * unit /\ d = q * unit
  BY <1>1, <1>2
<1>5. (p + q) * unit = c + d /\ (p + q + 1) * unit = c + d + unit
  BY <1>4
<1>6. CASE m = p + q
  <2>1. u = 1 => x = c /\ y = d
    BY <1>1, <1>2, <1>3, <1>4, <1>5, <1>6
  <2>2. (s = 1 => x = c) /\ (t = 1 => y = d)
    BY <1>1, <1>2, <1>4
  <2>3. (m - u) - ((p - s) + (q - t)) = (s + t) - u
    BY <1>6
  <2> QED BY <1>1, <1>2, <1>3, <1>4, <2>1, <2>2, <2>3
<1>7. CASE m = p + q + 1
  <2>1. x # c /\ y # d
    <3>1. (x + y) - m * unit \in 0 .. unit - 1
      <4>1. x + y \in Int
        OBVIOUS
      <4> QED BY <1>3, <4>1, DivisionRemainder
    <3>2. (x - c) + (y - d) >= unit
      BY <1>4, <1>5, <1>7, <3>1
    <3> QED BY <1>1, <1>2, <1>4, <3>2
  <2>2. s = 0 /\ t = 0
    BY <1>1, <1>2, <1>4, <2>1
  <2>3. (m - u) - ((p - s) + (q - t)) = 1 - u
    BY <1>7, <2>2
  <2> QED BY <1>1, <1>2, <1>3, <2>3
<1>8. m = p + q \/ m = p + q + 1
  BY <1>3
<1> QED BY <1>6, <1>7, <1>8

\* A purchase and its split, on any point card.
LEMMA SplitPurchaseHolds ==
  ASSUME NEW rules \in ProgramRules, NEW state \in CardState,
         NEW a \in Int, NEW b \in Int
  PROVE  SplitPurchase(rules, state, a, b)
<1> SUFFICES ASSUME rules.mechanic = "points", a >= 0, b >= 0
             PROVE  SplitPurchase(rules, state, a, b)
  BY DEF SplitPurchase
<1> DEFINE rate == rules.points_per_dollar
           first == AccruePoints(rules, state, a).state
           split == AccruePoints(rules, first, b).state
           whole == AccruePoints(rules, state, a + b).state
           lost == Worth(rules, whole) - Worth(rules, split)
<1>1. a \in Nat /\ b \in Nat /\ a + b \in Nat /\ rate \in Nat
  BY DEF ProgramRules
<1> HIDE DEF first, split, whole, rate
<1>2. first \in CardState /\ Worth(rules, first) = Worth(rules, state) + PointsGained(a, rate)
  BY <1>1, PurchaseWorth DEF first, rate
<1>3. Worth(rules, split) = Worth(rules, first) + PointsGained(b, rate)
  BY <1>1, <1>2, PurchaseWorth DEF split, rate
<1>4. Worth(rules, whole) = Worth(rules, state) + PointsGained(a + b, rate)
  BY <1>1, PurchaseWorth DEF whole, rate
<1>5. PICK unit \in Nat : unit = Scale * Scale /\ unit > 0
  BY ScaleAssumption
<1>6. PICK x \in Nat, y \in Nat : x = a * rate /\ y = b * rate /\ x + y = (a + b) * rate
  BY <1>1
<1>7. PICK s \in {0, 1} : /\ PointsGained(a, rate) = x \div unit - s
                          /\ s = 1 => (x \div unit) * unit = x
                          /\ PointsGained(a, rate) \in Nat
                          /\ PointsGained(a, rate) * unit \in x - unit .. x
  BY <1>1, <1>5, <1>6, PointsGainedFacts
<1>8. PICK t \in {0, 1} : /\ PointsGained(b, rate) = y \div unit - t
                          /\ t = 1 => (y \div unit) * unit = y
                          /\ PointsGained(b, rate) \in Nat
  BY <1>1, <1>5, <1>6, PointsGainedFacts
<1>9. PICK u \in {0, 1} : /\ PointsGained(a + b, rate) = (x + y) \div unit - u
                          /\ u = 1 => ((x + y) \div unit) * unit = x + y
                          /\ PointsGained(a + b, rate) \in Nat
  BY <1>1, <1>5, <1>6, PointsGainedFacts
<1> HIDE DEF lost
<1>10. PICK w \in Int : w = Worth(rules, state)
  BY PriceAndCounter
<1>11. Worth(rules, first) - Worth(rules, state) = PointsGained(a, rate)
  BY <1>2, <1>7, <1>10
<1>12. lost = ((x + y) \div unit - u) - ((x \div unit - s) + (y \div unit - t))
  <2>1. lost = PointsGained(a + b, rate) - (PointsGained(a, rate) + PointsGained(b, rate))
    BY <1>2, <1>3, <1>4, <1>7, <1>8, <1>9, <1>10 DEF lost
  <2> QED BY <1>7, <1>8, <1>9, <2>1
<1>13. /\ WholePoints(a, rate) <=> (x \div unit) * unit = x
       /\ WholePoints(b, rate) <=> (y \div unit) * unit = y
  BY <1>5, <1>6 DEF WholePoints, ExactPoints
<1>14. /\ lost \in -1 .. 2
       /\ lost \in {-1, 2} => WholePoints(a, rate) /\ WholePoints(b, rate)
  <2>1. LET l == ((x + y) \div unit - u) - ((x \div unit - s) + (y \div unit - t))
        IN /\ l \in -1 .. 2
           /\ l \in {-1, 2} => (x \div unit) * unit = x /\ (y \div unit) * unit = y
    <3>1. /\ unit \in Nat /\ unit > 0 /\ x \in Int /\ y \in Int
          /\ s \in {0, 1} /\ t \in {0, 1} /\ u \in {0, 1}
      BY <1>5
    <3>2. /\ s = 1 => (x \div unit) * unit = x
          /\ t = 1 => (y \div unit) * unit = y
          /\ u = 1 => ((x + y) \div unit) * unit = x + y
      BY <1>7, <1>8, <1>9
    <3> QED BY <3>1, <3>2, TwoPurchases
  <2> QED BY <1>12, <1>13, <2>1
<1>15. (Worth(rules, first) - Worth(rules, state)) * (Scale * Scale)
         \in a * rate - Scale * Scale .. a * rate
  BY <1>5, <1>6, <1>7, <1>11
<1> QED BY <1>14, <1>15 DEF SplitPurchase, first, split, whole, lost, rate

\* Stamps handed out in one accrual or one by one leave the same card; a purchase
\* earns its exact product less at most a point, and split in two it earns what it
\* would at once up to the points truncation can drop: for every price, rate and
\* balance, and whichever products the floats miss.
THEOREM SplittingBounded == LedgerSpec => []SplittingIsBounded
<1>1. ASSUME LedgerInv PROVE SplittingIsBounded
  <2> SUFFICES ASSUME NEW c \in Account, NEW r \in Requests, NEW s \in Requests
               PROVE  /\ BatchIsOneByOne(Rules[c], balance[c], r.body.stamps)
                      /\ SplitPurchase(Rules[c], balance[c], r.body.amount, s.body.amount)
    BY DEF SplittingIsBounded
  <2>1. /\ Rules[c] \in ProgramRules /\ balance[c] \in CardState
        /\ r.body.stamps \in Nat /\ r.body.amount \in Int /\ s.body.amount \in Int
    BY <1>1, LedgerAssumption DEF LedgerInv, LedgerType
  <2>2. BatchIsOneByOne(Rules[c], balance[c], r.body.stamps)
    BY <2>1, OneByOneIsBatch DEF BatchIsOneByOne
  <2>3. SplitPurchase(Rules[c], balance[c], r.body.amount, s.body.amount)
    BY <2>1, SplitPurchaseHolds
  <2> QED BY <2>2, <2>3
<1> QED BY LedgerHolds, <1>1, PTL
=============================================================================
