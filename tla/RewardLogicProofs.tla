------------------------- MODULE RewardLogicProofs -------------------------
(***************************************************************************)
(* Lemmas about the reward arithmetic, for every price, rate and balance.    *)
(***************************************************************************)
EXTENDS RewardLogic, TLAPS

\* Integer division by a positive price leaves a remainder below the price.
LEMMA DivisionRemainder ==
  ASSUME NEW total \in Int, NEW price \in Nat, price > 0
  PROVE  /\ total \div price \in Int
         /\ total - (total \div price) * price \in 0 .. price - 1
  OBVIOUS

LEMMA QuotientNat ==
  ASSUME NEW total \in Nat, NEW price \in Nat, price > 0
  PROVE  total \div price \in Nat
  OBVIOUS

\* RollOver gives whole rewards, conserves the total, and leaves less than the
\* price of one reward whenever there is a price.
LEMMA RollOverFacts ==
  ASSUME NEW total \in Int, NEW price \in Nat
  PROVE  /\ RollOver(price, total).earned \in Int
         /\ RollOver(price, total).remaining \in Int
         /\ RollOver(price, total).remaining + price * RollOver(price, total).earned = total
         /\ price > 0 => RollOver(price, total).remaining \in 0 .. price - 1
         /\ total >= 0 => RollOver(price, total).earned >= 0
<1>1. CASE price = 0
  BY <1>1 DEF RollOver
<1>2. CASE price > 0
  <2>1. PICK q \in Int : q = total \div price
    BY <1>2, DivisionRemainder
  <2>2. total - q * price \in 0 .. price - 1
    BY <1>2, <2>1, DivisionRemainder
  <2>3. total >= 0 => q >= 0
    BY <1>2, <2>1, QuotientNat
  <2>4. q * price \in Int /\ price * q = q * price
    OBVIOUS
  <2>5. RollOver(price, total) = [earned |-> q, remaining |-> total - q * price]
    BY <1>2, <2>1 DEF RollOver
  <2> QED BY <2>2, <2>3, <2>4, <2>5
<1> QED BY <1>1, <1>2

\* Multiplication distributes, in the one shape the proofs below meet.
LEMMA PriceDistributes ==
  ASSUME NEW price \in Nat, NEW a \in Int, NEW b \in Int, NEW e \in Int
  PROVE  price * ((a + e) + b) = price * (a + b) + price * e
  OBVIOUS

LEMMA PriceAndCounter ==
  ASSUME NEW rules \in ProgramRules, NEW state \in CardState
  PROVE  /\ Price(rules) \in Nat
         /\ Counter(rules, state) \in Int
         /\ Worth(rules, state) \in Int
  BY DEF Price, Counter, Worth, ProgramRules, CardState

\* A whole part less at most a missed point, as points.
LEMMA MissedPoint ==
  ASSUME NEW product \in Nat, NEW unit \in Nat, unit > 0, NEW short \in {0, 1},
         short = 1 => product > 0 /\ (product \div unit) * unit = product
  PROVE  /\ product \div unit - short \in Nat
         /\ (product \div unit - short) * unit \in product - unit .. product
<1>1. PICK q \in Nat : q = product \div unit
  BY QuotientNat
<1>2. product - q * unit \in 0 .. unit - 1
  BY <1>1, DivisionRemainder
<1>3. CASE short = 0
  BY <1>1, <1>2, <1>3
<1>4. CASE short = 1
  <2>1. q * unit = product /\ product > 0
    BY <1>1, <1>4
  <2>2. q # 0
    BY <2>1
  <2>3. (q - 1) * unit = q * unit - unit
    BY <1>1
  <2> QED BY <1>1, <1>4, <2>1, <2>2, <2>3
<1> QED BY <1>3, <1>4

\* The points of a purchase are those of the exact product rounded down, less one
\* where a whole product is missed; they are at most the product and never more
\* than one point below it.
LEMMA PointsGainedFacts ==
  ASSUME NEW amount \in Nat, NEW rate \in Nat,
         NEW unit, unit = Scale * Scale, NEW product, product = amount * rate
  PROVE  \E short \in {0, 1} :
           /\ PointsGained(amount, rate) = product \div unit - short
           /\ short = 1 => (product \div unit) * unit = product
           /\ PointsGained(amount, rate) \in Nat
           /\ PointsGained(amount, rate) * unit \in product - unit .. product
<1>1. unit \in Nat /\ unit > 0 /\ product \in Nat
  BY ScaleAssumption
<1>2. /\ ExactPoints(amount, rate) = product \div unit
      /\ WholePoints(amount, rate) <=> (product \div unit) * unit = product
  BY DEF WholePoints, ExactPoints
<1>3. <<amount, rate>> \in ShortProducts => product > 0
  <2>1. ASSUME amount > 0, rate > 0 PROVE amount * rate > 0
    BY <2>1
  <2> QED BY <2>1, ShortAssumption
<1>4. PICK short \in {0, 1} :
        /\ PointsGained(amount, rate) = product \div unit - short
        /\ short = 1 => WholePoints(amount, rate) /\ <<amount, rate>> \in ShortProducts
  BY <1>2 DEF PointsGained
<1>5. /\ product \div unit - short \in Nat
      /\ (product \div unit - short) * unit \in product - unit .. product
  BY <1>1, <1>2, <1>3, <1>4, MissedPoint
<1> QED BY <1>2, <1>4, <1>5

\* Points are never negative: the contract admits no negative amount or rate.
LEMMA PointsGainedNat ==
  ASSUME NEW amount \in Nat, NEW rate \in Nat
  PROVE  PointsGained(amount, rate) \in Nat
<1>1. \E unit, product : unit = Scale * Scale /\ product = amount * rate
  OBVIOUS
<1> QED BY <1>1, PointsGainedFacts

\* What one accepted accrual does: it logs non-negative deltas, changes the
\* card's worth by exactly them, never touches rewards_redeemed, leaves the
\* counter below the price, and takes no reward from a card without debt.
LEMMA AccrueFacts ==
  ASSUME NEW rules \in ProgramRules, NEW state \in CardState,
         NEW add, add.stamps \in Nat, add.amount \in Int,
         ~AccrueRefused(rules, state, add)
  PROVE  LET outcome == AccrueOutcome(rules, state, add) IN
         /\ outcome.state \in CardState
         /\ outcome.kind \in {"accrue_stamps", "accrue_points"}
         /\ outcome.stamps_delta \in Nat /\ outcome.points_delta \in Nat
         /\ Worth(rules, outcome.state)
              = Worth(rules, state) + outcome.stamps_delta + outcome.points_delta
         /\ outcome.state.rewards_redeemed = state.rewards_redeemed
         /\ Price(rules) > 0
              => Counter(rules, outcome.state) \in 0 .. Price(rules) - 1
         /\ Counter(rules, state) >= 0
              => outcome.state.rewards_available >= state.rewards_available
<1> DEFINE outcome == AccrueOutcome(rules, state, add)
<1>1. CASE rules.mechanic = "stamps"
  <2> DEFINE total == state.stamps + add.stamps
             price == rules.stamps_for_reward
             rolled == RollOver(price, total)
  <2>1. total \in Int /\ price \in Nat
    BY DEF CardState, ProgramRules
  <2>2. /\ rolled.earned \in Int /\ rolled.remaining \in Int
        /\ rolled.remaining + price * rolled.earned = total
        /\ price > 0 => rolled.remaining \in 0 .. price - 1
        /\ total >= 0 => rolled.earned >= 0
    BY <2>1, RollOverFacts
  <2> HIDE DEF rolled
  <2>3. outcome = [state |-> Balance(rolled.remaining, state.points,
                                     state.rewards_available + rolled.earned,
                                     state.rewards_redeemed, state.active),
                   kind |-> "accrue_stamps", stamps_delta |-> add.stamps,
                   points_delta |-> 0]
    BY <1>1 DEF AccrueOutcome, AccrueStamps, rolled
  <2>4. Price(rules) = price /\ Counter(rules, state) = state.stamps
    BY <1>1 DEF Price, Counter
  <2>5. /\ outcome.state \in CardState
        /\ outcome.state.stamps = rolled.remaining
        /\ outcome.state.rewards_available = state.rewards_available + rolled.earned
        /\ outcome.state.rewards_redeemed = state.rewards_redeemed
    BY <2>2, <2>3 DEF CardState, Balance
  <2>6. Counter(rules, outcome.state) = rolled.remaining
    BY <1>1, <2>5 DEF Counter
  <2>7. Worth(rules, outcome.state) = Worth(rules, state) + add.stamps
    <3>1. /\ state.stamps \in Int /\ state.rewards_available \in Int
          /\ state.rewards_redeemed \in Int /\ add.stamps \in Int
      BY DEF CardState
    <3>2. price * ((state.rewards_available + rolled.earned) + state.rewards_redeemed)
            = price * (state.rewards_available + state.rewards_redeemed)
                + price * rolled.earned
      BY <2>1, <2>2, <3>1, PriceDistributes
    <3>3. PICK paid \in Int, fresh \in Int :
            /\ paid = price * (state.rewards_available + state.rewards_redeemed)
            /\ fresh = price * rolled.earned
      BY <2>1, <2>2, <3>1
    <3>4. rolled.remaining + fresh = state.stamps + add.stamps
      BY <2>2, <3>3
    <3>5. Worth(rules, outcome.state) = rolled.remaining + (paid + fresh)
      BY <2>4, <2>5, <2>6, <3>2, <3>3 DEF Worth
    <3>6. Worth(rules, state) = state.stamps + paid
      BY <2>4, <3>3 DEF Worth
    <3> HIDE DEF outcome
    <3> QED BY <2>2, <3>1, <3>4, <3>5, <3>6
  <2>8. outcome.stamps_delta = add.stamps /\ outcome.points_delta = 0
        /\ outcome.kind = "accrue_stamps"
    BY <2>3
  <2>9. Worth(rules, state) \in Int
    BY PriceAndCounter
  <2> HIDE DEF outcome
  <2>10. state.stamps >= 0 => outcome.state.rewards_available >= state.rewards_available
    BY <2>2, <2>5 DEF CardState
  <2> QED BY <2>2, <2>4, <2>5, <2>6, <2>7, <2>8, <2>9, <2>10 DEF outcome
<1>2. CASE rules.mechanic = "points"
  <2> DEFINE gained == PointsGained(add.amount, rules.points_per_dollar)
             total == state.points + gained
             price == rules.points_for_reward
             rolled == RollOver(price, total)
  <2>0. gained \in Nat
    <3>1. add.amount \in Nat /\ rules.points_per_dollar \in Nat
      BY <1>2 DEF AccrueRefused, ProgramRules
    <3> QED BY <3>1, PointsGainedNat
  <2> HIDE DEF gained
  <2>1. total \in Int /\ price \in Nat
    BY <2>0 DEF CardState, ProgramRules
  <2>2. /\ rolled.earned \in Int /\ rolled.remaining \in Int
        /\ rolled.remaining + price * rolled.earned = total
        /\ price > 0 => rolled.remaining \in 0 .. price - 1
        /\ total >= 0 => rolled.earned >= 0
    BY <2>1, RollOverFacts
  <2> HIDE DEF rolled
  <2>3. outcome = [state |-> Balance(state.stamps, rolled.remaining,
                                     state.rewards_available + rolled.earned,
                                     state.rewards_redeemed, state.active),
                   kind |-> "accrue_points", stamps_delta |-> 0,
                   points_delta |-> gained]
    BY <1>2 DEF AccrueOutcome, AccruePoints, rolled, gained
  <2>4. Price(rules) = price /\ Counter(rules, state) = state.points
    BY <1>2 DEF Price, Counter
  <2>5. /\ outcome.state \in CardState
        /\ outcome.state.points = rolled.remaining
        /\ outcome.state.rewards_available = state.rewards_available + rolled.earned
        /\ outcome.state.rewards_redeemed = state.rewards_redeemed
    BY <2>2, <2>3 DEF CardState, Balance
  <2>6. Counter(rules, outcome.state) = rolled.remaining
    BY <1>2, <2>5 DEF Counter
  <2>7. Worth(rules, outcome.state) = Worth(rules, state) + gained
    <3>1. /\ state.points \in Int /\ state.rewards_available \in Int
          /\ state.rewards_redeemed \in Int /\ gained \in Int
      BY <2>0 DEF CardState
    <3>2. price * ((state.rewards_available + rolled.earned) + state.rewards_redeemed)
            = price * (state.rewards_available + state.rewards_redeemed)
                + price * rolled.earned
      BY <2>1, <2>2, <3>1, PriceDistributes
    <3>3. PICK paid \in Int, fresh \in Int :
            /\ paid = price * (state.rewards_available + state.rewards_redeemed)
            /\ fresh = price * rolled.earned
      BY <2>1, <2>2, <3>1
    <3>4. rolled.remaining + fresh = state.points + gained
      BY <2>2, <3>3
    <3>5. Worth(rules, outcome.state) = rolled.remaining + (paid + fresh)
      BY <2>4, <2>5, <2>6, <3>2, <3>3 DEF Worth
    <3>6. Worth(rules, state) = state.points + paid
      BY <2>4, <3>3 DEF Worth
    <3> HIDE DEF outcome
    <3> QED BY <2>2, <3>1, <3>4, <3>5, <3>6
  <2>8. outcome.points_delta = gained /\ outcome.stamps_delta = 0
        /\ outcome.kind = "accrue_points"
    BY <2>3
  <2>9. Worth(rules, state) \in Int
    BY PriceAndCounter
  <2> HIDE DEF outcome
  <2>10. state.points >= 0 => outcome.state.rewards_available >= state.rewards_available
    BY <2>0, <2>2, <2>5 DEF CardState
  <2> QED BY <2>0, <2>2, <2>4, <2>5, <2>6, <2>7, <2>8, <2>9, <2>10 DEF outcome
<1> QED BY <1>1, <1>2 DEF AccrueRefused

\* An accepted redemption moves one reward from available to redeemed.
LEMMA RedeemFacts ==
  ASSUME NEW rules \in ProgramRules, NEW state \in CardState,
         ~RedeemRefused(state)
  PROVE  /\ RedeemedState(state) \in CardState
         /\ Worth(rules, RedeemedState(state)) = Worth(rules, state)
         /\ Counter(rules, RedeemedState(state)) = Counter(rules, state)
         /\ RedeemedState(state).rewards_redeemed = state.rewards_redeemed + 1
         /\ RedeemedState(state).rewards_available >= 0
<1>1. RedeemedState(state) \in CardState
  BY DEF RedeemedState, Balance, CardState
<1>2. /\ RedeemedState(state).rewards_available = state.rewards_available - 1
      /\ RedeemedState(state).rewards_redeemed = state.rewards_redeemed + 1
      /\ RedeemedState(state).stamps = state.stamps
      /\ RedeemedState(state).points = state.points
  BY DEF RedeemedState, Balance, CardState
<1>3. (state.rewards_available - 1) + (state.rewards_redeemed + 1)
        = state.rewards_available + state.rewards_redeemed
  BY DEF CardState
<1>4. Counter(rules, RedeemedState(state)) = Counter(rules, state)
  BY <1>2 DEF Counter
<1>5. Worth(rules, RedeemedState(state)) = Worth(rules, state)
  BY <1>2, <1>3, <1>4 DEF Worth
<1> QED BY <1>1, <1>2, <1>4, <1>5 DEF RedeemRefused, CardState
=============================================================================
