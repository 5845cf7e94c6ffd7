-------------------- MODULE CardOperationsRefinementProofs --------------------
(***************************************************************************)
(* What holds when requests on a card and on a key come one at a time, for    *)
(* every set of invocations, keys, cards and requests: the fraud window, the  *)
(* single use of a seasonal card, the redeemed counter, and, when no instance *)
(* is killed, that the operations implement the exactly-once ledger.          *)
(***************************************************************************)
EXTENDS CardOperationsRefinement, CardOperationsProofs, FiniteSetTheorems

\* No two invocations in flight have a card or a key in common.
Alone ==
  \A i, j \in Invocation :
    i # j /\ Running(i) /\ Running(j) => CardOf(i) # CardOf(j) /\ KeyOf(i) # KeyOf(j)

\* What i is about to write is the outcome of its request on the row as it is.
AccrueDecided(i) ==
  LET rules == Rules[CardOf(i)]
      outcome == AccrueOutcome(rules, cards[CardOf(i)], BodyOf(i))
  IN /\ BodyOf(i).op = "accrue"
     /\ ~AccrueRefused(rules, cards[CardOf(i)], BodyOf(i))
     /\ card_state[i] = outcome.state
     /\ delta[i] = [kind |-> outcome.kind, stamps_delta |-> outcome.stamps_delta,
                    points_delta |-> outcome.points_delta]

RedeemDecided(i) ==
  /\ BodyOf(i).op = "redeem"
  /\ ~RedeemRefused(cards[CardOf(i)])
  /\ card_state[i] = RedeemedState(cards[CardOf(i)])
  /\ delta[i] = NoDelta

\* The snapshot of an operation is the row until its own UPDATE.
Current(i) ==
  /\ pc[i] \in {"accrue", "redeem"} =>
       card_state[i] = cards[CardOf(i)] /\ BodyOf(i).op = pc[i]
  /\ pc[i] = "update_card" => AccrueDecided(i) \/ RedeemDecided(i)

AloneInv == TypeInv /\ Alone /\ \A i \in Invocation : Current(i)

\* The window has room for every accrual that was decided and is not logged yet.
WindowInv ==
  /\ IsFiniteSet(transactions)
  /\ \A c \in ExistingCard : Cardinality(RecentAccruals(c)) <= MaxAccruals
  /\ \A i \in Invocation :
       pc[i] \in {"update_card", "insert_transaction"} /\ delta[i].kind # "redeem"
         => Cardinality(RecentAccruals(CardOf(i))) < MaxAccruals

\* The discounts a seasonal card was born with are used or still there.
DiscountInv ==
  \A c \in Seasonal :
    /\ cards[c].rewards_redeemed = redemptions[c]
    /\ cards[c].rewards_available >= 0
    /\ cards[c].rewards_available + cards[c].rewards_redeemed
         = Issued[c].rewards_available + Issued[c].rewards_redeemed

AfterWrite(i) == pc[i] \in {"insert_transaction", "push_read", "push_put", "store_put"}

\* A write is in the hands of its invocation, or its answer is on record; a key in
\* use has no record.
Recorded(w) ==
  \E r \in idempotency_records :
    r.key = KeyOf(w.inv) /\ r.hash = BodyOf(w.inv) /\ r.body = Response(w)

OnceInv ==
  /\ \A i \in Invocation : Running(i) => RecordsFor(KeyOf(i)) = {}
  /\ \A w \in written : (AfterWrite(w.inv) /\ w = WriteOf(w.inv)) \/ Recorded(w)

-----------------------------------------------------------------------------
(* What a step leaves alone.                                                  *)

StepOf(i) == LookupKey(i) \/ Progress(i) \/ Crash(i)

\* Steps of no invocation: the clock, the campaign's owner, stuttering.
Outside == Tick \/ (\E c \in Seasonal : SwitchCampaign(c)) \/ UNCHANGED vars

LEMMA StepOrOutside ==
  ASSUME [Next]_vars
  PROVE  Outside \/ \E i \in Invocation : StepOf(i)
  BY DEF Next, Outside, StepOf

LEMMA OutsideFrame ==
  ASSUME Outside
  PROVE  UNCHANGED <<tables, req, pc, card_state, delta, written, credited, redemptions>>
  BY DEF Outside, Tick, SwitchCampaign, vars, tables, environment, locals, history

LocalsKept(j) == /\ pc'[j] = pc[j]
                 /\ card_state'[j] = card_state[j] /\ delta'[j] = delta[j]

LEMMA LocalsFrame ==
  ASSUME TypeOK, NEW i \in Invocation, StepOf(i)
  PROVE  /\ req' = req /\ now' = now
         /\ \A j \in Invocation \ {i} : LocalsKept(j)
<1> DEFINE Framed == /\ req' = req /\ now' = now
                     /\ \A j \in Invocation \ {i} : LocalsKept(j)
<1> USE DEF TypeOK, Goto, environment, history, LocalsKept
<1>1. ASSUME NEW code, Reply(i, code), UNCHANGED environment PROVE Framed
  BY <1>1 DEF Reply
<1>2. CASE LookupKey(i)
  BY <1>1, <1>2 DEF LookupKey
<1>3. CASE ReadCard(i) \/ DecideAccrue(i) \/ DecideRedeem(i)
  BY <1>1, <1>3 DEF ReadCard, DecideAccrue, DecideRedeem, Refuse
<1>4. CASE UpdateCard(i) \/ InsertTransaction(i)
  BY <1>1, <1>4 DEF UpdateCard, InsertTransaction, Refuse
<1>5. CASE PushRead(i) \/ PushPut(i) \/ PushFails(i)
  BY <1>5 DEF PushRead, PushPut, PushFails
<1>6. CASE StoreRecord(i) \/ Crash(i)
  BY <1>1, <1>6 DEF StoreRecord, Crash, Refuse
<1> QED BY <1>2, <1>3, <1>4, <1>5, <1>6 DEF StepOf, Progress

\* Only the UPDATE writes cards, and it writes its own.
LEMMA CardsFrame ==
  ASSUME TypeOK, NEW i \in Invocation, StepOf(i)
  PROVE  /\ ~UpdateCard(i) => UNCHANGED <<cards, written, credited, redemptions>>
         /\ \A c \in ExistingCard \ {CardOf(i)} :
              cards'[c] = cards[c] /\ redemptions'[c] = redemptions[c]
<1>1. ~UpdateCard(i) => UNCHANGED <<cards, written, credited, redemptions>>
  BY DEF StepOf, Progress, LookupKey, ReadCard, DecideAccrue, DecideRedeem, InsertTransaction,
         PushRead, PushPut, PushFails, StoreRecord, Crash, Refuse, tables, history
<1>2. CASE UpdateCard(i)
  BY <1>2 DEF TypeOK, UpdateCard
<1> QED BY <1>1, <1>2

\* Whoever refuses is done, with nothing written.
LEMMA ReplyEnds ==
  ASSUME TypeOK, NEW i \in Invocation, NEW code, Reply(i, code)
  PROVE  pc'[i] = "done"
  BY DEF TypeOK, Reply, Goto

\* Where a step takes its invocation from and to.
LEMMA LabelsOfStep ==
  ASSUME TypeInv, NEW i \in Invocation, StepOf(i)
  PROVE  \/ pc[i] = "idle" /\ pc'[i] \in {"get_card", "done"} /\ MayBegin(i)
         \/ Running(i)
<1> USE DEF Running
<1>1. CASE LookupKey(i)
  BY <1>1, ReplyEnds DEF TypeInv, TypeOK, LookupKey, Goto
<1>2. CASE Progress(i)
  BY <1>2 DEF Progress, ReadCard, DecideAccrue, DecideRedeem, UpdateCard, InsertTransaction,
              PushRead, PushPut, PushFails, StoreRecord
<1>3. CASE Crash(i)
  BY <1>3 DEF Crash
<1> QED BY <1>1, <1>2, <1>3 DEF StepOf

-----------------------------------------------------------------------------
(* One request at a time: a snapshot stays current until it is written.       *)

LEMMA StepKeepsAlone ==
  ASSUME Isolated, TypeInv, Alone, [Next]_vars
  PROVE  Alone'
<1>1. CASE Outside
  BY <1>1, OutsideFrame DEF Alone, Running, CardOf, KeyOf
<1>2. ASSUME NEW i \in Invocation, StepOf(i) PROVE Alone'
  <2>1. /\ req' = req
        /\ \A j \in Invocation \ {i} : pc'[j] = pc[j]
    BY <1>2, LocalsFrame DEF TypeInv, LocalsKept
  <2>2. Running(i) \/ MayBegin(i)
    BY <1>2, LabelsOfStep
  <2>3. ASSUME NEW j \in Invocation \ {i}, Running(j)
        PROVE  CardOf(j) # CardOf(i) /\ KeyOf(j) # KeyOf(i)
    BY <2>2, <2>3 DEF Alone, MayBegin, Isolated
  <2>4. \A j \in Invocation : CardOf(j)' = CardOf(j) /\ KeyOf(j)' = KeyOf(j)
    BY <2>1 DEF CardOf, KeyOf
  <2>5. \A j \in Invocation \ {i} : Running(j)' = Running(j)
    BY <2>1 DEF Running
  <2> QED BY <2>3, <2>4, <2>5 DEF Alone
<1> QED BY <1>1, <1>2, StepOrOutside

LEMMA ActiveKept ==
  ASSUME NEW rules, NEW state, NEW add
  PROVE  /\ AccrueOutcome(rules, state, add).state.active = state.active
         /\ RedeemedState(state).active = state.active
  BY DEF AccrueOutcome, AccrueStamps, AccruePoints, RedeemedState, Balance

\* The UPDATE of a current outcome makes the row that very outcome.
LEMMA WholeRowWritten ==
  ASSUME TypeInv, NEW i \in Invocation, Current(i), pc[i] = "update_card"
  PROVE  UpdatedRow(cards[CardOf(i)], card_state[i]) = card_state[i]
<1>1. card_state[i].active = cards[CardOf(i)].active
  BY ActiveKept DEF Current, AccrueDecided, RedeemDecided
<1>2. card_state[i] \in CardState
  BY DEF TypeInv, TypeOK
<1> QED BY <1>1, <1>2 DEF UpdatedRow, CardState

LEMMA CurrentStays ==
  ASSUME NEW j \in Invocation, Current(j), LocalsKept(j), req' = req,
         \/ pc[j] \notin {"accrue", "redeem", "update_card"}
         \/ cards'[CardOf(j)] = cards[CardOf(j)]
  PROVE  Current(j)'
<1>1. CardOf(j)' = CardOf(j) /\ BodyOf(j)' = BodyOf(j)
  BY DEF CardOf, BodyOf
<1> QED BY <1>1 DEF Current, LocalsKept, AccrueDecided, RedeemDecided

\* The invocation that moves.
LEMMA CurrentMoves ==
  ASSUME AloneInv, NEW i \in Invocation, StepOf(i)
  PROVE  Current(i)'
<1>0. /\ TypeInv /\ TypeOK /\ Current(i) /\ req' = req
      /\ CardOf(i)' = CardOf(i) /\ BodyOf(i)' = BodyOf(i)
  BY LocalsFrame DEF AloneInv, TypeInv, CardOf, BodyOf
<1>1. ASSUME pc'[i] \notin {"accrue", "redeem", "update_card"} PROVE Current(i)'
  BY <1>1 DEF Current
<1>2. ASSUME NEW code, Refuse(i, code) PROVE Current(i)'
  BY <1>0, <1>1, <1>2, ReplyEnds DEF Refuse
<1>3. CASE LookupKey(i)
  BY <1>0, <1>1, <1>3, ReplyEnds DEF LookupKey, TypeOK, Goto
<1>4. CASE ReadCard(i)
  <2>1. CASE /\ card_state' = [card_state EXCEPT ![i] = cards[CardOf(i)]]
             /\ Goto(i, BodyOf(i).op) /\ UNCHANGED tables
    <3>1. /\ card_state'[i] = cards'[CardOf(i)] /\ pc'[i] = BodyOf(i).op
          /\ BodyOf(i).op \in {"accrue", "redeem"}
      BY <1>0, <2>1, RequestFacts DEF TypeOK, Goto, tables
    <3> QED BY <1>0, <3>1 DEF Current
  <2> QED BY <1>2, <1>4, <2>1 DEF ReadCard
<1>5. CASE DecideAccrue(i)
  <2> DEFINE outcome == AccrueOutcome(Rules[CardOf(i)], card_state[i], BodyOf(i))
  <2>1. CASE /\ ~AccrueRefused(Rules[CardOf(i)], card_state[i], BodyOf(i))
             /\ card_state' = [card_state EXCEPT ![i] = outcome.state]
             /\ delta' = [delta EXCEPT ![i] = [kind |-> outcome.kind,
                                               stamps_delta |-> outcome.stamps_delta,
                                               points_delta |-> outcome.points_delta]]
             /\ Goto(i, "update_card")
             /\ UNCHANGED tables
    <3>1. card_state[i] = cards[CardOf(i)] /\ BodyOf(i).op = "accrue"
      BY <1>0, <1>5 DEF Current, DecideAccrue
    <3> HIDE DEF outcome
    <3>2. /\ card_state'[i] = outcome.state /\ pc'[i] = "update_card" /\ cards' = cards
          /\ delta'[i] = [kind |-> outcome.kind, stamps_delta |-> outcome.stamps_delta,
                          points_delta |-> outcome.points_delta]
      BY <1>0, <2>1 DEF TypeOK, Goto, tables
    <3>3. AccrueDecided(i)'
      BY <1>0, <2>1, <3>1, <3>2 DEF AccrueDecided, outcome
    <3> QED BY <3>2, <3>3 DEF Current
  <2> QED BY <1>2, <1>5, <2>1 DEF DecideAccrue
<1>6. CASE DecideRedeem(i)
  <2>1. CASE /\ ~RedeemRefused(card_state[i])
             /\ card_state' = [card_state EXCEPT ![i] = RedeemedState(@)]
             /\ delta' = [delta EXCEPT ![i] = NoDelta]
             /\ Goto(i, "update_card")
             /\ UNCHANGED tables
    <3>1. card_state[i] = cards[CardOf(i)] /\ BodyOf(i).op = "redeem"
      BY <1>0, <1>6 DEF Current, DecideRedeem
    <3>2. /\ card_state'[i] = RedeemedState(card_state[i]) /\ pc'[i] = "update_card"
          /\ cards' = cards /\ delta'[i] = NoDelta
      BY <1>0, <2>1 DEF TypeOK, Goto, tables
    <3>3. RedeemDecided(i)'
      BY <1>0, <2>1, <3>1, <3>2 DEF RedeemDecided
    <3> QED BY <3>2, <3>3 DEF Current
  <2> QED BY <1>2, <1>6, <2>1 DEF DecideRedeem
<1>7. CASE UpdateCard(i)
  BY <1>0, <1>1, <1>7 DEF UpdateCard, TypeOK, Goto
<1>8. CASE InsertTransaction(i)
  BY <1>0, <1>1, <1>2, <1>8 DEF InsertTransaction, TypeOK, Goto
<1>9. CASE PushRead(i) \/ PushPut(i) \/ PushFails(i)
  BY <1>0, <1>1, <1>9 DEF PushRead, PushPut, PushFails, TypeOK, Goto
<1>10. CASE StoreRecord(i) \/ Crash(i)
  BY <1>0, <1>1, <1>2, <1>10, ReplyEnds DEF StoreRecord, Crash
<1> QED BY <1>3, <1>4, <1>5, <1>6, <1>7, <1>8, <1>9, <1>10 DEF StepOf, Progress

LEMMA StepKeepsAloneInv ==
  ASSUME Isolated, AloneInv, [Next]_vars
  PROVE  AloneInv'
<1>0. TypeInv /\ TypeOK /\ Alone
  BY DEF AloneInv, TypeInv
<1>1. TypeInv' /\ Alone'
  BY <1>0, StepKeepsTypeInv, StepKeepsAlone
<1>2. CASE Outside
  <2>1. UNCHANGED <<cards, req, pc, card_state, delta>>
    BY <1>2, OutsideFrame DEF tables
  <2> QED BY <1>1, <2>1, CurrentStays DEF AloneInv, LocalsKept
<1>3. ASSUME NEW i \in Invocation, StepOf(i), NEW j \in Invocation PROVE Current(j)'
  <2>1. CASE j = i
    BY <1>3, <2>1, CurrentMoves
  <2>2. CASE j # i
    <3>1. req' = req /\ LocalsKept(j) /\ Current(j)
      BY <1>0, <1>3, <2>2, LocalsFrame DEF AloneInv
    <3>2. CASE pc[j] \notin {"accrue", "redeem", "update_card"}
      BY <3>1, <3>2, CurrentStays
    <3>3. CASE pc[j] \in {"accrue", "redeem", "update_card"}
      <4>1. CardOf(j) \in ExistingCard /\ Running(j)
        BY <1>0, <3>3 DEF TypeInv, HasCard, Running
      <4>2. UpdateCard(i) => CardOf(j) # CardOf(i)
        BY <1>0, <2>2, <4>1 DEF Alone, UpdateCard, Running
      <4>3. cards'[CardOf(j)] = cards[CardOf(j)]
        BY <1>0, <1>3, <4>1, <4>2, CardsFrame
      <4> QED BY <3>1, <4>3, CurrentStays
    <3> QED BY <3>2, <3>3
  <2> QED BY <2>1, <2>2
<1> QED BY <1>1, <1>2, <1>3, StepOrOutside DEF AloneInv

LEMMA InitAloneInv == Init => AloneInv
  BY InitTypeInv DEF Init, AloneInv, Alone, Current, Running

\* In the isolated regime no operation computes from a stale balance.
LEMMA AloneHolds == Isolated => (Spec => []AloneInv)
<1> SUFFICES ASSUME Isolated PROVE Spec => []AloneInv
  OBVIOUS
<1>1. AloneInv /\ [Next]_vars => AloneInv'
  BY StepKeepsAloneInv
<1> QED BY InitAloneInv, <1>1, PTL DEF Spec

\* What an UPDATE makes of the row: the outcome of an accrual or of a redemption.
LEMMA UpdateIsOutcome ==
  ASSUME AloneInv, NEW i \in Invocation, UpdateCard(i)
  PROVE  /\ CardOf(i) \in ExistingCard
         /\ cards' = [cards EXCEPT ![CardOf(i)] = card_state[i]]
         /\ AccrueDecided(i) \/ RedeemDecided(i)
<1>1. pc[i] = "update_card" /\ TypeInv /\ Current(i)
  BY DEF UpdateCard, AloneInv
<1> QED BY <1>1, WholeRowWritten DEF UpdateCard, Current, TypeInv, HasCard

\* The redeemed counter of a card never goes back, when its operations do not overlap.
THEOREM RedemptionsAreKept == Isolated => (Spec => RedeemedNeverDecreases)
<1> SUFFICES ASSUME Isolated PROVE Spec => RedeemedNeverDecreases
  OBVIOUS
<1>1. ASSUME AloneInv, [Next]_vars
      PROVE  [\A c \in ExistingCard :
                cards'[c].rewards_redeemed >= cards[c].rewards_redeemed]_vars
  <2>0. TypeOK /\ \A c \in ExistingCard : cards[c] \in CardState /\ Rules[c] \in ProgramRules
    BY <1>1, CardAssumption DEF AloneInv, TypeInv, TypeOK
  <2>1. CASE Outside
    BY <2>0, <2>1, OutsideFrame DEF tables, CardState
  <2>2. ASSUME NEW i \in Invocation, StepOf(i), ~UpdateCard(i), NEW c \in ExistingCard
        PROVE  cards'[c].rewards_redeemed >= cards[c].rewards_redeemed
    BY <2>0, <2>2, CardsFrame DEF CardState
  <2>3. ASSUME NEW i \in Invocation, UpdateCard(i), NEW c \in ExistingCard
        PROVE  cards'[c].rewards_redeemed >= cards[c].rewards_redeemed
    <3>1. CASE c # CardOf(i)
      <4>1. cards'[c] = cards[c]
        BY <2>0, <2>3, <3>1, CardsFrame DEF StepOf, Progress
      <4> QED BY <2>0, <4>1 DEF CardState
    <3>2. CASE c = CardOf(i)
      <4>1. cards'[c] = card_state[i] /\ card_state[i] \in CardState
        BY <1>1, <2>0, <2>3, <3>2, UpdateIsOutcome DEF TypeOK
      <4>2. card_state[i].rewards_redeemed
              \in {cards[c].rewards_redeemed, cards[c].rewards_redeemed + 1}
        <5>1. CASE AccrueDecided(i)
          BY <2>0, <3>2, <5>1, RequestFacts, AccrueFacts DEF AccrueDecided
        <5>2. CASE RedeemDecided(i)
          BY <2>0, <3>2, <5>2, RedeemFacts DEF RedeemDecided
        <5> QED BY <1>1, <2>3, <5>1, <5>2, UpdateIsOutcome
      <4> QED BY <2>0, <4>1, <4>2 DEF CardState
    <3> QED BY <3>1, <3>2
  <2> QED BY <1>1, <2>1, <2>2, <2>3, StepOrOutside
<1> QED BY AloneHolds, <1>1, PTL DEF Spec, RedeemedNeverDecreases

-----------------------------------------------------------------------------
(* The single discount of a seasonal card.                                    *)

LEMMA StepKeepsDiscountInv ==
  ASSUME AloneInv, DiscountInv, [Next]_vars
  PROVE  DiscountInv'
<1>0. /\ TypeOK /\ \A c \in Seasonal : c \in ExistingCard /\ cards[c] \in CardState
      /\ redemptions \in [ExistingCard -> Int]
  BY CardAssumption DEF AloneInv, TypeInv, TypeOK
<1>1. CASE Outside
  BY <1>1, OutsideFrame DEF DiscountInv, tables
<1>2. ASSUME NEW i \in Invocation, StepOf(i), ~UpdateCard(i) PROVE DiscountInv'
  BY <1>0, <1>2, CardsFrame DEF DiscountInv
<1>3. ASSUME NEW i \in Invocation, UpdateCard(i) PROVE DiscountInv'
  <2>1. SUFFICES ASSUME NEW c \in Seasonal
                 PROVE  /\ cards'[c].rewards_redeemed = redemptions'[c]
                        /\ cards'[c].rewards_available >= 0
                        /\ cards'[c].rewards_available + cards'[c].rewards_redeemed
                             = Issued[c].rewards_available + Issued[c].rewards_redeemed
    BY DEF DiscountInv
  <2>2. /\ cards[c].rewards_redeemed = redemptions[c]
        /\ cards[c].rewards_available >= 0
        /\ cards[c].rewards_available + cards[c].rewards_redeemed
             = Issued[c].rewards_available + Issued[c].rewards_redeemed
    BY DEF DiscountInv
  <2>3. CASE c # CardOf(i)
    <3>1. cards'[c] = cards[c] /\ redemptions'[c] = redemptions[c]
      BY <1>0, <1>3, <2>3, CardsFrame DEF StepOf, Progress
    <3> QED BY <2>2, <3>1
  <2>4. CASE c = CardOf(i)
    <3>1. ~AccrueDecided(i)
      BY <2>4, SeasonalAssumption DEF AccrueDecided, AccrueRefused
    <3>2. RedeemDecided(i) /\ cards'[c] = card_state[i]
      BY <1>0, <1>3, <2>4, <3>1, UpdateIsOutcome DEF TypeOK
    <3>3. /\ cards'[c].rewards_available = cards[c].rewards_available - 1
          /\ cards'[c].rewards_redeemed = cards[c].rewards_redeemed + 1
          /\ cards[c].rewards_available >= 1
      BY <1>0, <2>4, <3>2 DEF RedeemDecided, RedeemedState, Balance, RedeemRefused, CardState
    <3>4. redemptions'[c] = redemptions[c] + 1
      BY <1>0, <1>3, <2>4, <3>2 DEF UpdateCard, RedeemDecided, NoDelta
    <3> QED BY <1>0, <2>2, <3>3, <3>4 DEF CardState
  <2> QED BY <2>3, <2>4
<1> QED BY <1>1, <1>2, <1>3, StepOrOutside

\* A seasonal card is not redeemed more often than it was issued discounts.
THEOREM DiscountUsedOnce == Isolated => (Spec => []OneUsePerSeasonalCard)
<1> SUFFICES ASSUME Isolated PROVE Spec => []OneUsePerSeasonalCard
  OBVIOUS
<1>1. Init => DiscountInv
  BY CardAssumption DEF Init, DiscountInv
<1>2. AloneInv /\ DiscountInv /\ [Next]_vars => DiscountInv'
  BY StepKeepsDiscountInv
<1>3. AloneInv /\ DiscountInv => OneUsePerSeasonalCard
  <2> SUFFICES ASSUME AloneInv, DiscountInv, NEW c \in Seasonal
               PROVE  redemptions[c] <= Issued[c].rewards_redeemed + Issued[c].rewards_available
    BY DEF OneUsePerSeasonalCard
  <2>1. cards[c] \in CardState /\ Issued[c] \in CardState
    BY CardAssumption DEF AloneInv, TypeInv, TypeOK
  <2> QED BY <2>1 DEF DiscountInv, CardState
<1> QED BY AloneHolds, <1>1, <1>2, <1>3, PTL DEF Spec

-----------------------------------------------------------------------------
(* The fraud window.                                                          *)

\* A window to which nothing is added does not grow, even as it slides on.
LEMMA WindowSlides ==
  ASSUME TypeOK, IsFiniteSet(transactions), NEW c,
         \A t \in transactions' \ transactions : t.card # c \/ t.delta.kind = "redeem",
         now' \in Nat, now' >= now
  PROVE  /\ RecentAccruals(c)' \subseteq RecentAccruals(c)
         /\ Cardinality(RecentAccruals(c))' \in Nat
         /\ Cardinality(RecentAccruals(c))' <= Cardinality(RecentAccruals(c))
<1>1. RecentAccruals(c)' \subseteq RecentAccruals(c)
  BY BoundAssumption DEF RecentAccruals, TypeOK
<1>2. IsFiniteSet(RecentAccruals(c))
  BY FS_Subset DEF RecentAccruals
<1>3. IsFiniteSet(RecentAccruals(c)')
  BY <1>1, <1>2, FS_Subset
<1> QED BY <1>1, <1>2, <1>3, FS_Subset, FS_CardinalityType

LEMMA WindowGrows ==
  ASSUME TypeOK, IsFiniteSet(transactions), NEW c, NEW t,
         transactions' = transactions \cup {t}, now' = now
  PROVE  /\ Cardinality(RecentAccruals(c)) \in Nat /\ Cardinality(RecentAccruals(c))' \in Nat
         /\ Cardinality(RecentAccruals(c))' <= Cardinality(RecentAccruals(c)) + 1
<1>1. IsFiniteSet(RecentAccruals(c))
  BY FS_Subset DEF RecentAccruals
<1>2. RecentAccruals(c)' \subseteq RecentAccruals(c) \cup {t}
  BY DEF RecentAccruals
<1>3. /\ IsFiniteSet(RecentAccruals(c) \cup {t})
      /\ Cardinality(RecentAccruals(c) \cup {t}) <= Cardinality(RecentAccruals(c)) + 1
  <2>1. Cardinality(RecentAccruals(c)) \in Nat
    BY <1>1, FS_CardinalityType
  <2>2. /\ IsFiniteSet(RecentAccruals(c) \cup {t})
        /\ Cardinality(RecentAccruals(c) \cup {t})
             = IF t \in RecentAccruals(c) THEN Cardinality(RecentAccruals(c))
                                          ELSE Cardinality(RecentAccruals(c)) + 1
    BY <1>1, FS_AddElement
  <2> QED BY <2>1, <2>2
<1>4. /\ IsFiniteSet(RecentAccruals(c)')
      /\ Cardinality(RecentAccruals(c)') <= Cardinality(RecentAccruals(c) \cup {t})
  BY <1>2, <1>3, FS_Subset
<1> QED BY <1>1, <1>3, <1>4, FS_CardinalityType

Undecided(i) == pc[i] \notin {"update_card", "insert_transaction"}

\* Where an accrual was decided, the window had room; a redemption needs none.
LEMMA DecidedHasRoom ==
  ASSUME AloneInv, WindowInv, NEW i \in Invocation, StepOf(i), transactions' = transactions,
         pc'[i] \in {"update_card", "insert_transaction"}, delta'[i].kind # "redeem"
  PROVE  Cardinality(RecentAccruals(CardOf(i))) < MaxAccruals
<1>0. TypeInv /\ TypeOK
  BY DEF AloneInv, TypeInv
<1>1. ASSUME NEW code, Refuse(i, code) PROVE FALSE
  BY <1>0, <1>1, ReplyEnds DEF Refuse
<1>2. CASE DecideAccrue(i)
  <2>1. CardOf(i) \in ExistingCard /\ IsFiniteSet(RecentAccruals(CardOf(i)))
    BY <1>0, <1>2, FS_Subset
    DEF TypeInv, HasCard, DecideAccrue, WindowInv, RecentAccruals
  <2>2. Cardinality(RecentAccruals(CardOf(i))) \in Nat
    BY <2>1, FS_CardinalityType
  <2>3. ~WindowFull(CardOf(i))
    BY <1>1, <1>2 DEF DecideAccrue
  <2> QED BY <2>2, <2>3, BoundAssumption DEF WindowFull
<1>3. CASE DecideRedeem(i)
  BY <1>0, <1>1, <1>3 DEF DecideRedeem, TypeOK, NoDelta
<1>4. CASE UpdateCard(i)
  BY <1>0, <1>4 DEF UpdateCard, TypeOK, Goto, WindowInv
<1>5. CASE LookupKey(i)
  BY <1>0, <1>5, ReplyEnds DEF LookupKey, TypeOK, Goto
<1>6. CASE ReadCard(i)
  BY <1>0, <1>1, <1>6, RequestFacts DEF ReadCard, TypeOK, Goto
<1>7. CASE InsertTransaction(i)
  BY <1>0, <1>1, <1>7 DEF InsertTransaction, TypeOK, Goto
<1>8. CASE PushRead(i) \/ PushPut(i) \/ PushFails(i)
  BY <1>0, <1>8 DEF PushRead, PushPut, PushFails, TypeOK, Goto
<1>9. CASE StoreRecord(i) \/ Crash(i)
  BY <1>0, <1>1, <1>9, ReplyEnds DEF StoreRecord, Crash
<1> QED BY <1>2, <1>3, <1>4, <1>5, <1>6, <1>7, <1>8, <1>9 DEF StepOf, Progress

\* No other operation of the same card is between its decision and its log entry.
LEMMA StepKeepsWindowInv ==
  ASSUME AloneInv, WindowInv, [Next]_vars
  PROVE  WindowInv'
<1>0. /\ TypeInv /\ TypeOK /\ Alone /\ IsFiniteSet(transactions)
      /\ now \in Nat /\ MaxAccruals \in Nat
  BY BoundAssumption DEF AloneInv, TypeInv, TypeOK, WindowInv
<1>a. \A c \in ExistingCard : /\ Cardinality(RecentAccruals(c)) \in Nat
                              /\ Cardinality(RecentAccruals(c)) <= MaxAccruals
  BY <1>0, FS_Subset, FS_CardinalityType DEF WindowInv, RecentAccruals
<1>b. \A j \in Invocation : ~Undecided(j) => CardOf(j) \in ExistingCard /\ Running(j)
  BY <1>0 DEF TypeInv, HasCard, Undecided, Running
<1>1. CASE Outside
  <2>1. /\ UNCHANGED <<transactions, req, pc, delta>>
        /\ now' \in Nat /\ now' >= now
    BY <1>0, <1>1, OutsideFrame
    DEF Outside, Tick, SwitchCampaign, vars, tables, environment
  <2>2. \A c : /\ Cardinality(RecentAccruals(c))' \in Nat
               /\ Cardinality(RecentAccruals(c))' <= Cardinality(RecentAccruals(c))
    BY <1>0, <2>1, WindowSlides
  <2>3. ASSUME NEW j \in Invocation, ~Undecided(j), delta[j].kind # "redeem"
        PROVE  Cardinality(RecentAccruals(CardOf(j)))' < MaxAccruals
    <3>1. CardOf(j)' = CardOf(j) /\ Cardinality(RecentAccruals(CardOf(j))) < MaxAccruals
      BY <2>1, <2>3 DEF CardOf, WindowInv, Undecided
    <3> QED BY <1>0, <1>a, <1>b, <2>2, <2>3, <3>1
  <2> QED BY <1>0, <1>a, <2>1, <2>2, <2>3 DEF WindowInv, Undecided
<1>2. ASSUME NEW i \in Invocation, StepOf(i), transactions' = transactions
      PROVE  WindowInv'
  <2>1. /\ req' = req /\ now' = now
        /\ \A j \in Invocation \ {i} : LocalsKept(j)
    BY <1>0, <1>2, LocalsFrame
  <2>2. \A c : RecentAccruals(c)' = RecentAccruals(c)
    BY <1>2, <2>1 DEF RecentAccruals
  <2>3. \A j \in Invocation : CardOf(j)' = CardOf(j)
    BY <2>1 DEF CardOf
  <2>4. ASSUME NEW j \in Invocation, ~Undecided(j)', delta'[j].kind # "redeem"
        PROVE  Cardinality(RecentAccruals(CardOf(j))) < MaxAccruals
    <3>1. CASE j = i
      BY <1>2, <2>4, <3>1, DecidedHasRoom DEF Undecided
    <3>2. CASE j # i
      BY <2>1, <2>4, <3>2 DEF WindowInv, LocalsKept, Undecided
    <3> QED BY <3>1, <3>2
  <2> QED BY <1>0, <1>2, <1>a, <2>2, <2>3, <2>4 DEF WindowInv, Undecided
<1>3. ASSUME NEW i \in Invocation, StepOf(i), transactions' # transactions
      PROVE  WindowInv'
  <2> DEFINE t == [id |-> i, card |-> CardOf(i), delta |-> delta[i], created_at |-> now]
  <2>1. /\ pc[i] = "insert_transaction" /\ pc'[i] = "push_read"
        /\ transactions' = transactions \cup {t}
    BY <1>0, <1>3
    DEF StepOf, Progress, LookupKey, ReadCard, DecideAccrue, DecideRedeem, UpdateCard,
        InsertTransaction, PushRead, PushPut, PushFails, StoreRecord, Crash, Refuse, tables,
        TypeOK, Goto
  <2>2. t.card = CardOf(i) /\ t.delta.kind = delta[i].kind
    OBVIOUS
  <2> HIDE DEF t
  <2>3. /\ req' = req /\ now' = now
        /\ \A j \in Invocation \ {i} : LocalsKept(j)
    BY <1>0, <1>3, LocalsFrame
  <2>4. IsFiniteSet(transactions')
    BY <1>0, <2>1, FS_AddElement
  <2>5. ASSUME NEW c \in ExistingCard, c # CardOf(i) \/ delta[i].kind = "redeem"
        PROVE  /\ Cardinality(RecentAccruals(c))' \in Nat
               /\ Cardinality(RecentAccruals(c))' <= Cardinality(RecentAccruals(c))
    BY <1>0, <2>1, <2>2, <2>3, <2>5, WindowSlides
  <2>6. ASSUME NEW c \in ExistingCard, c = CardOf(i), delta[i].kind # "redeem"
        PROVE  Cardinality(RecentAccruals(c))' <= MaxAccruals
    <3>1. Cardinality(RecentAccruals(c)) < MaxAccruals
      BY <2>1, <2>6 DEF WindowInv
    <3>2. /\ Cardinality(RecentAccruals(c))' \in Nat
          /\ Cardinality(RecentAccruals(c))' <= Cardinality(RecentAccruals(c)) + 1
      BY <1>0, <2>1, <2>3, WindowGrows
    <3> QED BY <1>0, <1>a, <3>1, <3>2
  <2>7. \A c \in ExistingCard : Cardinality(RecentAccruals(c))' <= MaxAccruals
    BY <1>0, <1>a, <2>5, <2>6
  <2>8. ASSUME NEW j \in Invocation, ~Undecided(j)', delta'[j].kind # "redeem"
        PROVE  Cardinality(RecentAccruals(CardOf(j)))' < MaxAccruals
    <3>1. j # i /\ LocalsKept(j) /\ ~Undecided(j) /\ CardOf(j)' = CardOf(j)
      BY <2>1, <2>3, <2>8 DEF Undecided, LocalsKept, CardOf
    <3>2. CardOf(j) \in ExistingCard /\ CardOf(j) # CardOf(i)
      BY <1>0, <1>b, <2>1, <3>1 DEF Alone, Running
    <3>3. Cardinality(RecentAccruals(CardOf(j))) < MaxAccruals
      BY <2>8, <3>1 DEF WindowInv, LocalsKept, Undecided
    <3>4. /\ Cardinality(RecentAccruals(CardOf(j)))' \in Nat
          /\ Cardinality(RecentAccruals(CardOf(j)))' <= Cardinality(RecentAccruals(CardOf(j)))
      BY <2>5, <3>1, <3>2
    <3> QED BY <1>0, <1>a, <3>2, <3>3, <3>4
  <2> QED BY <2>4, <2>7, <2>8 DEF WindowInv, Undecided
<1> QED BY <1>1, <1>2, <1>3, StepOrOutside

\* No more accruals than the fraud guard allows are logged on a card in any window,
\* when its requests do not overlap: the count read before an accrual still stands
\* when the accrual is logged.
THEOREM WindowIsGuarded == Isolated => (Spec => []FraudGuard)
<1> SUFFICES ASSUME Isolated PROVE Spec => []FraudGuard
  OBVIOUS
<1>1. Init => WindowInv
  <2> SUFFICES ASSUME Init PROVE WindowInv
    OBVIOUS
  <2>1. transactions = {} /\ \A c : RecentAccruals(c) = {}
    BY DEF Init, RecentAccruals
  <2>2. \A c : Cardinality(RecentAccruals(c)) = 0
    BY <2>1, FS_EmptySet
  <2>3. IsFiniteSet(transactions)
    BY <2>1, FS_EmptySet
  <2> QED BY <2>2, <2>3, BoundAssumption DEF Init, WindowInv
<1>2. AloneInv /\ WindowInv /\ [Next]_vars => WindowInv'
  BY StepKeepsWindowInv
<1>3. WindowInv => FraudGuard
  BY DEF WindowInv, FraudGuard
<1> QED BY AloneHolds, <1>1, <1>2, <1>3, PTL DEF Spec

-----------------------------------------------------------------------------
(* Once per key.                                                              *)

\* What is recorded stays recorded.
LEMMA RecordedStays ==
  ASSUME req' = req, idempotency_records \subseteq idempotency_records', NEW w, Recorded(w)
  PROVE  Recorded(w)'
  BY DEF Recorded, KeyOf, BodyOf, Response, CardOf

\* Between its write and its record a dependable invocation has nothing to fail.
LEMMA AfterWriteStep ==
  ASSUME Dependable, AloneInv, OnceInv, NEW i \in Invocation, StepOf(i), AfterWrite(i),
         NEW w, w = WriteOf(i)
  PROVE  (AfterWrite(i)' /\ w = WriteOf(i)') \/ Recorded(w)'
<1>0. TypeInv /\ TypeOK /\ req' = req
  BY LocalsFrame DEF AloneInv, TypeInv
<1>1. CASE InsertTransaction(i)
  <2>1. BodyOf(i).operator \in Profile
    BY <1>0 DEF Dependable, BodyOf, TypeOK
  <2> QED BY <1>0, <1>1, <2>1 DEF InsertTransaction, TypeOK, Goto, AfterWrite, WriteOf
<1>2. CASE PushRead(i) \/ PushPut(i) \/ PushFails(i)
  BY <1>0, <1>2 DEF PushRead, PushPut, PushFails, TypeOK, Goto, AfterWrite, WriteOf
<1>3. CASE StoreRecord(i)
  <2>1. RecordsFor(KeyOf(i)) = {}
    BY <1>3 DEF StoreRecord, OnceInv, Running
  <2> DEFINE new == [key |-> KeyOf(i), hash |-> BodyOf(i), body |-> Response(WriteOf(i))]
  <2>2. new \in idempotency_records'
    BY <1>3, <2>1 DEF StoreRecord
  <2>3. new.key = KeyOf(i) /\ new.hash = BodyOf(i) /\ new.body = Response(WriteOf(i))
    OBVIOUS
  <2> HIDE DEF new
  <2>4. w.inv = i
    BY DEF WriteOf
  <2>5. /\ KeyOf(w.inv)' = KeyOf(i) /\ BodyOf(w.inv)' = BodyOf(i)
        /\ Response(w)' = Response(w)
    BY <1>0, <2>4 DEF KeyOf, BodyOf, Response, CardOf
  <2> QED BY <2>2, <2>3, <2>5 DEF Recorded
<1>4. CASE LookupKey(i) \/ ReadCard(i) \/ DecideAccrue(i) \/ DecideRedeem(i) \/ UpdateCard(i)
  BY <1>4 DEF AfterWrite, LookupKey, ReadCard, DecideAccrue, DecideRedeem, UpdateCard
<1>5. ~Crash(i)
  BY DEF Dependable, Crash
<1> QED BY <1>1, <1>2, <1>3, <1>4, <1>5 DEF StepOf, Progress

LEMMA StepKeepsOnceInv ==
  ASSUME Dependable, AloneInv, OnceInv, [Next]_vars
  PROVE  OnceInv'
<1>0. /\ TypeInv /\ TypeOK /\ Alone
      /\ \A w \in written : w.inv \in Invocation
  BY DEF AloneInv, TypeInv, TypeOK, Write
<1>1. CASE Outside
  BY <1>1, OutsideFrame
  DEF OnceInv, Running, RecordsFor, KeyOf, BodyOf, AfterWrite, WriteOf, Recorded, Response,
      CardOf, tables
<1>2. ASSUME NEW i \in Invocation, StepOf(i) PROVE OnceInv'
  <2>1. /\ req' = req
        /\ \A j \in Invocation \ {i} : LocalsKept(j)
        /\ \A j \in Invocation : KeyOf(j)' = KeyOf(j)
    BY <1>0, <1>2, LocalsFrame DEF KeyOf
  <2>2. \/ idempotency_records' = idempotency_records
        \/ /\ pc'[i] = "done" /\ Running(i)
           /\ \E r : idempotency_records' = idempotency_records \cup {r} /\ r.key = KeyOf(i)
    <3>1. CASE StoreRecord(i)
      BY <1>0, <3>1, ReplyEnds DEF StoreRecord, Refuse, Running, tables
    <3>2. CASE ~StoreRecord(i)
      BY <1>2, <3>2
      DEF StepOf, Progress, LookupKey, ReadCard, DecideAccrue, DecideRedeem, UpdateCard,
          InsertTransaction, PushRead, PushPut, PushFails, Crash, Refuse, tables
    <3> QED BY <3>1, <3>2
  <2>3. ASSUME NEW j \in Invocation, Running(j)'
        PROVE  RecordsFor(KeyOf(j))' = {}
    <3>1. CASE j # i
      <4>1. Running(j) /\ (Running(i) => KeyOf(j) # KeyOf(i))
        BY <1>0, <2>1, <2>3, <3>1 DEF Running, LocalsKept, Alone
      <4>2. RecordsFor(KeyOf(j)) = {}
        BY <4>1 DEF OnceInv
      <4> QED BY <2>1, <2>2, <4>1, <4>2 DEF RecordsFor
    <3>2. CASE j = i
      <4>1. idempotency_records' = idempotency_records
        BY <2>2, <2>3, <3>2 DEF Running
      <4>2. RecordsFor(KeyOf(i)) = {}
        <5>1. CASE Running(i)
          BY <5>1 DEF OnceInv
        <5>2. CASE ~Running(i)
          <6>1. LookupKey(i)
            BY <1>2, <5>2
            DEF StepOf, Progress, Running, ReadCard, DecideAccrue, DecideRedeem, UpdateCard,
                InsertTransaction, PushRead, PushPut, PushFails, StoreRecord, Crash
          <6> QED BY <1>0, <2>3, <3>2, <6>1, ReplyEnds DEF LookupKey, Running
        <5> QED BY <5>1, <5>2
      <4> QED BY <2>1, <3>2, <4>1, <4>2 DEF RecordsFor
    <3> QED BY <3>1, <3>2
  <2>4. idempotency_records \subseteq idempotency_records'
    BY <2>2
  <2>5. ASSUME NEW w \in written
        PROVE  (AfterWrite(w.inv)' /\ w = WriteOf(w.inv)') \/ Recorded(w)'
    <3>1. CASE Recorded(w)
      BY <2>1, <2>4, <3>1, RecordedStays
    <3>2. CASE AfterWrite(w.inv) /\ w = WriteOf(w.inv) /\ w.inv = i
      BY <1>2, <3>2, AfterWriteStep
    <3>3. CASE AfterWrite(w.inv) /\ w = WriteOf(w.inv) /\ w.inv # i
      BY <1>0, <2>1, <3>3 DEF LocalsKept, AfterWrite, WriteOf
    <3> QED BY <3>1, <3>2, <3>3 DEF OnceInv
  <2>6. ASSUME NEW w \in written' \ written
        PROVE  AfterWrite(w.inv)' /\ w = WriteOf(w.inv)'
    <3>1. UpdateCard(i)
      BY <1>0, <1>2, <2>6, CardsFrame
    <3>2. w = WriteOf(i) /\ w.inv = i
      BY <2>6, <3>1 DEF UpdateCard, WriteOf
    <3>3. /\ pc'[i] = "insert_transaction"
          /\ UNCHANGED <<card_state, delta>>
      BY <1>0, <3>1 DEF UpdateCard, TypeOK, Goto
    <3> QED BY <3>2, <3>3 DEF AfterWrite, WriteOf
  <2> QED BY <2>3, <2>5, <2>6 DEF OnceInv
<1> QED BY <1>1, <1>2, StepOrOutside

LEMMA OnceHolds == Isolated /\ Dependable => (Spec => []OnceInv)
<1> SUFFICES ASSUME Isolated, Dependable PROVE Spec => []OnceInv
  OBVIOUS
<1>1. Init => OnceInv
  BY DEF Init, OnceInv, Running
<1>2. AloneInv /\ OnceInv /\ [Next]_vars => OnceInv'
  BY StepKeepsOnceInv
<1> QED BY AloneHolds, <1>1, <1>2, PTL DEF Spec

\* However often its request is sent, a key's mutation is written once, if nothing is
\* killed between the write and the record and requests come one at a time.
THEOREM MutationAppliedOnce == Isolated /\ Dependable => (Spec => []AppliedOncePerKey)
<1> SUFFICES ASSUME Isolated, Dependable PROVE Spec => []AppliedOncePerKey
  OBVIOUS
<1>1. ASSUME AloneInv, OnceInv, RecordInv, NEW v \in written, NEW w \in written,
             KeyOf(v.inv) = KeyOf(w.inv)
      PROVE  v = w
  <2>0. /\ v \in Write /\ w \in Write
        /\ v.inv \in Invocation /\ w.inv \in Invocation
    BY <1>1 DEF AloneInv, TypeInv, TypeOK, Write
  <2>1. ASSUME NEW x \in written, AfterWrite(x.inv), KeyOf(x.inv) = KeyOf(w.inv)
        PROVE  ~Recorded(v) /\ ~Recorded(w)
    <3>1. x.inv \in Invocation /\ Running(x.inv)
      BY <1>1, <2>1 DEF AloneInv, TypeInv, TypeOK, Write, AfterWrite, Running
    <3>2. RecordsFor(KeyOf(w.inv)) = {}
      BY <1>1, <2>1, <3>1 DEF OnceInv
    <3> QED BY <1>1, <3>2 DEF Recorded, RecordsFor
  <2>2. CASE AfterWrite(v.inv) /\ v = WriteOf(v.inv)
    <3>1. AfterWrite(w.inv) /\ w = WriteOf(w.inv)
      BY <1>1, <2>1, <2>2 DEF OnceInv
    <3>2. v.inv = w.inv
      BY <1>1, <2>0, <2>2, <3>1 DEF AloneInv, Alone, AfterWrite, Running
    <3> QED BY <2>2, <3>1, <3>2
  <2>3. CASE Recorded(v)
    <3>1. Recorded(w)
      BY <1>1, <2>1, <2>3 DEF OnceInv
    <3>2. Response(v) = Response(w)
      BY <1>1, <2>3, <3>1 DEF Recorded, RecordInv
    <3>3. v.inv = w.inv /\ v.state = w.state /\ v.delta = w.delta
      BY <3>2 DEF Response
    <3> QED BY <2>0, <3>3 DEF Write
  <2> QED BY <1>1, <2>2, <2>3 DEF OnceInv
<1>2. AloneInv /\ OnceInv /\ RecordInv => AppliedOncePerKey
  BY <1>1 DEF AppliedOncePerKey
<1>3. AloneInv => TypeInv
  BY DEF AloneInv
<1> QED
  BY AloneHolds, OnceHolds, InitRecordInv, StepKeepsRecordInv, <1>2, <1>3, PTL DEF Spec

-----------------------------------------------------------------------------
(* The refinement: the UPDATE is the ledger's step, all others stutter.       *)

\* The ledger computes with the same arithmetic.
LEMMA SameArithmetic ==
  ASSUME NEW rules, NEW state, NEW add
  PROVE  /\ Ledger!AccrueRefused(rules, state, add) = AccrueRefused(rules, state, add)
         /\ Ledger!AccrueOutcome(rules, state, add) = AccrueOutcome(rules, state, add)
         /\ Ledger!RedeemRefused(state) = RedeemRefused(state)
         /\ Ledger!RedeemedState(state) = RedeemedState(state)
         /\ Ledger!Worth(rules, state) = Worth(rules, state)
<1>1. Ledger!AccrueRefused(rules, state, add) = AccrueRefused(rules, state, add)
  BY DEF Ledger!AccrueRefused, AccrueRefused
<1>2. Ledger!AccrueOutcome(rules, state, add) = AccrueOutcome(rules, state, add)
  BY DEF Ledger!AccrueOutcome, Ledger!AccrueStamps, Ledger!AccruePoints, Ledger!RollOver,
         Ledger!PointsGained, Ledger!WholePoints, Ledger!ExactPoints, Ledger!Balance,
         AccrueOutcome, AccrueStamps, AccruePoints, RollOver, PointsGained, WholePoints,
         ExactPoints, Balance
<1>3. /\ Ledger!RedeemRefused(state) = RedeemRefused(state)
      /\ Ledger!RedeemedState(state) = RedeemedState(state)
  BY DEF Ledger!RedeemRefused, Ledger!RedeemedState, Ledger!Balance, RedeemRefused,
         RedeemedState, Balance
<1>4. Ledger!Worth(rules, state) = Worth(rules, state)
  BY DEF Ledger!Worth, Ledger!Price, Ledger!Counter, Worth, Price, Counter
<1> QED BY <1>1, <1>2, <1>3, <1>4

AnswerOf(w) == [hash |-> BodyOf(w.inv), body |-> Response(w)]

WrittenAnswers(k) == {AnswerOf(w) : w \in {v \in written : KeyOf(v.inv) = k}}

OnlyWrittenAnswers == LedgerAnswer = [k \in Key |-> WrittenAnswers(k)]

\* A record adds no answer to those of the writes: it is the answer of one.
LEMMA AnswersOfWrites == RecordInv => OnlyWrittenAnswers
<1> SUFFICES ASSUME RecordInv PROVE OnlyWrittenAnswers
  OBVIOUS
<1>1. ASSUME NEW r \in idempotency_records
      PROVE  \E w \in written : KeyOf(w.inv) = r.key
                                /\ [hash |-> r.hash, body |-> r.body] = AnswerOf(w)
  BY DEF RecordInv, Backed, AnswerOf
<1>2. ASSUME NEW k \in Key
      PROVE  {[hash |-> r.hash, body |-> r.body] : r \in RecordsFor(k)} \subseteq WrittenAnswers(k)
  BY <1>1 DEF RecordsFor, WrittenAnswers
<1> QED BY <1>2 DEF OnlyWrittenAnswers, LedgerAnswer, WrittenAnswers, AnswerOf

LEMMA AnswersOfWritesAfter == RecordInv' => OnlyWrittenAnswers'
  BY AnswersOfWrites, PTL

\* Without an UPDATE nothing the ledger sees is changed.
LEMMA OtherStepsStutter ==
  ASSUME RecordInv, RecordInv', req' = req,
         UNCHANGED <<cards, written, credited, redemptions>>
  PROVE  UNCHANGED Ledger!ledgerVars
<1>1. \A k : WrittenAnswers(k)' = WrittenAnswers(k)
  BY DEF WrittenAnswers, AnswerOf, KeyOf, BodyOf, Response, CardOf
<1>2. /\ LedgerAnswer = [k \in Key |-> WrittenAnswers(k)]
      /\ LedgerAnswer' = [k \in Key |-> WrittenAnswers(k)']
  BY AnswersOfWrites, AnswersOfWritesAfter DEF OnlyWrittenAnswers
<1> QED BY <1>1, <1>2 DEF Ledger!ledgerVars

\* The key of an invocation about to write is unanswered, and its write answers it.
LEMMA UpdateAnswersKey ==
  ASSUME AloneInv, OnceInv, NEW i \in Invocation, UpdateCard(i)
  PROVE  /\ WrittenAnswers(KeyOf(i)) = {}
         /\ \A k : WrittenAnswers(k)' = IF k = KeyOf(i) THEN {AnswerOf(WriteOf(i))}
                                                        ELSE WrittenAnswers(k)
<1>0. /\ Alone /\ Running(i) /\ pc[i] = "update_card"
      /\ \A w \in written : w.inv \in Invocation
  BY DEF AloneInv, TypeInv, TypeOK, Write, UpdateCard, Running
<1>1. ASSUME NEW w \in written PROVE KeyOf(w.inv) # KeyOf(i)
  <2>1. CASE AfterWrite(w.inv)
    <3>1. Running(w.inv) /\ w.inv # i
      BY <1>0, <2>1 DEF AfterWrite, Running
    <3> QED BY <1>0, <3>1 DEF Alone
  <2>2. CASE Recorded(w)
    <3>1. RecordsFor(KeyOf(i)) = {}
      BY <1>0 DEF OnceInv
    <3> QED BY <2>2, <3>1 DEF Recorded, RecordsFor
  <2> QED BY <2>1, <2>2 DEF OnceInv
<1>2. /\ written' = written \cup {WriteOf(i)} /\ req' = req
      /\ WriteOf(i).inv = i
  BY DEF UpdateCard, environment, WriteOf
<1>3. \A j, w : KeyOf(j)' = KeyOf(j) /\ AnswerOf(w)' = AnswerOf(w)
  BY <1>2 DEF KeyOf, BodyOf, AnswerOf, Response, CardOf
<1>4. WrittenAnswers(KeyOf(i)) = {}
  BY <1>1 DEF WrittenAnswers
<1>5. ASSUME NEW k, k = KeyOf(i) PROVE WrittenAnswers(k)' = {AnswerOf(WriteOf(i))}
  <2> DEFINE new == WriteOf(i)
  <2>1. new.inv = i /\ written' = written \cup {new}
    BY <1>2
  <2> HIDE DEF new
  <2>2. {v \in written' : KeyOf(v.inv)' = k} = {new}
    BY <1>1, <1>3, <1>5, <2>1
  <2>3. WrittenAnswers(k)' = {AnswerOf(w) : w \in {new}}
    BY <1>3, <2>2 DEF WrittenAnswers
  <2> QED BY <2>3 DEF new
<1>6. ASSUME NEW k, k # KeyOf(i) PROVE WrittenAnswers(k)' = WrittenAnswers(k)
  <2> DEFINE new == WriteOf(i)
  <2>1. new.inv = i /\ written' = written \cup {new}
    BY <1>2
  <2> HIDE DEF new
  <2>2. {v \in written' : KeyOf(v.inv)' = k} = {v \in written : KeyOf(v.inv) = k}
    BY <1>3, <1>6, <2>1
  <2> QED BY <1>3, <2>2 DEF WrittenAnswers
<1> QED BY <1>4, <1>5, <1>6

\* The UPDATE is the ledger's answer to the request it was made for.
LEMMA UpdateIsLedgerStep ==
  ASSUME AloneInv, OnceInv, RecordInv, RecordInv', NEW i \in Invocation, UpdateCard(i)
  PROVE  Ledger!LedgerNext
<1> DEFINE body == BodyOf(i)
           c == CardOf(i)
<1>0. /\ TypeOK /\ CardOf(i) \in ExistingCard /\ req[i] \in Request
      /\ KeyOf(i) \in Key /\ KeyOf(i) = req[i].key
      /\ body = req[i].body /\ c = req[i].body.card
  BY UpdateIsOutcome, RequestFacts DEF AloneInv, TypeInv, KeyOf, BodyOf, CardOf
<1>1. /\ cards' = [cards EXCEPT ![c] = card_state[i]]
      /\ AccrueDecided(i) \/ RedeemDecided(i)
      /\ credited' = [credited EXCEPT ![c] = @ + delta[i].stamps_delta + delta[i].points_delta]
      /\ redemptions' = [redemptions EXCEPT ![c] = IF delta[i].kind = "redeem" THEN @ + 1 ELSE @]
  BY UpdateIsOutcome DEF UpdateCard
<1>2. LedgerAnswer[KeyOf(i)] = {}
  BY <1>0, UpdateAnswersKey, AnswersOfWrites DEF OnlyWrittenAnswers
<1>3. LedgerAnswer' = [LedgerAnswer EXCEPT ![KeyOf(i)] = {AnswerOf(WriteOf(i))}]
  BY <1>0, UpdateAnswersKey, AnswersOfWrites, AnswersOfWritesAfter DEF OnlyWrittenAnswers
<1>4. AnswerOf(WriteOf(i))
        = [hash |-> body,
           body |-> [txn |-> i, card |-> body.card, state |-> card_state[i],
                     delta |-> delta[i]]]
  BY DEF AnswerOf, WriteOf, Response, CardOf, BodyOf
<1>5. Ledger!Answer(KeyOf(i), body, i, card_state[i], delta[i])
  BY <1>0, <1>1, <1>2, <1>3, <1>4 DEF Ledger!Answer
<1>6. CASE AccrueDecided(i)
  <2> DEFINE outcome == AccrueOutcome(Rules[c], cards[c], body)
  <2>1. /\ body.op = "accrue" /\ ~AccrueRefused(Rules[c], cards[c], body)
        /\ card_state[i] = outcome.state
        /\ delta[i] = [kind |-> outcome.kind, stamps_delta |-> outcome.stamps_delta,
                       points_delta |-> outcome.points_delta]
    BY <1>6 DEF AccrueDecided
  <2>2. outcome.kind # "redeem"
    BY DEF AccrueOutcome, AccrueStamps, AccruePoints
  <2>3. /\ Ledger!AccrueOutcome(Rules[c], cards[c], body) = outcome
        /\ ~Ledger!AccrueRefused(Rules[c], cards[c], body)
    BY <2>1, SameArithmetic
  <2> HIDE DEF outcome
  <2>4. /\ credited' = [credited EXCEPT ![c] = @ + outcome.stamps_delta + outcome.points_delta]
        /\ redemptions' = redemptions
    BY <1>0, <1>1, <2>1, <2>2 DEF TypeOK
  <2>5. Ledger!AccrueOnce(KeyOf(i), body, i)
    BY <1>0, <1>5, <2>1, <2>3, <2>4 DEF Ledger!AccrueOnce
  <2> QED BY <1>0, <2>5 DEF Ledger!LedgerNext
<1>7. CASE RedeemDecided(i)
  <2>1. /\ body.op = "redeem" /\ ~RedeemRefused(cards[c])
        /\ card_state[i] = RedeemedState(cards[c]) /\ delta[i] = NoDelta
    BY <1>7 DEF RedeemDecided
  <2>2. /\ Ledger!RedeemedState(cards[c]) = RedeemedState(cards[c])
        /\ ~Ledger!RedeemRefused(cards[c])
    BY <2>1, SameArithmetic
  <2>3. /\ redemptions' = [redemptions EXCEPT ![c] = @ + 1]
        /\ credited' = credited
    <3>1. credited[c] \in Int /\ credited[c] + 0 + 0 = credited[c]
      BY <1>0 DEF TypeOK
    <3>2. NoDelta.kind = "redeem" /\ NoDelta.stamps_delta = 0 /\ NoDelta.points_delta = 0
      BY DEF NoDelta
    <3> QED BY <1>0, <1>1, <2>1, <3>1, <3>2 DEF TypeOK
  <2>4. Ledger!RedeemOnce(KeyOf(i), body, i)
    BY <1>0, <1>5, <2>1, <2>2, <2>3 DEF Ledger!RedeemOnce, NoDelta
  <2> QED BY <1>0, <2>4 DEF Ledger!LedgerNext
<1> QED BY <1>1, <1>6, <1>7

LEMMA InitIsLedgerInit == Init => Ledger!LedgerInit
<1> SUFFICES ASSUME Init PROVE Ledger!LedgerInit
  OBVIOUS
<1>1. LedgerAnswer = [k \in Key |-> {}]
  BY DEF Init, LedgerAnswer, RecordsFor
<1>2. \A c \in ExistingCard : Ledger!Worth(Rules[c], Issued[c]) = Worth(Rules[c], Issued[c])
  BY SameArithmetic
<1> QED BY <1>1, <1>2 DEF Init, Ledger!LedgerInit

\* The operations implement the exactly-once ledger, when requests on a card and on a
\* key come one at a time and nothing ends an invocation between its write and its
\* record: the cards UPDATE is the ledger's indivisible answer, every other step of
\* every handler (lookups, decisions, log, push, record, refusals) changes nothing of it.
THEOREM ImplementsLedger == Isolated /\ Dependable => (Spec => RefinesLedger)
<1> SUFFICES ASSUME Isolated, Dependable PROVE Spec => RefinesLedger
  OBVIOUS
<1>1. AloneInv /\ OnceInv /\ RecordInv /\ RecordInv' /\ [Next]_vars
        => [Ledger!LedgerNext]_(Ledger!ledgerVars)
  <2> SUFFICES ASSUME AloneInv, OnceInv, RecordInv, RecordInv', [Next]_vars
               PROVE  Ledger!LedgerNext \/ UNCHANGED Ledger!ledgerVars
    OBVIOUS
  <2>1. CASE Outside
    BY <2>1, OutsideFrame, OtherStepsStutter DEF tables
  <2>2. ASSUME NEW i \in Invocation, UpdateCard(i) PROVE Ledger!LedgerNext
    BY <2>2, UpdateIsLedgerStep
  <2>3. ASSUME NEW i \in Invocation, StepOf(i), ~UpdateCard(i)
        PROVE  UNCHANGED Ledger!ledgerVars
    <3>1. TypeOK
      BY DEF AloneInv, TypeInv
    <3>2. req' = req /\ UNCHANGED <<cards, written, credited, redemptions>>
      BY <2>3, <3>1, LocalsFrame, CardsFrame
    <3> QED BY <3>2, OtherStepsStutter
  <2> QED BY <2>1, <2>2, <2>3, StepOrOutside
<1>2. AloneInv => TypeInv
  BY DEF AloneInv
<1> QED
  BY AloneHolds, OnceHolds, InitRecordInv, StepKeepsRecordInv, InitIsLedgerInit, <1>1, <1>2,
     PTL DEF Spec, RefinesLedger, Ledger!LedgerSpec

-----------------------------------------------------------------------------
(* Conservation: what NeverMints bounds is exact when no snapshot is stale.   *)

BooksOf(c) ==
  /\ Worth(Rules[c], cards[c]) = credited[c]
  /\ cards[c].rewards_redeemed = redemptions[c]

LEMMA NothingLostIsBooks == NothingLost <=> \A c \in ExistingCard : BooksOf(c)
  BY SameArithmetic DEF NothingLost, Ledger!LedgerBalances, BooksOf

LEMMA OutcomeBalances ==
  ASSUME AloneInv, NEW i \in Invocation, UpdateCard(i), BooksOf(CardOf(i))
  PROVE  BooksOf(CardOf(i))'
<1> DEFINE c == CardOf(i)
<1>0. /\ TypeOK /\ c \in ExistingCard /\ c' = c
      /\ cards[c] \in CardState /\ Rules[c] \in ProgramRules
  BY UpdateIsOutcome, CardAssumption
     DEF AloneInv, TypeInv, TypeOK, UpdateCard, environment, CardOf
<1>1. /\ cards'[c] = card_state[i]
      /\ credited'[c] = credited[c] + delta[i].stamps_delta + delta[i].points_delta
      /\ redemptions'[c] = IF delta[i].kind = "redeem" THEN redemptions[c] + 1
                                                       ELSE redemptions[c]
  BY <1>0, UpdateIsOutcome DEF TypeOK, UpdateCard
<1>2. /\ Worth(Rules[c], cards[c]) = credited[c] /\ credited[c] \in Int
      /\ cards[c].rewards_redeemed = redemptions[c]
  BY <1>0 DEF BooksOf, TypeOK
<1>3. CASE AccrueDecided(i)
  <2> DEFINE outcome == AccrueOutcome(Rules[c], cards[c], BodyOf(i))
  <2>1. /\ card_state[i] = outcome.state
        /\ delta[i] = [kind |-> outcome.kind, stamps_delta |-> outcome.stamps_delta,
                       points_delta |-> outcome.points_delta]
        /\ ~AccrueRefused(Rules[c], cards[c], BodyOf(i))
    BY <1>3 DEF AccrueDecided
  <2>2. /\ outcome.kind \in {"accrue_stamps", "accrue_points"}
        /\ Worth(Rules[c], outcome.state)
             = Worth(Rules[c], cards[c]) + outcome.stamps_delta + outcome.points_delta
        /\ outcome.state.rewards_redeemed = cards[c].rewards_redeemed
    BY <1>0, <2>1, RequestFacts, AccrueFacts
  <2> HIDE DEF outcome, c
  <2>3. /\ Worth(Rules[c], cards'[c]) = credited'[c]
        /\ cards'[c].rewards_redeemed = redemptions'[c]
    BY <1>1, <1>2, <2>1, <2>2
  <2> QED BY <1>0, <2>3 DEF BooksOf, c
<1>4. CASE RedeemDecided(i)
  <2>1. /\ card_state[i] = RedeemedState(cards[c]) /\ delta[i] = NoDelta
        /\ ~RedeemRefused(cards[c])
    BY <1>4 DEF RedeemDecided
  <2>2. /\ Worth(Rules[c], card_state[i]) = Worth(Rules[c], cards[c])
        /\ card_state[i].rewards_redeemed = cards[c].rewards_redeemed + 1
    BY <1>0, <2>1, RedeemFacts
  <2> HIDE DEF c
  <2>3. /\ Worth(Rules[c], cards'[c]) = credited'[c]
        /\ cards'[c].rewards_redeemed = redemptions'[c]
    BY <1>1, <1>2, <2>1, <2>2 DEF NoDelta
  <2> QED BY <1>0, <2>3 DEF BooksOf, c
<1> QED BY <1>3, <1>4, UpdateIsOutcome

\* One request at a time per card loses no stamp, point or redemption.
THEOREM BooksOfCardsBalance == Isolated => (Spec => []NothingLost)
<1> SUFFICES ASSUME Isolated PROVE Spec => []NothingLost
  OBVIOUS
<1>1. Init => NothingLost
  <2> SUFFICES ASSUME Init, NEW c \in ExistingCard PROVE BooksOf(c)
    BY NothingLostIsBooks
  <2> QED BY DEF Init, BooksOf
<1>2. ASSUME AloneInv, NothingLost, [Next]_vars PROVE NothingLost'
  <2>0. TypeOK /\ \A c \in ExistingCard : BooksOf(c)
    BY <1>2, NothingLostIsBooks DEF AloneInv, TypeInv
  <2>1. SUFFICES ASSUME NEW c \in ExistingCard PROVE BooksOf(c)'
    BY SameArithmetic DEF NothingLost, Ledger!LedgerBalances, BooksOf
  <2>2. CASE UNCHANGED <<cards, credited, redemptions>>
    BY <2>0, <2>2 DEF BooksOf
  <2>3. ASSUME NEW i \in Invocation, UpdateCard(i) PROVE BooksOf(c)'
    <3>1. CASE c = CardOf(i)
      <4>1. CardOf(i)' = CardOf(i)
        BY <2>3 DEF UpdateCard, environment, CardOf
      <4> QED BY <1>2, <2>0, <2>3, <3>1, <4>1, OutcomeBalances DEF BooksOf
    <3>2. CASE c # CardOf(i)
      <4>1. /\ cards'[c] = cards[c] /\ credited'[c] = credited[c]
            /\ redemptions'[c] = redemptions[c]
        BY <2>0, <2>3, <3>2 DEF TypeOK, UpdateCard
      <4> QED BY <2>0, <4>1 DEF BooksOf
    <3> QED BY <3>1, <3>2
  <2>4. CASE Outside
    BY <2>2, <2>4, OutsideFrame DEF tables
  <2>5. ASSUME NEW i \in Invocation, StepOf(i), ~UpdateCard(i) PROVE BooksOf(c)'
    BY <2>0, <2>2, <2>5, CardsFrame
  <2> QED BY <1>2, <2>3, <2>4, <2>5, StepOrOutside
<1> QED BY AloneHolds, <1>1, <1>2, PTL DEF Spec
=============================================================================
