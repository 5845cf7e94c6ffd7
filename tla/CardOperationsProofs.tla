------------------------ MODULE CardOperationsProofs ------------------------
(***************************************************************************)
(* Proofs about CardOperations for every set of invocations, keys, cards and *)
(* requests, with overlap, crashes and wallet failures allowed or not.       *)
(***************************************************************************)
EXTENDS CardOperations, RewardLogicProofs

\* The labels at which an invocation has a card of its merchant in hand.
HasCard(i) == pc[i] \in {"accrue", "redeem", "update_card", "insert_transaction",
                         "push_read", "push_put", "store_put"}

\* TypeOK with what makes it inductive: past get_card the card exists, and the
\* two decisions are reached by their own operation.
TypeInv ==
  /\ TypeOK
  /\ \A i \in Invocation : HasCard(i) => CardOf(i) \in ExistingCard
  /\ \A i \in Invocation : pc[i] = "accrue" => BodyOf(i).op = "accrue"

LEMMA RequestFacts ==
  ASSUME TypeOK, NEW i \in Invocation
  PROVE  /\ req[i] \in Request
         /\ KeyOf(i) \in Key /\ BodyOf(i) \in Body /\ CardOf(i) \in Card
         /\ BodyOf(i).op \in {"accrue", "redeem"}
         /\ BodyOf(i).stamps \in Nat /\ BodyOf(i).amount \in Int
<1>1. req[i] \in Request
  BY DEF TypeOK
<1>2. req[i] \in [key: Key, caller: Merchant, body: Body]
  BY <1>1, RequestAssumption
<1>3. KeyOf(i) \in Key /\ BodyOf(i) \in Body
  BY <1>2 DEF KeyOf, BodyOf
<1> QED BY <1>1, <1>3 DEF Body, BodyOf, CardOf

LEMMA BlankTypes == NoState \in CardState /\ NoDelta \in Delta
  BY DEF NoState, NoDelta, CardState, Delta, Kind

LEMMA UpdatedRowFacts ==
  ASSUME NEW row \in CardState, NEW state \in CardState
  PROVE  /\ UpdatedRow(row, state) \in CardState
         /\ UpdatedRow(row, state).stamps = state.stamps
         /\ UpdatedRow(row, state).points = state.points
         /\ UpdatedRow(row, state).rewards_available = state.rewards_available
         /\ UpdatedRow(row, state).rewards_redeemed = state.rewards_redeemed
  BY DEF UpdatedRow, CardState

LEMMA InitTypeInv == Init => TypeInv
<1> SUFFICES ASSUME Init PROVE TypeInv
  OBVIOUS
<1>1. cards \in [ExistingCard -> CardState] /\ pass \in [ExistingCard -> CardState]
  BY CardAssumption DEF Init
<1>2. credited \in [ExistingCard -> Int] /\ redemptions \in [ExistingCard -> Int]
  <2>1. \A c \in ExistingCard : Worth(Rules[c], Issued[c]) \in Int
    BY CardAssumption, PriceAndCounter
  <2>2. \A c \in ExistingCard : Issued[c].rewards_redeemed \in Int
    BY CardAssumption DEF CardState
  <2> QED BY <2>1, <2>2 DEF Init
<1>3. TypeOK
  BY <1>1, <1>2, BlankTypes DEF Init, TypeOK, Label, Status
<1> QED BY <1>3 DEF Init, TypeInv, HasCard

LEMMA RefuseKeepsTypeInv ==
  ASSUME TypeInv, NEW i \in Invocation, NEW code \in Status, Refuse(i, code)
  PROVE  TypeInv'
<1>1. TypeOK'
  BY BlankTypes
  DEF TypeInv, TypeOK, Refuse, Reply, Goto, tables, environment, history, Label
<1>2. \A j \in Invocation : HasCard(j)' => HasCard(j) /\ CardOf(j)' = CardOf(j)
  BY DEF TypeInv, TypeOK, HasCard, CardOf, Refuse, Reply, Goto, environment
<1>3. \A j \in Invocation : pc'[j] = "accrue" => pc[j] = "accrue" /\ BodyOf(j)' = BodyOf(j)
  BY DEF TypeInv, TypeOK, BodyOf, Refuse, Reply, Goto, environment
<1> QED BY <1>1, <1>2, <1>3 DEF TypeInv

LEMMA StepKeepsTypeInv == TypeInv /\ [Next]_vars => TypeInv'
<1> SUFFICES ASSUME TypeInv, [Next]_vars PROVE TypeInv'
  OBVIOUS
<1> USE DEF TypeInv
<1>1. ASSUME NEW i \in Invocation, LookupKey(i) PROVE TypeInv'
  <2>1. \A r \in idempotency_records : r.body \in ResponseBody
    BY DEF TypeOK
  <2>2. TypeOK'
    BY <1>1, <2>1, BlankTypes
    DEF TypeOK, LookupKey, RecordsFor, Reply, Goto, tables, environment, Label, Status
  <2>3. \A j \in Invocation : HasCard(j)' => HasCard(j) /\ CardOf(j)' = CardOf(j)
    BY <1>1 DEF TypeOK, HasCard, CardOf, LookupKey, Reply, Goto, environment
  <2>4. \A j \in Invocation :
          pc'[j] = "accrue" => pc[j] = "accrue" /\ BodyOf(j)' = BodyOf(j)
    BY <1>1 DEF TypeOK, BodyOf, LookupKey, Reply, Goto, environment
  <2> QED BY <2>2, <2>3, <2>4
<1>2. ASSUME NEW i \in Invocation, ReadCard(i) PROVE TypeInv'
  <2>1. CASE Refuse(i, 404) \/ Refuse(i, 403)
    BY <2>1, RefuseKeepsTypeInv DEF Status
  <2>2. CASE /\ CardOf(i) \in ExistingCard
             /\ card_state' = [card_state EXCEPT ![i] = cards[CardOf(i)]]
             /\ Goto(i, BodyOf(i).op)
             /\ UNCHANGED <<tables, pass, environment, delta, push_state, status, history>>
    <3>1. TypeOK'
      BY <2>2, RequestFacts DEF TypeOK, Goto, tables, environment, history, Label
    <3>2. \A j \in Invocation : HasCard(j)' => CardOf(j)' \in ExistingCard
      BY <2>2 DEF TypeOK, HasCard, CardOf, Goto, environment
    <3>3. \A j \in Invocation : pc'[j] = "accrue" => BodyOf(j)'.op = "accrue"
      BY <2>2 DEF TypeOK, BodyOf, Goto, environment
    <3> QED BY <3>1, <3>2, <3>3
  <2> QED BY <1>2, <2>1, <2>2 DEF ReadCard
<1>3. ASSUME NEW i \in Invocation, DecideAccrue(i) PROVE TypeInv'
  <2> DEFINE outcome == AccrueOutcome(Rules[CardOf(i)], card_state[i], BodyOf(i))
  <2>1. CASE Refuse(i, 429) \/ Refuse(i, 422)
    BY <2>1, RefuseKeepsTypeInv DEF Status
  <2>2. CASE /\ ~AccrueRefused(Rules[CardOf(i)], card_state[i], BodyOf(i))
             /\ card_state' = [card_state EXCEPT ![i] = outcome.state]
             /\ delta' = [delta EXCEPT ![i] = [kind |-> outcome.kind,
                                               stamps_delta |-> outcome.stamps_delta,
                                               points_delta |-> outcome.points_delta]]
             /\ Goto(i, "update_card")
             /\ UNCHANGED <<tables, pass, environment, push_state, status, history>>
    <3>1. Rules[CardOf(i)] \in ProgramRules /\ card_state[i] \in CardState
      BY <1>3, CardAssumption DEF TypeOK, HasCard, DecideAccrue
    <3>2. /\ outcome.state \in CardState
          /\ outcome.kind \in {"accrue_stamps", "accrue_points"}
          /\ outcome.stamps_delta \in Nat /\ outcome.points_delta \in Nat
      BY <2>2, <3>1, RequestFacts, AccrueFacts
    <3> HIDE DEF outcome
    <3>3. TypeOK'
      BY <2>2, <3>2
      DEF TypeOK, Goto, tables, environment, history, Label, Delta, Kind
    <3>4. \A j \in Invocation : HasCard(j)' => CardOf(j)' \in ExistingCard
      BY <1>3, <2>2 DEF TypeOK, HasCard, CardOf, Goto, environment, DecideAccrue
    <3>5. \A j \in Invocation :
            pc'[j] = "accrue" => pc[j] = "accrue" /\ BodyOf(j)' = BodyOf(j)
      BY <2>2 DEF TypeOK, BodyOf, Goto, environment
    <3> QED BY <3>3, <3>4, <3>5
  <2> QED BY <1>3, <2>1, <2>2 DEF DecideAccrue
<1>4. ASSUME NEW i \in Invocation, DecideRedeem(i) PROVE TypeInv'
  <2>1. CASE Refuse(i, 422) \/ Refuse(i, 409)
    BY <2>1, RefuseKeepsTypeInv DEF Status
  <2>2. CASE /\ ~RedeemRefused(card_state[i])
             /\ card_state' = [card_state EXCEPT ![i] = RedeemedState(card_state[i])]
             /\ delta' = [delta EXCEPT ![i] = NoDelta]
             /\ Goto(i, "update_card")
             /\ UNCHANGED <<tables, pass, environment, push_state, status, history>>
    <3>1. Rules[CardOf(i)] \in ProgramRules /\ card_state[i] \in CardState
      BY <1>4, CardAssumption DEF TypeOK, HasCard, DecideRedeem
    <3>2. RedeemedState(card_state[i]) \in CardState
      BY <2>2, <3>1, RedeemFacts
    <3>3. TypeOK'
      BY <2>2, <3>2, BlankTypes DEF TypeOK, Goto, tables, environment, history, Label
    <3>4. \A j \in Invocation : HasCard(j)' => CardOf(j)' \in ExistingCard
      BY <1>4, <2>2 DEF TypeOK, HasCard, CardOf, Goto, environment, DecideRedeem
    <3>5. \A j \in Invocation :
            pc'[j] = "accrue" => pc[j] = "accrue" /\ BodyOf(j)' = BodyOf(j)
      BY <2>2 DEF TypeOK, BodyOf, Goto, environment
    <3> QED BY <3>3, <3>4, <3>5
  <2> QED BY <1>4, <2>1, <2>2 DEF DecideRedeem
<1>5. ASSUME NEW i \in Invocation, UpdateCard(i) PROVE TypeInv'
  <2>1. CardOf(i) \in ExistingCard
    BY <1>5 DEF UpdateCard, HasCard
  <2>2. cards' \in [ExistingCard -> CardState]
    BY <1>5, <2>1, UpdatedRowFacts DEF UpdateCard, TypeOK
  <2>3. written' \subseteq Write
    BY <1>5 DEF UpdateCard, TypeOK, Write, WriteOf
  <2>4. /\ credited' \in [ExistingCard -> Int]
        /\ redemptions' \in [ExistingCard -> Int]
    <3>1. delta[i].stamps_delta \in Int /\ delta[i].points_delta \in Int
      BY DEF TypeOK, Delta
    <3> QED BY <1>5, <2>1, <3>1 DEF UpdateCard, TypeOK
  <2>5. TypeOK'
    BY <1>5, <2>2, <2>3, <2>4 DEF UpdateCard, TypeOK, Goto, environment, Label
  <2>6. \A j \in Invocation : HasCard(j)' => HasCard(j) /\ CardOf(j)' = CardOf(j)
    BY <1>5 DEF TypeOK, HasCard, CardOf, UpdateCard, Goto, environment
  <2>7. \A j \in Invocation :
          pc'[j] = "accrue" => pc[j] = "accrue" /\ BodyOf(j)' = BodyOf(j)
    BY <1>5 DEF TypeOK, BodyOf, UpdateCard, Goto, environment
  <2> QED BY <2>5, <2>6, <2>7
<1>6. ASSUME NEW i \in Invocation, InsertTransaction(i) PROVE TypeInv'
  <2>1. CASE Refuse(i, 500)
    BY <2>1, RefuseKeepsTypeInv DEF Status
  <2>2. CASE /\ transactions' = transactions \cup
                  {[id |-> i, card |-> CardOf(i), delta |-> delta[i], created_at |-> now]}
             /\ Goto(i, "push_read")
             /\ UNCHANGED <<cards, idempotency_records, pass, environment, card_state,
                            delta, push_state, status, history>>
    <3>1. CardOf(i) \in ExistingCard
      BY <1>6 DEF InsertTransaction, HasCard
    <3>2. TypeOK'
      BY <2>2, <3>1 DEF TypeOK, Goto, environment, history, Label
    <3>3. \A j \in Invocation : HasCard(j)' => HasCard(j) /\ CardOf(j)' = CardOf(j)
      BY <1>6, <2>2 DEF TypeOK, HasCard, CardOf, InsertTransaction, Goto, environment
    <3>4. \A j \in Invocation :
            pc'[j] = "accrue" => pc[j] = "accrue" /\ BodyOf(j)' = BodyOf(j)
      BY <2>2 DEF TypeOK, BodyOf, Goto, environment
    <3> QED BY <3>2, <3>3, <3>4
  <2> QED BY <1>6, <2>1, <2>2 DEF InsertTransaction
<1>7. ASSUME NEW i \in Invocation, PushRead(i) \/ PushPut(i) \/ PushFails(i)
      PROVE  TypeInv'
  <2>1. CardOf(i) \in ExistingCard
    BY <1>7 DEF PushRead, PushPut, PushFails, HasCard
  <2>2. TypeOK'
    BY <1>7, <2>1, BlankTypes
    DEF TypeOK, PushRead, PushPut, PushFails, Goto, tables, environment, history, Label
  <2>3. \A j \in Invocation : HasCard(j)' => HasCard(j) /\ CardOf(j)' = CardOf(j)
    BY <1>7 DEF TypeOK, HasCard, CardOf, PushRead, PushPut, PushFails, Goto, environment
  <2>4. \A j \in Invocation :
          pc'[j] = "accrue" => pc[j] = "accrue" /\ BodyOf(j)' = BodyOf(j)
    BY <1>7 DEF TypeOK, BodyOf, PushRead, PushPut, PushFails, Goto, environment
  <2> QED BY <2>2, <2>3, <2>4
<1>8. ASSUME NEW i \in Invocation, StoreRecord(i) PROVE TypeInv'
  <2>1. CASE Refuse(i, 500)
    BY <2>1, RefuseKeepsTypeInv DEF Status
  <2>2. CASE RecordsFor(KeyOf(i)) = {} /\ ~Refuse(i, 500)
    <3>1. /\ KeyOf(i) \in Key /\ BodyOf(i) \in Body
          /\ Response(WriteOf(i)) \in ResponseBody
      BY RequestFacts DEF TypeOK, Response, WriteOf, ResponseBody
    <3>2. TypeOK'
      BY <1>8, <2>2, <3>1, BlankTypes
      DEF TypeOK, StoreRecord, Reply, Goto, environment, Label, Status
    <3>3. \A j \in Invocation : HasCard(j)' => HasCard(j) /\ CardOf(j)' = CardOf(j)
      BY <1>8, <2>2 DEF TypeOK, HasCard, CardOf, StoreRecord, Reply, Goto, environment
    <3>4. \A j \in Invocation :
            pc'[j] = "accrue" => pc[j] = "accrue" /\ BodyOf(j)' = BodyOf(j)
      BY <1>8, <2>2 DEF TypeOK, BodyOf, StoreRecord, Reply, Goto, environment
    <3> QED BY <3>2, <3>3, <3>4
  <2> QED BY <1>8, <2>1, <2>2 DEF StoreRecord
<1>9. ASSUME NEW i \in Invocation, Crash(i) PROVE TypeInv'
  BY <1>9, RefuseKeepsTypeInv DEF Crash, Status
<1>10. CASE Tick
  BY <1>10, BoundAssumption
  DEF Tick, TypeOK, HasCard, CardOf, BodyOf, tables, locals, history
<1>11. ASSUME NEW c \in Seasonal, SwitchCampaign(c) PROVE TypeInv'
  BY <1>11 DEF SwitchCampaign, TypeOK, HasCard, CardOf, BodyOf, tables, locals, history
<1>12. CASE UNCHANGED vars
  BY <1>12
  DEF vars, TypeOK, HasCard, CardOf, BodyOf, tables, environment, locals, history
<1> QED
  BY <1>1, <1>2, <1>3, <1>4, <1>5, <1>6, <1>7, <1>8, <1>9, <1>10, <1>11, <1>12
  DEF Next, Progress

\* Tables, local variables and history keep their types in every behaviour: in
\* particular no handler computes with a card it did not find, and every logged
\* delta is non-negative.
THEOREM TypeCorrect == Spec => []TypeOK
<1>1. TypeInv => TypeOK
  BY DEF TypeInv
<1> QED BY InitTypeInv, StepKeepsTypeInv, <1>1, PTL DEF Spec

-----------------------------------------------------------------------------
(* Races and crashes never mint value.  What makes NeverOverCredited         *)
(* inductive: a snapshot taken by get_card is itself covered by the credits   *)
(* written so far, those only grow, and the value computed from a snapshot    *)
(* exceeds it by no more than the credit its own write will add.              *)

Covered(c, state, units, uses) ==
  /\ Worth(Rules[c], state) <= credited[c] + units
  /\ state.rewards_redeemed <= redemptions[c] + uses

Units(i) == delta[i].stamps_delta + delta[i].points_delta
Uses(i) == IF delta[i].kind = "redeem" THEN 1 ELSE 0

CreditInv ==
  /\ \A c \in ExistingCard : Covered(c, cards[c], 0, 0)
  /\ \A i \in Invocation :
       pc[i] \in {"accrue", "redeem"} => Covered(CardOf(i), card_state[i], 0, 0)
  /\ \A i \in Invocation :
       pc[i] = "update_card" => Covered(CardOf(i), card_state[i], Units(i), Uses(i))

\* A step that leaves the cards and their credits alone, and the snapshot of
\* every invocation that stays at, or enters, one of the three labels.
Quiet ==
  /\ UNCHANGED <<cards, credited, redemptions, req>>
  /\ \A j \in Invocation :
       pc'[j] \in {"accrue", "redeem", "update_card"}
         => /\ pc'[j] = pc[j]
            /\ card_state'[j] = card_state[j] /\ delta'[j] = delta[j]

LEMMA RefuseIsQuiet ==
  ASSUME TypeOK, NEW i \in Invocation, NEW code, Refuse(i, code)
  PROVE  Quiet
  BY DEF TypeOK, Quiet, Refuse, Reply, Goto, tables, environment, history

\* All steps but the read, the two decisions and the UPDATE are quiet.
LEMMA QuietSteps ==
  ASSUME TypeOK, NEW i \in Invocation,
         \/ LookupKey(i) \/ InsertTransaction(i) \/ PushRead(i) \/ PushPut(i)
         \/ PushFails(i) \/ StoreRecord(i) \/ Crash(i) \/ Tick
         \/ (\E c \in Seasonal : SwitchCampaign(c)) \/ UNCHANGED vars
  PROVE  Quiet
<1>1. CASE LookupKey(i)
  BY <1>1 DEF TypeOK, Quiet, LookupKey, Reply, Goto, tables, environment
<1>2. CASE InsertTransaction(i)
  BY <1>2, RefuseIsQuiet DEF TypeOK, Quiet, InsertTransaction, Goto, environment, history
<1>3. CASE PushRead(i) \/ PushPut(i) \/ PushFails(i)
  BY <1>3 DEF TypeOK, Quiet, PushRead, PushPut, PushFails, Goto, tables, environment, history
<1>4. CASE StoreRecord(i)
  BY <1>4, RefuseIsQuiet DEF TypeOK, Quiet, StoreRecord, Reply, Goto, environment
<1>5. CASE Crash(i)
  BY <1>5, RefuseIsQuiet DEF Crash
<1>6. CASE Tick \/ (\E c \in Seasonal : SwitchCampaign(c)) \/ UNCHANGED vars
  BY <1>6 DEF Quiet, Tick, SwitchCampaign, vars, tables, environment, locals, history
<1> QED BY <1>1, <1>2, <1>3, <1>4, <1>5, <1>6

LEMMA InitCreditInv == Init => CreditInv
<1> SUFFICES ASSUME Init PROVE CreditInv
  OBVIOUS
<1>1. \A c \in ExistingCard :
        /\ Worth(Rules[c], Issued[c]) \in Int
        /\ Issued[c].rewards_redeemed \in Int
  BY CardAssumption, PriceAndCounter DEF CardState
<1> QED BY <1>1 DEF Init, CreditInv, Covered

LEMMA QuietKeepsCreditInv ==
  ASSUME TypeInv, CreditInv, Quiet
  PROVE  CreditInv'
<1>1. \A c \in ExistingCard : Covered(c, cards[c], 0, 0)'
  BY DEF CreditInv, Quiet, Covered
<1>2. ASSUME NEW i \in Invocation, pc'[i] \in {"accrue", "redeem"}
      PROVE  Covered(CardOf(i), card_state[i], 0, 0)'
  BY <1>2 DEF CreditInv, Quiet, Covered, CardOf
<1>3. ASSUME NEW i \in Invocation, pc'[i] = "update_card"
      PROVE  Covered(CardOf(i), card_state[i], Units(i), Uses(i))'
  BY <1>3 DEF CreditInv, Quiet, Covered, CardOf, Units, Uses
<1> QED BY <1>1, <1>2, <1>3 DEF CreditInv

\* The three steps that touch a snapshot only touch their own.
LEMMA OthersSnapshots ==
  ASSUME TypeOK, NEW i \in Invocation,
         ReadCard(i) \/ DecideAccrue(i) \/ DecideRedeem(i) \/ UpdateCard(i)
  PROVE  /\ req' = req
         /\ \A j \in Invocation \ {i} :
              /\ pc'[j] = pc[j]
              /\ card_state'[j] = card_state[j] /\ delta'[j] = delta[j]
  BY DEF TypeOK, ReadCard, DecideAccrue, DecideRedeem, UpdateCard, Refuse, Reply, Goto,
         environment

LEMMA OtherCovered ==
  ASSUME TypeInv, CreditInv, NEW i \in Invocation,
         ReadCard(i) \/ DecideAccrue(i) \/ DecideRedeem(i),
         UNCHANGED <<cards, credited, redemptions>>,
         \/ pc'[i] \notin {"accrue", "redeem", "update_card"}
         \/ pc'[i] \in {"accrue", "redeem"} /\ Covered(CardOf(i), card_state[i], 0, 0)'
         \/ pc'[i] = "update_card" /\ Covered(CardOf(i), card_state[i], Units(i), Uses(i))'
  PROVE  CreditInv'
<1>1. /\ req' = req
      /\ \A j \in Invocation \ {i} :
           /\ pc'[j] = pc[j]
           /\ card_state'[j] = card_state[j] /\ delta'[j] = delta[j]
  BY OthersSnapshots DEF TypeInv
<1>2. \A c \in ExistingCard : Covered(c, cards[c], 0, 0)'
  BY DEF CreditInv, Covered
<1>3. ASSUME NEW j \in Invocation, pc'[j] \in {"accrue", "redeem"}
      PROVE  Covered(CardOf(j), card_state[j], 0, 0)'
  <2>1. CASE j = i
    BY <1>3, <2>1
  <2>2. CASE j # i
    BY <1>1, <1>3, <2>2 DEF CreditInv, Covered, CardOf
  <2> QED BY <2>1, <2>2
<1>4. ASSUME NEW j \in Invocation, pc'[j] = "update_card"
      PROVE  Covered(CardOf(j), card_state[j], Units(j), Uses(j))'
  <2>1. CASE j = i
    BY <1>4, <2>1
  <2>2. CASE j # i
    BY <1>1, <1>4, <2>2 DEF CreditInv, Covered, CardOf, Units, Uses
  <2> QED BY <2>1, <2>2
<1> QED BY <1>2, <1>3, <1>4 DEF CreditInv

LEMMA StepKeepsCreditInv ==
  TypeInv /\ TypeInv' /\ CreditInv /\ [Next]_vars => CreditInv'
<1> SUFFICES ASSUME TypeInv, TypeInv', CreditInv, [Next]_vars PROVE CreditInv'
  OBVIOUS
<1>0. TypeOK
  BY DEF TypeInv
<1>1. ASSUME NEW i \in Invocation, ReadCard(i) PROVE CreditInv'
  <2>1. CASE Refuse(i, 404) \/ Refuse(i, 403)
    BY <1>0, <2>1, RefuseIsQuiet, QuietKeepsCreditInv
  <2>2. CASE /\ CardOf(i) \in ExistingCard
             /\ card_state' = [card_state EXCEPT ![i] = cards[CardOf(i)]]
             /\ Goto(i, BodyOf(i).op)
             /\ UNCHANGED <<tables, pass, environment, delta, push_state, status, history>>
    <3>1. pc'[i] \in {"accrue", "redeem"}
      BY <1>0, <2>2, RequestFacts DEF Goto, TypeOK
    <3>2. Covered(CardOf(i), card_state[i], 0, 0)'
      BY <1>0, <2>2 DEF CreditInv, Covered, CardOf, TypeOK, environment, history
    <3> QED BY <1>1, <2>2, <3>1, <3>2, OtherCovered DEF tables, history
  <2> QED BY <1>1, <2>1, <2>2 DEF ReadCard
<1>2. ASSUME NEW i \in Invocation, DecideAccrue(i) PROVE CreditInv'
  <2> DEFINE outcome == AccrueOutcome(Rules[CardOf(i)], card_state[i], BodyOf(i))
  <2>1. CASE Refuse(i, 429) \/ Refuse(i, 422)
    BY <1>0, <2>1, RefuseIsQuiet, QuietKeepsCreditInv
  <2>2. CASE /\ ~AccrueRefused(Rules[CardOf(i)], card_state[i], BodyOf(i))
             /\ card_state' = [card_state EXCEPT ![i] = outcome.state]
             /\ delta' = [delta EXCEPT ![i] = [kind |-> outcome.kind,
                                               stamps_delta |-> outcome.stamps_delta,
                                               points_delta |-> outcome.points_delta]]
             /\ Goto(i, "update_card")
             /\ UNCHANGED <<tables, pass, environment, push_state, status, history>>
    <3>1. /\ Rules[CardOf(i)] \in ProgramRules /\ card_state[i] \in CardState
          /\ CardOf(i) \in ExistingCard
      BY <1>2, CardAssumption DEF TypeInv, TypeOK, HasCard, DecideAccrue
    <3>2. /\ outcome.state \in CardState
          /\ outcome.kind # "redeem"
          /\ outcome.stamps_delta \in Nat /\ outcome.points_delta \in Nat
          /\ Worth(Rules[CardOf(i)], outcome.state)
               = Worth(Rules[CardOf(i)], card_state[i])
                   + outcome.stamps_delta + outcome.points_delta
          /\ outcome.state.rewards_redeemed = card_state[i].rewards_redeemed
      BY <1>0, <2>2, <3>1, RequestFacts, AccrueFacts
    <3>3. Covered(CardOf(i), card_state[i], 0, 0)
      BY <1>2 DEF CreditInv, DecideAccrue
    <3>4. /\ Worth(Rules[CardOf(i)], card_state[i]) \in Int
          /\ credited[CardOf(i)] \in Int /\ redemptions[CardOf(i)] \in Int
          /\ card_state[i].rewards_redeemed \in Int
      BY <1>0, <3>1, PriceAndCounter DEF TypeOK, CardState
    <3> HIDE DEF outcome
    <3>5. /\ card_state'[i] = outcome.state /\ pc'[i] = "update_card"
          /\ delta'[i].kind = outcome.kind
          /\ delta'[i].stamps_delta = outcome.stamps_delta
          /\ delta'[i].points_delta = outcome.points_delta
          /\ CardOf(i)' = CardOf(i)
          /\ UNCHANGED <<cards, credited, redemptions>>
      BY <1>0, <2>2 DEF TypeOK, Goto, CardOf, environment, tables, history
    <3>6. /\ Units(i)' = outcome.stamps_delta + outcome.points_delta
          /\ Uses(i)' = 0
      BY <3>2, <3>5 DEF Units, Uses
    <3>7. Covered(CardOf(i), card_state[i], Units(i), Uses(i))'
      BY <3>2, <3>3, <3>4, <3>5, <3>6 DEF Covered
    <3> QED BY <1>2, <3>5, <3>7, OtherCovered
  <2> QED BY <1>2, <2>1, <2>2 DEF DecideAccrue
<1>3. ASSUME NEW i \in Invocation, DecideRedeem(i) PROVE CreditInv'
  <2>1. CASE Refuse(i, 422) \/ Refuse(i, 409)
    BY <1>0, <2>1, RefuseIsQuiet, QuietKeepsCreditInv
  <2>2. CASE /\ ~RedeemRefused(card_state[i])
             /\ card_state' = [card_state EXCEPT ![i] = RedeemedState(card_state[i])]
             /\ delta' = [delta EXCEPT ![i] = NoDelta]
             /\ Goto(i, "update_card")
             /\ UNCHANGED <<tables, pass, environment, push_state, status, history>>
    <3>1. /\ Rules[CardOf(i)] \in ProgramRules /\ card_state[i] \in CardState
          /\ CardOf(i) \in ExistingCard
      BY <1>3, CardAssumption DEF TypeInv, TypeOK, HasCard, DecideRedeem
    <3>2. /\ Worth(Rules[CardOf(i)], RedeemedState(card_state[i]))
               = Worth(Rules[CardOf(i)], card_state[i])
          /\ RedeemedState(card_state[i]).rewards_redeemed
               = card_state[i].rewards_redeemed + 1
      BY <2>2, <3>1, RedeemFacts
    <3>3. Covered(CardOf(i), card_state[i], 0, 0)
      BY <1>3 DEF CreditInv, DecideRedeem
    <3>4. /\ Worth(Rules[CardOf(i)], card_state[i]) \in Int
          /\ credited[CardOf(i)] \in Int /\ redemptions[CardOf(i)] \in Int
          /\ card_state[i].rewards_redeemed \in Int
      BY <1>0, <3>1, PriceAndCounter DEF TypeOK, CardState
    <3>5. /\ card_state'[i] = RedeemedState(card_state[i]) /\ pc'[i] = "update_card"
          /\ delta'[i] = NoDelta
          /\ CardOf(i)' = CardOf(i)
          /\ UNCHANGED <<cards, credited, redemptions>>
      BY <1>0, <2>2 DEF TypeOK, Goto, CardOf, environment, tables, history
    <3>6. Units(i)' = 0 /\ Uses(i)' = 1
      BY <3>5 DEF Units, Uses, NoDelta
    <3>7. Covered(CardOf(i), card_state[i], Units(i), Uses(i))'
      BY <3>2, <3>3, <3>4, <3>5, <3>6 DEF Covered
    <3> QED BY <1>3, <3>5, <3>7, OtherCovered
  <2> QED BY <1>3, <2>1, <2>2 DEF DecideRedeem
<1>4. ASSUME NEW i \in Invocation, UpdateCard(i) PROVE CreditInv'
  <2> DEFINE c == CardOf(i)
  <2>1. c \in ExistingCard /\ pc[i] = "update_card"
    BY <1>4 DEF TypeInv, UpdateCard, HasCard
  <2>2. /\ cards' = [cards EXCEPT ![c] = UpdatedRow(cards[c], card_state[i])]
        /\ credited' = [credited EXCEPT ![c] =
             credited[c] + delta[i].stamps_delta + delta[i].points_delta]
        /\ redemptions' = [redemptions EXCEPT ![c] =
             IF delta[i].kind = "redeem" THEN redemptions[c] + 1 ELSE redemptions[c]]
        /\ pc'[i] = "insert_transaction"
        /\ req' = req
    BY <1>0, <1>4 DEF UpdateCard, TypeOK, Goto, environment
  <2>3. /\ \A d \in ExistingCard : credited[d] \in Int /\ redemptions[d] \in Int
        /\ \A d \in ExistingCard : cards[d] \in CardState
        /\ \A j \in Invocation : /\ card_state[j] \in CardState
                                 /\ delta[j].stamps_delta \in Nat
                                 /\ delta[j].points_delta \in Nat
    BY <1>0 DEF TypeOK, Delta
  <2>4. /\ credited'[c] = credited[c] + Units(i)
        /\ redemptions'[c] = redemptions[c] + Uses(i)
        /\ Units(i) \in Nat /\ Uses(i) \in Nat
    BY <1>0, <2>1, <2>2, <2>3 DEF Units, Uses, TypeOK
  <2>5. \A d \in ExistingCard : /\ credited[d] <= credited'[d]
                                /\ redemptions[d] <= redemptions'[d]
    <3> TAKE d \in ExistingCard
    <3>1. CASE d = c
      BY <2>3, <2>4, <3>1
    <3>2. CASE d # c
      BY <1>0, <2>2, <2>3, <3>2 DEF TypeOK
    <3> QED BY <3>1, <3>2
  <2> HIDE DEF c
  <2>6. ASSUME NEW d \in ExistingCard, NEW state \in CardState,
               NEW units \in Nat, NEW uses \in Nat, Covered(d, state, units, uses)
        PROVE  /\ Worth(Rules[d], state) <= credited'[d] + units
               /\ state.rewards_redeemed <= redemptions'[d] + uses
    <3>1. Worth(Rules[d], state) \in Int /\ state.rewards_redeemed \in Int
      BY CardAssumption, PriceAndCounter DEF CardState
    <3>2. credited'[d] \in Int /\ redemptions'[d] \in Int
      BY DEF TypeInv, TypeOK
    <3> QED BY <2>3, <2>5, <2>6, <3>1, <3>2 DEF Covered
  <2>7. ASSUME NEW d \in ExistingCard PROVE Covered(d, cards[d], 0, 0)'
    <3>1. CASE d = c
      <4>1. /\ cards'[c] = UpdatedRow(cards[c], card_state[i])
            /\ cards[c] \in CardState /\ card_state[i] \in CardState
        BY <1>0, <2>1, <2>2, <2>3 DEF TypeOK
      <4>2. Worth(Rules[c], cards'[c]) = Worth(Rules[c], card_state[i])
        BY <4>1, UpdatedRowFacts DEF Worth, Counter
      <4>3. cards'[c].rewards_redeemed = card_state[i].rewards_redeemed
        BY <4>1, UpdatedRowFacts
      <4>4. Covered(c, card_state[i], Units(i), Uses(i))
        BY <2>1 DEF CreditInv, c
      <4>5. credited'[c] \in Int /\ redemptions'[c] \in Int
        BY <2>1 DEF TypeInv, TypeOK
      <4> QED BY <2>4, <3>1, <4>2, <4>3, <4>4, <4>5 DEF Covered
    <3>2. CASE d # c
      <4>1. cards'[d] = cards[d] /\ Covered(d, cards[d], 0, 0)
        BY <1>0, <2>2, <3>2 DEF TypeOK, CreditInv
      <4> QED BY <2>3, <2>6, <4>1 DEF Covered
    <3> QED BY <3>1, <3>2
  <2>8. ASSUME NEW j \in Invocation, pc'[j] \in {"accrue", "redeem"}
        PROVE  Covered(CardOf(j), card_state[j], 0, 0)'
    <3>1. /\ pc[j] = pc'[j] /\ card_state'[j] = card_state[j] /\ CardOf(j)' = CardOf(j)
      BY <1>0, <1>4, <2>2, <2>8, OthersSnapshots DEF CardOf
    <3>2. Covered(CardOf(j), card_state[j], 0, 0) /\ CardOf(j) \in ExistingCard
      BY <2>8, <3>1 DEF CreditInv, TypeInv, HasCard
    <3> QED BY <2>3, <2>6, <3>1, <3>2 DEF Covered
  <2>9. ASSUME NEW j \in Invocation, pc'[j] = "update_card"
        PROVE  Covered(CardOf(j), card_state[j], Units(j), Uses(j))'
    <3>1. /\ pc[j] = pc'[j] /\ card_state'[j] = card_state[j] /\ CardOf(j)' = CardOf(j)
          /\ Units(j)' = Units(j) /\ Uses(j)' = Uses(j)
      BY <1>0, <1>4, <2>2, <2>9, OthersSnapshots DEF CardOf, Units, Uses
    <3>2. /\ Covered(CardOf(j), card_state[j], Units(j), Uses(j))
          /\ CardOf(j) \in ExistingCard
      BY <2>9, <3>1 DEF CreditInv, TypeInv, HasCard
    <3>3. Units(j) \in Nat /\ Uses(j) \in Nat
      BY <2>3 DEF Units, Uses
    <3> QED BY <2>3, <2>6, <3>1, <3>2, <3>3 DEF Covered
  <2> QED BY <2>7, <2>8, <2>9 DEF CreditInv
<1>5. CASE Tick \/ (\E c \in Seasonal : SwitchCampaign(c)) \/ UNCHANGED vars
  <2>1. CASE Invocation = {}
    BY <1>5, <2>1
    DEF CreditInv, Covered, Tick, SwitchCampaign, vars, tables, environment, history
  <2>2. CASE Invocation # {}
    BY <1>0, <1>5, <2>2, QuietSteps, QuietKeepsCreditInv
  <2> QED BY <2>1, <2>2
<1> QED
  BY <1>0, <1>1, <1>2, <1>3, <1>4, <1>5, QuietSteps, QuietKeepsCreditInv DEF Next, Progress

\* However requests overlap, retry or die, no card is ever worth more than its
\* issue plus the accruals written to it, nor shows more redemptions than were
\* written: the lost updates of commit only ever cost the customer.
THEOREM NeverMints == Spec => []NeverOverCredited
<1>1. TypeInv /\ CreditInv => NeverOverCredited
  BY DEF TypeInv, TypeOK, CreditInv, Covered, NeverOverCredited
<1> QED
  BY InitTypeInv, StepKeepsTypeInv, InitCreditInv, StepKeepsCreditInv, <1>1, PTL DEF Spec

-----------------------------------------------------------------------------
(* Balances stay legal: the same snapshots, now about one balance each.       *)

StaysLegal(c, state) == Legal(c, Issued[c]) => Legal(c, state)

LegalInv ==
  /\ \A c \in ExistingCard : StaysLegal(c, cards[c])
  /\ \A i \in Invocation :
       pc[i] \in {"accrue", "redeem", "update_card"} => StaysLegal(CardOf(i), card_state[i])

LEMMA QuietKeepsLegalInv ==
  ASSUME LegalInv, Quiet
  PROVE  LegalInv'
<1>1. \A c \in ExistingCard : StaysLegal(c, cards[c])'
  BY DEF LegalInv, Quiet, StaysLegal, Legal
<1>2. ASSUME NEW i \in Invocation, pc'[i] \in {"accrue", "redeem", "update_card"}
      PROVE  StaysLegal(CardOf(i), card_state[i])'
  <2>1. /\ pc'[i] = pc[i] /\ card_state'[i] = card_state[i] /\ CardOf(i)' = CardOf(i)
    BY <1>2 DEF Quiet, CardOf
  <2>2. StaysLegal(CardOf(i), card_state[i])
    BY <1>2, <2>1 DEF LegalInv
  <2> QED BY <2>1, <2>2 DEF StaysLegal, Legal
<1> QED BY <1>1, <1>2 DEF LegalInv

LEMMA SnapshotKeepsLegalInv ==
  ASSUME TypeInv, LegalInv, NEW i \in Invocation,
         ReadCard(i) \/ DecideAccrue(i) \/ DecideRedeem(i) \/ UpdateCard(i),
         \A c \in ExistingCard : StaysLegal(c, cards'[c]),
         pc'[i] \in {"accrue", "redeem", "update_card"}
           => StaysLegal(CardOf(i), card_state'[i])
  PROVE  LegalInv'
<1>1. /\ req' = req
      /\ \A j \in Invocation \ {i} :
           pc'[j] = pc[j] /\ card_state'[j] = card_state[j]
  BY OthersSnapshots DEF TypeInv
<1>2. ASSUME NEW j \in Invocation, pc'[j] \in {"accrue", "redeem", "update_card"}
      PROVE  StaysLegal(CardOf(j), card_state[j])'
  <2>0. CardOf(j)' = CardOf(j)
    BY <1>1 DEF CardOf
  <2>1. StaysLegal(CardOf(j), card_state'[j])
    <3>1. CASE j = i
      BY <1>2, <3>1
    <3>2. CASE j # i
      <4>1. pc'[j] = pc[j] /\ card_state'[j] = card_state[j]
        BY <1>1, <3>2
      <4> QED BY <1>2, <4>1 DEF LegalInv
    <3> QED BY <3>1, <3>2
  <2> QED BY <2>0, <2>1 DEF StaysLegal, Legal
<1>3. \A c \in ExistingCard : StaysLegal(c, cards[c])'
  BY DEF StaysLegal, Legal
<1> QED BY <1>2, <1>3 DEF LegalInv

LEMMA StepKeepsLegalInv == TypeInv /\ LegalInv /\ [Next]_vars => LegalInv'
<1> SUFFICES ASSUME TypeInv, LegalInv, [Next]_vars PROVE LegalInv'
  OBVIOUS
<1>0. TypeOK
  BY DEF TypeInv
<1>1. ASSUME NEW i \in Invocation, ReadCard(i) PROVE LegalInv'
  <2>1. CASE Refuse(i, 404) \/ Refuse(i, 403)
    BY <1>0, <2>1, RefuseIsQuiet, QuietKeepsLegalInv
  <2>2. CASE /\ CardOf(i) \in ExistingCard
             /\ card_state' = [card_state EXCEPT ![i] = cards[CardOf(i)]]
             /\ UNCHANGED tables
    <3>1. card_state'[i] = cards[CardOf(i)] /\ cards' = cards
      BY <1>0, <2>2 DEF TypeOK, tables
    <3>2. \A c \in ExistingCard : StaysLegal(c, cards'[c])
      BY <3>1 DEF LegalInv
    <3>3. StaysLegal(CardOf(i), card_state'[i])
      BY <2>2, <3>1 DEF LegalInv
    <3> QED BY <1>1, <3>2, <3>3, SnapshotKeepsLegalInv
  <2> QED BY <1>1, <2>1, <2>2 DEF ReadCard
<1>2. ASSUME NEW i \in Invocation, DecideAccrue(i) PROVE LegalInv'
  <2> DEFINE outcome == AccrueOutcome(Rules[CardOf(i)], card_state[i], BodyOf(i))
  <2>1. CASE Refuse(i, 429) \/ Refuse(i, 422)
    BY <1>0, <2>1, RefuseIsQuiet, QuietKeepsLegalInv
  <2>2. CASE /\ ~AccrueRefused(Rules[CardOf(i)], card_state[i], BodyOf(i))
             /\ card_state' = [card_state EXCEPT ![i] = outcome.state]
             /\ UNCHANGED tables
    <3>1. /\ Rules[CardOf(i)] \in ProgramRules /\ card_state[i] \in CardState
          /\ CardOf(i) \in ExistingCard
      BY <1>2, CardAssumption DEF TypeInv, TypeOK, HasCard, DecideAccrue
    <3>2. /\ outcome.state \in CardState
          /\ outcome.state.rewards_redeemed = card_state[i].rewards_redeemed
          /\ Price(Rules[CardOf(i)]) > 0
               => Counter(Rules[CardOf(i)], outcome.state) \in 0 .. Price(Rules[CardOf(i)]) - 1
          /\ Counter(Rules[CardOf(i)], card_state[i]) >= 0
               => outcome.state.rewards_available >= card_state[i].rewards_available
      BY <1>0, <2>2, <3>1, RequestFacts, AccrueFacts
    <3>3. StaysLegal(CardOf(i), card_state[i])
      BY <1>2 DEF LegalInv, DecideAccrue
    <3>4. Price(Rules[CardOf(i)]) = 0 => outcome.state.rewards_available
                                           = card_state[i].rewards_available
      <4>1. \A total \in Int : RollOver(0, total).earned = 0
        BY DEF RollOver
      <4>2. BodyOf(i).stamps \in Nat /\ BodyOf(i).amount \in Int
        BY <1>0, RequestFacts
      <4>3. Rules[CardOf(i)].mechanic = "stamps" \/ Rules[CardOf(i)].mechanic = "points"
        BY <2>2 DEF AccrueRefused
      <4>4. ASSUME Rules[CardOf(i)].mechanic = "stamps", Price(Rules[CardOf(i)]) = 0
            PROVE  outcome.state.rewards_available = card_state[i].rewards_available
        <5>1. Rules[CardOf(i)].stamps_for_reward = 0
          BY <4>4 DEF Price
        <5>2. card_state[i].stamps + BodyOf(i).stamps \in Int
              /\ card_state[i].rewards_available \in Int
          BY <3>1, <4>2 DEF CardState
        <5> QED BY <4>1, <4>4, <5>1, <5>2 DEF AccrueOutcome, AccrueStamps, Balance
      <4>5. ASSUME Rules[CardOf(i)].mechanic = "points", Price(Rules[CardOf(i)]) = 0
            PROVE  outcome.state.rewards_available = card_state[i].rewards_available
        <5>1. Rules[CardOf(i)].points_for_reward = 0
          BY <4>5 DEF Price
        <5>2. BodyOf(i).amount \in Nat /\ Rules[CardOf(i)].points_per_dollar \in Nat
          BY <2>2, <3>1, <4>2, <4>5 DEF AccrueRefused, ProgramRules
        <5>3. PointsGained(BodyOf(i).amount, Rules[CardOf(i)].points_per_dollar) \in Nat
          BY <5>2, PointsGainedNat
        <5>4. /\ card_state[i].points
                   + PointsGained(BodyOf(i).amount, Rules[CardOf(i)].points_per_dollar) \in Int
              /\ card_state[i].rewards_available \in Int
          BY <3>1, <5>3 DEF CardState
        <5> QED BY <4>1, <4>5, <5>1, <5>4 DEF AccrueOutcome, AccruePoints, Balance
      <4> QED BY <4>3, <4>4, <4>5
    <3>5. Price(Rules[CardOf(i)]) \in Nat
          /\ Counter(Rules[CardOf(i)], card_state[i]) \in Int
      BY <3>1, PriceAndCounter
    <3> HIDE DEF outcome
    <3>6. StaysLegal(CardOf(i), outcome.state)
      BY <3>1, <3>2, <3>3, <3>4, <3>5 DEF StaysLegal, Legal, CardState
    <3>7. card_state'[i] = outcome.state /\ cards' = cards
      BY <1>0, <2>2 DEF TypeOK, tables
    <3>8. \A c \in ExistingCard : StaysLegal(c, cards'[c])
      BY <3>7 DEF LegalInv
    <3> QED BY <1>2, <3>6, <3>7, <3>8, SnapshotKeepsLegalInv
  <2> QED BY <1>2, <2>1, <2>2 DEF DecideAccrue
<1>3. ASSUME NEW i \in Invocation, DecideRedeem(i) PROVE LegalInv'
  <2>1. CASE Refuse(i, 422) \/ Refuse(i, 409)
    BY <1>0, <2>1, RefuseIsQuiet, QuietKeepsLegalInv
  <2>2. CASE /\ ~RedeemRefused(card_state[i])
             /\ card_state' = [card_state EXCEPT ![i] = RedeemedState(card_state[i])]
             /\ UNCHANGED tables
    <3>1. /\ Rules[CardOf(i)] \in ProgramRules /\ card_state[i] \in CardState
          /\ CardOf(i) \in ExistingCard
      BY <1>3, CardAssumption DEF TypeInv, TypeOK, HasCard, DecideRedeem
    <3>2. /\ RedeemedState(card_state[i]).rewards_available >= 0
          /\ RedeemedState(card_state[i]).rewards_redeemed
               = card_state[i].rewards_redeemed + 1
          /\ Counter(Rules[CardOf(i)], RedeemedState(card_state[i]))
               = Counter(Rules[CardOf(i)], card_state[i])
      BY <2>2, <3>1, RedeemFacts
    <3>3. StaysLegal(CardOf(i), card_state[i])
      BY <1>3 DEF LegalInv, DecideRedeem
    <3>4. StaysLegal(CardOf(i), RedeemedState(card_state[i]))
      BY <3>1, <3>2, <3>3 DEF StaysLegal, Legal, CardState
    <3>5. card_state'[i] = RedeemedState(card_state[i]) /\ cards' = cards
      BY <1>0, <2>2 DEF TypeOK, tables
    <3>6. \A c \in ExistingCard : StaysLegal(c, cards'[c])
      BY <3>5 DEF LegalInv
    <3> QED BY <1>3, <3>4, <3>5, <3>6, SnapshotKeepsLegalInv
  <2> QED BY <1>3, <2>1, <2>2 DEF DecideRedeem
<1>4. ASSUME NEW i \in Invocation, UpdateCard(i) PROVE LegalInv'
  <2>1. CardOf(i) \in ExistingCard /\ pc[i] = "update_card"
    BY <1>4 DEF TypeInv, UpdateCard, HasCard
  <2>2. cards' = [cards EXCEPT ![CardOf(i)] =
                    UpdatedRow(cards[CardOf(i)], card_state[i])]
        /\ pc'[i] = "insert_transaction"
    BY <1>0, <1>4 DEF UpdateCard, TypeOK, Goto
  <2>3. StaysLegal(CardOf(i), card_state[i])
    BY <2>1 DEF LegalInv
  <2>4. cards[CardOf(i)] \in CardState /\ card_state[i] \in CardState
    BY <1>0, <2>1 DEF TypeOK
  <2>5. StaysLegal(CardOf(i), UpdatedRow(cards[CardOf(i)], card_state[i]))
    BY <2>3, <2>4, UpdatedRowFacts DEF StaysLegal, Legal, Counter
  <2>6. \A c \in ExistingCard : StaysLegal(c, cards'[c])
    BY <1>0, <2>1, <2>2, <2>5 DEF LegalInv, TypeOK
  <2> QED BY <1>4, <2>2, <2>6, SnapshotKeepsLegalInv
<1>5. CASE Tick \/ (\E c \in Seasonal : SwitchCampaign(c)) \/ UNCHANGED vars
  BY <1>0, <1>5, QuietKeepsLegalInv
  DEF Quiet, Tick, SwitchCampaign, vars, tables, environment, locals, history
<1> QED
  BY <1>0, <1>1, <1>2, <1>3, <1>4, <1>5, QuietSteps, QuietKeepsLegalInv DEF Next, Progress

\* A card issued without debt and with its counter below the price of a reward
\* keeps both, however its operations interleave or fail.
THEOREM LegalBalances == Spec => []BalanceStaysLegal
<1>1. Init => LegalInv
  BY DEF Init, LegalInv, StaysLegal
<1>2. LegalInv => BalanceStaysLegal
  BY DEF LegalInv, StaysLegal, BalanceStaysLegal
<1> QED BY InitTypeInv, StepKeepsTypeInv, <1>1, StepKeepsLegalInv, <1>2, PTL DEF Spec

-----------------------------------------------------------------------------
(* Answers are trustworthy.  A 200 is either the record or what was inserted  *)
(* as the record; records are unique and never change; and a record is only   *)
(* stored by an invocation that has written its card and its transaction.     *)

Logged(w) ==
  \E t \in transactions : t.id = w.inv /\ t.card = CardOf(w.inv) /\ t.delta = w.delta

Backed(r) ==
  \E w \in written :
    /\ KeyOf(w.inv) = r.key /\ BodyOf(w.inv) = r.hash
    /\ r.body = Response(w) /\ Logged(w)

RecordInv ==
  /\ \A r, s \in idempotency_records : r.key = s.key => r = s
  /\ \A r \in idempotency_records : Backed(r)
  /\ \A a \in answers : \E r \in idempotency_records :
       r.key = KeyOf(a.inv) /\ r.hash = BodyOf(a.inv) /\ r.body = a.body
  /\ \A i \in Invocation :
       pc[i] \in {"insert_transaction", "push_read", "push_put", "store_put"}
         => WriteOf(i) \in written
  /\ \A i \in Invocation :
       pc[i] \in {"push_read", "push_put", "store_put"} => Logged(WriteOf(i))

\* Writes and log entries are never taken back, so what is logged or backed stays so.
LEMMA LogGrows ==
  ASSUME req' = req, transactions \subseteq transactions', written \subseteq written'
  PROVE  /\ \A w : Logged(w) => Logged(w)'
         /\ \A r : Backed(r) => Backed(r)'
<1>1. ASSUME NEW w, Logged(w) PROVE Logged(w)'
  BY <1>1 DEF Logged, CardOf
<1>2. ASSUME NEW r, Backed(r) PROVE Backed(r)'
  <2>1. PICK w \in written : /\ KeyOf(w.inv) = r.key /\ BodyOf(w.inv) = r.hash
                             /\ r.body = Response(w) /\ Logged(w)
    BY <1>2 DEF Backed
  <2>2. /\ KeyOf(w.inv)' = KeyOf(w.inv) /\ BodyOf(w.inv)' = BodyOf(w.inv)
        /\ Response(w)' = Response(w)
    BY DEF KeyOf, BodyOf, Response, CardOf
  <2>3. w \in written' /\ (Logged(w))'
    BY <1>1, <2>1
  <2> QED BY <2>1, <2>2, <2>3 DEF Backed
<1> QED BY <1>1, <1>2

\* What is left to show of a step is about its new records, answers and labels.
Kept ==
  /\ \A r \in idempotency_records' \ idempotency_records :
       /\ Backed(r)'
       /\ \A s \in idempotency_records : s.key # r.key
  /\ \A r, s \in idempotency_records' \ idempotency_records : r = s
  /\ \A a \in answers' \ answers : \E r \in idempotency_records' :
       r.key = KeyOf(a.inv) /\ r.hash = BodyOf(a.inv) /\ r.body = a.body
  /\ \A i \in Invocation :
       pc'[i] \in {"insert_transaction", "push_read", "push_put", "store_put"}
         => /\ card_state'[i] = card_state[i] /\ delta'[i] = delta[i]
            /\ \/ WriteOf(i) \in written'
               \/ pc[i] \in {"insert_transaction", "push_read", "push_put", "store_put"}
  /\ \A i \in Invocation :
       pc'[i] \in {"push_read", "push_put", "store_put"}
         => \/ (Logged(WriteOf(i)))'
            \/ pc[i] \in {"push_read", "push_put", "store_put"}

LEMMA StepKeepsRecordInv == TypeInv /\ RecordInv /\ [Next]_vars => RecordInv'
<1> SUFFICES ASSUME TypeInv, RecordInv, [Next]_vars PROVE RecordInv'
  OBVIOUS
<1>0. TypeOK
  BY DEF TypeInv
<1>a. /\ req' = req
      /\ transactions \subseteq transactions'
      /\ written \subseteq written'
      /\ idempotency_records \subseteq idempotency_records'
  BY DEF Next, Progress, LookupKey, ReadCard, DecideAccrue, DecideRedeem, UpdateCard,
         InsertTransaction, PushRead, PushPut, PushFails, StoreRecord, Crash, Tick,
         SwitchCampaign, Refuse, vars, tables, environment, history
<1>b. /\ \A w : Logged(w) => Logged(w)'
      /\ \A r : Backed(r) => Backed(r)'
  BY <1>a, LogGrows
<1>c. ASSUME Kept PROVE RecordInv'
  <2>1. \A r, s \in idempotency_records' : r.key = s.key => r = s
    BY <1>c DEF Kept, RecordInv
  <2>2. \A r \in idempotency_records' : Backed(r)'
    BY <1>b, <1>c DEF Kept, RecordInv
  <2>3. \A a \in answers' : \E r \in idempotency_records' :
          r.key = KeyOf(a.inv)' /\ r.hash = BodyOf(a.inv)' /\ r.body = a.body
    BY <1>a, <1>c DEF Kept, RecordInv, KeyOf, BodyOf
  <2>4. \A i \in Invocation :
          pc'[i] \in {"insert_transaction", "push_read", "push_put", "store_put"}
            => WriteOf(i)' \in written' /\ WriteOf(i)' = WriteOf(i)
    BY <1>a, <1>c DEF Kept, RecordInv, WriteOf
  <2>5. ASSUME NEW i \in Invocation, pc'[i] \in {"push_read", "push_put", "store_put"}
        PROVE  (Logged(WriteOf(i)))'
    <3>1. CASE pc[i] \in {"push_read", "push_put", "store_put"}
      <4>1. Logged(WriteOf(i))
        BY <3>1 DEF RecordInv
      <4>2. WriteOf(i)' = WriteOf(i)
        BY <2>4, <2>5
      <4> QED BY <1>a, <4>1, <4>2 DEF Logged, CardOf
    <3>2. CASE (Logged(WriteOf(i)))'
      BY <3>2
    <3> QED BY <1>c, <2>5, <3>1, <3>2 DEF Kept
  <2> QED BY <2>1, <2>2, <2>3, <2>4, <2>5 DEF RecordInv
<1>d. ASSUME NEW i \in Invocation, NEW code, Refuse(i, code) PROVE Kept
  BY <1>0, <1>d DEF Kept, Refuse, Reply, Goto, TypeOK, tables, history
<1>1. ASSUME NEW i \in Invocation, LookupKey(i) PROVE Kept
  <2>1. /\ \A j \in Invocation \ {i} : /\ pc'[j] = pc[j]
                                       /\ card_state'[j] = card_state[j]
                                       /\ delta'[j] = delta[j]
        /\ pc'[i] \in {"get_card", "done"}
    BY <1>0, <1>1 DEF LookupKey, Reply, Goto, TypeOK
  <2>2. \A a \in answers' \ answers : \E r \in idempotency_records' :
          r.key = KeyOf(a.inv) /\ r.hash = BodyOf(a.inv) /\ r.body = a.body
    BY <1>1 DEF LookupKey, RecordsFor, tables
  <2>3. idempotency_records' = idempotency_records
    BY <1>1 DEF LookupKey, tables
  <2>4. \A j \in Invocation :
          pc'[j] \in {"insert_transaction", "push_read", "push_put", "store_put"}
            => pc'[j] = pc[j] /\ card_state'[j] = card_state[j] /\ delta'[j] = delta[j]
    <3> TAKE j \in Invocation
    <3> QED BY <2>1
  <2> QED BY <2>2, <2>3, <2>4 DEF Kept
<1>2. ASSUME NEW i \in Invocation, ReadCard(i) PROVE Kept
  BY <1>0, <1>2, <1>d, RequestFacts DEF Kept, ReadCard, Goto, TypeOK, tables, history
<1>3. ASSUME NEW i \in Invocation, DecideAccrue(i) PROVE Kept
  BY <1>0, <1>3, <1>d DEF Kept, DecideAccrue, Goto, TypeOK, tables, history
<1>4. ASSUME NEW i \in Invocation, DecideRedeem(i) PROVE Kept
  BY <1>0, <1>4, <1>d DEF Kept, DecideRedeem, Goto, TypeOK, tables, history
<1>5. ASSUME NEW i \in Invocation, UpdateCard(i) PROVE Kept
  <2>1. /\ pc'[i] = "insert_transaction" /\ pc[i] = "update_card"
        /\ \A j \in Invocation \ {i} : pc'[j] = pc[j]
    BY <1>0, <1>5 DEF UpdateCard, Goto, TypeOK
  <2>2. WriteOf(i) \in written'
    BY <1>5 DEF UpdateCard
  <2>3. UNCHANGED <<idempotency_records, answers, card_state, delta>>
    BY <1>5 DEF UpdateCard
  <2> QED BY <2>1, <2>2, <2>3 DEF Kept
<1>6. ASSUME NEW i \in Invocation, InsertTransaction(i) PROVE Kept
  <2>1. CASE Refuse(i, 500)
    BY <1>d, <2>1
  <2>2. CASE /\ transactions' = transactions \cup
                  {[id |-> i, card |-> CardOf(i), delta |-> delta[i], created_at |-> now]}
             /\ Goto(i, "push_read")
             /\ UNCHANGED <<cards, idempotency_records, pass, environment, card_state,
                            delta, push_state, status, history>>
    <3>0. PICK new : new = WriteOf(i)
      OBVIOUS
    <3>1. WriteOf(i)' = new /\ new.inv = i /\ new.delta = delta[i] /\ CardOf(i)' = CardOf(i)
      BY <2>2, <3>0 DEF WriteOf, CardOf, environment
    <3> DEFINE entry == [id |-> i, card |-> CardOf(i), delta |-> delta[i], created_at |-> now]
    <3>5. entry \in transactions'
      BY <2>2
    <3>6. entry.id = i /\ entry.card = CardOf(i) /\ entry.delta = delta[i]
      OBVIOUS
    <3> HIDE DEF entry
    <3>a. \E t \in transactions' : t.id = i /\ t.card = CardOf(i) /\ t.delta = delta[i]
      BY <3>5, <3>6
    <3>b. (Logged(new))'
      BY <3>1, <3>a DEF Logged, CardOf
    <3>2. (Logged(WriteOf(i)))'
      BY <3>1, <3>b DEF Logged
    <3>3. /\ \A j \in Invocation \ {i} : pc'[j] = pc[j]
          /\ pc[i] = "insert_transaction"
      BY <1>0, <1>6, <2>2 DEF TypeOK, Goto, InsertTransaction
    <3> QED BY <2>2, <3>2, <3>3 DEF Kept, history
  <2> QED BY <1>6, <2>1, <2>2 DEF InsertTransaction
<1>7. ASSUME NEW i \in Invocation, PushRead(i) \/ PushPut(i) \/ PushFails(i) PROVE Kept
  BY <1>0, <1>7 DEF Kept, PushRead, PushPut, PushFails, Goto, TypeOK, tables, history
<1>8. ASSUME NEW i \in Invocation, StoreRecord(i) PROVE Kept
  <2>1. CASE Refuse(i, 500)
    BY <1>d, <2>1
  <2>2. CASE /\ RecordsFor(KeyOf(i)) = {}
             /\ idempotency_records' = idempotency_records \cup
                  {[key |-> KeyOf(i), hash |-> BodyOf(i), body |-> Response(WriteOf(i))]}
             /\ answers' = answers \cup {[inv |-> i, body |-> Response(WriteOf(i))]}
             /\ Reply(i, 200)
             /\ UNCHANGED <<cards, transactions, pass, environment, written, credited,
                            redemptions>>
    <3>0. PICK new : new = [key |-> KeyOf(i), hash |-> BodyOf(i),
                           body |-> Response(WriteOf(i))]
      OBVIOUS
    <3>1. WriteOf(i) \in written /\ Logged(WriteOf(i)) /\ WriteOf(i).inv = i
      BY <1>8 DEF StoreRecord, RecordInv, WriteOf
    <3>2. Backed(new)
      BY <3>0, <3>1 DEF Backed
    <3>3. \A s \in idempotency_records : s.key # new.key
      BY <2>2, <3>0 DEF RecordsFor
    <3>4. Backed(new)'
      BY <1>b, <3>2
    <3>5. \A j \in Invocation \ {i} : pc'[j] = pc[j] /\ card_state'[j] = card_state[j]
                                      /\ delta'[j] = delta[j]
      BY <1>0, <2>2 DEF TypeOK, Reply, Goto
    <3>6. pc'[i] = "done"
      BY <1>0, <2>2 DEF TypeOK, Reply, Goto
    <3>7. \A r \in idempotency_records' \ idempotency_records : r = new
      BY <2>2, <3>0
    <3>8. \A a \in answers' \ answers : \E r \in idempotency_records' :
            r.key = KeyOf(a.inv) /\ r.hash = BodyOf(a.inv) /\ r.body = a.body
      BY <2>2, <3>0
    <3>9. written' = written /\ transactions' = transactions
      BY <2>2
    <3> QED BY <3>3, <3>4, <3>5, <3>6, <3>7, <3>8, <3>9 DEF Kept
  <2> QED BY <1>8, <2>1, <2>2 DEF StoreRecord
<1>9. ASSUME Tick \/ (\E c \in Seasonal : SwitchCampaign(c)) \/ UNCHANGED vars PROVE Kept
  BY <1>9 DEF Kept, Tick, SwitchCampaign, vars, tables, locals, history
<1>10. ASSUME NEW i \in Invocation, LookupKey(i) \/ Progress(i) \/ Crash(i) PROVE Kept
  BY <1>d, <1>1, <1>2, <1>3, <1>4, <1>5, <1>6, <1>7, <1>8, <1>10 DEF Progress, Crash
<1>11. Kept
  BY <1>9, <1>10 DEF Next
<1> QED BY <1>c, <1>11

LEMMA InitRecordInv == Init => RecordInv
  BY DEF Init, RecordInv

\* All 200 replies to one Idempotency-Key are identical, in every behaviour.
THEOREM AnswersAgree == Spec => []OneAnswerPerKey
<1>1. RecordInv => OneAnswerPerKey
  BY DEF RecordInv, OneAnswerPerKey
<1> QED
  BY InitTypeInv, StepKeepsTypeInv, InitRecordInv, StepKeepsRecordInv, <1>1, PTL DEF Spec

\* Whoever is told 200 can rely on an applied and logged operation behind it.
THEOREM AnswersAreApplied == Spec => []AnsweredMeansApplied
<1>1. RecordInv => AnsweredMeansApplied
  BY DEF RecordInv, Backed, Logged, AnsweredMeansApplied
<1> QED
  BY InitTypeInv, StepKeepsTypeInv, InitRecordInv, StepKeepsRecordInv, <1>1, PTL DEF Spec
=============================================================================
