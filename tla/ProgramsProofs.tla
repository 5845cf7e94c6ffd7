--------------------------- MODULE ProgramsProofs ---------------------------
(***************************************************************************)
(* What holds of a campaign for every number of cards, days and concurrent    *)
(* requests: its offer stands, the discount is only applied while it is open,  *)
(* the billing view agrees, and no edit is lost.                              *)
(***************************************************************************)
EXTENDS Programs, RewardLogicProofs

PatchLabel == {"update", "list_cards", "sync", "push"}
TillLabel == {"check", "commit", "push_card", "push_program", "put"}

OwnerPatch(i) == req[i].kind = "patch" /\ req[i].caller = "owner" /\ req[i].found

TypeInv == TypeOK /\ req \in [Invocation -> Request \cup {<<>>}]

\* A seasonal row has a valid offer, any other no opening day.
GoodRow(p) == /\ IsSeasonal(p) => ValidSeasonal(p)
              /\ ~IsSeasonal(p) => p.valid_from = NoDate

\* What the handler checked before its UPDATE is of a good row that had no
\* percentage the program has lost since.
Checked(i) ==
  /\ GoodRow(row[i]) /\ ~Refused(row[i], PatchOf(row[i], req[i].body))
  /\ row[i].discount_percent # 0 => program.discount_percent # 0

\* What the till is about to write was accepted on the balance it read.
Accepted(i) ==
  LET balance == seen[i][req[i].card]
  IN /\ req[i].kind = "accrue" => ~AccrueRefused(row[i], balance, req[i].add)
     /\ req[i].kind = "redeem" => ~RedeemRefused(balance)

UsesOffer(i) ==
  /\ pc[i] # "idle" /\ IsSeasonal(program) /\ req[i].kind = "redeem"
  /\ pc[i] \in TillLabel \ {"check"} \/ status[i] = 200

Local(i) ==
  /\ pc[i] # "idle" => req[i] \in Request
  /\ status[i] # 0 => pc[i] = "done"
  /\ pc[i] \in PatchLabel => OwnerPatch(i)
  /\ pc[i] \in TillLabel => Operates(i)
  /\ row[i].type = program.type
  /\ pc[i] = "update" => Checked(i)
  /\ pc[i] = "commit" => Accepted(i)
  /\ UsesOffer(i) => i \in opened

\* i has written, or may have written before it was stopped, column c.
Sends(i, c) == /\ pc[i] # "idle" /\ OwnerPatch(i)
               /\ c \in DOMAIN PatchOf(program, req[i].body)
Pushing(i) == pc[i] \in {"list_cards", "sync", "push"}
Wrote(i, c) == Sends(i, c) /\ (Pushing(i) \/ (pc[i] = "done" /\ status[i] = 200))
MayHaveWritten(i, c) ==
  Sends(i, c) /\ (Pushing(i) \/ (pc[i] = "done" /\ status[i] \in {200, 504}))

EditInv ==
  \A c \in Column :
    (\E i \in Invocation : Wrote(i, c))
      => \E i \in Invocation : MayHaveWritten(i, c) /\ program[c] = Stored(c, req[i].body[c])

IInv == TypeInv /\ GoodRow(program) /\ (\A i \in Invocation : Local(i)) /\ EditInv

-----------------------------------------------------------------------------
(* Lemmas about the operators.                                                *)

\* What the table keeps of a number is one, and columns have a largest number.
LEMMA StoredNat ==
  ASSUME NEW c, NEW value \in Nat
  PROVE  Stored(c, value) \in Nat
<1>1. value + 5 \in Nat
  OBVIOUS
<1> QED BY <1>1, QuotientNat DEF Stored

LEMMA LargestNat ==
  ASSUME NEW c
  PROVE  Largest(c) \in Nat
  BY BoundAssumption DEF Largest

\* A seasonal row has the columns ValidSeasonal reads, and POST makes a good one.
LEMMA CreatedRowFacts ==
  ASSUME NEW body \in CreateBody, CreateAccepted(body)
  PROVE  CreatedRow(body) \in Row /\ GoodRow(CreatedRow(body))
<1>1. body \in ProgramCreate
  BY CreateAssumption
<1>2. DOMAIN body \cup {"active"}
        = {"type", "mechanic", "active", "stamps_for_reward", "points_for_reward",
           "points_per_dollar", "reward", "discount_percent", "valid_from", "valid_until",
           "color"}
  BY <1>1 DEF ProgramCreate
<1>3. CreatedRow(body) \in Row
  <2> DEFINE made == CreatedRow(body)
  <2>1. /\ made = [column \in DOMAIN made |-> made[column]]
        /\ DOMAIN made = DOMAIN body \cup {"active"}
    BY DEF CreatedRow
  <2>2. /\ made.type = body.type /\ made.active = TRUE /\ made.color = body.color
        /\ made.stamps_for_reward = body.stamps_for_reward
        /\ made.points_for_reward = body.points_for_reward
        /\ made.points_per_dollar = Stored("points_per_dollar", body.points_per_dollar)
        /\ made.reward = body.reward
    BY <1>2 DEF CreatedRow, Stored
  <2>3. /\ made.mechanic \in {"none", body.mechanic}
        /\ made.discount_percent \in {0, body.discount_percent}
        /\ made.valid_from \in {NoDate, body.valid_from}
        /\ made.valid_until \in {NoDate, body.valid_until}
    BY <1>2 DEF CreatedRow, Stored
  <2> HIDE DEF made
  <2>4. /\ made.type \in {"loyalty_stamps", "loyalty_points", "membership_pass",
                         "seasonal_discount"}
        /\ made.active \in BOOLEAN /\ made.reward \in Reward /\ made.color \in STRING
    BY <1>1, <2>2 DEF ProgramCreate
  <2>8. /\ made.stamps_for_reward \in 0..MaxInteger
        /\ made.points_for_reward \in 0..MaxInteger /\ made.points_per_dollar \in 0..MaxRate
    <3>1. \A c \in NumberColumn : Stored(c, body[c]) \in 0..Largest(c)
      <4> SUFFICES ASSUME NEW c \in NumberColumn PROVE Stored(c, body[c]) \in 0..Largest(c)
        OBVIOUS
      <4>1. body[c] \in Nat /\ c \in DOMAIN body
        BY <1>1 DEF ProgramCreate, NumberColumn
      <4>2. ~(Stored(c, body[c]) > Largest(c))
        BY <4>1 DEF CreateAccepted, Overflows
      <4> QED BY <4>1, <4>2, StoredNat, LargestNat
    <3>2. /\ Stored("stamps_for_reward", body.stamps_for_reward) \in 0..Largest("stamps_for_reward")
          /\ Stored("points_for_reward", body.points_for_reward) \in 0..Largest("points_for_reward")
          /\ Stored("points_per_dollar", body.points_per_dollar) \in 0..Largest("points_per_dollar")
      BY <3>1 DEF NumberColumn
    <3> QED BY <2>2, <3>2 DEF Stored, Largest
  <2>5. made.mechanic \in Mechanic
    BY <1>1, <2>3 DEF ProgramCreate, Mechanic
  <2>6. made.discount_percent \in 0..100
    <3>1. body.discount_percent \in 0..100
      BY <1>1 DEF ProgramCreate
    <3> QED BY <2>3, <3>1
  <2>7. made.valid_from \in Day \cup {NoDate} /\ made.valid_until \in Day \cup {NoDate}
    BY <1>1, <2>3 DEF ProgramCreate
  <2> QED BY <1>2, <2>1, <2>4, <2>5, <2>6, <2>7, <2>8 DEF Row, made
<1>4. GoodRow(CreatedRow(body))
  <2> DEFINE made == CreatedRow(body)
  <2>1. made.type = body.type /\ made.reward = body.reward
    BY <1>2 DEF CreatedRow, Stored
  <2>2. CASE body.type = "seasonal_discount"
    <3>1. /\ made.discount_percent = body.discount_percent
          /\ made.valid_from = body.valid_from /\ made.valid_until = body.valid_until
      BY <1>2, <2>2 DEF CreatedRow, Stored
    <3>2. ValidSeasonal(body)
      BY <2>2 DEF CreateAccepted
    <3> HIDE DEF made
    <3>3. ValidSeasonal(made) /\ IsSeasonal(made)
      BY <2>1, <2>2, <3>1, <3>2 DEF ValidSeasonal, BlankText, IsSeasonal
    <3> QED BY <3>3 DEF GoodRow, made
  <2>3. CASE body.type # "seasonal_discount"
    <3>1. made.valid_from = NoDate
      BY <1>2, <2>3 DEF CreatedRow, Stored
    <3> QED BY <2>1, <2>3, <3>1 DEF GoodRow, IsSeasonal
  <2> QED BY <2>2, <2>3
<1> QED BY <1>3, <1>4

\* The columns of a PATCH are columns of the row, with values the row can hold.
LEMMA PatchFacts ==
  ASSUME NEW r \in Request, NEW p \in Row
  PROVE  LET patch == PatchOf(p, r.body) IN
         /\ DOMAIN patch \subseteq Column
         /\ \A c \in DOMAIN patch : patch[c] = r.body[c] /\ patch[c] \in ProgramUpdate[c]
         /\ ~IsSeasonal(p) => DOMAIN patch \cap SeasonalColumn = {}
  BY RequestAssumption DEF PatchOf

\* Which columns a PATCH sets depends on the type of the row alone.
LEMMA PatchOfType ==
  ASSUME NEW r \in Request, NEW p, NEW q, p.type = q.type
  PROVE  PatchOf(p, r.body) = PatchOf(q, r.body)
  BY DEF PatchOf, IsSeasonal

\* An UPDATE keeps the type of the program, never takes a percentage away, and
\* keeps every column within its type unless a number overflows.
LEMMA WriteFacts ==
  ASSUME NEW p \in Row, NEW q \in Row, NEW r \in Request
  PROVE  LET patch == PatchOf(q, r.body)
             after == WritePatch(p, q, patch)
         IN /\ after.type = p.type
            /\ p.discount_percent # 0 => after.discount_percent # 0
            /\ ~Overflows(patch) => after \in Row
<1> DEFINE patch == PatchOf(q, r.body)
           after == WritePatch(p, q, patch)
<1>1. /\ DOMAIN patch \subseteq Column
      /\ \A c \in DOMAIN patch : patch[c] \in ProgramUpdate[c]
  BY PatchFacts
<1> HIDE DEF patch
<1>2. DOMAIN p = {"type", "mechanic", "active", "stamps_for_reward", "points_for_reward",
                  "points_per_dollar", "reward", "discount_percent", "valid_from",
                  "valid_until", "color"}
  BY DEF Row
<1>3. "type" \notin DOMAIN patch /\ "mechanic" \notin DOMAIN patch
  BY <1>1 DEF Column, Visible, SeasonalColumn
<1>4. /\ "active" \in DOMAIN patch => patch["active"] \in BOOLEAN
      /\ "color" \in DOMAIN patch => patch["color"] \in STRING
      /\ "reward" \in DOMAIN patch => patch["reward"] \in Reward
      /\ "discount_percent" \in DOMAIN patch => patch["discount_percent"] \in 1..100
      /\ "valid_from" \in DOMAIN patch => patch["valid_from"] \in Day
      /\ "valid_until" \in DOMAIN patch => patch["valid_until"] \in Day
  BY <1>1 DEF ProgramUpdate, Column, Visible, SeasonalColumn
<1>5. \A c \in NumberColumn \cap DOMAIN patch : patch[c] \in Nat
  BY <1>1 DEF ProgramUpdate, Column, Visible, SeasonalColumn, NumberColumn
<1>6. after = [c \in DOMAIN p |-> IF c \in DOMAIN patch THEN Stored(c, patch[c]) ELSE p[c]]
  BY DEF WritePatch, Merged, StoredValues
<1> HIDE DEF after
<1>7. /\ after.type = p.type /\ after.mechanic = p.mechanic
      /\ after.active \in BOOLEAN /\ after.color \in STRING /\ after.reward \in Reward
      /\ after.discount_percent \in 0..100
      /\ p.discount_percent # 0 => after.discount_percent # 0
      /\ after.valid_from \in Day \cup {NoDate} /\ after.valid_until \in Day \cup {NoDate}
  BY <1>2, <1>3, <1>4, <1>6 DEF Row, Stored
<1>8. ASSUME ~Overflows(patch), NEW c \in NumberColumn PROVE after[c] \in 0..Largest(c)
  <2>1. c \in DOMAIN p /\ p[c] \in 0..Largest(c)
    BY DEF Row, NumberColumn, Largest
  <2>2. CASE c \in DOMAIN patch
    <3>1. after[c] = Stored(c, patch[c]) /\ ~(Stored(c, patch[c]) > Largest(c))
      BY <1>6, <1>8, <2>1, <2>2 DEF Overflows
    <3>2. Stored(c, patch[c]) \in Nat /\ Largest(c) \in Nat
      BY <1>5, <2>2, StoredNat, LargestNat
    <3> QED BY <3>1, <3>2
  <2>3. CASE c \notin DOMAIN patch
    BY <1>6, <2>1, <2>3
  <2> QED BY <2>2, <2>3
<1>9. ASSUME ~Overflows(patch) PROVE after \in Row
  <2>1. /\ after.stamps_for_reward \in 0..MaxInteger
        /\ after.points_for_reward \in 0..MaxInteger /\ after.points_per_dollar \in 0..MaxRate
    BY <1>8, <1>9 DEF NumberColumn, Largest
  <2>2. after.type \in {"loyalty_stamps", "loyalty_points", "membership_pass",
                        "seasonal_discount"} /\ after.mechanic \in Mechanic
    BY <1>7 DEF Row
  <2> QED BY <1>2, <1>6, <1>7, <2>1, <2>2 DEF Row
<1> QED BY <1>7, <1>9 DEF patch, after

\* The columns of an offer after an UPDATE, and in the row the handler checked.
LEMMA OfferColumns ==
  ASSUME NEW p \in Row, NEW q \in Row, NEW patch
  PROVE  \A c \in {"reward", "discount_percent", "valid_from", "valid_until"} :
           /\ WritePatch(p, q, patch)[c] = IF c \in DOMAIN patch THEN patch[c] ELSE p[c]
           /\ Merged(q, patch)[c] = IF c \in DOMAIN patch THEN patch[c] ELSE q[c]
<1>1. {"reward", "discount_percent", "valid_from", "valid_until"} \subseteq DOMAIN p \cap DOMAIN q
  BY DEF Row
<1> QED BY <1>1 DEF WritePatch, Merged, StoredValues, Stored

\* A seasonal campaign keeps an offer through a PATCH that was checked against a row
\* that had no percentage it has lost since, whatever was written in between.
LEMMA OfferKept ==
  ASSUME NEW p \in Row, NEW q \in Row, NEW r \in Request, IsSeasonal(p), p.type = q.type,
         GoodRow(p), ~Refused(q, PatchOf(q, r.body)),
         q.discount_percent # 0 => p.discount_percent # 0
  PROVE  LET after == WritePatch(p, q, PatchOf(q, r.body))
         IN after.discount_percent # 0 \/ ~BlankText(after.reward)
<1> DEFINE patch == PatchOf(q, r.body)
           after == WritePatch(p, q, patch)
           valid == Merged(q, patch)
<1>1. /\ after.type = p.type
      /\ p.discount_percent # 0 => after.discount_percent # 0
  BY WriteFacts
<1>2. "discount_percent" \in DOMAIN patch => patch["discount_percent"] \in 1..100
  BY PatchFacts DEF ProgramUpdate, Column, Visible, SeasonalColumn
<1> HIDE DEF patch
<1>3. \A c \in {"reward", "discount_percent", "valid_from", "valid_until"} :
        /\ after[c] = IF c \in DOMAIN patch THEN patch[c] ELSE p[c]
        /\ valid[c] = IF c \in DOMAIN patch THEN patch[c] ELSE q[c]
  BY OfferColumns
<1> HIDE DEF after, valid
<1>4. CASE "discount_percent" \in DOMAIN patch
  BY <1>2, <1>3, <1>4 DEF after, patch
<1>5. CASE "discount_percent" \notin DOMAIN patch /\ "reward" \in DOMAIN patch
  <2>1. ValidSeasonal(valid)
    BY <1>5 DEF Refused, IsSeasonal, patch, valid
  <2>2. valid.discount_percent = q.discount_percent /\ valid.reward = after.reward
    BY <1>3, <1>5
  <2>3. after.discount_percent # 0 \/ ~BlankText(after.reward)
    BY <1>1, <2>1, <2>2 DEF ValidSeasonal
  <2> QED BY <2>3 DEF after, patch
<1>6. CASE "discount_percent" \notin DOMAIN patch /\ "reward" \notin DOMAIN patch
  <2>1. after.discount_percent = p.discount_percent /\ after.reward = p.reward
    BY <1>3, <1>6
  <2>2. p.discount_percent # 0 \/ ~BlankText(p.reward)
    BY DEF GoodRow, ValidSeasonal
  <2>3. after.discount_percent # 0 \/ ~BlankText(after.reward)
    BY <2>1, <2>2
  <2> QED BY <2>3 DEF after, patch
<1> QED BY <1>4, <1>5, <1>6

\* A PATCH of a program that is no campaign leaves it without an opening day.
LEMMA NoCampaignMade ==
  ASSUME NEW p \in Row, NEW q \in Row, NEW r \in Request, ~IsSeasonal(p), p.type = q.type,
         GoodRow(p)
  PROVE  LET after == WritePatch(p, q, PatchOf(q, r.body))
         IN ~IsSeasonal(after) /\ after.valid_from = NoDate
<1> DEFINE patch == PatchOf(q, r.body)
           after == WritePatch(p, q, patch)
<1>1. after.type = p.type
  BY WriteFacts
<1>2. DOMAIN patch \cap SeasonalColumn = {}
  BY PatchFacts DEF IsSeasonal
<1> HIDE DEF patch
<1>3. after.valid_from = p.valid_from
  BY <1>2, OfferColumns DEF SeasonalColumn
<1> HIDE DEF after
<1>4. ~IsSeasonal(after) /\ after.valid_from = NoDate
  BY <1>1, <1>3 DEF IsSeasonal, GoodRow
<1> QED BY <1>4 DEF after, patch

\* A PATCH that was checked against a good row leaves a good row behind, whatever
\* other PATCHes were written in between, if the table takes it.
LEMMA UpdateKeepsGood ==
  ASSUME NEW p \in Row, NEW q \in Row, NEW r \in Request, p.type = q.type,
         GoodRow(p), ~Refused(q, PatchOf(q, r.body)),
         q.discount_percent # 0 => p.discount_percent # 0,
         TableTakes(PatchOf(q, r.body), WritePatch(p, q, PatchOf(q, r.body)))
  PROVE  GoodRow(WritePatch(p, q, PatchOf(q, r.body)))
<1> DEFINE after == WritePatch(p, q, PatchOf(q, r.body))
<1>1. after.type = p.type
  BY WriteFacts
<1>2. SeasonalShapeCheck(after) /\ ValidRangeCheck(after)
  BY DEF TableTakes
<1>3. CASE IsSeasonal(p)
  <2>1. after.discount_percent # 0 \/ ~BlankText(after.reward)
    BY <1>3, OfferKept
  <2> HIDE DEF after
  <2>2. IsSeasonal(after) /\ ValidSeasonal(after)
    BY <1>1, <1>2, <1>3, <2>1 DEF SeasonalShapeCheck, ValidRangeCheck, ValidSeasonal, IsSeasonal
  <2> QED BY <2>2 DEF GoodRow, after
<1>4. CASE ~IsSeasonal(p)
  BY <1>4, NoCampaignMade DEF GoodRow
<1> QED BY <1>3, <1>4

\* The table's checks pass for every PATCH that was checked against a good row with
\* the dates the program still has.
LEMMA CheckedIsTaken ==
  ASSUME NEW p \in Row, NEW q \in Row, NEW r \in Request, p.type = q.type,
         GoodRow(p), GoodRow(q), ~Refused(q, PatchOf(q, r.body)),
         q.discount_percent # 0 => p.discount_percent # 0,
         p.valid_from = q.valid_from, p.valid_until = q.valid_until
  PROVE  LET after == WritePatch(p, q, PatchOf(q, r.body))
         IN SeasonalShapeCheck(after) /\ ValidRangeCheck(after)
<1> DEFINE patch == PatchOf(q, r.body)
           after == WritePatch(p, q, patch)
           valid == Merged(q, patch)
<1>1. after.type = p.type
  BY WriteFacts
<1>2. CASE IsSeasonal(p)
  <2>1. after.discount_percent # 0 \/ ~BlankText(after.reward)
    BY <1>2, OfferKept
  <2>2. \A c \in {"valid_from", "valid_until"} : after[c] = valid[c]
    <3> HIDE DEF patch
    <3> QED BY OfferColumns
  <2>3. /\ after.valid_from # NoDate /\ after.valid_until # NoDate
        /\ after.valid_until >= after.valid_from
    <3>1. CASE DOMAIN patch \cap (SeasonalColumn \cup {"reward"}) # {}
      <4>1. ValidSeasonal(valid)
        BY <1>2, <3>1 DEF Refused, IsSeasonal
      <4> HIDE DEF after, valid
      <4> QED BY <2>2, <4>1 DEF ValidSeasonal
    <3>2. CASE DOMAIN patch \cap (SeasonalColumn \cup {"reward"}) = {}
      <4> HIDE DEF patch
      <4>1. after.valid_from = p.valid_from /\ after.valid_until = p.valid_until
        BY <3>2, OfferColumns DEF SeasonalColumn
      <4>2. ValidSeasonal(p)
        BY <1>2 DEF GoodRow
      <4> HIDE DEF after
      <4> QED BY <4>1, <4>2 DEF ValidSeasonal
    <3> QED BY <3>1, <3>2
  <2> HIDE DEF after
  <2>4. SeasonalShapeCheck(after) /\ ValidRangeCheck(after)
    BY <2>1, <2>3 DEF SeasonalShapeCheck, ValidRangeCheck, BlankText
  <2> QED BY <2>4 DEF after
<1>3. CASE ~IsSeasonal(p)
  <2>1. ~IsSeasonal(after) /\ after.valid_from = NoDate
    BY <1>3, NoCampaignMade
  <2> HIDE DEF after
  <2>2. SeasonalShapeCheck(after) /\ ValidRangeCheck(after)
    BY <2>1 DEF SeasonalShapeCheck, ValidRangeCheck
  <2> QED BY <2>2 DEF after
<1> QED BY <1>2, <1>3

\* An accepted accrual or redemption leaves no column of the card negative.
LEMMA CommittedRow ==
  ASSUME NEW rules \in Row, NEW balance \in CardRow, NEW r \in Request
  PROVE  /\ ~AccrueRefused(rules, balance, r.add)
              => AccrueOutcome(rules, balance, r.add).state \in CardRow
         /\ ~RedeemRefused(balance) => RedeemedState(balance) \in CardRow
<1>1. r.add.stamps \in Nat /\ r.add.amount \in Nat \cup {-1}
  BY RequestAssumption
<1>2. ASSUME ~AccrueRefused(rules, balance, r.add)
      PROVE  AccrueOutcome(rules, balance, r.add).state \in CardRow
  <2>1. CASE rules.mechanic = "stamps"
    <3> DEFINE rolled == RollOver(rules.stamps_for_reward, balance.stamps + r.add.stamps)
    <3>1. /\ rules.stamps_for_reward \in Nat
          /\ balance.stamps + r.add.stamps \in Nat
      BY <1>1 DEF Row, CardRow
    <3>2. rolled.remaining \in Nat /\ rolled.earned \in Nat
      <4>1. CASE rules.stamps_for_reward = 0
        BY <3>1, <4>1 DEF RollOver
      <4>2. CASE rules.stamps_for_reward > 0
        BY <3>1, <4>2, RollOverFacts
      <4> QED BY <3>1, <4>1, <4>2
    <3> HIDE DEF rolled
    <3>3. AccrueOutcome(rules, balance, r.add).state
            = Balance(rolled.remaining, balance.points,
                      balance.rewards_available + rolled.earned,
                      balance.rewards_redeemed, balance.active)
      BY <2>1 DEF AccrueOutcome, AccrueStamps, rolled
    <3> QED BY <3>2, <3>3 DEF Balance, CardRow
  <2>2. CASE rules.mechanic = "points"
    <3> DEFINE gained == PointsGained(r.add.amount, rules.points_per_dollar)
               rolled == RollOver(rules.points_for_reward, balance.points + gained)
    <3>0. gained \in Nat
      <4>1. r.add.amount \in Nat /\ rules.points_per_dollar \in Nat
        BY <1>1, <1>2, <2>2 DEF AccrueRefused, Row
      <4> QED BY <4>1, PointsGainedNat
    <3> HIDE DEF gained
    <3>1. rules.points_for_reward \in Nat /\ balance.points + gained \in Nat
      BY <3>0 DEF Row, CardRow
    <3>2. rolled.remaining \in Nat /\ rolled.earned \in Nat
      <4>1. CASE rules.points_for_reward = 0
        BY <3>1, <4>1 DEF RollOver
      <4>2. CASE rules.points_for_reward > 0
        BY <3>1, <4>2, RollOverFacts
      <4> QED BY <3>1, <4>1, <4>2
    <3> HIDE DEF rolled
    <3>3. AccrueOutcome(rules, balance, r.add).state
            = Balance(balance.stamps, rolled.remaining,
                      balance.rewards_available + rolled.earned,
                      balance.rewards_redeemed, balance.active)
      BY <2>2 DEF AccrueOutcome, AccruePoints, rolled, gained
    <3> QED BY <3>2, <3>3 DEF Balance, CardRow
  <2> QED BY <1>2, <2>1, <2>2 DEF AccrueRefused
<1>3. ASSUME ~RedeemRefused(balance) PROVE RedeemedState(balance) \in CardRow
  BY <1>3 DEF RedeemRefused, RedeemedState, Balance, CardRow
<1> QED BY <1>2, <1>3

-----------------------------------------------------------------------------
(* The types.                                                                 *)

\* How every step notes the requests that run while the campaign is active.
Opening ==
  opened' = opened \cup {i \in Invocation : /\ pc'[i] \notin {"idle", "done"}
                                            /\ CampaignStatus(program', today') = "active"}

\* PutPass changes the passes and excuses only.
LEMMA PutPassTypes ==
  ASSUME TypeInv, NEW i \in Invocation, NEW c \in Card, PutPass(i, c)
  PROVE  DOMAIN pass' = Card /\ excused' \subseteq Card \cup {Template}
  BY DEF TypeInv, TypeOK, PutPass

Code == {0, 200, 403, 404, 409, 422, 500, 504}

\* What a handler may leave in its own place of a local variable.
LEMMA LocalTypes ==
  ASSUME TypeInv
  PROVE  /\ pc \in [Invocation -> Label] /\ status \in [Invocation -> Code]
         /\ row \in [Invocation -> Row] /\ seen \in [Invocation -> [Card -> CardRow]]
         /\ cards \in [Card -> CardRow] /\ program \in Row
  BY DEF TypeInv, TypeOK, Code

LEMMA TypeStep ==
  ASSUME IInv, NEW i \in Invocation, Step(i), Opening
  PROVE  TypeInv'
<1> USE DEF Goto, Answer, Label, wallet
<1>0. TypeInv /\ Local(i)
  BY DEF IInv
<1>1. opened' \subseteq Invocation
  BY <1>0 DEF TypeInv, TypeOK, Code, Opening
<1>2. CASE Arrive(i)
  BY <1>0, <1>1, <1>2 DEF Arrive, TypeInv, TypeOK, Code
<1>3. CASE PatchRead(i)
  <2>1. /\ row' \in {row, [row EXCEPT ![i] = program]}
        /\ pc' \in {[pc EXCEPT ![i] = "done"], [pc EXCEPT ![i] = "update"]}
        /\ \/ status' = status \/ status' = [status EXCEPT ![i] = 200]
           \/ status' = [status EXCEPT ![i] = 403] \/ status' = [status EXCEPT ![i] = 404]
           \/ status' = [status EXCEPT ![i] = 422]
    BY <1>3 DEF PatchRead
  <2>2. /\ pc' \in [Invocation -> Label] /\ row' \in [Invocation -> Row]
        /\ status' \in [Invocation -> Code]
    <3>1. /\ pc \in [Invocation -> Label] /\ status \in [Invocation -> Code]
          /\ row \in [Invocation -> Row] /\ program \in Row /\ cards \in [Card -> CardRow]
      BY <1>0, LocalTypes
    <3>2. pc' \in [Invocation -> Label]
      BY <2>1, <3>1
    <3>3. row' \in [Invocation -> Row]
      BY <2>1, <3>1
    <3>4. status' \in [Invocation -> Code]
      BY <2>1, <3>1 DEF Code
    <3> QED BY <3>2, <3>3, <3>4
  <2> QED BY <1>0, <1>1, <1>3, <2>2 DEF PatchRead, TypeInv, TypeOK, Code
<1>4. CASE UpdateProgram(i)
  <2>1. req[i] \in Request /\ row[i] \in Row /\ program \in Row
    BY <1>0, <1>4 DEF Local, TypeInv, TypeOK, UpdateProgram
  <2>2. LET patch == PatchOf(row[i], req[i].body)
            after == WritePatch(program, row[i], patch)
        IN TableTakes(patch, after) => after \in Row
    BY <2>1, WriteFacts DEF TableTakes
  <2>3. /\ program' \in Row /\ row' \in [Invocation -> Row]
        /\ pc' \in [Invocation -> Label]
        /\ status' \in [Invocation -> Code]
        /\ excused' \subseteq Card \cup {Template}
    <3> DEFINE patch == PatchOf(row[i], req[i].body)
               after == WritePatch(program, row[i], patch)
    <3>1. /\ \/ program' = program /\ row' = row
             \/ TableTakes(patch, after) /\ program' = after /\ row' = [row EXCEPT ![i] = after]
          /\ pc' \in {[pc EXCEPT ![i] = "done"], [pc EXCEPT ![i] = "list_cards"]}
          /\ \/ status' = status \/ status' = [status EXCEPT ![i] = 200]
             \/ status' = [status EXCEPT ![i] = 500]
          /\ excused' \in {excused, excused \cup Card \cup {Template}}
      BY <1>4 DEF UpdateProgram
    <3>2. TableTakes(patch, after) => after \in Row
      BY <2>2
    <3> HIDE DEF after, patch
    <3>3. excused \subseteq Card \cup {Template}
      BY <1>0 DEF TypeInv, TypeOK, Code
    <3>4. /\ pc \in [Invocation -> Label] /\ status \in [Invocation -> Code]
          /\ row \in [Invocation -> Row] /\ program \in Row
      BY <1>0, LocalTypes
    <3>5. pc' \in [Invocation -> Label]
      BY <3>1, <3>4
    <3>6. status' \in [Invocation -> Code]
      BY <3>1, <3>4 DEF Code
    <3>7. program' \in Row /\ row' \in [Invocation -> Row]
      BY <3>1, <3>2, <3>4
    <3>8. excused' \subseteq Card \cup {Template}
      BY <3>1, <3>3
    <3> QED BY <3>5, <3>6, <3>7, <3>8
  <2> QED BY <1>0, <1>1, <1>4, <2>3 DEF UpdateProgram, TypeInv, TypeOK, Code
<1>5. CASE ListCards(i)
  <2>1. excused' \subseteq Card \cup {Template} /\ todo' \in [Invocation -> SUBSET Card]
    <3>1. Owed(i) \subseteq Card \cup {Template}
      BY <1>5 DEF ListCards, Owed
    <3> QED BY <1>0, <1>5, <3>1 DEF ListCards, TypeInv, TypeOK, Code
  <2>2. /\ seen' \in {seen, [seen EXCEPT ![i] = cards]}
        /\ pc' \in {[pc EXCEPT ![i] = "done"], [pc EXCEPT ![i] = "sync"]}
        /\ status' = status \/ status' = [status EXCEPT ![i] = 200]
    BY <1>5 DEF ListCards
  <2>3. /\ pc' \in [Invocation -> Label] /\ seen' \in [Invocation -> [Card -> CardRow]]
        /\ status' \in [Invocation -> Code]
    <3>1. /\ pc \in [Invocation -> Label] /\ status \in [Invocation -> Code]
          /\ seen \in [Invocation -> [Card -> CardRow]]
          /\ program \in Row /\ cards \in [Card -> CardRow]
      BY <1>0, LocalTypes
    <3>2. pc' \in [Invocation -> Label]
      BY <2>2, <3>1
    <3>3. seen' \in [Invocation -> [Card -> CardRow]]
      BY <2>2, <3>1
    <3>4. status' \in [Invocation -> Code]
      BY <2>2, <3>1 DEF Code
    <3> QED BY <3>2, <3>3, <3>4
  <2> QED BY <1>0, <1>1, <1>5, <2>1, <2>3 DEF ListCards, TypeInv, TypeOK, Code
<1>6. CASE SyncClass(i)
  BY <1>0, <1>1, <1>6 DEF SyncClass, TypeInv, TypeOK, Code
<1>7. CASE PushPass(i)
  <2>1. PICK c \in todo[i] :
          /\ PutPass(i, c)
          /\ todo' = [todo EXCEPT ![i] = @ \ {c}]
          /\ IF todo[i] = {c} THEN Answer(i, 200) ELSE UNCHANGED <<pc, status>>
    BY <1>7 DEF PushPass
  <2>2. c \in Card
    BY <1>0, <2>1 DEF TypeInv, TypeOK, Code
  <2>3. DOMAIN pass' = Card /\ excused' \subseteq Card \cup {Template}
    BY <1>0, <2>1, <2>2, PutPassTypes
  <2> QED BY <1>0, <1>1, <1>7, <2>1, <2>3 DEF PushPass, TypeInv, TypeOK, Code
<1>8. CASE ReadCard(i)
  <2>1. /\ seen' \in {seen, [seen EXCEPT ![i] = cards]}
        /\ pc' \in {[pc EXCEPT ![i] = "done"], [pc EXCEPT ![i] = "check"]}
        /\ \/ status' = status \/ status' = [status EXCEPT ![i] = 403]
           \/ status' = [status EXCEPT ![i] = 404]
    BY <1>8 DEF ReadCard
  <2>2. /\ pc' \in [Invocation -> Label] /\ seen' \in [Invocation -> [Card -> CardRow]]
        /\ status' \in [Invocation -> Code]
    <3>1. /\ pc \in [Invocation -> Label] /\ status \in [Invocation -> Code]
          /\ seen \in [Invocation -> [Card -> CardRow]]
          /\ program \in Row /\ cards \in [Card -> CardRow]
      BY <1>0, LocalTypes
    <3>2. pc' \in [Invocation -> Label]
      BY <2>1, <3>1
    <3>3. seen' \in [Invocation -> [Card -> CardRow]]
      BY <2>1, <3>1
    <3>4. status' \in [Invocation -> Code]
      <4>1. status' = status \/ status' = [status EXCEPT ![i] = 403]
              \/ status' = [status EXCEPT ![i] = 404]
        BY <2>1
      <4> QED BY <3>1, <4>1 DEF Code
    <3> QED BY <3>2, <3>3, <3>4
  <2> QED BY <1>0, <1>1, <1>8, <2>2 DEF ReadCard, TypeInv, TypeOK, Code
<1>9. CASE CheckOperation(i)
  BY <1>0, <1>1, <1>9 DEF CheckOperation, TypeInv, TypeOK, Code
<1>10. CASE Commit(i)
  <2>1. /\ req[i] \in Request /\ Operates(i) /\ Accepted(i)
        /\ req[i].card \in Card /\ seen[i][req[i].card] \in CardRow /\ row[i] \in Row
    <3>1. req[i] \in Request /\ Operates(i) /\ Accepted(i)
      BY <1>0, <1>10 DEF Commit, Local, TillLabel
    <3> QED BY <1>0, <3>1, RequestAssumption DEF TypeInv, TypeOK, Code
  <2>2. cards' \in [Card -> CardRow]
    BY <1>0, <1>10, <2>1, CommittedRow DEF Commit, Operates, Accepted, TypeInv, TypeOK
  <2> QED BY <1>0, <1>1, <1>10, <2>2 DEF Commit, TypeInv, TypeOK, Code
<1>11. CASE PushReadCard(i)
  BY <1>0, <1>1, <1>11 DEF PushReadCard, TypeInv, TypeOK, Code
<1>12. CASE PushReadProgram(i)
  BY <1>0, <1>1, <1>12 DEF PushReadProgram, TypeInv, TypeOK, Code
<1>13. CASE PushOperation(i)
  <2>1. req[i].card \in Card
    BY <1>0, <1>13, RequestAssumption DEF PushOperation, Local
  <2>2. DOMAIN pass' = Card /\ excused' \subseteq Card \cup {Template}
    BY <1>0, <1>13, <2>1, PutPassTypes DEF PushOperation
  <2> QED BY <1>0, <1>1, <1>13, <2>2 DEF PushOperation, TypeInv, TypeOK, Code
<1>14. CASE Crash(i)
  <2>1. excused' \subseteq Card \cup {Template}
    <3>1. pc[i] # "idle" => req[i].card \in Card
      BY <1>0, RequestAssumption DEF Local
    <3> QED BY <1>0, <1>14, <3>1 DEF Crash, Owed, TypeInv, TypeOK
  <2> QED BY <1>0, <1>1, <1>14, <2>1 DEF Crash, TypeInv, TypeOK, Code
<1> QED BY <1>2, <1>3, <1>4, <1>5, <1>6, <1>7, <1>8, <1>9, <1>10, <1>11, <1>12, <1>13,
           <1>14 DEF Step

-----------------------------------------------------------------------------
(* The invariant.                                                             *)

\* A step of i that leaves the program alone, keeps what i has promised, and
\* neither takes back a write of an edit nor adds one.
Quiet(i) ==
  /\ program' = program /\ opened \subseteq opened'
  /\ \A j \in Invocation \ {i} :
       /\ pc'[j] = pc[j] /\ req'[j] = req[j] /\ row'[j] = row[j]
       /\ seen'[j] = seen[j] /\ status'[j] = status[j]
  /\ Local(i)'
  /\ \A c \in Column :
       /\ Wrote(i, c)' => Wrote(i, c)
       /\ MayHaveWritten(i, c) => MayHaveWritten(i, c)' /\ req'[i] = req[i]

LEMMA QuietKeeps ==
  ASSUME IInv, NEW i \in Invocation, Quiet(i), TypeInv'
  PROVE  IInv'
<1>1. GoodRow(program)'
  BY DEF IInv, Quiet, GoodRow
<1>2. ASSUME NEW j \in Invocation PROVE Local(j)'
  <2>1. CASE j = i
    BY <2>1 DEF Quiet
  <2>2. CASE j # i
    <3>1. Local(j)
      BY DEF IInv
    <3>2. /\ program' = program /\ opened \subseteq opened'
          /\ pc'[j] = pc[j] /\ req'[j] = req[j] /\ row'[j] = row[j]
          /\ seen'[j] = seen[j] /\ status'[j] = status[j]
      BY <2>2 DEF Quiet
    <3> QED BY <3>1, <3>2 DEF Local, OwnerPatch, Operates, Checked, Accepted, UsesOffer
  <2> QED BY <2>1, <2>2
<1>3. EditInv'
  <2> SUFFICES ASSUME NEW c \in Column, NEW j \in Invocation, Wrote(j, c)'
               PROVE  \E k \in Invocation :
                        MayHaveWritten(k, c)' /\ program'[c] = Stored(c, req'[k].body[c])
    BY DEF EditInv
  <2>1. \A k \in Invocation \ {i} : /\ Wrote(k, c)' = Wrote(k, c)
                                    /\ MayHaveWritten(k, c)' = MayHaveWritten(k, c)
    BY DEF Quiet, Wrote, MayHaveWritten, Sends, OwnerPatch, Pushing
  <2>2. Wrote(j, c)
    BY <2>1 DEF Quiet
  <2>3. PICK k \in Invocation : MayHaveWritten(k, c) /\ program[c] = Stored(c, req[k].body[c])
    BY <2>2 DEF IInv, EditInv
  <2>4. MayHaveWritten(k, c)' /\ req'[k] = req[k] /\ program' = program
    BY <2>1, <2>3 DEF Quiet
  <2> QED BY <2>3, <2>4
<1> QED BY <1>1, <1>2, <1>3 DEF IInv

\* A step of i changes the locals of i only.
LEMMA StepFrame ==
  ASSUME IInv, NEW i \in Invocation, Step(i), NEW j \in Invocation \ {i}
  PROVE  /\ pc'[j] = pc[j] /\ req'[j] = req[j] /\ row'[j] = row[j]
         /\ seen'[j] = seen[j] /\ status'[j] = status[j] /\ todo'[j] = todo[j]
<1> USE DEF Goto, Answer
<1>1. /\ pc \in [Invocation -> Label] /\ status \in [Invocation -> Code]
      /\ row \in [Invocation -> Row] /\ seen \in [Invocation -> [Card -> CardRow]]
      /\ req \in [Invocation -> Request \cup {<<>>}] /\ todo \in [Invocation -> SUBSET Card]
  BY LocalTypes DEF IInv, TypeInv, TypeOK
<1>2. \/ pc' = pc \/ \E l : pc' = [pc EXCEPT ![i] = l]
  BY DEF Step, Arrive, PatchRead, UpdateProgram, ListCards, SyncClass, PushPass, ReadCard,
         CheckOperation, Commit, PushReadCard, PushReadProgram, PushOperation, Crash
<1>3. \/ status' = status \/ \E code : status' = [status EXCEPT ![i] = code]
  BY DEF Step, Arrive, PatchRead, UpdateProgram, ListCards, SyncClass, PushPass, ReadCard,
         CheckOperation, Commit, PushReadCard, PushReadProgram, PushOperation, Crash
<1>4. \/ row' = row \/ \E p : row' = [row EXCEPT ![i] = p]
  BY DEF Step, Arrive, PatchRead, UpdateProgram, ListCards, SyncClass, PushPass, ReadCard,
         CheckOperation, Commit, PushReadCard, PushReadProgram, PushOperation, Crash
<1>5. \/ seen' = seen \/ \E t : seen' = [seen EXCEPT ![i] = t]
  BY DEF Step, Arrive, PatchRead, UpdateProgram, ListCards, SyncClass, PushPass, ReadCard,
         CheckOperation, Commit, PushReadCard, PushReadProgram, PushOperation, Crash
<1>6. \/ req' = req \/ \E r : req' = [req EXCEPT ![i] = r]
  BY DEF Step, Arrive, PatchRead, UpdateProgram, ListCards, SyncClass, PushPass, ReadCard,
         CheckOperation, Commit, PushReadCard, PushReadProgram, PushOperation, Crash
<1>7. \/ todo' = todo \/ \E t : todo' = [todo EXCEPT ![i] = t]
  BY DEF Step, Arrive, PatchRead, UpdateProgram, ListCards, SyncClass, PushPass, ReadCard,
         CheckOperation, Commit, PushReadCard, PushReadProgram, PushOperation, Crash
<1> QED BY <1>1, <1>2, <1>3, <1>4, <1>5, <1>6, <1>7

\* Every step but the UPDATE of a PATCH is quiet.
LEMMA QuietSteps ==
  ASSUME IInv, NEW i \in Invocation, Step(i), ~UpdateProgram(i), Opening
  PROVE  Quiet(i)
<1> USE DEF Goto, Answer
<1> DEFINE Kept ==
             \A c \in Column :
               /\ Wrote(i, c)' => Wrote(i, c)
               /\ MayHaveWritten(i, c) => MayHaveWritten(i, c)' /\ req'[i] = req[i]
<1>0. /\ pc \in [Invocation -> Label] /\ status \in [Invocation -> Code]
      /\ row \in [Invocation -> Row] /\ seen \in [Invocation -> [Card -> CardRow]]
      /\ req \in [Invocation -> Request \cup {<<>>}]
      /\ Local(i) /\ GoodRow(program)
  BY LocalTypes DEF IInv, TypeInv
<1>1. program' = program
  BY DEF Step, Arrive, PatchRead, ListCards, SyncClass, PushPass, ReadCard, CheckOperation,
         Commit, PushReadCard, PushReadProgram, PushOperation, Crash
<1>2. opened \subseteq opened'
  BY DEF Opening
<1>10. \A j \in Invocation \ {i} :
         /\ pc'[j] = pc[j] /\ req'[j] = req[j] /\ row'[j] = row[j]
         /\ seen'[j] = seen[j] /\ status'[j] = status[j]
  BY StepFrame
<1> SUFFICES Local(i)' /\ Kept
  BY <1>1, <1>2, <1>10 DEF Quiet
<1> HIDE DEF Kept
<1>3. CASE Arrive(i)
  <2>1. /\ pc[i] = "idle" /\ pc'[i] = "start" /\ req'[i] \in Request
        /\ status'[i] = 0 /\ row'[i] = row[i]
    BY <1>0, <1>3 DEF Arrive, Local
  <2>2. Local(i)'
    BY <1>0, <1>1, <2>1 DEF Local, PatchLabel, TillLabel, UsesOffer
  <2>3. Kept
    BY <2>1 DEF Kept, Wrote, MayHaveWritten, Sends, Pushing
  <2> QED BY <2>2, <2>3
<1>4. CASE PatchRead(i)
  <2> DEFINE patch == PatchOf(program, req[i].body)
  <2>1. /\ pc[i] = "start" /\ req[i] \in Request /\ req'[i] = req[i]
        /\ req[i].kind = "patch" /\ status[i] = 0
    BY <1>0, <1>4 DEF PatchRead, Local
  <2>2. \/ /\ pc'[i] = "done" /\ row'[i] \in {row[i], program}
           /\ status'[i] = 403 \/ status'[i] = 404 \/ status'[i] = 422
                \/ (status'[i] = 200 /\ patch = <<>>)
        \/ /\ pc'[i] = "update" /\ row'[i] = program /\ status'[i] = 0
           /\ req[i].caller = "owner" /\ req[i].found /\ ~Refused(program, patch)
    <3>1. \A code \in {200, 403, 404, 422} :
             status' = [status EXCEPT ![i] = code] => status'[i] = code
      BY <1>0
    <3>2. \A l \in {"done", "update"} : pc' = [pc EXCEPT ![i] = l] => pc'[i] = l
      BY <1>0
    <3>3. /\ row' = row => row'[i] = row[i]
          /\ row' = [row EXCEPT ![i] = program] => row'[i] = program
          /\ status' = status => status'[i] = 0
      BY <1>0, <2>1
    <3>4. \/ /\ row' = row /\ pc' = [pc EXCEPT ![i] = "done"]
             /\ \/ status' = [status EXCEPT ![i] = 403]
                \/ status' = [status EXCEPT ![i] = 404]
          \/ /\ row' = [row EXCEPT ![i] = program] /\ pc' = [pc EXCEPT ![i] = "done"]
             /\ \/ status' = [status EXCEPT ![i] = 422]
                \/ patch = <<>> /\ status' = [status EXCEPT ![i] = 200]
          \/ /\ row' = [row EXCEPT ![i] = program] /\ pc' = [pc EXCEPT ![i] = "update"]
             /\ status' = status /\ ~Refused(program, patch)
             /\ req[i].caller = "owner" /\ req[i].found
      BY <1>4, Zenon DEF PatchRead
    <3> HIDE DEF patch
    <3>5. CASE row' = row
      BY <3>1, <3>2, <3>3, <3>4, <3>5
    <3>6. CASE row' = [row EXCEPT ![i] = program]
      <4>1. row'[i] = program
        BY <3>3, <3>6
      <4> QED BY <3>1, <3>2, <3>3, <3>4, <4>1
    <3> QED BY <3>4, <3>5, <3>6
  <2> HIDE DEF patch
  <2>3. Local(i)'
    <3>1. pc'[i] = "update" => Checked(i)'
      BY <1>0, <1>1, <2>1, <2>2 DEF Checked, GoodRow, patch
    <3> QED BY <1>0, <1>1, <2>1, <2>2, <3>1 DEF Local, PatchLabel, TillLabel, UsesOffer,
                                               OwnerPatch
  <2>4. Kept
    <3>1. patch = <<>> => \A c \in Column : c \notin DOMAIN patch
      OBVIOUS
    <3>2. \A c \in Column : ~Wrote(i, c)'
      BY <1>1, <2>1, <2>2, <3>1 DEF Wrote, Sends, Pushing, patch
    <3>3. \A c \in Column : ~MayHaveWritten(i, c)
      BY <2>1 DEF MayHaveWritten, Pushing
    <3> QED BY <3>2, <3>3 DEF Kept
  <2> QED BY <2>3, <2>4
<1>5. CASE ListCards(i) \/ SyncClass(i) \/ PushPass(i)
  <2>1. /\ Pushing(i) /\ req' = req /\ row' = row /\ req[i] \in Request /\ OwnerPatch(i)
        /\ status[i] = 0
    BY <1>0, <1>5 DEF ListCards, SyncClass, PushPass, Pushing, Local, PatchLabel
  <2>2. \/ Pushing(i)' /\ status'[i] = 0
        \/ pc'[i] = "done" /\ status'[i] = 200
    <3>1. CASE ListCards(i)
      BY <1>0, <2>1, <3>1 DEF ListCards, Pushing
    <3>2. CASE SyncClass(i)
      BY <1>0, <2>1, <3>2 DEF SyncClass, Pushing
    <3>3. CASE PushPass(i)
      BY <1>0, <2>1, <3>3 DEF PushPass, Pushing
    <3> QED BY <1>5, <3>1, <3>2, <3>3
  <2>3. Local(i)'
    BY <1>0, <1>1, <2>1, <2>2 DEF Local, PatchLabel, TillLabel, Pushing, UsesOffer, OwnerPatch
  <2>4. Kept
    <3> SUFFICES ASSUME NEW c \in Column
                 PROVE  /\ Wrote(i, c)' => Wrote(i, c)
                        /\ MayHaveWritten(i, c) => MayHaveWritten(i, c)' /\ req'[i] = req[i]
      BY Zenon DEF Kept
    <3>1. pc[i] # "idle" /\ pc'[i] # "idle"
      BY <2>1, <2>2 DEF Pushing
    <3>2. Sends(i, c)' <=> Sends(i, c)
      BY <1>1, <2>1, <3>1 DEF Sends, OwnerPatch
    <3>3. Wrote(i, c)' => Wrote(i, c)
      BY <2>1, <3>2, Zenon DEF Wrote
    <3>4. MayHaveWritten(i, c) => MayHaveWritten(i, c)'
      BY <2>1, <2>2, <3>2, Zenon DEF MayHaveWritten
    <3> QED BY <2>1, <3>3, <3>4
  <2> QED BY <2>3, <2>4
<1>6. CASE ReadCard(i)
  <2>1. /\ pc[i] = "start" /\ req' = req /\ row' = row /\ req[i] \in Request /\ Operates(i)
        /\ status[i] = 0
    BY <1>0, <1>6 DEF ReadCard, Local
  <2>2. \/ pc'[i] = "check" /\ status'[i] = 0
        \/ pc'[i] = "done" /\ status'[i] \in {403, 404}
    BY <1>0, <1>6, <2>1 DEF ReadCard
  <2>3. Local(i)'
    BY <1>0, <1>1, <2>1, <2>2 DEF Local, PatchLabel, TillLabel, UsesOffer, Operates
  <2>4. Kept
    BY <2>1, <2>2 DEF Kept, Wrote, MayHaveWritten, Pushing
  <2> QED BY <2>3, <2>4
<1>7. CASE CheckOperation(i)
  <2>1. /\ pc[i] = "check" /\ req' = req /\ seen' = seen /\ req[i] \in Request /\ Operates(i)
        /\ status[i] = 0 /\ row'[i] = program
    BY <1>0, <1>7 DEF CheckOperation, Local, TillLabel
  <2>2. \/ /\ pc'[i] = "commit" /\ status'[i] = 0
           /\ LET balance == seen[i][req[i].card]
              IN \/ req[i].kind = "accrue" /\ ~AccrueRefused(program, balance, req[i].add)
                 \/ req[i].kind = "redeem" /\ ~Closed(program, today) /\ ~RedeemRefused(balance)
        \/ pc'[i] = "done" /\ status'[i] \in {409, 422}
    BY <1>0, <1>7, <2>1 DEF CheckOperation
  <2>3. (pc'[i] = "commit" /\ IsSeasonal(program) /\ req[i].kind = "redeem") => i \in opened'
    BY <1>7, <2>2 DEF CheckOperation, Closed, Opening
  <2>4. pc'[i] = "commit" => Accepted(i)'
    BY <2>1, <2>2 DEF Accepted
  <2>5. Local(i)'
    BY <1>0, <1>1, <2>1, <2>2, <2>3, <2>4 DEF Local, PatchLabel, TillLabel, UsesOffer, Operates
  <2>6. Kept
    BY <2>1, <2>2 DEF Kept, Wrote, MayHaveWritten, Pushing
  <2> QED BY <2>5, <2>6
<1>8. CASE Commit(i) \/ PushReadCard(i) \/ PushReadProgram(i) \/ PushOperation(i)
  <2>1. /\ pc[i] \in {"commit", "push_card", "push_program", "put"} /\ req' = req
        /\ req[i] \in Request /\ Operates(i) /\ status[i] = 0
        /\ row'[i] \in {row[i], program}
    BY <1>0, <1>8 DEF Commit, PushReadCard, PushReadProgram, PushOperation, Local, TillLabel
  <2>2. \/ pc'[i] \in {"push_card", "push_program", "put"} /\ status'[i] = 0
        \/ pc'[i] = "done" /\ status'[i] = 200
    BY <1>0, <1>8, <2>1 DEF Commit, PushReadCard, PushReadProgram, PushOperation
  <2>3. UsesOffer(i)' => i \in opened'
    BY <1>0, <1>1, <1>2, <2>1 DEF Local, UsesOffer, TillLabel
  <2>4. Local(i)'
    BY <1>0, <1>1, <2>1, <2>2, <2>3 DEF Local, PatchLabel, TillLabel, Operates
  <2>5. Kept
    BY <2>1, <2>2 DEF Kept, Wrote, MayHaveWritten, Sends, OwnerPatch, Operates, Pushing
  <2> QED BY <2>4, <2>5
<1>9. CASE Crash(i)
  <2>1. /\ pc[i] \notin {"idle", "done"} /\ pc'[i] = "done" /\ status'[i] = 504
        /\ req' = req /\ row' = row /\ req[i] \in Request
    BY <1>0, <1>9 DEF Crash, Running, Local
  <2>2. Local(i)'
    BY <1>0, <1>1, <2>1 DEF Local, PatchLabel, TillLabel, UsesOffer
  <2>3. Kept
    BY <1>1, <2>1 DEF Kept, Wrote, MayHaveWritten, Sends, OwnerPatch, Pushing
  <2> QED BY <2>2, <2>3
<1> QED BY <1>3, <1>4, <1>5, <1>6, <1>7, <1>8, <1>9 DEF Step

\* The UPDATE of a PATCH.
LEMMA UpdateStep ==
  ASSUME IInv, NEW i \in Invocation, UpdateProgram(i), Opening, TypeInv'
  PROVE  IInv'
<1> DEFINE patch == PatchOf(row[i], req[i].body)
           after == WritePatch(program, row[i], patch)
<1>0. /\ pc \in [Invocation -> Label] /\ status \in [Invocation -> Code]
      /\ row \in [Invocation -> Row] /\ program \in Row /\ Local(i) /\ GoodRow(program)
  BY LocalTypes DEF IInv, TypeInv
<1>1. /\ pc[i] = "update" /\ req' = req /\ seen' = seen /\ status[i] = 0 /\ Checked(i)
      /\ req[i] \in Request /\ OwnerPatch(i) /\ row[i].type = program.type
      /\ row[i] \in Row
  BY <1>0, UpdateProgram(i) DEF UpdateProgram, Local, PatchLabel
<1>2. \A j \in Invocation \ {i} :
        /\ pc'[j] = pc[j] /\ req'[j] = req[j] /\ row'[j] = row[j]
        /\ seen'[j] = seen[j] /\ status'[j] = status[j]
  BY StepFrame DEF Step
<1>3. opened \subseteq opened'
  BY DEF Opening
<1>4. CASE TableTakes(patch, after)
  <2>1. /\ program' = after /\ row'[i] = after
        /\ \/ pc'[i] = "list_cards" /\ status'[i] = 0
           \/ pc'[i] = "done" /\ status'[i] = 200
    BY <1>0, <1>1, <1>4 DEF UpdateProgram, Goto, Answer
  <2>2. /\ after.type = program.type /\ GoodRow(after)
        /\ program.discount_percent # 0 => after.discount_percent # 0
    BY <1>0, <1>1, <1>4, WriteFacts, UpdateKeepsGood DEF Checked
  <2>3. \A c \in Column :
          after[c] = IF c \in DOMAIN patch THEN Stored(c, req[i].body[c]) ELSE program[c]
    <3>1. Column \subseteq DOMAIN program
      BY <1>0 DEF Row, Column, Visible, SeasonalColumn
    <3>2. \A c \in DOMAIN patch : patch[c] = req[i].body[c]
      BY <1>1, PatchFacts
    <3> HIDE DEF patch
    <3> QED BY <3>1, <3>2 DEF WritePatch, Merged, StoredValues
  <2> HIDE DEF after
  <2>4. ASSUME NEW j \in Invocation PROVE Local(j)'
    <3>1. CASE j = i
      BY <1>0, <1>1, <2>1, <3>1 DEF Local, OwnerPatch, PatchLabel, TillLabel, UsesOffer
    <3>2. CASE j # i
      <4>1. Local(j)
        BY DEF IInv
      <4>2. /\ pc'[j] = pc[j] /\ req'[j] = req[j] /\ row'[j] = row[j]
            /\ seen'[j] = seen[j] /\ status'[j] = status[j]
        BY <1>2, <3>2
      <4>3. Checked(j) => Checked(j)'
        BY <2>1, <2>2, <4>2 DEF Checked
      <4>4. UsesOffer(j)' => UsesOffer(j)
        BY <2>1, <2>2, <4>2 DEF UsesOffer, IsSeasonal
      <4> QED BY <1>3, <2>1, <2>2, <4>1, <4>2, <4>3, <4>4 DEF Local, OwnerPatch, Operates,
                                                               Accepted
    <3> QED BY <3>1, <3>2
  <2>5. EditInv'
    <3> SUFFICES ASSUME NEW c \in Column, NEW j \in Invocation, Wrote(j, c)'
                 PROVE  \E k \in Invocation :
                          MayHaveWritten(k, c)' /\ program'[c] = Stored(c, req'[k].body[c])
      BY DEF EditInv
    <3>1. ASSUME NEW r \in Request PROVE PatchOf(program', r.body) = PatchOf(program, r.body)
      BY <2>1, <2>2, PatchOfType
    <3>2. patch = PatchOf(program', req[i].body)
      BY <1>1, <2>1, <2>2, PatchOfType
    <3>3. CASE c \in DOMAIN patch
      <4>1. Sends(i, c)'
        BY <1>1, <2>1, <3>2, <3>3 DEF Sends, OwnerPatch
      <4>2. MayHaveWritten(i, c)'
        BY <2>1, <4>1 DEF MayHaveWritten, Pushing
      <4>3. program'[c] = Stored(c, req'[i].body[c])
        BY <1>1, <2>1, <2>3, <3>3
      <4> QED BY <4>2, <4>3
    <3>4. CASE c \notin DOMAIN patch
      <4>1. j # i
        BY <1>1, <3>2, <3>4 DEF Wrote, Sends
      <4>2. pc[j] # "idle" => req[j] \in Request
        BY DEF IInv, Local
      <4>3. Wrote(j, c)
        BY <1>2, <3>1, <4>1, <4>2 DEF Wrote, Sends, OwnerPatch, Pushing
      <4>4. PICK k \in Invocation : MayHaveWritten(k, c) /\ program[c] = Stored(c, req[k].body[c])
        BY <4>3 DEF IInv, EditInv
      <4>5. k # i
        BY <1>1, <4>4 DEF MayHaveWritten, Pushing
      <4>6. pc[k] # "idle" => req[k] \in Request
        BY DEF IInv, Local
      <4>7. MayHaveWritten(k, c)'
        BY <1>2, <3>1, <4>4, <4>5, <4>6 DEF MayHaveWritten, Sends, OwnerPatch, Pushing
      <4>8. program'[c] = Stored(c, req'[k].body[c])
        BY <1>1, <2>1, <2>3, <3>4, <4>4
      <4> QED BY <4>7, <4>8
    <3> QED BY <3>3, <3>4
  <2> QED BY <2>1, <2>2, <2>4, <2>5 DEF IInv
<1>5. CASE ~TableTakes(patch, after)
  <2>1. /\ program' = program /\ row' = row /\ pc'[i] = "done" /\ status'[i] = 500
    BY <1>0, <1>1, <1>5 DEF UpdateProgram, Goto, Answer
  <2>2. Local(i)'
    BY <1>0, <1>1, <2>1 DEF Local, PatchLabel, TillLabel, UsesOffer
  <2>3. ASSUME NEW c \in Column PROVE ~Wrote(i, c)' /\ ~MayHaveWritten(i, c)
    BY <1>1, <2>1 DEF Wrote, MayHaveWritten, Pushing
  <2>4. Quiet(i)
    BY <1>2, <1>3, <2>1, <2>2, <2>3 DEF Quiet
  <2> QED BY <2>4, QuietKeeps
<1> QED BY <1>4, <1>5

\* Midnight changes the date only.
LEMMA MidnightStep ==
  ASSUME IInv, Midnight, Opening
  PROVE  IInv'
<1>1. UNCHANGED <<program, cards, wallet, req, pc, row, seen, todo, status, excused>>
  BY DEF Midnight
<1>2. opened \subseteq opened' /\ opened' \subseteq Invocation
  BY DEF Opening, IInv, TypeInv, TypeOK
<1>3. TypeInv'
  BY <1>1, <1>2, BoundAssumption DEF Midnight, IInv, TypeInv, TypeOK, Day, wallet
<1>4. \A i \in Invocation : Local(i)'
  BY <1>1, <1>2 DEF IInv, Local, OwnerPatch, Operates, Checked, Accepted, UsesOffer
<1>5. EditInv'
  BY <1>1 DEF IInv, EditInv, Wrote, MayHaveWritten, Sends, OwnerPatch, Pushing
<1> QED BY <1>1, <1>3, <1>4, <1>5 DEF IInv

LEMMA InitHolds ==
  ASSUME Init
  PROVE  IInv
<1>1. program \in Row /\ GoodRow(program)
  BY CreatedRowFacts DEF Init
<1>2. cards \in [Card -> CardRow]
  BY DEF Init, Balance, CardRow
<1>3. TypeInv
  <2>1. /\ DOMAIN pass = Card /\ today \in Day /\ excused \subseteq Card \cup {Template}
        /\ opened \subseteq Invocation /\ todo \in [Invocation -> SUBSET Card]
    BY BoundAssumption DEF Init, Day
  <2>2. /\ pc \in [Invocation -> Label] /\ status \in [Invocation -> Code]
        /\ req \in [Invocation -> Request \cup {<<>>}]
    BY DEF Init, Label, Code
  <2>3. row \in [Invocation -> Row] /\ seen \in [Invocation -> [Card -> CardRow]]
    <3>1. row = [i \in Invocation |-> program] /\ seen = [i \in Invocation |-> cards]
      BY DEF Init
    <3> QED BY <1>1, <1>2, <3>1
  <2> QED BY <1>1, <1>2, <2>1, <2>2, <2>3 DEF TypeInv, TypeOK, Code
<1>4. \A i \in Invocation : pc[i] = "idle" /\ status[i] = 0 /\ row[i] = program
  BY DEF Init
<1>5. \A i \in Invocation : Local(i)
  BY <1>4 DEF Local, PatchLabel, TillLabel, UsesOffer
<1>6. EditInv
  BY <1>4 DEF EditInv, Wrote, Sends
<1> QED BY <1>1, <1>3, <1>5, <1>6 DEF IInv

LEMMA NextKeeps ==
  ASSUME IInv, [Next]_vars
  PROVE  IInv'
<1>1. CASE UNCHANGED vars
  BY <1>1 DEF vars, wallet, IInv, TypeInv, TypeOK, Local, OwnerPatch, Operates, Checked, Accepted,
              UsesOffer, EditInv, Wrote, MayHaveWritten, Sends, Pushing
<1>2. CASE Next
  <2>1. Opening
    BY <1>2 DEF Next, Opening
  <2>2. CASE Midnight
    BY <2>1, <2>2, MidnightStep
  <2>3. ASSUME NEW i \in Invocation, Step(i) PROVE IInv'
    <3>1. TypeInv'
      BY <2>1, <2>3, TypeStep
    <3>2. CASE UpdateProgram(i)
      BY <2>1, <3>1, <3>2, UpdateStep
    <3>3. CASE ~UpdateProgram(i)
      BY <2>1, <2>3, <3>1, <3>3, QuietSteps, QuietKeeps
    <3> QED BY <3>2, <3>3
  <2> QED BY <1>2, <2>2, <2>3 DEF Next
<1> QED BY <1>1, <1>2

-----------------------------------------------------------------------------
(* The passes.                                                                *)

\* A pass that does not show its card and program, or a template that is not the
\* program's, is excused or is still to be pushed by some request.
CoveredBy(i, c) == c \in excused \/ pass[c] = Payload(c) \/ c \in Owed(i)
TemplateBy(i) == Template \in excused \/ class = CardRows(program) \/ Template \in Owed(i)

PassInv ==
  /\ \A c \in Card : c \in excused \/ pass[c] = Payload(c) \/ \E i \in Invocation : c \in Owed(i)
  /\ \/ Template \in excused \/ class = CardRows(program)
     \/ \E i \in Invocation : Template \in Owed(i)

\* A pass shows nothing of a program but its type and its visible columns.
LEMMA PassOfVisible ==
  ASSUME NEW p, NEW q, p.type = q.type, \A column \in Visible : p[column] = q[column]
  PROVE  /\ CardRows(p) = CardRows(q)
         /\ \A card : ObjectPayload(card, p) = ObjectPayload(card, q)
<1>1. /\ p.color = q.color /\ p.stamps_for_reward = q.stamps_for_reward
      /\ p.points_for_reward = q.points_for_reward /\ p.reward = q.reward
      /\ p.discount_percent = q.discount_percent
      /\ p.valid_from = q.valid_from /\ p.valid_until = q.valid_until
  BY DEF Visible, SeasonalColumn
<1>2. HasReward(p) = HasReward(q) /\ HasStrip(p) = HasStrip(q)
  BY <1>1 DEF HasReward, HasStrip
<1>3. CardRows(p) = CardRows(q)
  BY <1>1, <1>2 DEF CardRows
<1>4. Footer(p) = Footer(q)
  BY <1>2 DEF Footer
<1>5. \A card : SeasonalModules(card, p) = SeasonalModules(card, q)
  BY <1>1 DEF SeasonalModules
<1>6. \A card : AccumulationModules(card, p) = AccumulationModules(card, q)
  BY <1>1, <1>2 DEF AccumulationModules
<1>7. \A card : TextModules(card, p) = TextModules(card, q)
  BY <1>1, <1>4, <1>5, <1>6 DEF TextModules
<1> QED BY <1>1, <1>3, <1>7 DEF ObjectPayload

\* Every cell of the template is one the pass of any card fills.
LEMMA TemplateCellsFilled ==
  ASSUME NEW card, NEW p
  PROVE  CardRows(p) \subseteq DOMAIN ObjectPayload(card, p).modules
<1> DEFINE header == CASE p.type = "seasonal_discount" -> SeasonalModules(card, p)
                       [] p.type = "membership_pass" -> MembershipModules
                       [] OTHER -> AccumulationModules(card, p)
<1>1. DOMAIN ObjectPayload(card, p).modules = DOMAIN header \cup Footer(p)
  BY DEF ObjectPayload, TextModules
<1>2. CASE p.type = "seasonal_discount"
  <2>1. DOMAIN header = {"hdr2", "hdr3"} \cup (IF p.discount_percent # 0 THEN {"hdr1"} ELSE {})
    BY <1>2 DEF SeasonalModules
  <2> QED BY <1>1, <1>2, <2>1 DEF CardRows, Footer, HasStrip
<1>3. CASE p.type = "membership_pass"
  <2>1. DOMAIN header = {"hdr1", "hdr2", "hdr3"}
    BY <1>3 DEF MembershipModules
  <2> QED BY <1>1, <1>3, <2>1 DEF CardRows, Footer, HasStrip
<1>4. CASE p.type # "seasonal_discount" /\ p.type # "membership_pass"
  <2>1. DOMAIN header = {"hdr1", "hdr2", "hdr3"} \cup (IF HasStrip(p) THEN {"hdr0"} ELSE {})
    BY <1>4 DEF AccumulationModules
  <2> QED BY <1>1, <2>1 DEF CardRows, Footer
<1> QED BY <1>2, <1>3, <1>4

\* A PUT brings the pass up to date, or what it leaves behind is excused.
LEMMA PutCovers ==
  ASSUME TypeInv, NEW i \in Invocation, NEW c \in Card, PutPass(i, c),
         cards' = cards, program' = program
  PROVE  /\ c \in excused' \/ pass'[c] = Payload(c)'
         /\ \A d \in Card \ {c} : pass'[d] = pass[d]
         /\ excused \ {c} \subseteq excused'
<1>1. DOMAIN pass = Card /\ Payload(c)' = Payload(c)
  BY DEF TypeInv, TypeOK, Payload
<1> QED BY <1>1 DEF PutPass

\* The step of i keeps what i answers for.
LEMMA StepCovers ==
  ASSUME IInv, NEW i \in Invocation, Step(i)
  PROVE  /\ \A c \in Card : CoveredBy(i, c) => CoveredBy(i, c)'
         /\ TemplateBy(i) => TemplateBy(i)'
<1> DEFINE Covers == /\ \A c \in Card : CoveredBy(i, c) => CoveredBy(i, c)'
                     /\ TemplateBy(i) => TemplateBy(i)'
<1> USE DEF Goto, Answer
<1>0. /\ TypeInv /\ Local(i) /\ pc \in [Invocation -> Label]
      /\ todo \in [Invocation -> SUBSET Card] /\ DOMAIN pass = Card
  BY LocalTypes DEF IInv, TypeInv, TypeOK
<1>1. ASSUME program' = program, cards' = cards
      PROVE  CardRows(program)' = CardRows(program) /\ \A c : Payload(c)' = Payload(c)
  BY <1>1 DEF Payload
<1>2. CASE Arrive(i) \/ PatchRead(i) \/ ReadCard(i) \/ CheckOperation(i)
  <2>1. /\ pc[i] \in {"idle", "start", "check"}
        /\ UNCHANGED <<program, cards, class, pass, excused>>
    BY <1>2 DEF Arrive, PatchRead, ReadCard, CheckOperation, wallet
  <2>2. Owed(i) = {}
    BY <2>1 DEF Owed
  <2> QED BY <1>1, <2>1, <2>2 DEF CoveredBy, TemplateBy
<1>3. CASE PushReadCard(i) \/ PushReadProgram(i)
  <2>1. /\ pc[i] \in {"push_card", "push_program"} /\ pc'[i] \in {"push_program", "put"}
        /\ UNCHANGED <<program, cards, class, pass, excused, req>>
    BY <1>0, <1>3 DEF PushReadCard, PushReadProgram, wallet
  <2>2. Owed(i)' = Owed(i)
    BY <2>1 DEF Owed
  <2> QED BY <1>1, <2>1, <2>2 DEF CoveredBy, TemplateBy
<1>4. CASE Commit(i)
  <2>1. /\ pc[i] = "commit" /\ pc'[i] = "push_card"
        /\ UNCHANGED <<program, class, pass, excused, req>>
        /\ \A c \in Card \ {req[i].card} : cards'[c] = cards[c]
    BY <1>0, <1>4 DEF Commit, wallet, TypeInv, TypeOK
  <2>2. Owed(i) = {} /\ Owed(i)' = {req[i].card}
    BY <2>1 DEF Owed
  <2>3. \A c \in Card \ {req[i].card} : Payload(c)' = Payload(c)
    BY <2>1 DEF Payload
  <2> QED BY <2>1, <2>2, <2>3 DEF CoveredBy, TemplateBy
<1>5. CASE UpdateProgram(i)
  <2> DEFINE patch == PatchOf(row[i], req[i].body)
             after == WritePatch(program, row[i], patch)
  <2>1. pc[i] = "update" /\ Owed(i) = {} /\ UNCHANGED <<cards, class, pass, req>>
    BY <1>5 DEF UpdateProgram, Owed, wallet
  <2>2. CASE UNCHANGED <<program, excused>>
    BY <1>1, <2>1, <2>2 DEF CoveredBy, TemplateBy
  <2>3. CASE pc'[i] = "list_cards"
    BY <2>3 DEF Owed, CoveredBy, TemplateBy
  <2>4. CASE excused' = excused \cup Card \cup {Template}
    BY <2>4 DEF CoveredBy, TemplateBy
  <2>5. CASE /\ program' = after /\ ~ChangesPass(row[i], patch)
             /\ program = row[i] /\ excused' = excused
    <3>1. program \in Row /\ req[i] \in Request
      BY <1>0, <2>1 DEF TypeInv, TypeOK, Local
    <3>2. after.type = program.type
      BY <1>0, <2>5, <3>1, WriteFacts DEF TypeInv, TypeOK
    <3>3. Visible \subseteq DOMAIN program
      BY <3>1 DEF Row, Visible, SeasonalColumn
    <3>4. \A column \in Visible : after[column] = program[column]
      <4> HIDE DEF patch
      <4> QED BY <2>5, <3>3 DEF WritePatch, Merged, StoredValues, Stored, Visible,
                                SeasonalColumn, ChangesPass
    <3> HIDE DEF after
    <3>5. /\ CardRows(program') = CardRows(program)
          /\ \A card : ObjectPayload(card, program') = ObjectPayload(card, program)
      BY <2>5, <3>2, <3>4, PassOfVisible
    <3>6. \A c : Payload(c)' = Payload(c)
      BY <2>1, <3>5 DEF Payload
    <3> QED BY <2>1, <2>5, <3>5, <3>6 DEF CoveredBy, TemplateBy
  <2> QED BY <1>0, <1>5, <2>2, <2>3, <2>4, <2>5 DEF UpdateProgram
<1>6. CASE ListCards(i)
  <2>1. /\ pc[i] = "list_cards" /\ UNCHANGED <<program, cards, class, pass>>
    BY <1>6 DEF ListCards, wallet
  <2>2. CASE excused' = excused \cup Owed(i)
    BY <1>1, <2>1, <2>2 DEF CoveredBy, TemplateBy
  <2>3. ASSUME NEW listed \in SUBSET Card, todo' = [todo EXCEPT ![i] = listed],
               excused' = excused \cup (Card \ listed)
                                  \cup (IF listed = {} THEN {Template} ELSE {}),
               listed # {} => pc' = [pc EXCEPT ![i] = "sync"]
        PROVE  Covers
    <3>1. CASE listed = {}
      BY <1>1, <2>1, <2>3, <3>1 DEF CoveredBy, TemplateBy
    <3>2. CASE listed # {}
      <4>1. Owed(i)' = listed \cup {Template}
        BY <1>0, <2>3, <3>2 DEF Owed
      <4> QED BY <1>1, <2>1, <2>3, <4>1 DEF CoveredBy, TemplateBy
    <3> QED BY <3>1, <3>2
  <2> QED BY <1>6, <2>2, <2>3 DEF ListCards
<1>7. CASE SyncClass(i)
  <2>1. /\ pc[i] = "sync" /\ pc'[i] = "push" /\ UNCHANGED <<program, cards, pass, todo>>
        /\ excused' \in {excused \ {Template}, excused \cup {Template}}
        /\ Template \in excused' \/ class' = CardRows(program)
    BY <1>0, <1>7 DEF SyncClass
  <2>2. Owed(i) = todo[i] \cup {Template} /\ Owed(i)' = todo[i]
    BY <2>1 DEF Owed
  <2> QED BY <1>1, <2>1, <2>2, TemplateAssumption DEF CoveredBy, TemplateBy
<1>8. CASE PushPass(i)
  <2>1. PICK c \in todo[i] :
          /\ PutPass(i, c)
          /\ todo' = [todo EXCEPT ![i] = @ \ {c}]
          /\ IF todo[i] = {c} THEN Answer(i, 200) ELSE UNCHANGED <<pc, status>>
    BY <1>8 DEF PushPass
  <2>2. /\ pc[i] = "push" /\ UNCHANGED <<program, cards, class>> /\ c \in Card
    BY <1>0, <1>8, <2>1 DEF PushPass
  <2>3. Owed(i) = todo[i]
    BY <2>2 DEF Owed
  <2>4. todo[i] \ {c} \subseteq Owed(i)'
    <3>1. CASE todo[i] = {c}
      BY <3>1
    <3>2. CASE todo[i] # {c}
      BY <1>0, <2>1, <2>2, <3>2 DEF Owed
    <3> QED BY <3>1, <3>2
  <2>5. /\ c \in excused' \/ pass'[c] = Payload(c)'
        /\ \A d \in Card \ {c} : pass'[d] = pass[d]
        /\ excused \ {c} \subseteq excused'
    BY <1>0, <2>1, <2>2, PutCovers
  <2> QED BY <1>0, <1>1, <2>2, <2>3, <2>4, <2>5, TemplateAssumption DEF CoveredBy, TemplateBy
<1>9. CASE PushOperation(i)
  <2>1. /\ pc[i] = "put" /\ UNCHANGED <<program, cards, class>>
        /\ PutPass(i, req[i].card) /\ req[i].card \in Card
    BY <1>0, <1>9, RequestAssumption DEF PushOperation, Local
  <2>2. PICK c \in Card : c = req[i].card /\ Owed(i) = {c}
    BY <2>1 DEF Owed
  <2>3. /\ c \in excused' \/ pass'[c] = Payload(c)'
        /\ \A d \in Card \ {c} : pass'[d] = pass[d]
        /\ excused \ {c} \subseteq excused'
    BY <1>0, <2>1, <2>2, PutCovers
  <2> QED BY <1>1, <2>1, <2>2, <2>3, TemplateAssumption DEF CoveredBy, TemplateBy
<1>10. CASE Crash(i)
  <2>1. /\ excused' = excused \cup Owed(i)
        /\ UNCHANGED <<program, cards, class, pass>>
    BY <1>10 DEF Crash, wallet
  <2> QED BY <1>1, <2>1 DEF CoveredBy, TemplateBy
<1> QED BY <1>2, <1>3, <1>4, <1>5, <1>6, <1>7, <1>8, <1>9, <1>10 DEF Step

LEMMA PassStep ==
  ASSUME IInv, PassInv, [Next]_vars
  PROVE  PassInv'
<1>1. CASE UNCHANGED vars \/ Midnight
  <2>1. UNCHANGED <<program, cards, class, pass, req, pc, todo, excused>>
    BY <1>1 DEF vars, wallet, Midnight
  <2>2. \A c : Payload(c)' = Payload(c)
    BY <2>1 DEF Payload
  <2>3. \A i \in Invocation : Owed(i)' = Owed(i)
    BY <2>1 DEF Owed
  <2> QED BY <2>1, <2>2, <2>3 DEF PassInv
<1>2. ASSUME NEW i \in Invocation, Step(i) PROVE PassInv'
  <2>1. \A j \in Invocation \ {i} :
          pc'[j] = pc[j] /\ req'[j] = req[j] /\ todo'[j] = todo[j]
    BY <1>2, StepFrame
  <2>2. ASSUME NEW j \in Invocation \ {i} PROVE Owed(j)' = Owed(j)
    BY <2>1 DEF Owed
  <2>3. /\ \A c \in Card : CoveredBy(i, c) => CoveredBy(i, c)'
        /\ TemplateBy(i) => TemplateBy(i)'
    BY <1>2, StepCovers
  <2> QED BY <2>2, <2>3 DEF PassInv, CoveredBy, TemplateBy
<1> QED BY <1>1, <1>2 DEF Next

-----------------------------------------------------------------------------
(* Theorems.                                                                  *)

\* The invariant holds in every state a campaign can be in.
THEOREM Invariance == Spec => []IInv
  BY InitHolds, NextKeeps, PTL DEF Spec

\* Rows stay within their columns, whatever requests overlap: no accrual,
\* redemption or edit leaves a negative balance, price or percentage.
THEOREM TypeCorrect == Spec => []TypeOK
<1>1. IInv => TypeOK
  BY DEF IInv, TypeInv
<1> QED BY Invariance, <1>1, PTL

\* However many PATCHes overlap, a seasonal campaign keeps its dates in order and
\* an offer: what each left out of its check, the table checks, and what the
\* table lets through (an offer of line breaks) the handler has refused.
THEOREM OfferAlwaysStands == Spec => []OfferStands
<1>1. IInv => OfferStands
  BY DEF IInv, GoodRow, OfferStands
<1> QED BY Invariance, <1>1, PTL

\* The window of the billing view is that of campaign_status.
THEOREM BillingAgrees == Spec => []BilledWhileUsable
<1>1. ASSUME IInv PROVE BilledWhileUsable
  <2>1. /\ program.valid_from \in Nat /\ program.valid_until \in Nat /\ today \in Nat
        /\ IsSeasonal(program) => program.valid_from # NoDate /\ program.valid_until # NoDate
    BY <1>1, BoundAssumption DEF IInv, TypeInv, TypeOK, Row, Day, NoDate, GoodRow, ValidSeasonal
  <2> QED BY <2>1 DEF BilledWhileUsable, Billed, CampaignStatus, Ended, Upcoming
<1> QED BY Invariance, <1>1, PTL

\* No discount is applied by a request that ran outside its campaign.
THEOREM OnlyWhileOpen == Spec => []AppliedWhileOpen
<1>1. ASSUME IInv PROVE AppliedWhileOpen
  <2> SUFFICES ASSUME NEW i \in Invocation, IsSeasonal(program), req[i].kind = "redeem",
                      status[i] = 200 \/ pc[i] \in {"push_card", "push_program", "put"}
               PROVE  i \in opened
    BY DEF AppliedWhileOpen
  <2> QED BY <1>1 DEF IInv, Local, UsesOffer, TillLabel
<1> QED BY Invariance, <1>1, PTL

\* Every column some successful PATCH sent has the value a sender gave it.
THEOREM EditsSurvive == Spec => []NoLostEdit
<1>1. ASSUME IInv PROVE NoLostEdit
  <2> SUFFICES
        ASSUME Settled, NEW c \in Column, NEW i \in Invocation, status[i] = 200,
               req[i].kind = "patch", req[i].caller = "owner", req[i].found,
               c \in DOMAIN PatchOf(program, req[i].body)
        PROVE  \E k \in Invocation :
                 /\ status[k] \in {200, 504} /\ req[k].kind = "patch"
                 /\ req[k].caller = "owner" /\ req[k].found
                 /\ c \in DOMAIN PatchOf(program, req[k].body) /\ program[c] = Stored(c, req[k].body[c])
    BY DEF NoLostEdit
  <2>1. pc[i] = "done"
    BY <1>1 DEF IInv, Local
  <2>2. Wrote(i, c)
    BY <2>1 DEF Wrote, Sends, OwnerPatch
  <2>3. PICK k \in Invocation : MayHaveWritten(k, c) /\ program[c] = Stored(c, req[k].body[c])
    BY <1>1, <2>2 DEF IInv, EditInv
  <2>4. ~Pushing(k)
    BY DEF Settled, Running, Pushing
  <2> QED BY <2>3, <2>4 DEF MayHaveWritten, Sends, OwnerPatch
<1> QED BY Invariance, <1>1, PTL

\* However many PATCHes overlap, the table refuses what the handler accepted only
\* where a date was moved in between, or where a price or rate sent does not fit its
\* column: for every width of the columns.
THEOREM RefusalsExplained == Spec => RefusedByCrossedDatesOrOverflow
<1>1. ASSUME IInv, [Next]_vars
      PROVE  [\A i \in Invocation :
                (status[i] # 500 /\ status'[i] = 500)
                  => \/ program.valid_from # row[i].valid_from
                     \/ program.valid_until # row[i].valid_until
                     \/ Overflows(PatchOf(row[i], req[i].body))]_vars
  <2> SUFFICES ASSUME Next, NEW i \in Invocation, status[i] # 500, status'[i] = 500,
                      program.valid_from = row[i].valid_from,
                      program.valid_until = row[i].valid_until,
                      ~Overflows(PatchOf(row[i], req[i].body))
               PROVE  FALSE
    BY <1>1
  <2>1. status \in [Invocation -> Code] /\ pc \in [Invocation -> Label]
    BY <1>1, LocalTypes DEF IInv
  <2>2. PICK j \in Invocation : Step(j)
    BY DEF Next, Midnight
  <2>3. j = i
    BY <1>1, <2>2, StepFrame
  <2>4. UpdateProgram(i)
    BY <2>1, <2>2, <2>3 DEF Step, Goto, Answer, Arrive, PatchRead, ListCards, SyncClass, PushPass,
                            ReadCard, CheckOperation, Commit, PushReadCard, PushReadProgram,
                            PushOperation, Crash
  <2>5. /\ program \in Row /\ row[i] \in Row /\ req[i] \in Request /\ Checked(i)
        /\ GoodRow(program) /\ row[i].type = program.type
    BY <1>1, <2>4, LocalTypes DEF IInv, Local, UpdateProgram
  <2>6. LET patch == PatchOf(row[i], req[i].body)
        IN TableTakes(patch, WritePatch(program, row[i], patch))
    BY <2>5, CheckedIsTaken DEF Checked, TableTakes
  <2> QED BY <2>1, <2>4, <2>6 DEF UpdateProgram, Goto, Answer
<1> QED BY Invariance, <1>1, PTL DEF Spec, RefusedByCrossedDatesOrOverflow

\* Once no request runs, every pass shows its card and its program, whatever edits and
\* operations overlapped, unless its last push was lost or built from a row that
\* another request then changed; the template has only cells the pass fills.
THEOREM PassesUpToDate == Spec => []PassesFollowProgram
<1>1. Init => PassInv
  <2> SUFFICES ASSUME Init PROVE PassInv
    OBVIOUS
  <2>1. class = CardRows(program) /\ \A c \in Card : pass[c] = Payload(c)
    BY DEF Init
  <2> QED BY <2>1 DEF PassInv
<1>2. IInv /\ PassInv /\ [Next]_vars => PassInv'
  BY PassStep
<1>3. ASSUME PassInv PROVE PassesFollowProgram
  <2> SUFFICES ASSUME Settled PROVE PassesFollowProgram
    BY DEF PassesFollowProgram
  <2>1. \A i \in Invocation : Owed(i) = {}
    BY DEF Settled, Running, Owed
  <2>2. /\ \A c \in Card \ excused : pass[c] = Payload(c)
        /\ Template \notin excused => class = CardRows(program)
    BY <1>3, <2>1 DEF PassInv
  <2>3. \A c \in Card : CardRows(program) \subseteq DOMAIN Payload(c).modules
    BY TemplateCellsFilled DEF Payload
  <2> QED BY <2>2, <2>3 DEF PassesFollowProgram
<1> QED BY Invariance, <1>1, <1>2, <1>3, PTL DEF Spec
=============================================================================
