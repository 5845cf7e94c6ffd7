----------------------------- MODULE PassLayout -----------------------------
(***************************************************************************)
(* What a Google Wallet pass shows (providers/wallet.py, google_wallet.py).    *)
(* The program's class holds the template, a set of cell ids; the card's object *)
(* holds a text module for each cell.  Labels, language and images are left     *)
(* out; a missing target or percentage is 0, a missing reward "none".           *)
(***************************************************************************)
EXTENDS Integers

MaxStampDots == 12

Least(a, b) == IF a < b THEN a ELSE b

\* stamp_strip: the filled and the empty dots
StampStrip(stamps, target) ==
  LET filled == Least(stamps, target)
  IN <<"stamps", filled, target - filled>>

\* A reward text is truthy: neither null ("none") nor the empty string.
HasReward(program) == program.reward \notin {"none", "empty"}

HasStrip(program) ==
  /\ program.type = "loyalty_stamps"
  /\ program.stamps_for_reward \in 1..MaxStampDots

\* _card_rows: the cells of the template, decided by the program alone
CardRows(program) ==
  {"hdr2", "hdr3", "sec1", "sec2"}
    \cup (IF program.type # "seasonal_discount" \/ program.discount_percent # 0
          THEN {"hdr1"} ELSE {})
    \cup (IF HasStrip(program) THEN {"hdr0"} ELSE {})
    \cup (IF HasReward(program) THEN {"sec0"} ELSE {})

\* The progress cell; with no target the count stands alone.
Progress(held, total) ==
  IF total = 0 THEN <<"progress", held>> ELSE <<"progress", Least(held, total), total>>

SeasonalModules(card, program) ==
  [id \in {"hdr2", "hdr3"} \cup (IF program.discount_percent # 0 THEN {"hdr1"} ELSE {}) |->
     CASE id = "hdr1" -> <<"discount", program.discount_percent>>
       [] id = "hdr2" -> <<"valid", program.valid_from, program.valid_until>>
       [] id = "hdr3" -> <<"status", IF card.rewards_redeemed >= 1 THEN "used" ELSE "available">>]

MembershipModules ==
  [id \in {"hdr1", "hdr2", "hdr3"} |-> <<"membership", id>>]

AccumulationModules(card, program) ==
  LET held == IF program.type = "loyalty_points" THEN card.points ELSE card.stamps
      total == IF program.type = "loyalty_points" THEN program.points_for_reward
                                                  ELSE program.stamps_for_reward
  IN [id \in {"hdr1", "hdr2", "hdr3"} \cup (IF HasStrip(program) THEN {"hdr0"} ELSE {}) |->
        CASE id = "hdr0" -> StampStrip(held, total)
          [] id = "hdr1" -> Progress(held, total)
          [] id = "hdr2" -> <<"to_redeem", card.rewards_available>>
          [] id = "hdr3" -> <<"redeemed", card.rewards_redeemed>>]

\* Faulty variant of Footer: no reward cell.
FooterWithoutReward(program) == {"sec1", "sec2"}

\* The cells below the status row: reward or offer, member, email.
Footer(program) ==
  {"sec1", "sec2"} \cup (IF HasReward(program) THEN {"sec0"} ELSE {})

\* _text_modules
TextModules(card, program) ==
  LET header == CASE program.type = "seasonal_discount" -> SeasonalModules(card, program)
                  [] program.type = "membership_pass" -> MembershipModules
                  [] OTHER -> AccumulationModules(card, program)
  IN [id \in DOMAIN header \cup Footer(program) |->
        IF id \in DOMAIN header THEN header[id]
        ELSE IF id = "sec0" THEN <<"reward", program.reward>> ELSE <<id>>]

\* _object_payload: a PUT of it replaces the whole object
ObjectPayload(card, program) ==
  [modules |-> TextModules(card, program),
   interval |-> IF program.type = "seasonal_discount"
                THEN <<program.valid_from, program.valid_until>> ELSE <<>>,
   hexBackgroundColor |-> program.color]
=============================================================================
