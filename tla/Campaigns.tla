----------------------------- MODULE Campaigns -----------------------------
(***************************************************************************)
(* The campaign rules of conpass_common/campaigns.py.  Dates are day numbers  *)
(* in Ecuador time; a null date is NoDate.                                    *)
(***************************************************************************)
EXTENDS Integers

NoDate == 0

ProgramRow == [type: {"loyalty_stamps", "loyalty_points", "membership_pass",
                      "seasonal_discount"},
               active: BOOLEAN, valid_from: Nat, valid_until: Nat,
               mechanic: {"stamps", "points", "none"}, welcome_bonus: Int]

IsSeasonal(program) == program.type = "seasonal_discount"

\* Faulty variant of Upcoming: the window opens a day early.
OpensEarly(program, today) ==
  IsSeasonal(program) /\ program.valid_from # NoDate /\ today + 1 < program.valid_from

Upcoming(program, today) ==
  IsSeasonal(program) /\ program.valid_from # NoDate /\ today < program.valid_from

Ended(program, today) ==
  IsSeasonal(program) /\ program.valid_until # NoDate /\ today > program.valid_until

CampaignStatus(program, today) ==
  CASE ~program.active -> "disabled"
    [] program.active /\ Upcoming(program, today) -> "upcoming"
    [] program.active /\ ~Upcoming(program, today) /\ Ended(program, today) -> "ended"
    [] OTHER -> "active"

\* validate_seasonal: strip() leaves nothing of a blank reward.  A missing
\* percentage is 0, a null reward "none".
BlankText(reward) == reward \in {"none", "empty", "spaces", "newline"}

ValidSeasonal(program) ==
  /\ program.valid_from # NoDate /\ program.valid_until # NoDate
  /\ program.valid_until >= program.valid_from
  /\ program.discount_percent # 0 \/ ~BlankText(program.reward)

\* The table's twin of it: btrim() removes spaces only.
SeasonalShapeCheck(program) ==
  IsSeasonal(program) =>
    /\ program.valid_from # NoDate /\ program.valid_until # NoDate
    /\ program.discount_percent # 0 \/ program.reward \notin {"none", "empty", "spaces"}

ValidRangeCheck(program) ==
  program.valid_from # NoDate /\ program.valid_until # NoDate
    => program.valid_until >= program.valid_from

\* Faulty variant of Billed: the last day no longer counts.
BilledBeforeLastDay(program, active, today) ==
  active /\ ~(IsSeasonal(program) /\ program.valid_until <= today)

\* The billing view merchant_active_passes: does an active card count?
Billed(program, active, today) ==
  active /\ ~(IsSeasonal(program) /\ program.valid_until < today)
=============================================================================
