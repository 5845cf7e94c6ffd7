----------------------------- MODULE MCPrograms -----------------------------
(***************************************************************************)
(* Bounded instances of Programs for TLC.                                     *)
(***************************************************************************)
EXTENDS Programs, TLC

CONSTANTS c1, c2, c3

\* One program of each kind; two campaigns, one with an offer in words only, and
\* two that POST refuses; a price that does not fit its column.
Made(type, mechanic, price, reward, percent, from, until) ==
  [type |-> type, mechanic |-> mechanic, stamps_for_reward |-> price,
   points_for_reward |-> price, points_per_dollar |-> 10 * Scale, reward |-> reward,
   discount_percent |-> percent, valid_from |-> from, valid_until |-> until,
   color |-> "none"]

CreateBodies ==
  {Made("loyalty_stamps", "stamps", 2, "text", 0, NoDate, NoDate),
   Made("loyalty_points", "points", 2, "none", 0, NoDate, NoDate),
   Made("membership_pass", "none", 0, "none", 5, NoDate, NoDate),
   Made("seasonal_discount", "none", 0, "text", 0, 1, 1),
   Made("seasonal_discount", "none", 0, "newline", 10, 1, 2),
   Made("seasonal_discount", "none", 0, "spaces", 0, 1, 2),
   Made("seasonal_discount", "none", 0, "text", 0, 2, 1),
   Made("loyalty_points", "points", MaxInteger + 1, "none", 0, NoDate, NoDate)}

Sent(column, value) == [c \in {column} |-> value]

\* Of the rates, 15 is rounded and the largest only overflows once it is rounded.
Bodies ==
  {<<>>, Sent("color", "red"), Sent("stamps_for_reward", 1), Sent("reward", "newline"),
   Sent("reward", "empty"), Sent("discount_percent", 10), Sent("points_per_dollar", 15),
   Sent("points_per_dollar", 10 * MaxRate + 5), Sent("stamps_for_reward", MaxInteger + 1),
   Sent("valid_from", 2),
   Sent("valid_until", 1), Sent("active", FALSE),
   [valid_from |-> 2, valid_until |-> 2, color |-> "red"]}

NoAdd == [stamps |-> 0, amount |-> -1]
OfOwner(body) == [kind |-> "patch", caller |-> "owner", found |-> TRUE, card |-> c1,
                  body |-> body, add |-> NoAdd]
AtTill(kind, add) == [kind |-> kind, caller |-> "till", found |-> TRUE, card |-> c1,
                      body |-> <<>>, add |-> add]

Requests ==
  {OfOwner(b) : b \in Bodies}
    \cup {AtTill("accrue", [stamps |-> 3, amount |-> 3 * Scale]),
          AtTill("accrue", NoAdd), AtTill("redeem", NoAdd)}
    \cup {[OfOwner(Sent("color", "red")) EXCEPT !.caller = "other"],
          [OfOwner(Sent("color", "red")) EXCEPT !.found = FALSE],
          [OfOwner(Sent("color", "red")) EXCEPT !.caller = "till"],
          [AtTill("redeem", NoAdd) EXCEPT !.caller = "other"]}

\* Requests name c1; the two others are alike.
Symmetries == Permutations(Invocation) \cup Permutations({c2, c3})
=============================================================================
