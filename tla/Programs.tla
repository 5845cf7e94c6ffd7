------------------------------ MODULE Programs ------------------------------
(***************************************************************************)
(* The programs service (services/programs): creating a program, editing it,  *)
(* and pushing an edit to the passes already issued, beside the operations of  *)
(* the till on the same cards (of which CardOperations has the idempotency,    *)
(* the fraud guard and the transaction).  One program; an Invocation is one    *)
(* HTTP request, and an action one Data API or wallet call with the local      *)
(* computation up to the next one.                                            *)
(***************************************************************************)
EXTENDS RewardLogic, Campaigns, PassLayout, FiniteSets

CONSTANTS
  Invocation,
  Card,
  CreateBody,     \* ProgramCreate bodies the program may have been made from
  Request,        \* what clients send: see RequestAssumption
  PushLimit,      \* WALLET_PUSH_MAX_CARDS
  MaxDay,         \* bound on the date
  MaxInteger,     \* the largest value of an integer column (2^31 - 1)
  MaxRate,        \* the largest points_per_dollar, a numeric(10,2) (10^8 - 0.01)
  Faults          \* which of "wallet", "crash" can happen

\* Columns a PATCH can set; `color` stands for the name and the images too, the
\* occasion and the inactivity window are left out.
SeasonalColumn == {"discount_percent", "valid_from", "valid_until"}
Visible == {"color", "stamps_for_reward", "points_for_reward", "reward"} \cup SeasonalColumn
Column == Visible \cup {"points_per_dollar", "active"}
Reward == {"none", "empty", "spaces", "newline", "text"}
Day == 1..MaxDay
Mechanic == {"stamps", "points", "none"}

\* What POST lets through; a field that is not sent is 0, NoDate or "none".
ProgramCreate ==
  [type: {"loyalty_stamps", "loyalty_points", "membership_pass", "seasonal_discount"},
   mechanic: Mechanic, stamps_for_reward: Nat, points_for_reward: Nat,
   points_per_dollar: Nat, reward: Reward, discount_percent: 0..100,
   valid_from: Day \cup {NoDate}, valid_until: Day \cup {NoDate}, color: STRING]

\* What PATCH lets through: null is "not sent", so neither a percentage nor a date
\* can be taken back.  Like POST it sets prices and rates no upper bound, and a
\* rate is sent in tenths of the last digit its column keeps.
ProgramUpdate ==
  [c \in Column |-> CASE c = "active" -> BOOLEAN
                      [] c = "color" -> STRING
                      [] c = "reward" -> Reward \ {"none"}
                      [] c = "discount_percent" -> 1..100
                      [] c \in {"valid_from", "valid_until"} -> Day
                      [] c \in {"stamps_for_reward", "points_for_reward"} -> Nat \ {0}
                      [] OTHER -> Nat]

\* programs, as POST /programs writes it and PATCH leaves it
Row ==
  [type: {"loyalty_stamps", "loyalty_points", "membership_pass", "seasonal_discount"},
   mechanic: Mechanic, active: BOOLEAN, stamps_for_reward: 0..MaxInteger,
   points_for_reward: 0..MaxInteger, points_per_dollar: 0..MaxRate, reward: Reward,
   discount_percent: 0..100, valid_from: Day \cup {NoDate},
   valid_until: Day \cup {NoDate}, color: STRING]

\* The balances' integer columns are not bounded here.
CardRow == [stamps: Nat, points: Nat, rewards_available: Nat, rewards_redeemed: Nat,
            active: BOOLEAN]

ASSUME CreateAssumption == CreateBody \subseteq ProgramCreate

\* caller: the owner of the program's merchant, its till, or another merchant's owner.
\* A body is a function from the columns it sets; `add` is read by an accrual only.
ASSUME RequestAssumption ==
  \A r \in Request :
    /\ r.kind \in {"patch", "accrue", "redeem"} /\ r.caller \in {"owner", "till", "other"}
    /\ r.found \in BOOLEAN /\ r.card \in Card
    /\ DOMAIN r.body \subseteq Column
    /\ \A c \in DOMAIN r.body : r.body[c] \in ProgramUpdate[c]
    /\ r.add \in [stamps: Nat, amount: Nat \cup {-1}]

ASSUME BoundAssumption ==
  /\ PushLimit \in Nat /\ MaxDay \in Nat \ {0} /\ MaxInteger \in Nat /\ MaxRate \in Nat
  /\ IsFiniteSet(Card) /\ Faults \subseteq {"wallet", "crash"}

VARIABLES
  program, cards,     \* the tables
  class,              \* wallet: the cells of the program's template
  pass,               \* wallet: the object of each card
  today,
  req, pc,
  row,                \* local: the program row last read or returned
  seen,               \* local: the card rows last read
  todo,               \* local: cards still to push
  status,
  excused,            \* history: what the wallet may lag behind on, see PassesFollowProgram
  opened              \* history: invocations during which the campaign was active

wallet == <<class, pass>>
vars == <<program, cards, wallet, today, req, pc, row, seen, todo, status, excused, opened>>

Template == "template"

\* What may lag behind is named by its card or as the template.
ASSUME TemplateAssumption == Template \notin Card

Label == {"idle", "start", "update", "list_cards", "sync", "push", "check", "commit",
          "push_card", "push_program", "put", "done"}

-----------------------------------------------------------------------------
(* The columns of the table.                                                  *)

NumberColumn == {"stamps_for_reward", "points_for_reward", "points_per_dollar"}

Largest(column) == IF column = "points_per_dollar" THEN MaxRate ELSE MaxInteger

\* numeric(10,2) rounds a rate to its last digit, a half upwards.
Stored(column, value) ==
  IF column = "points_per_dollar" THEN (value + 5) \div 10 ELSE value

StoredValues(values) == [c \in DOMAIN values |-> Stored(c, values[c])]

\* A number its column cannot hold: Postgres refuses the statement.
Overflows(values) ==
  \E c \in NumberColumn \cap DOMAIN values : Stored(c, values[c]) > Largest(c)

-----------------------------------------------------------------------------
(* POST /programs.                                                            *)

\* By the handler, then by the table.
CreateAccepted(body) ==
  /\ body.type = "seasonal_discount" => ValidSeasonal(body)
  /\ ~Overflows(body)

CreatedRow(body) ==
  LET seasonal == body.type = "seasonal_discount"
  IN [column \in DOMAIN body \cup {"active"} |->
        CASE column = "active" -> TRUE
          [] column = "mechanic" /\ seasonal -> "none"
          [] column = "discount_percent" /\ ~seasonal -> 0
          [] column \in {"valid_from", "valid_until"} /\ ~seasonal -> NoDate
          [] OTHER -> Stored(column, body[column])]

-----------------------------------------------------------------------------
(* PATCH /programs/{id}: the pure part.                                       *)

\* Each seasonal column is ignored on any other kind of program.
PatchOf(p, body) ==
  [column \in {c \in DOMAIN body : c \in SeasonalColumn => IsSeasonal(p)} |-> body[column]]

\* {**p, **patch}
Merged(p, patch) == [c \in DOMAIN p |-> IF c \in DOMAIN patch THEN patch[c] ELSE p[c]]

\* An UPDATE of the whole merged row (faulty variant).
WriteWholeRow(stored, read, patch) == Merged(read, StoredValues(patch))

\* What UPDATE makes of the stored row.
WritePatch(stored, read, patch) == Merged(stored, StoredValues(patch))

\* Faulty variants of Refused: the date order is left to the table, or an edit
\* of the reward is not checked.
RefusedWithoutOrder(p, patch) ==
  /\ IsSeasonal(p) /\ DOMAIN patch \cap (SeasonalColumn \cup {"reward"}) # {}
  /\ ~ValidSeasonal([Merged(p, patch) EXCEPT !.valid_until = MaxDay])

RefusedOnDatesOnly(p, patch) ==
  /\ IsSeasonal(p) /\ DOMAIN patch \cap SeasonalColumn # {}
  /\ ~ValidSeasonal(Merged(p, patch))

\* validate_seasonal on the merged row, when the offer or a date is touched
Refused(p, patch) ==
  /\ IsSeasonal(p) /\ DOMAIN patch \cap (SeasonalColumn \cup {"reward"}) # {}
  /\ ~ValidSeasonal(Merged(p, patch))

\* The UPDATE passes the columns' types and the table's checks.
TableTakes(patch, after) ==
  ~Overflows(patch) /\ SeasonalShapeCheck(after) /\ ValidRangeCheck(after)

\* A list of visible columns without the reward (faulty variant).
ChangesLessReward(before, patch) ==
  \E c \in (Visible \ {"reward"}) \cap DOMAIN patch : patch[c] # before[c]

\* Compared with the row as it was read, not with the row the UPDATE found.
ChangesPass(before, patch) == \E c \in Visible \cap DOMAIN patch : patch[c] # before[c]

-----------------------------------------------------------------------------
Running(i) == pc[i] \notin {"idle", "done"}
Goto(i, label) == pc' = [pc EXCEPT ![i] = label]
Answer(i, code) == status' = [status EXCEPT ![i] = code] /\ Goto(i, "done")

Payload(c) == ObjectPayload(cards[c], program)

\* What is left unpushed when i stops here.
Owed(i) ==
  CASE pc[i] = "list_cards" -> Card \cup {Template}
    [] pc[i] = "sync" -> todo[i] \cup {Template}
    [] pc[i] = "push" -> todo[i]
    [] pc[i] \in {"push_card", "push_program", "put"} -> {req[i].card}
    [] OTHER -> {}

\* PUT of the pass of card c from what i has read; provider errors are swallowed.
PutPass(i, c) ==
  LET payload == ObjectPayload(seen[i][c], row[i])
  IN \/ /\ pass' = [pass EXCEPT ![c] = payload]
        /\ excused' = IF payload = Payload(c) THEN excused \ {c} ELSE excused \cup {c}
     \/ "wallet" \in Faults /\ UNCHANGED pass /\ excused' = excused \cup {c}

-----------------------------------------------------------------------------
Init ==
  /\ program \in {CreatedRow(b) : b \in {body \in CreateBody : CreateAccepted(body)}}
  /\ cards = [c \in Card |->
       Balance(0, 0, IF program.mechanic = "none" /\ ~IsSeasonal(program) THEN 0 ELSE 1,
               0, TRUE)]
  /\ class = CardRows(program) /\ pass = [c \in Card |-> Payload(c)]
  /\ today = 1 /\ req = [i \in Invocation |-> <<>>] /\ pc = [i \in Invocation |-> "idle"]
  /\ row = [i \in Invocation |-> program] /\ seen = [i \in Invocation |-> cards]
  /\ todo = [i \in Invocation |-> {}] /\ status = [i \in Invocation |-> 0]
  /\ excused = {} /\ opened = {}

Arrive(i) ==
  /\ pc[i] = "idle" /\ \E r \in Request : req' = [req EXCEPT ![i] = r]
  /\ Goto(i, "start")
  /\ UNCHANGED <<program, cards, wallet, today, row, seen, todo, status, excused>>

-----------------------------------------------------------------------------
(* PATCH: the reads and writes.                                               *)

PatchRead(i) ==
  /\ pc[i] = "start" /\ req[i].kind = "patch"
  /\ LET patch == PatchOf(program, req[i].body)
     IN \/ req[i].caller = "till" /\ Answer(i, 403) /\ UNCHANGED row
        \/ req[i].caller # "till" /\ ~req[i].found /\ Answer(i, 404) /\ UNCHANGED row
        \/ req[i].caller = "other" /\ req[i].found /\ Answer(i, 403) /\ UNCHANGED row
        \/ /\ req[i].caller = "owner" /\ req[i].found
           /\ row' = [row EXCEPT ![i] = program]
           /\ \/ Refused(program, patch) /\ Answer(i, 422)
              \/ ~Refused(program, patch) /\ patch = <<>> /\ Answer(i, 200)
              \/ /\ ~Refused(program, patch) /\ patch # <<>>
                 /\ Goto(i, "update") /\ UNCHANGED status
  /\ UNCHANGED <<program, cards, wallet, today, req, seen, todo, excused>>

\* The UPDATE, which the table may refuse, and the decision to push.  A
\* push another edit made this one skip leaves the passes behind.
UpdateProgram(i) ==
  /\ pc[i] = "update"
  /\ LET patch == PatchOf(row[i], req[i].body)
         after == WritePatch(program, row[i], patch)
     IN IF TableTakes(patch, after)
        THEN /\ program' = after /\ row' = [row EXCEPT ![i] = after]
             /\ IF ChangesPass(row[i], patch)
                THEN Goto(i, "list_cards") /\ UNCHANGED <<status, excused>>
                ELSE /\ Answer(i, 200)
                     /\ excused' = IF program = row[i] THEN excused
                                   ELSE excused \cup Card \cup {Template}
        ELSE Answer(i, 500) /\ UNCHANGED <<program, row, excused>>
  /\ UNCHANGED <<cards, wallet, today, req, seen, todo>>

\* list_card_rows takes any PushLimit cards, and without a card the template is
\* not sent either; the read, or that of the merchant, may fail, which ends the
\* push but not the request.
ListCards(i) ==
  /\ pc[i] = "list_cards"
  /\ \/ \E listed \in SUBSET Card :
          /\ Cardinality(listed) = Least(PushLimit, Cardinality(Card))
          /\ seen' = [seen EXCEPT ![i] = cards]
          /\ todo' = [todo EXCEPT ![i] = listed]
          /\ excused' = excused \cup (Card \ listed)
                                \cup (IF listed = {} THEN {Template} ELSE {})
          /\ IF listed = {} THEN Answer(i, 200) ELSE Goto(i, "sync") /\ UNCHANGED status
     \/ /\ "wallet" \in Faults /\ Answer(i, 200) /\ excused' = excused \cup Owed(i)
        /\ UNCHANGED <<seen, todo>>
  /\ UNCHANGED <<program, cards, wallet, today, req, row>>

\* sync_program: PUT of the class
SyncClass(i) ==
  /\ pc[i] = "sync" /\ Goto(i, "push")
  /\ \/ /\ class' = CardRows(row[i])
        /\ excused' = IF class' = CardRows(program) THEN excused \ {Template}
                                                    ELSE excused \cup {Template}
     \/ "wallet" \in Faults /\ UNCHANGED class /\ excused' = excused \cup {Template}
  /\ UNCHANGED <<program, cards, pass, today, req, row, seen, todo, status>>

PushPass(i) ==
  /\ pc[i] = "push"
  /\ \E c \in todo[i] :
       /\ PutPass(i, c)
       /\ todo' = [todo EXCEPT ![i] = @ \ {c}]
       /\ IF todo[i] = {c} THEN Answer(i, 200) ELSE UNCHANGED <<pc, status>>
  /\ UNCHANGED <<program, cards, class, today, req, row, seen>>

-----------------------------------------------------------------------------
(* Operations of the till.                                                    *)

Operates(i) == req[i].kind \in {"accrue", "redeem"}

ReadCard(i) ==
  /\ pc[i] = "start" /\ Operates(i)
  /\ IF req[i].caller = "other" \/ ~req[i].found
     THEN Answer(i, IF req[i].found THEN 403 ELSE 404) /\ UNCHANGED seen
     ELSE seen' = [seen EXCEPT ![i] = cards] /\ Goto(i, "check") /\ UNCHANGED status
  /\ UNCHANGED <<program, cards, wallet, today, req, row, todo, excused>>

\* No check of the campaign (faulty variant).
NeverClosed(p, day) == FALSE

\* require_active, for a seasonal card
Closed(p, day) == IsSeasonal(p) /\ CampaignStatus(p, day) # "active"

\* get_rules for an accrual; for a redemption get_program, if the card is seasonal
CheckOperation(i) ==
  /\ pc[i] = "check"
  /\ LET balance == seen[i][req[i].card]
     IN \/ /\ req[i].kind = "accrue"
           /\ IF AccrueRefused(program, balance, req[i].add)
              THEN Answer(i, 422) ELSE Goto(i, "commit") /\ UNCHANGED status
        \/ /\ req[i].kind = "redeem"
           /\ CASE Closed(program, today) -> Answer(i, 422)
                [] ~Closed(program, today) /\ RedeemRefused(balance) -> Answer(i, 409)
                [] OTHER -> Goto(i, "commit") /\ UNCHANGED status
  /\ row' = [row EXCEPT ![i] = program]
  /\ UNCHANGED <<program, cards, wallet, today, req, seen, todo, excused>>

Commit(i) ==
  /\ pc[i] = "commit"
  /\ LET balance == seen[i][req[i].card]
     IN cards' = [cards EXCEPT ![req[i].card] =
                    IF req[i].kind = "accrue"
                    THEN AccrueOutcome(row[i], balance, req[i].add).state
                    ELSE RedeemedState(balance)]
  /\ Goto(i, "push_card")
  /\ UNCHANGED <<program, wallet, today, req, row, seen, todo, status, excused>>

\* _push_wallet_update reads the card, then the program, then pushes.
PushReadCard(i) ==
  /\ pc[i] = "push_card" /\ Goto(i, "push_program")
  /\ seen' = [seen EXCEPT ![i] = cards]
  /\ UNCHANGED <<program, cards, wallet, today, req, row, todo, status, excused>>

PushReadProgram(i) ==
  /\ pc[i] = "push_program" /\ Goto(i, "put")
  /\ row' = [row EXCEPT ![i] = program]
  /\ UNCHANGED <<program, cards, wallet, today, req, seen, todo, status, excused>>

PushOperation(i) ==
  /\ pc[i] = "put" /\ PutPass(i, req[i].card) /\ Answer(i, 200)
  /\ UNCHANGED <<program, cards, class, today, req, row, seen, todo>>

-----------------------------------------------------------------------------
\* The Lambda is stopped (its 15 seconds are over, or a crash).
Crash(i) ==
  /\ "crash" \in Faults
  /\ Running(i) /\ pc[i] # "start" /\ Answer(i, 504) /\ excused' = excused \cup Owed(i)
  /\ UNCHANGED <<program, cards, wallet, today, req, row, seen, todo>>

Midnight ==
  /\ today < MaxDay /\ today' = today + 1
  /\ UNCHANGED <<program, cards, wallet, req, pc, row, seen, todo, status, excused>>

Step(i) ==
  \/ Arrive(i) \/ PatchRead(i) \/ UpdateProgram(i) \/ ListCards(i) \/ SyncClass(i)
  \/ PushPass(i) \/ ReadCard(i) \/ CheckOperation(i) \/ Commit(i) \/ PushReadCard(i)
  \/ PushReadProgram(i) \/ PushOperation(i) \/ Crash(i)

Next ==
  /\ Midnight \/ \E i \in Invocation : Step(i)
  /\ opened' = opened \cup {i \in Invocation : /\ pc'[i] \notin {"idle", "done"}
                                               /\ CampaignStatus(program', today') = "active"}

Spec == Init /\ [][Next]_vars

-----------------------------------------------------------------------------
(* Properties.                                                                *)

\* Rows stay within their columns' types: no balance becomes negative.
TypeOK ==
  /\ program \in Row
  /\ cards \in [Card -> CardRow] /\ seen \in [Invocation -> [Card -> CardRow]]
  /\ DOMAIN pass = Card /\ today \in Day
  /\ pc \in [Invocation -> Label] /\ row \in [Invocation -> Row]
  /\ todo \in [Invocation -> SUBSET Card]
  /\ status \in [Invocation -> {0, 200, 403, 404, 409, 422, 500, 504}]
  /\ excused \subseteq Card \cup {Template} /\ opened \subseteq Invocation

Settled == \A i \in Invocation : ~Running(i)

\* Once no request runs, a pass shows its card and program, and the template has
\* only cells the pass fills (_push_appearance_to_passes, _push_wallet_update,
\* google_wallet.py:300-303), whatever requests ran together, except where the
\* last push was lost, or was built from a row another request then changed.
PassesFollowProgram ==
  Settled =>
    /\ \A c \in Card \ excused : pass[c] = Payload(c)
    /\ Template \notin excused => class = CardRows(program)
    /\ Template \notin excused =>
         \A c \in Card \ excused : class \subseteq DOMAIN pass[c].modules

\* Edits of a column made at once do not undo each other's other columns: every
\* column some successful PATCH sent has the value one of its senders gave it, as
\* far as the column keeps its digits.
NoLostEdit ==
  Settled =>
    \A c \in Column :
      LET senders == {i \in Invocation : status[i] \in {200, 504} /\ req[i].kind = "patch"
                                         /\ req[i].caller = "owner" /\ req[i].found
                                         /\ c \in DOMAIN PatchOf(program, req[i].body)}
      IN (\E i \in senders : status[i] = 200)
           => \E i \in senders : program[c] = Stored(c, req[i].body[c])

\* A seasonal campaign has its dates in order and an offer that can be read at
\* all times, although two PATCHes each validate a row the other may change and
\* the table takes a reward of line breaks for an offer.
OfferStands == IsSeasonal(program) => ValidSeasonal(program)

\* The table refuses what the handler accepted (an unhandled 500) in two cases
\* only: another PATCH moved a date of the campaign between the read and the UPDATE,
\* or a price or rate sent is beyond its column.  So a PATCH that runs alone with
\* numbers that fit is never let down by the handler's check of the merged row, and
\* one that races with edits of the offer alone is not either.
RefusedByCrossedDatesOrOverflow ==
  [][\A i \in Invocation :
       (status[i] # 500 /\ status'[i] = 500)
         => \/ program.valid_from # row[i].valid_from
            \/ program.valid_until # row[i].valid_until
            \/ Overflows(PatchOf(row[i], req[i].body))]_vars

\* The billing view and campaign_status agree on the window, each in its own
\* arithmetic: an active card of an open campaign counts, one of an ended
\* campaign does not, on the last day and the day after it too.
BilledWhileUsable ==
  /\ CampaignStatus(program, today) = "active" => Billed(program, TRUE, today)
  /\ CampaignStatus(program, today) = "ended" => ~Billed(program, TRUE, today)

\* A discount is applied only by a request during which its campaign was active,
\* although a PATCH or midnight may close it before the redemption is written.
AppliedWhileOpen ==
  \A i \in Invocation :
    (/\ IsSeasonal(program) /\ req[i] # <<>> /\ req[i].kind = "redeem"
     /\ status[i] = 200 \/ pc[i] \in {"push_card", "push_program", "put"})
      => i \in opened
=============================================================================
