--------------------------- MODULE CardOperations ---------------------------
(***************************************************************************)
(* The in-store operations of services/operations: accrue and redeem, each   *)
(* run under an Idempotency-Key by conpass_common/idempotency.py.            *)
(*                                                                         *)
(* An Invocation is one HTTP request handled by one Lambda instance; a retry *)
(* of the same request is another Invocation with an equal request.  Every   *)
(* Data API call is one atomic statement and no two calls share a            *)
(* transaction, so an action below is one call and the local computation up  *)
(* to the next one.  Invocations interleave freely between calls.            *)
(***************************************************************************)
EXTENDS RewardLogic, FiniteSets

CONSTANTS
  Invocation,      \* handled HTTP requests; also the ids of their transactions
  Key,             \* Idempotency-Key values
  Card,            \* card ids a request can name
  Merchant,
  Operator,        \* values of the request's operationUserId
  Profile,         \* the operators that have a profiles row
  Request,         \* what clients send
  Rules,           \* the reward rules of each card's program
  Issued,          \* the cards row of each existing card, as enrollment left it
  CardMerchant,
  Seasonal,        \* the cards of seasonal campaigns
  MaxAccruals,     \* MAX_ACCRUALS_PER_WINDOW
  Window,          \* ACCRUAL_WINDOW_SECONDS, in ticks
  MaxTime,         \* bound on the clock
  AllowOverlap,    \* may requests on one card or one key be handled together?
  Faults           \* which of "crash", "wallet" can happen

Body == [op: {"accrue", "redeem"}, card: Card, operator: Operator,
         stamps: Nat, amount: Nat \cup {-1}]

ExistingCard == DOMAIN Issued

ASSUME RequestAssumption ==
  Request \subseteq [key: Key, caller: Merchant, body: Body]

ASSUME CardAssumption ==
  /\ ExistingCard \subseteq Card
  /\ Issued \in [ExistingCard -> CardState]
  /\ Rules \in [ExistingCard -> ProgramRules]
  /\ CardMerchant \in [ExistingCard -> Merchant]
  /\ Seasonal \subseteq ExistingCard
  \* welcome bonuses are not negative, and no card is born with negative rewards
  /\ \A c \in ExistingCard :
       /\ Issued[c].stamps >= 0 /\ Issued[c].points >= 0
       /\ Issued[c].rewards_available >= 0 /\ Issued[c].rewards_redeemed >= 0

\* POST /programs gives a seasonal campaign no mechanic and PATCH has none to set.
ASSUME SeasonalAssumption == \A c \in Seasonal : Rules[c].mechanic = "none"

ASSUME BoundAssumption ==
  /\ MaxAccruals \in Nat /\ Window \in Nat /\ MaxTime \in Nat
  /\ AllowOverlap \in BOOLEAN /\ Faults \subseteq {"crash", "wallet"}
  /\ Profile \subseteq Operator

VARIABLES
  cards,                \* table cards: the balance columns
  transactions,         \* table transactions
  idempotency_records,  \* table idempotency_records
  campaign_active,      \* does require_active pass for a seasonal card's program?
  pass,                 \* the balance shown by the installed wallet pass
  now,
  pc, req,
  card_state,           \* local card.state of an invocation
  delta,                \* local kind and deltas of its TxnRow
  push_state,           \* the row _push_wallet_update read
  status,               \* HTTP status returned, 0 while there is none
  answers,              \* history: the 200 bodies handed out
  written,              \* history: the cards UPDATEs that took effect
  credited,             \* history: worth at issue plus every written accrual
  redemptions           \* history: redeemed at issue plus every written redeem

tables == <<cards, transactions, idempotency_records>>
history == <<answers, written, credited, redemptions>>
locals == <<pc, card_state, delta, push_state, status>>
environment == <<req, campaign_active, now>>
vars == <<tables, pass, environment, locals, history>>

Status == {0, 200, 403, 404, 409, 422, 429, 500, 504}
Label == {"idle", "get_card", "accrue", "redeem", "update_card", "insert_transaction",
          "push_read", "push_put", "store_put", "done"}
Kind == {"accrue_stamps", "accrue_points", "redeem"}
Delta == [kind: Kind, stamps_delta: Nat, points_delta: Nat]
Write == [inv: Invocation, state: CardState, delta: Delta]
ResponseBody == [txn: Invocation, card: Card, state: CardState, delta: Delta]

NoDelta == [kind |-> "redeem", stamps_delta |-> 0, points_delta |-> 0]
NoState == [stamps |-> 0, points |-> 0, rewards_available |-> 0,
            rewards_redeemed |-> 0, active |-> FALSE]

-----------------------------------------------------------------------------
KeyOf(i) == req[i].key
BodyOf(i) == req[i].body
CardOf(i) == req[i].body.card

Running(i) == pc[i] \notin {"idle", "done"}

RecordsFor(k) == {r \in idempotency_records : r.key = k}

\* What commit is given: the new balance and the deltas of the transaction.
WriteOf(i) == [inv |-> i, state |-> card_state[i], delta |-> delta[i]]

\* _operation_result of the committed card and transaction
Response(w) == [txn |-> w.inv, card |-> CardOf(w.inv), state |-> w.state,
                delta |-> w.delta]

RecentAccruals(c) ==
  {t \in transactions : /\ t.card = c
                        /\ t.delta.kind \in {"accrue_stamps", "accrue_points"}
                        /\ t.created_at >= now - Window}

\* Faulty variant of WindowFull: one accrual too many.
WindowOverfull(c) == Cardinality(RecentAccruals(c)) > MaxAccruals

WindowFull(c) == Cardinality(RecentAccruals(c)) >= MaxAccruals

\* What the isolated regime assumes of the clients: one request at a time on a
\* card and on a key.
MayBegin(i) ==
  \/ AllowOverlap
  \/ \A j \in Invocation : Running(j) => CardOf(j) # CardOf(i) /\ KeyOf(j) # KeyOf(i)

Goto(i, label) == pc' = [pc EXCEPT ![i] = label]

\* The handler returns or raises: its local variables are gone.
Reply(i, code) ==
  /\ Goto(i, "done")
  /\ status' = [status EXCEPT ![i] = code]
  /\ card_state' = [card_state EXCEPT ![i] = NoState]
  /\ delta' = [delta EXCEPT ![i] = NoDelta]
  /\ push_state' = [push_state EXCEPT ![i] = NoState]

Refuse(i, code) ==
  Reply(i, code) /\ UNCHANGED <<tables, pass, environment, history>>

-----------------------------------------------------------------------------
(* Faulty variants of the actions below: what the properties must catch.      *)

\* A lookup that ignores the request hash.
LookupIgnoringHash(i) ==
  /\ pc[i] = "idle" /\ MayBegin(i)
  /\ IF RecordsFor(KeyOf(i)) = {}
     THEN Goto(i, "get_card") /\ UNCHANGED <<status, card_state, delta, push_state, answers>>
     ELSE \E r \in RecordsFor(KeyOf(i)) :
            Reply(i, 200) /\ answers' = answers \cup {[inv |-> i, body |-> r.body]}
  /\ UNCHANGED <<tables, pass, environment, written, credited, redemptions>>

\* A lookup by key and hash: another body under a used key is a new operation.
LookupByHash(i) ==
  LET replayed == {r \in RecordsFor(KeyOf(i)) : r.hash = BodyOf(i)} IN
  /\ pc[i] = "idle" /\ MayBegin(i)
  /\ IF replayed = {}
     THEN Goto(i, "get_card") /\ UNCHANGED <<status, card_state, delta, push_state, answers>>
     ELSE \E r \in replayed :
            Reply(i, 200) /\ answers' = answers \cup {[inv |-> i, body |-> r.body]}
  /\ UNCHANGED <<tables, pass, environment, written, credited, redemptions>>

\* An UPDATE that leaves the reward columns out.
UpdateOmittingRewards(i) ==
  LET c == CardOf(i) IN
  /\ pc[i] = "update_card"
  /\ cards' = [cards EXCEPT ![c].stamps = card_state[i].stamps,
                            ![c].points = card_state[i].points]
  /\ Goto(i, "insert_transaction")
  /\ written' = written \cup {WriteOf(i)}
  /\ credited' = [credited EXCEPT ![c] = @ + delta[i].stamps_delta + delta[i].points_delta]
  /\ redemptions' = [redemptions EXCEPT ![c] = IF delta[i].kind = "redeem" THEN @ + 1 ELSE @]
  /\ UNCHANGED <<transactions, idempotency_records, pass, environment, card_state,
                 delta, push_state, status, answers>>

\* A push whose failure fails the operation.
PushFailureRaises(i) ==
  "wallet" \in Faults /\ pc[i] \in {"push_read", "push_put"} /\ Refuse(i, 502)

\* A put that overwrites an existing record ...
StoreUpsert(i) ==
  /\ pc[i] = "store_put"
  /\ idempotency_records' = (idempotency_records \ RecordsFor(KeyOf(i))) \cup
       {[key |-> KeyOf(i), hash |-> BodyOf(i), body |-> Response(WriteOf(i))]}
  /\ answers' = answers \cup {[inv |-> i, body |-> Response(WriteOf(i))]}
  /\ Reply(i, 200)
  /\ UNCHANGED <<cards, transactions, pass, environment, written, credited, redemptions>>

\* ... and one that waits for the key to be free.
StoreWaiting(i) ==
  /\ pc[i] = "store_put" /\ RecordsFor(KeyOf(i)) = {}
  /\ idempotency_records' = idempotency_records \cup
       {[key |-> KeyOf(i), hash |-> BodyOf(i), body |-> Response(WriteOf(i))]}
  /\ answers' = answers \cup {[inv |-> i, body |-> Response(WriteOf(i))]}
  /\ Reply(i, 200)
  /\ UNCHANGED <<cards, transactions, pass, environment, written, credited, redemptions>>

-----------------------------------------------------------------------------
Init ==
  /\ cards = Issued
  /\ transactions = {}
  /\ idempotency_records = {}
  /\ campaign_active = [c \in Seasonal |-> TRUE]
  /\ pass = Issued
  /\ now = 0
  /\ req \in [Invocation -> Request]
  /\ pc = [i \in Invocation |-> "idle"]
  /\ card_state = [i \in Invocation |-> NoState]
  /\ delta = [i \in Invocation |-> NoDelta]
  /\ push_state = [i \in Invocation |-> NoState]
  /\ status = [i \in Invocation |-> 0]
  /\ answers = {}
  /\ written = {}
  /\ credited = [c \in ExistingCard |-> Worth(Rules[c], Issued[c])]
  /\ redemptions = [c \in ExistingCard |-> Issued[c].rewards_redeemed]

\* run_idempotent: store.get(key)
LookupKey(i) ==
  /\ pc[i] = "idle" /\ MayBegin(i)
  /\ \/ /\ RecordsFor(KeyOf(i)) = {}
        /\ Goto(i, "get_card")
        /\ UNCHANGED <<status, card_state, delta, push_state, answers>>
     \/ \E r \in RecordsFor(KeyOf(i)) :
          IF r.hash = BodyOf(i)
          THEN Reply(i, 200) /\ answers' = answers \cup {[inv |-> i, body |-> r.body]}
          ELSE Reply(i, 409) /\ UNCHANGED answers
  /\ UNCHANGED <<tables, pass, environment, written, credited, redemptions>>

\* repo.get_card, 404, require_merchant
ReadCard(i) ==
  /\ pc[i] = "get_card"
  /\ \/ CardOf(i) \notin ExistingCard /\ Refuse(i, 404)
     \/ /\ CardOf(i) \in ExistingCard
        /\ CardMerchant[CardOf(i)] # req[i].caller
        /\ Refuse(i, 403)
     \/ /\ CardOf(i) \in ExistingCard
        /\ CardMerchant[CardOf(i)] = req[i].caller
        /\ card_state' = [card_state EXCEPT ![i] = cards[CardOf(i)]]
        /\ Goto(i, BodyOf(i).op)
        /\ UNCHANGED <<tables, pass, environment, delta, push_state, status, history>>

\* get_rules, recent_accrual_count and logic.accrue
DecideAccrue(i) ==
  LET rules == Rules[CardOf(i)]
      outcome == AccrueOutcome(rules, card_state[i], BodyOf(i))
  IN
  /\ pc[i] = "accrue"
  /\ \/ WindowFull(CardOf(i)) /\ Refuse(i, 429)
     \/ /\ ~WindowFull(CardOf(i))
        /\ AccrueRefused(rules, card_state[i], BodyOf(i))
        /\ Refuse(i, 422)
     \/ /\ ~WindowFull(CardOf(i))
        /\ ~AccrueRefused(rules, card_state[i], BodyOf(i))
        /\ card_state' = [card_state EXCEPT ![i] = outcome.state]
        /\ delta' = [delta EXCEPT ![i] = [kind |-> outcome.kind,
                                          stamps_delta |-> outcome.stamps_delta,
                                          points_delta |-> outcome.points_delta]]
        /\ Goto(i, "update_card")
        /\ UNCHANGED <<tables, pass, environment, push_state, status, history>>

\* get_program and require_active for a seasonal card, then logic.redeem
DecideRedeem(i) ==
  LET closed == CardOf(i) \in Seasonal /\ ~campaign_active[CardOf(i)]
  IN
  /\ pc[i] = "redeem"
  /\ \/ closed /\ Refuse(i, 422)
     \/ ~closed /\ RedeemRefused(card_state[i]) /\ Refuse(i, 409)
     \/ /\ ~closed /\ ~RedeemRefused(card_state[i])
        /\ card_state' = [card_state EXCEPT ![i] = RedeemedState(@)]
        /\ delta' = [delta EXCEPT ![i] = NoDelta]
        /\ Goto(i, "update_card")
        /\ UNCHANGED <<tables, pass, environment, push_state, status, history>>

\* The four columns commit names are overwritten, whatever the row holds now.
UpdatedRow(row, state) == [state EXCEPT !.active = row.active]

\* commit, first statement: the cards UPDATE
UpdateCard(i) ==
  LET c == CardOf(i) IN
  /\ pc[i] = "update_card"
  /\ cards' = [cards EXCEPT ![c] = UpdatedRow(cards[c], card_state[i])]
  /\ Goto(i, "insert_transaction")
  /\ written' = written \cup {WriteOf(i)}
  /\ credited' = [credited EXCEPT ![c] = @ + delta[i].stamps_delta + delta[i].points_delta]
  /\ redemptions' = [redemptions EXCEPT ![c] = IF delta[i].kind = "redeem" THEN @ + 1 ELSE @]
  /\ UNCHANGED <<transactions, idempotency_records, pass, environment, card_state,
                 delta, push_state, status, answers>>

\* commit, second statement: operation_user_id must reference a profile
InsertTransaction(i) ==
  /\ pc[i] = "insert_transaction"
  /\ \/ BodyOf(i).operator \notin Profile /\ Refuse(i, 500)
     \/ /\ BodyOf(i).operator \in Profile
        /\ transactions' = transactions \cup
             {[id |-> i, card |-> CardOf(i), delta |-> delta[i], created_at |-> now]}
        /\ Goto(i, "push_read")
        /\ UNCHANGED <<cards, idempotency_records, pass, environment, card_state,
                       delta, push_state, status, history>>

\* _push_wallet_update: get_card_row, ...
PushRead(i) ==
  /\ pc[i] = "push_read"
  /\ push_state' = [push_state EXCEPT ![i] = cards[CardOf(i)]]
  /\ Goto(i, "push_put")
  /\ UNCHANGED <<tables, pass, environment, card_state, delta, status, history>>

\* ... and the PUT of the pass built from it
PushPut(i) ==
  /\ pc[i] = "push_put"
  /\ pass' = [pass EXCEPT ![CardOf(i)] = push_state[i]]
  /\ push_state' = [push_state EXCEPT ![i] = NoState]
  /\ Goto(i, "store_put")
  /\ UNCHANGED <<tables, environment, card_state, delta, status, history>>

\* any exception of the push is logged and swallowed
PushFails(i) ==
  /\ "wallet" \in Faults
  /\ pc[i] \in {"push_read", "push_put"}
  /\ push_state' = [push_state EXCEPT ![i] = NoState]
  /\ Goto(i, "store_put")
  /\ UNCHANGED <<tables, pass, environment, card_state, delta, status, history>>

\* run_idempotent: store.put(key, ...), a plain INSERT under the primary key
StoreRecord(i) ==
  /\ pc[i] = "store_put"
  /\ \/ RecordsFor(KeyOf(i)) # {} /\ Refuse(i, 500)
     \/ /\ RecordsFor(KeyOf(i)) = {}
        /\ idempotency_records' = idempotency_records \cup
             {[key |-> KeyOf(i), hash |-> BodyOf(i), body |-> Response(WriteOf(i))]}
        /\ answers' = answers \cup {[inv |-> i, body |-> Response(WriteOf(i))]}
        /\ Reply(i, 200)
        /\ UNCHANGED <<cards, transactions, pass, environment, written, credited,
                       redemptions>>

\* The instance is killed, or a Data API call raises, between two calls.
Crash(i) == "crash" \in Faults /\ Running(i) /\ Refuse(i, 504)

Tick ==
  /\ now < MaxTime
  /\ now' = now + 1
  /\ UNCHANGED <<tables, pass, req, campaign_active, locals, history>>

\* The campaign's window opens or closes, or the owner switches it.
SwitchCampaign(c) ==
  /\ campaign_active' = [campaign_active EXCEPT ![c] = ~@]
  /\ UNCHANGED <<tables, pass, req, now, locals, history>>

Progress(i) ==
  \/ ReadCard(i) \/ DecideAccrue(i) \/ DecideRedeem(i)
  \/ UpdateCard(i) \/ InsertTransaction(i)
  \/ PushRead(i) \/ PushPut(i) \/ PushFails(i)
  \/ StoreRecord(i)

Next ==
  \/ \E i \in Invocation : LookupKey(i) \/ Progress(i) \/ Crash(i)
  \/ Tick
  \/ \E c \in Seasonal : SwitchCampaign(c)

Spec == Init /\ [][Next]_vars

\* Lambda keeps running an invocation it has started.
FairSpec == Spec /\ \A i \in Invocation : WF_vars(Progress(i))
-----------------------------------------------------------------------------
(* Properties. *)

\* Types of the tables, of the invocations' local state and of the history.
TypeOK ==
  /\ cards \in [ExistingCard -> CardState]
  /\ transactions \subseteq [id: Invocation, card: ExistingCard, delta: Delta, created_at: Nat]
  /\ idempotency_records \subseteq [key: Key, hash: Body, body: ResponseBody]
  /\ campaign_active \in [Seasonal -> BOOLEAN]
  /\ pass \in [ExistingCard -> CardState]
  /\ now \in Nat
  /\ req \in [Invocation -> Request]
  /\ pc \in [Invocation -> Label]
  /\ card_state \in [Invocation -> CardState]
  /\ delta \in [Invocation -> Delta]
  /\ push_state \in [Invocation -> CardState]
  /\ status \in [Invocation -> Status]
  /\ answers \subseteq [inv: Invocation, body: ResponseBody]
  /\ written \subseteq Write
  /\ credited \in [ExistingCard -> Int]
  /\ redemptions \in [ExistingCard -> Int]

\* Every 200 ever given for one Idempotency-Key carries the same body, whatever
\* overlaps, crashes or replays there were: run_idempotent answers only from the
\* record or right after its own INSERT of it.
OneAnswerPerKey ==
  \A a, b \in answers : KeyOf(a.inv) = KeyOf(b.inv) => a.body = b.body

\* A client told 200 can rely on it: an invocation with its key and its very
\* request wrote the card, logged the transaction with the answered deltas, and
\* computed the answered balance.
AnsweredMeansApplied ==
  \A a \in answers : \E w \in written :
    /\ KeyOf(w.inv) = KeyOf(a.inv) /\ BodyOf(w.inv) = BodyOf(a.inv)
    /\ a.body = Response(w)
    /\ \E t \in transactions :
         t.id = w.inv /\ t.card = CardOf(w.inv) /\ t.delta = w.delta

\* Races, crashes and replays may lose stamps, points or rewards but never mint
\* them: no card is worth more than its issue plus the accruals written to it,
\* nor counts more redemptions than were written.
NeverOverCredited ==
  \A c \in ExistingCard :
    /\ Worth(Rules[c], cards[c]) <= credited[c]
    /\ cards[c].rewards_redeemed <= redemptions[c]

Legal(c, state) ==
  /\ state.rewards_available >= 0 /\ state.rewards_redeemed >= 0
  /\ Price(Rules[c]) > 0 => Counter(Rules[c], state) \in 0 .. Price(Rules[c]) - 1

\* A card issued with a partial counter and no debt stays so under any
\* interleaving: logic.accrue always rolls full counters over into rewards and
\* logic.redeem never spends a reward its snapshot did not have.
BalanceStaysLegal ==
  \A c \in ExistingCard : Legal(c, Issued[c]) => Legal(c, cards[c])

\* A key's mutation is applied to the card once, however often it is sent
\* (idempotency.py: a replay returns the stored response "instead of re-applying
\* the mutation").
AppliedOncePerKey ==
  \A v, w \in written : KeyOf(v.inv) = KeyOf(w.inv) => v = w

\* "at most N accruals per card per window" (handler.py, ACCRUAL_WINDOW_SECONDS)
FraudGuard ==
  \A c \in ExistingCard : Cardinality(RecentAccruals(c)) <= MaxAccruals

\* A seasonal card is redeemed no more often than the single discount it was
\* born with allows.
OneUsePerSeasonalCard ==
  \A c \in Seasonal :
    redemptions[c] <= Issued[c].rewards_redeemed + Issued[c].rewards_available

\* rewards_redeemed "never decreases" (openapi.yaml, CardBalance).
RedeemedNeverDecreases ==
  [][\A c \in ExistingCard :
       cards'[c].rewards_redeemed >= cards[c].rewards_redeemed]_vars

\* A written balance change gets its key recorded in the end, also when the
\* wallet push fails: the push "must never fail the in-store operation".
EveryWriteIsRecorded ==
  \A i \in Invocation :
    (\E w \in written : w.inv = i) ~> RecordsFor(KeyOf(i)) # {}

\* Every invocation the service begins is answered.
EveryInvocationEnds ==
  \A i \in Invocation : Running(i) ~> pc[i] = "done"
=============================================================================
