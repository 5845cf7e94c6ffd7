------------------------------- MODULE Tenants -------------------------------
(***************************************************************************)
(* The accounts of services/merchants, services/admin and                    *)
(* conpass_common/provisioning.py: a merchant signs up, its owner adds, edits, *)
(* removes and resets operators, the platform changes its subscription.        *)
(*                                                                         *)
(* Two stores hold the accounts and share no transaction: Supabase Auth has    *)
(* the logins, the database the merchants, subscriptions and profiles.  An      *)
(* action is one call to one of them with the computation up to the next call. *)
(* An email stands for the attributes a login and its profile both keep; names  *)
(* and the rest of the merchant row are left out.                              *)
(***************************************************************************)
EXTENDS Plans

CONSTANTS
  Invocation,  \* handled requests; also the ids of what they create
  Shop,        \* an established merchant ...
  Owner,       \* ... its owner's login
  Staff,       \* ... and its operators' logins
  Email,
  EmailOf,     \* the email of each established login
  ShopTier,
  Request,     \* what clients send
  Faults,      \* which of "crash", "auth", "db" can happen
  CardCounts,         \* what GET usage, /admin/clients and /admin/stats may count ...
  NotificationCounts, \* ... and what an invoice may be computed from
  OperatorCounts      \* how many operators an addition may find

NoEmail == "no email"
Unset == "unset"

ASSUME TenantsAssumption ==
  /\ IsFiniteSet(Staff)
  /\ Staff \cap Invocation = {} /\ Shop \notin Invocation
  /\ Owner \notin Invocation \cup Staff
  /\ EmailOf \in [Staff \cup {Owner} -> Email] /\ NoEmail \notin Email
  /\ \A u, v \in Staff \cup {Owner} : EmailOf[u] = EmailOf[v] => u = v
  /\ ShopTier \in Tier /\ Faults \subseteq {"crash", "auth", "db"}

ASSUME UsageAssumption ==
  CardCounts \subseteq Nat /\ NotificationCounts \subseteq Nat /\ OperatorCounts \subseteq Nat

VARIABLES
  merchants,      \* table merchants: the ids
  subscriptions,  \* table subscriptions
  users,          \* Supabase auth.users
  profiles,       \* table profiles
  served,         \* profiles that transactions rows reference
  pc, req,
  tier,           \* local: the tier add_operation_user read
  status,         \* HTTP status returned, 0 while there is none
  troubled,       \* history: invocations that saw the auth service fail
  overlapped      \* history: invocations that ran while another one did

database == <<merchants, subscriptions, profiles, served>>
tables == <<database, users>>
history == <<troubled, overlapped>>
vars == <<tables, pc, req, tier, status, history>>

UserId == Invocation \cup Staff \cup {Owner}
MerchantId == Invocation \cup {Shop}
Role == {"merchant_owner", "operation_user"}
RequestType ==
  [op: {"onboard", "add", "edit", "remove", "reset", "patch"},
   role: Role \cup {"platform_admin", "anonymous"}, caller: MerchantId \cup {Unset},
   merchant: MerchantId \cup {Unset}, user: UserId \cup {Unset},
   email: Email \cup {NoEmail}, tier: Tier \cup {Unset},
   payment_status: PaymentStatus \cup {Unset}, proof: BOOLEAN]
NoRequest == [op |-> "patch", role |-> "platform_admin", caller |-> Unset,
              merchant |-> Unset, user |-> Unset, email |-> NoEmail, tier |-> Unset,
              payment_status |-> Unset, proof |-> FALSE]

ASSUME RequestAssumption ==
  /\ Request \subseteq RequestType
  /\ \A r \in Request : /\ r.op \in {"onboard", "add"} => r.email \in Email
                        /\ r.op = "onboard" => r.tier \in Tier
                        /\ r.op # "onboard" => r.merchant \in MerchantId
                        /\ r.role \in Role => r.caller \in MerchantId

Idle == {"idle", "done"}
AuthCalls == {"create_user", "update_login", "delete_login"}
DbCalls == {"create_merchant", "create_subscription", "insert_profile", "delete_merchant",
            "read_subscription", "count_operators", "require_operator", "update_profile",
            "delete_profile", "update_subscription"}

Running(i) == pc[i] \notin Idle
Op(i) == req[i].op

\* Who an account belongs to: onboarding creates an owner, add an operator.
TenantOf(i) == IF Op(i) = "onboard" THEN i ELSE req[i].merchant
RoleOf(i) == IF Op(i) = "onboard" THEN "merchant_owner" ELSE "operation_user"

Subscription(m) == {s \in subscriptions : s.merchant = m}

\* list_operation_users, count_operation_users
Operators(m) == {p \in profiles : p.merchant = m /\ p.role = "operation_user"}

\* Faulty variant of OperatorRow: the merchant filter is missing.
OperatorRowOfAnyone(m, u) == {p \in profiles : p.user_id = u /\ p.role = "operation_user"}

\* get_operation_user
OperatorRow(m, u) == {p \in Operators(m) : p.user_id = u}

Goto(i, label) == pc' = [pc EXCEPT ![i] = label]
Reply(i, code) == Goto(i, "done") /\ status' = [status EXCEPT ![i] = code]
Continue(i, label) == Goto(i, label) /\ UNCHANGED status

-----------------------------------------------------------------------------
\* require_role and require_merchant
Forbidden(r) ==
  IF r.op = "patch" THEN r.role # "platform_admin"
  ELSE r.op # "onboard" /\ (r.role # "merchant_owner" \/ r.caller # r.merchant)

\* The payment methods of a request without proof are those that require one.
MissingProof(r) == r.op = "onboard" /\ ~r.proof

FirstCall(op) == CASE op = "onboard" -> "create_merchant"
                   [] op \in {"add", "patch"} -> "read_subscription"
                   [] OTHER -> "require_operator"

\* The owner of a new tenant gets his password with the answer to his onboarding.
SignedIn(r) ==
  r.caller \in Invocation => Op(r.caller) = "onboard" /\ status[r.caller] = 201

Receive(i) ==
  /\ pc[i] = "idle"
  /\ \E r \in {asked \in Request : SignedIn(asked)} :
       /\ req' = [req EXCEPT ![i] = r]
       /\ \/ MissingProof(r) /\ Reply(i, 422)
          \/ Forbidden(r) /\ Reply(i, 403)
          \/ ~MissingProof(r) /\ ~Forbidden(r) /\ Continue(i, FirstCall(r.op))
  /\ LET others == {j \in Invocation : Running(j)}
     IN overlapped' = IF others = {} THEN overlapped ELSE overlapped \cup others \cup {i}
  /\ UNCHANGED <<tables, tier, troubled>>

CreateMerchant(i) ==
  /\ pc[i] = "create_merchant"
  /\ merchants' = merchants \cup {i}
  /\ Continue(i, "create_subscription")
  /\ UNCHANGED <<subscriptions, users, profiles, served, req, tier, history>>

\* The row, and the defaults of its payment state; then the payment stub.
CreateSubscription(i) ==
  /\ pc[i] = "create_subscription"
  /\ subscriptions' = subscriptions \cup
       {[merchant |-> i, tier |-> req[i].tier, payment_status |-> "pending"]}
  /\ Continue(i, "create_user")
  /\ UNCHANGED <<merchants, users, profiles, served, req, tier, history>>

\* The first read of add_operation_user and of update_subscription.
ReadSubscription(i) ==
  /\ pc[i] = "read_subscription"
  /\ LET sub == Subscription(req[i].merchant)
     IN IF sub = {}
        THEN /\ IF Op(i) = "patch" THEN Reply(i, 404) ELSE Continue(i, "create_user")
             /\ UNCHANGED tier
        ELSE /\ \E s \in sub : tier' = [tier EXCEPT ![i] = s.tier]
             /\ Continue(i, IF Op(i) = "patch" THEN "update_subscription" ELSE "count_operators")
  /\ UNCHANGED <<tables, req, history>>

\* Faulty variant of AtLimit: one operator too many.
OverLimit(t, n) == ~HasRoom(PLANS[t].operation_user_limit, n - 1)

AtLimit(t, n) == ~HasRoom(PLANS[t].operation_user_limit, n)

CountOperators(i) ==
  /\ pc[i] = "count_operators"
  /\ IF AtLimit(tier[i], Cardinality(Operators(req[i].merchant)))
     THEN Reply(i, 402) ELSE Continue(i, "create_user")
  /\ UNCHANGED <<tables, req, tier, history>>

\* _require_operation_user
RequireOperator(i) ==
  /\ pc[i] = "require_operator"
  /\ IF OperatorRow(req[i].merchant, req[i].user) = {} THEN Reply(i, 404)
     ELSE Continue(i, CASE Op(i) = "remove" -> "delete_login"
                        [] Op(i) = "edit" /\ req[i].email = NoEmail -> "update_profile"
                        [] OTHER -> "update_login")
  /\ UNCHANGED <<tables, req, tier, history>>

-----------------------------------------------------------------------------
(* The calls to the auth service.                                             *)

EmailTaken(i) ==
  \E u \in users : u.email = req[i].email /\ (Op(i) = "edit" => u.id # req[i].user)

AuthRefuses(i) ==
  \/ Op(i) \in {"onboard", "add", "edit"} /\ EmailTaken(i)
  \/ Op(i) \in {"edit", "remove", "reset"} /\ ~\E u \in users : u.id = req[i].user

\* create_user, update_user_by_id (an edit, a new password) and delete_user
AuthEffect(i) ==
  CASE Op(i) \in {"onboard", "add"} ->
         users \cup {[id |-> i, email |-> req[i].email, merchant |-> TenantOf(i),
                      role |-> RoleOf(i), password |-> i]}
    [] Op(i) = "edit" ->
         {IF u.id = req[i].user THEN [u EXCEPT !.email = req[i].email] ELSE u : u \in users}
    [] Op(i) = "reset" ->
         {IF u.id = req[i].user THEN [u EXCEPT !.password = i] ELSE u : u \in users}
    [] Op(i) = "remove" -> {u \in users : u.id # req[i].user}

\* Faulty variant of AfterAuth: an account is answered before its profile exists.
AfterAuthAnswers(i) ==
  \/ Op(i) \in {"onboard", "add"} /\ Reply(i, 201)
  \/ Op(i) = "edit" /\ Continue(i, "update_profile")
  \/ Op(i) = "reset" /\ Reply(i, 200)
  \/ Op(i) = "remove" /\ Continue(i, "delete_profile")

AfterAuth(i) ==
  \/ Op(i) \in {"onboard", "add"} /\ Continue(i, "insert_profile")
  \/ Op(i) = "edit" /\ Continue(i, "update_profile")
  \/ Op(i) = "reset" /\ Reply(i, 200)
  \/ Op(i) = "remove" /\ Continue(i, "delete_profile")

\* Faulty variant of OnAuthError: onboarding forgets to take the tenant back.
OnAuthErrorKeep(i) ==
  \/ Op(i) = "remove" /\ Continue(i, "delete_profile")
  \/ Op(i) # "remove" /\ Reply(i, 409)

\* Any exception of the auth client becomes a Conflict; onboarding catches it and
\* compensates, delete_user swallows it.
OnAuthError(i) ==
  \/ Op(i) = "onboard" /\ Continue(i, "delete_merchant")
  \/ Op(i) = "remove" /\ Continue(i, "delete_profile")
  \/ Op(i) \notin {"onboard", "remove"} /\ Reply(i, 409)

AuthCall(i) ==
  /\ pc[i] \in AuthCalls
  /\ IF AuthRefuses(i) THEN OnAuthError(i) /\ UNCHANGED users
     ELSE users' = AuthEffect(i) /\ AfterAuth(i)
  /\ UNCHANGED <<database, req, tier, history>>

\* The service fails, before or after it did what it was asked.
AuthFails(i) ==
  /\ "auth" \in Faults
  /\ pc[i] \in AuthCalls
  /\ ~AuthRefuses(i)
  /\ users' \in {users, AuthEffect(i)}
  /\ OnAuthError(i)
  /\ troubled' = troubled \cup {i}
  /\ UNCHANGED <<database, req, tier, overlapped>>

-----------------------------------------------------------------------------
InsertProfile(i) ==
  /\ pc[i] = "insert_profile"
  /\ profiles' = profiles \cup {[user_id |-> i, email |-> req[i].email,
                                 merchant |-> TenantOf(i), role |-> RoleOf(i)]}
  /\ Reply(i, 201)
  /\ UNCHANGED <<merchants, subscriptions, users, served, req, tier, history>>

\* The compensation of onboarding; subscription and profiles go by cascade.
DeleteMerchant(i) ==
  /\ pc[i] = "delete_merchant"
  /\ merchants' = merchants \ {i}
  /\ subscriptions' = subscriptions \ Subscription(i)
  /\ profiles' = {p \in profiles : p.merchant # i}
  /\ Reply(i, 409)
  /\ UNCHANGED <<users, served, req, tier, history>>

\* Faulty variants of EditedProfiles: the email is not written; the row is put back.
NotEdited(r) == profiles
Upserted(r) ==
  {p \in profiles : p.user_id # r.user} \cup
  {[user_id |-> r.user, email |-> IF r.email = NoEmail THEN EmailOf[r.user] ELSE r.email,
    merchant |-> r.merchant, role |-> "operation_user"]}

EditedProfiles(r) ==
  {IF p.user_id = r.user /\ r.email # NoEmail THEN [p EXCEPT !.email = r.email] ELSE p :
     p \in profiles}

UpdateProfile(i) ==
  /\ pc[i] = "update_profile"
  /\ profiles' = EditedProfiles(req[i])
  /\ Reply(i, 200)
  /\ UNCHANGED <<merchants, subscriptions, users, served, req, tier, history>>

\* Faulty variant of RefusedDeletion: the error is swallowed.
DeletionSwallowed(i) == Reply(i, 204)

RefusedDeletion(i) == Reply(i, 500)

\* transactions.operation_user_id refuses the deletion of a profile it names.
DeleteProfile(i) ==
  /\ pc[i] = "delete_profile"
  /\ LET row == OperatorRow(req[i].merchant, req[i].user)
     IN IF row # {} /\ req[i].user \in served
        THEN RefusedDeletion(i) /\ UNCHANGED profiles
        ELSE Reply(i, 204) /\ profiles' = profiles \ row
  /\ UNCHANGED <<merchants, subscriptions, users, served, req, tier, history>>

\* Faulty variant of Kept: a field that was not sent is written too.
Sent(sent, was) == sent

Kept(sent, was) == IF sent = Unset THEN was ELSE sent

NothingSent(r) == r.tier = Unset /\ r.payment_status = Unset

\* The fields sent, over the row as it is now; taking the updated row raises when the
\* merchant was taken back after the read.  Nothing sent is no UPDATE.
UpdateSubscription(i) ==
  /\ pc[i] = "update_subscription"
  /\ subscriptions' =
       {IF s.merchant # req[i].merchant THEN s
        ELSE [s EXCEPT !.tier = Kept(req[i].tier, s.tier),
                       !.payment_status = Kept(req[i].payment_status, s.payment_status)] :
          s \in subscriptions}
  /\ Reply(i, IF Subscription(req[i].merchant) = {} /\ ~NothingSent(req[i]) THEN 500 ELSE 200)
  /\ UNCHANGED <<merchants, users, profiles, served, req, tier, history>>

\* A Data API call raises: the handlers catch AppError only.
DbFails(i) ==
  /\ "db" \in Faults
  /\ pc[i] \in DbCalls
  /\ Reply(i, 500)
  /\ UNCHANGED <<tables, req, tier, history>>

\* The invocation dies or times out between two calls.
Crash(i) ==
  /\ "crash" \in Faults
  /\ Running(i)
  /\ Reply(i, 504)
  /\ UNCHANGED <<tables, req, tier, history>>

\* An operator logs a transaction (services/operations): its row names the profile.
Serve(p) ==
  /\ p.role = "operation_user"
  /\ p.user_id \notin served
  /\ served' = served \cup {p.user_id}
  /\ UNCHANGED <<merchants, subscriptions, users, profiles, pc, req, tier, status, history>>

-----------------------------------------------------------------------------
Established(u) == IF u = Owner THEN "merchant_owner" ELSE "operation_user"

Init ==
  /\ merchants = {Shop}
  /\ subscriptions = {[merchant |-> Shop, tier |-> ShopTier, payment_status |-> "paid"]}
  /\ users = {[id |-> u, email |-> EmailOf[u], merchant |-> Shop,
               role |-> Established(u), password |-> u] : u \in Staff \cup {Owner}}
  /\ profiles = {[user_id |-> u, email |-> EmailOf[u], merchant |-> Shop,
                  role |-> Established(u)] : u \in Staff \cup {Owner}}
  /\ served = {}
  /\ pc = [i \in Invocation |-> "idle"]
  /\ req = [i \in Invocation |-> NoRequest]
  /\ tier = [i \in Invocation |-> "starter"]
  /\ status = [i \in Invocation |-> 0]
  /\ troubled = {} /\ overlapped = {}

Handler(i) ==
  \/ Receive(i) \/ CreateMerchant(i) \/ CreateSubscription(i) \/ ReadSubscription(i)
  \/ CountOperators(i) \/ RequireOperator(i) \/ AuthCall(i) \/ InsertProfile(i)
  \/ DeleteMerchant(i) \/ UpdateProfile(i) \/ DeleteProfile(i) \/ UpdateSubscription(i)

Next ==
  \/ \E i \in Invocation : Handler(i) \/ AuthFails(i) \/ DbFails(i) \/ Crash(i)
  \/ \E p \in profiles : Serve(p)

Spec == Init /\ [][Next]_vars

-----------------------------------------------------------------------------
SubscriptionRow == [merchant: MerchantId, tier: Tier, payment_status: PaymentStatus]
UserRow == [id: UserId, email: Email, merchant: MerchantId, role: Role, password: UserId]
ProfileRow == [user_id: UserId, email: Email, merchant: MerchantId, role: Role]

\* Every row and local variable has its type.
TypeOK ==
  /\ merchants \subseteq MerchantId
  /\ subscriptions \subseteq SubscriptionRow
  /\ users \subseteq UserRow
  /\ profiles \subseteq ProfileRow
  /\ served \subseteq UserId
  /\ pc \in [Invocation -> Idle \cup AuthCalls \cup DbCalls]
  /\ req \in [Invocation -> Request \cup {NoRequest}]
  /\ tier \in [Invocation -> Tier]
  /\ status \in [Invocation -> {0, 200, 201, 204, 402, 403, 404, 409, 422, 500, 504}]
  /\ troubled \subseteq Invocation /\ overlapped \subseteq Invocation

Failed(i) == status[i] \in {500, 504} \/ i \in troubled
Answered(i, op, code) == Op(i) = op /\ status[i] = code

TenantComplete(m) ==
  /\ m \in merchants /\ Subscription(m) # {}
  /\ \E u \in users, p \in profiles :
       /\ u.id = p.user_id /\ u.email = p.email
       /\ {u.merchant, p.merchant} = {m} /\ {u.role, p.role} = {"merchant_owner"}

TenantAbsent(m) ==
  /\ m \notin merchants /\ Subscription(m) = {}
  /\ \A p \in profiles : p.merchant # m
  /\ m \notin troubled => \A u \in users : u.merchant # m

\* Onboarding is all or nothing to its caller: a 201 means that merchant,
\* subscription, owner login and owner profile exist from then on, and a 409 or
\* 422 that none does (a login may stay when the auth service failed after
\* creating it), whatever else runs, fails or crashes meanwhile.
OnboardingIsAllOrNothing ==
  \A i \in Invocation :
    /\ Answered(i, "onboard", 201) => TenantComplete(i)
    /\ Answered(i, "onboard", 409) \/ Answered(i, "onboard", 422) => TenantAbsent(i)

\* A login without a profile is never listed, counted or removable, and blocks its
\* email: the request that created it is still at work or failed.
StrandedLoginsOnlyBehindFailures ==
  \A u \in users :
    (~\E p \in profiles : p.user_id = u.id)
    => \/ u.id \in Invocation /\ (Running(u.id) \/ Failed(u.id))
       \/ \E j \in Invocation : Op(j) = "remove" /\ req[j].user = u.id /\ Failed(j)

\* An operator who is listed and counted but cannot sign in: only a removal does
\* that, and only one that is not finished, failed, or met the operator's logged
\* transactions.
GhostOperatorsOnlyBehindRemovals ==
  \A p \in profiles :
    (~\E u \in users : u.id = p.user_id)
    => \E j \in Invocation : /\ Op(j) = "remove" /\ req[j].user = p.user_id
                             /\ Running(j) \/ Failed(j)

\* The email an operator is listed under is the one he signs in with, except
\* while an edit is between its two updates, after one that failed, or when edits
\* of the operator overlapped another request.
EmailsAgreeOutsideEdits ==
  \A u \in users, p \in profiles :
    u.id = p.user_id /\ u.email # p.email
    => \E j \in Invocation : /\ Op(j) = "edit" /\ req[j].user = u.id
                             /\ Running(j) \/ Failed(j) \/ j \in overlapped

\* A removal that was answered 204 stays: the operator is not listed again, and
\* cannot sign in unless the auth service failed to delete the login.
RemovedStaysRemoved ==
  \A i \in Invocation : Answered(i, "remove", 204) =>
    /\ OperatorRow(req[i].merchant, req[i].user) = {}
    /\ (\E u \in users : u.id = req[i].user) => i \in troubled

\* An operator added while no other request ran never takes the merchant past the
\* limit of its plan (overlapping additions are counted by none of the others).
LimitHolds ==
  [][\A i \in Invocation :
       Answered(i, "add", 0) /\ status'[i] = 201 /\ i \notin overlapped'
       => LET m == req[i].merchant IN
          \E s \in Subscription(m)' :
            HasRoom(PLANS[s.tier].operation_user_limit, Cardinality(Operators(m)') - 1)]_vars

RowsOf(m) == <<Subscription(m), {u \in users : u.merchant = m}, {p \in profiles : p.merchant = m}>>

\* A tenant's logins, profiles and subscription change only in a request of its own
\* owner, of the platform, or in the onboarding that creates it.
TenantIsolation ==
  [][\A m \in MerchantId : RowsOf(m)' # RowsOf(m) =>
       \E i \in Invocation : /\ pc'[i] # pc[i]
                             /\ \/ Op(i) = "onboard" /\ i = m
                                \/ req[i].caller = m
                                \/ req[i].role = "platform_admin"]_vars

-----------------------------------------------------------------------------
(* What Plans promises the tenants.                                           *)

\* What a month costs, in mills: no line of the invoice rounded.
Exact(s, n, k) ==
  LET p == PLANS[s.tier]
  IN p.price_usd + p.extra_card_usd * Over(n, p.included_cards)
     + p.extra_notification_usd * Over(k, p.included_notifications)

\* The total of an invoice is the exact amount rounded once, half a cent up: it
\* never drifts by the rounding of its lines, one card more never costs less, and
\* the platform counts as revenue what the paying client is shown to owe.
InvoiceIsExactToTheCent ==
  \A s \in subscriptions : \A n \in CardCounts, k \in NotificationCounts :
    /\ 10 * Estimate(s.tier, n, k).total_usd - Exact(s, n, k) \in -4..5
    /\ Estimate(s.tier, n, k).total_usd <= Estimate(s.tier, n + 1, k).total_usd
    /\ s.payment_status = "paid" =>
         Stats({s}, [m \in {s.merchant} |-> n]).mrrUsd = AdminClient(s, n).estimatedMonthlyUsd
    /\ Usage(s, n).total_usd = AdminClient(s, n).estimatedMonthlyUsd
    /\ Usage(s, n).extra_cards_usd > 0 => n > SubscriptionView(s, n).includedCards

Cheapest(t, good) == t \in good /\ \A u \in good : PLANS[t].price_usd <= PLANS[u].price_usd

\* Where a client on tier t ends who adopts the tier a refusal names, and asks again.
Follow(answer, t) == IF answer[t] \in Tier THEN answer[t] ELSE t
EndsAtCheapest(answer, t) ==
  Cheapest(Follow(answer, Follow(answer, t)),
           {u \in Tier : Rank(t) <= Rank(u) /\ answer[u] = "allowed"})

\* The tier a refused feature names is the cheapest that has it.  A reminder or an
\* operator may be refused again on the tier that was named (a birthday reminder
\* sends starter to growth and growth to pro; five operators left by a downgrade
\* send starter to growth, which has room for no sixth), but who follows what he is
\* told ends, after two upgrades at most, on the cheapest tier, of his own and those
\* above it, that grants the request: never without it and never past it.
UpgradeAdviceEndsAtCheapest ==
  \A s \in subscriptions :
    /\ \A f \in Feature : ~Has(s.tier, f) =>
         Cheapest(RequireFeature(s.tier, f), {u \in Tier : Has(u, f)})
    /\ \A segment \in {"birthday", "inactive"} :
         EndsAtCheapest([u \in Tier |-> ReminderGate(u, segment)], s.tier)
    /\ \A n \in OperatorCounts :
         EndsAtCheapest([u \in Tier |-> OperatorGate(u, n)], s.tier)
=============================================================================
