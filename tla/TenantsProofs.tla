---------------------------- MODULE TenantsProofs ----------------------------
(***************************************************************************)
(* What holds of the accounts for any number of merchants, operators and      *)
(* requests at once, whatever the two stores refuse and wherever a request     *)
(* stops.                                                                     *)
(***************************************************************************)
EXTENDS Tenants, FiniteSetTheorems, TLAPS

Label == Idle \cup AuthCalls \cup DbCalls
Code == {0, 200, 201, 204, 402, 403, 404, 409, 422, 500, 504}

\* Whose request waits at which call.
Fits(l, r) ==
  /\ l \in {"create_merchant", "create_subscription", "delete_merchant"} => r.op = "onboard"
  /\ l \in {"create_user", "insert_profile"} => r.op \in {"onboard", "add"}
  /\ l = "read_subscription" => r.op \in {"add", "patch"}
  /\ l = "count_operators" => r.op = "add"
  /\ l = "update_subscription" => r.op = "patch"
  /\ l = "require_operator" => r.op \in {"edit", "remove", "reset"}
  /\ l = "update_login" => r.op = "reset" \/ (r.op = "edit" /\ r.email \in Email)
  /\ l \in {"delete_login", "delete_profile"} => r.op = "remove"
  /\ l = "update_profile" => r.op = "edit"
  /\ l \notin Idle => ~Forbidden(r)

\* The tenant and role an account was made for; none of them ever changes.
Home(u) == IF u \in Invocation THEN TenantOf(u) ELSE Shop
RoleAt(u) == IF u \in Invocation THEN RoleOf(u) ELSE Established(u)

\* m is established, or its onboarding was answered.
Known(m) == m \in Invocation => Op(m) = "onboard" /\ status[m] = 201

\* The operator that the request of i names was found among its tenant's.
Aimed(i) ==
  LET u == req[i].user
  IN /\ u \in UserId /\ Home(u) = req[i].merchant /\ RoleAt(u) = "operation_user"
     /\ u \in Invocation => pc[u] = "done"

AimedLabel == {"update_login", "delete_login", "update_profile", "delete_profile"}

Local(i) ==
  /\ pc[i] # "idle" => req[i] \in Request
  /\ status[i] # 0 => pc[i] = "done"
  /\ i \in troubled => pc[i] # "idle"
  /\ Fits(pc[i], req[i])
  /\ (pc[i] \notin Idle /\ Op(i) \notin {"onboard", "patch"}) => Known(req[i].merchant)
  /\ (pc[i] \in AimedLabel \/ Answered(i, "remove", 204)) => Aimed(i)

\* A login is there before its profile; it stays without one behind a failure only.
LoginInv ==
  \A u \in users :
    /\ u.merchant = Home(u.id) /\ u.role = RoleAt(u.id)
    /\ u.id \in Invocation =>
         /\ \/ pc[u.id] = "insert_profile"
            \/ pc[u.id] \in {"delete_merchant", "done"} /\ u.id \in troubled
            \/ pc[u.id] = "done" /\ status[u.id] \in {201, 500, 504}
         /\ Op(u.id) # "onboard" => Known(u.merchant)

\* The request that made a profile answered 201.
ProfileInv ==
  \A p \in profiles :
    /\ p.merchant = Home(p.user_id) /\ p.role = RoleAt(p.user_id)
    /\ p.user_id \in Invocation =>
         /\ pc[p.user_id] = "done" /\ status[p.user_id] = 201
         /\ Op(p.user_id) # "onboard" => Known(p.merchant)

\* Only an onboarding puts a merchant, and the one that failed takes it back.
TenantInv ==
  /\ \A m \in merchants \cap Invocation :
       /\ pc[m] \notin {"idle", "create_merchant"} /\ Op(m) = "onboard"
       /\ status[m] \notin {409, 422}
  /\ \A s \in subscriptions : s.merchant \in Invocation =>
       /\ pc[s.merchant] \notin {"idle", "create_merchant", "create_subscription"}
       /\ Op(s.merchant) = "onboard" /\ status[s.merchant] \notin {409, 422}

\* What an onboarding has made when it is at a call.
Onboarding(i) ==
  Op(i) = "onboard" =>
    /\ pc[i] \in {"create_subscription", "create_user", "insert_profile"} => i \in merchants
    /\ pc[i] \in {"create_user", "insert_profile"} => Subscription(i) # {}
    /\ status[i] = 201 => TenantComplete(i)

\* The login a profile is about to be inserted for.
NewLogin(i) ==
  pc[i] = "insert_profile" =>
    /\ \E u \in users : u.id = i
    /\ \A u \in users : u.id = i => u.email = req[i].email

\* A login outlives its removal only when the auth service failed to delete it.
Removal(i) ==
  /\ pc[i] = "delete_profile" \/ Answered(i, "remove", 204)
       => ((\E u \in users : u.id = req[i].user) => i \in troubled)
  /\ Answered(i, "remove", 204) => OperatorRow(req[i].merchant, req[i].user) = {}

GhostInv ==
  \A p \in profiles :
    (~\E u \in users : u.id = p.user_id)
    => \E j \in Invocation : /\ Op(j) = "remove" /\ req[j].user = p.user_id
                             /\ pc[j] = "delete_profile" \/ Failed(j)

\* Two requests at work at once know of each other.
AloneInv ==
  \A i, j \in Invocation : (i # j /\ Running(i) /\ Running(j)) => i \in overlapped

OverlapInv == \A i \in overlapped : i \in Invocation /\ pc[i] # "idle"

\* An established tenant has its plan.
PlanInv == Subscription(Shop) # {}

\* Alone, an addition has read the plan and the number of operators there are.
Counted(i) ==
  (Op(i) = "add" /\ i \notin overlapped) =>
    /\ pc[i] = "count_operators" => \E s \in Subscription(req[i].merchant) : s.tier = tier[i]
    /\ pc[i] \in {"create_user", "insert_profile"} =>
         \E s \in Subscription(req[i].merchant) :
           HasRoom(PLANS[s.tier].operation_user_limit, Cardinality(Operators(req[i].merchant)))

\* Alone, an edit finds the login as it left it.
Edited(i) ==
  (pc[i] = "update_profile" /\ req[i].email # NoEmail /\ i \notin overlapped) =>
    \A u \in users : u.id = req[i].user => u.email = req[i].email

EmailInv ==
  \A u \in users, p \in profiles :
    (u.id = p.user_id /\ u.email # p.email)
    => \E j \in Invocation :
         /\ Op(j) = "edit" /\ req[j].user = u.id
         /\ \/ pc[j] = "update_profile" /\ req[j].email # NoEmail
            \/ Failed(j) \/ j \in overlapped

TypeInv == TypeOK /\ \A i \in Invocation : Local(i)

IInv ==
  /\ TypeInv /\ LoginInv /\ ProfileInv /\ TenantInv
  /\ \A i \in Invocation :
       Onboarding(i) /\ NewLogin(i) /\ Removal(i) /\ Counted(i) /\ Edited(i)
  /\ GhostInv /\ StrandedLoginsOnlyBehindFailures /\ EmailInv
  /\ AloneInv /\ OverlapInv /\ PlanInv /\ IsFiniteSet(profiles)

-----------------------------------------------------------------------------
(* What every step leaves alone.                                              *)

Action(i) == Handler(i) \/ AuthFails(i) \/ DbFails(i) \/ Crash(i)

LEMMA RequestFacts ==
  ASSUME NEW r \in Request
  PROVE  /\ r.op \in {"onboard", "add", "edit", "remove", "reset", "patch"}
         /\ r.merchant \in MerchantId \cup {Unset} /\ r.user \in UserId \cup {Unset}
         /\ r.email \in Email \cup {NoEmail} /\ r.tier \in Tier \cup {Unset}
         /\ r.payment_status \in PaymentStatus \cup {Unset}
         /\ r.op \in {"onboard", "add"} => r.email \in Email
         /\ r.op = "onboard" => r.tier \in Tier
         /\ r.op # "onboard" => r.merchant \in MerchantId
  BY RequestAssumption DEF RequestType

LEMMA Locals ==
  ASSUME TypeInv
  PROVE  /\ pc \in [Invocation -> Label] /\ status \in [Invocation -> Code]
         /\ req \in [Invocation -> Request \cup {NoRequest}]
         /\ tier \in [Invocation -> Tier]
  BY DEF TypeInv, TypeOK, Label, Code

\* A step of i moves i, and no other request.
LEMMA Frame ==
  ASSUME TypeInv, NEW i \in Invocation, Action(i)
  PROVE  /\ \A j \in Invocation \ {i} :
              /\ pc'[j] = pc[j] /\ req'[j] = req[j] /\ status'[j] = status[j]
              /\ tier'[j] = tier[j] /\ (j \in troubled' <=> j \in troubled)
         /\ pc[i] # "done" /\ pc'[i] # "idle" /\ pc'[i] # pc[i] /\ status[i] = 0
         /\ pc[i] # "idle" => req' = req
         /\ troubled \subseteq troubled'
         /\ pc' \in [Invocation -> Label] /\ status' \in [Invocation -> Code]
         /\ pc'[i] = "done" <=> status'[i] # 0
<1>0. /\ pc \in [Invocation -> Label] /\ status \in [Invocation -> Code]
      /\ req \in [Invocation -> Request \cup {NoRequest}]
      /\ tier \in [Invocation -> Tier] /\ Local(i)
  BY Locals DEF TypeInv
<1>1. /\ pc[i] # "done"
      /\ \/ \E l \in Label \ (Idle \cup {pc[i]}) : Continue(i, l)
         \/ \E code \in Code \ {0} : Reply(i, code)
  <2>1. CASE Receive(i)
    <3>1. pc[i] = "idle"
      BY <2>1 DEF Receive
    <3>2. \/ Reply(i, 422) \/ Reply(i, 403)
          \/ \E r \in Request : Continue(i, FirstCall(r.op))
      BY <2>1 DEF Receive
    <3>3. ASSUME NEW r \in Request
          PROVE  FirstCall(r.op) \in {"create_merchant", "read_subscription", "require_operator"}
      BY DEF FirstCall
    <3> QED BY <3>1, <3>2, <3>3 DEF Label, Idle, AuthCalls, DbCalls, Code
  <2>2. CASE CreateMerchant(i)
    BY <2>2 DEF CreateMerchant, Label, Idle, AuthCalls, DbCalls
  <2>3. CASE CreateSubscription(i)
    BY <2>3 DEF CreateSubscription, Label, Idle, AuthCalls, DbCalls
  <2>4. CASE ReadSubscription(i)
    <3>1. /\ pc[i] = "read_subscription"
          /\ \/ Reply(i, 404) \/ Continue(i, "create_user") \/ Continue(i, "update_subscription")
             \/ Continue(i, "count_operators")
      BY <2>4 DEF ReadSubscription
    <3> QED BY <3>1 DEF Label, Idle, AuthCalls, DbCalls, Code
  <2>5. CASE CountOperators(i)
    <3>1. pc[i] = "count_operators" /\ (Reply(i, 402) \/ Continue(i, "create_user"))
      BY <2>5 DEF CountOperators
    <3> QED BY <3>1 DEF Label, Idle, AuthCalls, DbCalls, Code
  <2>6. CASE RequireOperator(i)
    <3>1. /\ pc[i] = "require_operator"
          /\ \/ Reply(i, 404) \/ Continue(i, "delete_login") \/ Continue(i, "update_profile")
             \/ Continue(i, "update_login")
      BY <2>6 DEF RequireOperator
    <3> QED BY <3>1 DEF Label, Idle, AuthCalls, DbCalls, Code
  <2>7. CASE AuthCall(i) \/ AuthFails(i)
    <3>1. /\ pc[i] \in AuthCalls
          /\ \/ Continue(i, "insert_profile") \/ Continue(i, "update_profile")
             \/ Continue(i, "delete_profile") \/ Continue(i, "delete_merchant")
             \/ Reply(i, 200) \/ Reply(i, 409)
      BY <2>7 DEF AuthCall, AuthFails, AfterAuth, OnAuthError
    <3> QED BY <3>1 DEF Label, Idle, AuthCalls, DbCalls, Code
  <2>8. CASE InsertProfile(i)
    BY <2>8 DEF InsertProfile, Code
  <2>9. CASE DeleteMerchant(i)
    BY <2>9 DEF DeleteMerchant, Code
  <2>10. CASE UpdateProfile(i)
    BY <2>10 DEF UpdateProfile, Code
  <2>11. CASE DeleteProfile(i)
    BY <2>11 DEF DeleteProfile, RefusedDeletion, Code
  <2>12. CASE UpdateSubscription(i)
    <3>1. pc[i] = "update_subscription" /\ (Reply(i, 200) \/ Reply(i, 500))
      BY <2>12, Zenon DEF UpdateSubscription
    <3> QED BY <3>1 DEF Code
  <2>13. CASE DbFails(i)
    BY <2>13 DEF DbFails, DbCalls, Code
  <2>14. CASE Crash(i)
    BY <2>14 DEF Crash, Running, Idle, Code
  <2> QED BY <2>1, <2>2, <2>3, <2>4, <2>5, <2>6, <2>7, <2>8, <2>9, <2>10, <2>11, <2>12, <2>13,
             <2>14 DEF Action, Handler
<1>2. status[i] = 0
  BY <1>0, <1>1 DEF Local
<1>3. \/ req' = req /\ pc[i] # "idle"
      \/ pc[i] = "idle" /\ \E r : req' = [req EXCEPT ![i] = r]
  BY DEF Action, Handler, Receive, CreateMerchant, CreateSubscription, ReadSubscription,
         CountOperators, RequireOperator, AuthCall, AuthFails, InsertProfile, DeleteMerchant,
         UpdateProfile, DeleteProfile, UpdateSubscription, DbFails, Crash, Running, Idle,
         AuthCalls, DbCalls
<1>4. tier' = tier \/ \E t : tier' = [tier EXCEPT ![i] = t]
  BY DEF Action, Handler, Receive, CreateMerchant, CreateSubscription, ReadSubscription,
         CountOperators, RequireOperator, AuthCall, AuthFails, InsertProfile, DeleteMerchant,
         UpdateProfile, DeleteProfile, UpdateSubscription, DbFails, Crash
<1>5. troubled' \in {troubled, troubled \cup {i}}
  BY DEF Action, Handler, Receive, CreateMerchant, CreateSubscription, ReadSubscription,
         CountOperators, RequireOperator, AuthCall, AuthFails, InsertProfile, DeleteMerchant,
         UpdateProfile, DeleteProfile, UpdateSubscription, DbFails, Crash, history
<1>6. CASE \E l \in Label \ (Idle \cup {pc[i]}) : Continue(i, l)
  <2>1. PICK l \in Label \ (Idle \cup {pc[i]}) : pc' = [pc EXCEPT ![i] = l] /\ status' = status
    BY <1>6 DEF Continue, Goto
  <2>2. pc'[i] = l /\ pc' \in [Invocation -> Label] /\ status'[i] = 0
    BY <1>0, <1>2, <2>1
  <2> QED BY <1>0, <1>1, <1>2, <1>3, <1>4, <1>5, <2>1, <2>2 DEF Idle
<1>7. CASE \E code \in Code \ {0} : Reply(i, code)
  <2>1. PICK code \in Code \ {0} :
          pc' = [pc EXCEPT ![i] = "done"] /\ status' = [status EXCEPT ![i] = code]
    BY <1>7 DEF Reply, Goto
  <2>2. pc'[i] = "done" /\ pc' \in [Invocation -> Label] /\ status'[i] = code
    BY <1>0, <2>1 DEF Label, Idle
  <2>3. status' \in [Invocation -> Code]
    BY <1>0, <2>1
  <2> QED BY <1>0, <1>1, <1>2, <1>3, <1>4, <1>5, <2>1, <2>2, <2>3
<1> QED BY <1>1, <1>6, <1>7

-----------------------------------------------------------------------------
(* The types.                                                                 *)

NewRow(i) == [id |-> i, email |-> req[i].email, merchant |-> TenantOf(i),
              role |-> RoleOf(i), password |-> i]

\* What the auth service does, by the request that asks.
LEMMA AuthEffects ==
  ASSUME TypeInv, NEW i \in Invocation, pc[i] \in AuthCalls
  PROVE  \/ /\ pc[i] = "create_user" /\ Op(i) \in {"onboard", "add"}
            /\ AuthEffect(i) = users \cup {NewRow(i)}
         \/ /\ pc[i] = "update_login" /\ Op(i) = "edit" /\ req[i].email \in Email
            /\ AuthEffect(i) = {IF u.id = req[i].user THEN [u EXCEPT !.email = req[i].email]
                                ELSE u : u \in users}
         \/ /\ pc[i] = "update_login" /\ Op(i) = "reset"
            /\ AuthEffect(i) = {IF u.id = req[i].user THEN [u EXCEPT !.password = i]
                                ELSE u : u \in users}
         \/ /\ pc[i] = "delete_login" /\ Op(i) = "remove"
            /\ AuthEffect(i) = {u \in users : u.id # req[i].user}
<1>1. Local(i)
  BY DEF TypeInv
<1>2. CASE pc[i] = "create_user"
  <2>1. Op(i) \in {"onboard", "add"}
    BY <1>1, <1>2 DEF Local, Fits, Op
  <2> QED BY <1>2, <2>1, Zenon DEF AuthEffect, NewRow
<1>3. CASE pc[i] = "update_login"
  <2>1. Op(i) = "reset" \/ (Op(i) = "edit" /\ req[i].email \in Email)
    BY <1>1, <1>3 DEF Local, Fits, Op
  <2>2. CASE Op(i) = "reset"
    <3>1. Op(i) \notin {"onboard", "add"} /\ Op(i) # "edit"
      BY <2>2
    <3> QED BY <1>3, <2>2, <3>1 DEF AuthEffect
  <2>3. CASE Op(i) = "edit"
    <3>1. Op(i) \notin {"onboard", "add"}
      BY <2>3
    <3> QED BY <1>3, <2>1, <2>3, <3>1 DEF AuthEffect
  <2> QED BY <2>1, <2>2, <2>3
<1>4. CASE pc[i] = "delete_login"
  <2>1. Op(i) = "remove"
    BY <1>1, <1>4 DEF Local, Fits, Op
  <2>2. Op(i) \notin {"onboard", "add", "edit", "reset"}
    BY <2>1
  <2> QED BY <1>4, <2>1, <2>2 DEF AuthEffect
<1> QED BY <1>2, <1>3, <1>4 DEF AuthCalls

\* The service answers, refuses or fails.
LEMMA AuthOutcomes ==
  ASSUME NEW i \in Invocation, AuthCall(i) \/ AuthFails(i)
  PROVE  /\ pc[i] \in AuthCalls /\ UNCHANGED <<database, req, tier, overlapped>>
         /\ \/ /\ users' = AuthEffect(i) /\ ~AuthRefuses(i) /\ AfterAuth(i)
               /\ troubled' = troubled
            \/ users' = users /\ AuthRefuses(i) /\ OnAuthError(i) /\ troubled' = troubled
            \/ /\ users' \in {users, AuthEffect(i)} /\ OnAuthError(i)
               /\ troubled' = troubled \cup {i}
  BY DEF AuthCall, AuthFails, history

LEMMA TenantTypes ==
  ASSUME TypeInv, NEW i \in Invocation, pc[i] \in {"create_user", "insert_profile"}
  PROVE  TenantOf(i) \in MerchantId /\ RoleOf(i) \in Role /\ req[i].email \in Email
<1>1. req[i] \in Request /\ Op(i) \in {"onboard", "add"}
  BY DEF TypeInv, Local, Fits, Op
<1> QED BY <1>1, RequestFacts DEF TenantOf, RoleOf, Op, MerchantId, Role

LEMMA UsersTyped ==
  ASSUME TypeInv, NEW i \in Invocation, AuthCall(i) \/ AuthFails(i)
  PROVE  users' \subseteq UserRow
<1>1. users \subseteq UserRow
  BY DEF TypeInv, TypeOK
<1>2. AuthEffect(i) \subseteq UserRow
  <2>1. pc[i] \in AuthCalls
    BY AuthOutcomes
  <2>2. CASE pc[i] = "create_user" /\ AuthEffect(i) = users \cup {NewRow(i)}
    BY <1>1, <2>2, TenantTypes DEF NewRow, UserRow, UserId
  <2>3. CASE req[i].email \in Email /\ AuthEffect(i) =
               {IF u.id = req[i].user THEN [u EXCEPT !.email = req[i].email] ELSE u : u \in users}
    BY <1>1, <2>3 DEF UserRow
  <2>4. CASE AuthEffect(i) =
               {IF u.id = req[i].user THEN [u EXCEPT !.password = i] ELSE u : u \in users}
    BY <1>1, <2>4 DEF UserRow, UserId
  <2>5. CASE AuthEffect(i) = {u \in users : u.id # req[i].user}
    BY <1>1, <2>5
  <2> QED BY <2>1, <2>2, <2>3, <2>4, <2>5, AuthEffects
<1> QED BY <1>1, <1>2, AuthOutcomes

LEMMA TypeStep ==
  ASSUME TypeInv, NEW i \in Invocation, Action(i)
  PROVE  TypeOK'
<1>0. /\ merchants \subseteq MerchantId /\ subscriptions \subseteq SubscriptionRow
      /\ users \subseteq UserRow /\ profiles \subseteq ProfileRow /\ served \subseteq UserId
      /\ req \in [Invocation -> Request \cup {NoRequest}] /\ tier \in [Invocation -> Tier]
      /\ troubled \subseteq Invocation /\ overlapped \subseteq Invocation
      /\ pc[i] # "idle" => req[i] \in Request
      /\ Fits(pc[i], req[i])
  BY DEF TypeInv, TypeOK, Local
<1>1. pc' \in [Invocation -> Label] /\ status' \in [Invocation -> Code]
  BY Frame
<1>2. CASE Receive(i)
  <2>1. /\ \E r \in Request : req' = [req EXCEPT ![i] = r]
        /\ UNCHANGED <<merchants, subscriptions, users, profiles, served, tier, troubled>>
        /\ overlapped' \subseteq Invocation
    BY <1>0, <1>2 DEF Receive, tables, database
  <2> QED BY <1>0, <1>1, <2>1 DEF TypeOK, Label, Code
<1>3. CASE CreateMerchant(i)
  BY <1>0, <1>1, <1>3 DEF CreateMerchant, history, TypeOK, Label, Code, MerchantId
<1>4. CASE CreateSubscription(i)
  <2>1. req[i].tier \in Tier
    BY <1>0, <1>4, RequestFacts DEF CreateSubscription, Fits
  <2>2. subscriptions' \subseteq SubscriptionRow
    BY <1>0, <1>4, <2>1 DEF CreateSubscription, SubscriptionRow, MerchantId, PaymentStatus
  <2> QED BY <1>0, <1>1, <1>4, <2>2 DEF CreateSubscription, history, TypeOK, Label, Code
<1>5. CASE ReadSubscription(i)
  <2>1. tier' \in [Invocation -> Tier]
    <3>1. \A s \in Subscription(req[i].merchant) : s.tier \in Tier
      BY <1>0 DEF Subscription, SubscriptionRow
    <3> QED BY <1>0, <1>5, <3>1 DEF ReadSubscription
  <2>2. UNCHANGED <<tables, req, history>>
    BY <1>5 DEF ReadSubscription
  <2> QED BY <1>0, <1>1, <2>1, <2>2 DEF tables, database, history, TypeOK, Label, Code
<1>6. CASE CountOperators(i) \/ RequireOperator(i) \/ DbFails(i) \/ Crash(i)
  <2>1. UNCHANGED <<tables, req, tier, history>>
    BY <1>6 DEF CountOperators, RequireOperator, DbFails, Crash
  <2> QED BY <1>0, <1>1, <2>1 DEF tables, database, history, TypeOK, Label, Code
<1>7. CASE AuthCall(i) \/ AuthFails(i)
  <2>1. UNCHANGED <<database, req, tier, overlapped>> /\ troubled' \subseteq Invocation
    BY <1>0, <1>7, AuthOutcomes
  <2> QED BY <1>0, <1>1, <1>7, <2>1, UsersTyped DEF database, TypeOK, Label, Code
<1>8. CASE InsertProfile(i)
  <2>1. profiles' \subseteq ProfileRow
    BY <1>0, <1>8, TenantTypes DEF InsertProfile, ProfileRow, UserId
  <2> QED BY <1>0, <1>1, <1>8, <2>1 DEF InsertProfile, history, TypeOK, Label, Code
<1>9. CASE DeleteMerchant(i)
  BY <1>0, <1>1, <1>9 DEF DeleteMerchant, history, TypeOK, Label, Code
<1>10. CASE UpdateProfile(i)
  <2>1. req[i].email \in Email \cup {NoEmail}
    BY <1>0, <1>10, RequestFacts DEF UpdateProfile
  <2>2. profiles' \subseteq ProfileRow
    BY <1>0, <1>10, <2>1 DEF UpdateProfile, EditedProfiles, ProfileRow
  <2> QED BY <1>0, <1>1, <1>10, <2>2 DEF UpdateProfile, history, TypeOK, Label, Code
<1>11. CASE DeleteProfile(i)
  <2>1. profiles' \subseteq profiles
    BY <1>11 DEF DeleteProfile
  <2> QED BY <1>0, <1>1, <1>11, <2>1 DEF DeleteProfile, history, TypeOK, Label, Code
<1>12. CASE UpdateSubscription(i)
  <2>1. /\ req[i].tier \in Tier \cup {Unset}
        /\ req[i].payment_status \in PaymentStatus \cup {Unset}
    BY <1>0, <1>12, RequestFacts DEF UpdateSubscription
  <2>2. \A s \in SubscriptionRow : /\ Kept(req[i].tier, s.tier) \in Tier
                                   /\ Kept(req[i].payment_status, s.payment_status) \in PaymentStatus
    BY <2>1 DEF Kept, SubscriptionRow
  <2>3. subscriptions' \subseteq SubscriptionRow
    <3> SUFFICES ASSUME NEW s \in subscriptions
                 PROVE  (IF s.merchant # req[i].merchant THEN s
                         ELSE [s EXCEPT !.tier = Kept(req[i].tier, s.tier),
                                        !.payment_status =
                                          Kept(req[i].payment_status, s.payment_status)])
                          \in SubscriptionRow
      BY <1>12, Zenon DEF UpdateSubscription
    <3> QED BY <1>0, <2>2 DEF SubscriptionRow
  <2>4. UNCHANGED <<merchants, users, profiles, served, req, tier, history>>
    BY <1>12, Zenon DEF UpdateSubscription
  <2> QED BY <1>0, <1>1, <2>3, <2>4 DEF history, TypeOK, Label, Code
<1> QED BY <1>2, <1>3, <1>4, <1>5, <1>6, <1>7, <1>8, <1>9, <1>10, <1>11, <1>12
        DEF Action, Handler

-----------------------------------------------------------------------------
(* The locals.                                                                *)

LEMMA Effects ==
  ASSUME TypeInv, NEW i \in Invocation, Action(i)
  PROVE  /\ \A code \in Code : Reply(i, code) => pc'[i] = "done" /\ status'[i] = code
         /\ \A l \in Label : Continue(i, l) => pc'[i] = l /\ status'[i] = 0
<1>1. pc \in [Invocation -> Label] /\ status \in [Invocation -> Code] /\ status[i] = 0
  BY Locals, Frame
<1> QED BY <1>1 DEF Reply, Continue, Goto

\* Which call a step makes, what comes next and what is answered.
LEMMA Flow ==
  ASSUME TypeInv, NEW i \in Invocation, Action(i)
  PROVE  \/ /\ Receive(i) /\ pc[i] = "idle"
            /\ \/ /\ pc'[i] \in {"create_merchant", "read_subscription", "require_operator"}
                  /\ status'[i] = 0
               \/ pc'[i] = "done" /\ status'[i] \in {422, 403}
         \/ /\ CreateMerchant(i) /\ pc[i] = "create_merchant"
            /\ pc'[i] = "create_subscription" /\ status'[i] = 0
         \/ /\ CreateSubscription(i) /\ pc[i] = "create_subscription"
            /\ pc'[i] = "create_user" /\ status'[i] = 0
         \/ /\ ReadSubscription(i) /\ pc[i] = "read_subscription"
            /\ \/ pc'[i] = "done" /\ status'[i] = 404
               \/ /\ Op(i) # "patch" /\ pc'[i] \in {"create_user", "count_operators"}
                  /\ status'[i] = 0
               \/ Op(i) = "patch" /\ pc'[i] = "update_subscription" /\ status'[i] = 0
         \/ /\ CountOperators(i) /\ pc[i] = "count_operators"
            /\ \/ pc'[i] = "done" /\ status'[i] = 402
               \/ pc'[i] = "create_user" /\ status'[i] = 0
         \/ /\ RequireOperator(i) /\ pc[i] = "require_operator"
            /\ \/ pc'[i] = "done" /\ status'[i] = 404
               \/ /\ pc'[i] \in {"delete_login", "update_profile", "update_login"}
                  /\ status'[i] = 0
         \/ /\ AuthCall(i) \/ AuthFails(i)
            /\ pc[i] \in AuthCalls
            /\ \/ Op(i) \in {"onboard", "add"} /\ pc'[i] = "insert_profile" /\ status'[i] = 0
               \/ Op(i) = "edit" /\ pc'[i] = "update_profile" /\ status'[i] = 0
               \/ Op(i) = "remove" /\ pc'[i] = "delete_profile" /\ status'[i] = 0
               \/ Op(i) = "onboard" /\ pc'[i] = "delete_merchant" /\ status'[i] = 0
               \/ Op(i) = "reset" /\ pc'[i] = "done" /\ status'[i] = 200
               \/ Op(i) \notin {"onboard", "remove"} /\ pc'[i] = "done" /\ status'[i] = 409
         \/ InsertProfile(i) /\ pc[i] = "insert_profile" /\ pc'[i] = "done" /\ status'[i] = 201
         \/ /\ DeleteMerchant(i) /\ pc[i] = "delete_merchant"
            /\ pc'[i] = "done" /\ status'[i] = 409
         \/ UpdateProfile(i) /\ pc[i] = "update_profile" /\ pc'[i] = "done" /\ status'[i] = 200
         \/ /\ DeleteProfile(i) /\ pc[i] = "delete_profile"
            /\ pc'[i] = "done" /\ status'[i] \in {204, 500}
         \/ /\ UpdateSubscription(i) /\ pc[i] = "update_subscription"
            /\ pc'[i] = "done" /\ status'[i] \in {200, 500}
         \/ /\ DbFails(i) \/ Crash(i)
            /\ pc[i] \notin Idle /\ pc'[i] = "done" /\ status'[i] \in {500, 504}
<1>1. CASE Receive(i)
  <2>1. /\ pc[i] = "idle"
        /\ \/ Reply(i, 422) \/ Reply(i, 403)
           \/ \E r \in Request : Continue(i, FirstCall(r.op))
    BY <1>1 DEF Receive
  <2>2. ASSUME NEW r \in Request
        PROVE  FirstCall(r.op) \in {"create_merchant", "read_subscription", "require_operator"}
    BY DEF FirstCall
  <2> QED BY <1>1, <2>1, <2>2, Effects DEF Label, DbCalls, Code
<1>2. CASE CreateMerchant(i)
  BY <1>2, Effects DEF CreateMerchant, Label, DbCalls
<1>3. CASE CreateSubscription(i)
  BY <1>3, Effects DEF CreateSubscription, Label, AuthCalls
<1>4. CASE ReadSubscription(i)
  <2>1. /\ pc[i] = "read_subscription"
        /\ \/ Reply(i, 404)
           \/ Op(i) # "patch" /\ Continue(i, "create_user")
           \/ Op(i) = "patch" /\ Continue(i, "update_subscription")
           \/ Op(i) # "patch" /\ Continue(i, "count_operators")
    BY <1>4 DEF ReadSubscription
  <2> QED BY <1>4, <2>1, Effects DEF Label, AuthCalls, DbCalls, Code
<1>5. CASE CountOperators(i)
  <2>1. pc[i] = "count_operators" /\ (Reply(i, 402) \/ Continue(i, "create_user"))
    BY <1>5 DEF CountOperators
  <2> QED BY <1>5, <2>1, Effects DEF Label, AuthCalls, Code
<1>6. CASE RequireOperator(i)
  <2>1. /\ pc[i] = "require_operator"
        /\ \/ Reply(i, 404) \/ Continue(i, "delete_login") \/ Continue(i, "update_profile")
           \/ Continue(i, "update_login")
    BY <1>6 DEF RequireOperator
  <2> QED BY <1>6, <2>1, Effects DEF Label, AuthCalls, DbCalls, Code
<1>7. CASE AuthCall(i) \/ AuthFails(i)
  <2>1. /\ pc[i] \in AuthCalls
        /\ \/ Op(i) \in {"onboard", "add"} /\ Continue(i, "insert_profile")
           \/ Op(i) = "edit" /\ Continue(i, "update_profile")
           \/ Op(i) = "reset" /\ Reply(i, 200)
           \/ Op(i) = "remove" /\ Continue(i, "delete_profile")
           \/ Op(i) = "onboard" /\ Continue(i, "delete_merchant")
           \/ Op(i) \notin {"onboard", "remove"} /\ Reply(i, 409)
    BY <1>7, AuthOutcomes DEF AfterAuth, OnAuthError
  <2>2. \/ Op(i) \in {"onboard", "add"} /\ pc'[i] = "insert_profile" /\ status'[i] = 0
        \/ Op(i) = "edit" /\ pc'[i] = "update_profile" /\ status'[i] = 0
        \/ Op(i) = "remove" /\ pc'[i] = "delete_profile" /\ status'[i] = 0
        \/ Op(i) = "onboard" /\ pc'[i] = "delete_merchant" /\ status'[i] = 0
        \/ Op(i) = "reset" /\ pc'[i] = "done" /\ status'[i] = 200
        \/ Op(i) \notin {"onboard", "remove"} /\ pc'[i] = "done" /\ status'[i] = 409
    BY <2>1, Effects DEF Label, DbCalls, Code
  <2> QED BY <1>7, <2>1, <2>2
<1>8. CASE InsertProfile(i) \/ DeleteMerchant(i)
  BY <1>8, Effects DEF InsertProfile, DeleteMerchant, Code
<1>9. CASE UpdateProfile(i) \/ DeleteProfile(i)
  BY <1>9, Effects DEF UpdateProfile, DeleteProfile, RefusedDeletion, Code
<1>10. CASE UpdateSubscription(i)
  <2>1. pc[i] = "update_subscription" /\ (Reply(i, 200) \/ Reply(i, 500))
    BY <1>10, Zenon DEF UpdateSubscription
  <2> QED BY <1>10, <2>1, Effects DEF Code
<1>11. CASE DbFails(i) \/ Crash(i)
  BY <1>11, Effects DEF DbFails, Crash, Running, Idle, DbCalls, Code
<1> QED BY <1>1, <1>2, <1>3, <1>4, <1>5, <1>6, <1>7, <1>8, <1>9, <1>10, <1>11
        DEF Action, Handler

\* Whose an account is, and that a tenant is known, does not change.
LEMMA Stable ==
  ASSUME TypeInv, NEW i \in Invocation, Action(i)
  PROVE  /\ \A j \in Invocation : pc[j] # "idle" =>
              /\ req'[j] = req[j] /\ pc'[j] # "idle" /\ Op(j)' = Op(j)
              /\ TenantOf(j)' = TenantOf(j) /\ RoleOf(j)' = RoleOf(j)
         /\ \A j \in Invocation : pc[j] = "done" => pc'[j] = "done" /\ status'[j] = status[j]
         /\ \A m \in MerchantId : Known(m) => Known(m)'
<1>1. ASSUME NEW j \in Invocation, pc[j] # "idle"
      PROVE  /\ req'[j] = req[j] /\ pc'[j] # "idle" /\ Op(j)' = Op(j)
             /\ TenantOf(j)' = TenantOf(j) /\ RoleOf(j)' = RoleOf(j)
  BY <1>1, Frame DEF Op, TenantOf, RoleOf
<1>2. ASSUME NEW j \in Invocation, pc[j] = "done"
      PROVE  pc'[j] = "done" /\ status'[j] = status[j]
  BY <1>2, Frame
<1>3. ASSUME NEW m \in MerchantId, Known(m)
      PROVE  Known(m)'
  <2>1. CASE m \in Invocation
    <3>1. pc[m] = "done"
      BY <1>3, <2>1 DEF Known, TypeInv, Local
    <3>2. Op(m)' = Op(m) /\ status'[m] = status[m]
      BY <1>1, <1>2, <2>1, <3>1
    <3> QED BY <1>3, <2>1, <3>2 DEF Known
  <2>2. CASE m \notin Invocation
    BY <2>2 DEF Known
  <2> QED BY <2>1, <2>2
<1> QED BY <1>1, <1>2, <1>3

LEMMA StableHome ==
  ASSUME TypeInv, NEW i \in Invocation, Action(i), NEW u, u \in Invocation => pc[u] # "idle"
  PROVE  Home(u)' = Home(u) /\ RoleAt(u)' = RoleAt(u)
  BY Stable DEF Home, RoleAt

LEMMA StableAim ==
  ASSUME TypeInv, NEW i \in Invocation, Action(i), NEW j \in Invocation, Aimed(j),
         pc[j] # "idle"
  PROVE  Aimed(j)'
<1>1. req'[j] = req[j]
  BY Stable
<1>2. ASSUME NEW u, u = req[j].user
      PROVE  /\ u \in UserId /\ Home(u)' = req[j].merchant /\ RoleAt(u)' = "operation_user"
             /\ u \in Invocation => pc'[u] = "done"
  <2>1. /\ u \in UserId /\ Home(u) = req[j].merchant /\ RoleAt(u) = "operation_user"
        /\ u \in Invocation => pc[u] = "done"
    BY <1>2 DEF Aimed
  <2>2. Home(u)' = Home(u) /\ RoleAt(u)' = RoleAt(u)
    BY <2>1, StableHome
  <2>3. u \in Invocation => pc'[u] = "done"
    BY <2>1, Stable
  <2> QED BY <2>1, <2>2, <2>3
<1> QED BY <1>1, <1>2 DEF Aimed, Home, RoleAt

LEMMA LocalStep ==
  ASSUME TypeInv, ProfileInv, NEW i \in Invocation, Action(i), NEW j \in Invocation
  PROVE  Local(j)'
<1>0. Local(j) /\ Local(i)
  BY DEF TypeInv
<1>1. CASE j # i
  <2>1. /\ pc'[j] = pc[j] /\ req'[j] = req[j] /\ status'[j] = status[j]
        /\ j \in troubled' <=> j \in troubled
    BY <1>1, Frame
  <2>2. (pc[j] \in AimedLabel \/ Answered(j, "remove", 204)) => Aimed(j)'
    <3>1. (pc[j] \in AimedLabel \/ Answered(j, "remove", 204)) => pc[j] # "idle" /\ Aimed(j)
      BY <1>0 DEF Local, Answered, AimedLabel
    <3> QED BY <3>1, StableAim
  <2>3. (pc[j] \notin Idle /\ Op(j) \notin {"onboard", "patch"}) => Known(req[j].merchant)'
    <3> SUFFICES ASSUME pc[j] \notin Idle, Op(j) \notin {"onboard", "patch"}
                 PROVE  Known(req[j].merchant)'
      OBVIOUS
    <3>1. req[j] \in Request /\ Known(req[j].merchant)
      BY <1>0 DEF Local, Idle
    <3>2. req[j].merchant \in MerchantId
      BY <3>1, RequestFacts DEF Op
    <3> QED BY <2>1, <3>1, <3>2, Stable
  <2> QED BY <1>0, <2>1, <2>2, <2>3 DEF Local, Op, Answered
<1>2. CASE j = i
  <2>1. /\ pc'[i] # "idle" /\ (pc'[i] = "done" <=> status'[i] # 0)
        /\ pc[i] # "idle" => req' = req
    BY Frame
  <2>2. req'[i] \in Request
    <3>1. CASE pc[i] = "idle"
      <4>1. \E r \in Request : req' = [req EXCEPT ![i] = r]
        BY <3>1 DEF Action, Handler, Receive, CreateMerchant, CreateSubscription,
                    ReadSubscription, CountOperators, RequireOperator, AuthCall, AuthFails,
                    InsertProfile, DeleteMerchant, UpdateProfile, DeleteProfile,
                    UpdateSubscription, DbFails, Crash, Running, Idle, AuthCalls, DbCalls
      <4> QED BY <4>1, Locals
    <3>2. CASE pc[i] # "idle"
      BY <1>0, <2>1, <3>2 DEF Local
    <3> QED BY <3>1, <3>2
  <2>3. /\ Fits(pc'[i], req'[i])
        /\ (pc'[i] \notin Idle /\ req'[i].op \notin {"onboard", "patch"})
             => Known(req[i].merchant)'
        /\ (pc'[i] \in AimedLabel \/ (req'[i].op = "remove" /\ status'[i] = 204)) => Aimed(i)'
    <3>1. CASE Receive(i)
      <4>1. PICK r \in Request :
              /\ SignedIn(r) /\ req' = [req EXCEPT ![i] = r]
              /\ \/ MissingProof(r) /\ Reply(i, 422)
                 \/ Forbidden(r) /\ Reply(i, 403)
                 \/ ~MissingProof(r) /\ ~Forbidden(r) /\ Continue(i, FirstCall(r.op))
        BY <3>1 DEF Receive
      <4>2. req'[i] = r
        BY <4>1, Locals
      <4>3. CASE ~Forbidden(r) /\ Continue(i, FirstCall(r.op))
        <5>1. /\ pc'[i] = FirstCall(r.op) /\ status'[i] = 0
              /\ \/ r.op = "onboard" /\ FirstCall(r.op) = "create_merchant"
                 \/ r.op \in {"add", "patch"} /\ FirstCall(r.op) = "read_subscription"
                 \/ r.op \in {"edit", "remove", "reset"} /\ FirstCall(r.op) = "require_operator"
          BY <4>3, Effects, RequestFacts DEF FirstCall, Label, Idle, DbCalls
        <5>2. r.op \notin {"onboard", "patch"} => Known(r.merchant)'
          <6>1. r.op \notin {"onboard", "patch"} => Known(r.merchant)
            BY <4>1, <4>3 DEF Forbidden, SignedIn, Known
          <6> QED BY <6>1, RequestFacts, Stable
        <5>3. r.op \notin {"onboard", "patch"} => Known(req[i].merchant)'
          BY <4>2, <5>2 DEF Known
        <5> QED BY <4>2, <4>3, <5>1, <5>3 DEF Fits, AimedLabel
      <4>4. CASE Reply(i, 422) \/ Reply(i, 403)
        <5>1. pc'[i] = "done" /\ status'[i] \in {422, 403}
          BY <4>4, Effects DEF Code
        <5> QED BY <5>1 DEF Fits, AimedLabel, Idle
      <4> QED BY <4>1, <4>3, <4>4
    <3>2. CASE RequireOperator(i)
      <4>1. pc[i] = "require_operator" /\ req' = req /\ Op(i) \in {"edit", "remove", "reset"}
            /\ Known(req[i].merchant) /\ req[i] \in Request /\ ~Forbidden(req[i])
        BY <1>0, <2>1, <3>2 DEF RequireOperator, Local, Fits, Op, Idle
      <4>2. CASE OperatorRow(req[i].merchant, req[i].user) = {}
        <5>1. pc'[i] = "done" /\ status'[i] = 404
          BY <3>2, <4>2, Effects DEF RequireOperator, Code
        <5> QED BY <5>1 DEF Fits, AimedLabel, Idle
      <4>3. CASE OperatorRow(req[i].merchant, req[i].user) # {}
        <5>1. PICK p \in profiles : /\ p.merchant = req[i].merchant /\ p.user_id = req[i].user
                                    /\ p.role = "operation_user"
          BY <4>3 DEF OperatorRow, Operators
        <5>2. Aimed(i)
          <6>1. p.user_id \in UserId
            BY <5>1 DEF TypeInv, TypeOK, ProfileRow
          <6> QED BY <5>1, <6>1 DEF ProfileInv, Aimed
        <5>3. \/ pc'[i] = "delete_login" /\ Op(i) = "remove" /\ status'[i] = 0
              \/ /\ pc'[i] = "update_profile" /\ Op(i) = "edit" /\ req[i].email = NoEmail
                 /\ status'[i] = 0
              \/ /\ pc'[i] = "update_login" /\ Op(i) # "remove" /\ status'[i] = 0
                 /\ Op(i) = "edit" => req[i].email # NoEmail
          <6>1. \/ Continue(i, "delete_login") /\ Op(i) = "remove"
                \/ /\ Continue(i, "update_profile") /\ Op(i) = "edit"
                   /\ req[i].email = NoEmail
                \/ /\ Continue(i, "update_login") /\ Op(i) # "remove"
                   /\ Op(i) = "edit" => req[i].email # NoEmail
            BY <3>2, <4>3 DEF RequireOperator
          <6> QED BY <6>1, Effects DEF Label, AuthCalls, DbCalls
        <5>4. Known(req[i].merchant)'
          BY <4>1, RequestFacts, Stable DEF Op
        <5>5. req[i].email \in Email \cup {NoEmail}
          BY <4>1, RequestFacts
        <5>6. Fits(pc'[i], req[i])
          BY <4>1, <5>3, <5>5 DEF Fits, Op
        <5>7. Aimed(i)'
          BY <4>1, <5>2, StableAim
        <5> QED BY <4>1, <5>3, <5>4, <5>6, <5>7
      <4> QED BY <4>2, <4>3
    <3>3. CASE pc[i] # "idle" /\ ~RequireOperator(i)
      <4>1. req' = req /\ req[i] \in Request /\ Fits(pc[i], req[i])
        BY <1>0, <2>1, <3>3 DEF Local
      <4>2. /\ Fits(pc'[i], req[i])
            /\ pc'[i] \notin Idle => pc[i] \notin Idle
            /\ (pc'[i] \in AimedLabel \/ status'[i] = 204) => pc[i] \in AimedLabel
        BY <3>3, <4>1, Flow DEF Fits, Op, AimedLabel, Idle, AuthCalls
      <4>3. (pc[i] \notin Idle /\ req[i].op \notin {"onboard", "patch"}) => Known(req[i].merchant)'
        BY <1>0, <4>1, RequestFacts, Stable DEF Local, Op
      <4>4. pc[i] \in AimedLabel => Aimed(i)'
        BY <1>0, <3>3, StableAim DEF Local
      <4> QED BY <4>1, <4>2, <4>3, <4>4
    <3> QED BY <3>1, <3>2, <3>3 DEF Receive, Action, Handler, CreateMerchant, CreateSubscription,
                ReadSubscription, CountOperators, AuthCall, AuthFails, InsertProfile,
                DeleteMerchant, UpdateProfile, DeleteProfile, UpdateSubscription, DbFails, Crash,
                Running, Idle, AuthCalls, DbCalls
  <2> QED BY <1>2, <2>1, <2>2, <2>3 DEF Local, Op, Answered
<1> QED BY <1>1, <1>2

-----------------------------------------------------------------------------
(* The rows.                                                                  *)

\* What a request that is at a call, and one it names, can say of its tenant.
LEMMA OwnTenant ==
  ASSUME TypeInv, NEW i \in Invocation, pc[i] \notin Idle, Op(i) \notin {"onboard", "patch"}
  PROVE  /\ req[i] \in Request /\ req[i].merchant \in MerchantId
         /\ Known(req[i].merchant) /\ req[i].caller = req[i].merchant
<1>1. Local(i) /\ req[i] \in Request
  BY DEF TypeInv, Local, Idle
<1>2. ~Forbidden(req[i])
  BY <1>1 DEF Local, Fits
<1> QED BY <1>1, <1>2, RequestFacts DEF Local, Forbidden, Op

\* The logins change in a call to the auth service only.
LEMMA LoginChange ==
  ASSUME TypeInv, NEW i \in Invocation, Action(i)
  PROVE  \/ users' = users
         \/ (AuthCall(i) \/ AuthFails(i)) /\ users' = AuthEffect(i) /\ ~AuthRefuses(i)
  BY DEF Action, Handler, Receive, CreateMerchant, CreateSubscription, ReadSubscription,
         CountOperators, RequireOperator, AuthCall, AuthFails, InsertProfile, DeleteMerchant,
         UpdateProfile, DeleteProfile, UpdateSubscription, DbFails, Crash, tables

\* A login after a step is one from before, or the one that the step created.
LEMMA LoginOrigin ==
  ASSUME TypeInv, NEW i \in Invocation, Action(i), NEW v \in users'
  PROVE  \/ \E u \in users :
              /\ u.id = v.id /\ u.merchant = v.merchant /\ u.role = v.role
              /\ v.email # u.email =>
                   /\ pc[i] = "update_login" /\ Op(i) = "edit" /\ u.id = req[i].user
                   /\ v.email = req[i].email
         \/ /\ v = NewRow(i) /\ pc[i] = "create_user"
            /\ pc'[i] = "insert_profile" \/ (pc'[i] \in {"delete_merchant", "done"} /\ i \in troubled')
<1>1. CASE users' = users
  BY <1>1
<1>2. CASE /\ AuthCall(i) \/ AuthFails(i)
           /\ users' = AuthEffect(i) /\ ~AuthRefuses(i)
  <2>0. users \subseteq UserRow
    BY DEF TypeInv, TypeOK
  <2>1. pc[i] \in AuthCalls
    BY <1>2, AuthOutcomes
  <2>2. CASE /\ pc[i] = "create_user" /\ Op(i) \in {"onboard", "add"}
             /\ users' = users \cup {NewRow(i)}
    <3>1. \/ Continue(i, "insert_profile")
          \/ i \in troubled' /\ (Continue(i, "delete_merchant") \/ Reply(i, 409))
      <4>1. CASE AuthCall(i)
        BY <2>2, <4>1, <1>2 DEF AuthCall, AfterAuth
      <4>2. CASE AuthFails(i)
        BY <2>2, <4>2 DEF AuthFails, OnAuthError
      <4> QED BY <1>2, <4>1, <4>2
    <3>2. pc'[i] = "insert_profile" \/ (pc'[i] \in {"delete_merchant", "done"} /\ i \in troubled')
      BY <3>1, Effects DEF Label, Code, DbCalls
    <3> QED BY <2>2, <3>2
  <2>3. CASE /\ pc[i] = "update_login" /\ Op(i) = "edit"
             /\ users' = {IF u.id = req[i].user THEN [u EXCEPT !.email = req[i].email] ELSE u :
                            u \in users}
    <3>1. PICK u \in users : v = IF u.id = req[i].user THEN [u EXCEPT !.email = req[i].email] ELSE u
      BY <2>3
    <3> QED BY <2>0, <2>3, <3>1 DEF UserRow
  <2>4. CASE users' = {IF u.id = req[i].user THEN [u EXCEPT !.password = i] ELSE u : u \in users}
    <3>1. PICK u \in users : v = IF u.id = req[i].user THEN [u EXCEPT !.password = i] ELSE u
      BY <2>4
    <3> QED BY <2>0, <3>1 DEF UserRow
  <2>5. CASE users' = {u \in users : u.id # req[i].user}
    BY <2>5
  <2> QED BY <1>2, <2>1, <2>2, <2>3, <2>4, <2>5, AuthEffects
<1> QED BY <1>1, <1>2, LoginChange

LEMMA ProfileOrigin ==
  ASSUME TypeInv, NEW i \in Invocation, Action(i), NEW v \in profiles'
  PROVE  \/ \E p \in profiles :
              /\ p.user_id = v.user_id /\ p.merchant = v.merchant /\ p.role = v.role
              /\ p # v => /\ UpdateProfile(i) /\ pc[i] = "update_profile"
                          /\ p.user_id = req[i].user /\ req[i].email # NoEmail
              /\ (UpdateProfile(i) /\ p.user_id = req[i].user /\ req[i].email # NoEmail)
                   => v.email = req[i].email
         \/ /\ InsertProfile(i) /\ pc[i] = "insert_profile" /\ status'[i] = 201 /\ pc'[i] = "done"
            /\ v = [user_id |-> i, email |-> req[i].email, merchant |-> TenantOf(i),
                    role |-> RoleOf(i)]
<1>0. profiles \subseteq ProfileRow
  BY DEF TypeInv, TypeOK
<1>1. CASE profiles' \subseteq profiles /\ ~UpdateProfile(i)
  BY <1>1
<1>2. CASE InsertProfile(i)
  <2>1. pc'[i] = "done" /\ status'[i] = 201
    BY <1>2, Effects DEF InsertProfile, Code
  <2>2. ~UpdateProfile(i)
    BY <1>2 DEF InsertProfile, UpdateProfile
  <2> QED BY <1>2, <2>1, <2>2 DEF InsertProfile
<1>3. CASE UpdateProfile(i)
  <2>1. PICK p \in profiles :
          v = IF p.user_id = req[i].user /\ req[i].email # NoEmail
              THEN [p EXCEPT !.email = req[i].email] ELSE p
    BY <1>3 DEF UpdateProfile, EditedProfiles
  <2>2. p.user_id = v.user_id /\ p.merchant = v.merchant /\ p.role = v.role
    BY <1>0, <2>1 DEF ProfileRow
  <2>3. p # v => p.user_id = req[i].user /\ req[i].email # NoEmail
    BY <2>1
  <2>4. (p.user_id = req[i].user /\ req[i].email # NoEmail) => v.email = req[i].email
    BY <1>0, <2>1 DEF ProfileRow
  <2>5. pc[i] = "update_profile"
    BY <1>3 DEF UpdateProfile
  <2> QED BY <1>3, <2>2, <2>3, <2>4, <2>5
<1>4. profiles' \subseteq profiles \/ InsertProfile(i) \/ UpdateProfile(i)
  BY DEF Action, Handler, Receive, CreateMerchant, CreateSubscription, ReadSubscription,
         CountOperators, RequireOperator, AuthCall, AuthFails, DeleteMerchant,
         DeleteProfile, UpdateSubscription, DbFails, Crash, tables, database
<1> QED BY <1>1, <1>2, <1>3, <1>4

LEMMA LoginStep ==
  ASSUME TypeInv, LoginInv, NEW i \in Invocation, Action(i)
  PROVE  LoginInv'
<1> SUFFICES ASSUME NEW v \in users'
             PROVE  /\ v.merchant = Home(v.id)' /\ v.role = RoleAt(v.id)'
                    /\ v.id \in Invocation =>
                         /\ \/ pc'[v.id] = "insert_profile"
                            \/ pc'[v.id] \in {"delete_merchant", "done"} /\ v.id \in troubled'
                            \/ pc'[v.id] = "done" /\ status'[v.id] \in {201, 500, 504}
                         /\ Op(v.id)' # "onboard" => Known(v.merchant)'
  BY DEF LoginInv
<1>1. CASE \E u \in users : u.id = v.id /\ u.merchant = v.merchant /\ u.role = v.role
  <2>1. PICK u \in users : u.id = v.id /\ u.merchant = v.merchant /\ u.role = v.role
    BY <1>1
  <2>2. /\ v.merchant = Home(v.id) /\ v.role = RoleAt(v.id) /\ v.merchant \in MerchantId
        /\ v.id \in Invocation =>
             /\ \/ pc[v.id] = "insert_profile"
                \/ pc[v.id] \in {"delete_merchant", "done"} /\ v.id \in troubled
                \/ pc[v.id] = "done" /\ status[v.id] \in {201, 500, 504}
             /\ Op(v.id) # "onboard" => Known(v.merchant)
    BY <2>1 DEF LoginInv, TypeInv, TypeOK, UserRow
  <2>3. Home(v.id)' = Home(v.id) /\ RoleAt(v.id)' = RoleAt(v.id)
    BY <2>2, StableHome
  <2>4. ASSUME v.id \in Invocation
        PROVE  Op(v.id)' # "onboard" => Known(v.merchant)'
    BY <2>2, <2>4, Stable
  <2>5. ASSUME v.id \in Invocation, v.id # i
        PROVE  \/ pc'[v.id] = "insert_profile"
               \/ pc'[v.id] \in {"delete_merchant", "done"} /\ v.id \in troubled'
               \/ pc'[v.id] = "done" /\ status'[v.id] \in {201, 500, 504}
    BY <2>2, <2>5, Frame
  <2>6. ASSUME v.id = i
        PROVE  \/ pc'[i] = "insert_profile"
               \/ pc'[i] \in {"delete_merchant", "done"} /\ i \in troubled'
               \/ pc'[i] = "done" /\ status'[i] \in {201, 500, 504}
    <3>1. pc[i] = "insert_profile" \/ (pc[i] = "delete_merchant" /\ i \in troubled)
      BY <2>2, <2>6, Frame
    <3>2. InsertProfile(i) \/ DeleteMerchant(i) \/ DbFails(i) \/ Crash(i)
      BY <3>1 DEF Action, Handler, Receive, CreateMerchant, CreateSubscription, ReadSubscription,
         CountOperators, RequireOperator, AuthCall, AuthFails,
         UpdateProfile, DeleteProfile, UpdateSubscription, AuthCalls
    <3>3. CASE pc[i] = "insert_profile"
      <4>1. ~DeleteMerchant(i)
        BY <3>3 DEF DeleteMerchant
      <4>2. pc'[i] = "done" /\ status'[i] \in {201, 500, 504}
        BY <3>2, <4>1, Effects DEF InsertProfile, DbFails, Crash, Code
      <4> QED BY <4>2
    <3>4. CASE pc[i] = "delete_merchant" /\ i \in troubled
      <4>1. pc'[i] = "done"
        BY <3>2, Effects DEF InsertProfile, DeleteMerchant, DbFails, Crash, Code
      <4> QED BY <3>4, <4>1, Frame
    <3> QED BY <3>1, <3>3, <3>4
  <2> QED BY <2>2, <2>3, <2>4, <2>5, <2>6
<1>2. CASE /\ v = NewRow(i) /\ pc[i] = "create_user"
           /\ pc'[i] = "insert_profile" \/ (pc'[i] \in {"delete_merchant", "done"} /\ i \in troubled')
  <2>1. v.id = i /\ v.merchant = TenantOf(i) /\ v.role = RoleOf(i)
    BY <1>2 DEF NewRow
  <2>2. /\ TenantOf(i)' = TenantOf(i) /\ RoleOf(i)' = RoleOf(i) /\ Op(i)' = Op(i)
    BY <1>2, Stable
  <2>3. Op(i) # "onboard" => Known(v.merchant)'
    <3>1. Op(i) \in {"onboard", "add"} /\ pc[i] \notin Idle
      BY <1>2 DEF TypeInv, Local, Fits, Op, Idle
    <3> QED BY <2>1, <3>1, OwnTenant, Stable DEF TenantOf
  <2> QED BY <1>2, <2>1, <2>2, <2>3 DEF Home, RoleAt
<1> QED BY <1>1, <1>2, LoginOrigin

LEMMA ProfileStep ==
  ASSUME TypeInv, ProfileInv, NEW i \in Invocation, Action(i)
  PROVE  ProfileInv'
<1> SUFFICES ASSUME NEW v \in profiles'
             PROVE  /\ v.merchant = Home(v.user_id)' /\ v.role = RoleAt(v.user_id)'
                    /\ v.user_id \in Invocation =>
                         /\ pc'[v.user_id] = "done" /\ status'[v.user_id] = 201
                         /\ Op(v.user_id)' # "onboard" => Known(v.merchant)'
  BY DEF ProfileInv
<1>1. CASE \E p \in profiles :
             p.user_id = v.user_id /\ p.merchant = v.merchant /\ p.role = v.role
  <2>1. PICK p \in profiles : p.user_id = v.user_id /\ p.merchant = v.merchant /\ p.role = v.role
    BY <1>1
  <2>2. /\ v.merchant = Home(v.user_id) /\ v.role = RoleAt(v.user_id)
        /\ v.merchant \in MerchantId
        /\ v.user_id \in Invocation =>
             /\ pc[v.user_id] = "done" /\ status[v.user_id] = 201
             /\ Op(v.user_id) # "onboard" => Known(v.merchant)
    BY <2>1 DEF ProfileInv, TypeInv, TypeOK, ProfileRow
  <2>3. Home(v.user_id)' = Home(v.user_id) /\ RoleAt(v.user_id)' = RoleAt(v.user_id)
    <3>1. v.user_id \in Invocation => pc[v.user_id] # "idle"
      BY <2>2
    <3> QED BY <3>1, StableHome
  <2>4. ASSUME v.user_id \in Invocation
        PROVE  /\ pc'[v.user_id] = "done" /\ status'[v.user_id] = 201
               /\ Op(v.user_id)' # "onboard" => Known(v.merchant)'
    <3>1. /\ pc[v.user_id] = "done" /\ status[v.user_id] = 201
          /\ Op(v.user_id) # "onboard" => Known(v.merchant)
      BY <2>2, <2>4
    <3>2. Op(v.user_id)' = Op(v.user_id)
      BY <2>4, <3>1, Stable
    <3> QED BY <2>2, <2>4, <3>1, <3>2, Stable
  <2> QED BY <2>2, <2>3, <2>4
<1>2. CASE /\ pc[i] = "insert_profile" /\ status'[i] = 201 /\ pc'[i] = "done"
           /\ v = [user_id |-> i, email |-> req[i].email, merchant |-> TenantOf(i),
                   role |-> RoleOf(i)]
  <2>1. v.user_id = i /\ v.merchant = TenantOf(i) /\ v.role = RoleOf(i)
    BY <1>2
  <2>2. /\ TenantOf(i)' = TenantOf(i) /\ RoleOf(i)' = RoleOf(i) /\ Op(i)' = Op(i)
    BY <1>2, Stable
  <2>3. Op(i) # "onboard" => Known(v.merchant)'
    <3>1. Op(i) \in {"onboard", "add"} /\ pc[i] \notin Idle
      BY <1>2 DEF TypeInv, Local, Fits, Op, Idle
    <3> QED BY <2>1, <3>1, OwnTenant, Stable DEF TenantOf
  <2> QED BY <1>2, <2>1, <2>2, <2>3 DEF Home, RoleAt
<1> QED BY <1>1, <1>2, ProfileOrigin

-----------------------------------------------------------------------------
(* Removals.                                                                  *)

\* Nothing names an account again that a removal aimed at.
LEMMA NoReturn ==
  ASSUME TypeInv, NEW i \in Invocation, Action(i), NEW j \in Invocation, Aimed(j)
  PROVE  /\ \A v \in users' : v.id = req[j].user => \E u \in users : u.id = req[j].user
         /\ \A v \in profiles' : v.user_id = req[j].user =>
              \E p \in profiles : /\ p.user_id = req[j].user /\ p.merchant = v.merchant
                                  /\ p.role = v.role
<1>1. req[j].user # i
  BY Frame DEF Aimed
<1>2. ASSUME NEW v \in users', v.id = req[j].user
      PROVE  \E u \in users : u.id = req[j].user
  <2>1. v # NewRow(i)
    BY <1>1, <1>2 DEF NewRow
  <2> QED BY <1>2, <2>1, LoginOrigin
<1>3. ASSUME NEW v \in profiles', v.user_id = req[j].user
      PROVE  \E p \in profiles : /\ p.user_id = req[j].user /\ p.merchant = v.merchant
                                 /\ p.role = v.role
  BY <1>1, <1>3, ProfileOrigin
<1> QED BY <1>2, <1>3

LEMMA RemovalStep ==
  ASSUME TypeInv, ProfileInv, NEW i \in Invocation, Action(i), NEW j \in Invocation, Removal(j)
  PROVE  Removal(j)'
<1>1. ASSUME pc[j] = "delete_profile" \/ Answered(j, "remove", 204)
      PROVE  /\ req'[j] = req[j] /\ Aimed(j)
             /\ (\E u \in users' : u.id = req[j].user) => j \in troubled'
  <2>1. Aimed(j) /\ pc[j] # "idle"
    BY <1>1 DEF TypeInv, Local, AimedLabel, Answered
  <2>2. (\E u \in users : u.id = req[j].user) => j \in troubled
    BY <1>1 DEF Removal
  <2> QED BY <2>1, <2>2, NoReturn, Frame, Stable
<1>2. ASSUME Answered(j, "remove", 204)
      PROVE  {p \in profiles' : p.merchant = req[j].merchant /\ p.role = "operation_user"
                                /\ p.user_id = req[j].user} = {}
  <2>1. ~\E p \in profiles : /\ p.merchant = req[j].merchant /\ p.role = "operation_user"
                             /\ p.user_id = req[j].user
    BY <1>2 DEF Removal, OperatorRow, Operators
  <2> QED BY <1>1, <1>2, <2>1, NoReturn
<1>3. CASE j # i
  <2>1. pc'[j] = pc[j] /\ req'[j] = req[j] /\ status'[j] = status[j]
    BY <1>3, Frame
  <2> QED BY <1>1, <1>2, <2>1 DEF Removal, Answered, Op, OperatorRow, Operators
<1>4. CASE j = i
  <2>1. status[i] = 0
    BY Frame
  <2>2. CASE pc'[i] = "delete_profile"
    <3>1. /\ AuthCall(i) \/ AuthFails(i)
          /\ Op(i) = "remove"
      BY <2>2, Flow
    <3>2. /\ req'[i] = req[i] /\ Answered(i, "remove", 204)' = FALSE
          /\ pc[i] = "delete_login" /\ AuthEffect(i) = {u \in users : u.id # req[i].user}
      <4>1. pc[i] # "idle" /\ pc[i] \in AuthCalls
        BY <3>1, AuthOutcomes DEF AuthCalls
      <4>2. status'[i] = 0
        BY <2>2, Frame
      <4> QED BY <3>1, <4>1, <4>2, Frame, AuthEffects DEF Answered
    <3>3. (\E u \in users' : u.id = req[i].user) => i \in troubled'
      <4>1. CASE users' = AuthEffect(i)
        BY <3>2, <4>1
      <4>2. CASE users' = users /\ AuthRefuses(i)
        BY <3>1, <4>2 DEF AuthRefuses
      <4> QED BY <3>1, <4>1, <4>2, AuthOutcomes
    <3> QED BY <1>4, <3>2, <3>3 DEF Removal
  <2>3. CASE pc'[i] # "delete_profile" /\ Answered(i, "remove", 204)'
    <3>1. DeleteProfile(i) /\ pc[i] = "delete_profile" /\ status'[i] = 204
      BY <2>3, Flow DEF Answered
    <3>2. profiles' = profiles \ OperatorRow(req[i].merchant, req[i].user) /\ users' = users
      <4>1. ~RefusedDeletion(i)
        BY <3>1, Effects DEF RefusedDeletion, Code
      <4> QED BY <3>1, <4>1 DEF DeleteProfile
    <3>3. OperatorRow(req[i].merchant, req[i].user)' = {}
      BY <1>1, <1>4, <3>1, <3>2 DEF OperatorRow, Operators
    <3> QED BY <1>1, <1>4, <2>3, <3>1, <3>3 DEF Removal
  <2>4. CASE pc'[i] # "delete_profile" /\ ~Answered(i, "remove", 204)'
    BY <1>4, <2>4 DEF Removal
  <2> QED BY <2>2, <2>3, <2>4
<1> QED BY <1>3, <1>4

\* The logins and profiles that a step takes away.
LEMMA LoginLoss ==
  ASSUME TypeInv, NEW i \in Invocation, Action(i), NEW u \in users,
         ~\E v \in users' : v.id = u.id
  PROVE  pc[i] = "delete_login" /\ Op(i) = "remove" /\ req[i].user = u.id
         /\ pc'[i] = "delete_profile" /\ Aimed(i)
<1>0. users \subseteq UserRow
  BY DEF TypeInv, TypeOK
<1>1. (AuthCall(i) \/ AuthFails(i)) /\ users' = AuthEffect(i)
  BY LoginChange
<1>2. pc[i] \in AuthCalls
  BY <1>1, AuthOutcomes
<1>3. CASE users' = users \cup {NewRow(i)}
  BY <1>3
<1>4. CASE users' = {IF v.id = req[i].user THEN [v EXCEPT !.email = req[i].email] ELSE v :
                       v \in users}
  <2>1. \E v \in users' : v = IF u.id = req[i].user THEN [u EXCEPT !.email = req[i].email] ELSE u
    BY <1>4
  <2> QED BY <1>0, <2>1 DEF UserRow
<1>5. CASE users' = {IF v.id = req[i].user THEN [v EXCEPT !.password = i] ELSE v : v \in users}
  <2>1. \E v \in users' : v = IF u.id = req[i].user THEN [u EXCEPT !.password = i] ELSE u
    BY <1>5
  <2> QED BY <1>0, <2>1 DEF UserRow
<1>6. CASE /\ pc[i] = "delete_login" /\ Op(i) = "remove"
           /\ users' = {v \in users : v.id # req[i].user}
  <2>1. req[i].user = u.id
    BY <1>6
  <2>2. pc'[i] = "delete_profile"
    <3>1. AfterAuth(i) \/ OnAuthError(i)
      BY <1>1, AuthOutcomes
    <3>2. Continue(i, "delete_profile")
      BY <1>6, <3>1 DEF AfterAuth, OnAuthError
    <3> QED BY <3>2, Effects DEF Label, DbCalls
  <2>3. Aimed(i)
    BY <1>6 DEF TypeInv, Local, AimedLabel
  <2> QED BY <1>6, <2>1, <2>2, <2>3
<1> QED BY <1>1, <1>2, <1>3, <1>4, <1>5, <1>6, AuthEffects

LEMMA ProfileLoss ==
  ASSUME TypeInv, ProfileInv, NEW i \in Invocation, Action(i), NEW p \in profiles,
         ~\E q \in profiles' : q.user_id = p.user_id
  PROVE  /\ DeleteProfile(i) /\ pc[i] = "delete_profile" /\ Op(i) = "remove"
         /\ req[i].user = p.user_id /\ Aimed(i) /\ p.role = "operation_user"
<1>0. profiles \subseteq ProfileRow /\ Local(i)
  BY DEF TypeInv, TypeOK
<1>1. InsertProfile(i) \/ DeleteMerchant(i) \/ UpdateProfile(i) \/ DeleteProfile(i)
  BY DEF Action, Handler, Receive, CreateMerchant, CreateSubscription, ReadSubscription,
         CountOperators, RequireOperator, AuthCall, AuthFails, UpdateSubscription, DbFails, Crash,
         tables, database
<1>2. ~InsertProfile(i)
  BY DEF InsertProfile
<1>3. ASSUME UpdateProfile(i)
      PROVE  FALSE
  <2>1. \E q \in profiles' : q = IF p.user_id = req[i].user /\ req[i].email # NoEmail
                                THEN [p EXCEPT !.email = req[i].email] ELSE p
    BY <1>3 DEF UpdateProfile, EditedProfiles
  <2> QED BY <1>0, <2>1 DEF ProfileRow
<1>4. ASSUME DeleteMerchant(i)
      PROVE  FALSE
  <2>1. p.merchant = i /\ pc[i] = "delete_merchant"
    BY <1>4 DEF DeleteMerchant
  <2>2. status[i] = 0 /\ pc[i] # "done"
    BY Frame
  <2>3. p.user_id \in Invocation
    BY <2>1, TenantsAssumption DEF ProfileInv, Home
  <2>4. Op(p.user_id) # "onboard" => Known(p.merchant)
    BY <2>3 DEF ProfileInv
  <2>5. Op(p.user_id) = "onboard"
    BY <2>1, <2>2, <2>4 DEF Known
  <2>6. p.merchant = p.user_id
    BY <2>3, <2>5 DEF ProfileInv, Home, TenantOf
  <2> QED BY <2>1, <2>2, <2>3, <2>6 DEF ProfileInv
<1>5. DeleteProfile(i)
  BY <1>1, <1>2, <1>3, <1>4
<1>6. pc[i] = "delete_profile" /\ Op(i) = "remove" /\ Aimed(i)
  BY <1>0, <1>5 DEF DeleteProfile, Local, Fits, Op, AimedLabel
<1>7. p \in OperatorRow(req[i].merchant, req[i].user)
  BY <1>5 DEF DeleteProfile
<1> QED BY <1>5, <1>6, <1>7 DEF OperatorRow, Operators

LEMMA FailedStays ==
  ASSUME TypeInv, NEW i \in Invocation, Action(i), NEW j \in Invocation, Failed(j)
  PROVE  Failed(j)'
<1>1. CASE j \in troubled
  BY <1>1, Frame DEF Failed
<1>2. CASE status[j] \in {500, 504}
  BY <1>2, Stable DEF Failed, TypeInv, Local
<1> QED BY <1>1, <1>2 DEF Failed

LEMMA GhostStep ==
  ASSUME TypeInv, ProfileInv, GhostInv, \A k \in Invocation : NewLogin(k),
         NEW i \in Invocation, Action(i)
  PROVE  GhostInv'
<1> SUFFICES ASSUME NEW v \in profiles', ~\E u \in users' : u.id = v.user_id
             PROVE  \E j \in Invocation : /\ Op(j)' = "remove" /\ req'[j].user = v.user_id
                                          /\ pc'[j] = "delete_profile" \/ Failed(j)'
  BY DEF GhostInv
<1>1. CASE \E u \in users : u.id = v.user_id
  <2>1. /\ pc[i] = "delete_login" /\ Op(i) = "remove" /\ req[i].user = v.user_id
        /\ pc'[i] = "delete_profile"
    BY <1>1, LoginLoss
  <2>2. Op(i)' = "remove" /\ req'[i].user = v.user_id
    BY <2>1, Stable
  <2> QED BY <2>1, <2>2
<1>2. CASE ~\E u \in users : u.id = v.user_id
  <2>1. PICK p \in profiles : /\ p.user_id = v.user_id /\ p.merchant = v.merchant
                              /\ p.role = v.role
                              /\ p # v => pc[i] = "update_profile"
    <3>1. ~(pc[i] = "insert_profile" /\ v.user_id = i)
      BY <1>2 DEF NewLogin
    <3> QED BY <3>1, ProfileOrigin
  <2>2. PICK j \in Invocation : /\ Op(j) = "remove" /\ req[j].user = v.user_id
                                /\ pc[j] = "delete_profile" \/ Failed(j)
    BY <1>2, <2>1 DEF GhostInv
  <2>3. pc[j] # "idle"
    BY <2>2, Locals DEF TypeInv, Local, Failed
  <2>4. Op(j)' = "remove" /\ req'[j].user = v.user_id
    BY <2>2, <2>3, Stable
  <2>5. pc'[j] = "delete_profile" \/ Failed(j)'
    <3>1. CASE Failed(j)
      BY <3>1, FailedStays
    <3>2. CASE pc[j] = "delete_profile" /\ j # i
      BY <3>2, Frame
    <3>3. CASE pc[j] = "delete_profile" /\ j = i
      <4>1. (DeleteProfile(i) /\ status'[i] \in {204, 500}) \/ status'[i] \in {500, 504}
        BY <3>3, Flow DEF AuthCalls
      <4>2. CASE DeleteProfile(i) /\ status'[i] = 204
        <5>1. profiles' = profiles \ OperatorRow(req[i].merchant, req[i].user)
          <6>1. ~RefusedDeletion(i)
            BY <4>2, Effects DEF RefusedDeletion, Code
          <6> QED BY <4>2, <6>1 DEF DeleteProfile
        <5>2. Aimed(i)
          BY <3>3 DEF TypeInv, Local, AimedLabel
        <5>3. v \in OperatorRow(req[i].merchant, req[i].user)
          <6>1. v \in profiles
            BY <5>1
          <6>2. v.merchant = req[i].merchant /\ v.role = "operation_user"
            BY <2>2, <3>3, <5>2, <6>1 DEF ProfileInv, Aimed
          <6> QED BY <2>2, <3>3, <6>1, <6>2 DEF OperatorRow, Operators
        <5> QED BY <5>1, <5>3
      <4> QED BY <3>3, <4>1, <4>2 DEF Failed
    <3> QED BY <2>2, <3>1, <3>2, <3>3
  <2> QED BY <2>4, <2>5
<1> QED BY <1>1, <1>2

LEMMA StrandedStep ==
  ASSUME TypeInv, LoginInv, ProfileInv, \A k \in Invocation : Removal(k),
         StrandedLoginsOnlyBehindFailures, NEW i \in Invocation, Action(i)
  PROVE  StrandedLoginsOnlyBehindFailures'
<1> SUFFICES ASSUME NEW v \in users', ~\E p \in profiles' : p.user_id = v.id
             PROVE  \/ v.id \in Invocation /\ (Running(v.id)' \/ Failed(v.id)')
                    \/ \E j \in Invocation : /\ Op(j)' = "remove" /\ req'[j].user = v.id
                                             /\ Failed(j)'
  BY DEF StrandedLoginsOnlyBehindFailures
<1>1. CASE \E u \in users : u.id = v.id
  <2>1. PICK u \in users : u.id = v.id
    BY <1>1
  <2>2. CASE \E p \in profiles : p.user_id = v.id
    <3>1. /\ pc[i] = "delete_profile" /\ Op(i) = "remove" /\ req[i].user = v.id
      BY <2>2, ProfileLoss
    <3>2. i \in troubled
      BY <2>1, <3>1 DEF Removal
    <3>3. i \in troubled' /\ Op(i)' = "remove" /\ req'[i].user = v.id
      BY <3>1, <3>2, Frame, Stable
    <3> QED BY <3>3 DEF Failed
  <2>3. CASE ~\E p \in profiles : p.user_id = v.id
    <3>1. \/ v.id \in Invocation /\ (Running(v.id) \/ Failed(v.id))
          \/ \E j \in Invocation : Op(j) = "remove" /\ req[j].user = v.id /\ Failed(j)
      BY <2>1, <2>3 DEF StrandedLoginsOnlyBehindFailures
    <3>2. CASE \E j \in Invocation : Op(j) = "remove" /\ req[j].user = v.id /\ Failed(j)
      <4>1. PICK j \in Invocation : Op(j) = "remove" /\ req[j].user = v.id /\ Failed(j)
        BY <3>2
      <4>2. pc[j] # "idle"
        BY <4>1 DEF TypeInv, Local, Failed
      <4> QED BY <4>1, <4>2, FailedStays, Stable
    <3>3. CASE v.id \in Invocation /\ Failed(v.id)
      BY <3>3, FailedStays
    <3>4. CASE v.id \in Invocation /\ Running(v.id) /\ v.id # i
      BY <3>4, Frame DEF Running
    <3>5. CASE v.id = i /\ Running(i) /\ ~Failed(i)
      <4>1. pc[i] = "insert_profile"
        BY <2>1, <3>5 DEF LoginInv, Running, Idle, Failed
      <4>2. \/ InsertProfile(i)
            \/ status'[i] \in {500, 504}
        BY <4>1, Flow DEF AuthCalls
      <4>3. ASSUME InsertProfile(i)
            PROVE  FALSE
        <5>1. [user_id |-> i, email |-> req[i].email, merchant |-> TenantOf(i),
               role |-> RoleOf(i)] \in profiles'
          BY <4>3 DEF InsertProfile
        <5> QED BY <3>5, <5>1
      <4> QED BY <3>5, <4>2, <4>3 DEF Failed
    <3> QED BY <3>1, <3>2, <3>3, <3>4, <3>5
  <2> QED BY <2>2, <2>3
<1>2. CASE v = NewRow(i) /\ (pc'[i] = "insert_profile" \/ i \in troubled')
  BY <1>2 DEF NewRow, Running, Failed, Idle
<1> QED BY <1>1, <1>2, LoginOrigin

-----------------------------------------------------------------------------
(* Onboarding.                                                                *)

LEMMA NewLoginStep ==
  ASSUME TypeInv, LoginInv, NEW i \in Invocation, Action(i), NEW j \in Invocation, NewLogin(j)
  PROVE  NewLogin(j)'
<1> SUFFICES ASSUME pc'[j] = "insert_profile"
             PROVE  /\ \E u \in users' : u.id = j
                    /\ \A u \in users' : u.id = j => u.email = req'[j].email
  BY DEF NewLogin
<1>1. CASE j = i
  <2>1. /\ AuthCall(i) \/ AuthFails(i)
        /\ Op(i) \in {"onboard", "add"} /\ pc[i] \in AuthCalls
    BY <1>1, Flow
  <2>2. pc[i] = "create_user" /\ AuthEffect(i) = users \cup {NewRow(i)}
    BY <2>1, AuthEffects
  <2>3. users' = AuthEffect(i)
    <3>1. ASSUME OnAuthError(i)
          PROVE  FALSE
      BY <1>1, <2>1, <3>1, Effects DEF OnAuthError, Label, DbCalls, Code
    <3> QED BY <2>1, <3>1 DEF AuthCall, AuthFails
  <2>4. \A u \in users : u.id # i
    BY <2>2, Frame DEF LoginInv
  <2>5. req'[i] = req[i]
    BY <2>2, Frame
  <2>6. NewRow(i).id = i /\ NewRow(i).email = req[i].email
    BY DEF NewRow
  <2> QED BY <1>1, <2>2, <2>3, <2>4, <2>5, <2>6
<1>2. CASE j # i
  <2>1. pc[j] = "insert_profile" /\ req'[j] = req[j]
    BY <1>2, Frame
  <2>2. PICK w \in users : w.id = j
    BY <2>1 DEF NewLogin
  <2>3. Aimed(i) => req[i].user # j
    BY <2>1 DEF Aimed
  <2>4. \E u \in users' : u.id = j
    BY <2>2, <2>3, LoginLoss
  <2>5. ASSUME NEW v \in users', v.id = j
        PROVE  v.email = req[j].email
    <3>1. v # NewRow(i)
      BY <1>2, <2>5 DEF NewRow
    <3>2. PICK u \in users : u.id = v.id /\ (v.email # u.email => pc[i] = "update_login" /\ u.id = req[i].user)
      BY <3>1, LoginOrigin
    <3>3. pc[i] = "update_login" => Aimed(i)
      BY DEF TypeInv, Local, AimedLabel
    <3> QED BY <2>1, <2>3, <2>5, <3>2, <3>3 DEF NewLogin
  <2> QED BY <2>1, <2>4, <2>5
<1> QED BY <1>1, <1>2

LEMMA MerchantChange ==
  ASSUME TypeInv, NEW i \in Invocation, Action(i)
  PROVE  /\ \A m \in merchants' : m \in merchants \/ (m = i /\ CreateMerchant(i))
         /\ \A m \in merchants : m \in merchants' \/ (m = i /\ DeleteMerchant(i))
         /\ DeleteMerchant(i) => i \notin merchants'
         /\ CreateMerchant(i) => i \in merchants'
  BY DEF Action, Handler, Receive, CreateMerchant, CreateSubscription, ReadSubscription,
         CountOperators, RequireOperator, AuthCall, AuthFails, InsertProfile, DeleteMerchant,
         UpdateProfile, DeleteProfile, UpdateSubscription, DbFails, Crash, tables, database

LEMMA SubscriptionChange ==
  ASSUME TypeInv, NEW i \in Invocation, Action(i)
  PROVE  /\ \A t \in subscriptions' :
              \/ \E s \in subscriptions : /\ s.merchant = t.merchant
                                          /\ s # t => /\ UpdateSubscription(i)
                                                      /\ s.merchant = req[i].merchant
              \/ t.merchant = i /\ CreateSubscription(i)
         /\ \A s \in subscriptions :
              \/ \E t \in subscriptions' : /\ s.merchant = t.merchant
                                           /\ s # t => /\ UpdateSubscription(i)
                                                       /\ s.merchant = req[i].merchant
              \/ s.merchant = i /\ DeleteMerchant(i)
         /\ DeleteMerchant(i) => \A t \in subscriptions' : t.merchant # i
         /\ CreateSubscription(i) => \E t \in subscriptions' : t.merchant = i
<1>0. subscriptions \subseteq SubscriptionRow
  BY DEF TypeInv, TypeOK
<1>1. CASE UpdateSubscription(i)
  <2>1. subscriptions' =
          {IF s.merchant # req[i].merchant THEN s
           ELSE [s EXCEPT !.tier = Kept(req[i].tier, s.tier),
                          !.payment_status = Kept(req[i].payment_status, s.payment_status)] :
             s \in subscriptions}
    BY <1>1, Zenon DEF UpdateSubscription
  <2>2. ASSUME NEW s \in subscriptions,
               NEW t, t = IF s.merchant # req[i].merchant THEN s
                          ELSE [s EXCEPT !.tier = Kept(req[i].tier, s.tier),
                                  !.payment_status = Kept(req[i].payment_status, s.payment_status)]
        PROVE  s.merchant = t.merchant /\ (s # t => s.merchant = req[i].merchant)
    BY <1>0, <2>2 DEF SubscriptionRow
  <2>3. pc[i] = "update_subscription"
    BY <1>1, Zenon DEF UpdateSubscription
  <2>4. ~DeleteMerchant(i) /\ ~CreateSubscription(i)
    BY <2>3 DEF DeleteMerchant, CreateSubscription
  <2>5. ASSUME NEW t \in subscriptions'
        PROVE  \E s \in subscriptions : s.merchant = t.merchant /\ (s # t => s.merchant = req[i].merchant)
    BY <2>1, <2>2, Zenon
  <2>6. ASSUME NEW s \in subscriptions
        PROVE  \E t \in subscriptions' : s.merchant = t.merchant /\ (s # t => s.merchant = req[i].merchant)
    BY <2>1, <2>2, Zenon
  <2> QED BY <1>1, <2>4, <2>5, <2>6
<1>2. CASE CreateSubscription(i)
  <2>1. subscriptions' = subscriptions \cup
          {[merchant |-> i, tier |-> req[i].tier, payment_status |-> "pending"]}
    BY <1>2 DEF CreateSubscription
  <2>2. ~DeleteMerchant(i)
    BY <1>2 DEF CreateSubscription, DeleteMerchant
  <2>3. [merchant |-> i, tier |-> req[i].tier, payment_status |-> "pending"].merchant = i
    OBVIOUS
  <2>4. ASSUME NEW t \in subscriptions'
        PROVE  t \in subscriptions \/ t.merchant = i
    BY <2>1, <2>3
  <2> QED BY <1>2, <2>1, <2>2, <2>3, <2>4
<1>3. CASE DeleteMerchant(i)
  <2>1. ~CreateSubscription(i)
    BY <1>3 DEF CreateSubscription, DeleteMerchant
  <2> QED BY <1>3, <2>1 DEF DeleteMerchant, Subscription
<1>4. CASE ~UpdateSubscription(i) /\ ~CreateSubscription(i) /\ ~DeleteMerchant(i)
  <2>1. subscriptions' = subscriptions
    BY <1>4 DEF Action, Handler, Receive, CreateMerchant, ReadSubscription, CountOperators,
       RequireOperator, AuthCall, AuthFails, InsertProfile, UpdateProfile, DeleteProfile,
       DbFails, Crash, tables, database
  <2> QED BY <1>4, <2>1
<1> QED BY <1>1, <1>2, <1>3, <1>4

LEMMA TenantStep ==
  ASSUME TypeInv, TenantInv, NEW i \in Invocation, Action(i)
  PROVE  TenantInv'
<1>1. ASSUME NEW m \in merchants', m \in Invocation
      PROVE  /\ pc'[m] \notin {"idle", "create_merchant"} /\ Op(m)' = "onboard"
             /\ status'[m] \notin {409, 422}
  <2>1. CASE m \in merchants
    <3>1. /\ pc[m] \notin {"idle", "create_merchant"} /\ Op(m) = "onboard"
          /\ status[m] \notin {409, 422}
      BY <1>1, <2>1 DEF TenantInv
    <3>2. Op(m)' = "onboard"
      BY <1>1, <3>1, Stable
    <3>3. CASE m # i
      BY <1>1, <3>1, <3>2, <3>3, Frame
    <3>4. CASE m = i
      <4>1. ~DeleteMerchant(i)
        BY <1>1, <3>4, MerchantChange
      <4> QED BY <3>1, <3>2, <3>4, <4>1, Flow
    <3> QED BY <3>3, <3>4
  <2>2. CASE m = i /\ CreateMerchant(i)
    <3>1. pc[i] = "create_merchant" /\ Op(i) = "onboard"
      BY <2>2 DEF CreateMerchant, TypeInv, Local, Fits, Op
    <3>2. pc'[i] = "create_subscription" /\ status'[i] = 0
      BY <2>2, Effects DEF CreateMerchant, Label, DbCalls
    <3> QED BY <2>2, <3>1, <3>2, Stable
  <2> QED BY <2>1, <2>2, MerchantChange
<1>2. ASSUME NEW t \in subscriptions', t.merchant \in Invocation
      PROVE  /\ pc'[t.merchant] \notin {"idle", "create_merchant", "create_subscription"}
             /\ Op(t.merchant)' = "onboard" /\ status'[t.merchant] \notin {409, 422}
  <2>1. CASE \E s \in subscriptions : s.merchant = t.merchant
    <3>1. /\ pc[t.merchant] \notin {"idle", "create_merchant", "create_subscription"}
          /\ Op(t.merchant) = "onboard" /\ status[t.merchant] \notin {409, 422}
      BY <1>2, <2>1 DEF TenantInv
    <3>2. Op(t.merchant)' = "onboard"
      BY <1>2, <3>1, Stable
    <3>3. CASE t.merchant # i
      BY <1>2, <3>1, <3>2, <3>3, Frame
    <3>4. CASE t.merchant = i
      <4>1. ~DeleteMerchant(i)
        BY <1>2, <3>4, SubscriptionChange
      <4> QED BY <3>1, <3>2, <3>4, <4>1, Flow
    <3> QED BY <3>3, <3>4
  <2>2. CASE t.merchant = i /\ CreateSubscription(i)
    <3>1. pc[i] = "create_subscription" /\ Op(i) = "onboard"
      BY <2>2 DEF CreateSubscription, TypeInv, Local, Fits, Op
    <3>2. pc'[i] = "create_user" /\ status'[i] = 0
      BY <2>2, Effects DEF CreateSubscription, Label, AuthCalls
    <3> QED BY <2>2, <3>1, <3>2, Stable
  <2> QED BY <2>1, <2>2, SubscriptionChange
<1> QED BY <1>1, <1>2 DEF TenantInv

\* A tenant that was answered for stays whole: nothing aims at its owner.
LEMMA CompleteStays ==
  ASSUME TypeInv, LoginInv, ProfileInv, NEW i \in Invocation, Action(i),
         NEW m \in Invocation, Op(m) = "onboard", status[m] = 201, TenantComplete(m)
  PROVE  TenantComplete(m)'
<1>0. /\ users \subseteq UserRow /\ profiles \subseteq ProfileRow
      /\ pc[m] = "done" /\ m # i
  BY Frame DEF TypeInv, TypeOK, Local
<1>1. m \in merchants'
  BY <1>0, MerchantChange DEF TenantComplete
<1>2. Subscription(m)' # {}
  <2>1. PICK s \in subscriptions : s.merchant = m
    BY DEF TenantComplete, Subscription
  <2>2. \E t \in subscriptions' : t.merchant = m
    BY <1>0, <2>1, SubscriptionChange
  <2> QED BY <2>2 DEF Subscription
<1>3. PICK u \in users, p \in profiles :
        /\ u.id = p.user_id /\ u.email = p.email
        /\ {u.merchant, p.merchant} = {m} /\ {u.role, p.role} = {"merchant_owner"}
  BY DEF TenantComplete
<1>4. u.merchant = m /\ p.merchant = m /\ u.role = "merchant_owner" /\ p.role = "merchant_owner"
  BY <1>3
<1>5. ASSUME pc[i] \in AimedLabel
      PROVE  req[i].user # u.id
  <2>1. Aimed(i)
    BY <1>5 DEF TypeInv, Local
  <2>2. RoleAt(u.id) = "merchant_owner"
    BY <1>4 DEF LoginInv
  <2> QED BY <2>1, <2>2 DEF Aimed
<1>6. u \in users'
  <2>1. CASE (AuthCall(i) \/ AuthFails(i)) /\ users' = AuthEffect(i)
    <3>1. pc[i] \in AuthCalls
      BY <2>1, AuthOutcomes
    <3>2. CASE users' = users \cup {NewRow(i)}
      BY <3>2
    <3>3. CASE /\ pc[i] = "update_login"
               /\ users' = {IF v.id = req[i].user THEN [v EXCEPT !.email = req[i].email] ELSE v :
                              v \in users}
      BY <1>5, <3>3 DEF AimedLabel
    <3>4. CASE /\ pc[i] = "update_login"
               /\ users' = {IF v.id = req[i].user THEN [v EXCEPT !.password = i] ELSE v :
                              v \in users}
      BY <1>5, <3>4 DEF AimedLabel
    <3>5. CASE /\ pc[i] = "delete_login"
               /\ users' = {v \in users : v.id # req[i].user}
      BY <1>5, <3>5 DEF AimedLabel
    <3> QED BY <2>1, <3>1, <3>2, <3>3, <3>4, <3>5, AuthEffects
  <2>2. CASE users' = users
    BY <2>2
  <2> QED BY <2>1, <2>2, LoginChange
<1>7. p \in profiles'
  <2>1. PICK q \in profiles' : q.user_id = p.user_id
    BY <1>4, ProfileLoss
  <2>2. CASE UpdateProfile(i)
    BY <1>3, <1>5, <2>2 DEF UpdateProfile, EditedProfiles, AimedLabel
  <2>3. CASE DeleteMerchant(i)
    BY <1>0, <1>4, <2>3 DEF DeleteMerchant
  <2>4. CASE DeleteProfile(i)
    BY <1>4, <2>4 DEF DeleteProfile, OperatorRow, Operators
  <2>5. CASE InsertProfile(i)
    BY <2>5 DEF InsertProfile
  <2>6. profiles' = profiles \/ UpdateProfile(i) \/ DeleteMerchant(i) \/ DeleteProfile(i) \/ InsertProfile(i)
    BY DEF Action, Handler, Receive, CreateMerchant, CreateSubscription, ReadSubscription,
           CountOperators, RequireOperator, AuthCall, AuthFails, UpdateSubscription, DbFails,
           Crash, tables, database
  <2> QED BY <2>2, <2>3, <2>4, <2>5, <2>6
<1> QED BY <1>1, <1>2, <1>3, <1>6, <1>7 DEF TenantComplete

LEMMA OnboardingStep ==
  ASSUME TypeInv, LoginInv, ProfileInv, NEW i \in Invocation, Action(i),
         NEW j \in Invocation, Onboarding(j), NewLogin(j)
  PROVE  Onboarding(j)'
<1> SUFFICES ASSUME Op(j)' = "onboard"
             PROVE  /\ pc'[j] \in {"create_subscription", "create_user", "insert_profile"}
                         => j \in merchants'
                    /\ pc'[j] \in {"create_user", "insert_profile"} => Subscription(j)' # {}
                    /\ status'[j] = 201 => TenantComplete(j)'
  BY DEF Onboarding
<1>1. CASE j # i
  <2>1. pc'[j] = pc[j] /\ status'[j] = status[j] /\ Op(j) = "onboard"
    BY <1>1, Frame DEF Op
  <2>2. Subscription(j) # {} => Subscription(j)' # {}
    <3>1. ASSUME NEW s \in subscriptions, s.merchant = j
          PROVE  \E t \in subscriptions' : t.merchant = j
      BY <1>1, <3>1, SubscriptionChange
    <3> QED BY <3>1 DEF Subscription
  <2> QED BY <1>1, <2>1, <2>2, MerchantChange, CompleteStays DEF Onboarding
<1>2. CASE j = i
  <2>1. CASE pc[i] = "idle"
    BY <1>2, <2>1, Flow DEF AuthCalls, Idle
  <2>2. CASE pc[i] # "idle"
    <3>1. Op(i) = "onboard" /\ pc[i] # "done"
      BY <1>2, <2>2, Frame DEF Op
    <3>2. CASE CreateMerchant(i)
      BY <1>2, <3>2, MerchantChange, Effects DEF CreateMerchant, Label, DbCalls
    <3>3. CASE CreateSubscription(i)
      <4>1. pc[i] = "create_subscription" /\ pc'[i] = "create_user" /\ status'[i] = 0
        BY <3>3, Effects DEF CreateSubscription, Label, AuthCalls
      <4>2. i \in merchants /\ i \in merchants'
        BY <1>2, <3>1, <3>3, <4>1 DEF Onboarding, CreateSubscription
      <4>3. Subscription(i)' # {}
        BY <3>3, SubscriptionChange DEF Subscription
      <4> QED BY <1>2, <4>1, <4>2, <4>3
    <3>4. CASE pc[i] = "create_user" /\ (AuthCall(i) \/ AuthFails(i))
      <4>1. i \in merchants /\ Subscription(i) # {}
        BY <1>2, <3>1, <3>4 DEF Onboarding
      <4>2. merchants' = merchants /\ Subscription(i)' = Subscription(i)
        BY <3>4, AuthOutcomes DEF database, Subscription
      <4>3. status'[i] # 201
        BY <3>4, Flow
      <4> QED BY <1>2, <4>1, <4>2, <4>3
    <3>5. CASE InsertProfile(i)
      <4>1. pc[i] = "insert_profile" /\ pc'[i] = "done" /\ status'[i] = 201
        BY <3>5, Effects DEF InsertProfile, Code
      <4>2. i \in merchants' /\ Subscription(i)' # {} /\ users' = users
        BY <1>2, <3>1, <3>5, <4>1 DEF Onboarding, InsertProfile, Subscription
      <4>3. PICK u \in users : u.id = i /\ u.email = req[i].email
        BY <1>2, <4>1 DEF NewLogin
      <4>4. u.merchant = i /\ u.role = "merchant_owner"
        BY <3>1, <4>3 DEF LoginInv, Home, RoleAt, TenantOf, RoleOf
      <4>5. PICK p \in profiles' : /\ p.user_id = i /\ p.email = req[i].email
                                   /\ p.merchant = i /\ p.role = "merchant_owner"
        <5>1. [user_id |-> i, email |-> req[i].email, merchant |-> i,
               role |-> "merchant_owner"] \in profiles'
          BY <3>1, <3>5 DEF InsertProfile, TenantOf, RoleOf
        <5> QED BY <5>1
      <4>6. TenantComplete(i)'
        <5>1. /\ u \in users' /\ u.id = p.user_id /\ u.email = p.email
              /\ {u.merchant, p.merchant} = {i} /\ {u.role, p.role} = {"merchant_owner"}
          BY <4>2, <4>3, <4>4, <4>5
        <5> QED BY <4>2, <5>1 DEF TenantComplete
      <4> QED BY <1>2, <4>1, <4>6
    <3>6. CASE pc'[i] = "delete_merchant" \/ (pc'[i] = "done" /\ status'[i] # 201)
      BY <1>2, <3>6, Frame
    <3>7. Fits(pc[i], req[i])
      BY DEF TypeInv, Local
    <3> QED BY <2>2, <3>1, <3>2, <3>3, <3>4, <3>5, <3>6, <3>7, Flow DEF Fits, Op, AuthCalls, Idle
  <2> QED BY <2>1, <2>2
<1> QED BY <1>1, <1>2

-----------------------------------------------------------------------------
(* Whose rows a request changes.                                              *)

LEMMA Isolated ==
  ASSUME TypeInv, LoginInv, ProfileInv, NEW i \in Invocation, Action(i), NEW m,
         ~(Op(i) = "onboard" /\ i = m), req[i].caller # m, req[i].role # "platform_admin"
  PROVE  RowsOf(m)' = RowsOf(m)
<1>0. /\ users \subseteq UserRow /\ profiles \subseteq ProfileRow
      /\ subscriptions \subseteq SubscriptionRow /\ Local(i)
  BY DEF TypeInv, TypeOK
<1>1. pc[i] \in AimedLabel => /\ req[i].merchant # m
                              /\ \A u \in users : u.id = req[i].user => u.merchant # m
                              /\ \A p \in profiles : p.user_id = req[i].user => p.merchant # m
  <2> SUFFICES ASSUME pc[i] \in AimedLabel
               PROVE  /\ req[i].merchant # m
                      /\ \A u \in users : u.id = req[i].user => u.merchant # m
                      /\ \A p \in profiles : p.user_id = req[i].user => p.merchant # m
    OBVIOUS
  <2>1. pc[i] \notin Idle /\ Op(i) \notin {"onboard", "patch"} /\ Aimed(i)
    BY <1>0 DEF AimedLabel, Idle, Local, Fits, Op
  <2> QED BY <2>1, OwnTenant DEF Aimed, LoginInv, ProfileInv
<1>2. pc[i] \in {"create_user", "insert_profile"} => TenantOf(i) # m
  <2> SUFFICES ASSUME pc[i] \in {"create_user", "insert_profile"}
               PROVE  TenantOf(i) # m
    OBVIOUS
  <2>1. Op(i) \in {"onboard", "add"} /\ pc[i] \notin Idle
    BY <1>0 DEF Idle, Local, Fits, Op
  <2> QED BY <2>1, OwnTenant DEF TenantOf
<1>3. {u \in users' : u.merchant = m} = {u \in users : u.merchant = m}
  <2>1. CASE users' = users
    BY <2>1
  <2>2. CASE (AuthCall(i) \/ AuthFails(i)) /\ users' = AuthEffect(i)
    <3>1. pc[i] \in AuthCalls
      BY <2>2, AuthOutcomes
    <3>2. CASE pc[i] = "create_user" /\ users' = users \cup {NewRow(i)}
      <4>1. NewRow(i).merchant # m
        BY <1>2, <3>2 DEF NewRow
      <4> QED BY <3>2, <4>1
    <3>3. CASE /\ pc[i] = "update_login"
               /\ users' = {IF v.id = req[i].user THEN [v EXCEPT !.email = req[i].email] ELSE v :
                              v \in users}
      <4>1. \A u \in users : u.id = req[i].user => u.merchant # m
        BY <1>1, <3>3 DEF AimedLabel
      <4>2. ASSUME NEW u \in users
            PROVE  [u EXCEPT !.email = req[i].email].merchant = u.merchant
        BY <1>0 DEF UserRow
      <4> QED BY <3>3, <4>1, <4>2
    <3>4. CASE /\ pc[i] = "update_login"
               /\ users' = {IF v.id = req[i].user THEN [v EXCEPT !.password = i] ELSE v :
                              v \in users}
      <4>1. \A u \in users : u.id = req[i].user => u.merchant # m
        BY <1>1, <3>4 DEF AimedLabel
      <4>2. ASSUME NEW u \in users
            PROVE  [u EXCEPT !.password = i].merchant = u.merchant
        BY <1>0 DEF UserRow
      <4> QED BY <3>4, <4>1, <4>2
    <3>5. CASE /\ pc[i] = "delete_login"
               /\ users' = {v \in users : v.id # req[i].user}
      <4>1. \A u \in users : u.id = req[i].user => u.merchant # m
        BY <1>1, <3>5 DEF AimedLabel
      <4> QED BY <3>5, <4>1
    <3> QED BY <2>2, <3>1, <3>2, <3>3, <3>4, <3>5, AuthEffects
  <2> QED BY <2>1, <2>2, LoginChange
<1>4. {p \in profiles' : p.merchant = m} = {p \in profiles : p.merchant = m}
  <2>1. CASE UpdateProfile(i)
    <3>1. pc[i] \in AimedLabel
      BY <2>1 DEF UpdateProfile, AimedLabel
    <3>2. profiles' = {IF p.user_id = req[i].user /\ req[i].email # NoEmail
                       THEN [p EXCEPT !.email = req[i].email] ELSE p : p \in profiles}
      BY <2>1 DEF UpdateProfile, EditedProfiles
    <3>3. ASSUME NEW p \in profiles, p.user_id = req[i].user
          PROVE  p.merchant # m
      BY <1>1, <3>1, <3>3
    <3>4. ASSUME NEW p \in profiles
          PROVE  [p EXCEPT !.email = req[i].email].merchant = p.merchant
      BY <1>0 DEF ProfileRow
    <3> DEFINE edited(p) == IF p.user_id = req[i].user /\ req[i].email # NoEmail
                            THEN [p EXCEPT !.email = req[i].email] ELSE p
    <3>5. ASSUME NEW p \in profiles
          PROVE  edited(p).merchant = p.merchant /\ (p.merchant = m => edited(p) = p)
      BY <3>3, <3>4, <3>5
    <3>6. profiles' = {edited(p) : p \in profiles}
      BY <3>2
    <3> HIDE DEF edited
    <3>7. ASSUME NEW q \in profiles', q.merchant = m PROVE q \in profiles
      BY <3>5, <3>6, <3>7
    <3>8. ASSUME NEW q \in profiles, q.merchant = m PROVE q \in profiles'
      BY <3>5, <3>6, <3>8
    <3> QED BY <3>7, <3>8
  <2>2. CASE DeleteMerchant(i)
    <3>1. Op(i) = "onboard"
      BY <1>0, <2>2 DEF DeleteMerchant, Local, Fits, Op
    <3> QED BY <2>2, <3>1 DEF DeleteMerchant
  <2>3. CASE DeleteProfile(i)
    <3>1. pc[i] \in AimedLabel
      BY <2>3 DEF DeleteProfile, AimedLabel
    <3>2. profiles' = profiles \/ profiles' = profiles \ OperatorRow(req[i].merchant, req[i].user)
      BY <2>3 DEF DeleteProfile
    <3> QED BY <1>1, <3>1, <3>2 DEF OperatorRow, Operators
  <2>4. CASE InsertProfile(i)
    <3>1. TenantOf(i) # m
      BY <1>2, <2>4 DEF InsertProfile
    <3>2. [user_id |-> i, email |-> req[i].email, merchant |-> TenantOf(i),
           role |-> RoleOf(i)].merchant # m
      BY <3>1
    <3>3. profiles' = profiles \cup {[user_id |-> i, email |-> req[i].email,
                                      merchant |-> TenantOf(i), role |-> RoleOf(i)]}
      BY <2>4 DEF InsertProfile
    <3> QED BY <3>2, <3>3
  <2>5. profiles' = profiles \/ UpdateProfile(i) \/ DeleteMerchant(i) \/ DeleteProfile(i) \/ InsertProfile(i)
    BY DEF Action, Handler, Receive, CreateMerchant, CreateSubscription, ReadSubscription,
           CountOperators, RequireOperator, AuthCall, AuthFails, UpdateSubscription, DbFails,
           Crash, tables, database
  <2> QED BY <2>1, <2>2, <2>3, <2>4, <2>5
<1>5. {t \in subscriptions' : t.merchant = m} = {s \in subscriptions : s.merchant = m}
  <2>1. ~UpdateSubscription(i)
    <3>1. ASSUME pc[i] = "update_subscription"
          PROVE  FALSE
      BY <1>0, <3>1 DEF Local, Fits, Idle, Forbidden
    <3>2. UpdateSubscription(i) => pc[i] = "update_subscription"
      BY Zenon DEF UpdateSubscription
    <3> QED BY <3>1, <3>2
  <2>2. (CreateSubscription(i) \/ DeleteMerchant(i)) => i # m
    BY <1>0 DEF CreateSubscription, DeleteMerchant, Local, Fits, Op
  <2>3. ASSUME NEW t \in subscriptions', t.merchant = m
        PROVE  t \in subscriptions
    BY <2>1, <2>2, <2>3, SubscriptionChange
  <2>4. ASSUME NEW s \in subscriptions, s.merchant = m
        PROVE  s \in subscriptions'
    BY <2>1, <2>2, <2>4, SubscriptionChange
  <2> QED BY <2>3, <2>4
<1> QED BY <1>3, <1>4, <1>5 DEF RowsOf, Subscription

-----------------------------------------------------------------------------
(* Requests that run alone.                                                   *)

LEMMA OverlapGrows ==
  ASSUME NEW i \in Invocation, Action(i)
  PROVE  overlapped \subseteq overlapped'
  BY DEF Action, Handler, Receive, CreateMerchant, CreateSubscription, ReadSubscription,
         CountOperators, RequireOperator, AuthCall, AuthFails, InsertProfile, DeleteMerchant,
         UpdateProfile, DeleteProfile, UpdateSubscription, DbFails, Crash, history

LEMMA ReceiveOverlaps ==
  ASSUME NEW i \in Invocation, Receive(i), NEW j \in Invocation, Running(j)
  PROVE  i \in overlapped' /\ j \in overlapped'
<1>1. j \in {k \in Invocation : Running(k)}
  OBVIOUS
<1> QED BY <1>1 DEF Receive

LEMMA AloneStep ==
  ASSUME TypeInv, AloneInv, NEW i \in Invocation, Action(i)
  PROVE  AloneInv'
<1> SUFFICES ASSUME NEW j \in Invocation, NEW k \in Invocation, j # k,
                    pc'[j] \notin Idle, pc'[k] \notin Idle
             PROVE  j \in overlapped'
  BY DEF AloneInv, Running
<1>1. CASE pc[i] = "idle" /\ i \in {j, k}
  <2>1. Receive(i)
    BY <1>1, Flow DEF AuthCalls, Idle
  <2>2. CASE i = j
    BY <2>1, <2>2, Frame, ReceiveOverlaps DEF Running
  <2>3. CASE i = k
    BY <2>1, <2>3, Frame, ReceiveOverlaps DEF Running
  <2> QED BY <1>1, <2>2, <2>3
<1>2. CASE pc[i] # "idle" \/ i \notin {j, k}
  <2>1. Running(j) /\ Running(k)
    BY <1>2, Frame DEF Running, Idle
  <2> QED BY <2>1, OverlapGrows DEF AloneInv
<1> QED BY <1>1, <1>2

\* Nobody else moves while a request that stays alone is at work.
LEMMA NobodyElse ==
  ASSUME TypeInv, AloneInv, NEW i \in Invocation, Action(i), NEW j \in Invocation, Running(j),
         j \notin overlapped'
  PROVE  j = i
<1> SUFFICES ASSUME j # i
             PROVE  FALSE
  OBVIOUS
<1>1. ~Receive(i)
  BY ReceiveOverlaps
<1>2. pc[i] \notin Idle
  BY <1>1, Flow, Frame DEF AuthCalls, Idle
<1> QED BY <1>2, OverlapGrows DEF AloneInv, Running

\* The established tenant keeps its subscription.
LEMMA PlanStep ==
  ASSUME TypeInv, PlanInv, NEW i \in Invocation, Action(i)
  PROVE  PlanInv'
<1>1. PICK s \in subscriptions : s.merchant = Shop
  BY DEF PlanInv, Subscription
<1>2. Shop # i
  BY TenantsAssumption
<1>3. \E t \in subscriptions' : t.merchant = Shop
  BY <1>1, <1>2, SubscriptionChange
<1> QED BY <1>3 DEF PlanInv, Subscription

LEMMA CountedStep ==
  ASSUME TypeInv, AloneInv, PlanInv, \A k \in Invocation : Onboarding(k),
         NEW i \in Invocation, Action(i), NEW j \in Invocation, Counted(j)
  PROVE  Counted(j)'
<1> SUFFICES ASSUME Op(j)' = "add", j \notin overlapped',
                    pc'[j] \in {"count_operators", "create_user", "insert_profile"}
             PROVE  /\ pc'[j] = "count_operators" =>
                         \E s \in Subscription(req[j].merchant)' : s.tier = tier'[j]
                    /\ pc'[j] \in {"create_user", "insert_profile"} =>
                         \E s \in Subscription(req[j].merchant)' :
                           HasRoom(PLANS[s.tier].operation_user_limit,
                                   Cardinality(Operators(req[j].merchant)'))
  BY DEF Counted
<1>1. Running(j)
  <2>1. CASE j = i
    BY <2>1, Flow, Frame DEF Running, Idle, AuthCalls
  <2>2. CASE j # i
    BY <2>2, Frame DEF Running, Idle
  <2> QED BY <2>1, <2>2
<1>2. j = i
  BY <1>1, NobodyElse
<1>3. /\ req' = req /\ Op(i) = "add" /\ i \notin overlapped
      /\ pc[i] \notin Idle
  BY <1>1, <1>2, Frame, OverlapGrows DEF Running, Idle, Op
<1>4. CASE ReadSubscription(i)
  <2>1. Subscription(req[i].merchant) # {}
    <3>1. Known(req[i].merchant) /\ req[i].merchant \in MerchantId
      BY <1>3, OwnTenant
    <3>2. CASE req[i].merchant \in Invocation
      BY <3>1, <3>2 DEF Known, Onboarding, TenantComplete
    <3>3. CASE req[i].merchant = Shop
      BY <3>3 DEF PlanInv
    <3> QED BY <3>1, <3>2, <3>3 DEF MerchantId
  <2>2. /\ \E s \in Subscription(req[i].merchant) : tier' = [tier EXCEPT ![i] = s.tier]
        /\ Continue(i, "count_operators") /\ subscriptions' = subscriptions
    BY <1>3, <1>4, <2>1 DEF ReadSubscription, tables, database
  <2>3. pc'[i] = "count_operators"
    BY <2>2, Effects DEF Label, DbCalls
  <2>4. \E s \in Subscription(req[i].merchant) : s.tier = tier'[i]
    BY <2>2, Locals
  <2> QED BY <1>2, <1>3, <2>2, <2>3, <2>4 DEF Subscription
<1>5. CASE CountOperators(i)
  <2>1. /\ pc[i] = "count_operators" /\ subscriptions' = subscriptions /\ profiles' = profiles
    BY <1>5 DEF CountOperators, tables, database
  <2>2. PICK s \in Subscription(req[i].merchant) : s.tier = tier[i]
    BY <1>2, <1>3, <2>1 DEF Counted
  <2>3. pc'[i] = "create_user"
    <3>1. Reply(i, 402) \/ Continue(i, "create_user")
      BY <1>5 DEF CountOperators
    <3> QED BY <1>2, <3>1, Effects DEF Label, AuthCalls, Code
  <2>4. ~AtLimit(tier[i], Cardinality(Operators(req[i].merchant)))
    <3>1. ASSUME Reply(i, 402)
          PROVE  FALSE
      BY <2>3, <3>1, Effects DEF Code
    <3> QED BY <1>5, <3>1 DEF CountOperators
  <2>5. HasRoom(PLANS[s.tier].operation_user_limit, Cardinality(Operators(req[i].merchant)))
    BY <2>2, <2>4 DEF AtLimit
  <2> QED BY <1>2, <1>3, <2>1, <2>2, <2>3, <2>5 DEF Subscription, Operators
<1>6. CASE AuthCall(i) \/ AuthFails(i)
  <2>1. pc[i] = "create_user" /\ pc'[i] = "insert_profile"
    <3>1. pc[i] \in AuthCalls /\ Fits(pc[i], req[i])
      BY <1>6, AuthOutcomes DEF TypeInv, Local
    <3>2. pc[i] = "create_user"
      BY <1>3, <3>1 DEF AuthCalls, Fits, Op
    <3> QED BY <1>2, <1>3, <3>2, Flow DEF Receive, CreateMerchant, CreateSubscription,
            ReadSubscription, CountOperators, RequireOperator, InsertProfile, DeleteMerchant,
            UpdateProfile, DeleteProfile, DbFails, Crash
  <2>2. subscriptions' = subscriptions /\ profiles' = profiles
    BY <1>6, AuthOutcomes DEF database
  <2>3. \E s \in Subscription(req[i].merchant) :
          HasRoom(PLANS[s.tier].operation_user_limit, Cardinality(Operators(req[i].merchant)))
    BY <1>2, <1>3, <2>1 DEF Counted
  <2> QED BY <1>2, <1>3, <2>1, <2>2, <2>3 DEF Subscription, Operators
<1>7. ReadSubscription(i) \/ CountOperators(i) \/ AuthCall(i) \/ AuthFails(i)
  <2>1. ~CreateSubscription(i)
    BY <1>3 DEF CreateSubscription, TypeInv, Local, Fits, Op
  <2> QED BY <1>2, <1>3, <2>1, Flow DEF Idle
<1> QED BY <1>4, <1>5, <1>6, <1>7

LEMMA EditedStep ==
  ASSUME TypeInv, AloneInv, NEW i \in Invocation, Action(i), NEW j \in Invocation, Edited(j)
  PROVE  Edited(j)'
<1> SUFFICES ASSUME pc'[j] = "update_profile", req'[j].email # NoEmail, j \notin overlapped'
             PROVE  \A u \in users' : u.id = req'[j].user => u.email = req'[j].email
  BY DEF Edited
<1>1. Running(j)
  <2>1. CASE j = i
    BY <2>1, Flow, Frame DEF Running, Idle, AuthCalls
  <2>2. CASE j # i
    BY <2>2, Frame DEF Running, Idle
  <2> QED BY <2>1, <2>2
<1>2. j = i
  BY <1>1, NobodyElse
<1>3. req' = req /\ pc[i] # "update_profile" /\ users \subseteq UserRow
  BY <1>1, <1>2, Frame DEF Running, Idle, TypeInv, TypeOK
<1>4. CASE RequireOperator(i)
  <2>1. /\ Op(i) = "edit" /\ req[i].email = NoEmail
    <3>1. CASE Op(i) = "edit" /\ req[i].email = NoEmail
      BY <3>1
    <3>2. CASE ~(Op(i) = "edit" /\ req[i].email = NoEmail)
      <4>1. Reply(i, 404) \/ Continue(i, "delete_login") \/ Continue(i, "update_login")
        BY <1>4, <3>2 DEF RequireOperator
      <4> QED BY <1>2, <4>1, Effects DEF Label, AuthCalls, Code
    <3> QED BY <3>1, <3>2
  <2> QED BY <1>2, <1>3, <2>1
<1>5. CASE AuthCall(i) \/ AuthFails(i)
  <2>1. Op(i) = "edit" /\ pc[i] \in AuthCalls
    BY <1>2, <1>5, AuthOutcomes, Flow DEF Receive, RequireOperator, AuthCalls, Idle
  <2>2. users' = {IF u.id = req[i].user THEN [u EXCEPT !.email = req[i].email] ELSE u : u \in users}
    <3>1. ~OnAuthError(i)
      <4>1. OnAuthError(i) => Reply(i, 409)
        BY <2>1 DEF OnAuthError
      <4> QED BY <1>2, <4>1, Effects DEF Code
    <3>2. users' = AuthEffect(i)
      BY <1>5, <3>1 DEF AuthCall, AuthFails
    <3> QED BY <2>1, <3>2, AuthEffects
  <2> QED BY <1>2, <1>3, <2>2 DEF UserRow
<1>6. RequireOperator(i) \/ AuthCall(i) \/ AuthFails(i)
  BY <1>2, Flow
<1> QED BY <1>4, <1>5, <1>6

LEMMA EmailStep ==
  ASSUME TypeInv, LoginInv, ProfileInv, EmailInv, OverlapInv,
         \A k \in Invocation : NewLogin(k) /\ Edited(k), NEW i \in Invocation, Action(i)
  PROVE  EmailInv'
<1> SUFFICES ASSUME NEW v \in users', NEW q \in profiles', v.id = q.user_id, v.email # q.email
             PROVE  \E j \in Invocation :
                      /\ Op(j)' = "edit" /\ req'[j].user = v.id
                      /\ \/ pc'[j] = "update_profile" /\ req'[j].email # NoEmail
                         \/ Failed(j)' \/ j \in overlapped'
  BY DEF EmailInv
<1>0. profiles \subseteq ProfileRow /\ NoEmail \notin Email
  BY TenantsAssumption DEF TypeInv, TypeOK
<1>1. CASE v = NewRow(i) /\ pc[i] = "create_user"
  <2>1. q.user_id = i
    BY <1>1 DEF NewRow
  <2>2. \A p \in profiles : p.user_id # i
    BY <1>1 DEF ProfileInv
  <2> QED BY <1>1, <2>1, <2>2, ProfileOrigin
<1>2. ASSUME NEW u \in users, u.id = v.id,
             v.email # u.email => /\ pc[i] = "update_login" /\ Op(i) = "edit"
                                  /\ u.id = req[i].user /\ v.email = req[i].email
      PROVE  \E j \in Invocation :
               /\ Op(j)' = "edit" /\ req'[j].user = v.id
               /\ \/ pc'[j] = "update_profile" /\ req'[j].email # NoEmail
                  \/ Failed(j)' \/ j \in overlapped'
  <2>1. CASE v.email # u.email
    <3>1. /\ pc[i] = "update_login" /\ Op(i) = "edit" /\ req[i].user = v.id
          /\ Op(i)' = "edit" /\ req'[i] = req[i]
      BY <1>2, <2>1, Stable
    <3>2. req[i].email # NoEmail
      BY <1>0, <3>1 DEF TypeInv, Local, Fits, Op
    <3>3. CASE AuthFails(i)
      <4>1. i \in troubled'
        BY <3>3 DEF AuthFails
      <4> QED BY <3>1, <4>1 DEF Failed
    <3>4. CASE AuthCall(i) /\ ~AuthRefuses(i)
      <4>1. Continue(i, "update_profile")
        BY <3>1, <3>4 DEF AuthCall, AfterAuth
      <4>2. pc'[i] = "update_profile"
        BY <4>1, Effects DEF Label, DbCalls
      <4> QED BY <3>1, <3>2, <4>2
    <3>5. (v \notin users) => AuthFails(i) \/ (AuthCall(i) /\ ~AuthRefuses(i))
      BY LoginChange
    <3>6. CASE v \in users
      <4>1. \E p \in profiles : p.user_id = v.id /\ p.email = q.email
        <5>1. ~InsertProfile(i) /\ ~UpdateProfile(i)
          BY <3>1 DEF InsertProfile, UpdateProfile
        <5> QED BY <5>1, ProfileOrigin
      <4>2. PICK j \in Invocation : /\ Op(j) = "edit" /\ req[j].user = v.id
                                    /\ \/ pc[j] = "update_profile" /\ req[j].email # NoEmail
                                       \/ Failed(j) \/ j \in overlapped
        BY <3>6, <4>1 DEF EmailInv
      <4>3. pc[j] # "idle"
        BY <4>2 DEF TypeInv, Local, Failed, OverlapInv
      <4>4. Op(j)' = "edit" /\ req'[j] = req[j]
        BY <4>2, <4>3, Stable
      <4>5. pc[j] = "update_profile" => pc'[j] = "update_profile"
        BY <3>1, Frame
      <4> QED BY <4>2, <4>4, <4>5, FailedStays, OverlapGrows
    <3> QED BY <3>3, <3>4, <3>5, <3>6
  <2>2. CASE v.email = u.email
    <3>1. ASSUME UpdateProfile(i), req[i].user = v.id, req[i].email # NoEmail,
                 q.email = req[i].email
          PROVE  i \in overlapped' /\ Op(i)' = "edit" /\ req'[i].user = v.id
      <4>1. pc[i] = "update_profile" /\ Op(i) = "edit"
        BY <3>1 DEF UpdateProfile, TypeInv, Local, Fits, Op
      <4>2. i \in overlapped
        BY <1>2, <2>2, <3>1, <4>1 DEF Edited
      <4> QED BY <3>1, <4>1, <4>2, OverlapGrows, Stable
    <3>2. CASE InsertProfile(i) /\ q = [user_id |-> i, email |-> req[i].email,
                                       merchant |-> TenantOf(i), role |-> RoleOf(i)]
      <4>1. q.user_id = i /\ q.email = req[i].email /\ pc[i] = "insert_profile"
        BY <3>2 DEF InsertProfile
      <4> QED BY <1>2, <2>2, <4>1 DEF NewLogin
    <3>3. ASSUME NEW p \in profiles, p.user_id = q.user_id,
                 p # q => /\ UpdateProfile(i) /\ p.user_id = req[i].user
                          /\ req[i].email # NoEmail,
                 (UpdateProfile(i) /\ p.user_id = req[i].user /\ req[i].email # NoEmail)
                   => q.email = req[i].email
          PROVE  \E j \in Invocation :
                   /\ Op(j)' = "edit" /\ req'[j].user = v.id
                   /\ \/ pc'[j] = "update_profile" /\ req'[j].email # NoEmail
                      \/ Failed(j)' \/ j \in overlapped'
      <4>1. CASE UpdateProfile(i) /\ p.user_id = req[i].user /\ req[i].email # NoEmail
        BY <3>1, <3>3, <4>1
      <4>2. CASE p = q /\ ~(UpdateProfile(i) /\ p.user_id = req[i].user /\ req[i].email # NoEmail)
        <5>1. PICK j \in Invocation : /\ Op(j) = "edit" /\ req[j].user = v.id
                                      /\ \/ pc[j] = "update_profile" /\ req[j].email # NoEmail
                                         \/ Failed(j) \/ j \in overlapped
          BY <1>2, <2>2, <4>2 DEF EmailInv
        <5>2. pc[j] # "idle"
          BY <5>1 DEF TypeInv, Local, Failed, OverlapInv
        <5>3. Op(j)' = "edit" /\ req'[j] = req[j]
          BY <5>1, <5>2, Stable
        <5>4. (pc[j] = "update_profile" /\ req[j].email # NoEmail)
              => pc'[j] = "update_profile" \/ Failed(j)'
          <6>1. CASE j # i
            BY <6>1, Frame
          <6>2. CASE j = i
            <7>1. ~(UpdateProfile(i) /\ req[i].email # NoEmail)
              BY <3>3, <4>2, <5>1, <6>2
            <7>2. pc[i] = "update_profile" => UpdateProfile(i) \/ status'[i] \in {500, 504}
              BY Flow DEF AuthCalls
            <7> QED BY <6>2, <7>1, <7>2 DEF Failed
          <6> QED BY <6>1, <6>2
        <5> QED BY <5>1, <5>3, <5>4, FailedStays, OverlapGrows
      <4> QED BY <3>3, <4>1, <4>2
    <3> QED BY <3>2, <3>3, ProfileOrigin
  <2> QED BY <2>1, <2>2
<1> QED BY <1>1, <1>2, LoginOrigin

LEMMA OverlapStep ==
  ASSUME TypeInv, OverlapInv, NEW i \in Invocation, Action(i)
  PROVE  OverlapInv'
<1>1. \A j \in overlapped' : j \in Invocation /\ (j \in overlapped \/ j = i \/ Running(j))
  <2>1. CASE Receive(i)
    BY <2>1 DEF Receive, OverlapInv
  <2>2. CASE ~Receive(i)
    <3>1. overlapped' = overlapped
      BY <2>2 DEF Action, Handler, CreateMerchant, CreateSubscription, ReadSubscription,
         CountOperators, RequireOperator, AuthCall, AuthFails, InsertProfile, DeleteMerchant,
         UpdateProfile, DeleteProfile, UpdateSubscription, DbFails, Crash, history
    <3> QED BY <3>1 DEF OverlapInv
  <2> QED BY <2>1, <2>2
<1>2. \A j \in overlapped' : j \in Invocation /\ pc'[j] # "idle"
  BY <1>1, Frame, Stable DEF OverlapInv, Running, Idle
<1> QED BY <1>2 DEF OverlapInv

LEMMA FiniteStep ==
  ASSUME TypeInv, IsFiniteSet(profiles), NEW i \in Invocation, Action(i)
  PROVE  IsFiniteSet(profiles')
<1>1. CASE profiles' \subseteq profiles
  BY <1>1, FS_Subset
<1>2. CASE InsertProfile(i)
  BY <1>2, FS_AddElement DEF InsertProfile
<1>3. CASE UpdateProfile(i)
  <2> DEFINE f == [p \in profiles |->
                     IF p.user_id = req[i].user /\ req[i].email # NoEmail
                     THEN [p EXCEPT !.email = req[i].email] ELSE p]
  <2>1. f \in Surjection(profiles, profiles')
    BY <1>3 DEF UpdateProfile, EditedProfiles, Surjection
  <2> QED BY <2>1, FS_Surjection
<1>4. profiles' \subseteq profiles \/ InsertProfile(i) \/ UpdateProfile(i)
  BY DEF Action, Handler, Receive, CreateMerchant, CreateSubscription, ReadSubscription,
         CountOperators, RequireOperator, AuthCall, AuthFails, DeleteMerchant,
         DeleteProfile, UpdateSubscription, DbFails, Crash, tables, database
<1> QED BY <1>1, <1>2, <1>3, <1>4

-----------------------------------------------------------------------------
(* The invariant.                                                             *)

LEMMA Initially == Init => IInv
<1> SUFFICES ASSUME Init
             PROVE  IInv
  OBVIOUS
<1>1. /\ merchants = {Shop}
      /\ subscriptions = {[merchant |-> Shop, tier |-> ShopTier, payment_status |-> "paid"]}
      /\ users = {[id |-> u, email |-> EmailOf[u], merchant |-> Shop,
                   role |-> Established(u), password |-> u] : u \in Staff \cup {Owner}}
      /\ profiles = {[user_id |-> u, email |-> EmailOf[u], merchant |-> Shop,
                      role |-> Established(u)] : u \in Staff \cup {Owner}}
      /\ served = {} /\ troubled = {} /\ overlapped = {}
      /\ pc = [i \in Invocation |-> "idle"] /\ req = [i \in Invocation |-> NoRequest]
      /\ tier = [i \in Invocation |-> "starter"] /\ status = [i \in Invocation |-> 0]
  BY DEF Init
<1>2. TypeOK
  <2>1. subscriptions \subseteq SubscriptionRow
    <3>1. "paid" \in PaymentStatus /\ Shop \in MerchantId
      BY DEF PaymentStatus, MerchantId
    <3> QED BY <1>1, <3>1, TenantsAssumption DEF SubscriptionRow
  <2>2. \A u \in Staff \cup {Owner} : Established(u) \in Role /\ EmailOf[u] \in Email
    BY TenantsAssumption DEF Established, Role
  <2>3. users \subseteq UserRow /\ profiles \subseteq ProfileRow
    BY <1>1, <2>2 DEF UserRow, ProfileRow, UserId, MerchantId
  <2>4. "starter" \in Tier
    BY DEF Tier, PLANS
  <2> QED BY <1>1, <2>1, <2>3, <2>4 DEF TypeOK, MerchantId, Idle
<1>3. ASSUME NEW i \in Invocation
      PROVE  /\ Local(i) /\ Onboarding(i) /\ NewLogin(i) /\ Removal(i)
             /\ Counted(i) /\ Edited(i)
  <2>1. /\ pc[i] = "idle" /\ status[i] = 0 /\ req[i].op = "patch" /\ i \notin troubled
    BY <1>1 DEF NoRequest
  <2>2. Fits(pc[i], req[i])
    BY <2>1 DEF Fits, Idle
  <2> QED BY <2>1, <2>2 DEF Local, Onboarding, NewLogin, Removal, Counted, Edited, Answered, Op,
                                Idle, AimedLabel
<1>4. \A u \in users : /\ u.id \notin Invocation /\ u.merchant = Shop /\ u.role = Established(u.id)
  BY <1>1, TenantsAssumption
<1>5. \A p \in profiles : /\ p.user_id \notin Invocation /\ p.merchant = Shop
                          /\ p.role = Established(p.user_id)
  BY <1>1, TenantsAssumption
<1>6. LoginInv /\ ProfileInv
  BY <1>4, <1>5 DEF LoginInv, ProfileInv, Home, RoleAt
<1>7. TenantInv
  BY <1>1, TenantsAssumption DEF TenantInv
<1>8. \A u \in users : \E p \in profiles : p.user_id = u.id
  <2> SUFFICES ASSUME NEW u \in users
               PROVE  \E p \in profiles : p.user_id = u.id
    OBVIOUS
  <2>1. PICK x \in Staff \cup {Owner} : u.id = x
    BY <1>1
  <2>2. [user_id |-> x, email |-> EmailOf[x], merchant |-> Shop, role |-> Established(x)] \in profiles
    BY <1>1
  <2> QED BY <2>1, <2>2
<1>9. \A p \in profiles : \E u \in users : u.id = p.user_id
  <2> SUFFICES ASSUME NEW p \in profiles
               PROVE  \E u \in users : u.id = p.user_id
    OBVIOUS
  <2>1. PICK x \in Staff \cup {Owner} : p.user_id = x
    BY <1>1
  <2>2. [id |-> x, email |-> EmailOf[x], merchant |-> Shop, role |-> Established(x),
         password |-> x] \in users
    BY <1>1
  <2> QED BY <2>1, <2>2
<1>10. EmailInv
  <2>1. \A u \in users : u.email = EmailOf[u.id]
    BY <1>1
  <2>2. \A p \in profiles : p.email = EmailOf[p.user_id]
    BY <1>1
  <2> QED BY <2>1, <2>2 DEF EmailInv
<1>11. AloneInv /\ OverlapInv
  BY <1>1 DEF AloneInv, OverlapInv, Running, Idle
<1>12. PlanInv
  <2>1. [merchant |-> Shop, tier |-> ShopTier, payment_status |-> "paid"] \in subscriptions
    BY <1>1
  <2> QED BY <2>1 DEF PlanInv, Subscription
<1>13. IsFiniteSet(profiles)
  <2> DEFINE f == [u \in Staff \cup {Owner} |->
                     [user_id |-> u, email |-> EmailOf[u], merchant |-> Shop,
                      role |-> Established(u)]]
  <2>1. IsFiniteSet(Staff \cup {Owner})
    BY FS_AddElement, TenantsAssumption
  <2>2. f \in Surjection(Staff \cup {Owner}, profiles)
    BY <1>1 DEF Surjection
  <2> QED BY <2>1, <2>2, FS_Surjection
<1> QED BY <1>2, <1>3, <1>6, <1>7, <1>8, <1>9, <1>10, <1>11, <1>12, <1>13
        DEF IInv, TypeInv, GhostInv, StrandedLoginsOnlyBehindFailures

LEMMA ActionStep ==
  ASSUME IInv, NEW i \in Invocation, Action(i)
  PROVE  IInv'
<1>1. /\ TypeInv /\ LoginInv /\ ProfileInv /\ TenantInv /\ GhostInv
      /\ StrandedLoginsOnlyBehindFailures /\ EmailInv
      /\ AloneInv /\ OverlapInv /\ PlanInv /\ IsFiniteSet(profiles)
      /\ \A j \in Invocation :
           Onboarding(j) /\ NewLogin(j) /\ Removal(j) /\ Counted(j) /\ Edited(j)
  BY DEF IInv
<1>2. TypeInv'
  BY <1>1, TypeStep, LocalStep DEF TypeInv
<1>3. LoginInv' /\ ProfileInv' /\ TenantInv'
  BY <1>1, LoginStep, ProfileStep, TenantStep
<1>4. ASSUME NEW j \in Invocation
      PROVE  Onboarding(j)' /\ NewLogin(j)' /\ Removal(j)' /\ Counted(j)' /\ Edited(j)'
  BY <1>1, OnboardingStep, NewLoginStep, RemovalStep, CountedStep, EditedStep
<1>5. GhostInv' /\ StrandedLoginsOnlyBehindFailures' /\ EmailInv'
  BY <1>1, GhostStep, StrandedStep, EmailStep
<1>6. AloneInv' /\ OverlapInv' /\ PlanInv' /\ IsFiniteSet(profiles')
  BY <1>1, AloneStep, OverlapStep, PlanStep, FiniteStep
<1> QED BY <1>2, <1>3, <1>4, <1>5, <1>6 DEF IInv

\* A logged transaction, and a stuttering step, move no account.
LEMMA QuietStep ==
  ASSUME IInv, (\E p \in profiles : Serve(p)) \/ UNCHANGED vars
  PROVE  IInv'
<1>1. UNCHANGED <<merchants, subscriptions, users, profiles, pc, req, tier, status, history>>
  BY DEF Serve, vars, tables, database
<1>2. served' \subseteq UserId
  BY DEF IInv, TypeInv, TypeOK, ProfileRow, Serve, vars, tables, database
<1>3. TypeOK'
  BY <1>1, <1>2 DEF IInv, TypeInv, TypeOK, history
<1>4. \A i \in Invocation : Local(i)' <=> Local(i)
  BY <1>1 DEF Local, Known, Aimed, Answered, Op, Home, RoleAt, TenantOf, RoleOf, history
<1>5. /\ LoginInv' <=> LoginInv
      /\ ProfileInv' <=> ProfileInv
      /\ TenantInv' <=> TenantInv
  BY <1>1 DEF LoginInv, ProfileInv, TenantInv, Known, Op, Home, RoleAt, TenantOf, RoleOf, history
<1>6. \A i \in Invocation : /\ Onboarding(i)' <=> Onboarding(i)
                            /\ NewLogin(i)' <=> NewLogin(i)
                            /\ Removal(i)' <=> Removal(i)
                            /\ Counted(i)' <=> Counted(i)
                            /\ Edited(i)' <=> Edited(i)
  BY <1>1 DEF Onboarding, TenantComplete, Subscription, NewLogin, Removal, Counted, Edited,
              Answered, OperatorRow, Operators, Op, history
<1>7. /\ GhostInv' <=> GhostInv
      /\ StrandedLoginsOnlyBehindFailures' <=> StrandedLoginsOnlyBehindFailures
      /\ EmailInv' <=> EmailInv
  BY <1>1 DEF GhostInv, StrandedLoginsOnlyBehindFailures, EmailInv, Running, Failed, Op, history
<1>8. /\ AloneInv' <=> AloneInv
      /\ OverlapInv' <=> OverlapInv
      /\ PlanInv' <=> PlanInv
      /\ IsFiniteSet(profiles') <=> IsFiniteSet(profiles)
  BY <1>1 DEF AloneInv, OverlapInv, PlanInv, Running, Subscription, history
<1> QED BY <1>3, <1>4, <1>5, <1>6, <1>7, <1>8 DEF IInv, TypeInv

\* Requests keep to their own tenant, and every row has the request that made it.
THEOREM Invariance == Spec => []IInv
<1>1. ASSUME IInv, [Next]_vars
      PROVE  IInv'
  <2>1. CASE \E i \in Invocation : Action(i)
    BY <1>1, <2>1, ActionStep
  <2>2. CASE (\E p \in profiles : Serve(p)) \/ UNCHANGED vars
    BY <1>1, <2>2, QuietStep
  <2> QED BY <1>1, <2>1, <2>2 DEF Next, Action
<1> QED BY <1>1, Initially, PTL DEF Spec

\* Every row and local variable has its type.
THEOREM TypeCorrect == Spec => []TypeOK
<1>1. IInv => TypeOK
  BY DEF IInv, TypeInv
<1> QED BY <1>1, Invariance, PTL

\* A login without a profile has a request at work, or one that failed, behind it.
THEOREM StrandedLoginsExplained == Spec => []StrandedLoginsOnlyBehindFailures
<1>1. IInv => StrandedLoginsOnlyBehindFailures
  BY DEF IInv
<1> QED BY <1>1, Invariance, PTL

\* An operator who is listed and cannot sign in has an unfinished or failed removal
\* behind him.
THEOREM GhostOperatorsExplained == Spec => []GhostOperatorsOnlyBehindRemovals
<1>1. IInv => GhostOperatorsOnlyBehindRemovals
  BY DEF IInv, GhostInv, GhostOperatorsOnlyBehindRemovals, Running, Idle
<1> QED BY <1>1, Invariance, PTL

\* Unless edits overlap or fail, an operator is listed under the email he signs in with.
THEOREM EmailsAgree == Spec => []EmailsAgreeOutsideEdits
<1>1. IInv => EmailsAgreeOutsideEdits
  BY DEF IInv, EmailInv, EmailsAgreeOutsideEdits, Running, Idle
<1> QED BY <1>1, Invariance, PTL

\* A removal that was answered 204 is final.
THEOREM RemovalIsFinal == Spec => []RemovedStaysRemoved
<1>1. IInv => RemovedStaysRemoved
  BY DEF IInv, Removal, RemovedStaysRemoved
<1> QED BY <1>1, Invariance, PTL

\* A 201 stands for a whole tenant from then on, a 409 or 422 for none.
THEOREM OnboardingAtomic == Spec => []OnboardingIsAllOrNothing
<1>1. ASSUME IInv, NEW i \in Invocation
      PROVE  /\ Answered(i, "onboard", 201) => TenantComplete(i)
             /\ Answered(i, "onboard", 409) \/ Answered(i, "onboard", 422) => TenantAbsent(i)
  <2>1. Answered(i, "onboard", 201) => TenantComplete(i)
    BY <1>1 DEF IInv, Onboarding, Answered
  <2>2. ASSUME Op(i) = "onboard", status[i] \in {409, 422}
        PROVE  TenantAbsent(i)
    <3>0. LoginInv /\ ProfileInv /\ TenantInv
      BY <1>1 DEF IInv
    <3>1. i \notin merchants /\ Subscription(i) = {}
      BY <2>2, <3>0 DEF TenantInv, Subscription
    <3>2. ~Known(i)
      BY <2>2 DEF Known
    <3>3. ASSUME NEW u, Home(u) = i, u \in Invocation => (Op(u) # "onboard" => Known(i))
          PROVE  u = i
      BY <3>2, <3>3, TenantsAssumption DEF Home, TenantOf
    <3>4. \A p \in profiles : p.merchant # i
      BY <2>2, <3>0, <3>3 DEF ProfileInv
    <3>5. \A u \in users : u.merchant = i => u.id = i
      BY <3>0, <3>3 DEF LoginInv
    <3>6. i \notin troubled => \A u \in users : u.merchant # i
      <4>1. status[i] # 0 /\ pc[i] = "done"
        BY <1>1, <2>2 DEF IInv, TypeInv, Local
      <4> QED BY <2>2, <3>0, <3>5, <4>1 DEF LoginInv
    <3> QED BY <3>1, <3>4, <3>6 DEF TenantAbsent
  <2> QED BY <2>1, <2>2 DEF Answered
<1>2. IInv => OnboardingIsAllOrNothing
  BY <1>1 DEF OnboardingIsAllOrNothing
<1> QED BY <1>2, Invariance, PTL

\* The rows of a tenant change in its own requests only.
THEOREM TenantsIsolated == Spec => TenantIsolation
<1> DEFINE A == \A m \in MerchantId : RowsOf(m)' # RowsOf(m) =>
                  \E i \in Invocation : /\ pc'[i] # pc[i]
                                        /\ \/ Op(i) = "onboard" /\ i = m
                                           \/ req[i].caller = m
                                           \/ req[i].role = "platform_admin"
<1>1. ASSUME IInv, [Next]_vars
      PROVE  A
  <2>1. CASE \E i \in Invocation : Action(i)
    <3>1. PICK i \in Invocation : Action(i)
      BY <2>1
    <3>2. pc'[i] # pc[i] /\ TypeInv /\ LoginInv /\ ProfileInv
      BY <1>1, <3>1, Frame DEF IInv
    <3> QED BY <3>1, <3>2, Isolated
  <2>2. CASE (\E p \in profiles : Serve(p)) \/ UNCHANGED vars
    <3>1. UNCHANGED <<subscriptions, users, profiles>>
      BY <2>2 DEF Serve, vars, tables, database
    <3>2. ASSUME NEW m
          PROVE  RowsOf(m)' = RowsOf(m)
      BY <3>1 DEF RowsOf, Subscription
    <3> QED BY <3>2
  <2> QED BY <1>1, <2>1, <2>2 DEF Next, Action
<1> QED BY <1>1, Invariance, PTL DEF Spec, TenantIsolation

\* An addition that ran alone stays within the limit of the plan.
THEOREM LimitHeldAlone == Spec => LimitHolds
<1>1. ASSUME IInv, Next, NEW i \in Invocation, Answered(i, "add", 0), status'[i] = 201,
             i \notin overlapped'
      PROVE  \E s \in Subscription(req[i].merchant)' :
               HasRoom(PLANS[s.tier].operation_user_limit,
                       Cardinality(Operators(req[i].merchant)') - 1)
  <2>0. TypeInv /\ ProfileInv /\ Counted(i) /\ IsFiniteSet(profiles)
    BY <1>1 DEF IInv
  <2>1. Op(i) = "add" /\ status[i] = 0
    BY <1>1 DEF Answered
  <2>2. PICK j \in Invocation : Action(j)
    BY <1>1, <2>1 DEF Next, Action, Serve
  <2>3. j = i
    BY <1>1, <2>0, <2>1, <2>2, Frame
  <2>4. InsertProfile(i) /\ pc[i] = "insert_profile"
    BY <1>1, <2>0, <2>2, <2>3, Flow
  <2>5. i \notin overlapped
    BY <1>1, <2>2, <2>3, OverlapGrows
  <2> DEFINE row == [user_id |-> i, email |-> req[i].email, merchant |-> req[i].merchant,
                     role |-> "operation_user"]
  <2>6. profiles' = profiles \cup {row} /\ subscriptions' = subscriptions
    BY <2>1, <2>4 DEF InsertProfile, TenantOf, RoleOf
  <2>7. row \notin profiles
    <3>1. row.user_id = i
      OBVIOUS
    <3> QED BY <2>0, <2>4, <3>1 DEF ProfileInv
  <2>8. Operators(req[i].merchant)' = Operators(req[i].merchant) \cup {row}
    <3>1. req'[i] = req[i]
      BY <2>4 DEF InsertProfile
    <3>2. row.merchant = req[i].merchant /\ row.role = "operation_user"
      OBVIOUS
    <3> QED BY <2>6, <3>1, <3>2 DEF Operators
  <2>9. IsFiniteSet(Operators(req[i].merchant)) /\ row \notin Operators(req[i].merchant)
    BY <2>0, <2>7, FS_Subset DEF Operators
  <2>10. Cardinality(Operators(req[i].merchant)') - 1 = Cardinality(Operators(req[i].merchant))
    <3>1. Cardinality(Operators(req[i].merchant)) \in Nat
      BY <2>9, FS_CardinalityType
    <3>2. Cardinality(Operators(req[i].merchant) \cup {row}) = Cardinality(Operators(req[i].merchant)) + 1
      BY <2>9, FS_AddElement
    <3> QED BY <2>8, <3>1, <3>2
  <2>11. \E s \in Subscription(req[i].merchant) :
           HasRoom(PLANS[s.tier].operation_user_limit, Cardinality(Operators(req[i].merchant)))
    BY <2>0, <2>1, <2>4, <2>5 DEF Counted
  <2>12. req'[i] = req[i]
    BY <2>4 DEF InsertProfile
  <2> QED BY <2>6, <2>10, <2>11, <2>12 DEF Subscription
<1>2. ASSUME IInv, [Next]_vars
      PROVE  [\A i \in Invocation :
                Answered(i, "add", 0) /\ status'[i] = 201 /\ i \notin overlapped'
                => LET m == req[i].merchant IN
                   \E s \in Subscription(m)' :
                     HasRoom(PLANS[s.tier].operation_user_limit,
                             Cardinality(Operators(m)') - 1)]_vars
  BY <1>1, <1>2
<1> QED BY <1>2, Invariance, PTL DEF Spec, LimitHolds

-----------------------------------------------------------------------------
(* What Plans promises, for any usage: the catalog is three lines, so these    *)
(* are lemmas about its arithmetic and its order.                              *)

LEMMA TierOrdered ==
  /\ DOMAIN TierOrder = {1, 2, 3}
  /\ TierOrder[1] = "starter" /\ TierOrder[2] = "growth" /\ TierOrder[3] = "pro"
  BY DEF TierOrder

LEMMA Ranks == Rank("starter") = 1 /\ Rank("growth") = 2 /\ Rank("pro") = 3
  BY TierOrdered DEF Rank

\* FirstOf is the tier of lowest rank.
LEMMA FirstOfTiers ==
  ASSUME NEW tiers \in SUBSET Tier, tiers # {}
  PROVE  /\ "starter" \in tiers => FirstOf(tiers) = "starter"
         /\ "starter" \notin tiers /\ "growth" \in tiers => FirstOf(tiers) = "growth"
         /\ "starter" \notin tiers /\ "growth" \notin tiers => FirstOf(tiers) = "pro"
<1> DEFINE first(n) == /\ TierOrder[n] \in tiers
                       /\ \A k \in DOMAIN TierOrder : TierOrder[k] \in tiers => n <= k
           least == CHOOSE n \in DOMAIN TierOrder : first(n)
<1>1. FirstOf(tiers) = TierOrder[least]
  BY Zenon DEF FirstOf
<1>2. \E n \in DOMAIN TierOrder : first(n)
  <2>1. CASE "starter" \in tiers
    <3>1. first(1)
      BY <2>1, TierOrdered
    <3> QED BY <3>1, TierOrdered
  <2>2. CASE "starter" \notin tiers /\ "growth" \in tiers
    <3>1. first(2)
      BY <2>2, TierOrdered
    <3> QED BY <3>1, TierOrdered
  <2>3. CASE "starter" \notin tiers /\ "growth" \notin tiers
    <3>1. "pro" \in tiers
      BY <2>3 DEF Tier
    <3>2. first(3)
      BY <2>3, <3>1, TierOrdered
    <3> QED BY <3>2, TierOrdered
  <2> QED BY <2>1, <2>2, <2>3
<1>3. least \in DOMAIN TierOrder /\ first(least)
  <2> HIDE DEF first
  <2> QED BY <1>2
<1> HIDE DEF least
<1> QED BY <1>1, <1>3, TierOrdered

LEMMA Catalog ==
  ASSUME NEW t \in Tier
  PROVE  /\ PLANS[t].price_usd \in Nat /\ PLANS[t].included_cards \in Nat
         /\ PLANS[t].extra_card_usd \in Nat /\ PLANS[t].included_notifications \in Nat
         /\ PLANS[t].extra_notification_usd \in Nat
  BY DEF PLANS, Tier

\* Money rounds to the nearest cent, half a cent up, and keeps the order.
LEMMA MoneyRounds ==
  ASSUME NEW mills \in Nat
  PROVE  /\ Money(mills) \in Nat /\ 10 * Money(mills) - mills \in -4..5
         /\ \A more \in Nat : mills <= more => Money(mills) <= Money(more)
  BY DEF Money

LEMMA OverNat ==
  ASSUME NEW used \in Nat, NEW included \in Nat
  PROVE  Over(used, included) \in Nat /\ Over(used, included) <= Over(used + 1, included)
  BY DEF Over

\* An invoice is rounded once: its total is the exact amount in cents.
LEMMA TotalIsExact ==
  ASSUME NEW s, s.tier \in Tier, NEW n \in Nat, NEW k \in Nat
  PROVE  /\ Exact(s, n, k) \in Nat
         /\ Estimate(s.tier, n, k).total_usd = Money(Exact(s, n, k))
<1> DEFINE p == PLANS[s.tier]
<1>1. /\ p.extra_card_usd * Over(n, p.included_cards) \in Nat
      /\ p.extra_notification_usd * Over(k, p.included_notifications) \in Nat
      /\ p.price_usd \in Nat
  <2>1. \A a, b \in Nat : a * b \in Nat
    OBVIOUS
  <2> QED BY <2>1, Catalog, OverNat
<1> QED BY <1>1 DEF Exact, Estimate

LEMMA ExactGrows ==
  ASSUME NEW s, s.tier \in Tier, NEW n \in Nat, NEW k \in Nat
  PROVE  Exact(s, n, k) <= Exact(s, n + 1, k)
<1>1. CASE s.tier = "starter"
  <2>1. \A m \in Nat : Exact(s, m, k) = 4990 + 44 * Over(m, 200) + 15 * Over(k, 500)
    BY <1>1 DEF Exact, PLANS
  <2>2. /\ Over(n, 200) \in Nat /\ Over(n + 1, 200) \in Nat /\ Over(k, 500) \in Nat
        /\ Over(n, 200) <= Over(n + 1, 200) /\ n + 1 \in Nat
    BY DEF Over
  <2> QED BY <2>1, <2>2
<1>2. CASE s.tier = "growth"
  <2>1. \A m \in Nat : Exact(s, m, k) = 14990 + 34 * Over(m, 1000) + 10 * Over(k, 1000)
    BY <1>2 DEF Exact, PLANS
  <2>2. /\ Over(n, 1000) \in Nat /\ Over(n + 1, 1000) \in Nat /\ Over(k, 1000) \in Nat
        /\ Over(n, 1000) <= Over(n + 1, 1000) /\ n + 1 \in Nat
    BY DEF Over
  <2> QED BY <2>1, <2>2
<1>3. CASE s.tier = "pro"
  <2>1. \A m \in Nat : Exact(s, m, k) = 24990 + 24 * Over(m, 5000) + 5 * Over(k, 10000)
    BY <1>3 DEF Exact, PLANS
  <2>2. /\ Over(n, 5000) \in Nat /\ Over(n + 1, 5000) \in Nat /\ Over(k, 10000) \in Nat
        /\ Over(n, 5000) <= Over(n + 1, 5000) /\ n + 1 \in Nat
    BY DEF Over
  <2> QED BY <2>1, <2>2
<1> QED BY <1>1, <1>2, <1>3 DEF Tier

\* The platform's revenue of one paying client: the fold over a single row.
LEMMA RevenueOfOne ==
  ASSUME NEW s, s.payment_status = "paid", s.tier \in Tier, NEW n \in Nat
  PROVE  Stats({s}, [m \in {s.merchant} |-> n]).mrrUsd = Estimate(s.tier, n, 0).total_usd
<1> DEFINE active == [m \in {s.merchant} |-> n]
           due(r) == Estimate(r.tier, active[r.merchant], 0).total_usd
           Step(it) == [rows \in SUBSET {s} |->
                          IF rows = {} THEN 0
                          ELSE LET r == CHOOSE z \in rows : TRUE IN due(r) + it[rows \ {r}]]
           closed == [rows \in SUBSET {s} |-> IF rows = {} THEN 0 ELSE due(s) + 0]
           iter == CHOOSE it : it = Step(it)
<1>1. Paid({s}) = {s}
  BY DEF Paid
<1>2. Stats({s}, active).mrrUsd
        = MapThenFoldSet(LAMBDA a, b : a + b, 0,
                         LAMBDA r : Estimate(r.tier, active[r.merchant], 0).total_usd,
                         LAMBDA T : CHOOSE x \in T : TRUE, {s})
  BY <1>1 DEF Stats
<1>3. MapThenFoldSet(LAMBDA a, b : a + b, 0,
                     LAMBDA r : Estimate(r.tier, active[r.merchant], 0).total_usd,
                     LAMBDA T : CHOOSE x \in T : TRUE, {s}) = iter[{s}]
  BY DEF MapThenFoldSet
<1>4. iter = Step(iter)
  <2> HIDE DEF due
  <2>1. \A rows \in SUBSET {s} : Step(closed)[rows] = closed[rows]
    OBVIOUS
  <2>2. Step(closed) = closed
    BY <2>1
  <2> QED BY <2>2
<1>5. iter[{s}] = due(s) + 0
  <2> HIDE DEF due, iter
  <2>1. iter[{}] = 0 /\ iter[{s}] = due(s) + iter[{}]
    BY <1>4
  <2> QED BY <2>1
<1>6. due(s) = Estimate(s.tier, n, 0).total_usd /\ due(s) \in Nat
  <2>1. active[s.merchant] = n
    OBVIOUS
  <2>2. Exact(s, n, 0) \in Nat /\ Estimate(s.tier, n, 0).total_usd = Money(Exact(s, n, 0))
    BY TotalIsExact
  <2>3. Estimate(s.tier, n, 0).total_usd \in Nat
    BY <2>2, MoneyRounds
  <2> QED BY <2>1, <2>3
<1>7. Stats({s}, active).mrrUsd = iter[{s}]
  BY <1>2, <1>3
<1> HIDE DEF due, iter, active
<1>8. Stats({s}, active).mrrUsd = Estimate(s.tier, n, 0).total_usd
  BY <1>5, <1>6, <1>7
<1> QED BY <1>8 DEF active

\* Nothing is charged for cards the plan includes.
LEMMA IncludedIsFree ==
  ASSUME NEW t \in Tier, NEW n \in Nat, Estimate(t, n, 0).extra_cards_usd > 0
  PROVE  n > PLANS[t].included_cards
<1>1. Estimate(t, n, 0).extra_cards_usd
        = Money(PLANS[t].extra_card_usd * Over(n, PLANS[t].included_cards))
  BY DEF Estimate
<1>2. CASE n <= PLANS[t].included_cards
  <2>1. Over(n, PLANS[t].included_cards) = 0
    BY <1>2, Catalog DEF Over
  <2>2. Estimate(t, n, 0).extra_cards_usd = Money(0)
    BY <1>1, <2>1, Catalog
  <2> QED BY <2>2 DEF Money
<1> QED BY <1>2, Catalog

\* Invoices are exact to the cent, grow with use, and agree with the platform's view.
THEOREM InvoicesExact == Spec => []InvoiceIsExactToTheCent
<1>1. TypeOK => InvoiceIsExactToTheCent
  <2> SUFFICES ASSUME TypeOK, NEW s \in subscriptions, NEW n \in CardCounts,
                      NEW k \in NotificationCounts
               PROVE  /\ 10 * Estimate(s.tier, n, k).total_usd - Exact(s, n, k) \in -4..5
                      /\ Estimate(s.tier, n, k).total_usd <= Estimate(s.tier, n + 1, k).total_usd
                      /\ s.payment_status = "paid" =>
                           Stats({s}, [m \in {s.merchant} |-> n]).mrrUsd
                             = AdminClient(s, n).estimatedMonthlyUsd
                      /\ Usage(s, n).total_usd = AdminClient(s, n).estimatedMonthlyUsd
                      /\ Usage(s, n).extra_cards_usd > 0
                           => n > SubscriptionView(s, n).includedCards
    BY DEF InvoiceIsExactToTheCent
  <2>1. s.tier \in Tier /\ n \in Nat /\ n + 1 \in Nat /\ k \in Nat
    BY UsageAssumption DEF TypeOK, SubscriptionRow
  <2>2. /\ 10 * Estimate(s.tier, n, k).total_usd - Exact(s, n, k) \in -4..5
        /\ Estimate(s.tier, n, k).total_usd <= Estimate(s.tier, n + 1, k).total_usd
    <3>1. /\ Exact(s, n, k) \in Nat /\ Exact(s, n + 1, k) \in Nat
          /\ Estimate(s.tier, n, k).total_usd = Money(Exact(s, n, k))
          /\ Estimate(s.tier, n + 1, k).total_usd = Money(Exact(s, n + 1, k))
      BY <2>1, TotalIsExact
    <3>2. Exact(s, n, k) <= Exact(s, n + 1, k)
      BY <2>1, ExactGrows
    <3> QED BY <3>1, <3>2, MoneyRounds
  <2>3. AdminClient(s, n).estimatedMonthlyUsd = Estimate(s.tier, n, 0).total_usd
    BY DEF AdminClient
  <2>4. Usage(s, n) = Estimate(s.tier, n, 0)
    BY DEF Usage
  <2>5. SubscriptionView(s, n).includedCards = PLANS[s.tier].included_cards
    BY DEF SubscriptionView
  <2> QED BY <2>1, <2>2, <2>3, <2>4, <2>5, RevenueOfOne, IncludedIsFree
<1> QED BY TypeCorrect, <1>1, PTL

\* A dearer tier has every feature of a cheaper one.
LEMMA FeaturesChain ==
  ASSUME NEW f \in Feature
  PROVE  Has("pro", f) /\ (Has("starter", f) => Has("growth", f))
  BY DEF Has, PLANS, Feature, ProFeatures, GrowthFeatures

LEMMA PricesChain ==
  PLANS["starter"].price_usd <= PLANS["growth"].price_usd
  /\ PLANS["growth"].price_usd <= PLANS["pro"].price_usd
  BY DEF PLANS

\* The tier of lowest rank is the cheapest.
LEMMA FirstIsCheapest ==
  ASSUME NEW tiers \in SUBSET Tier, tiers # {}
  PROVE  Cheapest(FirstOf(tiers), tiers)
<1> DEFINE price(t) == PLANS[t].price_usd
<1>1. /\ price("starter") \in Nat /\ price("growth") \in Nat /\ price("pro") \in Nat
      /\ price("starter") <= price("growth") /\ price("growth") <= price("pro")
  BY PricesChain, Catalog DEF Tier
<1>2. \A t \in tiers : t \in {"starter", "growth", "pro"}
  BY DEF Tier
<1> SUFFICES FirstOf(tiers) \in tiers /\ \A u \in tiers : price(FirstOf(tiers)) <= price(u)
  BY DEF Cheapest
<1> HIDE DEF price
<1>3. CASE "starter" \in tiers
  BY <1>1, <1>2, <1>3, FirstOfTiers
<1>4. CASE "starter" \notin tiers /\ "growth" \in tiers
  BY <1>1, <1>2, <1>4, FirstOfTiers
<1>5. CASE "starter" \notin tiers /\ "growth" \notin tiers
  BY <1>1, <1>2, <1>5, FirstOfTiers
<1> QED BY <1>3, <1>4, <1>5

\* A refused feature is answered with the cheapest tier that has it.
LEMMA RefusedFeature ==
  ASSUME NEW t \in Tier, NEW f \in Feature, ~Has(t, f)
  PROVE  Cheapest(RequireFeature(t, f), {u \in Tier : Has(u, f)})
<1> DEFINE having == {u \in Tier : Has(u, f)}
<1>1. "pro" \in having /\ having \in SUBSET Tier
  BY FeaturesChain DEF Tier
<1>2. RequireFeature(t, f) = FirstOf(having)
  BY DEF RequireFeature, CheapestWith
<1> HIDE DEF having
<1>3. Cheapest(FirstOf(having), having)
  BY <1>1, FirstIsCheapest
<1> QED BY <1>2, <1>3 DEF having

\* Answers that name a higher tier, and never pass over one that grants, lead to the
\* cheapest that grants.
LEMMA LadderEnds ==
  ASSUME NEW answer, NEW t \in Tier,
         answer["pro"] = "allowed",
         answer["growth"] \in {"allowed", "pro"},
         answer["starter"] \in {"allowed", "growth", "pro"},
         answer["starter"] = "pro" => answer["growth"] # "allowed"
  PROVE  EndsAtCheapest(answer, t)
<1> DEFINE end == Follow(answer, Follow(answer, t))
           good == {u \in Tier : Rank(t) <= Rank(u) /\ answer[u] = "allowed"}
           price(u) == PLANS[u].price_usd
<1>1. /\ "starter" \in Tier /\ "growth" \in Tier /\ "pro" \in Tier /\ "allowed" \notin Tier
      /\ \A u \in Tier : u \in {"starter", "growth", "pro"}
  BY DEF Tier
<1>2. /\ price("starter") \in Nat /\ price("growth") \in Nat /\ price("pro") \in Nat
      /\ price("starter") <= price("growth") /\ price("growth") <= price("pro")
  BY PricesChain, Catalog DEF Tier
<1> SUFFICES end \in good /\ \A u \in good : price(end) <= price(u)
  BY DEF EndsAtCheapest, Cheapest
<1> HIDE DEF price
<1>3. CASE t = "pro"
  <2>1. end = "pro"
    BY <1>1, <1>3 DEF Follow
  <2>2. \A u \in good : u = "pro"
    BY <1>1, <1>3, Ranks
  <2>3. "pro" \in good
    BY <1>1, <1>3, Ranks
  <2> QED BY <1>2, <2>1, <2>2, <2>3
<1>4. CASE t = "growth"
  <2>1. end = IF answer["growth"] = "allowed" THEN "growth" ELSE "pro"
    BY <1>1, <1>4 DEF Follow
  <2>2. \A u \in good : u = "pro" \/ (u = "growth" /\ answer["growth"] = "allowed")
    BY <1>1, <1>4, Ranks
  <2>3. "pro" \in good /\ (answer["growth"] = "allowed" => "growth" \in good)
    BY <1>1, <1>4, Ranks
  <2> QED BY <1>2, <2>1, <2>2, <2>3
<1>5. CASE t = "starter"
  <2>1. end = IF answer["starter"] = "allowed" THEN "starter"
              ELSE IF answer["growth"] = "allowed" THEN "growth" ELSE "pro"
    BY <1>1, <1>5 DEF Follow
  <2>2. \A u \in good : \/ u = "starter" /\ answer["starter"] = "allowed"
                        \/ u = "growth" /\ answer["growth"] = "allowed"
                        \/ u = "pro"
    BY <1>1
  <2>3. \A u \in Tier : Rank(t) <= Rank(u)
    BY <1>1, <1>5, Ranks
  <2>4. end \in good
    BY <1>1, <2>1, <2>3
  <2> QED BY <1>2, <2>1, <2>2, <2>4
<1> QED BY <1>1, <1>3, <1>4, <1>5

\* What a feature is answered on each tier.
LEMMA FeatureAnswers ==
  ASSUME NEW f \in {"manual_campaigns", "automated_campaigns"}
  PROVE  /\ RequireFeature("pro", f) = "allowed"
         /\ RequireFeature("growth", f) =
              IF f = "manual_campaigns" THEN "allowed" ELSE "pro"
         /\ RequireFeature("starter", "manual_campaigns") = "growth"
<1>1. /\ Has("pro", f) /\ ~Has("starter", f)
      /\ Has("growth", f) <=> f = "manual_campaigns"
  BY DEF Has, PLANS, ProFeatures, GrowthFeatures, StarterFeatures
<1>2. Has("growth", "manual_campaigns") /\ ~Has("starter", "manual_campaigns")
  BY DEF Has, PLANS, GrowthFeatures, StarterFeatures
<1>3. ASSUME NEW g PROVE {u \in Tier : Has(u, g)} \in SUBSET Tier
  OBVIOUS
<1>4. CheapestWith("manual_campaigns") = "growth"
  BY <1>2, <1>3, FirstOfTiers DEF CheapestWith, Tier
<1>5. f # "manual_campaigns" => CheapestWith(f) = "pro"
  BY <1>1, <1>3, FirstOfTiers DEF CheapestWith, Tier
<1> QED BY <1>1, <1>2, <1>4, <1>5 DEF RequireFeature

\* Reminders: growth has the manual ones, pro those of birthdays.
LEMMA ReminderAdvice ==
  ASSUME NEW t \in Tier, NEW segment \in {"birthday", "inactive"}
  PROVE  EndsAtCheapest([u \in Tier |-> ReminderGate(u, segment)], t)
<1> DEFINE answer == [u \in Tier |-> ReminderGate(u, segment)]
<1>1. /\ answer["pro"] = "allowed" /\ answer["starter"] = "growth"
      /\ answer["growth"] = IF segment = "birthday" THEN "pro" ELSE "allowed"
  BY FeatureAnswers DEF ReminderGate, Tier
<1> HIDE DEF answer
<1>2. EndsAtCheapest(answer, t)
  BY <1>1, LadderEnds
<1> QED BY <1>2 DEF answer

\* Operators: starter has room below two, growth below five, pro always.
LEMMA OperatorAdvice ==
  ASSUME NEW t \in Tier, NEW n \in Nat
  PROVE  EndsAtCheapest([u \in Tier |-> OperatorGate(u, n)], t)
<1> DEFINE answer == [u \in Tier |-> OperatorGate(u, n)]
           better(u, limit) ==
             {v \in Tier : Rank(v) > Rank(u) /\ HasRoom(PLANS[v].operation_user_limit, limit)}
<1>1. /\ HasRoom(PLANS["pro"].operation_user_limit, n)
      /\ HasRoom(PLANS["growth"].operation_user_limit, n) <=> n < 5
      /\ HasRoom(PLANS["starter"].operation_user_limit, n) <=> n < 2
  BY DEF HasRoom, PLANS, Unlimited
<1>2. NextTierWithMoreOperators("starter") = "growth"
  <2>1. "growth" \in better("starter", 2) /\ "starter" \notin better("starter", 2)
    BY Ranks DEF Tier, HasRoom, PLANS, Unlimited
  <2>2. NextTierWithMoreOperators("starter") = FirstOf(better("starter", 2))
    <3>1. PLANS["starter"].operation_user_limit = 2 /\ 2 # Unlimited
      BY DEF PLANS, Unlimited
    <3> QED BY <2>1, <3>1 DEF NextTierWithMoreOperators
  <2>3. better("starter", 2) \in SUBSET Tier
    OBVIOUS
  <2> HIDE DEF better
  <2> QED BY <2>1, <2>2, <2>3, FirstOfTiers
<1>3. NextTierWithMoreOperators("growth") = "pro"
  <2>1. /\ "pro" \in better("growth", 5)
        /\ "starter" \notin better("growth", 5) /\ "growth" \notin better("growth", 5)
    <3>1. Rank("pro") > Rank("growth") /\ ~(Rank("starter") > Rank("growth"))
          /\ ~(Rank("growth") > Rank("growth"))
      BY Ranks
    <3>2. HasRoom(PLANS["pro"].operation_user_limit, 5)
      BY DEF HasRoom, PLANS
    <3> QED BY <3>1, <3>2 DEF Tier
  <2>2. NextTierWithMoreOperators("growth") = FirstOf(better("growth", 5))
    <3>1. PLANS["growth"].operation_user_limit = 5 /\ 5 # Unlimited
      BY DEF PLANS, Unlimited
    <3> QED BY <2>1, <3>1 DEF NextTierWithMoreOperators
  <2>3. better("growth", 5) \in SUBSET Tier
    OBVIOUS
  <2> HIDE DEF better
  <2> QED BY <2>1, <2>2, <2>3, FirstOfTiers
<1>4. /\ answer["pro"] = "allowed"
      /\ answer["growth"] = IF n < 5 THEN "allowed" ELSE "pro"
      /\ answer["starter"] = IF n < 2 THEN "allowed" ELSE "growth"
  BY <1>1, <1>2, <1>3 DEF OperatorGate, Tier
<1> HIDE DEF answer
<1>5. EndsAtCheapest(answer, t)
  BY <1>4, LadderEnds
<1> QED BY <1>5 DEF answer

\* Whoever follows the upgrades he is told ends on the cheapest tier that grants what
\* he asked for, with whatever number of operators, and a refused feature is answered
\* with that tier at once.
THEOREM AdviceEndsAtCheapest == Spec => []UpgradeAdviceEndsAtCheapest
<1>1. TypeOK => UpgradeAdviceEndsAtCheapest
  <2>1. SUFFICES ASSUME TypeOK, NEW s \in subscriptions
        PROVE  /\ \A f \in Feature : ~Has(s.tier, f) =>
                    Cheapest(RequireFeature(s.tier, f), {u \in Tier : Has(u, f)})
               /\ \A segment \in {"birthday", "inactive"} :
                    EndsAtCheapest([u \in Tier |-> ReminderGate(u, segment)], s.tier)
               /\ \A n \in OperatorCounts :
                    EndsAtCheapest([u \in Tier |-> OperatorGate(u, n)], s.tier)
    BY Zenon DEF UpgradeAdviceEndsAtCheapest
  <2>2. s.tier \in Tier
    BY <2>1 DEF TypeOK, SubscriptionRow
  <2>3. OperatorCounts \subseteq Nat
    BY UsageAssumption
  <2> QED BY <2>2, <2>3, RefusedFeature, ReminderAdvice, OperatorAdvice
<1> QED BY TypeCorrect, <1>1, PTL
=============================================================================
