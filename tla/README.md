# conpass backend: TLA+ verification

The conpass backend is a set of small Python services (one AWS Lambda per
feature) behind an HTTP API. They share a Postgres database through the Supabase
Data API and reflect card balances into Google Wallet passes. This directory
holds TLA+ models of it, the TLC configurations that check them and the theorems
that TLAPS proves about them. Paths below are relative to the repository.

    tlc -workers 2 -config CardOperationsRaces.cfg MCCardOperations.tla
    tlapm CardOperationsProofs.tla

`PROJECT.json` lists the runs, the mutants that show each property can fail, the
source lines each definition stands for, the hazards and the findings.

## The system

`L/` is `layers/common/python/conpass_common/`, `S/` is `services/`.

| component | state it keeps | operations | hard behaviour | what makes it correct |
|---|---|---|---|---|
| reward logic (`S/operations/logic.py`) | none (pure) | accrue, redeem, validate_access | several rewards in one accrual, truncation of points | worth is conserved; counters stay below the price; redeeming needs a reward |
| card operations (`S/operations`) | `cards` balances, `transactions` | resolve, accrue, redeem, validate access, redemptions report | read-compute-write without a transaction, concurrent cashiers, crash between calls | a balance is what its operations make of it; the fraud window and the single use of a seasonal card hold |
| idempotency (`L/idempotency.py`) | `idempotency_records` | run_idempotent (get, compute, put) | retries after a lost answer, retries that overlap, crash before put | one application and one answer per key |
| wallet passes (`L/providers`) | Google Wallet classes and objects | ensure class, issue, update, save link | best-effort, reordered updates, lookup-then-create | the pass follows the card |
| enrollment (`S/enrollment`) | `customers`, `cards` | enroll | dedupe lookup against a unique index, two inserts | one card per device and program; no customer without a card |
| campaigns (`L/campaigns.py`, migrations 0013/0014) | dates and switch of a `programs` row | status, require_active, shape rules | inclusive dates, SQL twin of the Python rule | the two agree; only an active campaign enrols or redeems |
| programs (`S/programs`) | `programs` | create, list, PATCH, appearance push | concurrent PATCHes, merged validation, push to every pass | a stored row satisfies the shape rules |
| merchants and operators (`S/merchants`, `L/provisioning.py`) | `merchants`, `profiles`, auth users | onboard, edit, add/edit/remove operator, reset password, usage | three stores written one after the other, hand-made compensation, limit checked before insert | no login without a merchant; operators within the plan |
| plans and billing (`L/plans.py`, 0011, 0012) | none (pure) and views | limits, estimate, next tier | rounding, thresholds | monotone price; upgrade path reaches every tier |
| migrations (`scripts/apply_migrations.py`) | `conpass_schema_migrations` | apply, baseline, dry run | crash, two runners | each file applied once, in order |
| demo reset (`L/demo.py`, `scripts/`) | rows of the demo merchant | seed, reset | reset during use | only demo rows are touched |
| admin, payment settings | `merchants`, settings | list, edit, settings | single statements | - |
| authentication, assets, app shell, views and RLS, stubs | - | - | - | not modelled, see below |

The components interact only through the database, the auth service and the
wallet API: there is no message queue and no shared memory. An operation reads
rows, computes locally and writes rows, each in a Data API call of its own; a call
is one SQL statement, and **no two calls share a transaction**. Two requests
therefore interleave between any two calls, and a crash separates any two.

## What is modelled

### `RewardLogic` - the arithmetic of `logic.py`

`AccrueOutcome` (with `AccrueStamps`, `AccruePoints`, `RollOver`,
`PointsGained`), `AccrueRefused`, `RedeemedState` and `RedeemRefused` are the
functions of `logic.py` on the balance columns. `Worth` values a balance in
stamps or points with rewards at their price; it is what the properties compare.
Amounts and rates are fixed-point with `Scale` steps to the unit.
`int(amount * points_per_dollar)` truncates a product of binary floats: where the exact
product is whole, the float may come out just below it, and a point is lost (0.29 at a
rate of 100 earns 28). Which products do is the constant `ShortProducts`, a set of pairs
of an amount and a rate; `PointsGained` is the exact floor, less one at a whole product
in that set. Nowhere else does the rounding reach a whole number: of amounts and rates
in hundredths (`numeric(10,2)`, cents), a product that is not whole is at least 1/10000
away from one, far more than the relative error of a product of doubles as long as
it is below 10^10. Amounts finer than a cent, which the contract does not exclude, are
not modelled.

### `CardLedger` - what the service promises

The abstract specification: an operation with a key changes a balance and is
answered in one indivisible step, at most once per key. A refusal leaves no trace.

### `CardOperations` - how the service does it

`accrue` and `redeem` inside `run_idempotent`. An *invocation* is one HTTP
request in one Lambda instance; a retry is another invocation with an equal
request. One action is one call and the local computation up to the next call:

| action | code |
|---|---|
| `LookupKey` | `store.get(key)`: replay, 409 on another request hash, or go on |
| `ReadCard` | `repo.get_card`, 404, `require_merchant` 403 |
| `DecideAccrue` | `get_rules`, `recent_accrual_count` (429), `logic.accrue` (422) |
| `DecideRedeem` | `require_active` for a seasonal card (422), `logic.redeem` (409) |
| `UpdateCard` | `commit`, first statement: overwrite the four balance columns |
| `InsertTransaction` | `commit`, second statement: refused (500) when `operation_user_id` has no profile |
| `PushRead`, `PushPut`, `PushFails` | `_push_wallet_update`: read the row, put the pass, swallow any failure |
| `StoreRecord` | `store.put`: an INSERT under the primary key, 500 when the key exists |
| `Crash` | the instance is killed or a call raises, at any step |
| `Tick`, `SwitchCampaign` | time passes; a campaign opens or closes |

Tables are `cards`, `transactions` and `idempotency_records`; `pass` is what the
installed pass shows; `pc`, `card_state`, `delta`, `push_state` are the locals of
an invocation. `answers`, `written`, `credited` and `redemptions` are history
variables: no action reads them, the properties do.

Two regimes:

* **full** (`AllowOverlap = TRUE`, faults allowed, any operator): what the code
  guarantees whatever clients and machines do;
* **isolated** (`AllowOverlap = FALSE`): requests on one card or one key do not
  overlap. `MayBegin` states this; it is an assumption about clients, not code.

### `CardOperationsRefinement` - what the service keeps, and under which conditions

`Isolated` is the isolated regime; `Dependable` says that nothing ends an invocation
between its two statements and its record: no crash, and every operator has a profile
(wallet pushes may fail). The refinement mapping onto `CardLedger`: balances are the
rows, and a key counts as answered from the `cards` UPDATE on, with the response that
will be recorded (`LedgerAnswer`). `RefinesLedger` is the ledger's specification under
that mapping, `NothingLost` its balance property.

### `Campaigns` - when a campaign is open, and what makes one valid

`CampaignStatus` (with `Upcoming` and `Ended`) is `campaign_status` of
`L/campaigns.py`: disabled, upcoming, ended or active, the window inclusive at both
ends and only for seasonal campaigns. Dates are day numbers in Ecuador time.
`ValidSeasonal` is `validate_seasonal`. Migration 0014 states the same rules again in
SQL, and the model keeps the twins apart: `SeasonalShapeCheck` and `ValidRangeCheck` are
the table's checks, `Billed` the window of the view `merchant_active_passes`. They differ
in places - `btrim` leaves a reward of line breaks, `strip` does not - and the
properties of `Programs` say where that may not matter.

### `Enrollment` - one card for a device

`enroll_customer` inside `run_idempotent`, with the issue of the wallet pass, at the
same grain as the core: an action is one Data API or wallet call. A row that an
invocation creates has the invocation's id.

| action | code |
|---|---|
| `LookupKey`, `StoreRecord`, `Crash` | as in the core; the hash covers the body, not the program of the path |
| `ReadProgram` | `get_program`, 404, and 422 of a switched-off campaign |
| `FindCard` | `find_card_by_dedupe` (skipped for a missing or empty key), else `require_active` (422) |
| `CreateCustomer`, `CreateCard` | the two inserts; the second meets `cards_program_dedupe_uidx` (500) |
| `GetClass`, `WriteClass` | `_ensure_class`: look up, then POST or PUT; a POST of an existing class fails |
| `GetObject`, `WriteObject` | `issue`: the same for the pass, then a link that refers to it |
| `ProbeObject` | `add_link` for a card that was found: refer to the pass if the probe finds it, else carry it whole |
| `WalletFails` | `_wallet_links` swallows any failure: an answer without a link |
| `SavePass` | the customer follows a link that carries the whole pass, which creates it (external) |
| `SwitchProgram`, `NextDay` | the owner's PATCH of `active`; the date |

A missing dedupe key (`NoDevice`, SQL null) and an empty one (`Blank`) differ: the
handler looks neither up, but the unique index covers the empty one. So the second
customer of a program whose client sends an empty key gets a 500; the model keeps
this and the properties hold in spite of it.

### `Plans` - the catalog and what is computed from it

`PLANS`, `Has`, `CheapestWith`, `RequireFeature`, `NextTierWithMoreOperators`,
`Estimate`, `SubscriptionView` are `L/plans.py`; `Usage`, `AdminClient` and `Stats` what
the merchants and admin services answer with; `ReminderGate` the feature gate of the
reminder stub, `OperatorGate` what `add_operation_user` answers with a given number of
operators. Exact money is in mills (1/1000 USD), shown money in cents by `Money`,
which rounds half up as `quantize` does. What it promises a tenant is stated in
`Tenants`, of each subscription there is.

### `Tenants` - who has an account

Onboarding, the operators of a merchant, and the platform's change of a subscription
(`S/merchants`, `S/admin`, `L/provisioning.py`). Two stores share no transaction: the
auth service has the logins (`users`), the database `merchants`, `subscriptions` and
`profiles`. An action is one call to one of them:

| action | code |
|---|---|
| `Receive` | missing proof of payment 422, `require_role` and `require_merchant` 403; a request made as a new tenant's owner comes after the answer that holds its password |
| `CreateMerchant`, `CreateSubscription` | the two inserts of onboarding |
| `ReadSubscription`, `CountOperators` | the plan and the number of operators before an addition, 402 at the limit; the read of `update_subscription`, 404 |
| `RequireOperator` | `_require_operation_user`, 404 |
| `AuthCall` | `create_user`, `update_user_by_id` or `delete_user`; what the service refuses (a taken email, an unknown id) is a 409, which onboarding compensates and a removal swallows |
| `AuthFails` | the service fails before or after it acted |
| `InsertProfile`, `DeleteMerchant`, `UpdateProfile`, `DeleteProfile`, `UpdateSubscription` | the write that ends each request; `DeleteProfile` meets the foreign key of `transactions`, and `UpdateSubscription` raises (500) when the row went with its merchant after the read |
| `DbFails`, `Crash` | a Data API call raises (500); the instance dies between two calls |
| `Serve` | the operator logs a transaction, which pins the profile |

What a login and its profile both store is an email. `troubled` and `overlapped` are
history variables: invocations that saw the auth service fail, and invocations that ran
while another did.

### `PassLayout` - what a pass shows

The template of a program's class (`CardRows`) and the object of a card
(`ObjectPayload`, with the text modules of each kind of program), as sets of cell ids
with what each cell says. Labels, language and images are left out. The docstring of
`_text_modules` asks that every cell of the template be filled by the object.

### `Programs` - a campaign edited while it is used

One program, its creation (`CreatedRow`, `CreateAccepted`), and beside each other its
PATCHes and the till's operations on its cards:

| action | code |
|---|---|
| `PatchRead` | the read, 403, 404, `validate_seasonal` on the merged row (422), an empty patch (200) |
| `UpdateProgram` | the UPDATE of the patched columns, under the columns' types and the table's checks (500), and the decision to push: the patch against the row as it was *read* |
| `ListCards`, `SyncClass`, `PushPass` | `_push_appearance_to_passes`: at most `PushLimit` cards, the template, then each pass from the rows listed; any failure is swallowed; without cards the code returns before the template, which then waits for another push |
| `ReadCard`, `CheckOperation`, `Commit` | accrue and redeem: card, then rules or `require_active`, then the write |
| `PushReadCard`, `PushReadProgram`, `PushOperation` | `_push_wallet_update` |
| `Crash`, `Midnight` | as above |

The numeric columns have their widths: `MaxInteger` for the `integer` columns, `MaxRate`
for `points_per_dollar numeric(10,2)`. `ProgramCreate` and `ProgramUpdate` set no upper
bound, so a body may hold a number the column refuses (`Overflows`), and a rate is
rounded to the last digit its column keeps as it is stored (`Stored`; a request sends it in tenths
of that digit).

`PutPass` records in `excused` whether what was put is what card and program say at
that moment; a lost push, a card beyond the limit, or a push an edit skipped because a
crossing edit made its column look unchanged are recorded the same way. The template is
kept there as `Template`, beside the cards.
`PassesFollowProgram` then says that nothing *else* leaves a pass behind: it does not
show that these four do no harm, they do. In the same way `AppliedWhileOpen` allows a
campaign to close between the check and the write of a redemption, and
`EmailsAgreeOutsideEdits` of `Tenants` sets aside edits that overlapped or failed.

### `Migrations` - the script that changes the schema

`apply_migrations.py` from several places at once: a run reads the tracker once and
walks through the files; each file and its tracker row are one transaction (`Execute`,
`Insert`, `Commit`), which a crash, an error or a key another run has taken rolls back
and which ends the run (`AfterError`). `--dry-run` only walks, `--baseline` records
without executing. A database migrated by hand before there was a tracker (`by_hand`)
is only ever baselined: that is the operator's duty, and the model's one assumption
about him (`ModeFits`).

### The `MC` modules

`MCCardOperations` (cards, rules and request sets, the symmetry of invocations),
`MCCardLedger`, `MCEnrollment`, `MCTenants`, `MCPrograms` and
`MCMigrations` are the instances. `MCEnrollment` has a stamp program with a welcome
bonus and a sale that is open on day 2 only. `MCPrograms` has one program of each kind,
an offer in words and one in per cent, and bodies that POST refuses. `MCTenants` gives
the counts of cards and notifications that invoices are computed for and of operators
that an addition may find. `MCCardLedger` has a rate of 50 points a dollar and, in
`ShortProducts`, those of its amounts and their sums whose product Python computes too
short: 0.58, 1.14, 1.16 and 2.28 dollars.

## What the runs show

| run | shows | size |
|---|---|---|
| `CardOperationsRaces` | in the full regime: types, one answer per key, a 200 means written and logged, no minting, legal balances | 3 invocations, 5 requests, crashes and wallet failures; 668 000 states |
| `CardOperationsIsolated` | in the isolated regime with registered operators: fraud guard, single use, nothing lost from a row, and the refinement of `CardLedger`, which has an operation applied once per key | 3 invocations, 6 requests, 3 keys, clock to 2, wallet failures; 258 000 states |
| `CardOperationsLiveness` | every invocation is answered, every write is recorded, with failing pushes and every refusal of the handlers | 2 invocations, 10 requests; 11 000 states |
| `CardLedger` | the ledger loses and mints nothing; a batch of stamps is worth single stamps; a purchase earns its exact product or up to a point less, and split in two what it earns at once or a point less - one more or two less only where each part is worth whole points and the floats miss them, as 0.28 and 0.30 dollars earn 14 and 15 points and 0.58 earns 28 | 3 keys, 2 cards, cents, 5 amounts; 2 600 states |
| `CardOperationsOverlappingRetry` | *violated*: a retry sent while the first request runs is applied again | |
| `CardOperationsLeaverRetry` | *violated*: an operator without a profile gets a 500 after the balance changed, and every retry changes it again | |
| `CardOperationsLostRedemption` | *violated*: `rewards_redeemed` decreases when an accrual overwrites a redemption | |
| `Enrollment` | answers match their request; a device never gets two cards; links by reference resolve; orphan customers only behind failures; no card before the opening; a holder is never turned away by the dates | 3 invocations, 6 requests, 3 keys, days 1 to 3, crashes and wallet failures; 844 000 states |
| `EnrollmentKeyAcrossPrograms` | *violated*: one key and body sent to a second program is answered with the first program's card | |
| `Tenants` | onboarding is all or nothing to its caller; a login without a profile, a profile without a login and two different emails each have a failed or unfinished request behind them; a removal is final; the limit holds for an addition that runs alone; no tenant changes another; invoices are exact to the cent; who follows the upgrades his refusals name ends on the cheapest plan that grants the request | 2 invocations, 22 requests, starter plan with room for one operator more, 0 to 7 operators for the advice, all faults; 30 000 states |
| `Programs` | passes and template follow the program except where a push was lost or overtaken; crossing edits keep each other's columns; an offer always stands; the table refuses what the handler accepted only where a date moved in between or a number overflows its column; the discount is applied and billed within the window | 3 cards, push limit 2, 2 invocations, 20 requests, 2 days, integers to 4 and rates to 3, all faults; 876 000 states |
| `Migrations` | a file is committed with its row, once, in order, and in the end all are | 2 runners, 3 files, 3 failures; 31 000 states |

The violated runs check what the repository says of itself (`PROJECT.json`,
findings, quotes the lines). The same properties of the core are theorems of the isolated
regime (`RedemptionsAreKept`; `MutationAppliedOnce`, if nothing dies): together they say that the missing piece is mutual exclusion per card and key
around `compute`, and nothing in the arithmetic or the order of the calls. With
`AllowOverlap = TRUE` the same read-then-write also breaks `OneUsePerSeasonalCard` (two
redemptions under two keys) and `FraudGuard` (accruals counted before any is logged). A crash
between `commit` and `put` is a third way to apply a key twice: set
`Faults = {"crash"}` and `AllowOverlap = FALSE` in `CardOperationsOverlappingRetry.cfg`.

**Bounds.** Two invocations show every race of two requests; the third adds the
retry of one of them, or an operation between the two. The stamp card is issued one
stamp below a reward, with one reward available and a price of two, so that one
request rolls over, another fills several rewards, and redemption succeeds and is
refused. `MaxAccruals` is 1 or 2 instead of 5, the window one tick; `MaxTime` lets an
accrual leave the window. In the full regime the clock stands still: time only ages
accruals, which relaxes the window and none of the properties of that run is about it.
Requests are what pydantic lets through (`stamps >= 1` or missing, `amount >= 0` or
missing).

In `Enrollment`, three invocations are two racing enrolments of a device and a retry
of one of them. The sale opens on day 2 of 3, so that each of the four states of a
campaign occurs before, between and after the two checks of a request; `Switchable`
lets the owner switch the sale only, `MaxDay` bounds the date. The dates themselves do
not change there; they do in `Programs`.

In `Tenants` two invocations are an onboarding and the first act of its owner, two
additions to a plan with room for one, or an edit, a removal and a reset of one operator
crossing each other. The invoice is checked around every inclusion of the catalog
(`CardCounts`, `NotificationCounts`), the upgrade advice around both operator limits
(`OperatorCounts`). In `Programs` the columns hold integers to 4 and rates to 3, which
the largest numbers of the bodies exceed by one (a rate, only once it is rounded); a
push bounded to two of three cards leaves one card out; the campaigns are open on day 1
of 2 or on both, PATCHes move either end, and `newline` and `spaces` are the two rewards on which the SQL and the Python rule differ
and agree. In `Migrations` three failures separate every file from its row once, and a
fourth file or a third runner adds no new interference: a run meets others only through
the tracker row it is inserting. File 3 needs file 2, as 0014 uses the enum value of 0013.

**Fairness.** `FairSpec` assumes weak fairness of `Progress(i)` for each begun
invocation: Lambda runs the handler it has started, and without a crash every Data
API call returns or raises. Nothing is assumed of clients (`LookupKey`), of the clock
or of campaigns. In `Migrations` a run that can go on does (weak fairness of `Works(r)`),
and the script is run again, with the flag that fits, until it goes through: strong
fairness of `Start`, since a run in progress disables it again and again. That is what
the operator does (the Makefile's target), not the code, and only `EventuallyApplied`
rests on it. `Tenants` and `Programs` state no liveness: a request
there that dies is repeated, if at all, by a person.

`CHECK_DEADLOCK FALSE` appears in the configurations because the finite set of
invocations is used up: the model stops when all are answered. `Migrations` checks it.

## What is proved

`RewardLogicProofs` proves the arithmetic for all values: `RollOverFacts` (the
remainder is below the price and total = remainder + price * earned),
`AccrueFacts` (worth grows by exactly the delta, the redeemed counter is
untouched), `RedeemFacts` (worth is kept) and `PointsGainedFacts` (the exact floor, or
one less at a whole product). It rests on `ScaleAssumption` and `ShortAssumption` alone.

`CardOperationsProofs` proves, for any number of invocations, keys, cards and any
rules, with all faults and overlaps allowed:

* `TypeCorrect`: `Spec => []TypeOK`, by `TypeInv`, which adds that an invocation past
  `ReadCard` names an existing card of its own merchant.
* `NeverMints`: `Spec => []NeverOverCredited`. The property alone is not inductive: a
  snapshot taken long ago is about to be written. `CreditInv` therefore bounds also the
  snapshots: one waiting in `accrue` or `redeem` is covered by what is credited *now*,
  one waiting to be written is covered once its own delta is added. Writing by someone
  else only raises what is credited, so no snapshot loses its cover, and the write of a
  covered snapshot keeps the card covered.
* `LegalBalances`: `Spec => []BalanceStaysLegal`, by the same device (`LegalInv`): rows
  and the snapshots in flight are legal balances.
* `AnswersAgree` and `AnswersAreApplied`: by `RecordInv`: records are unique per key
  and never change, each is backed by a write and a logged transaction of a request
  with its key and hash, and each 200 is equal to a record. An invocation that is about
  to insert a record has its write and log entry behind it.

`CardOperationsRefinementProofs` proves what needs `Isolated`, again for any number of
invocations, keys, cards, rules and any clock. Its core is `AloneInv`: no two invocations
in flight share a card or a key (`Alone`), therefore a snapshot stays equal to its row
until it is written, and what waits to be written is the outcome of the request on the row
as it is (`Current`). No property below is inductive without it. Instances may be killed
at any step, except where `Dependable` is named.

* `RedemptionsAreKept`, `BooksOfCardsBalance`: `RedeemedNeverDecreases` and `NothingLost`,
  since an UPDATE is exactly one outcome (`UpdateIsOutcome`): the bound of `NeverMints`
  becomes an equality.
* `DiscountUsedOnce`: `OneUsePerSeasonalCard` by `DiscountInv`: available and redeemed
  discounts add up to the issued ones, for a seasonal card accrues nothing
  (`SeasonalAssumption`: POST gives a seasonal campaign no mechanic, PATCH cannot).
* `WindowIsGuarded`: `FraudGuard` by `WindowInv`: an accrual that was admitted and is not
  logged yet still has room in the window. The clock only ages what is in the window;
  only the logged accrual itself adds to it, and on its card it is alone.
* `MutationAppliedOnce` (with `Dependable`): `AppliedOncePerKey` by `OnceInv`: a written
  mutation is in the hands of its invocation or its answer is on record, and a key in use
  has no record. `Dependable` is what lets no write end without a record.
* `ImplementsLedger` (with `Dependable`): `Spec => RefinesLedger`. `UpdateCard` is the
  ledger's `AccrueOnce` or `RedeemOnce`: by `Current` on the current balance, by `OnceInv`
  of a key without an answer (`UpdateAnswersKey`). Every other step leaves rows, credits
  and answers: the insert of the record swaps an answer that counted already for itself
  (`AnswersOfWrites`).

`EnrollmentProofs` proves, for any number of invocations, programs, devices and keys,
with all faults allowed:

* `TypeCorrect`: `TypeOK` is inductive as it stands.
* `DeviceHasOneCard`: a device has at most one card in a program. The dedupe lookup is
  not needed for it, the unique index is; nothing is assumed of clients.
* `AnswersMatch`: by `MatchInv`, which carries the match of a card with its request
  through the three places it waits in: the hand of an invocation past the lookup, the
  record, and the answer. A replay hands a record to a request with the same key and
  body; that it is for the same program is not checked by the code, and is the
  hypothesis `KeysStayInProgram`. `EnrollmentKeyAcrossPrograms` shows it is needed.
* `SameCard`: two answers to one device name one card, from the two above.
* `NoOrphansBehindSuccess`: by `OrphanInv`, which adds that a status is final. A step is
  `Harmless` when no orphan loses its excuse; only the two inserts and failures are not.
* `LinksResolve`: by `LinkInv`: a reference is made only after the pass was written or
  seen, waits only at `store_put`, and passes are never deleted.
* `NobodyIsEarly`: a card is of a campaign that has opened. By `OpeningInv`: a request
  past `require_active` holds a copy of the row with the window of the table's row, and
  that window has opened; the switch leaves windows alone and days only advance.
* `HoldersAreServed`: from `TypeOK` alone, since the dates are looked at after the dedupe
  lookup and no recorded answer is a 422.

`CardLedgerProofs` proves `BooksBalance`: `LedgerSpec => []LedgerBalances`, for any
cards, rules, keys and requests, from `AccrueFacts` and `RedeemFacts`: one card changes
per step, by as much as is credited to it. `SplittingBounded` proves
`SplittingIsBounded`: that n single stamps do what n at once do is an induction on n over
a recursive function (`OneByOneIsBatch`). The library's induction rule takes an operator as
its parameter, which the provers cannot instantiate; `SetInduction` states it for a set of
numbers instead, from the well-founded inclusion of finite sets, and is applied to the set
of n for which the two agree. For points `TwoPurchases` bounds what two products lose
together against their sum, for whatever set of products the floats miss.

`TenantsProofs` proves, for any number of requests, established operators, emails and
all faults, every property of the `Tenants` run, those of the accounts from one inductive
invariant `IInv`:

* `TypeCorrect`: with `Local(i)`, which says whose request waits at which call (`Fits`)
  and that an operator past `RequireOperator` is one of the tenant the request names.
* `TenantsIsolated`: by `Local`, `LoginInv` and `ProfileInv`: no step changes the tenant
  or the role of a login or profile (`Home`, `RoleAt`), so the check made once at
  `RequireOperator` still holds when the auth service is called without a tenant.
* `OnboardingAtomic`: by `TenantInv` and `Onboarding`: what an onboarding has made at
  each call, and that nobody else touches a tenant whose owner cannot yet sign in.
* `StrandedLoginsExplained` is inductive beside these. `GhostOperatorsExplained` and
  `EmailsAgree` need `GhostInv` and `EmailInv`, which name the exact call the removal or
  the edit is at instead of `Running`.
* `RemovalIsFinal`: by `Removal`, and because no edit and no reset inserts a row.
* `LimitHeldAlone`: by `Counted`: an addition that has run alone so far has read the
  plan and the number there are. `AloneInv` makes "alone" usable: two running requests
  have seen each other. The step itself is a fact about cardinalities, and the only
  place where finiteness of `profiles` (from `IsFiniteSet(Staff)`) is needed.
* `InvoicesExact`, for any numbers of cards and notifications: a total is `Money` of the
  exact amount (`TotalIsExact`), `Money` is off by half a cent at most and monotone
  (`MoneyRounds`), the amount grows with the cards (`ExactGrows`), and the platform's sum
  over one paying row is that row's total (`RevenueOfOne`, a fold over a singleton).
* `AdviceEndsAtCheapest`: a refused feature is answered with the cheapest tier that has
  it (`FirstIsCheapest`, `FeaturesChain`). A first answer need not grant the request:
  a birthday reminder is refused on starter with growth and on growth with pro
  (`tests/test_plans.py:295-303`), and five operators left by a downgrade to starter are answered with
  growth, which has no room for a sixth. `LadderEnds` says of any answers which
  name a higher tier and never pass over one that grants, that following them ends on
  the cheapest tier that grants; `ReminderAdvice` and `OperatorAdvice` apply it to both.

`ProgramsProofs` proves, for any number of requests, cards, days and bodies:

* `TypeCorrect` (no balance goes below zero): with `Accepted`, that what the till is
  about to write was accepted on the very balance it read.
* `OfferAlwaysStands`: by `GoodRow` and `Checked`. The check at `PatchRead` is of an old
  row; it carries over to the UPDATE because a percentage, once there, is never taken
  back, a PATCH of the reward checks the merged row, and the table checks the dates.
* `BillingAgrees`: from `GoodRow`, `OnlyWhileOpen` from `UsesOffer`, which carries the
  witness from the check to the answer.
* `EditsSurvive`: by `EditInv`: some sender of a written column gave it its value. It is
  stated with 504s, since a request that timed out may have written.
* `PassesUpToDate`: `PassesFollowProgram` by `PassInv`: also while requests are at work,
  what a pass or the template shows is up to date, or excused, or `Owed` by the push of a
  request that has not reached it yet; once a request is past a pass, that pass is up to
  date or excused, and a write by another request owes it again. `TemplateCellsFilled`
  carries the cells of the template over to the passes.
* `RefusalsExplained`: a row that passed the handler's check passes the table's, and
  with the dates as they were read so does the stored row, since an offer is kept
  (`OfferKept`). A refusal therefore means that a date was moved in between or that a
  number is too large for its column.

`MigrationsProofs` proves `NeverAppliedTwice` and `RecordedInOrder` for any number of
runners, files and crashes: by `Scanned` (the loop leaves only recorded files behind it)
and `KeyHeld` (an inserted, uncommitted key is new and held by one run).

The assumptions are those the modules declare: `RequestAssumption` and
`CardAssumption` (requests and rows are well-formed; no negative welcome bonus, which
the code does not check), `BoundAssumption`, `ScaleAssumption`, `ShortAssumption` (amounts and rates are positive
numbers), `LedgerAssumption`,
`CreateAssumption` (bodies are what pydantic lets through), `TemplateAssumption` (the
name of the template is no card's), `TenantsAssumption` (emails and ids of established
accounts are distinct), `SeasonalAssumption`, `UsageAssumption` (counts are natural
numbers), `LastAssumption`, `NeedsAssumption` and `FailureAssumption`. `Isolated` and
`Dependable` are hypotheses of the theorems that need them, not assumptions: the modules
are also checked where they are false.

Every invariant and action property that a passing run checks is also a theorem. Only
model-checked is liveness (`EveryWriteIsRecorded`, `EveryInvocationEnds`,
`EventuallyApplied`): reasoning about fairness needs ENABLED, which is out of TLAPS's reach.

## What is not modelled

* In `Enrollment`: personal data, the opaque token, the membership date and the
  language of the rows; deletion of programs; a wallet call that takes effect although
  its answer is lost.
* In `CardOperations`: changes of a program's rules while operations run (they are in
  `Programs`), deletion of cards, clock skew between Lambda and database, the read-only
  handlers (`resolve_scan`, `validate_access`, `list_redemptions`), the name and layout
  fields of the pass. `cards.active` is constant: no code changes it.
* In `Programs`: idempotency, the fraud guard and the log entry of operations (they are
  in `CardOperations`), several programs (nothing relates two), the occasion and the
  inactivity window, a class or a pass that does not exist yet, a program deleted under a
  request. Two more refusals of the table are left out: a text with a NUL character, and a
  balance that outgrows its `integer` column in `cards` (or a delta in `transactions`).
  The latter, as the fault it is, would be a 500 of `commit`; balances are unbounded in
  `RewardLogic` and all modules on it.
* In `Tenants`: names, stations and contact data; the single-statement edit of a
  merchant; temporary passwords beyond who set the last one; the payment provider, a stub
  that only answers. An auth call that is answered late is `AuthFails`.
* In `Migrations`: what the files do, apart from what they need; DDL locks of one file
  against another.
* The demo scripts (`seed_demo.py`, `reset_demo.py`): run by hand, one at a time, on the
  rows of one demo merchant. A crash of the seed between the auth user and its profile
  makes the next seed fail with a Conflict; this is the stranded login of `Tenants`.
* JWT verification, object-store URLs, error rendering, configuration, row-level
  security and the other read-only views, and the services that are stubs (birthday,
  notifications, cards, health): no state of their own, or none a run could reach.
* `revoke` of the wallet providers has no caller.

## Possible extensions

An abstract enrolment service (one card per device, handed out in one step) that
`Enrollment` implements, and an abstract migration history for `Migrations`, each as a
refinement proved step by step; the platform statistics for any number of subscriptions.
