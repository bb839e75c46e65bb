# Formal models of Hisabji-Server-Go

Hisabji is the Go backend of a personal-finance app: accounts and sessions, paid
plans, prepaid AI credits, and a generic layer for list queries and CRUD. It is a
stateless HTTP server over PostgreSQL and Redis. Several replicas may run at once
(`internal/infrastructure/database/migrate.go:19-23` takes an advisory lock for
that reason), so everything that must not go wrong has to be decided by the
database: row locks, unique indexes, transactions.

This directory holds TLA+ models of that behaviour, the TLC configurations that
check them on small instances, and proofs that TLAPS checks for every instance.
`PROJECT.json` lists the runs, the source lines each definition models, the
hazards in the code, the findings and the theorems.

## The system

| part | state | operations | what makes it correct |
|---|---|---|---|
| credit wallet and ledger (`billing/service.go`, `repository.go`) | `credit_wallets`, `credit_ledger` | provision, grant, spend, refund, expire | no overdraft, no credits from nowhere, purchased credits outlive the plan, ledger explains balance |
| checkout, payments, subscriptions (`billing/checkout.go`) | `payments`, `subscriptions`, snapshot on `users` | start checkout, confirm, cancel | a payment is applied once, a key buys once, paid periods neither overlap nor shrink |
| feature gate (`billing/gate.go`) | none of its own | require a feature, spend, refund | a refused check never costs, an admitted one is checked again under the lock |
| maintenance jobs (`billing/checkout.go:343-430`) | the list a run read | expire ended plans, refill allowances | every lapse noticed, every due refill made, once, on the monthly grid |
| registration (`auth/service.go:62-113`) | `users`, wallet | create user and wallet in one commit | a registered user has a wallet |
| sessions (`auth/service.go`, `middleware/auth.go`) | `sessions`, Redis denylist | log in, rotate, log out, change password | one live session per family, reuse revokes, a signed-out device stays out |
| one-time codes (`auth/service.go:695`, `auth/repository.go:191-310`) | `otp_codes` | quota check, save, verify, consume | one live code, used once, bounded guesses, an older code never works beside a newer one |
| login lockout (`auth/service.go`, `auth/repository.go:135`) | counters on `users` | fail, succeed, reset, rehash | no guess of a burst is lost, the lock starts at the limit and ends |
| transaction runner, pool (`core/txn`, `database/postgres.go`) | connections | begin, retry, commit, roll back | effects at most once, an answer that is true, nothing leaks, nobody waits for himself |
| rate limiter (`middleware/rate_limit.go`) | two counters in Redis | judge a request | at most the limit per sliding window, headers that keep their promise |
| migrations (`database/migrate.go`) | `schema_migrations`, advisory lock | lock, load, compare, apply in order | each file once, in order, resumable; a replica serves only its own schema |
| application lifecycle (`app`, `cmd/api`) | server state | start, serve, drain, stop | a start ends, a stop ends |
| user account (`module/user`) | `users` | profile, username, delete | a username has one owner, a deleted user is out |
| list queries (`core/query`) | none | parse, coerce, filter, sort | a reader sees his own rows; a filter and its opposite share them; dates are whole days |
| generic repository and CRUD handler (`core/repository`, `core/handler`) | the module's table | list, count, get, insert, update, delete | pages add up to the result, totals agree with them |
| money (`core/money`) | none | add, divide, split, parse | exact or refused |

How they interact: registration calls billing's provisioning inside its own
transaction; login asks billing for the plan's device limit; every AI request
passes the gate, which reads the entitlement (and heals a missing wallet), then
spends, then may refund; confirmation of a payment writes payment, subscription,
wallet and the user's plan snapshot in one transaction; the jobs read a list
outside any transaction and then open one transaction per row. No component talks
to another by messages; they meet in database rows.

What is hard to test: what happens between a read outside a transaction and the
transaction that relies on it (checkout, cancel, healing, both jobs), two writers
of the same wallet, a confirmation repeated by a provider or a retry racing the
original, the time between the end of a period and the job that notices it, and
rows a job skips. In sessions and one-time codes it is the same: what a request
read before its transaction, and which rows a statement's snapshot shows while
another request inserts one. In the transaction runner it is a commit whose answer
is lost, a deadlock, and a pool that is empty; in the deployment, a crash or a
timeout at any statement of a start while another release migrates; in the rate
limiter, requests judged in another order than they were stamped, and an outage
between counting and answering; in the list endpoint, writes between the page and
its count. `PROJECT.json` lists these under `hazards`, with their lines.

Not in the repository yet: the AI handlers and the scheduler of the jobs. The
models use them as the documentation announces them: handlers call
`Gate.Require`, `SpendFor` and `Refund` (`docs/api/07-not-implemented.md`), the
jobs run daily (`docs/api/05-billing.md:750-765`, `07-not-implemented.md:131-146`).

## Modules

| module | what it is |
|---|---|
| `CreditWallet` | the account of one user: every operation as a function from an account to an account |
| `Billing` | the billing state machine: users, accounts, payments, subscriptions, clients, AI requests, job workers |
| `TwoBucketWallet` | the abstract specification: how two buckets of credits may move at all |
| `MCBilling` | the catalogue TLC uses |
| `BillingClaims` | statements of the code's comments and documents that the code does not keep |
| `BillingProofs` | every operation of the account keeps it in order; the inductive invariant of `Billing`, its preservation step by step; `Billing` implements `TwoBucketWallet` |
| `PaymentProofs` | payments, the periods they buy, and what a plan gives |
| `Sessions` | the sign-ins of one user: `sessions`, access tokens, the denylist in Redis |
| `DeviceLife` | the abstract specification: a sign-in is in until it is out, and out for good |
| `MCSessions` | the symmetry TLC uses |
| `SessionsProofs` | the inductive invariants of `Sessions`, eight theorems, the refinement of `DeviceLife` among them |
| `Accounts` | the account behind a phone number: registration, one-time codes, passwords, lockout, rehash, closing |
| `CodeLife` | the abstract specification of a one-time code |
| `MCAccounts` | the symmetry TLC uses |
| `AccountsProofs` | the inductive invariant of `Accounts`, five theorems, the refinement of `CodeLife` among them |
| `Txn` | the transaction runner on a pool of connections and rows with locks |
| `MCTxn` | the transactions TLC runs against each other |
| `TxnProofs` | the inductive invariant of `Txn`, three theorems |
| `RateLimiter` | one bucket of the sliding-window limiter, its two counters in Redis |
| `MCRateLimiter` | the symmetry TLC uses |
| `RateLimiterProofs` | what the headers promise is kept, and nobody gets a burst |
| `Deploy` | the life of the API's containers: connect, migrate under a lock, serve, drain, restart |
| `MCDeploy` | the three releases TLC deploys side by side |
| `DeployProofs` | the inductive invariant of `Deploy`, three theorems |
| `QueryParse` | the parameters of a list request and the condition they make, as operators |
| `ListQuery` | the list endpoint: a walk through pages while rows are written |
| `MCListQuery` | the table and the requests TLC uses |
| `ListQueryProofs` | the inductive invariants of `ListQuery`, five theorems |

### CreditWallet

An account is the `credit_wallets` row of a user (the two balances, the lifetime
counters, `month_spent` with the month it belongs to) plus `sum`, the sum of the
deltas of the user's `credit_ledger` rows. `ApplyWallet` is
`Repository.ApplyWallet`, the only writer: balances are overwritten, counters
incremented, and the first write of a month restarts the monthly usage.
`ProvisionNewUser`, `Debit` (the body of `Service.Spend`), `RefundCredits`,
`Grant` and `ExpireAllowance` are the service functions. The code locks the row
before it computes, so a function of the current account is what a transaction does.

The `CHECK (... >= 0)` constraints of `credit_wallets` are left out on purpose:
`NoOverdraft` then says the code never needs them.

### Billing

One step is one committed transaction, or one read outside a transaction whose
result is used later. A transaction that fails rolls back and is no step. The
reads that matter have a place to be remembered:

| variable | code |
|---|---|
| `now` | the database clock, in months; all steps between two ticks share the instant |
| `user` | `users.plan_code`, `plan_expires_at`; `NoRow` before registration |
| `account` | wallet and ledger of each user |
| `payment` | `payments`: pending or paid (no code writes the other statuses) |
| `sub` | `subscriptions`, named by the payment that created the row |
| `op` | a client's checkout between key lookup and insert, or a cancel between lookup and update |
| `request` | an AI call: healing a missing wallet, admitted, or charged |
| `job` | the due list a worker works through |
| `applied` | history variable: how often each payment was applied |

| action | code |
|---|---|
| `Register` | the transaction of `auth.Service.Register` |
| `StartSubscriptionCheckout`, `StartPackCheckout` | the checks before `startCheckout` |
| `FindPaymentByIdempotencyKey`, `CreatePayment` | `startCheckout` and the unique index on keys |
| `ConfirmPayment` | `Service.ConfirmPayment` with `activateSubscription` or `creditPack`, and the unique indexes on provider references and active subscriptions |
| `LookUpForCancel`, `CancelSubscription` | `Service.CancelSubscription` |
| `MeetMissingWallet`, `HealWallet` | the self-healing branch of `Service.Entitlement` |
| `CheckAccess`, `Spend`, `RefuseSpend`, `Refund`, `EndRequest` | gate and AI handler |
| `ListDueForExpiry`, `ExpireDueSubscription` | `ExpireDueSubscriptions` |
| `ListDueForGrant`, `GrantDueAllowance` | `GrantDueAllowances` |
| `DropRow`, `DropClient` | a row whose transaction failed, a request that timed out, a process that stopped |

Abstractions. `SERIALIZABLE` and locked-row transactions are one step. The expiry
job runs READ COMMITTED, but its statements touch only the row and the wallet it
locks, so one step is still what it does. `CheckAccess` makes three reads that the
model takes together: being admitted decides nothing, since `Spend` reads and
checks again. Prices, currencies, trial columns, `auto_renew` and wording are left
out; `MarkPaymentFailed` has no caller. A subscription lasts a whole number of
months and the clock moves by months: days only matter to the code in comparisons
with `now()`, and equality at the boundary is kept (`ends_at <= now()` is due,
`ends_at > now()` is live). A job lists at most `BatchSize` rows, the earliest
first and equal dates in any order (`Batches`, the `ORDER BY ... LIMIT` of
`repository.go:154-177`). `PacksOnSale` are the packs with `is_active`.

### TwoBucketWallet and the refinement

`TwoBucketWallet` says what a user of the wallet may rely on: credits are spent
from the allowance first, an allowance may be refilled or vanish, purchased
credits change only by being bought, refunded or used. `Billing!TwoBuckets` is its
specification under the mapping that projects balances and usage out of
`account`; run `billing_wallets` checks that every step of the billing module is
such a move, or moves nothing, and `BillingProofs` proves it for every instance
in which all users are registered with a wallet. For users from before wallets it
is false (the heal race below), so the run has none and the theorem says so.

### Sessions

A row of `sessions` is one pair of tokens; `row[s].family` is the first session of
its sign-in, which is how a family gets its id in the code.

| variable | code |
|---|---|
| `now` | the database clock; a transaction that writes instants advances it, so no two rows share one |
| `row` | `sessions`: absent, live or revoked, its family, `created_at` |
| `issued` | `iat` of the session's access token, in seconds |
| `account`, `changedAt` | `users.status` and `password_changed_at` |
| `spared` | history: the sign-ins that outlived the last change or reset of the password, that of the session it was made with and those with a refresh beside it |
| `denied` | Redis `auth:revoked:session:*`: when the entry disappears |
| `cutoff` | Redis `auth:revoked:user:*`: its second, and when it disappears |
| `op` | what a request has read so far and does next |

| action | code |
|---|---|
| `Login`, `CreateSession`, `TrimSessions`, `StartSession` | `Login` or `VerifyPhone`, then `startSession` with its insert, the trim's snapshot and the commit |
| `Refresh`, `OpenRotation`, `RotateSession` | `Refresh`: the read, then the transaction that revokes the old row and inserts the new one |
| `RefreshReused`, `BurnFails` | `Refresh` with a revoked token, and the branch where revoking the family failed |
| `ChangePassword`, `ResetPassword`, `DeleteAccount`, `LogoutAll` | the operations that end many sessions; `SweepRows` and `CommitSweep` are their statement and commit, `ReadCutoff` and `RevokeAllForUser` the write to Redis that follows |
| `Logout`, `LogoutByToken`, `RevokeSession`, `EndSession`, `DenySession` | ending one session: found, revoked in the table, denied in Redis |
| `Abort` | a rollback, a write Redis refuses, a process that stops |

Abstractions. These transactions run READ COMMITTED. An `UPDATE` that ranges over
rows nobody has locked is two steps, the rows its snapshot shows and the commit; an
`UPDATE` of one row by id is one step, since it waits for the row and looks at it
again. The writers of `users` wait for each other as the row lock makes them. The
token is signed in memory right after the commit, so the model gives it the instant
of the commit. There is one user, so the check that a session belongs to its caller
has nothing to tell apart. The device limit of the plan is a constant. A read of
Redis always answers: during an outage the middleware lets every unexpired token
pass, as its comment says, and `RefusedStaysRefused` speaks of the time without one.
A write may fail. A sweep that PostgreSQL aborts as a deadlock is retried by
`txn.Run`, which is an `Abort` and a new request here. What Redis does with a key is
an instant at which it is gone. `TouchSession` sets `last_used_at` only in the
transaction that inserts the row, to the same `now()`, so it is `created_at`.

`DeviceLife` knows no rows and no tokens. A sign-in is `new`, `in` or `out`;
`Sessions!DeviceSpec` maps a family to `in` while it has a live row and to `out`
when it has only revoked ones. The refinement says that no step, however its
request interleaves with others, brings a family back.

### Accounts

One phone number, and every way to prove it is yours. A step is one SQL statement
(or a transaction on a row it has locked); `op` says where the request of each
client stands, so that requests interleave between their statements. The slot of a
client also carries the goroutine that a login leaves behind.

| variable | code |
|---|---|
| `user` | the `users` row: `status`, `phone_verified_at`, the password and whether its hash has an old cost, `failed_login_count`, `locked_until` |
| `code` | `otp_codes`: live, used or void, its purpose, `created_at`, attempts; `saved` (when its transaction committed) and `guessed` are history |
| `signedIn` | whether a session was ever started (`Sessions` has the rest) |
| `wrong` | history: the wrong passwords recorded since the counter was cleared |
| `op`, `requests` | what each request has read and does next; how many there were |

| action | code |
|---|---|
| `Register`, `RequestCode` | `Register`, `ResendOTP`, `ForgotPassword`, up to the call of `issueOTP` |
| `CheckQuota`, `SaveOTPBegin`, `SaveOTPCommit` | `issueOTP`: cooldown (passed as well when its read fails) and window quota, then `SaveOTP` with the rows its first statement sees and its commit |
| `VerifyPhone`, `ResetPassword` | `ConsumeOTP` for either purpose: the newest live code, the attempt, the burn |
| `MarkPhoneVerified`, `StartSession` | what follows a right registration code |
| `Login`, `RecordLoginFailure`, `RecordLoginSuccess`, `RehashPassword` | `Login` with the writes that come after its read, and `rehashPassword` |
| `ChangePassword`, `UpdatePassword` | the check of the current password, then the update, which a reset shares |
| `DeleteAccount`, `SoftDelete` | closing the account, with the width of `users.phone` |
| `RaiseBcryptCost`, `DropRequest` | a new configuration; a request that ends early |

Codes are model values, so a code is guessed by naming it, and `None` is a guess
that is no code. Suspended accounts (refused like closed ones), the audit rows of
`LogAttempt` and `RequirePhoneVerify = FALSE` are left out. A statement that waits
for a row lock and then finds its row gone changes nothing and is no step.

`CodeLife` is what a code promises: sent once, good for one use and `MaxTries`
guesses, dead for good once used or withdrawn. `CodeSpec` is its specification
under the mapping that counts real comparisons (`guessed`), not the attempts
column, so a lost update of that column would break it.

### Txn

`txn.Run` and `RunSerializable` on a pool. What a request does inside its
transaction is a constant: a script of the rows it locks, in order, and of the
places where it asks the pool for a second connection. `MCTxn` has the scripts of
the code: confirmation (`checkout.go:211-242`; serializable) and expiry
(`checkout.go:352-366`) write the subscription and then the wallet; a refill
(`checkout.go:405-418`; serializable) the wallet and then the subscription; a
sign-in writes a session row nobody else waits for, asks for a connection to read
the device limit, and then revokes the user's oldest sessions
(`auth/service.go:620-631`).

| variable | code |
|---|---|
| `phase`, `pc`, `attempt` | where `Run`'s loop and the function inside it stand |
| `owner`, `inUse` | row locks in PostgreSQL, connections taken from the pool |
| `committed` | history: how often the effects were committed |
| `answer` | the error class the caller gets, after `Translate` |

`Begin`, `LockRow`, `AskConnection`, `ReturnConnection`, `Commit` are the loop's
progress. `Deadlocked` is PostgreSQL's deadlock detector, `SerializationFails` a
40001, `Fail` any other error, a cancelled context or a panic; `CommitUnheard` is a
commit the server has made and whose answer is lost; `GiveUpOutside` a context that
ends in the queue for a connection or between attempts. Errors are SQLSTATEs and
the few Go errors that `isRetryable` and `Translate` tell apart.

### RateLimiter

One bucket: one rule for one caller. `stamp` is the time the server gave a request,
before Redis judges it; `key` the counters of the slots and their expiry; `through`
and `header` are history (what was let through at which stamp, what the last answer
promised). `Check` is the Lua script and the handler's answer, `CheckUnreachable`
and `CheckUnheard` an outage before and after the count. The script's fractions are
multiplied out, so the model is exact where the script uses floating point. `Reset`
(no caller), a disabled limiter and clocks that disagree between replicas are left
out.

### Deploy

Replicas of several releases start, serve and stop on one database.

| action | code |
|---|---|
| `Open`, `Serve` | `database.Open`, then `OpenRedis`, router and `ListenAndServe` |
| `AdvisoryLock`, `LoadApplied`, `Compare`, `ApplyOne`, `Migrated` | `migrate.go`: `Run`'s lock, the legacy check and `loadApplied`, the checksum, one file in one transaction with its record, unlock |
| `LockWaitTimesOut` | `pg_advisory_lock` is a statement, and `statement_timeout` (`postgres.go:46-48`) ends its wait |
| `BootInterrupted`, `Crash`, `SessionEnds` | a failing or timed-out statement, SIGTERM while booting; the process dies; PostgreSQL notices |
| `Request`, `Respond`, `Acquire`, `Return` | requests, and the connections that they and the goroutines they leave behind take and give back |
| `Signal`, `ServerFails`, `Drained`, `ShutdownTimeout` | SIGTERM; a listener that fails (`main.go:83-109`); `server.Shutdown`, its deadline |
| `Closed` | the deferred `application.Close` (`main.go:48`, `app.go:140`): the pool gives out no more connections and waits for those that are out |
| `Outage`, `Recover` | PostgreSQL or Redis out of reach |

A migration file is its number and a checksum; `ran` counts the commits of its
body. Versions are counted from 1 without gaps: a file inserted below one that is
on record, which `listMigrations` would sort in, cannot be expressed. The work of a
serving replica is a number of requests, which may hang, and a number of
connections. `server.Shutdown` does not wait for the goroutines a request leaves
behind (`user/service.go:94`, `auth/service.go:295`), but the closing of the pool
waits for their connections. `AutoMigrate` is on.

### QueryParse and ListQuery

`QueryParse` translates `core/query/parse.go`, `schema.go`, `apply.go` and
`builder.go` for a schema of its own, with one column of each kind the code treats
differently:
which operators a column allows, how a value is coerced (`ParseAmount`,
`parseDate`, with 64-bit wrap-around scaled down to `MaxInt`), which parameters are
refused, and the condition and order the statement gets, with SQL's three-valued
NULL. A parameter is a record of what was sent, and `Bad` is text that does not
parse or is too long; characters, and the shortest search the parser accepts, are
not modelled. No sortable column of the schema is nullable, so `NULLS LAST` has
nothing to order.

`ListQuery` puts it to work: a reader asks (`Ask`, `Refuse`), gets a page in one
statement (`Select`), its count in another (`Count`), goes on (`NextPage`), while
`Insert`, `Update`, `Delete` and `DeleteMany` write, scoped as `base.go` scopes
them. The order of ties is left to the database, so `Select` may pick any. Only the
first request is refused or parsed; the next pages keep its options.

## Runs

All passing runs keep deadlock checking off: a system at the last instant whose
users have used, bought or opened everything the bounds allow really may stop.

| run | instance | checks |
|---|---|---|
| `billing_purchases` | 1 user, 1 client, 1 job worker, 3 payments, plans of 1 and 3 months with and without rollover and a pack, 5 months | `TypeOK`, `AppliedOnce`, `PeriodsDisjoint`, `AllowanceNeedsPlan`, `PlanSnapshot`, `RefillSchedule`, `PaidTimeKept` |
| `billing_wallets` | 1 user, 2 AI requests racing with purchases, refills and expiries | `NoOverdraft`, `CreditsAccounted`, `TwoBuckets` |
| `billing_retries` | 2 clients, 1 key, provider references, an AI request, and a user whose wallet must be healed | `OnePaymentPerKey` |
| `billing_live` | 2 users, 2 payments, lists of one row, fair jobs and confirmations, 3 months | `PaymentSettles`, `LapseIsNoticed`, `RefillIsMade` |
| `sessions_races` | 2 requests at a time, 3 sessions, 4 instants within one second | `OneLivePerFamily`, `NoSessionAcrossChange`, `DeviceSpec` |
| `sessions_serial` | 1 request at a time, 3 sessions, 2 devices, 7 instants of half a second | `TypeOK`, `DeviceLimit`, `OldestGo`, `RefusedStaysRefused` |
| `accounts` | 2 clients, 5 requests, 3 codes, quota 1 per window of 2, 2 guesses, 2 login attempts, 3 instants | `VerifiedByCode`, `QuotaHolds`, `SupersededDead`, `BurstLocks`, `CodeSpec` |
| `txn_runs` | an expiry, a refill and 2 sign-ins on 2 connections, 2 attempts | `AnswerTruthful`, `NothingLeaks`, `EveryRequestEnds` |
| `rate_limiter` | limit 3 per window of 3 ticks, 2 callers at a time, calls delayed by a tick, outages, 7 ticks | `NoBurst`, `HeadersHonest` |
| `deploy` | an old, a new and an edited release side by side, 1 request and 1 connection each, 2 faults, with and without a legacy database | `OnAVersion`, `ServesItsSchema`, `FailsForCause`, `NothingHangs` |
| `list_query` | 4 rows of 2 users with ties, NULLs and two days, 36 requests | `OwnRowsOnly`, `WalkComplete`, `TotalHonest`, `OppositesSplit`, `RangesCoverDays` |

What the runs of sessions show: whatever two requests do between each other's steps,
a family has one live session, and who signed in before a change or reset of the
password gets no session after it, with two exceptions that the property names. One
is the session a change is made with; the other a refresh beside the change, whose
successor the sweep does not see. A sign-in that commits beside the change, and
that the sweep misses as well, is not excepted: its next refresh is refused.

What the newer runs show. `accounts`: no interleaving of guesses gives a code a
third guess or a second use, no number is verified without a registration code
having been entered, an older code never works beside one sent after it was saved,
and parallel wrong passwords are all counted. The quota may be passed by the
requests that had passed its check (`QuotaHolds` says by how many), since check and
insert are two statements. `txn_runs`: a refill (wallet first) and an expiry or a
confirmation (subscription first) deadlock, one is retried, and both end; the one
way not to end is that each connection is held by a sign-in that waits for a second
one (`Starved`), and the run reaches it; whatever is lost, a caller who is told of
success or of a definite cause is told the truth. `rate_limiter`: the
sliding window lets through the limit, what the interval earns, and no more than
one request per concurrent caller beyond. `deploy`: a crash, timeout or outage at
any statement leaves the database on a version. Replicas that start together can
fail each other in two ways, both in the run: by a wait for the advisory lock that
`statement_timeout` ends, and by a file that another release has recorded with
another checksum. What the lock rules out is a failure for what is recorded while a
start waits or works, a duplicate key or a change where there is none
(`FailsForCause`). Every start ends, and so does every stop, although requests may
hang: it is the connections that have to come back. `list_query`: a walk with a sort
that ends in the primary key misses nothing and repeats nothing.

The bounds. `Payments` is the number of checkouts ever made; three are enough for
a purchase, an extension of it, and a purchase after or instead of that, the
longest chain `activateSubscription` distinguishes. `MaxTime` leaves room for a
three-month plan to be refilled twice, extended and to lapse. `MaxUsed` bounds what a
user ever spends: enough to empty an allowance and reach into purchased credits.
`MonthlySpendCap` is small enough to be hit. Two requests, two clients or two
workers are what every race in the code needs; the invariants quantify over one
or two rows. In `billing_retries` time stands still, because its question is the
order of lookup and insert; the user there has no wallet at first, so that healing
interleaves with purchases. In `billing_live` two users may each have a row due in a
list that holds one, so that a row which fails makes the other wait for the next
list; both are registered from the start, and three months let a plan be refilled
and lapse.

For sessions, three rows are a family with a predecessor, its current session and a
rival, and one more than the device limit. Each run takes the time scale its
question needs. In `sessions_races` everything happens within a second, because
order and not expiry is its question. In `sessions_serial` a token lives one second
and has one of leeway, a denylist entry one second of margin, and a session row two
and a half seconds, so that all of them begin and end within the run. The code's
margin (a minute) is twice its leeway; the run takes the smallest margin that can be
right. That run has one request at a time (of several steps, any of which may
fail): with two, sign-ins exceed the device limit and sweeps miss rows, as the next
section tells, and a cutoff computed by one request may overwrite a later one of
another, because computing and sending it are two steps. `NoSessionAcrossChange` is
about what overlaps and is checked in `sessions_races`: four instants are a sign-in,
a change, and a refresh after it, and one more. The proofs go further than
the run: they say for any number of requests which two of them must not overlap.

In `accounts` two clients are what its races need (two issues, two guesses, a login
beside another), three codes are one more than two concurrent issues, and a code
outlives the window, so that the quota, not the expiry, decides. `MaxRequests` is
what it takes to register, have a code replaced and guess twice, or to be locked out
and verified. There is one password: the properties compare guesses with it
(`None` is a wrong one), not passwords with each other. `PhoneColumn` has its real
width, so closing an account always fails there, as it does in the code (below).

In `txn_runs` there are as many connections as sign-ins, so that they can starve each
other, and fewer than requests, so that the pool is a resource to wait for. Rows are
taken in both orders, so that the detector has work to do; a confirmation takes them
in the expiry's and differs from it in its isolation, which the refill shares, so the
run leaves it out. Two attempts are one retry and its limit; `Failures` are one error
after which nobody knows what the server did, and one after which PostgreSQL has
rolled back. In `rate_limiter` seven ticks are two
whole windows and the start of a third; the limit and the window are both three, so
that fractions of the previous slot matter. In `deploy` two faults are a crash
during the recovery from another; one request and one connection of a replica are
enough for either to outlive the shutdown. In `list_query` a page size of one or two makes
walks of up to three pages, and `MaxInt` is small enough for a large page number to
overflow the offset.

Each property also has a mutant of the code that TLC finds to violate it
(`PROJECT.json`, `mutants`; the mutated operators are marked `Mutant` in the
modules and used nowhere else).

`billing_purchases` has a single job worker: with two, or a run that starts while
another still holds a list, both refill the same month and one downgrades what the
other has seen bought again (below), and the properties that depend on it fail.

### Fairness

`LiveSpec` assumes that the scheduler keeps running both jobs, that a worker does
not drop every row every time (strong fairness of listing and of the row
transactions), and that the provider keeps repeating a confirmation until it
succeeds. The first is an assumption about a scheduler that does not exist yet;
the second is what the loops do (an error is logged and the next row taken, the
row comes back in the next list); the third is what payment providers do with
webhooks. That no row is dropped for ever matters beyond the row: the lists are cut at
a batch, oldest first, so a batch full of rows that fail every time would keep all
later ones from being listed (`checkout.go:343-386`); the code has no answer to that.
Nothing is assumed of clients, of AI requests, or of the clock, so a
liveness property holds even if time stands still.

`Txn!LiveSpec` assumes that a request which can go on does (its goroutine runs, the
pool is first come first served, a commit frees its locks) and that PostgreSQL
looks for deadlocks. No failure, hang-up or timeout is assumed: `EveryRequestEnds`
must hold without them, but for the starvation it names, which only they can end.

`Deploy!LiveSpec` assumes that the container is started again (`restart:
unless-stopped` in `docker-compose.yml`), that a start goes on, that PostgreSQL
grants an advisory lock that is free again and again (it queues the waiters) and
notices a lost client, that the shutdown timeout fires, and that outages end. It
does not assume that a request is ever answered, but that a connection comes back:
its statement is answered, cancelled with its request (`server.Close` cancels those
that are left) or ended by `statement_timeout` (15 s), which also ends the statements
of goroutines that outlive their request. What waits for another connection while it
holds one fails then, since a pool that is being closed gives out none. Faults are bounded by
`MaxFaults`: a database that fails for ever lets no start succeed.

## What the runs found

One statement of the repository is run against the model: `BillingClaims` states
it as a property and TLC finds a shortest behaviour that breaks it.

| run | the statement | what the code does |
|---|---|---|
| `claim_activation` | `checkout.go:47-50`: the check keeps money from moving for a purchase the index refuses | between a plan's end and the expiry job, a checkout is accepted whose confirmation fails |

Other places where words and code part. The models contain the behaviour of the
modelled parts, but no run is spent on a statement about it.

Billing:

- `service.go:9` and `004_billing.sql:253` have balance and history agree; a refill
  without rollover discards the leftover allowance, but its ledger row carries the
  full grant (`service.go:443`, `456`; `Grant`).
- `004_billing.sql:226` has purchased credits never expire; healing a wallet that was
  missing a moment ago overwrites what a purchase has put there (`service.go:118`;
  `HealWallet`).
- `checkout.go:88` promises a retried request the original payment; once a
  subscription payment is confirmed, the retry is refused as already subscribed
  before its key is looked up (`StartSubscriptionCheckout`).
- `service.go:342` speaks of this month's usage limit; `month_spent` is reset only by
  the next write, which a refused spend never makes (`Affordable`, `ApplyWallet`).
- `checkout.go:224` counts 11 refills of a 12-month plan, `checkout.go:342` downgrades
  ended subscriptions: with two job runs at a time (two replicas, or a run that
  outlives its interval) a month is refilled twice, and a user who has bought again
  is downgraded from an old list (`GrantDueAllowance`, `ExpireDueSubscription`).

Sessions:

- `docs/api/03-auth.md:547` has the current session survive a password change; its
  row stays, but it is older than the change and its next refresh is refused
  (`auth/service.go:361`; `MayRefresh`). `NoSessionAcrossChange` would hold as well if
  the code let it refresh: the property excepts that session.
- `auth/service.go:583` and `repository.go:380` have every session go; a rotation
  under way inserts its successor after the statement has seen its rows
  (`auth/repository.go:394`; `SweepRows`). The successor is newer than the change, so
  it goes on being refreshed: it is the second exception of `NoSessionAcrossChange`.
- `auth/repository.go:411` enforces the device limit; two sign-ins at once do not
  see each other's row and both stay (`TrimSessions`).
- `middleware/auth.go:28` has a password change write the denylist; it does not
  (`AfterSweep`), and the other devices' access tokens last until they expire.
- `auth/service.go:314` has a reused token sign every device out; one family goes
  (`Swept`).
- `middleware/auth.go:224` invalidates every token issued before now; tokens of the
  cutoff's own second are accepted (`CutOff`).
- `auth/service.go:381` has a logout end the current session; when it sends a
  refresh token that was already rotated, or one of another sign-in, the session is
  denied in Redis and its row stays live (`LogoutByToken`).

Codes, passwords and accounts:

- `docs/api/04-users.md` shows an account being closed; the number, `.deleted.` and
  ten digits are thirty characters for `users.phone varchar(20)`
  (`user/repository.go:139`, `migrations/001:48`), so the transaction always fails
  (`SoftDelete`).
- `rehashPassword` runs after the answer and writes the hash of the password its
  login has checked, over one that was changed meanwhile (`auth/service.go:292`;
  `RehashPassword`).
- Two codes requested at the same time both stay live: neither statement of `SaveOTP`
  sees the other's row (`auth/repository.go:215`); `SupersededDead` speaks of codes
  that were saved before the other was begun.
- A login that succeeds clears a lock that was set while it was under way, and a lock
  that has ended leaves the counter where it was, so the next wrong password locks
  again at once (`RecordLoginSuccess`, `Counted`).
- The code of a password reset is used up before the password is written; when that
  fails, the user needs another one (`auth/service.go:564`; `UpdatePassword`,
  `DropRequest`).
- `auth/service.go:697` ignores an error of the read behind the cooldown, so a code
  may be sent within it; the window quota still counts (`MayIssue`).

Transactions and connections:

- `billing/service.go:108-109` says never to call it while holding a lock;
  `startSession` asks for the plan's device limit on a second connection inside its
  transaction (`auth/service.go:626`). As many sign-ins as the pool has connections
  wait for each other until one hangs up (`AskConnection`); it is the only way for
  `EveryRequestEnds` to let a request not end.
- `migrate.go:19-23` has replicas wait for each other; the wait is a statement and no
  longer than `statement_timeout` (`LockWaitTimesOut`), so behind a long migration a
  start fails and its container tries again.
- `main.go:119-120` gives requests the shutdown timeout; the closing of the pool that
  follows has none (`Closed`), and waits for every connection that is out.

Lists and money:

- `sort=amount` is given no tie-breaker (`schema.go:106-107` asks for a unique one in
  the default sort only), so pages may repeat or miss rows with equal amounts;
  `WalkComplete` speaks of sorts that contain the key.
- With `with_total=false` the total is -1 and `has_next` always false.
- `[lt]` and `[gt]` with a date on a timestamp column both include that whole day.
- A page number near the largest integer overflows the offset, and the first page
  comes back (`Offset`).
- `base.go` documents its owner scope as unconditional; `newBuilder` leaves it out
  when the owner id is empty. `BuildCount` ignores `DISTINCT`. Neither has a caller.
- `money.Parse` reads a lone dot as zero and wraps around silently; `DivInt` rounds
  away from the nearest for a negative divisor.
- A search longer than 200 bytes is cut there, perhaps inside a character; dates are
  parsed in UTC whatever the user's time zone.

## Proofs

All proofs hold for every set of users, clients, workers, payments, keys, plans,
packs, features, sessions, codes, requests, rows, connections, replicas and
releases, every price, lifetime and limit, every window and page size, and every
number of months. Where a property is false of some run, the table says which runs
it is proved of (*if* ...), in terms of what is under way at once and never of how
many there are. The proofs rest on the assumptions on the constants, which TLC
evaluates in the runs of their module. `WalletAssumption`, `BillingAssumption`,
`SessionsAssumption`, `AccountsAssumption`, `TxnAssumption`,
`RateLimiterAssumption`, `DeployAssumption`, `QueryParseAssumption` and
`ListQueryAssumption` say that amounts and durations are natural numbers, limits are
positive, the values standing for "no row", "idle", "nobody" and NULL are not rows,
requests, checksums, numbers or texts, that the clients of accounts, the callers of
a bucket (at least one), the requests on a pool and the ids of a table are finitely
many, that a row carries its id, and that a table has no more rows than an integer
can count. `SortsAssumption` says that what `parseSort` keeps are sortable columns;
that is what its loop does (`query/parse.go:509-522`), but the loop is a fold, and
nothing about a fold can be proved by induction here, so TLC evaluates it for the
requests of the run.

| theorem | establishes | argument |
|---|---|---|
| `TypeCorrect` | `[]TypeOK` | part of `IInv` |
| `NeverOverdrawn` | `[]NoOverdraft` | from `AccountsSound` |
| `AllCreditsAccounted` | `[]CreditsAccounted` | from `AccountsSound` |
| `OneActiveSubscription` | `[]OneActive` | part of `IInv` |
| `PaymentsAppliedOnce` | `[]AppliedOnce` | inductive relative to `IInv` |
| `KeysBuyOnce` | `[]OnePaymentPerKey` | inductive relative to `IInv` |
| `PaidPeriodsDisjoint` | `[]PeriodsDisjoint` | from `PeriodInv` |
| `PaidTimeIsKept` | `PaidTimeKept` | every step, from `PeriodInv` |
| `RefillsOnSchedule` | `[]RefillSchedule`, if `[]UsersApart` | part of `PlanInv` |
| `SnapshotsTrue` | `[]PlanSnapshot`, if `[]UsersApart` | part of `PlanInv` |
| `AllowancesOfPlans` | `[]AllowanceNeedsPlan`, if `[]UsersApart` | part of `PlanInv` |
| `CreditsAreTwoBuckets` | `TwoBuckets`, if `LegacyUsers = {}` | every step of `Billing` is a step of `TwoBucketWallet` or leaves it alone |
| `SessionsTyped` | `[]TypeOK` of `Sessions` | part of its `IInv` |
| `OneSuccessor` | `[]OneLivePerFamily` | part of its `IInv` |
| `SignedOutForGood` | `DeviceSpec` | every step of `Sessions` is a step of `DeviceLife` or leaves it alone |
| `DevicesLimited` | `[]DeviceLimit`, if `[]SignInsApart` | from `SignInInv` |
| `OldestAreTrimmed` | `OldestGo`, if `[]SignInsApart` | every step, from `SignInInv` |
| `NothingAcrossChange` | `[]NoSessionAcrossChange` | part of `AcrossInv` |
| `RevivedByOlderCutoffs` | `OlderCutoffsRevive`, if `Leeway <= Margin` | every step, from `TokenInv` |
| `TakenBackForGood` | `RefusedStaysRefused`, if `[]CutoffsApart` and `Leeway <= Margin` | from the last: cutoffs are sent in their order |
| `CodesLive` | `CodeSpec` | every step of `Accounts` is a step of `CodeLife` or leaves it alone |
| `OldCodesDead` | `[]SupersededDead` | part of `CodesInOrder` |
| `GuessesLock` | `[]BurstLocks` | part of `FailuresCounted` |
| `NumberProven` | `[]VerifiedByCode` | from `TypeOK` and `Proven` |
| `QuotaIsKept` | `[]QuotaHolds` | from `QuotaInv` |
| `TxnProofs!TypeCorrect` | `[]TypeOK` of `Txn` | part of its `IInv` |
| `TruthTold` | `[]AnswerTruthful` | part of its `IInv` |
| `NothingIsLeaked` | `[]NothingLeaks` | part of its `IInv` |
| `OnAVersionAlways` | `[]OnAVersion` | part of its `IInv` |
| `ServedSchema` | `[]ServesItsSchema` | from `OnRecord` |
| `DeploysApart` | `[]FailsForCause` | part of its `IInv` (`HasCause`) |
| `LimiterTyped` | `[]TypeOK` of `RateLimiter` | part of `HeaderInv` |
| `HeadersAreHonest` | `HeadersHonest` | every step, from `HeaderInv` |
| `NoBurstEver` | `[]NoBurst`, if `~FailOpen` and `SoonOver` | from `BurstInv` |
| `OwnRowsOnlyShown` | `[]OwnRowsOnly` | from `ListInv` |
| `TotalsAreHonest` | `[]TotalHonest` | part of `ListInv` |
| `WalksAreComplete` | `[]WalkComplete` | from `WalkInv` |
| `OppositesShareTheRows` | `[]OppositesSplit` | from the types, operator by operator |
| `RangesAreOfWholeDays` | `[]RangesCoverDays` | from the types and the arithmetic of days |

The inductive invariant of billing is

    IInv == TypeOK /\ OneActive /\ DueKept /\ CancelKept /\ AccountsSound

`TypeOK` alone is not inductive. A job or a cancel rewrites a row it read earlier,
so the row must still be there (`DueKept`, `CancelKept`); `ActivateSubscription`
starts a period where the live one ends, which is a date only if `LiveSubscription`
picks a row, and the unique index makes that choice unique (`OneActive`). The
index itself is kept because an activation is let in only when the user's other
active rows are the one it closes (`MayActivate`). `AccountsSound` says of every
account that both buckets are non-negative, that balance plus usage is within what
was granted and bought, and the balance within the ledger; `BillingProofs` begins
with one lemma per operation, all of them from `ApplyWalletSound`. `Debit` is sound only
for an affordable cost, which is what `Spend` rechecks under the row lock.

`BillingProofs` then has one lemma per actor or action, `NextIInv` combines them,
and `Inductive` is `Spec => []IInv`. `AppliedOnce` needs `IInv` for the types of the
rows and for the fact that jobs and cancels neither add nor delete rows.

What a payment buys needs more. `PeriodInv` adds to `IInv` and `AppliedOnce` that
periods do not overlap, that a period which is not over is followed up, to its end,
by the user's active one (`FutureIsActive`), and that what a job has listed for
expiry has lapsed (`ListedLapsed`). The last is what makes an old list harmless, for
any number of workers: no statement ever moves the end of a period, so a row whose
end had passed when it was listed still has that end when it is closed.

The snapshot, the allowance and the refills are different. Each replica would run
both jobs, and two runs that have listed the same row settle it twice; TLC violates
all three properties with two workers (above). Their theorems therefore assume
`UsersApart`: at no time have two runs rows of the same user still to do. Any number
of runs may be under way, as those of replicas that share the users out would be; one
run alone meets it whatever it has listed. `PlanInv` adds to `PeriodInv` that
the lists of the runs are true to the table (`ListKnown`: rows listed for expiry are
still active, rows listed for a refill have had no other and lie inside a live
period) and that payments and clients name registered users. A list survives what a
client does because a purchase leaves a lapsed row alone and keeps a live one's
period going, and what another run does because that is another user's
(`RestOfList`).

The inductive invariant of sessions is

    IInv == TypeOK /\ Rooted /\ NewApart /\ VictimsStored /\ OneLivePerFamily

`Rooted` says that the family of a stored row is a stored row which is its own root,
so a new sign-in cannot join an old family. `NewApart` keeps the ids that requests
hold before they insert apart from each other and from the table, and
`VictimsStored` has a sweep end only rows that exist (a victim may have been revoked
since, which is why the rotation has to look again). The steps that write `row` are
three: some rows end, a sign-in starts, a live row is replaced by its successor.
`RowStep` names these three, `RowStepRooted` and `RowStepOneLive` preserve the
invariants over them, and `LifeStep` maps them to `DeviceLife`: ending rows can only
put families out, a start is of a family without rows, and a rotation ends and
starts within one family that was in. The proof does not use that a sweep reaches
every row, and it may not (above).

Three properties of sessions are violated by two requests that overlap. Each is proved
for every run, of any number of requests, in which the two that matter do not:

- `SignInsApart`: while one client signs in, no other signs in or refreshes. Then
  the device limit holds, and the oldest go. `TrimSessions` counts the devices and
  `StartSession` inserts the new one; a second sign-in between the two counts the
  same devices (`TrimSessions`, above), and a rotation replaces a device the sign-in
  has listed by one it has not. Logouts, changes of the password and theft responses
  may overlap with anything: `SignInInv` says that what was ranked was all there is
  and still is, or is gone (`TrimKnown`), that timestamps are apart and a sign-in's
  is the latest (`InTurn`), and that the seats, the live rows that have not expired
  or are being refreshed, are within the limit. That `BeyondLimit` leaves as many
  rows as there are places, and the oldest go, is proved by counting those used
  later than a row (`PlacesFilled`, `UsedFirst`).
- `CutoffsApart`: no two cutoffs are on their way to Redis at once. Then what was
  refused is refused for good.

That the last hypothesis is the whole of it is a theorem too: with no condition on
what overlaps, a refused token is accepted again only by the step that replaces a
cutoff by an older one (`OlderCutoffsRevive`). `TokenInv` says that an entry of the
denylist and the cutoff outlive the tokens they take back, which rests on `Leeway <=
Margin`: the code keeps an entry a minute longer than the token
(`middleware/auth.go:221`, `:230`) and the verifier accepts one half a minute late
(`jwt.go:204`). One client alone meets both hypotheses, and `sessions_serial` checks
the three properties there.

`NoSessionAcrossChange` needs no hypothesis: what two requests can do is in its
exceptions. `AcrossInv` says of a refresh under way that its session belongs to a
family that may cross the last change, one that began after it or was spared by it
(`InForce`, `MayCross`), for a change that commits beside a refresh spares the family
of that refresh (`SparesFamilies`); and that no two transactions share a timestamp
(`Timely`), so that a sign-in the change did not see is older or newer, never as old.

The refinement of `TwoBucketWallet` needs, beside billing's `IInv`, that a user and
the wallet appear in one commit (`WalletOfUser`) and that payments, subscriptions,
clients and requests name registered users only (`NamedAreKnown`); then no request
finds a wallet missing, `HealWallet` is never taken, and each remaining write is a
move of one account (`OneMove`), with one lemma per operation of `CreditWallet`
saying which. With a legacy user the first conjunct fails, and so does the
refinement.

The inductive invariant of accounts is

    IInv == TypeOK /\ CodesInOrder /\ Proven /\ FailuresCounted

where `CodesInOrder` adds three facts to `SupersededDead`: a `SaveOTP` under way has
seen every live code saved before it began (`SeenAll`), no code and no transaction
is dated after `now` (`NotAhead`), and the attempts of a live code are its guesses
(`TriesCounted`, which `CodeLife`'s count needs). `Proven` ties a verified number, a
session, and a request about to make one, to a used registration code;
`FailuresCounted` says that the counter of the row is the number of wrong passwords,
which is what makes the lock certain.

`QuotaHolds` counts: the codes dated in a window, and the requests between check and
insert that date theirs in it, are together fewer than the quota plus the number of
clients (`QuotaInv`). A check that passes has counted fewer codes than the quota, and
the requests between check and insert are at most one per client.

The inductive invariant of the runner is

    IInv == TypeOK /\ AttemptsLeft /\ Uncommitted /\ NothingLeaks /\ AnswerTruthful

`Uncommitted` (no effect and no answer before the end) holds because only errors
after which PostgreSQL has rolled back are retried; a silent connection is not
(`SilentEnds`). `NothingLeaks` counts connections, with the library's facts about
cardinalities.

The inductive invariant of deployments is `OnAVersion` and, of each replica, that it
holds the lock from its grant to the end of the migration (`LockHeld`), that what it
has read or written is what the tables say meanwhile (`StillKnown`), that what it
has migrated is on record (`OnRecord`), that it starts from the first file
(`FromTheStart`), and that its last failure has its cause (`HasCause`: never a version
recorded since it looked, and a changed file only where the record is another's). The lock
makes `StillKnown` inductive: a step of another replica that writes the schema needs
the same lock.

The inductive invariant of the rate limiter is

    HeaderInv == TypeOK /\ NothingAhead /\ RoomKept /\ WaitEnough

about the last header: no slot after its own has been counted in, what it says is
left fits under the limit at its instant, and a wait it asks for ends in a later
slot. The weighted use can only fall until the slot ends while nobody counts, and
the proof is the arithmetic of that: quotients and remainders by the window.

`NoBurst` speaks of every interval shorter than a window, so its two stamps are in
one slot or in neighbouring ones. One slot holds no more than the limit, since
nobody is let through uncounted (`CountsKept`) and no counter passes the limit. For
two slots the proof needs no sum over an interval: `through` is counted as a set of
tickets, one for each request let through, and the cardinality of a union is enough.
`BurstInv` keeps, for each pair of neighbouring stamps, what the last request of the
later one found when the script judged it (`Near`): its slot's counter and the
weighted counter of the slot before were below the limit, and only requests still
under way then can have been let through in the earlier slot since, fewer than there
are callers. The counter of the slot before may expire while requests stamped before
that are judged; where it may (`Forgetful`), the request that opened it was judged
before the interval began, so it has counted one more than the interval has, and
`Tight` is the same bound with that one to spare. Two hypotheses carry this.
`~FailOpen` is the default (`config.go:295`); failing open lets everything through
by design. `SoonOver` has a call to Redis end within a third of a window: the
shortest window is a minute (`rate_limit.go:216-238` and the routes), and one
attempt is a dial, a write and a read under timeouts of 5, 3 and 3 seconds
(`config.go:291-293`). A call that the client library repeats, against a Redis that
stalls every time, can take longer than twenty seconds; then the theorem says
nothing, and rightly: with calls as long as a window TLC finds three callers who
exceed the bound, the counter of the earlier slot having expired before the last of
them is judged. The library repeating a call that was already counted is not
modelled; it counts one request twice.

The inductive invariant of list queries, `ListInv`, says that the rows of a page
were found under the reader's scope and that no write changes an owner, and that the
total is that of the table as long as nothing is written (`quiet`). A first page that
is not full is the whole result because its offset is zero, also after the
wrap-around (`PageIs`). `WalkInv` is what makes pages add up: a sort that contains
the key has one order only (`OneOrder`: at the first place where two orders differ,
each would have the other's row later, and one of the two rows precedes the other),
what has been seen is the first `(page - 1) * limit` rows of it, and a page with a
next one is full (`FullPage`, from `MorePages`: there is a next page exactly when
`page * limit < total`). The offset does not overflow, since a page that is walked
to starts within the result. `OppositesSplit` and `RangesCoverDays` follow from what
a request that was not refused can contain (`AcceptedIs`, `BoundsAre`).

Only model-checked: what is temporal under fairness (`PaymentSettles`,
`LapseIsNoticed`, `RefillIsMade`, `EveryRequestEnds`, `NothingHangs`), which is out of
the prover's reach. Every invariant and every action property of the passing runs is
a theorem. `BillingClaims` is refuted, not proved.

## Not modelled

Of the modelled parts. Billing: `RequireTier` (a read), catalogue edits, and the
payment statuses no code writes. Accounts: the audit rows of `LogAttempt`, a
suspended account, `RequirePhoneVerify = FALSE`, profile, username and onboarding
(single statements that unique indexes decide). Rate limiter: `Reset`, the disabled
limiter, clocks that differ, floating point. Deployment: what goroutines behind an
answered request do with their connections, versions with gaps, the contents of the
migration files, and Docker's own deadline, which kills a container that has not
gone down ten seconds after SIGTERM (`Crash`), before the 20 s of the shutdown
timeout. List queries: enumerations, booleans, numbers and UUIDs as column types
(coerced like the kinds that are modelled), `include` and `select`, `SumWhere` and
the summary endpoint, grouping and CTEs (no caller). Money: what only tests call.

The parts marked `not_modelled` in `PROJECT.json` have no behaviour of their own to
check: the per-request middleware keeps no state between requests, and a panic or a
cancelled request is the failed step that the other modules allow anywhere; input
validation is pure rules on text; configuration is read once at boot and its values
are the CONSTANTS; the SMS gateway is external and keeps no state; the expense,
budget, goal and insight tables are used by no handler yet.

## Plan

Done, in this order: `CreditWallet`, `Billing`, `TwoBucketWallet`; `Sessions`,
`DeviceLife`; `Accounts` with `CodeLife` (codes, lockout and accounts share the
`users` row, so they are one module); `Txn`; `RateLimiter`; `Deploy`; `QueryParse` and
`ListQuery`; and the proofs of every invariant and action property the runs check.

Left, in this order:

1. `NoBurst` with a client library that repeats calls, and how much of it survives
   calls longer than a third of a window.
2. What a sign-in beside a sign-in can do at most (one device too many for each that
   overlaps), as a bound like `QuotaHolds`.
3. The summary endpoint and the remaining column types in `QueryParse`, once a module
   mounts the CRUD handler.
4. The AI handlers and the scheduler, once they exist: `Billing` assumes both.
