------------------------------ MODULE Billing ------------------------------
(***************************************************************************)
(* internal/module/billing: checkout, payment confirmation, subscriptions, *)
(* the credit wallet and the two maintenance jobs.                         *)
(*                                                                         *)
(* One step is one committed database transaction, or one read made        *)
(* outside any transaction whose result is used later (the live check and  *)
(* the idempotency lookup of a checkout, the due list of a job, the        *)
(* missing wallet an entitlement check found, the subscription a cancel    *)
(* looked up).  A transaction that fails is rolled back: no step.          *)
(*                                                                         *)
(* A month is the unit of time; all steps between two ticks happen in the  *)
(* same calendar month and at the same instant of the billing period.      *)
(***************************************************************************)
EXTENDS CreditWallet, FiniteSets

CONSTANTS Users, LegacyUsers,   \* accounts; those made before wallets existed
          Clients, Requests, Workers,  \* checkouts, AI calls, job runs in flight
          Payments,             \* payment ids; bounds the checkouts made
          Keys, NoKey,          \* X-Idempotency-Key values, and its absence
          Refs, NoRef,          \* provider transaction ids, and the empty one
          Plans, FreePlan, Plan,       \* the catalogue, and each plan's row
          Packs, PacksOnSale,          \* the credit packs; those that are active
          PackCredits,                 \* credits + bonus_credits of each pack
          Features, Feature,
          BatchSize,            \* rows a job run lists at most
          MaxTime, MaxUsed,     \* bounds: months, credits a user ever spends
          NoRow, Idle           \* no such row; a process with nothing to do

PlanRow == [months: Nat, paid: BOOLEAN, active: BOOLEAN, monthly: Nat,
            signup: Nat, rollsOver: BOOLEAN, features: SUBSET Features]

FeatureRow == [cost: Nat, payg: BOOLEAN, active: BOOLEAN]

\* A NULL timestamp. Every timestamp it stands for is at least one month in.
Never == 0

PaymentRow ==
  LET Row(kinds, codes) ==
        [user: Users, kind: kinds, code: codes, key: Keys \union {NoKey},
         ref: Refs \union {NoRef}, status: {"pending", "paid"}]
  IN  Row({"subscription"}, Plans) \union Row({"credit_pack"}, Packs)

\* A subscription is named by the payment that created it (payment_id).
SubRow == [user: Users, plan: Plans, status: {"active", "expired"},
           startsAt: Nat, endsAt: Nat, nextGrantAt: Nat, grantsMade: Nat,
           cancelled: BOOLEAN]

UserRow == [plan: Plans, expiresAt: Nat]

CheckoutOp ==
  LET Op(kinds, codes) ==
        [step: {"find", "create"}, user: Users, kind: kinds, code: codes,
         key: Keys \union {NoKey}]
  IN  Op({"subscription"}, Plans) \union Op({"credit_pack"}, Packs)

CancelOp == [step: {"cancel"}, sub: Payments]

Request == [step: {"heal", "admitted", "charged"}, user: Users,
            feature: Features]

\* What a job remembers of a row it listed.
DueRow == [id: Payments, grantsMade: Nat]

Job == [kind: {"expire", "refill"}, due: SUBSET DueRow]

ASSUME BillingAssumption ==
  /\ LegacyUsers \subseteq Users
  /\ FreePlan \in Plans /\ Plan \in [Plans -> PlanRow]
  /\ PacksOnSale \subseteq Packs /\ PackCredits \in [Packs -> Nat \ {0}]
  /\ Feature \in [Features -> FeatureRow]
  /\ SignupCredits = Plan[FreePlan].signup
  /\ BatchSize \in Nat \ {0} /\ MaxTime \in Nat /\ MaxUsed \in Nat
  /\ NoKey \notin Keys /\ NoRef \notin Refs
  /\ NoRow \notin PaymentRow \union SubRow \union UserRow
  /\ Idle \notin CheckoutOp \union CancelOp \union Request \union Job

VARIABLES now,       \* the database clock, in months
          user,      \* users.plan_code and plan_expires_at
          account,   \* credit_wallets and credit_ledger
          payment,   \* payments
          sub,       \* subscriptions
          op,        \* the checkout or cancel a client has in flight
          request,   \* the gated AI call a handler has in flight
          job,       \* the due list a maintenance run is working through
          applied    \* history: how often each payment was applied

vars == <<now, user, account, payment, sub, op, request, job, applied>>

TypeOK ==
  /\ now \in Nat
  /\ user \in [Users -> UserRow \union {NoRow}]
  /\ account \in [Users -> Account]
  /\ payment \in [Payments -> PaymentRow \union {NoRow}]
  /\ sub \in [Payments -> SubRow \union {NoRow}]
  /\ op \in [Clients -> CheckoutOp \union CancelOp \union {Idle}]
  /\ request \in [Requests -> Request \union {Idle}]
  /\ job \in [Workers -> Job \union {Idle}]
  /\ applied \in [Payments -> Nat]

Init ==
  /\ now = 1
  /\ user = [u \in Users |-> IF u \in LegacyUsers
                             THEN [plan |-> FreePlan, expiresAt |-> Never]
                             ELSE NoRow]
  /\ account = [u \in Users |-> NoAccount]
  /\ payment = [p \in Payments |-> NoRow]
  /\ sub = [p \in Payments |-> NoRow]
  /\ op = [c \in Clients |-> Idle]
  /\ request = [r \in Requests |-> Idle]
  /\ job = [w \in Workers |-> Idle]
  /\ applied = [p \in Payments |-> 0]

-----------------------------------------------------------------------------
(* Queries.                                                                *)

\* The rows the index subscriptions_one_live_per_user ranges over. The code
\* never writes the other live statuses, 'trialing' and 'grace'.
ActiveSubs(u) ==
  {s \in Payments : sub[s] # NoRow /\ sub[s].user = u /\ sub[s].status = "active"}

\* The rows LiveSubscription selects from: those still inside their period.
LiveSubs(u) == {s \in ActiveSubs(u) : sub[s].endsAt > now}

LiveSubscription(u) ==
  CHOOSE s \in LiveSubs(u) : \A t \in LiveSubs(u) : sub[t].endsAt <= sub[s].endsAt

PlanOf(u) == IF LiveSubs(u) = {} THEN FreePlan ELSE sub[LiveSubscription(u)].plan

AllowanceRollsOver(u) == LiveSubs(u) # {} /\ Plan[PlanOf(u)].rollsOver

Allows(u, f) ==
  /\ Feature[f].active
  /\ f \in Plan[PlanOf(u)].features \/ Feature[f].payg

\* Mutants: the end of the period is not compared with the clock, or strictly.
DueForExpiryAny ==
  {s \in Payments : sub[s] # NoRow /\ sub[s].status = "active"}

DueForExpiryLate ==
  {s \in Payments : sub[s] # NoRow /\ sub[s].status = "active" /\ sub[s].endsAt < now}

DueForExpiry ==
  {s \in Payments : sub[s] # NoRow /\ sub[s].status = "active" /\ sub[s].endsAt <= now}

\* Mutant: a refill is picked up only after its date.
DueForGrantLate ==
  {s \in Payments : /\ sub[s] # NoRow /\ sub[s].status = "active"
                    /\ sub[s].nextGrantAt # Never /\ sub[s].nextGrantAt < now
                    /\ sub[s].endsAt > now}

DueForGrant ==
  {s \in Payments : /\ sub[s] # NoRow /\ sub[s].status = "active"
                    /\ sub[s].nextGrantAt # Never /\ sub[s].nextGrantAt <= now
                    /\ sub[s].endsAt > now}

PaymentsWithKey(u, k) ==
  {p \in Payments : payment[p] # NoRow /\ payment[p].user = u /\ payment[p].key = k}

\* Mutant: without the unique index.
KeyNeverTaken(u, k) == FALSE

\* payments_idempotency_uniq would refuse another row.
KeyTaken(u, k) == k # NoKey /\ PaymentsWithKey(u, k) # {}

-----------------------------------------------------------------------------
(* Accounts and the clock.                                                 *)

Tick == /\ now < MaxTime
        /\ now' = now + 1
        /\ UNCHANGED <<user, account, payment, sub, op, request, job, applied>>

\* Registration creates the user and provisions the wallet in one commit.
Register(u) ==
  /\ user[u] = NoRow
  /\ user' = [user EXCEPT ![u] = [plan |-> FreePlan, expiresAt |-> Never]]
  /\ account' = [account EXCEPT ![u] = ProvisionNewUser(@, now)]
  /\ UNCHANGED <<now, payment, sub, op, request, job, applied>>

-----------------------------------------------------------------------------
(* Checkout and cancellation: the steps of a client's HTTP request.        *)

CheckoutOpen(u, plan) ==
  Plan[plan].active /\ Plan[plan].paid /\ LiveSubs(u) = {}

StartCheckout(c, u, kind, code, key) ==
  /\ op[c] = Idle /\ user[u] # NoRow
  /\ op' = [op EXCEPT ![c] =
              [step |-> IF key = NoKey THEN "create" ELSE "find",
               user |-> u, kind |-> kind, code |-> code, key |-> key]]
  /\ UNCHANGED <<now, user, account, payment, sub, request, job, applied>>

StartSubscriptionCheckout(c, u, plan, key) ==
  CheckoutOpen(u, plan) /\ StartCheckout(c, u, "subscription", plan, key)

StartPackCheckout(c, u, pack, key) ==
  pack \in PacksOnSale /\ StartCheckout(c, u, "credit_pack", pack, key)

\* A payment with the key is replayed, or refused when it is for something
\* else; either way the request ends here and writes nothing.
FindPaymentByIdempotencyKey(c) ==
  /\ op[c] # Idle /\ op[c].step = "find"
  /\ op' = [op EXCEPT ![c] = IF PaymentsWithKey(@.user, @.key) = {}
                             THEN [@ EXCEPT !.step = "create"]
                             ELSE Idle]
  /\ UNCHANGED <<now, user, account, payment, sub, request, job, applied>>

\* The second INSERT of a racing retry fails; its request ends with an error.
CreatePayment(c, p) ==
  /\ op[c] # Idle /\ op[c].step = "create"
  /\ payment[p] = NoRow
  /\ op' = [op EXCEPT ![c] = Idle]
  /\ payment' = IF KeyTaken(op[c].user, op[c].key)
                THEN payment
                ELSE [payment EXCEPT ![p] =
                        [user |-> op[c].user, kind |-> op[c].kind,
                         code |-> op[c].code, key |-> op[c].key,
                         ref |-> NoRef, status |-> "pending"]]
  /\ UNCHANGED <<now, user, account, sub, request, job, applied>>

LookUpForCancel(c, u) ==
  /\ op[c] = Idle
  /\ LiveSubs(u) # {} /\ ~sub[LiveSubscription(u)].cancelled
  /\ op' = [op EXCEPT ![c] = [step |-> "cancel", sub |-> LiveSubscription(u)]]
  /\ UNCHANGED <<now, user, account, payment, sub, request, job, applied>>

CancelSubscription(c) ==
  /\ op[c] # Idle /\ op[c].step = "cancel"
  /\ sub' = [sub EXCEPT ![op[c].sub].cancelled = TRUE]
  /\ op' = [op EXCEPT ![c] = Idle]
  /\ UNCHANGED <<now, user, account, payment, request, job, applied>>

\* The request times out or its connection drops before its next statement.
DropClient(c) ==
  /\ op[c] # Idle
  /\ op' = [op EXCEPT ![c] = Idle]
  /\ UNCHANGED <<now, user, account, payment, sub, request, job, applied>>

-----------------------------------------------------------------------------
(* Settling a payment: one SERIALIZABLE transaction, retried until it      *)
(* commits or fails for good.                                              *)

PlanMonths(plan) == IF Plan[plan].months > 0 THEN Plan[plan].months ELSE 1

\* Mutant: an extension starts on the day it is paid.
PeriodStartsNow(u) == now

\* The live subscription is closed and its remaining time handed on: the new
\* period starts where the old one would have ended.
PeriodStart(u) == IF LiveSubs(u) = {} THEN now ELSE sub[LiveSubscription(u)].endsAt

\* Mutant: the replaced subscription gets a status the jobs do not know.
CloseCurrentAsCancelled(u) ==
  [s \in Payments |-> IF s \in LiveSubs(u) THEN [sub[s] EXCEPT !.status = "cancelled"]
                      ELSE sub[s]]

CloseCurrent(u) ==
  [s \in Payments |-> IF LiveSubs(u) # {} /\ s = LiveSubscription(u)
                      THEN [sub[s] EXCEPT !.status = "expired"]
                      ELSE sub[s]]

\* Mutants: without the unique index; or the INSERT before the current row is
\* closed.
MayAlwaysActivate(u) == TRUE

MayActivateFirst(u) == ActiveSubs(u) = {}

\* The row subscriptions_one_live_per_user would let in: any other active row
\* of the user, inside its period or past it, fails the INSERT.
MayActivate(u) == ActiveSubs(u) \subseteq
                    (IF LiveSubs(u) = {} THEN {} ELSE {LiveSubscription(u)})

NewSubscription(u, plan) ==
  LET starts == PeriodStart(u)
      months == PlanMonths(plan)
  IN  [user |-> u, plan |-> plan, status |-> "active", startsAt |-> starts,
       endsAt |-> starts + months,
       nextGrantAt |-> IF months > 1 /\ Plan[plan].monthly > 0
                       THEN starts + 1 ELSE Never,
       grantsMade |-> 0, cancelled |-> FALSE]

ActivateSubscription(p, u, plan) ==
  LET row == NewSubscription(u, plan)
  IN  /\ MayActivate(u)
      /\ sub' = [CloseCurrent(u) EXCEPT ![p] = row]
      /\ account' = [account EXCEPT ![u] =
                       Grant(@, Plan[plan].monthly, Plan[plan].signup,
                             Plan[plan].rollsOver, now)]
      /\ user' = [user EXCEPT ![u] = [plan |-> plan, expiresAt |-> row.endsAt]]

CreditPack(u, pack) ==
  /\ account' = [account EXCEPT ![u] = Grant(@, 0, PackCredits[pack], FALSE, now)]
  /\ UNCHANGED <<sub, user>>

\* Mutant: a paid payment is not recognised.
SettledButPaid == {"refunded", "cancelled"}

Settled == {"paid", "refunded", "cancelled"}

ConfirmPayment(p, ref) ==
  /\ payment[p] # NoRow /\ payment[p].status \notin Settled
  \* payments_provider_ref_uniq
  /\ ref # NoRef => ~\E q \in Payments : payment[q] # NoRow /\ payment[q].ref = ref
  /\ payment' = [payment EXCEPT ![p].status = "paid",
                                ![p].ref = IF ref = NoRef THEN @ ELSE ref]
  /\ \/ payment[p].kind = "subscription"
        /\ ActivateSubscription(p, payment[p].user, payment[p].code)
     \/ payment[p].kind = "credit_pack" /\ CreditPack(payment[p].user, payment[p].code)
  /\ applied' = [applied EXCEPT ![p] = @ + 1]
  /\ UNCHANGED <<now, op, request, job>>

-----------------------------------------------------------------------------
(* A gated AI call: the gate checks access, the handler spends before the  *)
(* model runs, and refunds when the model fails.                           *)

\* Entitlement read no wallet; it will provision one in another transaction.
MeetMissingWallet(r, u, f) ==
  /\ request[r] = Idle /\ user[u] # NoRow
  /\ ~account[u].open
  /\ request' = [request EXCEPT ![r] = [step |-> "heal", user |-> u, feature |-> f]]
  /\ UNCHANGED <<now, user, account, payment, sub, op, job, applied>>

\* The entitlement is read again afterwards: a CheckAccess of its own.
HealWallet(r) ==
  /\ request[r] # Idle /\ request[r].step = "heal"
  /\ account' = [account EXCEPT ![request[r].user] = ProvisionNewUser(@, now)]
  /\ request' = [request EXCEPT ![r] = Idle]
  /\ UNCHANGED <<now, user, payment, sub, op, job, applied>>

CheckAccess(r, u, f) ==
  /\ request[r] = Idle /\ user[u] # NoRow
  /\ account[u].open /\ Allows(u, f)
  /\ Feature[f].cost > 0 => Total(account[u]) >= Feature[f].cost
  /\ request' = [request EXCEPT ![r] = [step |-> "admitted", user |-> u, feature |-> f]]
  /\ UNCHANGED <<now, user, account, payment, sub, op, job, applied>>

\* What Spend would find in the wallet row it locks.
Payable(u, f) ==
  Allows(u, f) /\ Affordable(LockOrProvision(account[u], now), Feature[f].cost)

Spend(r) ==
  LET u == request[r].user
      f == request[r].feature
  IN  /\ request[r] # Idle /\ request[r].step = "admitted"
      /\ Payable(u, f)
      /\ account[u].used + Feature[f].cost <= MaxUsed
      /\ account' = [account EXCEPT ![u] =
                       Debit(LockOrProvision(@, now), Feature[f].cost, now)]
      /\ request' = [request EXCEPT ![r].step = "charged"]
      /\ UNCHANGED <<now, user, payment, sub, op, job, applied>>

RefuseSpend(r) ==
  /\ request[r] # Idle /\ request[r].step = "admitted"
  /\ ~Payable(request[r].user, request[r].feature)
  /\ request' = [request EXCEPT ![r] = Idle]
  /\ UNCHANGED <<now, user, account, payment, sub, op, job, applied>>

Refund(r) ==
  /\ request[r] # Idle /\ request[r].step = "charged"
  /\ account' = [account EXCEPT ![request[r].user] =
                   RefundCredits(@, Feature[request[r].feature].cost, now)]
  /\ request' = [request EXCEPT ![r] = Idle]
  /\ UNCHANGED <<now, user, payment, sub, op, job, applied>>

\* The answer was delivered, or the process died holding the charge.
EndRequest(r) ==
  /\ request[r] # Idle
  /\ request' = [request EXCEPT ![r] = Idle]
  /\ UNCHANGED <<now, user, account, payment, sub, op, job, applied>>

-----------------------------------------------------------------------------
(* The maintenance jobs: list the due rows, then one transaction a row.    *)

RunOn(kind, due) == IF due = {} THEN Idle ELSE [kind |-> kind, due |-> due]

Listed(ids) == {[id |-> s, grantsMade |-> sub[s].grantsMade] : s \in ids}

ListDue(w, kind, ids) ==
  /\ job[w] = Idle /\ ids # {}
  /\ job' = [job EXCEPT ![w] = RunOn(kind, Listed(ids))]
  /\ UNCHANGED <<now, user, account, payment, sub, op, request, applied>>

\* ORDER BY a timestamp LIMIT BatchSize, equal timestamps in any order.
Batches(due, when) ==
  {ids \in SUBSET due :
     /\ Cardinality(ids) <= BatchSize /\ (ids # due => Cardinality(ids) = BatchSize)
     /\ \A s \in ids, t \in due \ ids : when[s] <= when[t]}

ListDueForExpiry(w) ==
  \E ids \in Batches(DueForExpiry, [s \in DueForExpiry |-> sub[s].endsAt]) :
    ListDue(w, "expire", ids)

ListDueForGrant(w) ==
  \E ids \in Batches(DueForGrant, [s \in DueForGrant |-> sub[s].nextGrantAt]) :
    ListDue(w, "refill", ids)

Due(w) == IF job[w] = Idle THEN {} ELSE job[w].due

Working(w, kind, row) == row \in Due(w) /\ job[w].kind = kind

\* The row is settled one way or the other; the loop goes on with the rest.
NextRow(w, row) == job' = [job EXCEPT ![w] = RunOn(@.kind, @.due \ {row})]

\* The subscription is closed whatever its status has become meanwhile.
ExpireDueSubscription(w, row) ==
  LET u == sub[row.id].user
  IN  /\ Working(w, "expire", row)
      /\ account[u].open
      /\ sub' = [sub EXCEPT ![row.id].status = "expired"]
      /\ account' = [account EXCEPT ![u] = ExpireAllowance(@, now)]
      /\ user' = [user EXCEPT ![u] = [plan |-> FreePlan, expiresAt |-> Never]]
      /\ NextRow(w, row)
      /\ UNCHANGED <<now, payment, op, request, applied>>

\* Mutant: the date of the refill just made.
NextGrantAtAgain(row) == sub[row.id].startsAt + row.grantsMade + 1

\* The next date comes from the count that was listed, the count from the row.
NextGrantAt(row) ==
  LET candidate == sub[row.id].startsAt + row.grantsMade + 2
  IN  IF candidate < sub[row.id].endsAt THEN candidate ELSE Never

GrantDueAllowance(w, row) ==
  LET u == sub[row.id].user
  IN  /\ Working(w, "refill", row)
      /\ account' = [account EXCEPT ![u] =
                       Grant(@, Plan[sub[row.id].plan].monthly, 0,
                             AllowanceRollsOver(u), now)]
      /\ sub' = [sub EXCEPT ![row.id].grantsMade = @ + 1,
                            ![row.id].nextGrantAt = NextGrantAt(row)]
      /\ NextRow(w, row)
      /\ UNCHANGED <<now, user, payment, op, request, applied>>

\* The row's transaction failed and was rolled back, or the process stopped.
DropRow(w, row) ==
  /\ row \in Due(w)
  /\ NextRow(w, row)
  /\ UNCHANGED <<now, user, account, payment, sub, op, request, applied>>

-----------------------------------------------------------------------------
CheckoutStep ==
  \/ \E c \in Clients, u \in Users :
       \/ \E plan \in Plans, key \in Keys \union {NoKey} :
            StartSubscriptionCheckout(c, u, plan, key)
       \/ \E pack \in Packs, key \in Keys \union {NoKey} :
            StartPackCheckout(c, u, pack, key)
       \/ LookUpForCancel(c, u)
  \/ \E c \in Clients : \/ FindPaymentByIdempotencyKey(c)
                        \/ \E p \in Payments : CreatePayment(c, p)
                        \/ CancelSubscription(c)
                        \/ DropClient(c)

RequestStep ==
  \E r \in Requests :
    \/ \E u \in Users, f \in Features : MeetMissingWallet(r, u, f) \/ CheckAccess(r, u, f)
    \/ HealWallet(r) \/ Spend(r) \/ RefuseSpend(r) \/ Refund(r) \/ EndRequest(r)

JobStep ==
  \E w \in Workers :
    \/ ListDueForExpiry(w)
    \/ ListDueForGrant(w)
    \/ \E row \in Due(w) : \/ ExpireDueSubscription(w, row)
                           \/ GrantDueAllowance(w, row)
                           \/ DropRow(w, row)

Next ==
  \/ Tick
  \/ \E u \in Users : Register(u)
  \/ CheckoutStep
  \/ \E p \in Payments, ref \in Refs \union {NoRef} : ConfirmPayment(p, ref)
  \/ RequestStep
  \/ JobStep

Spec == Init /\ [][Next]_vars

-----------------------------------------------------------------------------
(* Safety.                                                                 *)

(* No interleaving of debits, refills and expiries takes a bucket below    *)
(* zero: two AI requests cannot spend the same credit (LockWallet).        *)
NoOverdraft == \A u \in Users : account[u].allowance >= 0 /\ account[u].purchased >= 0

(* What can be spent never exceeds what the history granted, sold and saw  *)
(* used: no path through the service creates credits (ApplyWallet).        *)
CreditsAccounted ==
  \A u \in Users :
    /\ Total(account[u]) + account[u].used <= account[u].granted + account[u].bought
    /\ Total(account[u]) <= account[u].sum

(* Money and value move together: a payment was applied once when it is    *)
(* paid and never when it is not, and the subscription it bought exists    *)
(* exactly from then on (ConfirmPayment, LockPayment).                     *)
AppliedOnce ==
  \A p \in Payments :
    LET paid == payment[p] # NoRow /\ payment[p].status = "paid"
    IN  /\ applied[p] = IF paid THEN 1 ELSE 0
        /\ sub[p] # NoRow <=> paid /\ payment[p].kind = "subscription"

(* A retried checkout never makes a second payment for its key, even when  *)
(* both requests looked the key up before either inserted.                 *)
OnePaymentPerKey ==
  \A u \in Users, k \in Keys : \A p, q \in PaymentsWithKey(u, k) : p = q

(* The periods a user paid for never overlap: an extension starts where    *)
(* the running period ends, a new purchase after everything before it.     *)
PeriodsDisjoint ==
  \A s, t \in Payments :
    s # t /\ sub[s] # NoRow /\ sub[t] # NoRow /\ sub[s].user = sub[t].user
      => sub[s].endsAt <= sub[t].startsAt \/ sub[t].endsAt <= sub[s].startsAt

(* The allowance dies with the plan: a user without a subscription row     *)
(* that is still active holds no allowance.                                *)
AllowanceNeedsPlan ==
  \A u \in Users : account[u].allowance > 0 => ActiveSubs(u) # {}

(* The snapshot on the users row names the plan of the user's active       *)
(* subscription row and its end, and free when there is none.              *)
PlanSnapshot ==
  \A u \in Users : user[u] # NoRow =>
    /\ ActiveSubs(u) = {} => user[u] = [plan |-> FreePlan, expiresAt |-> Never]
    /\ \A s \in ActiveSubs(u) : user[u] = [plan |-> sub[s].plan,
                                          expiresAt |-> sub[s].endsAt]

(* A 12-month plan refills 11 more times: the refills made and the one     *)
(* scheduled stay on the monthly grid and inside the period.               *)
RefillSchedule ==
  \A s \in Payments : sub[s] # NoRow =>
    /\ sub[s].grantsMade < sub[s].endsAt - sub[s].startsAt
    /\ sub[s].nextGrantAt # Never =>
         /\ sub[s].nextGrantAt = sub[s].startsAt + sub[s].grantsMade + 1
         /\ sub[s].nextGrantAt < sub[s].endsAt

(* Paid time is never taken back: as long as the clock has not reached the *)
(* end of the period a user is in, no step shortens their access -- not a  *)
(* cancellation, a second purchase, or a job working from an old list.     *)
PaidTimeKept ==
  [][\A u \in Users : \A s \in LiveSubs(u) : sub[s].endsAt > now' =>
       \E t \in LiveSubs(u)' : sub[t].endsAt' >= sub[s].endsAt]_vars

-----------------------------------------------------------------------------
(* What the module implements.                                             *)

Balances == INSTANCE TwoBucketWallet WITH
  allowance <- [u \in Users |-> account[u].allowance],
  purchased <- [u \in Users |-> account[u].purchased],
  used <- [u \in Users |-> account[u].used]

(* Every step of the billing module moves a user's credits only in a way   *)
(* the two-bucket wallet allows.                                           *)
TwoBuckets == Balances!Spec

-----------------------------------------------------------------------------
(* Liveness. A scheduler keeps running both jobs and does not abandon the  *)
(* same rows for ever; the provider repeats a confirmation that failed.    *)

Fairness ==
  /\ \A w \in Workers :
       /\ SF_vars(ListDueForExpiry(w)) /\ SF_vars(ListDueForGrant(w))
       /\ SF_vars(\E row \in Due(w) : ExpireDueSubscription(w, row))
       /\ SF_vars(\E row \in Due(w) : GrantDueAllowance(w, row))
  /\ \A p \in Payments : SF_vars(ConfirmPayment(p, NoRef))

LiveSpec == Spec /\ Fairness

(* A payment the provider keeps confirming is applied in the end: an       *)
(* active row past its period blocks it only until the expiry job ran.     *)
PaymentSettles ==
  \A p \in Payments : (payment[p] # NoRow) ~> (applied[p] = 1)

Lapsed(s) == sub[s] # NoRow /\ sub[s].status = "active" /\ sub[s].endsAt <= now

(* A subscription whose period is over is closed, and its allowance and    *)
(* plan snapshot with it, however often the job fails on the way.          *)
LapseIsNoticed == \A s \in Payments : Lapsed(s) ~> ~Lapsed(s)

Running(s) == sub[s] # NoRow /\ sub[s].status = "active" /\ sub[s].endsAt > now

(* A refill that is due is made, unless the period ends or is handed over  *)
(* first: it is never skipped because a job crashed on it.                 *)
RefillIsMade ==
  \A s \in Payments, n \in 0..MaxTime :
    (Running(s) /\ sub[s].grantsMade = n /\ sub[s].nextGrantAt \in 1..now) ~>
      (sub[s] # NoRow /\ (sub[s].grantsMade > n \/ ~Running(s)))
=============================================================================
