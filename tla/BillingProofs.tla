---------------------------- MODULE BillingProofs ----------------------------
(***************************************************************************)
(* Theorems about Billing, for every number of users, clients, workers,    *)
(* payments and months, and every catalogue of plans, packs and features.  *)
(*                                                                         *)
(* IInv is the inductive invariant.  Beside the types and the soundness of *)
(* every account it needs two facts the types do not give: the unique      *)
(* index on live subscriptions, without which LiveSubscription would be a  *)
(* choice among several rows, and that the rows named by a job's list or a *)
(* client's cancel are still there when the job or the client gets to them.*)
(***************************************************************************)
EXTENDS Billing, TLAPS

-----------------------------------------------------------------------------
(* What every operation of the credit account preserves, for any amounts:  *)
(* Sound is inductive, so the theorems about Billing cite one lemma for    *)
(* each operation and never look inside it.                                *)

\* The CHECK constraints of credit_wallets, and no credits from nowhere.
Sound(a) ==
  /\ a \in Account
  /\ a.allowance >= 0 /\ a.purchased >= 0
  /\ Total(a) + a.used <= a.granted + a.bought
  /\ Total(a) <= a.sum

USE WalletAssumption

(* An account nobody has written to is in order (the columns' defaults).   *)
LEMMA NoAccountSound == Sound(NoAccount)
  BY DEF Sound, NoAccount, Account, Total

(* ApplyWallet is the only writer of a wallet: whatever it is asked to     *)
(* write, the result is in order if the new balances are non-negative and  *)
(* the counters and the ledger move at least as far as the balances.       *)
LEMMA ApplyWalletSound ==
  ASSUME NEW a, Sound(a), NEW m \in Nat,
         NEW allowance \in Nat, NEW purchased \in Nat, NEW delta \in Int,
         NEW granted \in Nat, NEW bought \in Nat, NEW used \in Nat,
         allowance + purchased - Total(a) <= granted + bought - used,
         allowance + purchased - Total(a) <= delta
  PROVE  Sound(ApplyWallet(a, [allowance |-> allowance, purchased |-> purchased,
                               delta |-> delta, granted |-> granted,
                               bought |-> bought, used |-> used], m))
<1> DEFINE e == [allowance |-> allowance, purchased |-> purchased, delta |-> delta,
                 granted |-> granted, bought |-> bought, used |-> used]
           spent == IF a.month < m THEN used ELSE a.spent + used
           month == IF a.month < m THEN m ELSE a.month
           b == [open |-> a.open, allowance |-> allowance, purchased |-> purchased,
                 granted |-> a.granted + granted, bought |-> a.bought + bought,
                 used |-> a.used + used, spent |-> spent, month |-> month,
                 sum |-> a.sum + delta]
<1>1. /\ a.open \in BOOLEAN /\ a.granted \in Int /\ a.bought \in Int /\ a.used \in Int
      /\ a.spent \in Int /\ a.month \in Nat /\ a.sum \in Int
      /\ a.allowance \in Int /\ a.purchased \in Int
  BY DEF Sound, Account
<1>2. spent \in Int /\ month \in Nat
  BY <1>1
<1>3. ApplyWallet(a, e, m) = b
  BY DEF ApplyWallet
<1> HIDE DEF spent, month
<1>4. b \in Account
  BY <1>1, <1>2 DEF Account
<1>5. /\ Total(b) + b.used <= b.granted + b.bought
      /\ Total(b) <= b.sum
  BY <1>1 DEF Sound, Total
<1> QED
  BY <1>3, <1>4, <1>5 DEF Sound

(* Opening a wallet changes no number of it.                               *)
LEMMA EnsureWalletSound ==
  ASSUME NEW a, Sound(a), NEW m \in Nat
  PROVE  Sound(EnsureWallet(a, m))
  BY DEF Sound, EnsureWallet, Account, Total

(* Provisioning keeps an account in order even when it overwrites one that *)
(* is in use: credits may vanish, none appear.                             *)
LEMMA ProvisionNewUserSound ==
  ASSUME NEW a, Sound(a), NEW m \in Nat
  PROVE  Sound(ProvisionNewUser(a, m))
<1> DEFINE w == EnsureWallet(a, m)
<1>1. Sound(w)
  BY EnsureWalletSound
<1>2. WelcomeBonus \in Nat
  BY DEF WelcomeBonus
<1>3. Total(w) \in Nat
  BY <1>1 DEF Sound, Account, Total
<1> HIDE DEF w
<1>4. Sound(ApplyWallet(w, [allowance |-> 0, purchased |-> WelcomeBonus,
                            delta |-> WelcomeBonus, granted |-> 0,
                            bought |-> WelcomeBonus, used |-> 0], m))
  BY <1>1, <1>2, <1>3, ApplyWalletSound
<1> QED
  BY <1>1, <1>4 DEF ProvisionNewUser, w

(* The wallet a grant or a debit locks is in order, provisioned or not.    *)
LEMMA LockOrProvisionSound ==
  ASSUME NEW a, Sound(a), NEW m \in Nat
  PROVE  Sound(LockOrProvision(a, m))
  BY ProvisionNewUserSound DEF LockOrProvision

(* A debit the locked wallet can pay leaves both buckets non-negative:     *)
(* what the allowance does not cover, the purchased credits do.            *)
LEMMA DebitSound ==
  ASSUME NEW a, Sound(a), NEW m \in Nat, NEW cost \in Nat, Affordable(a, cost)
  PROVE  Sound(Debit(a, cost, m))
<1> DEFINE part == IF cost > a.allowance THEN a.allowance ELSE cost
<1>1. CASE cost = 0
  BY <1>1 DEF Debit
<1>2. CASE cost # 0
  <2>1. /\ Total(a) >= cost /\ cost > 0
        /\ a.allowance \in Nat /\ a.purchased \in Nat
        /\ Total(a) = a.allowance + a.purchased
    BY <1>2 DEF Affordable, Sound, Account, Total
  <2>2. part \in Nat /\ a.allowance - part \in Nat /\ a.purchased - (cost - part) \in Nat
    BY <2>1
  <2>3. (a.allowance - part) + (a.purchased - (cost - part)) - Total(a) = -cost
    BY <2>1, <2>2
  <2> DEFINE al == a.allowance - part
             pu == a.purchased - (cost - part)
  <2>4. al \in Nat /\ pu \in Nat /\ al + pu - Total(a) = -cost
    BY <2>2, <2>3
  <2>5. Debit(a, cost, m) =
          ApplyWallet(a, [allowance |-> al, purchased |-> pu, delta |-> -cost,
                          granted |-> 0, bought |-> 0, used |-> cost], m)
    BY <1>2 DEF Debit
  <2> HIDE DEF al, pu, part
  <2> QED
    BY <2>4, <2>5, ApplyWalletSound
<1> QED
  BY <1>1, <1>2

(* A refund is booked as a purchase of the same size, so it stays          *)
(* accounted for.                                                          *)
LEMMA RefundCreditsSound ==
  ASSUME NEW a, Sound(a), NEW m \in Nat, NEW credits \in Nat
  PROVE  Sound(RefundCredits(a, credits, m))
<1> DEFINE al == a.allowance
           pu == a.purchased + credits
<1>1. al \in Nat /\ pu \in Nat /\ al + pu - Total(a) = credits
  BY DEF Sound, Account, Total
<1>2. RefundCredits(a, credits, m) =
        IF credits = 0 THEN a
        ELSE ApplyWallet(a, [allowance |-> al, purchased |-> pu, delta |-> credits,
                             granted |-> 0, bought |-> credits, used |-> 0], m)
  BY DEF RefundCredits
<1> HIDE DEF al, pu
<1>3. Sound(ApplyWallet(a, [allowance |-> al, purchased |-> pu, delta |-> credits,
                            granted |-> 0, bought |-> credits, used |-> 0], m))
  BY <1>1, ApplyWalletSound
<1> QED
  BY <1>2, <1>3

(* A refill or a purchase, with or without rollover: the lifetime counters *)
(* take the full grant, the balance at most that.                          *)
LEMMA GrantSound ==
  ASSUME NEW a, Sound(a), NEW m \in Nat, NEW allowance \in Nat,
         NEW purchased \in Nat, NEW rolls \in BOOLEAN
  PROVE  Sound(Grant(a, allowance, purchased, rolls, m))
<1> DEFINE w == LockOrProvision(a, m)
           al == IF allowance > 0 /\ ~rolls THEN allowance ELSE w.allowance + allowance
<1>1. Sound(w)
  BY LockOrProvisionSound
<1> HIDE DEF w
<1>2. /\ al \in Nat /\ w.purchased + purchased \in Nat
      /\ al + (w.purchased + purchased) - Total(w) <= allowance + purchased
  BY <1>1 DEF Sound, Account, Total
<1>3. Grant(a, allowance, purchased, rolls, m) =
        IF allowance = 0 /\ purchased = 0 THEN a
        ELSE ApplyWallet(w, [allowance |-> al, purchased |-> w.purchased + purchased,
                             delta |-> allowance + purchased,
                             granted |-> allowance, bought |-> purchased,
                             used |-> 0], m)
  BY DEF Grant, w
<1> DEFINE pu == w.purchased + purchased
           delta == allowance + purchased
<1>4. /\ al \in Nat /\ pu \in Nat /\ delta \in Int
      /\ al + pu - Total(w) <= delta /\ delta = allowance + purchased - 0
  BY <1>2
<1> HIDE DEF al, pu, delta
<1>5. Sound(ApplyWallet(w, [allowance |-> al, purchased |-> pu, delta |-> delta,
                            granted |-> allowance, bought |-> purchased,
                            used |-> 0], m))
  BY <1>1, <1>4, ApplyWalletSound
<1> QED
  BY <1>3, <1>5 DEF pu, delta

(* Expiry takes from the allowance only, and books what it took.           *)
LEMMA ExpireAllowanceSound ==
  ASSUME NEW a, Sound(a), NEW m \in Nat
  PROVE  Sound(ExpireAllowance(a, m))
<1> DEFINE pu == a.purchased
           delta == -a.allowance
<1>1. pu \in Nat /\ delta \in Int /\ a.allowance \in Nat
      /\ Total(a) \in Int /\ 0 + pu - Total(a) = delta
  BY DEF Sound, Account, Total
<1>2. CASE a.allowance > 0
  <2>1. /\ 0 + pu - Total(a) <= 0 + 0 - 0
        /\ 0 + pu - Total(a) <= delta /\ 0 \in Nat
    BY <1>2, <1>1
  <2>2. ExpireAllowance(a, m) =
          ApplyWallet(a, [allowance |-> 0, purchased |-> pu, delta |-> delta,
                          granted |-> 0, bought |-> 0, used |-> 0], m)
    BY <1>2 DEF ExpireAllowance
  <2> HIDE DEF pu, delta
  <2>3. Sound(ApplyWallet(a, [allowance |-> 0, purchased |-> pu, delta |-> delta,
                              granted |-> 0, bought |-> 0, used |-> 0], m))
    BY <1>1, <2>1, ApplyWalletSound
  <2> QED
    BY <2>2, <2>3
<1>3. CASE ~(a.allowance > 0)
  BY <1>3 DEF ExpireAllowance
<1> QED
  BY <1>2, <1>3

-----------------------------------------------------------------------------
(* The inductive invariant.                                                *)

USE BillingAssumption

\* What subscriptions_one_live_per_user promises.
OneActive == \A u \in Users : \A s, t \in ActiveSubs(u) : s = t

\* The rows a job or a cancel remembers are never deleted.
DueKept == \A w \in Workers : \A row \in Due(w) : sub[row.id] # NoRow

CancelKept ==
  \A c \in Clients : op[c] # Idle /\ op[c].step = "cancel" => sub[op[c].sub] # NoRow

AccountsSound == \A u \in Users : Sound(account[u])

IInv == TypeOK /\ OneActive /\ DueKept /\ CancelKept /\ AccountsSound

-----------------------------------------------------------------------------
(* Facts about the queries and the rows.                                   *)

(* A user inside a paid period has one subscription, and it is the one     *)
(* LiveSubscription finds.                                                 *)
LEMMA LiveIsOne ==
  ASSUME TypeOK, OneActive, NEW u \in Users, LiveSubs(u) # {}
  PROVE  /\ LiveSubscription(u) \in LiveSubs(u)
         /\ LiveSubs(u) = {LiveSubscription(u)}
         /\ LiveSubscription(u) \in Payments
         /\ sub[LiveSubscription(u)] \in SubRow
<1>1. PICK s \in LiveSubs(u) : TRUE
  OBVIOUS
<1>2. s \in Payments /\ sub[s] \in SubRow /\ s \in ActiveSubs(u)
  BY <1>1 DEF LiveSubs, ActiveSubs, TypeOK
<1>3. LiveSubs(u) = {s}
  BY <1>1 DEF LiveSubs, OneActive
<1>4. sub[s].endsAt <= sub[s].endsAt
  BY <1>2 DEF SubRow
<1>5. LiveSubscription(u) = s
  BY <1>3, <1>4 DEF LiveSubscription
<1> QED
  BY <1>2, <1>3, <1>5

(* A new period starts at a date, whether it extends another or not.       *)
LEMMA PeriodStartTyped ==
  ASSUME TypeOK, OneActive, NEW u \in Users
  PROVE  PeriodStart(u) \in Nat
<1>1. CASE LiveSubs(u) = {}
  BY <1>1 DEF PeriodStart, TypeOK
<1>2. CASE LiveSubs(u) # {}
  BY <1>2, LiveIsOne DEF PeriodStart, SubRow
<1> QED
  BY <1>1, <1>2

(* The row ActivateSubscription inserts, at least a month long.            *)
LEMMA NewSubscriptionTyped ==
  ASSUME TypeOK, OneActive, NEW u \in Users, NEW plan \in Plans
  PROVE  /\ NewSubscription(u, plan) \in SubRow
         /\ NewSubscription(u, plan).user = u
<1> DEFINE starts == PeriodStart(u)
           months == PlanMonths(plan)
           next == IF months > 1 /\ Plan[plan].monthly > 0 THEN starts + 1 ELSE Never
<1>1. starts \in Nat
  BY PeriodStartTyped
<1>2. Plan[plan].months \in Nat
  BY DEF PlanRow
<1>3. months \in Nat
  BY <1>2 DEF PlanMonths
<1>4. NewSubscription(u, plan) =
        [user |-> u, plan |-> plan, status |-> "active", startsAt |-> starts,
         endsAt |-> starts + months, nextGrantAt |-> next,
         grantsMade |-> 0, cancelled |-> FALSE]
  BY DEF NewSubscription
<1> HIDE DEF starts, months
<1>5. next \in Nat /\ starts + months \in Nat
  BY <1>1, <1>3 DEF Never
<1> HIDE DEF next
<1> QED
  BY <1>1, <1>4, <1>5 DEF SubRow

(* A plan's grant keeps every account in order.                            *)
LEMMA PlanGrantSound ==
  ASSUME NEW a, Sound(a), now \in Nat, NEW plan \in Plans, NEW rolls \in BOOLEAN
  PROVE  /\ Sound(Grant(a, Plan[plan].monthly, Plan[plan].signup, rolls, now))
         /\ Sound(Grant(a, Plan[plan].monthly, 0, rolls, now))
<1>1. Plan[plan].monthly \in Nat /\ Plan[plan].signup \in Nat /\ 0 \in Nat
  BY DEF PlanRow
<1> QED
  BY <1>1, GrantSound

-----------------------------------------------------------------------------
(* Steps that write one account, or none.                                  *)

(* A step that leaves the subscriptions and what is remembered of them     *)
(* alone keeps the index and the remembered rows.                          *)
LEMMA RowsUntouched ==
  ASSUME IInv, UNCHANGED <<sub, op, job>>
  PROVE  OneActive' /\ DueKept' /\ CancelKept'
<1>1. OneActive'
  BY DEF IInv, OneActive, ActiveSubs
<1>2. DueKept'
  BY DEF IInv, DueKept, Due
<1>3. CancelKept'
  BY DEF IInv, CancelKept
<1> QED
  BY <1>1, <1>2, <1>3

(* A step that replaces one account by a sound one keeps all sound.        *)
LEMMA AccountReplaced ==
  ASSUME IInv, NEW u \in Users, NEW a, Sound(a),
         account' = [account EXCEPT ![u] = a]
  PROVE  AccountsSound' /\ account' \in [Users -> Account]
<1>1. account \in [Users -> Account] /\ a \in Account
  BY DEF IInv, TypeOK, Sound
<1>2. \A v \in Users : account'[v] = IF v = u THEN a ELSE account[v]
  BY <1>1
<1>3. AccountsSound'
  BY <1>2 DEF IInv, AccountsSound
<1> QED
  BY <1>1, <1>3

-----------------------------------------------------------------------------
(* IInv is preserved: one lemma for the steps of each actor.               *)

(* Time passing and registration.                                          *)
LEMMA AccountSteps ==
  ASSUME IInv, Tick \/ \E u \in Users : Register(u)
  PROVE  IInv'
<1>1. CASE Tick
  <2>1. TypeOK'
    BY <1>1 DEF IInv, TypeOK, Tick
  <2>2. AccountsSound'
    BY <1>1 DEF IInv, AccountsSound, Tick
  <2> QED
    BY <1>1, <2>1, <2>2, RowsUntouched DEF IInv, Tick
<1>2. ASSUME NEW u \in Users, Register(u)
      PROVE  IInv'
  <2>1. Sound(account[u]) /\ now \in Nat
    BY DEF IInv, AccountsSound, TypeOK
  <2>2. Sound(ProvisionNewUser(account[u], now))
    BY <2>1, ProvisionNewUserSound
  <2>3. AccountsSound' /\ account' \in [Users -> Account]
    BY <1>2, <2>2, AccountReplaced DEF Register
  <2>4. user' \in [Users -> UserRow \union {NoRow}]
    BY <1>2 DEF Register, IInv, TypeOK, UserRow, Never
  <2>5. TypeOK'
    BY <1>2, <2>3, <2>4 DEF Register, IInv, TypeOK
  <2> QED
    BY <1>2, <2>3, <2>5, RowsUntouched DEF IInv, Register
<1> QED
  BY <1>1, <1>2

(* A step that only moves a client on, and remembers at most a row that is *)
(* there.                                                                  *)
LEMMA ClientMoves ==
  ASSUME IInv, NEW c \in Clients, NEW o \in CheckoutOp \union CancelOp \union {Idle},
         op' = [op EXCEPT ![c] = o],
         o # Idle /\ o.step = "cancel" => sub[o.sub] # NoRow,
         UNCHANGED <<now, user, account, sub, request, job, applied>>,
         payment' \in [Payments -> PaymentRow \union {NoRow}]
  PROVE  IInv'
<1>1. TypeOK'
  BY DEF IInv, TypeOK
<1>2. OneActive'
  BY DEF IInv, OneActive, ActiveSubs
<1>3. DueKept'
  BY DEF IInv, DueKept, Due
<1>4. \A d \in Clients : op'[d] = IF d = c THEN o ELSE op[d]
  BY DEF IInv, TypeOK
<1>5. CancelKept'
  BY <1>4 DEF IInv, CancelKept
<1>6. AccountsSound'
  BY DEF IInv, AccountsSound
<1> QED
  BY <1>1, <1>2, <1>3, <1>5, <1>6 DEF IInv

(* What a checkout has in flight before it looks for its key.              *)
LEMMA CheckoutOpTyped ==
  ASSUME NEW u \in Users, NEW kind, NEW code, NEW key \in Keys \union {NoKey},
         NEW step \in {"find", "create"},
         \/ kind = "subscription" /\ code \in Plans
         \/ kind = "credit_pack" /\ code \in Packs
  PROVE  [step |-> step, user |-> u, kind |-> kind, code |-> code, key |-> key]
           \in CheckoutOp
  BY DEF CheckoutOp

(* A step that rewrites subscription rows one by one, none of which        *)
(* becomes active again, keeps the index and the rows.                     *)
LEMMA RowsRewritten ==
  ASSUME IInv, sub' \in [Payments -> SubRow \union {NoRow}],
         \A s \in Payments : sub'[s] # NoRow <=> sub[s] # NoRow,
         \A s \in Payments : sub[s] # NoRow =>
           /\ sub'[s].user = sub[s].user
           /\ sub'[s].status = "active" => sub[s].status = "active"
  PROVE  /\ OneActive'
         /\ \A w \in Workers : \A row \in Due(w) : sub'[row.id] # NoRow
         /\ op' = op => CancelKept'
<1>1. \A u \in Users : ActiveSubs(u)' \subseteq ActiveSubs(u)
  BY DEF ActiveSubs
<1>2. OneActive'
  BY <1>1 DEF IInv, OneActive
<1>3. \A w \in Workers : \A row \in Due(w) : row.id \in Payments /\ sub[row.id] # NoRow
  BY DEF IInv, TypeOK, DueKept, Due, Job, DueRow
<1>4. ASSUME op' = op PROVE CancelKept'
  <2>1. \A c \in Clients : op[c] # Idle /\ op[c].step = "cancel" => op[c].sub \in Payments
    BY DEF IInv, TypeOK, CheckoutOp, CancelOp
  <2> QED
    BY <1>4, <2>1 DEF IInv, CancelKept
<1> QED
  BY <1>2, <1>3, <1>4

(* Cancelling marks the row the client looked up.                          *)
LEMMA CancelStep ==
  ASSUME IInv, NEW c \in Clients, CancelSubscription(c)
  PROVE  IInv' /\ \A t \in Payments : sub'[t] # NoRow <=> sub[t] # NoRow
<1> DEFINE s == op[c].sub
           row == [sub[s] EXCEPT !.cancelled = TRUE]
<1>1. op[c] \in CancelOp /\ s \in Payments /\ sub[s] # NoRow
  BY DEF IInv, TypeOK, CancelSubscription, CancelKept, CheckoutOp, CancelOp
<1>2. sub[s] \in SubRow
  BY <1>1 DEF IInv, TypeOK
<1>3. row \in SubRow /\ row.user = sub[s].user /\ row.status = sub[s].status
  BY <1>2 DEF SubRow
<1>4. sub \in [Payments -> SubRow \union {NoRow}]
  BY DEF IInv, TypeOK
<1>5. sub' = [sub EXCEPT ![s] = row] /\ op' = [op EXCEPT ![c] = Idle]
  BY DEF CancelSubscription
<1> HIDE DEF s, row
<1>6. /\ sub' \in [Payments -> SubRow \union {NoRow}]
      /\ \A t \in Payments : sub'[t] # NoRow <=> sub[t] # NoRow
      /\ \A t \in Payments : sub[t] # NoRow =>
           sub'[t].user = sub[t].user /\ sub'[t].status = sub[t].status
  BY <1>1, <1>3, <1>4, <1>5
<1>7. OneActive' /\ \A w \in Workers : \A r \in Due(w) : sub'[r.id] # NoRow
  BY <1>6, RowsRewritten
<1>8. DueKept'
  BY <1>7 DEF DueKept, Due, CancelSubscription
<1>9. op' \in [Clients -> CheckoutOp \union CancelOp \union {Idle}]
  BY <1>5 DEF IInv, TypeOK
<1>10. CancelKept'
  <2>1. \A d \in Clients : op'[d] = IF d = c THEN Idle ELSE op[d]
    BY <1>5 DEF IInv, TypeOK
  <2>2. \A d \in Clients : op[d] # Idle /\ op[d].step = "cancel" => op[d].sub \in Payments
    BY DEF IInv, TypeOK, CheckoutOp, CancelOp
  <2> QED
    BY <1>6, <2>1, <2>2 DEF IInv, CancelKept
<1>11. TypeOK'
  BY <1>6, <1>9 DEF IInv, TypeOK, CancelSubscription
<1>12. AccountsSound'
  BY DEF IInv, AccountsSound, CancelSubscription
<1> QED
  BY <1>6, <1>7, <1>8, <1>10, <1>11, <1>12 DEF IInv

(* The steps of a client's request.                                        *)
LEMMA CheckoutSteps ==
  ASSUME IInv, CheckoutStep
  PROVE  IInv'
<1>0. /\ payment \in [Payments -> PaymentRow \union {NoRow}]
      /\ \A c \in Clients : op[c] \in CheckoutOp \union CancelOp \union {Idle}
  BY DEF IInv, TypeOK
<1>1. ASSUME NEW c \in Clients, NEW u \in Users, NEW kind, NEW code,
             NEW key \in Keys \union {NoKey},
             \/ kind = "subscription" /\ code \in Plans
             \/ kind = "credit_pack" /\ code \in Packs,
             StartCheckout(c, u, kind, code, key)
      PROVE  IInv'
  <2> DEFINE step == IF key = NoKey THEN "create" ELSE "find"
             o == [step |-> step, user |-> u, kind |-> kind, code |-> code, key |-> key]
  <2>1. step \in {"find", "create"}
    OBVIOUS
  <2>2. o \in CheckoutOp
    BY <1>1, <2>1, CheckoutOpTyped
  <2>3. o.step # "cancel"
    OBVIOUS
  <2>4. /\ op' = [op EXCEPT ![c] = o] /\ payment' = payment
        /\ UNCHANGED <<now, user, account, sub, request, job, applied>>
    BY <1>1 DEF StartCheckout
  <2> HIDE DEF o
  <2> QED
    BY <1>0, <2>2, <2>3, <2>4, ClientMoves
<1>2. ASSUME NEW c \in Clients, NEW u \in Users, NEW plan \in Plans,
             NEW key \in Keys \union {NoKey},
             StartSubscriptionCheckout(c, u, plan, key)
      PROVE  IInv'
  BY <1>1, <1>2 DEF StartSubscriptionCheckout
<1>3. ASSUME NEW c \in Clients, NEW u \in Users, NEW pack \in Packs,
             NEW key \in Keys \union {NoKey},
             StartPackCheckout(c, u, pack, key)
      PROVE  IInv'
  BY <1>1, <1>3 DEF StartPackCheckout
<1>4. ASSUME NEW c \in Clients, NEW u \in Users, LookUpForCancel(c, u)
      PROVE  IInv'
  <2> DEFINE s == LiveSubscription(u)
             o == [step |-> "cancel", sub |-> s]
  <2>1. s \in Payments /\ sub[s] \in SubRow
    BY <1>4, LiveIsOne DEF LookUpForCancel, IInv
  <2>2. sub[s] # NoRow
    BY <2>1
  <2> HIDE DEF s
  <2>3. o \in CancelOp /\ o.sub = s
    BY <2>1 DEF CancelOp
  <2>4. /\ op' = [op EXCEPT ![c] = o] /\ payment' = payment
        /\ UNCHANGED <<now, user, account, sub, request, job, applied>>
    BY <1>4 DEF LookUpForCancel, s
  <2> HIDE DEF o
  <2> QED
    BY <1>0, <2>2, <2>3, <2>4, ClientMoves
<1>5. ASSUME NEW c \in Clients, FindPaymentByIdempotencyKey(c)
      PROVE  IInv'
  <2> DEFINE next == [op[c] EXCEPT !.step = "create"]
             o == IF PaymentsWithKey(op[c].user, op[c].key) = {} THEN next ELSE Idle
  <2>1. op[c] \in CheckoutOp
    BY <1>0, <1>5 DEF FindPaymentByIdempotencyKey, CancelOp
  <2>2. next \in CheckoutOp /\ next.step = "create"
    BY <2>1 DEF CheckoutOp
  <2>3. /\ op' = [op EXCEPT ![c] = o] /\ payment' = payment
        /\ UNCHANGED <<now, user, account, sub, request, job, applied>>
    BY <1>5 DEF FindPaymentByIdempotencyKey, IInv, TypeOK
  <2> HIDE DEF next
  <2>4. /\ o \in CheckoutOp \union CancelOp \union {Idle}
        /\ o # Idle => o.step = "create"
    BY <2>2
  <2> HIDE DEF o
  <2> QED
    BY <1>0, <2>3, <2>4, ClientMoves
<1>6. ASSUME NEW c \in Clients, NEW p \in Payments, CreatePayment(c, p)
      PROVE  IInv'
  <2> DEFINE row == [user |-> op[c].user, kind |-> op[c].kind, code |-> op[c].code,
                     key |-> op[c].key, ref |-> NoRef, status |-> "pending"]
  <2>1. op[c] \in CheckoutOp
    BY <1>0, <1>6 DEF CreatePayment, CancelOp
  <2>2. row \in PaymentRow
    BY <2>1 DEF CheckoutOp, PaymentRow
  <2>3. /\ op' = [op EXCEPT ![c] = Idle]
        /\ payment' \in {payment, [payment EXCEPT ![p] = row]}
        /\ UNCHANGED <<now, user, account, sub, request, job, applied>>
    BY <1>6 DEF CreatePayment
  <2> HIDE DEF row
  <2>4. payment' \in [Payments -> PaymentRow \union {NoRow}]
    BY <1>0, <2>2, <2>3
  <2> QED
    BY <2>3, <2>4, ClientMoves
<1>7. ASSUME NEW c \in Clients, DropClient(c)
      PROVE  IInv'
  <2>1. /\ op' = [op EXCEPT ![c] = Idle] /\ payment' = payment
        /\ UNCHANGED <<now, user, account, sub, request, job, applied>>
    BY <1>7 DEF DropClient
  <2> QED
    BY <1>0, <2>1, ClientMoves
<1> QED
  BY <1>2, <1>3, <1>4, <1>5, <1>6, <1>7, CancelStep DEF CheckoutStep

-----------------------------------------------------------------------------
(* Payments.                                                               *)

(* Activating closes the user's live row and inserts the new one; since no *)
(* other row of the user may be active, the index holds afterwards.        *)
LEMMA ActivationKeepsIndex ==
  ASSUME IInv, NEW p \in Payments, NEW u \in Users, NEW plan \in Plans,
         ActivateSubscription(p, u, plan)
  PROVE  /\ sub' \in [Payments -> SubRow \union {NoRow}]
         /\ \A s \in Payments : sub'[s] # NoRow <=> s = p \/ sub[s] # NoRow
         /\ OneActive'
<1> DEFINE row == NewSubscription(u, plan)
<1>1. row \in SubRow /\ row.user = u
  BY NewSubscriptionTyped DEF IInv
<1>2. sub \in [Payments -> SubRow \union {NoRow}]
  BY DEF IInv, TypeOK
<1>3. \A s \in Payments :
        /\ CloseCurrent(u)[s] \in SubRow \union {NoRow}
        /\ CloseCurrent(u)[s] = NoRow <=> sub[s] = NoRow
        /\ sub[s] # NoRow =>
             /\ CloseCurrent(u)[s].user = sub[s].user
             /\ CloseCurrent(u)[s].status = "active" =>
                  sub[s].status = "active" /\ ~(LiveSubs(u) # {} /\ s = LiveSubscription(u))
  <2> SUFFICES ASSUME NEW s \in Payments
               PROVE  /\ CloseCurrent(u)[s] \in SubRow \union {NoRow}
                      /\ CloseCurrent(u)[s] = NoRow <=> sub[s] = NoRow
                      /\ sub[s] # NoRow =>
                           /\ CloseCurrent(u)[s].user = sub[s].user
                           /\ CloseCurrent(u)[s].status = "active" =>
                                sub[s].status = "active"
                                /\ ~(LiveSubs(u) # {} /\ s = LiveSubscription(u))
    OBVIOUS
  <2>1. CASE LiveSubs(u) # {} /\ s = LiveSubscription(u)
    <3>1. sub[s] \in SubRow
      BY <2>1, LiveIsOne DEF IInv
    <3>2. CloseCurrent(u)[s] = [sub[s] EXCEPT !.status = "expired"]
      BY <2>1 DEF CloseCurrent
    <3>3. CloseCurrent(u)[s] \in SubRow /\ CloseCurrent(u)[s].status = "expired"
          /\ CloseCurrent(u)[s].user = sub[s].user
      BY <3>1, <3>2 DEF SubRow
    <3> QED
      BY <3>1, <3>3
  <2>2. CASE ~(LiveSubs(u) # {} /\ s = LiveSubscription(u))
    <3>1. CloseCurrent(u)[s] = sub[s]
      BY <2>2 DEF CloseCurrent
    <3> QED
      BY <1>2, <2>2, <3>1
  <2> QED
    BY <2>1, <2>2
<1>4. CloseCurrent(u) \in [Payments -> SubRow \union {NoRow}]
  BY <1>3 DEF CloseCurrent
<1>5. sub' = [CloseCurrent(u) EXCEPT ![p] = row] /\ MayActivate(u)
  BY DEF ActivateSubscription
<1> HIDE DEF row
<1>6. sub' \in [Payments -> SubRow \union {NoRow}]
      /\ \A s \in Payments : sub'[s] = IF s = p THEN row ELSE CloseCurrent(u)[s]
  BY <1>1, <1>4, <1>5
<1>7. \A s \in Payments : sub'[s] # NoRow <=> s = p \/ sub[s] # NoRow
  BY <1>1, <1>3, <1>6
<1>8. \A s \in ActiveSubs(u)' : s = p
  <2> SUFFICES ASSUME NEW s \in ActiveSubs(u)', s # p
               PROVE  FALSE
    OBVIOUS
  <2>1. /\ s \in Payments /\ sub'[s] = CloseCurrent(u)[s]
        /\ sub'[s] # NoRow /\ sub'[s].user = u /\ sub'[s].status = "active"
    BY <1>6 DEF ActiveSubs
  <2>2. s \in ActiveSubs(u) /\ ~(LiveSubs(u) # {} /\ s = LiveSubscription(u))
    BY <1>3, <2>1 DEF ActiveSubs
  <2> QED
    BY <1>5, <2>2 DEF MayActivate
<1>9. \A v \in Users : v # u => ActiveSubs(v)' \subseteq ActiveSubs(v)
  <2> SUFFICES ASSUME NEW v \in Users, v # u, NEW s \in ActiveSubs(v)'
               PROVE  s \in ActiveSubs(v)
    OBVIOUS
  <2>1. /\ s \in Payments /\ sub'[s] = CloseCurrent(u)[s]
        /\ sub'[s] # NoRow /\ sub'[s].user = v /\ sub'[s].status = "active"
    BY <1>1, <1>6 DEF ActiveSubs
  <2> QED
    BY <1>3, <2>1 DEF ActiveSubs
<1>10. OneActive'
  <2> SUFFICES ASSUME NEW v \in Users, NEW s \in ActiveSubs(v)', NEW t \in ActiveSubs(v)'
               PROVE  s = t
    BY DEF OneActive
  <2> QED
    BY <1>8, <1>9 DEF IInv, OneActive
<1> QED
  BY <1>6, <1>7, <1>10

(* Settling a payment: the payment, the wallet, the plan and the period in *)
(* one step.                                                               *)
LEMMA ConfirmStep ==
  ASSUME IInv, NEW p \in Payments, NEW ref \in Refs \union {NoRef},
         ConfirmPayment(p, ref)
  PROVE  IInv'
<1> DEFINE u == payment[p].user
           paid == [payment[p] EXCEPT !.status = "paid",
                                      !.ref = IF ref = NoRef THEN @ ELSE ref]
<1>1. payment[p] \in PaymentRow
  BY DEF ConfirmPayment, IInv, TypeOK
<1>2. u \in Users
  BY <1>1 DEF PaymentRow
<1>3. paid \in PaymentRow
  BY <1>1 DEF PaymentRow
<1>4. payment' = [payment EXCEPT ![p] = paid]
  BY <1>1 DEF ConfirmPayment
<1> HIDE DEF paid
<1>5. payment' \in [Payments -> PaymentRow \union {NoRow}]
  BY <1>3, <1>4 DEF IInv, TypeOK
<1>6. applied' \in [Payments -> Nat]
  BY DEF ConfirmPayment, IInv, TypeOK
<1>7. Sound(account[u]) /\ now \in Nat
  BY <1>2 DEF IInv, AccountsSound, TypeOK
<1>8. CASE payment[p].kind = "subscription"
           /\ ActivateSubscription(p, u, payment[p].code)
  <2> DEFINE plan == payment[p].code
             row == NewSubscription(u, plan)
  <2>1. plan \in Plans
    BY <1>1, <1>8 DEF PaymentRow
  <2>2. row \in SubRow
    BY <1>2, <2>1, NewSubscriptionTyped DEF IInv
  <2>3. Plan[plan].rollsOver \in BOOLEAN
    BY <2>1 DEF PlanRow
  <2>4. Sound(Grant(account[u], Plan[plan].monthly, Plan[plan].signup,
                    Plan[plan].rollsOver, now))
    BY <1>7, <2>1, <2>3, PlanGrantSound
  <2> HIDE DEF plan, u
  <2>5. AccountsSound' /\ account' \in [Users -> Account]
    BY <1>2, <1>8, <2>4, AccountReplaced DEF ActivateSubscription, u, plan
  <2>6. user' \in [Users -> UserRow \union {NoRow}]
    BY <1>8, <2>1, <2>2 DEF ActivateSubscription, IInv, TypeOK, UserRow, SubRow, plan, u
  <2>7. /\ sub' \in [Payments -> SubRow \union {NoRow}]
        /\ \A s \in Payments : sub'[s] # NoRow <=> s = p \/ sub[s] # NoRow
        /\ OneActive'
    BY <1>2, <1>8, <2>1, ActivationKeepsIndex DEF plan, u
  <2>8. DueKept' /\ CancelKept'
    <3>1. \A w \in Workers : \A r \in Due(w) : r.id \in Payments /\ sub[r.id] # NoRow
      BY DEF IInv, TypeOK, DueKept, Due, Job, DueRow
    <3>2. \A c \in Clients : op[c] # Idle /\ op[c].step = "cancel" =>
            op[c].sub \in Payments /\ sub[op[c].sub] # NoRow
      BY DEF IInv, TypeOK, CancelKept, CheckoutOp, CancelOp
    <3>3. job' = job /\ op' = op
      BY DEF ConfirmPayment
    <3> QED
      BY <2>7, <3>1, <3>2, <3>3 DEF DueKept, CancelKept, Due
  <2>9. TypeOK'
    BY <1>5, <1>6, <2>5, <2>6, <2>7 DEF ConfirmPayment, IInv, TypeOK
  <2> QED
    BY <2>5, <2>7, <2>8, <2>9 DEF IInv
<1>9. CASE payment[p].kind = "credit_pack" /\ CreditPack(u, payment[p].code)
  <2> DEFINE credits == PackCredits[payment[p].code]
  <2>1. credits \in Nat /\ 0 \in Nat
    BY <1>1, <1>9 DEF PaymentRow
  <2> HIDE DEF credits
  <2>2. Sound(Grant(account[u], 0, credits, FALSE, now))
    BY <1>7, <2>1, GrantSound
  <2> HIDE DEF u
  <2>3. AccountsSound' /\ account' \in [Users -> Account]
    BY <1>2, <1>9, <2>2, AccountReplaced DEF CreditPack, credits
  <2>4. UNCHANGED <<now, user, sub, op, request, job>>
    BY <1>9 DEF CreditPack, ConfirmPayment
  <2>5. OneActive' /\ DueKept' /\ CancelKept'
    BY <2>4, RowsUntouched
  <2>6. TypeOK'
    BY <1>5, <1>6, <2>3, <2>4 DEF IInv, TypeOK
  <2> QED
    BY <2>3, <2>5, <2>6 DEF IInv
<1> QED
  BY <1>8, <1>9 DEF ConfirmPayment

-----------------------------------------------------------------------------
(* Gated AI calls.                                                         *)

(* A request moves on and writes at most one account, soundly.             *)
LEMMA RequestMoves ==
  ASSUME IInv, NEW r \in Requests, NEW q \in Request \union {Idle},
         request' = [request EXCEPT ![r] = q],
         AccountsSound', account' \in [Users -> Account],
         UNCHANGED <<now, user, payment, sub, op, job, applied>>
  PROVE  IInv'
<1>1. TypeOK'
  BY DEF IInv, TypeOK
<1>2. OneActive' /\ DueKept' /\ CancelKept'
  BY RowsUntouched
<1> QED
  BY <1>1, <1>2 DEF IInv

(* A wallet Spend finds payable can pay: the debit is sound.               *)
LEMMA SpendSound ==
  ASSUME IInv, NEW u \in Users, NEW f \in Features, Payable(u, f)
  PROVE  Sound(Debit(LockOrProvision(account[u], now), Feature[f].cost, now))
<1> DEFINE w == LockOrProvision(account[u], now)
           cost == Feature[f].cost
<1>1. Sound(account[u]) /\ now \in Nat
  BY DEF IInv, AccountsSound, TypeOK
<1>2. Sound(w)
  BY <1>1, LockOrProvisionSound
<1>3. cost \in Nat
  BY DEF FeatureRow
<1>4. Affordable(w, cost)
  BY DEF Payable
<1> HIDE DEF w, cost
<1>5. Sound(Debit(w, cost, now))
  BY <1>1, <1>2, <1>3, <1>4, DebitSound
<1> QED
  BY <1>5 DEF w, cost

(* The steps of a gated call.                                              *)
LEMMA RequestSteps ==
  ASSUME IInv, RequestStep
  PROVE  IInv'
<1>0. AccountsSound /\ account \in [Users -> Account] /\ now \in Nat
  BY DEF IInv, TypeOK
<1>1. ASSUME account' = account
      PROVE  AccountsSound' /\ account' \in [Users -> Account]
  BY <1>0, <1>1 DEF AccountsSound
<1>2. ASSUME NEW r \in Requests, NEW u \in Users, NEW f \in Features,
             MeetMissingWallet(r, u, f) \/ CheckAccess(r, u, f)
      PROVE  IInv'
  <2>1. PICK step \in {"heal", "admitted"} :
          request' = [request EXCEPT ![r] = [step |-> step, user |-> u, feature |-> f]]
    BY <1>2 DEF MeetMissingWallet, CheckAccess
  <2>2. [step |-> step, user |-> u, feature |-> f] \in Request
    BY DEF Request
  <2>3. UNCHANGED <<now, user, account, payment, sub, op, job, applied>>
    BY <1>2 DEF MeetMissingWallet, CheckAccess
  <2> QED
    BY <1>1, <2>1, <2>2, <2>3, RequestMoves
<1>3. ASSUME NEW r \in Requests, RefuseSpend(r) \/ EndRequest(r)
      PROVE  IInv'
  <2>1. /\ request' = [request EXCEPT ![r] = Idle]
        /\ UNCHANGED <<now, user, account, payment, sub, op, job, applied>>
    BY <1>3 DEF RefuseSpend, EndRequest
  <2> QED
    BY <1>1, <2>1, RequestMoves
<1>4. ASSUME NEW r \in Requests, request[r] # Idle
      PROVE  /\ request[r] \in Request
             /\ request[r].user \in Users /\ request[r].feature \in Features
             /\ Sound(account[request[r].user])
  BY <1>0, <1>4 DEF IInv, TypeOK, Request, AccountsSound
<1>5. ASSUME NEW r \in Requests, HealWallet(r)
      PROVE  IInv'
  <2> DEFINE u == request[r].user
  <2>1. u \in Users /\ Sound(account[u])
    BY <1>4, <1>5 DEF HealWallet
  <2>2. Sound(ProvisionNewUser(account[u], now))
    BY <1>0, <2>1, ProvisionNewUserSound
  <2>3. AccountsSound' /\ account' \in [Users -> Account]
    BY <1>5, <2>1, <2>2, AccountReplaced DEF HealWallet
  <2> QED
    BY <1>5, <2>3, RequestMoves DEF HealWallet
<1>6. ASSUME NEW r \in Requests, Spend(r)
      PROVE  IInv'
  <2> DEFINE u == request[r].user
             f == request[r].feature
             q == [request[r] EXCEPT !.step = "charged"]
  <2>1. request[r] \in Request /\ u \in Users /\ f \in Features /\ Payable(u, f)
    BY <1>4, <1>6 DEF Spend
  <2>2. Sound(Debit(LockOrProvision(account[u], now), Feature[f].cost, now))
    BY <2>1, SpendSound
  <2>3. account' = [account EXCEPT ![u] =
                      Debit(LockOrProvision(account[u], now), Feature[f].cost, now)]
    BY <1>6 DEF Spend
  <2>4. AccountsSound' /\ account' \in [Users -> Account]
    BY <2>1, <2>2, <2>3, AccountReplaced
  <2>5. q \in Request
    BY <2>1 DEF Request
  <2>6. request' = [request EXCEPT ![r] = q]
        /\ UNCHANGED <<now, user, payment, sub, op, job, applied>>
    BY <1>6 DEF Spend
  <2> HIDE DEF q
  <2> QED
    BY <2>4, <2>5, <2>6, RequestMoves
<1>7. ASSUME NEW r \in Requests, Refund(r)
      PROVE  IInv'
  <2> DEFINE u == request[r].user
             cost == Feature[request[r].feature].cost
  <2>1. u \in Users /\ Sound(account[u]) /\ cost \in Nat
    BY <1>4, <1>7 DEF Refund, FeatureRow
  <2>2. Sound(RefundCredits(account[u], cost, now))
    BY <1>0, <2>1, RefundCreditsSound
  <2>3. account' = [account EXCEPT ![u] = RefundCredits(account[u], cost, now)]
    BY <1>7 DEF Refund
  <2>4. AccountsSound' /\ account' \in [Users -> Account]
    BY <2>1, <2>2, <2>3, AccountReplaced
  <2> QED
    BY <1>7, <2>4, RequestMoves DEF Refund
<1> QED
  BY <1>2, <1>3, <1>5, <1>6, <1>7 DEF RequestStep

-----------------------------------------------------------------------------
(* The maintenance jobs.                                                   *)

(* A job that lists rows, or is done with one, remembers only rows that    *)
(* are there.                                                              *)
LEMMA JobMoves ==
  ASSUME IInv, NEW w \in Workers, NEW kind \in {"expire", "refill"},
         NEW due \in SUBSET DueRow, \A row \in due : sub'[row.id] # NoRow,
         \A v \in Workers : \A row \in Due(v) : sub'[row.id] # NoRow,
         job' = [job EXCEPT ![w] = RunOn(kind, due)]
  PROVE  job' \in [Workers -> Job \union {Idle}] /\ DueKept'
<1> DEFINE j == RunOn(kind, due)
<1>1. j \in Job \union {Idle} /\ (j # Idle => j.due = due)
  BY DEF RunOn, Job
<1>2. job \in [Workers -> Job \union {Idle}]
  BY DEF IInv, TypeOK
<1> HIDE DEF j
<1>3. \A v \in Workers : job'[v] = IF v = w THEN j ELSE job[v]
  BY <1>2 DEF j
<1>4. \A v \in Workers : Due(v)' \subseteq Due(v) \union due
  BY <1>1, <1>3 DEF Due
<1>5. DueKept'
  BY <1>4 DEF DueKept
<1> QED
  BY <1>1, <1>2, <1>5 DEF j

(* Listing what is due.                                                    *)
LEMMA ListSteps ==
  ASSUME IInv, NEW w \in Workers, ListDueForExpiry(w) \/ ListDueForGrant(w)
  PROVE  IInv'
<1>1. PICK kind \in {"expire", "refill"}, ids \in SUBSET (DueForExpiry \union DueForGrant) :
        ListDue(w, kind, ids)
  BY DEF ListDueForExpiry, ListDueForGrant, Batches
<1>2. ids \subseteq {s \in Payments : sub[s] # NoRow}
  BY DEF DueForExpiry, DueForGrant
<1>3. \A s \in ids : sub[s] \in SubRow /\ sub[s].grantsMade \in Nat
  BY <1>2 DEF IInv, TypeOK, SubRow
<1>4. Listed(ids) \in SUBSET DueRow /\ \A row \in Listed(ids) : row.id \in ids
  BY <1>2, <1>3 DEF Listed, DueRow
<1> DEFINE due == Listed(ids)
<1>5. /\ job' = [job EXCEPT ![w] = RunOn(kind, due)]
      /\ UNCHANGED <<now, user, account, payment, sub, op, request, applied>>
  BY <1>1 DEF ListDue
<1>6. due \in SUBSET DueRow /\ \A row \in due : sub'[row.id] # NoRow
  BY <1>2, <1>4, <1>5
<1>7. \A v \in Workers : \A row \in Due(v) : sub'[row.id] # NoRow
  BY <1>5 DEF IInv, DueKept
<1> HIDE DEF due
<1>8. job' \in [Workers -> Job \union {Idle}] /\ DueKept'
  BY <1>5, <1>6, <1>7, JobMoves
<1>9. TypeOK'
  BY <1>5, <1>8 DEF IInv, TypeOK
<1>10. OneActive'
  BY <1>5 DEF IInv, OneActive, ActiveSubs
<1>11. CancelKept' /\ AccountsSound'
  BY <1>5 DEF IInv, CancelKept, AccountsSound
<1> QED
  BY <1>8, <1>9, <1>10, <1>11 DEF IInv

(* The row a job works on is a subscription of a user.                     *)
LEMMA ListedRow ==
  ASSUME IInv, NEW w \in Workers, NEW row \in Due(w)
  PROVE  /\ row.id \in Payments /\ sub[row.id] \in SubRow
         /\ row.grantsMade \in Nat
         /\ sub[row.id].user \in Users /\ sub[row.id].plan \in Plans
         /\ job[w].kind \in {"expire", "refill"}
         /\ Due(w) \in SUBSET DueRow /\ job[w].due = Due(w)
<1>1. row \in DueRow /\ job[w] \in Job /\ Due(w) = job[w].due
  BY DEF IInv, TypeOK, Due, Job
<1>2. row.id \in Payments /\ row.grantsMade \in Nat
  BY <1>1 DEF DueRow
<1>3. sub[row.id] \in SubRow
  BY <1>2 DEF IInv, TypeOK, DueKept
<1> QED
  BY <1>1, <1>2, <1>3 DEF SubRow, Job

(* A job rewrites the row it works on and the account of its user.         *)
LEMMA JobWrites ==
  ASSUME IInv, NEW w \in Workers, NEW row \in Due(w), NEW new \in SubRow,
         new.user = sub[row.id].user,
         new.status = "active" => sub[row.id].status = "active",
         NEW a, Sound(a),
         sub' = [sub EXCEPT ![row.id] = new],
         account' = [account EXCEPT ![sub[row.id].user] = a],
         user' \in [Users -> UserRow \union {NoRow}],
         NextRow(w, row),
         UNCHANGED <<now, payment, op, request, applied>>
  PROVE  IInv' /\ \A s \in Payments : sub'[s] # NoRow <=> sub[s] # NoRow
<1>1. /\ row.id \in Payments /\ sub[row.id] \in SubRow /\ sub[row.id].user \in Users
      /\ job[w].kind \in {"expire", "refill"}
      /\ Due(w) \in SUBSET DueRow /\ job[w].due = Due(w)
  BY ListedRow
<1>2. sub \in [Payments -> SubRow \union {NoRow}]
  BY DEF IInv, TypeOK
<1>3. /\ sub' \in [Payments -> SubRow \union {NoRow}]
      /\ \A s \in Payments : sub'[s] # NoRow <=> sub[s] # NoRow
      /\ \A s \in Payments : sub[s] # NoRow =>
           /\ sub'[s].user = sub[s].user
           /\ sub'[s].status = "active" => sub[s].status = "active"
  BY <1>1, <1>2
<1>4. /\ OneActive' /\ CancelKept'
      /\ \A v \in Workers : \A r \in Due(v) : sub'[r.id] # NoRow
  BY <1>3, RowsRewritten
<1>5. AccountsSound' /\ account' \in [Users -> Account]
  BY <1>1, AccountReplaced
<1> DEFINE due == Due(w) \ {row}
           kind == job[w].kind
<1>6. job' = [job EXCEPT ![w] = RunOn(kind, due)]
  BY <1>1 DEF NextRow, IInv, TypeOK
<1>7. due \in SUBSET DueRow /\ \A r \in due : sub'[r.id] # NoRow
  BY <1>1, <1>4
<1>8. kind \in {"expire", "refill"}
  BY <1>1
<1> HIDE DEF due, kind
<1>9. job' \in [Workers -> Job \union {Idle}] /\ DueKept'
  BY <1>4, <1>6, <1>7, <1>8, JobMoves
<1>10. TypeOK'
  BY <1>3, <1>5, <1>9 DEF IInv, TypeOK
<1> QED
  BY <1>3, <1>4, <1>5, <1>9, <1>10 DEF IInv

(* Closing a lapsed subscription.                                          *)
LEMMA ExpireStep ==
  ASSUME IInv, NEW w \in Workers, NEW row \in Due(w), ExpireDueSubscription(w, row)
  PROVE  IInv' /\ \A s \in Payments : sub'[s] # NoRow <=> sub[s] # NoRow
<1> DEFINE new == [sub[row.id] EXCEPT !.status = "expired"]
           u == sub[row.id].user
           a == ExpireAllowance(account[u], now)
<1>1. row.id \in Payments /\ sub[row.id] \in SubRow /\ u \in Users
  BY ListedRow
<1>2. new \in SubRow /\ new.user = u /\ new.status # "active"
  BY <1>1 DEF SubRow
<1>3. Sound(account[u]) /\ now \in Nat
  BY <1>1 DEF IInv, AccountsSound, TypeOK
<1>4. Sound(a)
  BY <1>3, ExpireAllowanceSound
<1>5. /\ sub' = [sub EXCEPT ![row.id] = new]
      /\ account' = [account EXCEPT ![u] = a]
      /\ NextRow(w, row)
      /\ UNCHANGED <<now, payment, op, request, applied>>
  BY DEF ExpireDueSubscription
<1>6. user' \in [Users -> UserRow \union {NoRow}]
  BY DEF ExpireDueSubscription, IInv, TypeOK, UserRow, Never
<1> HIDE DEF new, a
<1> QED
  BY <1>2, <1>4, <1>5, <1>6, JobWrites

(* Making a refill.                                                        *)
LEMMA GrantStep ==
  ASSUME IInv, NEW w \in Workers, NEW row \in Due(w), GrantDueAllowance(w, row)
  PROVE  IInv' /\ \A s \in Payments : sub'[s] # NoRow <=> sub[s] # NoRow
<1> DEFINE old == sub[row.id]
           next == NextGrantAt(row)
           new == [old EXCEPT !.grantsMade = @ + 1, !.nextGrantAt = next]
           u == sub[row.id].user
           rolls == AllowanceRollsOver(u)
           a == Grant(account[u], Plan[old.plan].monthly, 0, rolls, now)
<1>1. /\ row.id \in Payments /\ old \in SubRow /\ u \in Users /\ old.plan \in Plans
      /\ row.grantsMade \in Nat
  BY ListedRow
<1>2. next \in Nat
  BY <1>1 DEF NextGrantAt, SubRow, Never
<1>3. new \in SubRow /\ new.user = u /\ new.status = old.status
  <2> HIDE DEF next
  <2>1. old.grantsMade + 1 \in Nat
    BY <1>1 DEF SubRow
  <2> QED
    BY <1>1, <1>2, <2>1 DEF SubRow
<1>4. rolls \in BOOLEAN
  <2>1. CASE LiveSubs(u) = {}
    BY <2>1 DEF AllowanceRollsOver
  <2>2. CASE LiveSubs(u) # {}
    <3>1. PlanOf(u) \in Plans
      BY <1>1, <2>2, LiveIsOne DEF IInv, PlanOf, SubRow
    <3> QED
      BY <3>1 DEF AllowanceRollsOver, PlanRow
  <2> QED
    BY <2>1, <2>2
<1>5. Sound(account[u]) /\ now \in Nat
  BY <1>1 DEF IInv, AccountsSound, TypeOK
<1>6. Sound(a)
  <2> HIDE DEF rolls, u
  <2> QED
    BY <1>1, <1>4, <1>5, PlanGrantSound
<1>7. /\ sub' = [sub EXCEPT ![row.id] = new]
      /\ account' = [account EXCEPT ![u] = a]
      /\ user' = user
      /\ NextRow(w, row)
      /\ UNCHANGED <<now, payment, op, request, applied>>
  BY DEF GrantDueAllowance
<1>8. user' \in [Users -> UserRow \union {NoRow}]
  BY <1>7 DEF IInv, TypeOK
<1> HIDE DEF new, a, rolls
<1> QED
  BY <1>3, <1>6, <1>7, <1>8, JobWrites

(* Giving a row up.                                                        *)
LEMMA DropStep ==
  ASSUME IInv, NEW w \in Workers, NEW row \in Due(w), DropRow(w, row)
  PROVE  IInv'
<1> DEFINE due == Due(w) \ {row}
           kind == job[w].kind
<1>1. /\ kind \in {"expire", "refill"} /\ job[w].due = Due(w)
      /\ Due(w) \in SUBSET DueRow
  BY ListedRow
<1>2. /\ job' = [job EXCEPT ![w] = RunOn(kind, due)]
      /\ UNCHANGED <<now, user, account, payment, sub, op, request, applied>>
  BY <1>1 DEF DropRow, NextRow, IInv, TypeOK
<1>3. \A v \in Workers : \A r \in Due(v) : sub'[r.id] # NoRow
  BY <1>2 DEF IInv, DueKept
<1>4. due \in SUBSET DueRow /\ \A r \in due : sub'[r.id] # NoRow
  BY <1>1, <1>3
<1> HIDE DEF due, kind
<1>5. job' \in [Workers -> Job \union {Idle}] /\ DueKept'
  BY <1>1, <1>2, <1>3, <1>4, JobMoves
<1>6. TypeOK'
  BY <1>2, <1>5 DEF IInv, TypeOK
<1>7. OneActive'
  BY <1>2 DEF IInv, OneActive, ActiveSubs
<1>8. CancelKept' /\ AccountsSound'
  BY <1>2 DEF IInv, CancelKept, AccountsSound
<1> QED
  BY <1>5, <1>6, <1>7, <1>8 DEF IInv

-----------------------------------------------------------------------------
(* The theorems.                                                           *)

(* Nobody has an account, a payment or a subscription at the start.        *)
LEMMA InitIInv ==
  ASSUME Init
  PROVE  IInv
<1>1. NoAccount \in Account
  BY NoAccountSound DEF Sound
<1>2. TypeOK
  BY <1>1 DEF Init, TypeOK, UserRow, Never
<1>3. OneActive
  BY DEF Init, OneActive, ActiveSubs
<1>4. DueKept /\ CancelKept
  BY DEF Init, DueKept, CancelKept, Due
<1>5. AccountsSound
  BY NoAccountSound DEF Init, AccountsSound
<1> QED
  BY <1>2, <1>3, <1>4, <1>5 DEF IInv

(* Every step of the module preserves IInv.                                *)
LEMMA NextIInv ==
  ASSUME IInv, [Next]_vars
  PROVE  IInv'
<1>1. CASE Tick \/ \E u \in Users : Register(u)
  BY <1>1, AccountSteps
<1>2. CASE CheckoutStep
  BY <1>2, CheckoutSteps
<1>3. CASE \E p \in Payments, ref \in Refs \union {NoRef} : ConfirmPayment(p, ref)
  BY <1>3, ConfirmStep
<1>4. CASE RequestStep
  BY <1>4, RequestSteps
<1>5. CASE JobStep
  BY <1>5, ListSteps, ExpireStep, GrantStep, DropStep DEF JobStep
<1>6. CASE UNCHANGED vars
  <2>1. UNCHANGED <<now, user, account, payment, sub, op, request, job, applied>>
    BY <1>6 DEF vars
  <2>2. TypeOK' /\ AccountsSound'
    BY <2>1 DEF IInv, TypeOK, AccountsSound
  <2> QED
    BY <2>1, <2>2, RowsUntouched DEF IInv
<1> QED
  BY <1>1, <1>2, <1>3, <1>4, <1>5, <1>6 DEF Next

(* The strengthened invariant holds in every reachable state.              *)
THEOREM Inductive == Spec => []IInv
<1>1. Init => IInv
  BY InitIInv
<1>2. IInv /\ [Next]_vars => IInv'
  BY NextIInv
<1> QED
  BY <1>1, <1>2, PTL DEF Spec

(* Every variable keeps its type, in particular every row a step rewrites  *)
(* is there to be rewritten.                                               *)
THEOREM TypeCorrect == Spec => []TypeOK
<1>1. IInv => TypeOK
  BY DEF IInv
<1> QED
  BY <1>1, Inductive, PTL

(* Neither bucket of any wallet is ever negative, whatever the prices,     *)
(* plans and interleaving: the CHECK constraints never have to refuse.     *)
THEOREM NeverOverdrawn == Spec => []NoOverdraft
<1>1. IInv => NoOverdraft
  BY DEF IInv, AccountsSound, Sound, NoOverdraft
<1> QED
  BY <1>1, Inductive, PTL

(* No path creates credits: the balance is covered by the lifetime         *)
(* counters and by the ledger.                                             *)
THEOREM AllCreditsAccounted == Spec => []CreditsAccounted
<1>1. IInv => CreditsAccounted
  BY DEF IInv, AccountsSound, Sound, CreditsAccounted
<1> QED
  BY <1>1, Inductive, PTL

(* A user never has two subscription rows in status active: the code asks  *)
(* for the one to extend, and the unique index refuses the rest.           *)
THEOREM OneActiveSubscription == Spec => []OneActive
<1>1. IInv => OneActive
  BY DEF IInv
<1> QED
  BY <1>1, Inductive, PTL

-----------------------------------------------------------------------------
(* Billing implements TwoBucketWallet, where every user is registered with *)
(* a wallet: a user and the wallet appear in one commit (WalletOfUser),    *)
(* everything else names registered users only (NamedAreKnown), so nobody  *)
(* finds a wallet missing, and what is written to an account is a move of  *)
(* its buckets (Moves).                                                    *)
(*                                                                         *)
(* For users of the time before wallets it does not hold: healing a wallet *)
(* that a purchase has opened meanwhile overwrites what was bought.        *)

Known == {u \in Users : user[u] # NoRow}

\* A user and the wallet are made in one commit.
WalletOfUser ==
  \A u \in Users : IF u \in Known THEN account[u].open ELSE account[u] = NoAccount

\* What names a user names one who is registered; nobody heals a wallet.
NamedAreKnown ==
  /\ \A p \in Payments : payment[p] # NoRow => payment[p].user \in Known
  /\ \A p \in Payments : sub[p] # NoRow => sub[p].user \in Known
  /\ \A c \in Clients : op[c] # Idle /\ op[c].step # "cancel" => op[c].user \in Known
  /\ \A r \in Requests : request[r] # Idle =>
       request[r].step # "heal" /\ request[r].user \in Known

WalletsFirst == WalletOfUser /\ NamedAreKnown

\* A move of the buckets of one account, as TwoBucketWallet has it.
Moves(a, b) ==
  \/ /\ b.allowance \in Nat /\ b.purchased \in Nat
     /\ b.allowance <= a.allowance /\ b.purchased <= a.purchased
     /\ b.used - a.used = (a.allowance - b.allowance) + (a.purchased - b.purchased)
     /\ b.purchased < a.purchased => b.allowance = 0
  \/ /\ b.purchased >= a.purchased /\ b.used = a.used
     /\ b.allowance = a.allowance \/ b.allowance > 0
  \/ b.allowance = 0 /\ b.purchased = a.purchased /\ b.used = a.used
-----------------------------------------------------------------------------
(* What the operations of the account do to the buckets.                   *)

(* A sound account holds integers.                                         *)
LEMMA Amounts ==
  ASSUME NEW a, Sound(a)
  PROVE  /\ a.open \in BOOLEAN /\ a.allowance \in Nat /\ a.purchased \in Nat /\ a.used \in Int
         /\ Total(a) = a.allowance + a.purchased
BY DEF Sound, Account, Total

(* Leaving an account alone is a move.                                     *)
LEMMA AsItWas ==
  ASSUME NEW a, Sound(a)
  PROVE  Moves(a, a)
BY Amounts DEF Moves

(* The welcome bonus is something received.                                *)
LEMMA ProvisionMoves ==
  ASSUME NEW m \in Nat
  PROVE  /\ ProvisionNewUser(NoAccount, m).open
         /\ Moves(NoAccount, ProvisionNewUser(NoAccount, m))
<1>1. WelcomeBonus \in Nat
  BY WalletAssumption DEF WelcomeBonus
<1> DEFINE w == EnsureWallet(NoAccount, m)
           e == [allowance |-> 0, purchased |-> WelcomeBonus, delta |-> WelcomeBonus,
                 granted |-> 0, bought |-> WelcomeBonus, used |-> 0]
<1>2. w.open = TRUE /\ w.allowance = 0 /\ w.purchased = 0 /\ w.used = 0
  BY DEF EnsureWallet, NoAccount
<1>3. /\ ApplyWallet(w, e, m).open = TRUE /\ ApplyWallet(w, e, m).allowance = 0
      /\ ApplyWallet(w, e, m).purchased = WelcomeBonus /\ ApplyWallet(w, e, m).used = 0
  <2> HIDE DEF w
  <2>1. QED
    BY <1>2 DEF ApplyWallet
<1>4. NoAccount.allowance = 0 /\ NoAccount.purchased = 0 /\ NoAccount.used = 0
  BY DEF NoAccount
<1> HIDE DEF w, e
<1>5. CASE WelcomeBonus = 0
  <2>1. ProvisionNewUser(NoAccount, m) = w
    BY <1>5 DEF ProvisionNewUser, w
  <2>2. QED
    BY <1>2, <1>4, <2>1 DEF Moves
<1>6. CASE WelcomeBonus # 0
  <2>1. ProvisionNewUser(NoAccount, m) = ApplyWallet(w, e, m)
    BY <1>6 DEF ProvisionNewUser, w, e
  <2> DEFINE b == ProvisionNewUser(NoAccount, m)
  <2>2. b.open /\ b.allowance = 0 /\ b.purchased = WelcomeBonus /\ b.used = 0
    BY <1>2, <1>3, <2>1
  <2> HIDE DEF b
  <2>3. Moves(NoAccount, b)
    BY <1>1, <1>4, <2>2 DEF Moves
  <2>4. QED
    BY <2>2, <2>3 DEF b
<1>7. QED
  BY <1>5, <1>6

(* A debit takes from the allowance, then from the purchased credits.      *)
LEMMA DebitMoves ==
  ASSUME NEW a, Sound(a), NEW m \in Nat, NEW cost \in Nat, Affordable(a, cost)
  PROVE  Debit(a, cost, m).open = a.open /\ Moves(a, Debit(a, cost, m))
<1> DEFINE part == IF cost > a.allowance THEN a.allowance ELSE cost
           b == Debit(a, cost, m)
<1>1. CASE cost = 0
  BY <1>1, AsItWas DEF Debit
<1>2. CASE cost # 0
  <2>1. /\ a.allowance \in Nat /\ a.purchased \in Nat /\ a.used \in Int
        /\ a.allowance + a.purchased >= cost
    BY <1>2, Amounts DEF Affordable
  <2>2. /\ b.open = a.open /\ b.allowance = a.allowance - part
        /\ b.purchased = a.purchased - (cost - part) /\ b.used = a.used + cost
    BY <1>2 DEF Debit, ApplyWallet
  <2> HIDE DEF b
  <2>3. CASE cost > a.allowance
    BY <2>1, <2>2, <2>3 DEF Moves, b
  <2>4. CASE cost <= a.allowance
    BY <2>1, <2>2, <2>4 DEF Moves, b
  <2>5. QED
    BY <2>1, <2>3, <2>4
<1>3. QED
  BY <1>1, <1>2

(* A refund adds to the purchased credits.                                 *)
LEMMA RefundMoves ==
  ASSUME NEW a, Sound(a), NEW m \in Nat, NEW credits \in Nat
  PROVE  RefundCredits(a, credits, m).open = a.open /\ Moves(a, RefundCredits(a, credits, m))
<1> DEFINE b == RefundCredits(a, credits, m)
<1>1. CASE credits = 0
  BY <1>1, AsItWas DEF RefundCredits
<1>2. CASE credits # 0
  <2>1. /\ b.open = a.open /\ b.allowance = a.allowance
        /\ b.purchased = a.purchased + credits /\ b.used = a.used + 0
    BY <1>2 DEF RefundCredits, ApplyWallet
  <2> HIDE DEF b
  <2>2. QED
    BY <2>1, Amounts DEF Moves, b
<1>3. QED
  BY <1>1, <1>2

(* A grant never lowers a bucket it does not set anew.                     *)
LEMMA GrantMoves ==
  ASSUME NEW a, Sound(a), a.open, NEW m \in Nat, NEW allowance \in Nat, NEW purchased \in Nat,
         NEW rolls \in BOOLEAN
  PROVE  /\ Grant(a, allowance, purchased, rolls, m).open = a.open
         /\ Moves(a, Grant(a, allowance, purchased, rolls, m))
<1> DEFINE b == Grant(a, allowance, purchased, rolls, m)
           al == IF allowance > 0 /\ ~rolls THEN allowance ELSE a.allowance + allowance
<1>1. CASE allowance = 0 /\ purchased = 0
  BY <1>1, AsItWas DEF Grant
<1>2. CASE ~(allowance = 0 /\ purchased = 0)
  <2>1. /\ b.open = a.open /\ b.allowance = al
        /\ b.purchased = a.purchased + purchased /\ b.used = a.used + 0
    BY <1>2 DEF Grant, LockOrProvision, ApplyWallet
  <2>2. al = a.allowance \/ al > 0
    BY Amounts
  <2> HIDE DEF b, al
  <2>3. QED
    BY <2>1, <2>2, Amounts DEF Moves, b
<1>3. QED
  BY <1>1, <1>2

(* An expiry takes the allowance and nothing else.                         *)
LEMMA ExpiryMoves ==
  ASSUME NEW a, Sound(a), NEW m \in Nat
  PROVE  ExpireAllowance(a, m).open = a.open /\ Moves(a, ExpireAllowance(a, m))
<1> DEFINE b == ExpireAllowance(a, m)
<1>1. CASE ~(a.allowance > 0)
  BY <1>1, AsItWas DEF ExpireAllowance
<1>2. CASE a.allowance > 0
  <2>1. /\ b.open = a.open /\ b.allowance = 0
        /\ b.purchased = a.purchased /\ b.used = a.used + 0
    BY <1>2 DEF ExpireAllowance, ApplyWallet
  <2> HIDE DEF b
  <2>2. QED
    BY <2>1, Amounts DEF Moves, b
<1>3. QED
  BY <1>1, <1>2
-----------------------------------------------------------------------------
(* Every step writes at most one account, and moves its buckets.           *)

Writes(u, b) ==
  /\ u \in Users /\ account' = [account EXCEPT ![u] = b]
  /\ b.open /\ Moves(account[u], b)

OneMove == account' = account \/ \E u \in Users : Writes(u, account'[u])

\* Names that a step leaves where they were, or gives to a user who is known.
PaymentsKeep ==
  \A p \in Payments : payment'[p] # NoRow =>
    \/ payment'[p].user \in Known
    \/ payment[p] # NoRow /\ payment'[p].user = payment[p].user

SubsKeep ==
  \A p \in Payments : sub'[p] # NoRow =>
    \/ sub'[p].user \in Known
    \/ sub[p] # NoRow /\ sub'[p].user = sub[p].user

ClientsKeep ==
  \A c \in Clients : op'[c] # Idle /\ op'[c].step # "cancel" =>
    op'[c].user \in Known \/ op'[c] = op[c]

RequestsKeep ==
  \A r \in Requests : request'[r] # Idle =>
    (request'[r].step # "heal" /\ request'[r].user \in Known) \/ request'[r] = request[r]

NamesKeep == PaymentsKeep /\ SubsKeep /\ ClientsKeep /\ RequestsKeep

(* A user who was known stays known.                                       *)
LEMMA NamedStayKnown ==
  ASSUME NamedAreKnown, NamesKeep, Known \subseteq Known'
  PROVE  NamedAreKnown'
BY DEF NamedAreKnown, NamesKeep, PaymentsKeep, SubsKeep, ClientsKeep, RequestsKeep

(* A step that writes no user and no account.                              *)
LEMMA NoneWritten ==
  ASSUME WalletsFirst, UNCHANGED <<user, account>>, NamesKeep
  PROVE  WalletsFirst' /\ OneMove
<1>1. Known' = Known
  BY DEF Known
<1>2. WalletOfUser'
  BY <1>1 DEF WalletsFirst, WalletOfUser
<1>3. NamedAreKnown'
  BY <1>1, NamedStayKnown DEF WalletsFirst
<1>4. QED
  BY <1>2, <1>3 DEF WalletsFirst, OneMove

(* A step that moves the account of one user.                              *)
LEMMA OneWritten ==
  ASSUME IInv, WalletsFirst, NEW u \in Users, NEW b, Writes(u, b),
         Known' = Known \union {u}, NamesKeep
  PROVE  WalletsFirst' /\ OneMove
<1>1. \A v \in Users : account'[v] = IF v = u THEN b ELSE account[v]
  BY DEF Writes, IInv, TypeOK
<1>2. WalletOfUser'
  BY <1>1 DEF WalletsFirst, WalletOfUser, Writes
<1>3. NamedAreKnown'
  BY NamedStayKnown DEF WalletsFirst
<1>4. OneMove
  BY <1>1 DEF OneMove, Writes
<1>5. QED
  BY <1>2, <1>3, <1>4 DEF WalletsFirst

(* What is there of a user who is registered.                              *)
LEMMA KnownAccount ==
  ASSUME IInv, WalletsFirst, NEW u \in Known
  PROVE  /\ u \in Users /\ account[u].open /\ Sound(account[u])
         /\ Known \union {u} = Known /\ now \in Nat
BY DEF IInv, TypeOK, AccountsSound, WalletsFirst, WalletOfUser, Known

(* Registration opens the wallet of a user nobody has named yet.           *)
LEMMA Registered ==
  ASSUME IInv, WalletsFirst, NEW u \in Users, Register(u)
  PROVE  WalletsFirst' /\ OneMove
<1>1. now \in Nat /\ u \notin Known
  BY DEF IInv, TypeOK, Register, Known
<1>2. account[u] = NoAccount
  BY <1>1 DEF WalletsFirst, WalletOfUser
<1> DEFINE b == ProvisionNewUser(NoAccount, now)
<1>3. Writes(u, b)
  BY <1>1, <1>2, ProvisionMoves DEF Register, Writes
<1>4. [plan |-> FreePlan, expiresAt |-> Never] \in UserRow
  BY BillingAssumption DEF UserRow, Never
<1>5. [plan |-> FreePlan, expiresAt |-> Never] # NoRow
  BY <1>4, BillingAssumption
<1>6. Known' = Known \union {u}
  BY <1>5 DEF Register, Known, IInv, TypeOK
<1>7. NamesKeep
  BY DEF Register, NamesKeep, PaymentsKeep, SubsKeep, ClientsKeep, RequestsKeep
<1> HIDE DEF b
<1>8. QED
  BY <1>3, <1>6, <1>7, OneWritten

(* The steps of a client's request write no account.                       *)
LEMMA CheckoutMoves ==
  ASSUME IInv, WalletsFirst, CheckoutStep
  PROVE  WalletsFirst' /\ OneMove
<1>1. /\ op \in [Clients -> CheckoutOp \union CancelOp \union {Idle}]
      /\ payment \in [Payments -> PaymentRow \union {NoRow}] /\ NamedAreKnown
  BY DEF IInv, TypeOK, WalletsFirst
<1>2. ASSUME NEW c \in Clients, NEW u \in Users, NEW kind, NEW code, NEW key,
             StartCheckout(c, u, kind, code, key)
      PROVE  NamesKeep
  BY <1>1, <1>2 DEF StartCheckout, Known, NamesKeep, PaymentsKeep, SubsKeep, ClientsKeep,
                    RequestsKeep
<1>3. ASSUME NEW c \in Clients, NEW u \in Users, LookUpForCancel(c, u)
      PROVE  NamesKeep
  BY <1>1, <1>3 DEF LookUpForCancel, NamesKeep, PaymentsKeep, SubsKeep, ClientsKeep,
                    RequestsKeep
<1>4. ASSUME NEW c \in Clients, FindPaymentByIdempotencyKey(c)
      PROVE  NamesKeep
  <2>1. op[c] \in CheckoutOp /\ op[c] # Idle /\ op[c].user \in Known
    BY <1>1, <1>4 DEF FindPaymentByIdempotencyKey, CheckoutOp, CancelOp, NamedAreKnown
  <2>2. [op[c] EXCEPT !.step = "create"].user = op[c].user
    BY <2>1 DEF CheckoutOp
  <2>3. QED
    BY <1>1, <1>4, <2>1, <2>2 DEF FindPaymentByIdempotencyKey, NamesKeep, PaymentsKeep,
                                  SubsKeep, ClientsKeep, RequestsKeep
<1>5. ASSUME NEW c \in Clients, NEW p \in Payments, CreatePayment(c, p)
      PROVE  NamesKeep
  <2> DEFINE row == [user |-> op[c].user, kind |-> op[c].kind, code |-> op[c].code,
                     key |-> op[c].key, ref |-> NoRef, status |-> "pending"]
  <2>1. op[c].user \in Known /\ row.user = op[c].user
    BY <1>1, <1>5 DEF CreatePayment, NamedAreKnown
  <2>2. /\ payment' = payment \/ payment' = [payment EXCEPT ![p] = row]
        /\ op' = [op EXCEPT ![c] = Idle] /\ UNCHANGED <<sub, request>>
    BY <1>5 DEF CreatePayment
  <2> HIDE DEF row
  <2>3. PaymentsKeep
    BY <1>1, <2>1, <2>2 DEF PaymentsKeep
  <2>4. QED
    BY <1>1, <2>2, <2>3 DEF NamesKeep, SubsKeep, ClientsKeep, RequestsKeep
<1>6. ASSUME NEW c \in Clients, CancelSubscription(c)
      PROVE  NamesKeep
  <2>1. op[c].sub \in Payments /\ sub[op[c].sub] \in SubRow
    BY <1>6, <1>1 DEF IInv, TypeOK, CancelKept, CancelSubscription, CheckoutOp, CancelOp
  <2>2. [sub[op[c].sub] EXCEPT !.cancelled = TRUE].user = sub[op[c].sub].user
    BY <2>1 DEF SubRow
  <2>3. SubsKeep
    <3>1. sub' = [sub EXCEPT ![op[c].sub] = [sub[op[c].sub] EXCEPT !.cancelled = TRUE]]
      BY <1>6 DEF CancelSubscription
    <3>2. QED
      BY <2>1, <2>2, <3>1, BillingAssumption DEF SubsKeep, IInv, TypeOK
  <2>4. QED
    BY <1>1, <1>6, <2>3 DEF CancelSubscription, NamesKeep, PaymentsKeep, ClientsKeep,
                            RequestsKeep
<1>7. ASSUME NEW c \in Clients, DropClient(c)
      PROVE  NamesKeep
  BY <1>1, <1>7 DEF DropClient, NamesKeep, PaymentsKeep, SubsKeep, ClientsKeep, RequestsKeep
<1>8. UNCHANGED <<user, account>>
  BY DEF CheckoutStep, StartSubscriptionCheckout, StartPackCheckout, StartCheckout,
         LookUpForCancel, FindPaymentByIdempotencyKey, CreatePayment, CancelSubscription,
         DropClient
<1>9. NamesKeep
  BY <1>2, <1>3, <1>4, <1>5, <1>6, <1>7
     DEF CheckoutStep, StartSubscriptionCheckout, StartPackCheckout
<1>10. QED
  BY <1>8, <1>9, NoneWritten

(* A confirmation grants to the user who pays.                             *)
LEMMA ConfirmMoves ==
  ASSUME IInv, WalletsFirst, NEW p \in Payments, NEW ref \in Refs \union {NoRef},
         ConfirmPayment(p, ref)
  PROVE  WalletsFirst' /\ OneMove
<1> DEFINE u == payment[p].user
           plan == payment[p].code
<1>1. payment[p] \in PaymentRow /\ u \in Known
  BY DEF ConfirmPayment, IInv, TypeOK, WalletsFirst, NamedAreKnown
<1>2. /\ u \in Users /\ account[u].open /\ Sound(account[u])
      /\ Known \union {u} = Known /\ now \in Nat
  BY <1>1, KnownAccount
<1>3. PaymentsKeep /\ ClientsKeep /\ RequestsKeep
  <2> DEFINE paid == [payment[p] EXCEPT !.status = "paid",
                                        !.ref = IF ref = NoRef THEN @ ELSE ref]
  <2>1. payment' = [payment EXCEPT ![p] = paid] /\ payment[p] # NoRow
    BY <1>1 DEF ConfirmPayment
  <2>2. paid.user = u
    BY <1>1 DEF PaymentRow
  <2> HIDE DEF paid
  <2>3. PaymentsKeep
    BY <1>1, <2>1, <2>2 DEF PaymentsKeep, IInv, TypeOK
  <2>4. QED
    BY <2>3 DEF ConfirmPayment, ClientsKeep, RequestsKeep
<1>4. CASE payment[p].kind = "subscription" /\ ActivateSubscription(p, u, plan)
  <2> DEFINE row == NewSubscription(u, plan)
             b == Grant(account[u], Plan[plan].monthly, Plan[plan].signup,
                        Plan[plan].rollsOver, now)
  <2>1. plan \in Plans /\ Plan[plan] \in PlanRow
    BY <1>1, <1>4, BillingAssumption DEF PaymentRow
  <2>2. row \in SubRow /\ row.user = u
    BY <1>2, <2>1, NewSubscriptionTyped DEF IInv
  <2>3. b.open /\ Moves(account[u], b)
    BY <1>2, <2>1, GrantMoves DEF PlanRow
  <2>4. account' = [account EXCEPT ![u] = b] /\ sub' = [CloseCurrent(u) EXCEPT ![p] = row]
        /\ user' = [user EXCEPT ![u] = [plan |-> plan, expiresAt |-> row.endsAt]]
    BY <1>4 DEF ActivateSubscription
  <2>5. u \in Known
    BY <1>1
  <2> HIDE DEF u, plan, row, b
  <2>6. [plan |-> plan, expiresAt |-> row.endsAt] # NoRow
    BY <2>1, <2>2, BillingAssumption DEF UserRow, SubRow
  <2>7. Known' = Known \union {u}
    BY <1>2, <2>4, <2>6 DEF Known, IInv, TypeOK
  <2>8. \A s \in Payments : CloseCurrent(u)[s] # NoRow =>
          sub[s] # NoRow /\ CloseCurrent(u)[s].user = sub[s].user
    <3>1. ASSUME NEW s \in Payments, LiveSubs(u) # {}, s = LiveSubscription(u)
          PROVE  sub[s] # NoRow /\ CloseCurrent(u)[s].user = sub[s].user
      <4>1. sub[s] \in SubRow
        BY <1>2, <3>1, LiveIsOne DEF IInv
      <4>2. CloseCurrent(u)[s] = [sub[s] EXCEPT !.status = "expired"]
        BY <3>1 DEF CloseCurrent
      <4>3. QED
        BY <4>1, <4>2, BillingAssumption DEF SubRow
    <3>2. QED
      BY <3>1 DEF CloseCurrent
  <2>9. SubsKeep
    <3>1. \A s \in Payments : sub'[s] = IF s = p THEN row ELSE CloseCurrent(u)[s]
      BY <2>4 DEF CloseCurrent
    <3>2. QED
      BY <1>2, <2>2, <2>8, <2>5, <3>1 DEF SubsKeep
  <2>10. Writes(u, b) /\ NamesKeep
    BY <1>2, <1>3, <2>3, <2>4, <2>9 DEF Writes, NamesKeep
  <2>11. QED
    BY <1>2, <2>7, <2>10, OneWritten
<1>5. CASE payment[p].kind = "credit_pack" /\ CreditPack(u, plan)
  <2> DEFINE b == Grant(account[u], 0, PackCredits[plan], FALSE, now)
  <2>1. PackCredits[plan] \in Nat
    BY <1>1, <1>5, BillingAssumption DEF PaymentRow
  <2>2. b.open /\ Moves(account[u], b)
    BY <1>2, <2>1, GrantMoves
  <2>3. account' = [account EXCEPT ![u] = b] /\ sub' = sub /\ user' = user
    BY <1>5 DEF CreditPack
  <2> HIDE DEF u, b
  <2>4. Known' = Known \union {u} /\ Writes(u, b) /\ NamesKeep
    BY <1>2, <1>3, <2>2, <2>3 DEF Known, Writes, NamesKeep, SubsKeep
  <2>5. QED
    BY <1>2, <2>4, OneWritten
<1>6. QED
  BY <1>4, <1>5 DEF ConfirmPayment

(* A gated call never finds the wallet missing; what it spends or gives    *)
(* back it does on the caller's account.                                   *)
LEMMA RequestAccountMoves ==
  ASSUME IInv, WalletsFirst, RequestStep
  PROVE  WalletsFirst' /\ OneMove
<1>1. /\ request \in [Requests -> Request \union {Idle}] /\ NamedAreKnown
      /\ \A u \in Users : u \in Known => account[u].open
  BY DEF IInv, TypeOK, WalletsFirst, WalletOfUser
<1>2. ASSUME NEW r \in Requests, NEW u \in Users, NEW f \in Features,
             MeetMissingWallet(r, u, f)
      PROVE  FALSE
  BY <1>1, <1>2 DEF MeetMissingWallet, Known
<1>3. ASSUME NEW r \in Requests, HealWallet(r)
      PROVE  FALSE
  BY <1>1, <1>3 DEF HealWallet, NamedAreKnown
<1>4. ASSUME NEW r \in Requests, NEW u \in Users, NEW f \in Features,
             CheckAccess(r, u, f)
      PROVE  WalletsFirst' /\ OneMove
  <2>1. NamesKeep /\ UNCHANGED <<user, account>>
    BY <1>1, <1>4 DEF CheckAccess, Known, NamesKeep, PaymentsKeep, SubsKeep, ClientsKeep,
                      RequestsKeep
  <2>2. QED
    BY <2>1, NoneWritten
<1>5. ASSUME NEW r \in Requests, RefuseSpend(r) \/ EndRequest(r)
      PROVE  WalletsFirst' /\ OneMove
  <2>1. NamesKeep /\ UNCHANGED <<user, account>>
    BY <1>1, <1>5 DEF RefuseSpend, EndRequest, NamesKeep, PaymentsKeep, SubsKeep,
                      ClientsKeep, RequestsKeep
  <2>2. QED
    BY <2>1, NoneWritten
<1>6. ASSUME NEW r \in Requests, request[r] # Idle
      PROVE  /\ request[r].user \in Known /\ Feature[request[r].feature].cost \in Nat
             /\ request[r] \in Request /\ request[r].step # "heal"
  BY <1>1, <1>6, BillingAssumption DEF NamedAreKnown, Request, FeatureRow
<1>7. ASSUME NEW r \in Requests, Spend(r)
      PROVE  WalletsFirst' /\ OneMove
  <2> DEFINE u == request[r].user
             cost == Feature[request[r].feature].cost
             b == Debit(account[u], cost, now)
             charged == [request[r] EXCEPT !.step = "charged"]
  <2>1. u \in Known /\ cost \in Nat /\ request[r] \in Request
    BY <1>6, <1>7 DEF Spend
  <2>2. /\ u \in Users /\ account[u].open /\ Sound(account[u])
        /\ Known \union {u} = Known /\ now \in Nat
    BY <2>1, KnownAccount
  <2>3. LockOrProvision(account[u], now) = account[u]
    BY <2>2 DEF LockOrProvision
  <2>4. Affordable(account[u], cost)
    BY <1>7, <2>3 DEF Spend, Payable
  <2>5. b.open /\ Moves(account[u], b)
    BY <2>1, <2>2, <2>4, DebitMoves
  <2>6. /\ account' = [account EXCEPT ![u] = b] /\ request' = [request EXCEPT ![r] = charged]
        /\ UNCHANGED <<user, payment, sub, op>>
    BY <1>7, <2>3 DEF Spend
  <2>7. charged.user = u /\ charged.step = "charged"
    BY <2>1 DEF Request
  <2> HIDE DEF u, cost, b, charged
  <2>8. RequestsKeep
    BY <1>1, <2>1, <2>6, <2>7 DEF RequestsKeep
  <2>9. Known' = Known \union {u} /\ Writes(u, b) /\ NamesKeep
    BY <2>2, <2>5, <2>6, <2>8 DEF Known, Writes, NamesKeep, PaymentsKeep, SubsKeep,
                                  ClientsKeep
  <2>10. QED
    BY <2>2, <2>9, OneWritten
<1>8. ASSUME NEW r \in Requests, Refund(r)
      PROVE  WalletsFirst' /\ OneMove
  <2> DEFINE u == request[r].user
             cost == Feature[request[r].feature].cost
             b == RefundCredits(account[u], cost, now)
  <2>1. u \in Known /\ cost \in Nat
    BY <1>6, <1>8 DEF Refund
  <2>2. /\ u \in Users /\ account[u].open /\ Sound(account[u])
        /\ Known \union {u} = Known /\ now \in Nat
    BY <2>1, KnownAccount
  <2>3. b.open /\ Moves(account[u], b)
    BY <2>1, <2>2, RefundMoves
  <2>4. /\ account' = [account EXCEPT ![u] = b] /\ request' = [request EXCEPT ![r] = Idle]
        /\ UNCHANGED <<user, payment, sub, op>>
    BY <1>8 DEF Refund
  <2> HIDE DEF u, cost, b
  <2>5. Known' = Known \union {u} /\ Writes(u, b) /\ NamesKeep
    BY <1>1, <2>2, <2>3, <2>4 DEF Known, Writes, NamesKeep, PaymentsKeep, SubsKeep,
                                  ClientsKeep, RequestsKeep
  <2>6. QED
    BY <2>2, <2>5, OneWritten
<1>9. QED
  BY <1>2, <1>3, <1>4, <1>5, <1>7, <1>8 DEF RequestStep

(* The row a job works on, and the account of its user.                    *)
LEMMA JobAccount ==
  ASSUME IInv, WalletsFirst, NEW w \in Workers, NEW row \in Due(w),
         NEW a, a.open, Moves(account[sub[row.id].user], a),
         account' = [account EXCEPT ![sub[row.id].user] = a],
         NEW new, new.user = sub[row.id].user, sub' = [sub EXCEPT ![row.id] = new],
         Known' = Known, UNCHANGED <<payment, op, request>>
  PROVE  WalletsFirst' /\ OneMove
<1>1. row.id \in Payments /\ sub[row.id] # NoRow /\ sub[row.id].user \in Known
  BY ListedRow DEF IInv, DueKept, WalletsFirst, NamedAreKnown
<1>2. SubsKeep
  BY <1>1 DEF SubsKeep, IInv, TypeOK
<1>3. Writes(sub[row.id].user, a) /\ Known' = Known \union {sub[row.id].user}
  BY <1>1 DEF Writes, Known
<1>4. NamesKeep
  BY <1>2 DEF NamesKeep, PaymentsKeep, ClientsKeep, RequestsKeep
<1>5. QED
  BY <1>1, <1>3, <1>4, OneWritten, KnownAccount

(* The expiry job takes the allowance of a lapsed subscription.            *)
LEMMA ExpiryRun ==
  ASSUME IInv, WalletsFirst, NEW w \in Workers, NEW row \in Due(w),
         ExpireDueSubscription(w, row)
  PROVE  WalletsFirst' /\ OneMove
<1> DEFINE u == sub[row.id].user
           a == ExpireAllowance(account[u], now)
           new == [sub[row.id] EXCEPT !.status = "expired"]
<1>1. row.id \in Payments /\ sub[row.id] \in SubRow /\ u \in Known
  BY ListedRow DEF IInv, DueKept, WalletsFirst, NamedAreKnown
<1>2. u \in Users /\ account[u].open /\ Sound(account[u]) /\ now \in Nat
  BY <1>1, KnownAccount
<1>3. a.open /\ Moves(account[u], a)
  BY <1>2, ExpiryMoves
<1>4. new.user = u
  BY <1>1 DEF SubRow
<1>5. [plan |-> FreePlan, expiresAt |-> Never] \in UserRow
  BY BillingAssumption DEF UserRow, Never
<1>6. /\ account' = [account EXCEPT ![u] = a] /\ sub' = [sub EXCEPT ![row.id] = new]
      /\ user' = [user EXCEPT ![u] = [plan |-> FreePlan, expiresAt |-> Never]]
      /\ UNCHANGED <<payment, op, request>>
  BY DEF ExpireDueSubscription
<1>7. Known' = Known
  BY <1>1, <1>2, <1>5, <1>6, BillingAssumption DEF Known, IInv, TypeOK
<1> HIDE DEF a, new
<1>8. QED
  BY <1>3, <1>4, <1>6, <1>7, JobAccount

(* The refill job grants the next allowance of a running one.              *)
LEMMA RefillRun ==
  ASSUME IInv, WalletsFirst, NEW w \in Workers, NEW row \in Due(w),
         GrantDueAllowance(w, row)
  PROVE  WalletsFirst' /\ OneMove
<1> DEFINE u == sub[row.id].user
           rolls == AllowanceRollsOver(u)
           plan == sub[row.id].plan
           a == Grant(account[u], Plan[plan].monthly, 0, rolls, now)
           new == [sub[row.id] EXCEPT !.grantsMade = @ + 1, !.nextGrantAt = NextGrantAt(row)]
<1>1. row.id \in Payments /\ sub[row.id] \in SubRow /\ u \in Known /\ plan \in Plans
  BY ListedRow DEF IInv, DueKept, WalletsFirst, NamedAreKnown
<1>2. u \in Users /\ account[u].open /\ Sound(account[u]) /\ now \in Nat
  BY <1>1, KnownAccount
<1>3. rolls \in BOOLEAN
  <2>1. CASE LiveSubs(u) = {}
    BY <2>1 DEF AllowanceRollsOver
  <2>2. CASE LiveSubs(u) # {}
    <3>1. PlanOf(u) \in Plans
      BY <1>2, <2>2, LiveIsOne DEF IInv, PlanOf, SubRow
    <3>2. QED
      BY <3>1, BillingAssumption DEF AllowanceRollsOver, PlanRow
  <2>3. QED
    BY <2>1, <2>2
<1>4. Plan[plan].monthly \in Nat
  BY <1>1, BillingAssumption DEF PlanRow
<1>5. new.user = u
  BY <1>1 DEF SubRow
<1>6. /\ account' = [account EXCEPT ![u] = a] /\ sub' = [sub EXCEPT ![row.id] = new]
      /\ user' = user /\ UNCHANGED <<payment, op, request>>
  BY DEF GrantDueAllowance
<1>7. Known' = Known
  BY <1>6 DEF Known
<1>8. a.open /\ Moves(account[u], a)
  <2> HIDE DEF rolls, u, plan
  <2>1. QED
    BY <1>2, <1>3, <1>4, GrantMoves
<1> HIDE DEF a, new
<1>9. QED
  BY <1>5, <1>6, <1>7, <1>8, JobAccount
-----------------------------------------------------------------------------
(* The refinement.                                                         *)

(* A move of one account is a step of the two-bucket wallet.               *)
LEMMA MoveRefines ==
  ASSUME IInv, OneMove
  PROVE  [Balances!Next]_(Balances!vars)
<1>1. CASE account' = account
  BY <1>1 DEF Balances!vars
<1>2. ASSUME NEW u \in Users, Writes(u, account'[u])
      PROVE  Balances!Next
  <2> DEFINE a == account[u]
             b == account'[u]
  <2>1. \A v \in Users \ {u} : account'[v] = account[v]
    BY <1>2 DEF Writes, IInv, TypeOK
  <2>2. Balances!Only(u)
    BY <2>1 DEF Balances!Only, Balances!OthersKeep
  <2>3. Moves(a, b)
    BY <1>2 DEF Writes
  <2>4. CASE /\ b.allowance \in Nat /\ b.purchased \in Nat
             /\ b.allowance <= a.allowance /\ b.purchased <= a.purchased
             /\ b.used - a.used = (a.allowance - b.allowance) + (a.purchased - b.purchased)
             /\ b.purchased < a.purchased => b.allowance = 0
    <3>1. Balances!Use(u)
      BY <2>4 DEF Balances!Use
    <3>2. QED
      BY <2>2, <3>1 DEF Balances!Next
  <2>5. CASE /\ b.purchased >= a.purchased /\ b.used = a.used
             /\ b.allowance = a.allowance \/ b.allowance > 0
    <3>1. Balances!Receive(u)
      BY <2>5 DEF Balances!Receive
    <3>2. QED
      BY <2>2, <3>1 DEF Balances!Next
  <2>6. CASE b.allowance = 0 /\ b.purchased = a.purchased /\ b.used = a.used
    <3>1. Balances!Lapse(u)
      BY <2>6 DEF Balances!Lapse
    <3>2. QED
      BY <2>2, <3>1 DEF Balances!Next
  <2>7. QED
    BY <2>3, <2>4, <2>5, <2>6 DEF Moves
<1>3. QED
  BY <1>1, <1>2 DEF OneMove

(* Every step of the module moves one account, or none.                    *)
LEMMA StepMoves ==
  ASSUME IInv, WalletsFirst, [Next]_vars
  PROVE  WalletsFirst' /\ OneMove
<1>1. CASE Tick
  <2>1. NamesKeep
    BY <1>1 DEF Tick, NamesKeep, PaymentsKeep, SubsKeep, ClientsKeep, RequestsKeep
  <2>2. QED
    BY <1>1, <2>1, NoneWritten DEF Tick
<1>2. CASE \E u \in Users : Register(u)
  BY <1>2, Registered
<1>3. CASE CheckoutStep
  BY <1>3, CheckoutMoves
<1>4. CASE \E p \in Payments, ref \in Refs \union {NoRef} : ConfirmPayment(p, ref)
  BY <1>4, ConfirmMoves
<1>5. CASE RequestStep
  BY <1>5, RequestAccountMoves
<1>6. CASE JobStep
  <2>1. ASSUME NEW w \in Workers,
               \/ ListDueForExpiry(w) \/ ListDueForGrant(w)
               \/ \E row \in Due(w) : DropRow(w, row)
        PROVE  NamesKeep /\ UNCHANGED <<user, account>>
    BY <2>1 DEF ListDueForExpiry, ListDueForGrant, ListDue, DropRow, NamesKeep, PaymentsKeep,
                SubsKeep, ClientsKeep, RequestsKeep
  <2>2. QED
    BY <1>6, <2>1, NoneWritten, ExpiryRun, RefillRun DEF JobStep
<1>7. CASE UNCHANGED vars
  <2>1. NamesKeep /\ UNCHANGED <<user, account>>
    BY <1>7 DEF vars, NamesKeep, PaymentsKeep, SubsKeep, ClientsKeep, RequestsKeep
  <2>2. QED
    BY <2>1, NoneWritten
<1>8. QED
  BY <1>1, <1>2, <1>3, <1>4, <1>5, <1>6, <1>7 DEF Next

(* When every user is registered with a wallet, credits move only as the   *)
(* two-bucket wallet allows: purchased credits never lapse, and nothing    *)
(* but use takes them, after the allowance.                                *)
THEOREM CreditsAreTwoBuckets ==
  ASSUME LegacyUsers = {}
  PROVE  Spec => TwoBuckets
<1>1. Init => WalletsFirst /\ Balances!Init
  <2> SUFFICES ASSUME Init PROVE WalletsFirst /\ Balances!Init
    OBVIOUS
  <2>1. WalletOfUser
    BY DEF Init, WalletOfUser, Known
  <2>2. NamedAreKnown
    BY DEF Init, NamedAreKnown
  <2>3. Balances!Init
    BY DEF Init, NoAccount, Balances!Init
  <2>4. QED
    BY <2>1, <2>2, <2>3 DEF WalletsFirst
<1>2. IInv /\ WalletsFirst /\ [Next]_vars
        => WalletsFirst' /\ [Balances!Next]_(Balances!vars)
  BY StepMoves, MoveRefines
<1>3. Spec => []IInv
  BY Inductive
<1>4. QED
  BY <1>1, <1>2, <1>3, PTL DEF Spec, TwoBuckets, Balances!Spec
=============================================================================
