---------------------------- MODULE PaymentProofs ----------------------------
(***************************************************************************)
(* Theorems about payments, the periods they buy and what a plan gives,    *)
(* for any number of racing clients, confirmations and job runs; the last  *)
(* part is about job runs that have listed different users.                *)
(*                                                                         *)
(* That money and value move together and that a key buys once is          *)
(* inductive relative to IInv.  That periods neither overlap nor lose paid *)
(* time needs PeriodInv: a period that is not over is followed up, to its  *)
(* end, by the active one, and no job has listed a subscription for expiry *)
(* whose period is not over.  The second is what makes closing a row from  *)
(* an old list harmless: no statement ever moves the end of a period.      *)
(***************************************************************************)
EXTENDS BillingProofs

Paid(p) == payment[p] # NoRow /\ payment[p].status = "paid"

\* AppliedOnce of one payment.
AppliedOnceTo(p) ==
  /\ applied[p] = IF Paid(p) THEN 1 ELSE 0
  /\ sub[p] # NoRow <=> Paid(p) /\ payment[p].kind = "subscription"

(* AppliedOnce payment by payment.                                        *)
LEMMA AppliedOncePointwise == AppliedOnce <=> \A p \in Payments : AppliedOnceTo(p)
  BY DEF AppliedOnce, AppliedOnceTo, Paid

(* A step that settles nothing and neither adds nor deletes a subscription *)
(* or a paid payment keeps AppliedOnce.                                    *)
LEMMA NothingSettled ==
  ASSUME AppliedOnce, applied' = applied,
         \A p \in Payments : sub'[p] # NoRow <=> sub[p] # NoRow,
         \A p \in Payments : Paid(p)' = Paid(p) /\ (Paid(p) => payment'[p] = payment[p])
  PROVE  AppliedOnce'
<1>1. \A p \in Payments : AppliedOnceTo(p)
  BY AppliedOncePointwise
<1>2. \A p \in Payments : AppliedOnceTo(p)'
  BY <1>1 DEF AppliedOnceTo
<1> QED
  BY <1>2 DEF AppliedOnce, AppliedOnceTo, Paid

(* A settled payment was not settled before, nor had it a subscription.    *)
LEMMA SettledOnce ==
  ASSUME IInv, AppliedOnce, NEW p \in Payments, NEW ref \in Refs \union {NoRef},
         ConfirmPayment(p, ref)
  PROVE  AppliedOnce'
<1>1. payment[p] \in PaymentRow /\ payment[p].status = "pending"
  BY DEF ConfirmPayment, IInv, TypeOK, PaymentRow, Settled
<1>2. applied[p] = 0 /\ sub[p] = NoRow
  BY <1>1 DEF AppliedOnce
<1>3. /\ payment \in [Payments -> PaymentRow \union {NoRow}]
      /\ applied \in [Payments -> Nat]
      /\ sub \in [Payments -> SubRow \union {NoRow}]
      /\ payment[p].user \in Users
  BY <1>1 DEF IInv, TypeOK, PaymentRow
<1> DEFINE paid == [payment[p] EXCEPT !.status = "paid",
                                      !.ref = IF ref = NoRef THEN @ ELSE ref]
<1>4. paid \in PaymentRow /\ paid.status = "paid" /\ paid.kind = payment[p].kind
  BY <1>1 DEF PaymentRow
<1>5. payment' = [payment EXCEPT ![p] = paid]
  BY <1>1 DEF ConfirmPayment
<1>6. applied' = [applied EXCEPT ![p] = 1]
  BY <1>2 DEF ConfirmPayment
<1> HIDE DEF paid
<1>7. paid # NoRow
  BY <1>4, BillingAssumption
<1>8. /\ Paid(p)' /\ payment'[p].kind = payment[p].kind /\ applied'[p] = 1
      /\ \A q \in Payments : q # p => payment'[q] = payment[q] /\ applied'[q] = applied[q]
  BY <1>3, <1>4, <1>5, <1>6, <1>7 DEF Paid
<1>9. /\ sub'[p] # NoRow <=> payment[p].kind = "subscription"
      /\ \A q \in Payments : q # p => (sub'[q] # NoRow <=> sub[q] # NoRow)
  <2> DEFINE u == payment[p].user
             plan == payment[p].code
  <2>1. CASE payment[p].kind = "subscription" /\ ActivateSubscription(p, u, plan)
    <3>1. plan \in Plans
      BY <1>1, <2>1 DEF PaymentRow
    <3>2. \A q \in Payments : sub'[q] # NoRow <=> q = p \/ sub[q] # NoRow
      BY <1>3, <2>1, <3>1, ActivationKeepsIndex
    <3> QED
      BY <2>1, <3>2
  <2>2. CASE payment[p].kind = "credit_pack" /\ sub' = sub
    BY <1>2, <2>2
  <2> QED
    BY <2>1, <2>2 DEF ConfirmPayment, CreditPack
<1>10. \A q \in Payments : AppliedOnceTo(q)'
  BY <1>8, <1>9, AppliedOncePointwise DEF AppliedOnceTo, Paid
<1> QED
  BY <1>10 DEF AppliedOnce, AppliedOnceTo, Paid

(* A new payment row is pending.                                           *)
LEMMA NewPaymentUnpaid ==
  ASSUME IInv, AppliedOnce, NEW c \in Clients, NEW p \in Payments, CreatePayment(c, p)
  PROVE  AppliedOnce'
<1> DEFINE row == [user |-> op[c].user, kind |-> op[c].kind, code |-> op[c].code,
                   key |-> op[c].key, ref |-> NoRef, status |-> "pending"]
<1>1. /\ payment' \in {payment, [payment EXCEPT ![p] = row]}
      /\ payment[p] = NoRow /\ sub' = sub /\ applied' = applied
  BY DEF CreatePayment
<1>2. payment \in [Payments -> PaymentRow \union {NoRow}]
  BY DEF IInv, TypeOK
<1>3. row.status = "pending"
  OBVIOUS
<1> HIDE DEF row
<1>4. \A q \in Payments : Paid(q)' = Paid(q) /\ (Paid(q) => payment'[q] = payment[q])
  BY <1>1, <1>2, <1>3 DEF Paid
<1> QED
  BY <1>1, <1>4, NothingSettled

(* Every step keeps AppliedOnce.                                           *)
LEMMA NextAppliedOnce ==
  ASSUME IInv, AppliedOnce, [Next]_vars
  PROVE  AppliedOnce'
<1>1. ASSUME UNCHANGED <<payment, applied>>,
             \A p \in Payments : sub'[p] # NoRow <=> sub[p] # NoRow
      PROVE  AppliedOnce'
  BY <1>1, NothingSettled DEF Paid
<1>2. CASE Tick \/ \E u \in Users : Register(u)
  BY <1>1, <1>2 DEF Tick, Register
<1>3. CASE CheckoutStep
  <2>1. ASSUME NEW c \in Clients, CancelSubscription(c)
        PROVE  AppliedOnce'
    BY <1>1, <2>1, CancelStep DEF CancelSubscription
  <2> QED
    BY <1>1, <1>3, <2>1, NewPaymentUnpaid
    DEF CheckoutStep, StartSubscriptionCheckout, StartPackCheckout, StartCheckout,
        LookUpForCancel, FindPaymentByIdempotencyKey, DropClient
<1>4. CASE \E p \in Payments, ref \in Refs \union {NoRef} : ConfirmPayment(p, ref)
  BY <1>4, SettledOnce
<1>5. CASE RequestStep
  BY <1>1, <1>5 DEF RequestStep, MeetMissingWallet, CheckAccess, HealWallet, Spend,
                    RefuseSpend, Refund, EndRequest
<1>6. CASE JobStep
  <2>1. ASSUME NEW w \in Workers, NEW row \in Due(w),
               ExpireDueSubscription(w, row) \/ GrantDueAllowance(w, row)
        PROVE  AppliedOnce'
    <3>1. UNCHANGED <<payment, applied>>
      BY <2>1 DEF ExpireDueSubscription, GrantDueAllowance
    <3> QED
      BY <1>1, <2>1, <3>1, ExpireStep, GrantStep
  <2>2. ASSUME NEW w \in Workers,
               \/ ListDueForExpiry(w) \/ ListDueForGrant(w)
               \/ \E row \in Due(w) : DropRow(w, row)
        PROVE  AppliedOnce'
    BY <1>1, <2>2 DEF ListDueForExpiry, ListDueForGrant, ListDue, DropRow
  <2> QED
    BY <1>6, <2>1, <2>2 DEF JobStep
<1>7. CASE UNCHANGED vars
  BY <1>1, <1>7 DEF vars
<1> QED
  BY <1>2, <1>3, <1>4, <1>5, <1>6, <1>7 DEF Next

(* Money and value move together, for any number of payments, retried      *)
(* confirmations and concurrent jobs.                                      *)
THEOREM PaymentsAppliedOnce == Spec => []AppliedOnce
<1>1. Init => IInv /\ AppliedOnce
  BY InitIInv DEF Init, AppliedOnce
<1>2. IInv /\ AppliedOnce /\ [Next]_vars => IInv' /\ AppliedOnce'
  BY NextIInv, NextAppliedOnce
<1> QED
  BY <1>1, <1>2, PTL DEF Spec

-----------------------------------------------------------------------------
(* Idempotency keys.                                                       *)

(* A step that leaves every payment's user and key alone keeps the keys    *)
(* apart.                                                                  *)
LEMMA KeysUntouched ==
  ASSUME OnePaymentPerKey,
         \A p \in Payments : payment'[p] # NoRow =>
           /\ payment[p] # NoRow
           /\ payment'[p].user = payment[p].user /\ payment'[p].key = payment[p].key
  PROVE  OnePaymentPerKey'
<1>1. \A u \in Users, k \in Keys : PaymentsWithKey(u, k)' \subseteq PaymentsWithKey(u, k)
  BY DEF PaymentsWithKey
<1> QED
  BY <1>1 DEF OnePaymentPerKey

(* The unique index: a second row for the key of its user is not inserted. *)
LEMMA NewKeyIsFree ==
  ASSUME IInv, OnePaymentPerKey, NEW c \in Clients, NEW p \in Payments,
         CreatePayment(c, p)
  PROVE  OnePaymentPerKey'
<1> DEFINE o == op[c]
           row == [user |-> o.user, kind |-> o.kind, code |-> o.code,
                   key |-> o.key, ref |-> NoRef, status |-> "pending"]
<1>1. CASE KeyTaken(o.user, o.key)
  <2>1. payment' = payment
    BY <1>1 DEF CreatePayment
  <2> QED
    BY <2>1, KeysUntouched
<1>2. CASE ~KeyTaken(o.user, o.key)
  <2>1. payment' = [payment EXCEPT ![p] = row]
    BY <1>2 DEF CreatePayment
  <2>2. row.user = o.user /\ row.key = o.key
    OBVIOUS
  <2> HIDE DEF row
  <2>3. \A q \in Payments : payment'[q] = IF q = p THEN row ELSE payment[q]
    BY <2>1 DEF IInv, TypeOK
  <2>4. \A u \in Users, k \in Keys : \A q \in PaymentsWithKey(u, k)' :
          q \in PaymentsWithKey(u, k) \/ (q = p /\ u = o.user /\ k = o.key)
    BY <2>2, <2>3 DEF PaymentsWithKey
  <2>5. \A k \in Keys : k # NoKey
    BY BillingAssumption
  <2>6. \A k \in Keys : k = o.key => PaymentsWithKey(o.user, k) = {}
    BY <1>2, <2>5 DEF KeyTaken
  <2> QED
    BY <2>4, <2>6 DEF OnePaymentPerKey
<1> QED
  BY <1>1, <1>2

(* Every step keeps OnePaymentPerKey.                                      *)
LEMMA NextOnePaymentPerKey ==
  ASSUME IInv, OnePaymentPerKey, [Next]_vars
  PROVE  OnePaymentPerKey'
<1>1. ASSUME payment' = payment
      PROVE  OnePaymentPerKey'
  BY <1>1, KeysUntouched
<1>2. CASE Tick \/ \E u \in Users : Register(u)
  BY <1>1, <1>2 DEF Tick, Register
<1>3. CASE CheckoutStep
  BY <1>1, <1>3, NewKeyIsFree
  DEF CheckoutStep, StartSubscriptionCheckout, StartPackCheckout, StartCheckout,
      LookUpForCancel, FindPaymentByIdempotencyKey, CancelSubscription, DropClient
<1>4. ASSUME NEW p \in Payments, NEW ref \in Refs \union {NoRef}, ConfirmPayment(p, ref)
      PROVE  OnePaymentPerKey'
  <2> DEFINE paid == [payment[p] EXCEPT !.status = "paid",
                                        !.ref = IF ref = NoRef THEN @ ELSE ref]
  <2>1. payment[p] \in PaymentRow /\ payment[p] # NoRow
    BY <1>4 DEF ConfirmPayment, IInv, TypeOK
  <2>2. paid.user = payment[p].user /\ paid.key = payment[p].key
    BY <2>1 DEF PaymentRow
  <2>3. payment' = [payment EXCEPT ![p] = paid]
    BY <1>4, <2>1 DEF ConfirmPayment
  <2> HIDE DEF paid
  <2>4. \A q \in Payments : payment'[q] = IF q = p THEN paid ELSE payment[q]
    BY <2>3 DEF IInv, TypeOK
  <2> QED
    BY <2>1, <2>2, <2>4, KeysUntouched
<1>5. CASE RequestStep
  BY <1>1, <1>5 DEF RequestStep, MeetMissingWallet, CheckAccess, HealWallet, Spend,
                    RefuseSpend, Refund, EndRequest
<1>6. CASE JobStep
  BY <1>1, <1>6 DEF JobStep, ListDueForExpiry, ListDueForGrant, ListDue,
                    ExpireDueSubscription, GrantDueAllowance, DropRow
<1>7. CASE UNCHANGED vars
  BY <1>1, <1>7 DEF vars
<1> QED
  BY <1>2, <1>3, <1>4, <1>5, <1>6, <1>7 DEF Next

(* A key buys once, for any number of clients racing with it.              *)
THEOREM KeysBuyOnce == Spec => []OnePaymentPerKey
<1>1. Init => IInv /\ OnePaymentPerKey
  BY InitIInv DEF Init, OnePaymentPerKey, PaymentsWithKey
<1>2. IInv /\ OnePaymentPerKey /\ [Next]_vars => IInv' /\ OnePaymentPerKey'
  BY NextIInv, NextOnePaymentPerKey
<1> QED
  BY <1>1, <1>2, PTL DEF Spec

-----------------------------------------------------------------------------
(* The invariant of the periods.                                           *)

\* A period that is not over is followed up to its end by the active one.
FutureIsActive ==
  \A t \in Payments : sub[t] # NoRow /\ sub[t].endsAt > now =>
    \E s \in ActiveSubs(sub[t].user) : sub[t].endsAt <= sub[s].endsAt

\* What is listed for expiry is over: no statement moves the end of a period.
ListedLapsed ==
  \A w \in Workers : \A row \in Due(w) :
    job[w].kind = "expire" => sub[row.id].endsAt <= now

PeriodInv == IInv /\ AppliedOnce /\ PeriodsDisjoint /\ FutureIsActive /\ ListedLapsed

-----------------------------------------------------------------------------
(* What a step does to the subscriptions and to the lists.                 *)

\* The row a step may leave behind of one it found.
RowKept(s) ==
  /\ sub'[s].user = sub[s].user /\ sub'[s].plan = sub[s].plan
  /\ sub'[s].startsAt = sub[s].startsAt /\ sub'[s].endsAt = sub[s].endsAt
  /\ sub'[s].status = "active" => sub[s].status = "active"
  /\ sub[s].status = "active" /\ sub[s].endsAt > now => sub'[s].status = "active"

\* No period appears or moves, and none is closed before its end.
RowsKept ==
  /\ now' \in Nat /\ now <= now'
  /\ \A s \in Payments : sub'[s] # NoRow <=> sub[s] # NoRow
  /\ \A s \in Payments : sub[s] # NoRow => RowKept(s)

\* A payment buys a period.
Activated(p, u, plan) ==
  /\ payment[p] # NoRow /\ payment[p].user = u /\ sub[p] = NoRow
  /\ ActivateSubscription(p, u, plan)
  /\ UNCHANGED <<now, op, request, job>>

\* A list loses rows, or is made anew from the table.
ListKept(w) ==
  \A row \in Due(w)' :
    \/ row \in Due(w) /\ job'[w].kind = job[w].kind
    \/ /\ UNCHANGED <<now, user, account, sub>> /\ Due(w) = {}
       /\ row.id \in Payments /\ sub[row.id] # NoRow /\ row.grantsMade = sub[row.id].grantsMade
       /\ \/ job'[w].kind = "expire" /\ row.id \in DueForExpiry
          \/ job'[w].kind = "refill" /\ row.id \in DueForGrant

ListsKept == \A w \in Workers : ListKept(w)

(* Steps that do not write subscriptions.                                  *)
LEMMA RowsAlone ==
  ASSUME IInv, UNCHANGED <<now, sub>>
  PROVE  RowsKept
BY DEF IInv, TypeOK, RowsKept, RowKept

(* Steps that do not touch a list.                                         *)
LEMMA ListsAlone ==
  ASSUME UNCHANGED job
  PROVE  ListsKept
BY DEF ListsKept, ListKept, Due

(* A step that rewrites one row.                                           *)
LEMMA OneRowKept ==
  ASSUME IInv, NEW s \in Payments, sub[s] # NoRow, NEW new \in SubRow,
         sub' = [sub EXCEPT ![s] = new], now' = now,
         new.user = sub[s].user, new.plan = sub[s].plan,
         new.startsAt = sub[s].startsAt, new.endsAt = sub[s].endsAt,
         new.status = "active" => sub[s].status = "active",
         sub[s].status = "active" /\ sub[s].endsAt > now => new.status = "active"
  PROVE  /\ RowsKept /\ sub'[s] = new
         /\ \A t \in Payments : t # s => sub'[t] = sub[t]
<1>1. sub \in [Payments -> SubRow \union {NoRow}] /\ now \in Nat
  BY DEF IInv, TypeOK
<1>2. \A t \in Payments : sub'[t] = IF t = s THEN new ELSE sub[t]
  BY <1>1
<1>3. new # NoRow
  BY BillingAssumption
<1> QED
  BY <1>1, <1>2, <1>3 DEF RowsKept, RowKept

(* Cancelling closes nothing.                                              *)
LEMMA CancelKeepsRows ==
  ASSUME IInv, NEW c \in Clients, CancelSubscription(c)
  PROVE  RowsKept /\ \A t \in Payments : sub[t] # NoRow =>
           /\ sub'[t].status = sub[t].status /\ sub'[t].grantsMade = sub[t].grantsMade
           /\ sub'[t].nextGrantAt = sub[t].nextGrantAt
<1> DEFINE s == op[c].sub
           new == [sub[s] EXCEPT !.cancelled = TRUE]
<1>1. op[c] \in CancelOp /\ s \in Payments /\ sub[s] # NoRow
  BY DEF IInv, TypeOK, CancelSubscription, CancelKept, CheckoutOp, CancelOp
<1>2. sub[s] \in SubRow /\ now' = now
  BY <1>1 DEF IInv, TypeOK, CancelSubscription
<1>3. /\ new \in SubRow /\ new.user = sub[s].user /\ new.status = sub[s].status
      /\ new.plan = sub[s].plan /\ new.startsAt = sub[s].startsAt
      /\ new.endsAt = sub[s].endsAt /\ new.grantsMade = sub[s].grantsMade
      /\ new.nextGrantAt = sub[s].nextGrantAt
  BY <1>2 DEF SubRow
<1>4. sub' = [sub EXCEPT ![s] = new]
  BY DEF CancelSubscription
<1> HIDE DEF s, new
<1>5. /\ RowsKept /\ sub'[s] = new
      /\ \A t \in Payments : t # s => sub'[t] = sub[t]
  BY <1>1, <1>2, <1>3, <1>4, OneRowKept
<1> QED
  BY <1>3, <1>5

(* The lists after a job is done with a row.                               *)
LEMMA NextRowKeepsLists ==
  ASSUME IInv, NEW w \in Workers, NEW row \in Due(w), NextRow(w, row)
  PROVE  /\ ListsKept /\ row \notin Due(w)'
         /\ \A v \in Workers : v # w => job'[v] = job[v]
<1>1. /\ job \in [Workers -> Job \union {Idle}]
      /\ job[w].kind \in {"expire", "refill"} /\ job[w].due = Due(w)
      /\ Due(w) \in SUBSET DueRow
  BY ListedRow DEF IInv, TypeOK
<1> DEFINE j == RunOn(job[w].kind, Due(w) \ {row})
<1>2. job' = [job EXCEPT ![w] = j]
  BY <1>1 DEF NextRow
<1>3. \/ j = Idle /\ Due(w) \ {row} = {}
      \/ j = [kind |-> job[w].kind, due |-> Due(w) \ {row}] /\ j \in Job
  BY <1>1 DEF RunOn, Job
<1>4. [kind |-> job[w].kind, due |-> Due(w) \ {row}] # Idle
  BY <1>1, BillingAssumption DEF Job
<1>5. j # Idle => j.kind = job[w].kind /\ j.due = Due(w) \ {row}
  BY <1>3
<1> HIDE DEF j
<1>6. \A v \in Workers : job'[v] = IF v = w THEN j ELSE job[v]
  BY <1>1, <1>2
<1>7. Due(w)' = Due(w) \ {row} /\ \A r \in Due(w)' : job'[w].kind = job[w].kind
  <2>1. job'[w] = j
    BY <1>6
  <2>2. CASE j = Idle
    BY <1>3, <1>4, <2>1, <2>2 DEF Due
  <2>3. CASE j # Idle
    BY <1>5, <2>1, <2>3 DEF Due
  <2> QED
    BY <2>2, <2>3
<1>8. \A v \in Workers : v # w => Due(v)' = Due(v)
  BY <1>6 DEF Due
<1> QED
  BY <1>6, <1>7, <1>8 DEF ListsKept, ListKept

(* The lists after a job has listed what is due.                           *)
LEMMA ListingKeepsLists ==
  ASSUME IInv, NEW w \in Workers, ListDueForExpiry(w) \/ ListDueForGrant(w)
  PROVE  RowsKept /\ ListsKept
<1>1. PICK kind \in {"expire", "refill"}, ids \in SUBSET Payments :
        /\ ListDue(w, kind, ids)
        /\ \/ kind = "expire" /\ ids \subseteq DueForExpiry
           \/ kind = "refill" /\ ids \subseteq DueForGrant
  BY DEF ListDueForExpiry, ListDueForGrant, Batches, DueForExpiry, DueForGrant
<1>2. \A row \in Listed(ids) : row.id \in ids /\ row.grantsMade = sub[row.id].grantsMade
  BY DEF Listed
<1>3. \A s \in ids : s \in Payments /\ sub[s] # NoRow
  BY <1>1 DEF DueForExpiry, DueForGrant
<1>4. job \in [Workers -> Job \union {Idle}] /\ job[w] = Idle
  BY <1>1 DEF IInv, TypeOK, ListDue
<1> DEFINE j == RunOn(kind, Listed(ids))
<1>5. job' = [job EXCEPT ![w] = j] /\ UNCHANGED <<now, user, account, sub>>
  BY <1>1 DEF ListDue
<1>6. j # Idle => j.kind = kind /\ j.due = Listed(ids)
  BY DEF RunOn
<1> HIDE DEF j
<1>7. \A v \in Workers : job'[v] = IF v = w THEN j ELSE job[v]
  BY <1>4, <1>5
<1>8. ASSUME NEW row \in Due(w)'
      PROVE  row \in Listed(ids) /\ job'[w].kind = kind
  BY <1>6, <1>7, <1>8 DEF Due
<1>9. Due(w) = {}
  BY <1>4 DEF Due
<1>10. ListKept(w)
  BY <1>1, <1>2, <1>3, <1>5, <1>8, <1>9 DEF ListKept
<1>11. \A v \in Workers : v # w => ListKept(v)
  BY <1>7 DEF ListKept, Due
<1> QED
  BY <1>5, <1>10, <1>11, RowsAlone DEF ListsKept

(* The row a job closes, and what is left of the others.                   *)
LEMMA ExpiryKeepsRows ==
  ASSUME IInv, ListedLapsed, NEW w \in Workers, NEW row \in Due(w),
         ExpireDueSubscription(w, row)
  PROVE  /\ RowsKept /\ ListsKept
         /\ sub'[row.id].status = "expired"
         /\ sub'[row.id].grantsMade = sub[row.id].grantsMade
         /\ sub'[row.id].nextGrantAt = sub[row.id].nextGrantAt
         /\ \A t \in Payments : t # row.id => sub'[t] = sub[t]
<1> DEFINE s == row.id
           new == [sub[s] EXCEPT !.status = "expired"]
<1>1. /\ s \in Payments /\ sub[s] \in SubRow /\ now' = now /\ NextRow(w, row)
      /\ job[w].kind = "expire"
  BY ListedRow DEF ExpireDueSubscription, Working
<1>2. sub[s].endsAt <= now /\ sub[s].endsAt \in Nat /\ now \in Nat
  BY <1>1 DEF ListedLapsed, IInv, TypeOK, SubRow
<1>3. /\ new \in SubRow /\ new.user = sub[s].user /\ new.status = "expired"
      /\ new.plan = sub[s].plan /\ new.startsAt = sub[s].startsAt
      /\ new.endsAt = sub[s].endsAt /\ new.grantsMade = sub[s].grantsMade
      /\ new.nextGrantAt = sub[s].nextGrantAt
  BY <1>1 DEF SubRow
<1>4. sub' = [sub EXCEPT ![s] = new] /\ sub[s] # NoRow
  BY <1>1, BillingAssumption DEF ExpireDueSubscription
<1>5. ~(sub[s].endsAt > now)
  BY <1>2
<1> HIDE DEF s, new
<1>6. /\ RowsKept /\ sub'[s] = new
      /\ \A t \in Payments : t # s => sub'[t] = sub[t]
  BY <1>1, <1>3, <1>4, <1>5, OneRowKept
<1> QED
  BY <1>1, <1>3, <1>6, NextRowKeepsLists DEF s

(* The row a job refills.                                                  *)
LEMMA RefillKeepsRows ==
  ASSUME IInv, NEW w \in Workers, NEW row \in Due(w), GrantDueAllowance(w, row)
  PROVE  /\ RowsKept /\ ListsKept
         /\ sub'[row.id].status = sub[row.id].status
         /\ sub'[row.id].grantsMade = sub[row.id].grantsMade + 1
         /\ sub'[row.id].nextGrantAt = NextGrantAt(row)
         /\ \A t \in Payments : t # row.id => sub'[t] = sub[t]
<1> DEFINE s == row.id
           next == NextGrantAt(row)
           new == [sub[s] EXCEPT !.grantsMade = @ + 1, !.nextGrantAt = next]
<1>1. /\ s \in Payments /\ sub[s] \in SubRow /\ row.grantsMade \in Nat
      /\ now' = now /\ NextRow(w, row)
  BY ListedRow DEF GrantDueAllowance
<1>2. next \in Nat /\ sub[s].grantsMade + 1 \in Nat
  BY <1>1 DEF NextGrantAt, SubRow, Never
<1>3. sub' = [sub EXCEPT ![s] = new] /\ sub[s] # NoRow
  BY <1>1, BillingAssumption DEF GrantDueAllowance
<1> HIDE DEF next
<1>4. /\ new \in SubRow /\ new.user = sub[s].user /\ new.status = sub[s].status
      /\ new.plan = sub[s].plan /\ new.startsAt = sub[s].startsAt
      /\ new.endsAt = sub[s].endsAt /\ new.grantsMade = sub[s].grantsMade + 1
      /\ new.nextGrantAt = next
  BY <1>1, <1>2 DEF SubRow
<1> HIDE DEF s, new
<1>5. /\ RowsKept /\ sub'[s] = new
      /\ \A t \in Payments : t # s => sub'[t] = sub[t]
  BY <1>1, <1>3, <1>4, OneRowKept
<1> QED
  BY <1>1, <1>4, <1>5, NextRowKeepsLists DEF s, next

(* A payment that is confirmed and is not for a pack buys a period.        *)
LEMMA ConfirmationRows ==
  ASSUME IInv, AppliedOnce, NEW p \in Payments, NEW ref \in Refs \union {NoRef},
         ConfirmPayment(p, ref)
  PROVE  /\ ListsKept
         /\ \/ /\ payment[p].kind = "credit_pack" /\ payment[p].code \in Packs
               /\ CreditPack(payment[p].user, payment[p].code) /\ RowsKept
            \/ \E u \in Users, plan \in Plans : Activated(p, u, plan)
<1>1. payment[p] \in PaymentRow /\ payment[p] # NoRow /\ payment[p].status = "pending"
  BY DEF ConfirmPayment, IInv, TypeOK, PaymentRow, Settled
<1>2. sub[p] = NoRow
  BY <1>1 DEF AppliedOnce
<1>3. UNCHANGED <<now, op, request, job>>
  BY DEF ConfirmPayment
<1>4. CASE payment[p].kind = "subscription"
  <2>1. payment[p].user \in Users /\ payment[p].code \in Plans
    BY <1>1, <1>4 DEF PaymentRow
  <2>2. Activated(p, payment[p].user, payment[p].code)
    BY <1>1, <1>2, <1>3, <1>4 DEF Activated, ConfirmPayment
  <2> QED
    BY <1>3, <2>1, <2>2, ListsAlone
<1>5. CASE payment[p].kind = "credit_pack"
  <2>1. payment[p].code \in Packs
    BY <1>1, <1>5 DEF PaymentRow
  <2>2. CreditPack(payment[p].user, payment[p].code)
    BY <1>5 DEF ConfirmPayment
  <2>3. RowsKept
    BY <1>3, <2>2, RowsAlone DEF CreditPack
  <2> QED
    BY <1>3, <1>5, <2>1, <2>2, <2>3, ListsAlone
<1> QED
  BY <1>1, <1>4, <1>5 DEF PaymentRow

(* Every step keeps the periods there are, or adds one.                    *)
LEMMA NextPeriods ==
  ASSUME IInv, AppliedOnce, ListedLapsed, [Next]_vars
  PROVE  /\ ListsKept
         /\ RowsKept \/ \E p \in Payments, u \in Users, plan \in Plans : Activated(p, u, plan)
<1>1. CASE Tick \/ \E u \in Users : Register(u)
  <2>1. UNCHANGED <<sub, job>> /\ now' \in Nat /\ now <= now'
    BY <1>1 DEF Tick, Register, IInv, TypeOK
  <2>2. RowsKept
    BY <2>1 DEF RowsKept, RowKept
  <2> QED
    BY <2>1, <2>2, ListsAlone
<1>2. CASE CheckoutStep
  <2>1. ASSUME NEW c \in Clients, CancelSubscription(c)
        PROVE  RowsKept /\ ListsKept
    BY <2>1, CancelKeepsRows, ListsAlone DEF CancelSubscription
  <2>2. ASSUME ~\E c \in Clients : CancelSubscription(c)
        PROVE  UNCHANGED <<now, sub, job>>
    BY <1>2, <2>2
    DEF CheckoutStep, StartSubscriptionCheckout, StartPackCheckout, StartCheckout,
        LookUpForCancel, FindPaymentByIdempotencyKey, CreatePayment, DropClient
  <2> QED
    BY <2>1, <2>2, RowsAlone, ListsAlone
<1>3. CASE \E p \in Payments, ref \in Refs \union {NoRef} : ConfirmPayment(p, ref)
  BY <1>3, ConfirmationRows
<1>4. CASE RequestStep
  <2>1. UNCHANGED <<now, sub, job>>
    BY <1>4 DEF RequestStep, MeetMissingWallet, CheckAccess, HealWallet, Spend,
                RefuseSpend, Refund, EndRequest
  <2> QED
    BY <2>1, RowsAlone, ListsAlone
<1>5. CASE JobStep
  <2>1. ASSUME NEW w \in Workers, NEW row \in Due(w), DropRow(w, row)
        PROVE  RowsKept /\ ListsKept
    BY <2>1, RowsAlone, NextRowKeepsLists DEF DropRow
  <2> QED
    BY <1>5, <2>1, ListingKeepsLists, ExpiryKeepsRows, RefillKeepsRows DEF JobStep
<1>6. CASE UNCHANGED vars
  BY <1>6, RowsAlone, ListsAlone DEF vars
<1> QED
  BY <1>1, <1>2, <1>3, <1>4, <1>5, <1>6 DEF Next

-----------------------------------------------------------------------------
(* Periods.                                                                *)

(* What stays of the periods keeps them disjoint and followed up.          *)
LEMMA KeptPeriods ==
  ASSUME IInv, PeriodsDisjoint, FutureIsActive, RowsKept
  PROVE  PeriodsDisjoint' /\ FutureIsActive'
<1>1. \A s \in Payments : sub[s] # NoRow => sub[s] \in SubRow
  BY DEF IInv, TypeOK
<1>2. PeriodsDisjoint'
  BY DEF PeriodsDisjoint, RowsKept, RowKept
<1>3. ASSUME NEW t \in Payments, sub'[t] # NoRow, sub'[t].endsAt > now'
      PROVE  \E s \in ActiveSubs(sub[t].user)' : sub'[t].endsAt <= sub'[s].endsAt
  <2>1. /\ sub[t] # NoRow /\ sub'[t].user = sub[t].user /\ sub'[t].endsAt = sub[t].endsAt
        /\ sub[t].endsAt \in Nat /\ now \in Nat /\ now' \in Nat /\ now <= now'
    BY <1>1, <1>3 DEF RowsKept, RowKept, SubRow, IInv, TypeOK
  <2>2. sub[t].endsAt > now
    BY <1>3, <2>1
  <2>3. PICK s \in ActiveSubs(sub[t].user) : sub[t].endsAt <= sub[s].endsAt
    BY <2>1, <2>2 DEF FutureIsActive
  <2>4. /\ s \in Payments /\ sub[s] # NoRow /\ sub[s].user = sub[t].user
        /\ sub[s].status = "active" /\ sub[s].endsAt \in Nat
    BY <1>1 DEF ActiveSubs, SubRow
  <2>5. sub[s].endsAt > now
    BY <2>1, <2>2, <2>3, <2>4
  <2>6. s \in ActiveSubs(sub[t].user)' /\ sub'[s].endsAt = sub[s].endsAt
    BY <2>1, <2>4, <2>5 DEF RowsKept, RowKept, ActiveSubs
  <2> QED
    BY <2>1, <2>3, <2>6
<1> QED
  BY <1>2, <1>3 DEF FutureIsActive

(* The new period lies after every other of its user, and ends no earlier  *)
(* than the one it replaces.                                               *)
LEMMA NewPeriod ==
  ASSUME PeriodInv, NEW p \in Payments, NEW u \in Users, NEW plan \in Plans,
         Activated(p, u, plan)
  PROVE  /\ sub'[p] = NewSubscription(u, plan) /\ sub'[p] \in SubRow /\ sub'[p].user = u
         /\ sub'[p].status = "active" /\ sub'[p].plan = plan /\ sub'[p] # NoRow
         /\ sub'[p].startsAt = PeriodStart(u) /\ sub'[p].endsAt > sub'[p].startsAt
         /\ \A t \in Payments : sub[t] # NoRow /\ sub[t].user = u =>
              sub[t].endsAt <= sub'[p].startsAt
         /\ \A s \in ActiveSubs(u) : s \in LiveSubs(u)
<1> DEFINE new == NewSubscription(u, plan)
<1>1. new \in SubRow /\ new.user = u /\ PeriodStart(u) \in Nat
  BY NewSubscriptionTyped, PeriodStartTyped DEF PeriodInv, IInv
<1>2. Plan[plan].months \in Nat
  BY BillingAssumption DEF PlanRow
<1>3. PlanMonths(plan) \in Nat /\ PlanMonths(plan) > 0
  BY <1>2 DEF PlanMonths
<1>4. /\ new.status = "active" /\ new.plan = plan /\ new.startsAt = PeriodStart(u)
      /\ new.endsAt = PeriodStart(u) + PlanMonths(plan)
  BY DEF NewSubscription
<1>5. sub' = [CloseCurrent(u) EXCEPT ![p] = new] /\ MayActivate(u) /\ UNCHANGED now
  BY DEF Activated, ActivateSubscription
<1>6. p \in DOMAIN CloseCurrent(u)
  BY DEF CloseCurrent
<1> HIDE DEF new
<1>7. sub'[p] = new
  BY <1>5, <1>6
<1>8. ASSUME NEW s \in ActiveSubs(u)
      PROVE  s \in LiveSubs(u) /\ s = LiveSubscription(u)
  <2>1. LiveSubs(u) # {} /\ s = LiveSubscription(u)
    BY <1>5, <1>8 DEF MayActivate
  <2> QED
    BY <2>1, LiveIsOne DEF PeriodInv, IInv
<1>9. ASSUME NEW t \in Payments, sub[t] # NoRow, sub[t].user = u
      PROVE  sub[t].endsAt <= PeriodStart(u)
  <2>1. sub[t] \in SubRow /\ sub[t].endsAt \in Nat /\ now \in Nat
    BY <1>9 DEF PeriodInv, IInv, TypeOK, SubRow
  <2>2. CASE LiveSubs(u) = {}
    <3>1. ActiveSubs(u) = {}
      BY <1>8, <2>2
    <3>2. ~(sub[t].endsAt > now)
      BY <1>9, <3>1 DEF PeriodInv, FutureIsActive
    <3> QED
      BY <2>1, <2>2, <3>2 DEF PeriodStart
  <2>3. CASE LiveSubs(u) # {}
    <3> DEFINE l == LiveSubscription(u)
    <3>1. l \in LiveSubs(u) /\ l \in Payments /\ sub[l] \in SubRow
      BY <2>3, LiveIsOne DEF PeriodInv, IInv
    <3>2. sub[l].endsAt > now /\ sub[l].endsAt \in Nat /\ PeriodStart(u) = sub[l].endsAt
      BY <2>3, <3>1 DEF LiveSubs, PeriodStart, SubRow
    <3>3. CASE sub[t].endsAt > now
      <4>1. PICK s \in ActiveSubs(u) : sub[t].endsAt <= sub[s].endsAt
        BY <1>9, <3>3 DEF PeriodInv, FutureIsActive
      <4> QED
        BY <1>8, <3>2, <4>1
    <3>4. CASE ~(sub[t].endsAt > now)
      BY <2>1, <3>2, <3>4
    <3> QED
      BY <3>3, <3>4
  <2> QED
    BY <2>2, <2>3
<1>10. new # NoRow
  BY <1>1, BillingAssumption
<1> QED
  BY <1>1, <1>3, <1>4, <1>7, <1>8, <1>9, <1>10 DEF new

(* The rows an activation finds stay, but for the status of the live one.  *)
LEMMA OtherPeriods ==
  ASSUME PeriodInv, NEW p \in Payments, NEW u \in Users, NEW plan \in Plans,
         Activated(p, u, plan)
  PROVE  /\ now' = now /\ now \in Nat
         /\ \A t \in Payments : t # p =>
              /\ sub'[t] # NoRow <=> sub[t] # NoRow
              /\ sub[t] # NoRow =>
                   /\ sub[t] \in SubRow
                   /\ sub'[t].user = sub[t].user /\ sub'[t].plan = sub[t].plan
                   /\ sub'[t].startsAt = sub[t].startsAt /\ sub'[t].endsAt = sub[t].endsAt
                   /\ sub'[t].grantsMade = sub[t].grantsMade
                   /\ sub'[t].nextGrantAt = sub[t].nextGrantAt
                   /\ sub[t].user = u => sub'[t].status # "active"
                   /\ sub[t].user # u => sub'[t] = sub[t]
<1>1. sub' = [CloseCurrent(u) EXCEPT ![p] = NewSubscription(u, plan)] /\ now' = now
  BY DEF Activated, ActivateSubscription
<1>2. ASSUME NEW t \in Payments, t # p
      PROVE  sub'[t] = IF LiveSubs(u) # {} /\ t = LiveSubscription(u)
                       THEN [sub[t] EXCEPT !.status = "expired"] ELSE sub[t]
  BY <1>1, <1>2 DEF CloseCurrent
<1>3. ASSUME NEW t \in Payments, t # p
      PROVE  /\ sub'[t] # NoRow <=> sub[t] # NoRow
             /\ sub[t] # NoRow =>
                  /\ sub[t] \in SubRow
                  /\ sub'[t].user = sub[t].user /\ sub'[t].plan = sub[t].plan
                  /\ sub'[t].startsAt = sub[t].startsAt /\ sub'[t].endsAt = sub[t].endsAt
                  /\ sub'[t].grantsMade = sub[t].grantsMade
                  /\ sub'[t].nextGrantAt = sub[t].nextGrantAt
                  /\ sub[t].user = u => sub'[t].status # "active"
                  /\ sub[t].user # u => sub'[t] = sub[t]
  <2>1. CASE LiveSubs(u) # {} /\ t = LiveSubscription(u)
    <3>1. sub[t] \in SubRow /\ sub[t].user = u /\ sub[t] # NoRow
      BY <2>1, LiveIsOne DEF PeriodInv, IInv, LiveSubs, ActiveSubs
    <3> DEFINE old == [sub[t] EXCEPT !.status = "expired"]
    <3>2. /\ old \in SubRow /\ old.status = "expired"
          /\ old.user = sub[t].user /\ old.plan = sub[t].plan
          /\ old.startsAt = sub[t].startsAt /\ old.endsAt = sub[t].endsAt
          /\ old.grantsMade = sub[t].grantsMade /\ old.nextGrantAt = sub[t].nextGrantAt
      BY <3>1 DEF SubRow
    <3>3. sub'[t] = old
      BY <1>2, <1>3, <2>1
    <3> HIDE DEF old
    <3>4. old # NoRow
      BY <3>2, BillingAssumption
    <3> QED
      BY <3>1, <3>2, <3>3, <3>4
  <2>2. CASE ~(LiveSubs(u) # {} /\ t = LiveSubscription(u))
    <3>1. sub'[t] = sub[t]
      BY <1>2, <1>3, <2>2
    <3>2. sub[t] # NoRow => sub[t] \in SubRow
      BY DEF PeriodInv, IInv, TypeOK
    <3>3. sub[t] # NoRow /\ sub[t].user = u => sub[t].status # "active"
      BY <1>1, <2>2 DEF Activated, ActivateSubscription, MayActivate, ActiveSubs
    <3> QED
      BY <3>1, <3>2, <3>3
  <2> QED
    BY <2>1, <2>2
<1>4. now \in Nat
  BY DEF PeriodInv, IInv, TypeOK
<1> QED
  BY <1>1, <1>3, <1>4

(* A purchase keeps the periods disjoint and followed up.                  *)
LEMMA ActivationPeriods ==
  ASSUME PeriodInv, NEW p \in Payments, NEW u \in Users, NEW plan \in Plans,
         Activated(p, u, plan)
  PROVE  PeriodsDisjoint' /\ FutureIsActive'
<1>1. /\ sub'[p].user = u /\ sub'[p] \in SubRow /\ sub'[p] # NoRow
      /\ sub'[p].status = "active" /\ sub'[p].endsAt > sub'[p].startsAt
      /\ \A t \in Payments : sub[t] # NoRow /\ sub[t].user = u =>
           sub[t].endsAt <= sub'[p].startsAt
  BY NewPeriod
<1>2. /\ now' = now
      /\ \A t \in Payments : t # p =>
           /\ sub'[t] # NoRow <=> sub[t] # NoRow
           /\ sub[t] # NoRow =>
                /\ sub[t] \in SubRow /\ sub'[t].user = sub[t].user
                /\ sub'[t].startsAt = sub[t].startsAt /\ sub'[t].endsAt = sub[t].endsAt
                /\ sub[t].user # u => sub'[t] = sub[t]
  BY OtherPeriods
<1>3. PeriodsDisjoint'
  BY <1>1, <1>2 DEF PeriodInv, PeriodsDisjoint
<1>4. p \in ActiveSubs(u)'
  BY <1>1 DEF ActiveSubs
<1>5. ASSUME NEW t \in Payments, sub'[t] # NoRow, sub'[t].endsAt > now'
      PROVE  \E s \in ActiveSubs(sub[t].user)' : sub'[t].endsAt <= sub'[s].endsAt
  <2>0. sub'[p].startsAt \in Nat /\ sub'[p].endsAt \in Nat
    BY <1>1 DEF SubRow
  <2>1. CASE t = p
    BY <1>1, <1>4, <2>0, <2>1
  <2>2. CASE t # p /\ sub[t].user = u
    <3>1. sub[t].endsAt <= sub'[p].startsAt /\ sub[t].endsAt \in Nat
          /\ sub'[t].endsAt = sub[t].endsAt /\ sub'[t].user = u
      BY <1>1, <1>2, <1>5, <2>2 DEF SubRow
    <3> QED
      BY <1>1, <1>4, <2>0, <3>1
  <2>3. CASE t # p /\ sub[t].user # u
    <3>1. sub[t] # NoRow /\ sub'[t] = sub[t] /\ sub[t].endsAt > now
      BY <1>2, <1>5, <2>3
    <3>2. PICK s \in ActiveSubs(sub[t].user) : sub[t].endsAt <= sub[s].endsAt
      BY <3>1 DEF PeriodInv, FutureIsActive
    <3>3. /\ s \in Payments /\ sub[s] # NoRow /\ sub[s].user = sub[t].user
          /\ sub[s].status = "active"
      BY DEF ActiveSubs
    <3>4. s # p
      BY <3>3 DEF Activated
    <3>5. sub'[s] = sub[s]
      BY <1>2, <2>3, <3>3, <3>4
    <3> QED
      BY <3>1, <3>2, <3>3, <3>5 DEF ActiveSubs
  <2> QED
    BY <2>1, <2>2, <2>3
<1> QED
  BY <1>3, <1>5 DEF FutureIsActive

(* What was over stays over.                                               *)
LEMMA ListedStayLapsed ==
  ASSUME PeriodInv, ListsKept,
         RowsKept \/ \E p \in Payments, u \in Users, plan \in Plans : Activated(p, u, plan)
  PROVE  ListedLapsed'
<1> SUFFICES ASSUME NEW w \in Workers, NEW row \in Due(w)', job'[w].kind = "expire"
             PROVE  sub'[row.id].endsAt <= now'
  BY DEF ListedLapsed
<1>1. CASE row \in Due(w) /\ job'[w].kind = job[w].kind
  <2>1. row.id \in Payments /\ sub[row.id] \in SubRow /\ sub[row.id] # NoRow
    BY <1>1, ListedRow, BillingAssumption DEF PeriodInv
  <2>2. sub[row.id].endsAt <= now /\ sub[row.id].endsAt \in Nat /\ now \in Nat
    BY <1>1, <2>1 DEF PeriodInv, ListedLapsed, IInv, TypeOK, SubRow
  <2>3. CASE RowsKept
    BY <2>1, <2>2, <2>3 DEF RowsKept, RowKept
  <2>4. ASSUME NEW p \in Payments, NEW u \in Users, NEW plan \in Plans,
               Activated(p, u, plan)
        PROVE  sub'[row.id].endsAt <= now'
    <3>1. row.id # p
      BY <2>1, <2>4 DEF Activated
    <3>2. now' = now /\ sub'[row.id].endsAt = sub[row.id].endsAt
      BY <2>1, <2>4, <3>1, OtherPeriods
    <3> QED
      BY <2>2, <3>2
  <2> QED
    BY <2>3, <2>4
<1>2. CASE UNCHANGED <<now, sub>> /\ row.id \in DueForExpiry
  BY <1>2 DEF DueForExpiry
<1> QED
  BY <1>1, <1>2 DEF ListsKept, ListKept

(* Every step preserves PeriodInv.                                         *)
LEMMA NextPeriodInv ==
  ASSUME PeriodInv, [Next]_vars
  PROVE  PeriodInv'
<1>1. IInv' /\ AppliedOnce'
  BY NextIInv, NextAppliedOnce DEF PeriodInv
<1>2. /\ ListsKept
      /\ RowsKept \/ \E p \in Payments, u \in Users, plan \in Plans : Activated(p, u, plan)
  BY NextPeriods DEF PeriodInv
<1>3. PeriodsDisjoint' /\ FutureIsActive'
  BY <1>2, KeptPeriods, ActivationPeriods DEF PeriodInv
<1>4. ListedLapsed'
  BY <1>2, ListedStayLapsed
<1> QED
  BY <1>1, <1>3, <1>4 DEF PeriodInv

(* Nobody has a period at the start.                                       *)
LEMMA InitPeriodInv ==
  ASSUME Init
  PROVE  PeriodInv
<1>1. AppliedOnce
  BY DEF Init, AppliedOnce
<1>2. PeriodsDisjoint /\ FutureIsActive
  BY DEF Init, PeriodsDisjoint, FutureIsActive
<1>3. ListedLapsed
  BY DEF Init, ListedLapsed, Due
<1> QED
  BY <1>1, <1>2, <1>3, InitIInv DEF PeriodInv

(* PeriodInv holds in every reachable state.                               *)
LEMMA PeriodsInductive == Spec => []PeriodInv
<1>1. PeriodInv /\ [Next]_vars => PeriodInv'
  BY NextPeriodInv
<1> QED
  BY <1>1, InitPeriodInv, PTL DEF Spec

(* The periods a user pays for never overlap, for any number of purchases, *)
(* extensions and job runs, whatever their interleaving.                   *)
THEOREM PaidPeriodsDisjoint == Spec => []PeriodsDisjoint
<1>1. PeriodInv => PeriodsDisjoint
  BY DEF PeriodInv
<1> QED
  BY <1>1, PeriodsInductive, PTL

(* A step keeps the access of every user up to the end of the period.      *)
LEMMA AccessKept ==
  ASSUME PeriodInv, [Next]_vars, NEW v \in Users, NEW s \in LiveSubs(v),
         sub[s].endsAt > now'
  PROVE  \E t \in LiveSubs(v)' : sub'[t].endsAt >= sub[s].endsAt
<1>1. /\ s \in Payments /\ sub[s] # NoRow /\ sub[s].user = v /\ sub[s].status = "active"
      /\ sub[s].endsAt > now
  BY DEF LiveSubs, ActiveSubs
<1>2. sub[s].endsAt \in Nat
  BY <1>1 DEF PeriodInv, IInv, TypeOK, SubRow
<1>3. CASE RowsKept
  BY <1>1, <1>2, <1>3 DEF RowsKept, RowKept, LiveSubs, ActiveSubs
<1>4. ASSUME NEW p \in Payments, NEW u \in Users, NEW plan \in Plans, Activated(p, u, plan)
      PROVE  \E t \in LiveSubs(v)' : sub'[t].endsAt >= sub[s].endsAt
  <2>1. now' = now /\ now \in Nat /\ s # p
    BY <1>1, <1>4, OtherPeriods DEF Activated
  <2>2. CASE u = v
    <3>1. /\ sub'[p].user = v /\ sub'[p].status = "active" /\ sub'[p] # NoRow
          /\ sub'[p].startsAt \in Nat /\ sub'[p].endsAt \in Nat
          /\ sub'[p].endsAt > sub'[p].startsAt /\ sub[s].endsAt <= sub'[p].startsAt
      BY <1>1, <1>4, <2>2, NewPeriod DEF SubRow
    <3>2. sub'[p].endsAt > now' /\ sub'[p].endsAt >= sub[s].endsAt
      BY <1>1, <1>2, <2>1, <3>1
    <3> QED
      BY <3>1, <3>2 DEF LiveSubs, ActiveSubs
  <2>3. CASE u # v
    <3>1. sub'[s] = sub[s]
      BY <1>1, <1>4, <2>1, <2>3, OtherPeriods
    <3> QED
      BY <1>1, <1>2, <2>1, <3>1 DEF LiveSubs, ActiveSubs
  <2> QED
    BY <2>2, <2>3
<1> QED
  BY <1>3, <1>4, NextPeriods DEF PeriodInv

(* Paid time is never taken back, for any number of jobs working from old  *)
(* lists, cancellations and purchases.                                     *)
THEOREM PaidTimeIsKept == Spec => PaidTimeKept
<1>1. PeriodInv /\ [Next]_vars =>
        [\A u \in Users : \A s \in LiveSubs(u) : sub[s].endsAt > now' =>
           \E t \in LiveSubs(u)' : sub[t].endsAt' >= sub[s].endsAt]_vars
  BY AccessKept
<1>2. Spec => [][Next]_vars
  BY DEF Spec
<1> QED
  BY <1>1, <1>2, PeriodsInductive, PTL DEF PaidTimeKept

-----------------------------------------------------------------------------
(* What a plan gives: its snapshot on the users row, its allowance and its *)
(* refills.  This holds while no two maintenance runs have listed rows of  *)
(* one user (UsersApart): each instance of the service runs both jobs, and *)
(* two runs that have listed the same row settle it twice, which breaks    *)
(* all three.  PlanInv is inductive under that hypothesis.  What it adds   *)
(* to PeriodInv is that the lists of the runs under way are true to the    *)
(* table: nobody has closed, refilled or replaced what they have listed in *)
(* a way that matters.                                                     *)

(* What two runs have still to do is about different users.  Otherwise     *)
(* both refill the month both have listed, one closes what a user has      *)
(* bought since the other closed it, or one refills a plan that the other  *)
(* has closed.  A single run meets this whatever it has listed.            *)

UsersApart ==
  \A v, w \in Workers : \A a \in Due(v), b \in Due(w) :
    sub[a.id].user = sub[b.id].user => v = w

\* What a job has listed is as it was, until the job gets to it.
AsListed(w, row) ==
  LET r == sub[row.id]
  IN  /\ row.grantsMade = r.grantsMade
      /\ job[w].kind = "expire" => r.status = "active"
      /\ job[w].kind = "refill" =>
           r.grantsMade + 1 < r.endsAt - r.startsAt /\ ActiveSubs(r.user) # {}

ListKnown == \A w \in Workers : \A row \in Due(w) : AsListed(w, row)

\* What names a user names one who is registered.
NamesKnown ==
  /\ \A p \in Payments : payment[p] # NoRow => user[payment[p].user] # NoRow
  /\ \A p \in Payments : sub[p] # NoRow => user[sub[p].user] # NoRow
  /\ \A c \in Clients : op[c] # Idle /\ op[c].step # "cancel" => user[op[c].user] # NoRow

PlanInv ==
  /\ PeriodInv
  /\ ListKnown /\ NamesKnown
  /\ RefillSchedule /\ PlanSnapshot /\ AllowanceNeedsPlan

-----------------------------------------------------------------------------
(* The allowance of an account.                                            *)

\* No operation but a grant gives an allowance to who has none.
NoGain(a, b) == b.allowance > 0 => a.allowance > 0

(* The welcome bonus is not allowance.                                     *)
LEMMA ProvisionNoGain ==
  ASSUME NEW a, Sound(a), NEW m \in Nat
  PROVE  NoGain(a, ProvisionNewUser(a, m)) /\ NoGain(a, LockOrProvision(a, m))
<1>1. EnsureWallet(a, m).allowance = a.allowance
  BY DEF EnsureWallet, Sound, Account
<1> DEFINE w == EnsureWallet(a, m)
<1> HIDE DEF w
<1>2. NoGain(a, ProvisionNewUser(a, m))
  BY <1>1 DEF ProvisionNewUser, ApplyWallet, NoGain, w
<1> QED
  BY <1>2 DEF LockOrProvision, NoGain

(* What is spent, given back or sold is not, either.                       *)
LEMMA OthersNoGain ==
  ASSUME NEW a, Sound(a), NEW m \in Nat, NEW n \in Nat
  PROVE  /\ NoGain(a, Debit(a, n, m)) /\ NoGain(a, RefundCredits(a, n, m))
         /\ NoGain(a, Grant(a, 0, n, FALSE, m))
         /\ ~(ExpireAllowance(a, m).allowance > 0)
<1>1. a.allowance \in Nat
  BY DEF Sound, Account
<1>2. NoGain(a, Debit(a, n, m))
  BY <1>1 DEF Debit, ApplyWallet, NoGain
<1>3. NoGain(a, RefundCredits(a, n, m))
  BY <1>1 DEF RefundCredits, ApplyWallet, NoGain
<1>4. NoGain(a, Grant(a, 0, n, FALSE, m))
  <2> DEFINE w == LockOrProvision(a, m)
  <2>1. w.allowance \in Nat
    BY LockOrProvisionSound DEF Sound, Account
  <2>2. NoGain(a, w)
    BY ProvisionNoGain
  <2> HIDE DEF w
  <2> QED
    BY <1>1, <2>1, <2>2 DEF Grant, ApplyWallet, NoGain, w
<1>5. ~(ExpireAllowance(a, m).allowance > 0)
  BY <1>1 DEF ExpireAllowance, ApplyWallet
<1> QED
  BY <1>2, <1>3, <1>4, <1>5

-----------------------------------------------------------------------------
(* Kinds of steps.                                                         *)

\* The plan a subscription gives, and its refills, are as they were.
RowSame(s) ==
  /\ sub'[s].user = sub[s].user /\ sub'[s].plan = sub[s].plan
  /\ sub'[s].startsAt = sub[s].startsAt /\ sub'[s].endsAt = sub[s].endsAt
  /\ sub'[s].status = sub[s].status
  /\ sub'[s].grantsMade = sub[s].grantsMade /\ sub'[s].nextGrantAt = sub[s].nextGrantAt

RowsSame ==
  /\ \A s \in Payments : sub'[s] # NoRow <=> sub[s] # NoRow
  /\ \A s \in Payments : sub[s] # NoRow => RowSame(s)

NewUser(u) == user[u] = NoRow /\ user'[u] = [plan |-> FreePlan, expiresAt |-> Never]

\* Nobody's plan changes, and nobody gets an allowance.
Quiet ==
  /\ RowsSame
  /\ \A u \in Users : user'[u] = user[u] \/ NewUser(u)
  /\ \A u \in Users : NoGain(account[u], account'[u])

\* A kind that must be one of the four; used to take a step apart.
Kinds ==
  \/ Quiet
  \/ \E p \in Payments, u \in Users, plan \in Plans : Activated(p, u, plan)
  \/ \E w \in Workers : \E row \in Due(w) : ExpireDueSubscription(w, row)
  \/ \E w \in Workers : \E row \in Due(w) : GrantDueAllowance(w, row)

(* A step that touches nothing of this is quiet.                           *)
LEMMA QuietAlone ==
  ASSUME UNCHANGED <<user, account, sub>>
  PROVE  Quiet
BY DEF Quiet, RowsSame, RowSame, NoGain

(* So is one that writes one account, without giving it an allowance.      *)
LEMMA QuietAccount ==
  ASSUME IInv, UNCHANGED <<user, sub>>, NEW u \in Users, NEW a, NoGain(account[u], a),
         account' = [account EXCEPT ![u] = a]
  PROVE  Quiet
<1>1. account \in [Users -> Account]
  BY DEF IInv, TypeOK
<1>2. \A v \in Users : account'[v] = IF v = u THEN a ELSE account[v]
  BY <1>1
<1> QED
  BY <1>2 DEF Quiet, RowsSame, RowSame, NoGain

(* The steps of a gated call.                                              *)
LEMMA RequestsQuiet ==
  ASSUME IInv, RequestStep
  PROVE  Quiet
<1>1. ASSUME NEW r \in Requests, request[r] # Idle
      PROVE  /\ request[r].user \in Users
             /\ Feature[request[r].feature].cost \in Nat
             /\ Sound(account[request[r].user]) /\ now \in Nat
  BY <1>1, BillingAssumption DEF IInv, TypeOK, Request, AccountsSound, FeatureRow
<1>2. ASSUME NEW r \in Requests, HealWallet(r)
      PROVE  Quiet
  <2>1. request[r] # Idle
    BY <1>2 DEF HealWallet
  <2>2. NoGain(account[request[r].user], ProvisionNewUser(account[request[r].user], now))
    BY <1>1, <2>1, ProvisionNoGain
  <2> QED
    BY <1>1, <1>2, <2>1, <2>2, QuietAccount DEF HealWallet
<1>3. ASSUME NEW r \in Requests, Spend(r)
      PROVE  Quiet
  <2> DEFINE u == request[r].user
             cost == Feature[request[r].feature].cost
             w == LockOrProvision(account[u], now)
  <2>1. request[r] # Idle
    BY <1>3 DEF Spend
  <2>2. u \in Users /\ cost \in Nat /\ Sound(account[u]) /\ now \in Nat
    BY <1>1, <2>1
  <2>3. account' = [account EXCEPT ![u] = Debit(w, cost, now)] /\ UNCHANGED <<user, sub>>
    BY <1>3 DEF Spend
  <2>4. Sound(w) /\ NoGain(account[u], w)
    BY <2>2, LockOrProvisionSound, ProvisionNoGain
  <2> HIDE DEF u, cost, w
  <2>5. NoGain(w, Debit(w, cost, now))
    BY <2>2, <2>4, OthersNoGain
  <2>6. NoGain(account[u], Debit(w, cost, now))
    BY <2>4, <2>5 DEF NoGain
  <2> QED
    BY <2>2, <2>3, <2>6, QuietAccount
<1>4. ASSUME NEW r \in Requests, Refund(r)
      PROVE  Quiet
  <2> DEFINE u == request[r].user
             cost == Feature[request[r].feature].cost
  <2>1. request[r] # Idle
    BY <1>4 DEF Refund
  <2>2. u \in Users /\ cost \in Nat /\ Sound(account[u]) /\ now \in Nat
    BY <1>1, <2>1
  <2>3. account' = [account EXCEPT ![u] = RefundCredits(account[u], cost, now)]
        /\ UNCHANGED <<user, sub>>
    BY <1>4 DEF Refund
  <2> HIDE DEF u, cost
  <2>4. NoGain(account[u], RefundCredits(account[u], cost, now))
    BY <2>2, OthersNoGain
  <2> QED
    BY <2>2, <2>3, <2>4, QuietAccount
<1>5. ASSUME UNCHANGED <<user, account, sub>>
      PROVE  Quiet
  BY <1>5, QuietAlone
<1> QED
  BY <1>2, <1>3, <1>4, <1>5
  DEF RequestStep, MeetMissingWallet, CheckAccess, RefuseSpend, EndRequest

(* Registration gives a plan and no allowance.                             *)
LEMMA RegisterQuiet ==
  ASSUME IInv, NEW u \in Users, Register(u)
  PROVE  Quiet
<1>1. /\ user \in [Users -> UserRow \union {NoRow}] /\ account \in [Users -> Account]
      /\ Sound(account[u]) /\ now \in Nat
  BY DEF IInv, TypeOK, AccountsSound
<1>2. \A v \in Users : user'[v] = user[v] \/ NewUser(v)
  BY <1>1 DEF Register, NewUser
<1>3. NoGain(account[u], ProvisionNewUser(account[u], now))
  BY <1>1, ProvisionNoGain
<1>4. \A v \in Users : NoGain(account[v], account'[v])
  BY <1>1, <1>3 DEF Register, NoGain
<1>5. sub' = sub
  BY DEF Register
<1> QED
  BY <1>2, <1>4, <1>5 DEF Quiet, RowsSame, RowSame

(* Every step is of one of the four kinds.                                 *)
LEMMA NextKinds ==
  ASSUME IInv, AppliedOnce, [Next]_vars
  PROVE  Kinds
<1>1. CASE Tick \/ UNCHANGED vars
  BY <1>1, QuietAlone DEF Tick, vars, Kinds
<1>2. CASE \E u \in Users : Register(u)
  BY <1>2, RegisterQuiet DEF Kinds
<1>3. CASE CheckoutStep
  <2>1. ASSUME NEW c \in Clients, CancelSubscription(c)
        PROVE  Quiet
    <3>1. UNCHANGED <<user, account>>
      BY <2>1 DEF CancelSubscription
    <3>2. RowsSame
      BY <2>1, CancelKeepsRows DEF RowsSame, RowSame, RowsKept, RowKept
    <3> QED
      BY <3>1, <3>2 DEF Quiet, NoGain
  <2>2. ASSUME ~\E c \in Clients : CancelSubscription(c)
        PROVE  UNCHANGED <<user, account, sub>>
    BY <1>3, <2>2
    DEF CheckoutStep, StartSubscriptionCheckout, StartPackCheckout, StartCheckout,
        LookUpForCancel, FindPaymentByIdempotencyKey, CreatePayment, DropClient
  <2> QED
    BY <2>1, <2>2, QuietAlone DEF Kinds
<1>4. ASSUME NEW p \in Payments, NEW ref \in Refs \union {NoRef}, ConfirmPayment(p, ref)
      PROVE  Kinds
  <2>1. CASE payment[p].kind = "credit_pack" /\ payment[p].code \in Packs
             /\ CreditPack(payment[p].user, payment[p].code)
    <3> DEFINE u == payment[p].user
               n == PackCredits[payment[p].code]
    <3>1. u \in Users /\ n \in Nat
      BY <1>4, <2>1, BillingAssumption DEF ConfirmPayment, IInv, TypeOK, PaymentRow
    <3>2. Sound(account[u]) /\ now \in Nat
      BY <3>1 DEF IInv, TypeOK, AccountsSound
    <3>3. account' = [account EXCEPT ![u] = Grant(account[u], 0, n, FALSE, now)]
          /\ UNCHANGED <<user, sub>>
      BY <2>1 DEF CreditPack
    <3> HIDE DEF u, n
    <3>4. NoGain(account[u], Grant(account[u], 0, n, FALSE, now))
      BY <3>1, <3>2, OthersNoGain
    <3> QED
      BY <3>1, <3>3, <3>4, QuietAccount DEF Kinds
  <2> QED
    BY <1>4, <2>1, ConfirmationRows DEF Kinds
<1>5. CASE RequestStep
  BY <1>5, RequestsQuiet DEF Kinds
<1>6. CASE JobStep
  <2>1. ASSUME NEW w \in Workers,
               \/ ListDueForExpiry(w) \/ ListDueForGrant(w)
               \/ \E row \in Due(w) : DropRow(w, row)
        PROVE  UNCHANGED <<user, account, sub>>
    BY <2>1 DEF ListDueForExpiry, ListDueForGrant, ListDue, DropRow
  <2> QED
    BY <1>6, <2>1, QuietAlone DEF JobStep, Kinds
<1> QED
  BY <1>1, <1>2, <1>3, <1>4, <1>5, <1>6 DEF Next

-----------------------------------------------------------------------------
(* Who is named is registered.                                             *)

(* A user once registered stays.                                           *)
LEMMA UsersStay ==
  ASSUME IInv, AppliedOnce, [Next]_vars, NEW u \in Users, user[u] # NoRow
  PROVE  user'[u] # NoRow
<1>0. user \in [Users -> UserRow \union {NoRow}]
  BY DEF IInv, TypeOK
<1>1. CASE Quiet
  BY <1>1 DEF Quiet, NewUser
<1>2. ASSUME NEW p \in Payments, NEW v \in Users, NEW plan \in Plans, Activated(p, v, plan)
      PROVE  user'[u] # NoRow
  <2>1. NewSubscription(v, plan) \in SubRow
    BY NewSubscriptionTyped DEF IInv
  <2>2. [plan |-> plan, expiresAt |-> NewSubscription(v, plan).endsAt] \in UserRow
    BY <2>1 DEF UserRow, SubRow
  <2>3. [plan |-> plan, expiresAt |-> NewSubscription(v, plan).endsAt] # NoRow
    BY <2>2, BillingAssumption
  <2> QED
    BY <1>0, <1>2, <2>3 DEF Activated, ActivateSubscription
<1>3. ASSUME NEW w \in Workers, NEW row \in Due(w), ExpireDueSubscription(w, row)
      PROVE  user'[u] # NoRow
  <2>1. [plan |-> FreePlan, expiresAt |-> Never] \in UserRow
    BY BillingAssumption DEF UserRow, Never
  <2>2. [plan |-> FreePlan, expiresAt |-> Never] # NoRow
    BY <2>1, BillingAssumption
  <2> QED
    BY <1>0, <1>3, <2>2 DEF ExpireDueSubscription
<1>4. ASSUME NEW w \in Workers, NEW row \in Due(w), GrantDueAllowance(w, row)
      PROVE  user'[u] # NoRow
  BY <1>4 DEF GrantDueAllowance
<1> QED
  BY <1>1, <1>2, <1>3, <1>4, NextKinds DEF Kinds

(* A payment or an operation that names a user is as it was, or is new and *)
(* names the user of the operation that made it, or one who is registered. *)
LEMMA NextNames ==
  ASSUME PeriodInv, NamesKnown, [Next]_vars
  PROVE  NamesKnown'
<1>0. /\ payment \in [Payments -> PaymentRow \union {NoRow}]
      /\ op \in [Clients -> CheckoutOp \union CancelOp \union {Idle}]
      /\ sub \in [Payments -> SubRow \union {NoRow}]
  BY DEF PeriodInv, IInv, TypeOK
<1>1. \A u \in Users : user[u] # NoRow => user'[u] # NoRow
  BY UsersStay DEF PeriodInv
<1>2. ASSUME NEW p \in Payments, sub'[p] # NoRow
      PROVE  user'[sub'[p].user] # NoRow
  <2>1. CASE RowsKept
    <3>1. sub[p] # NoRow /\ sub'[p].user = sub[p].user /\ sub[p].user \in Users
      BY <1>0, <1>2, <2>1 DEF RowsKept, RowKept, SubRow
    <3> QED
      BY <1>1, <3>1 DEF NamesKnown
  <2>2. ASSUME NEW q \in Payments, NEW u \in Users, NEW plan \in Plans, Activated(q, u, plan)
        PROVE  user'[sub'[p].user] # NoRow
    <3>1. CASE p = q
      <4>1. sub'[p].user = u
        BY <2>2, <3>1, NewPeriod
      <4>2. user[u] # NoRow
        BY <2>2 DEF Activated, NamesKnown
      <4> QED
        BY <1>1, <4>1, <4>2
    <3>2. CASE p # q
      <4>1. sub[p] # NoRow /\ sub'[p].user = sub[p].user /\ sub[p].user \in Users
        BY <1>2, <2>2, <3>2, OtherPeriods DEF SubRow
      <4> QED
        BY <1>1, <4>1 DEF NamesKnown
    <3> QED
      BY <3>1, <3>2
  <2> QED
    BY <2>1, <2>2, NextPeriods DEF PeriodInv
<1>3. ASSUME \A p \in Payments : payment'[p] # NoRow =>
                payment[p] # NoRow /\ payment'[p].user = payment[p].user,
             \A c \in Clients : op'[c] # Idle /\ op'[c].step # "cancel" =>
                op[c] # Idle /\ op[c].step # "cancel" /\ op'[c].user = op[c].user
      PROVE  NamesKnown'
  <2>1. \A p \in Payments : payment[p] # NoRow => payment[p].user \in Users
    BY <1>0 DEF PaymentRow
  <2>2. \A c \in Clients : op[c] # Idle /\ op[c].step # "cancel" => op[c].user \in Users
    BY <1>0 DEF CheckoutOp, CancelOp
  <2> QED
    BY <1>1, <1>2, <1>3, <2>1, <2>2 DEF NamesKnown
<1>4. CASE UNCHANGED <<payment, op>>
  BY <1>3, <1>4
<1>5. ASSUME NEW c \in Clients, NEW u \in Users, user[u] # NoRow, NEW o,
             o.user = u, op' = [op EXCEPT ![c] = o], payment' = payment
      PROVE  NamesKnown'
  <2>1. \A d \in Clients : op'[d] = IF d = c THEN o ELSE op[d]
    BY <1>0, <1>5
  <2>2. \A p \in Payments : payment[p] # NoRow => payment[p].user \in Users
    BY <1>0 DEF PaymentRow
  <2>3. \A d \in Clients : op[d] # Idle /\ op[d].step # "cancel" => op[d].user \in Users
    BY <1>0 DEF CheckoutOp, CancelOp
  <2> QED
    BY <1>1, <1>2, <1>5, <2>1, <2>2, <2>3 DEF NamesKnown
<1>6. CASE CheckoutStep
  <2>1. ASSUME NEW c \in Clients, NEW u \in Users, NEW kind, NEW code, NEW key,
               StartCheckout(c, u, kind, code, key)
        PROVE  NamesKnown'
    <3> DEFINE o == [step |-> IF key = NoKey THEN "create" ELSE "find",
                     user |-> u, kind |-> kind, code |-> code, key |-> key]
    <3>1. o.user = u
      OBVIOUS
    <3>2. user[u] # NoRow /\ op' = [op EXCEPT ![c] = o] /\ payment' = payment
      BY <2>1 DEF StartCheckout
    <3> HIDE DEF o
    <3> QED
      BY <1>5, <3>1, <3>2
  <2>2. ASSUME NEW c \in Clients, NEW o, op' = [op EXCEPT ![c] = o],
               o # Idle => o.step = "cancel", payment' = payment
        PROVE  NamesKnown'
    <3>1. \A d \in Clients : op'[d] = IF d = c THEN o ELSE op[d]
      BY <1>0, <2>2
    <3> QED
      BY <1>3, <2>2, <3>1
  <2>3. ASSUME NEW c \in Clients, NEW u \in Users, LookUpForCancel(c, u)
        PROVE  NamesKnown'
    <3> DEFINE o == [step |-> "cancel", sub |-> LiveSubscription(u)]
    <3>1. o.step = "cancel" /\ op' = [op EXCEPT ![c] = o] /\ payment' = payment
      BY <2>3 DEF LookUpForCancel
    <3> HIDE DEF o
    <3> QED
      BY <2>2, <3>1
  <2>4. ASSUME NEW c \in Clients, FindPaymentByIdempotencyKey(c)
        PROVE  NamesKnown'
    <3>1. op[c] \in CheckoutOp /\ op[c] # Idle
      BY <1>0, <2>4 DEF FindPaymentByIdempotencyKey, CancelOp
    <3>2. CASE PaymentsWithKey(op[c].user, op[c].key) = {}
      <4> DEFINE o == [op[c] EXCEPT !.step = "create"]
      <4>1. o.user = op[c].user /\ op[c].user \in Users /\ op[c].step # "cancel"
        BY <3>1 DEF CheckoutOp
      <4>2. op' = [op EXCEPT ![c] = o] /\ payment' = payment
        BY <1>0, <2>4, <3>2 DEF FindPaymentByIdempotencyKey
      <4> HIDE DEF o
      <4>3. user[op[c].user] # NoRow
        BY <3>1, <4>1 DEF NamesKnown
      <4> QED
        BY <1>5, <4>1, <4>2, <4>3
    <3>3. CASE PaymentsWithKey(op[c].user, op[c].key) # {}
      BY <1>0, <2>2, <2>4, <3>3 DEF FindPaymentByIdempotencyKey
    <3> QED
      BY <3>2, <3>3
  <2>5. ASSUME NEW c \in Clients, NEW p \in Payments, CreatePayment(c, p)
        PROVE  NamesKnown'
    <3> DEFINE row == [user |-> op[c].user, kind |-> op[c].kind, code |-> op[c].code,
                       key |-> op[c].key, ref |-> NoRef, status |-> "pending"]
    <3>1. /\ op[c] \in CheckoutOp /\ op[c] # Idle /\ op[c].user \in Users
          /\ op[c].step # "cancel"
      BY <1>0, <2>5 DEF CreatePayment, CancelOp, CheckoutOp
    <3>2. /\ op' = [op EXCEPT ![c] = Idle]
          /\ payment' \in {payment, [payment EXCEPT ![p] = row]}
      BY <2>5 DEF CreatePayment
    <3>3. row.user = op[c].user
      OBVIOUS
    <3> HIDE DEF row
    <3>4. \A d \in Clients : op'[d] = IF d = c THEN Idle ELSE op[d]
      BY <1>0, <3>2
    <3>5. \A q \in Payments : payment'[q] = payment[q] \/ (q = p /\ payment'[q] = row)
      BY <1>0, <3>2
    <3>6. \A q \in Payments : payment[q] # NoRow => payment[q].user \in Users
      BY <1>0 DEF PaymentRow
    <3>7. \A d \in Clients : op[d] # Idle /\ op[d].step # "cancel" => op[d].user \in Users
      BY <1>0 DEF CheckoutOp, CancelOp
    <3>8. user'[op[c].user] # NoRow
      BY <1>1, <3>1 DEF NamesKnown
    <3> QED
      BY <1>1, <1>2, <3>3, <3>4, <3>5, <3>6, <3>7, <3>8 DEF NamesKnown
  <2>6. ASSUME NEW c \in Clients, CancelSubscription(c) \/ DropClient(c)
        PROVE  NamesKnown'
    BY <2>2, <2>6 DEF CancelSubscription, DropClient
  <2> QED
    BY <1>6, <2>1, <2>3, <2>4, <2>5, <2>6
    DEF CheckoutStep, StartSubscriptionCheckout, StartPackCheckout
<1>7. ASSUME NEW p \in Payments, NEW ref \in Refs \union {NoRef}, ConfirmPayment(p, ref)
      PROVE  NamesKnown'
  <2> DEFINE paid == [payment[p] EXCEPT !.status = "paid",
                                        !.ref = IF ref = NoRef THEN @ ELSE ref]
  <2>1. payment[p] \in PaymentRow /\ payment[p] # NoRow
    BY <1>0, <1>7 DEF ConfirmPayment
  <2>2. paid.user = payment[p].user
    BY <2>1 DEF PaymentRow
  <2>3. payment' = [payment EXCEPT ![p] = paid] /\ op' = op
    BY <1>7, <2>1 DEF ConfirmPayment
  <2> HIDE DEF paid
  <2>4. \A q \in Payments : payment'[q] = IF q = p THEN paid ELSE payment[q]
    BY <1>0, <2>3
  <2> QED
    BY <1>3, <2>1, <2>2, <2>3, <2>4
<1>8. CASE Tick \/ (\E u \in Users : Register(u)) \/ RequestStep \/ JobStep \/ UNCHANGED vars
  BY <1>4, <1>8
  DEF Tick, Register, RequestStep, MeetMissingWallet, CheckAccess, HealWallet, Spend,
      RefuseSpend, Refund, EndRequest, JobStep, ListDueForExpiry, ListDueForGrant, ListDue,
      ExpireDueSubscription, GrantDueAllowance, DropRow, vars
<1> QED
  BY <1>6, <1>7, <1>8 DEF Next

-----------------------------------------------------------------------------
(* Each kind of step preserves PlanInv.                                    *)

\* The part of PlanInv that is about plans.
PlansKept == RefillSchedule /\ PlanSnapshot /\ AllowanceNeedsPlan

(* What the steps without a word to say about plans leave behind.          *)
LEMMA QuietActives ==
  ASSUME RowsSame, NEW u
  PROVE  ActiveSubs(u)' = ActiveSubs(u)
BY DEF RowsSame, RowSame, ActiveSubs

(* A quiet step keeps the lists true, those it makes as well.              *)
LEMMA QuietLists ==
  ASSUME PlanInv, Quiet, ListsKept
  PROVE  ListKnown'
<1> SUFFICES ASSUME NEW w \in Workers, NEW row \in Due(w)'
             PROVE  AsListed(w, row)'
  BY DEF ListKnown
<1>1. RowsSame /\ \A u : ActiveSubs(u)' = ActiveSubs(u)
  BY QuietActives DEF Quiet
<1>2. CASE row \in Due(w) /\ job'[w].kind = job[w].kind
  <2>1. row.id \in Payments /\ sub[row.id] # NoRow /\ AsListed(w, row)
    BY <1>2, ListedRow DEF PlanInv, PeriodInv, IInv, DueKept, ListKnown
  <2>2. RowSame(row.id)
    BY <1>1, <2>1 DEF RowsSame
  <2> QED
    BY <1>1, <1>2, <2>1, <2>2 DEF AsListed, RowSame
<1>3. ASSUME UNCHANGED <<now, sub>>,
             row.id \in Payments, sub[row.id] # NoRow, row.grantsMade = sub[row.id].grantsMade,
             \/ job'[w].kind = "expire" /\ row.id \in DueForExpiry
             \/ job'[w].kind = "refill" /\ row.id \in DueForGrant
      PROVE  AsListed(w, row)'
  <2> DEFINE s == row.id
  <2>1. sub[s] \in SubRow
    BY <1>3 DEF PlanInv, PeriodInv, IInv, TypeOK
  <2>2. CASE job'[w].kind = "expire" /\ s \in DueForExpiry
    BY <1>3, <2>2 DEF AsListed, DueForExpiry
  <2>3. CASE job'[w].kind = "refill" /\ s \in DueForGrant
    <3>1. sub[s].status = "active" /\ sub[s].nextGrantAt # Never
      BY <2>3 DEF DueForGrant
    <3>2. /\ sub[s].nextGrantAt = sub[s].startsAt + sub[s].grantsMade + 1
          /\ sub[s].nextGrantAt < sub[s].endsAt
      BY <1>3, <3>1 DEF PlanInv, RefillSchedule
    <3>3. sub[s].grantsMade + 1 < sub[s].endsAt - sub[s].startsAt
      BY <2>1, <3>2 DEF SubRow
    <3>4. s \in ActiveSubs(sub[s].user)
      BY <1>3, <3>1 DEF ActiveSubs
    <3> QED
      BY <1>3, <2>3, <3>3, <3>4 DEF AsListed, ActiveSubs
  <2> QED
    BY <1>3, <2>2, <2>3
<1> QED
  BY <1>2, <1>3 DEF ListsKept, ListKept

(* A quiet step keeps every promise about plans.                           *)
LEMMA QuietPlans ==
  ASSUME PlanInv, Quiet
  PROVE  PlansKept'
<1>1. RowsSame /\ \A u : ActiveSubs(u)' = ActiveSubs(u)
  BY QuietActives DEF Quiet
<1>2. RefillSchedule'
  BY <1>1 DEF PlanInv, RefillSchedule, RowsSame, RowSame
<1>3. AllowanceNeedsPlan'
  BY <1>1 DEF PlanInv, AllowanceNeedsPlan, Quiet, NoGain
<1>4. ASSUME NEW u \in Users, user'[u] # NoRow
      PROVE  /\ ActiveSubs(u)' = {} => user'[u] = [plan |-> FreePlan, expiresAt |-> Never]
             /\ \A s \in ActiveSubs(u)' :
                  user'[u] = [plan |-> sub'[s].plan, expiresAt |-> sub'[s].endsAt]
  <2>1. CASE user'[u] = user[u]
    BY <1>1, <1>4, <2>1 DEF PlanInv, PlanSnapshot, RowsSame, RowSame, ActiveSubs
  <2>2. CASE NewUser(u)
    <3>1. ActiveSubs(u) = {}
      BY <2>2 DEF NewUser, PlanInv, NamesKnown, ActiveSubs
    <3> QED
      BY <1>1, <2>2, <3>1 DEF NewUser
  <2> QED
    BY <2>1, <2>2 DEF Quiet
<1>5. PlanSnapshot'
  BY <1>4 DEF PlanSnapshot
<1> QED
  BY <1>2, <1>3, <1>5 DEF PlansKept

(* A purchase leaves true what jobs have listed: what they are about to    *)
(* close is of another user, and who is owed a refill has a plan still.    *)
LEMMA ActivationLists ==
  ASSUME PlanInv, NEW p \in Payments, NEW u \in Users, NEW plan \in Plans,
         Activated(p, u, plan)
  PROVE  ListKnown'
<1> SUFFICES ASSUME NEW w \in Workers, NEW row \in Due(w)'
             PROVE  AsListed(w, row)'
  BY DEF ListKnown
<1> DEFINE s == row.id
<1>1. job' = job /\ row \in Due(w)
  BY DEF Activated, Due
<1>2. s \in Payments /\ sub[s] # NoRow /\ sub[s] \in SubRow /\ AsListed(w, row)
  BY <1>1, ListedRow DEF PlanInv, PeriodInv, IInv, DueKept, ListKnown
<1>3. s # p
  BY <1>2 DEF Activated
<1>4. /\ sub'[s].user = sub[s].user /\ sub'[s].grantsMade = sub[s].grantsMade
      /\ sub'[s].startsAt = sub[s].startsAt /\ sub'[s].endsAt = sub[s].endsAt
      /\ sub[s].user # u => sub'[s] = sub[s]
  BY <1>2, <1>3, OtherPeriods DEF PlanInv
<1>5. ASSUME job[w].kind = "expire"
      PROVE  sub'[s].status = "active"
  <2>1. sub[s].status = "active" /\ sub[s].endsAt <= now
    BY <1>1, <1>2, <1>5 DEF AsListed, PlanInv, PeriodInv, ListedLapsed
  <2>2. sub[s].endsAt \in Nat /\ now \in Nat
    BY <1>2 DEF SubRow, PlanInv, PeriodInv, IInv, TypeOK
  <2>3. s \notin LiveSubs(sub[s].user)
    BY <2>1, <2>2 DEF LiveSubs
  <2>4. s \in ActiveSubs(sub[s].user)
    BY <1>2, <2>1 DEF ActiveSubs
  <2>5. sub[s].user # u
    BY <2>3, <2>4, NewPeriod DEF PlanInv
  <2> QED
    BY <1>4, <2>1, <2>5
<1>6. ASSUME ActiveSubs(sub[s].user) # {}
      PROVE  ActiveSubs(sub[s].user)' # {}
  <2>1. CASE sub[s].user = u
    <3>1. p \in ActiveSubs(u)'
      BY NewPeriod DEF ActiveSubs, PlanInv
    <3> QED
      BY <1>4, <2>1, <3>1 DEF ActiveSubs
  <2>2. CASE sub[s].user # u
    <3>1. PICK t \in ActiveSubs(sub[s].user) : TRUE
      BY <1>6
    <3>2. t \in Payments /\ sub[t] # NoRow /\ sub[t].user = sub[s].user
      BY DEF ActiveSubs
    <3>3. t # p /\ sub'[t] = sub[t]
      BY <2>2, <3>2, OtherPeriods DEF Activated, PlanInv
    <3>4. sub'[s].user = sub[s].user
      BY <1>4
    <3> QED
      BY <3>1, <3>2, <3>3, <3>4 DEF ActiveSubs
  <2> QED
    BY <2>1, <2>2
<1> QED
  BY <1>1, <1>2, <1>4, <1>5, <1>6 DEF AsListed, ActiveSubs

(* A purchase gives a plan, its first allowance and its calendar.          *)
LEMMA ActivationPlans ==
  ASSUME PlanInv, NEW p \in Payments, NEW u \in Users, NEW plan \in Plans,
         Activated(p, u, plan)
  PROVE  PlansKept'
<1> DEFINE new == NewSubscription(u, plan)
<1>0. PeriodInv
  BY DEF PlanInv
<1>1. /\ sub'[p] = new /\ new \in SubRow /\ new.user = u /\ new.status = "active"
      /\ new.plan = plan /\ sub'[p] # NoRow /\ \A s \in ActiveSubs(u) : s \in LiveSubs(u)
  BY <1>0, NewPeriod
<1>2. \A t \in Payments : t # p =>
        /\ sub'[t] # NoRow <=> sub[t] # NoRow
        /\ sub[t] # NoRow =>
             /\ sub'[t].user = sub[t].user
             /\ sub'[t].startsAt = sub[t].startsAt /\ sub'[t].endsAt = sub[t].endsAt
             /\ sub'[t].grantsMade = sub[t].grantsMade
             /\ sub'[t].nextGrantAt = sub[t].nextGrantAt
             /\ sub[t].user = u => sub'[t].status # "active"
             /\ sub[t].user # u => sub'[t] = sub[t]
  BY <1>0, OtherPeriods
<1>3. /\ account \in [Users -> Account] /\ user \in [Users -> UserRow \union {NoRow}]
      /\ sub[p] = NoRow
  BY <1>0 DEF PeriodInv, IInv, TypeOK, Activated
<1>4. RefillSchedule'
  <2>1. ASSUME NEW s \in Payments, sub'[s] # NoRow, s # p
        PROVE  /\ sub'[s].grantsMade < sub'[s].endsAt - sub'[s].startsAt
               /\ sub'[s].nextGrantAt # Never =>
                    /\ sub'[s].nextGrantAt = sub'[s].startsAt + sub'[s].grantsMade + 1
                    /\ sub'[s].nextGrantAt < sub'[s].endsAt
    BY <1>2, <2>1 DEF PlanInv, RefillSchedule
  <2>2. /\ new.grantsMade < new.endsAt - new.startsAt
        /\ new.nextGrantAt # Never =>
             /\ new.nextGrantAt = new.startsAt + new.grantsMade + 1
             /\ new.nextGrantAt < new.endsAt
    <3>1. PeriodStart(u) \in Nat /\ Plan[plan].months \in Nat
      BY <1>0, PeriodStartTyped, BillingAssumption DEF PeriodInv, IInv, PlanRow
    <3>2. PlanMonths(plan) \in Nat /\ PlanMonths(plan) > 0
      BY <3>1 DEF PlanMonths
    <3>3. /\ new.startsAt = PeriodStart(u) /\ new.endsAt = PeriodStart(u) + PlanMonths(plan)
          /\ new.grantsMade = 0
          /\ new.nextGrantAt = IF PlanMonths(plan) > 1 /\ Plan[plan].monthly > 0
                               THEN PeriodStart(u) + 1 ELSE Never
      BY DEF NewSubscription
    <3> HIDE DEF new
    <3> QED
      BY <3>1, <3>2, <3>3 DEF Never
  <2> HIDE DEF new
  <2> QED
    BY <1>1, <2>1, <2>2 DEF RefillSchedule
<1> HIDE DEF new
<1>5. ActiveSubs(u)' = {p}
  BY <1>1, <1>2 DEF ActiveSubs
<1>6. \A v \in Users : v # u => /\ ActiveSubs(v)' = ActiveSubs(v)
                                /\ \A s \in ActiveSubs(v) : sub'[s] = sub[s]
  BY <1>1, <1>2, <1>3 DEF ActiveSubs
<1>7. /\ user' = [user EXCEPT ![u] = [plan |-> plan, expiresAt |-> new.endsAt]]
      /\ \A v \in Users : v # u => account'[v] = account[v]
  BY <1>3 DEF Activated, ActivateSubscription, new
<1>8. PlanSnapshot'
  BY <1>1, <1>3, <1>5, <1>6, <1>7 DEF PlanInv, PlanSnapshot
<1>9. AllowanceNeedsPlan'
  BY <1>5, <1>6, <1>7 DEF PlanInv, AllowanceNeedsPlan
<1> QED
  BY <1>4, <1>8, <1>9 DEF PlansKept

(* The rest of all lists, after a job has closed or refilled a row of one: *)
(* another row of its own list is another subscription, and the rows of    *)
(* another job are those of another user.                                  *)
LEMMA RestOfList ==
  ASSUME PlanInv, UsersApart, NEW w \in Workers, NEW row \in Due(w), NextRow(w, row),
         NEW v \in Workers, NEW other \in Due(v)'
  PROVE  /\ other \in Due(v) /\ job'[v].kind = job[v].kind
         /\ other.id \in Payments /\ other.id # row.id /\ sub[other.id] # NoRow
         /\ AsListed(v, other)
         /\ v # w => sub[other.id].user # sub[row.id].user
<1>1. CASE v = w
  <2>1. other \in Due(w) /\ other # row /\ job'[w].kind = job[w].kind
    <3>1. /\ job \in [Workers -> Job \union {Idle}] /\ job[w] \in Job /\ job[w].due = Due(w)
      BY ListedRow DEF PlanInv, PeriodInv, IInv, TypeOK, Due
    <3> DEFINE j == RunOn(job[w].kind, Due(w) \ {row})
    <3>2. job'[w] = j
      BY <3>1 DEF NextRow
    <3>3. Due(w) \ {row} # {} /\ j = [kind |-> job[w].kind, due |-> Due(w) \ {row}]
      BY <1>1, <3>2 DEF RunOn, Due
    <3>4. j.kind = job[w].kind /\ j.due = Due(w) \ {row}
      BY <3>3
    <3> HIDE DEF j
    <3>5. other \in Due(w) \ {row}
      BY <1>1, <3>2, <3>4 DEF Due
    <3> QED
      BY <3>2, <3>4, <3>5
  <2>2. other.id \in Payments /\ sub[other.id] # NoRow /\ AsListed(w, other) /\ AsListed(w, row)
    BY <2>1, ListedRow DEF PlanInv, PeriodInv, IInv, DueKept, ListKnown
  <2>3. other \in DueRow /\ row \in DueRow
    BY <2>1, ListedRow DEF PlanInv, PeriodInv
  <2>4. other.id # row.id
    BY <2>1, <2>2, <2>3 DEF AsListed, DueRow
  <2> QED
    BY <1>1, <2>1, <2>2, <2>4
<1>2. CASE v # w
  <2>1. job'[v] = job[v]
    BY <1>2 DEF NextRow, PlanInv, PeriodInv, IInv, TypeOK
  <2>2. other \in Due(v) /\ job'[v].kind = job[v].kind
    BY <2>1 DEF Due
  <2>3. other.id \in Payments /\ sub[other.id] # NoRow /\ AsListed(v, other)
    BY <2>2, ListedRow DEF PlanInv, PeriodInv, IInv, DueKept, ListKnown
  <2>4. sub[other.id].user # sub[row.id].user
    BY <1>2, <2>2 DEF UsersApart
  <2> QED
    BY <2>2, <2>3, <2>4
<1> QED
  BY <1>1, <1>2

(* Closing a subscription takes plan and allowance with it.                *)
LEMMA ExpiryPlans ==
  ASSUME PlanInv, UsersApart, NEW w \in Workers, NEW row \in Due(w),
         ExpireDueSubscription(w, row)
  PROVE  ListKnown' /\ PlansKept'
<1> DEFINE s == row.id
           u == sub[s].user
<1>0. IInv /\ ListedLapsed
  BY DEF PlanInv, PeriodInv
<1>1. /\ s \in Payments /\ sub[s] \in SubRow /\ sub[s] # NoRow /\ u \in Users
      /\ job[w].kind = "expire" /\ NextRow(w, row)
  BY <1>0, ListedRow, BillingAssumption DEF ExpireDueSubscription, Working
<1>2. /\ RowsKept /\ sub'[s].status = "expired" /\ sub'[s].grantsMade = sub[s].grantsMade
      /\ sub'[s].nextGrantAt = sub[s].nextGrantAt
      /\ \A t \in Payments : t # s => sub'[t] = sub[t]
  BY <1>0, ExpiryKeepsRows
<1>3. sub[s].status = "active"
  BY <1>1 DEF PlanInv, ListKnown, AsListed
<1>4. ActiveSubs(u) = {s}
  BY <1>0, <1>1, <1>3 DEF IInv, OneActive, ActiveSubs
<1>5. /\ sub'[s] # NoRow /\ sub'[s].user = u /\ sub'[s].startsAt = sub[s].startsAt
      /\ sub'[s].endsAt = sub[s].endsAt
  BY <1>1, <1>2 DEF RowsKept, RowKept
<1>6. \A v \in Users : v = u => ActiveSubs(v)' = {}
  BY <1>2, <1>4, <1>5 DEF ActiveSubs
<1>7. \A v \in Users : v # u => /\ ActiveSubs(v)' = ActiveSubs(v)
                                /\ \A t \in ActiveSubs(v) : sub'[t] = sub[t]
  BY <1>1, <1>2, <1>5 DEF ActiveSubs
<1>8. ListKnown'
  <2> SUFFICES ASSUME NEW v \in Workers, NEW other \in Due(v)'
               PROVE  AsListed(v, other)'
    BY DEF ListKnown
  <2>1. /\ job'[v].kind = job[v].kind /\ other.id \in Payments /\ other.id # s
        /\ sub[other.id] # NoRow /\ AsListed(v, other)
        /\ v # w => sub[other.id].user # u
    BY <1>1, RestOfList
  <2>2. sub'[other.id] = sub[other.id]
    BY <1>2, <2>1
  <2>3. CASE v = w
    BY <1>1, <2>1, <2>2, <2>3 DEF AsListed
  <2>4. CASE v # w
    <3>1. sub[other.id].user \in Users /\ sub[other.id].user # u
      BY <1>0, <2>1, <2>4 DEF IInv, TypeOK, SubRow
    <3>2. sub'[other.id].user = sub[other.id].user
      BY <2>2
    <3>3. \A x \in Users : x # u => ActiveSubs(x)' = ActiveSubs(x)
      BY <1>7
    <3>4. ActiveSubs(sub[other.id].user)' = ActiveSubs(sub[other.id].user)
      BY <3>1, <3>2, <3>3
    <3> QED
      BY <2>1, <2>2, <3>4 DEF AsListed
  <2> QED
    BY <2>3, <2>4
<1>9. /\ account \in [Users -> Account] /\ user \in [Users -> UserRow \union {NoRow}]
      /\ Sound(account[u]) /\ now \in Nat
  BY <1>0, <1>1 DEF IInv, TypeOK, AccountsSound
<1>10. /\ user' = [user EXCEPT ![u] = [plan |-> FreePlan, expiresAt |-> Never]]
       /\ account' = [account EXCEPT ![u] = ExpireAllowance(account[u], now)]
  BY DEF ExpireDueSubscription
<1> HIDE DEF u
<1>11. ~(account'[u].allowance > 0) /\ \A v \in Users : v # u => account'[v] = account[v]
  BY <1>1, <1>9, <1>10, OthersNoGain
<1>12. RefillSchedule'
  BY <1>1, <1>2, <1>5 DEF PlanInv, RefillSchedule, RowsKept
<1>13. PlanSnapshot'
  <2> SUFFICES ASSUME NEW v \in Users, user'[v] # NoRow
               PROVE  /\ ActiveSubs(v)' = {} =>
                           user'[v] = [plan |-> FreePlan, expiresAt |-> Never]
                      /\ \A t \in ActiveSubs(v)' :
                           user'[v] = [plan |-> sub'[t].plan, expiresAt |-> sub'[t].endsAt]
    BY DEF PlanSnapshot
  <2>1. CASE v = u
    <3>1. user'[v] = [plan |-> FreePlan, expiresAt |-> Never]
      BY <1>9, <1>10, <2>1
    <3>2. ActiveSubs(v)' = {}
      BY <1>6, <2>1
    <3> QED
      BY <3>1, <3>2
  <2>2. CASE v # u
    <3>1. user'[v] = user[v]
      BY <1>9, <1>10, <2>2
    <3>2. /\ ActiveSubs(v) = {} => user[v] = [plan |-> FreePlan, expiresAt |-> Never]
          /\ \A t \in ActiveSubs(v) :
               user[v] = [plan |-> sub[t].plan, expiresAt |-> sub[t].endsAt]
      BY <3>1 DEF PlanInv, PlanSnapshot
    <3> QED
      BY <1>7, <2>2, <3>1, <3>2
  <2> QED
    BY <2>1, <2>2
<1>14. AllowanceNeedsPlan'
  BY <1>7, <1>11 DEF PlanInv, AllowanceNeedsPlan
<1> QED
  BY <1>8, <1>12, <1>13, <1>14 DEF PlansKept

(* A refill stays on the calendar of its plan.                             *)
LEMMA RefillPlans ==
  ASSUME PlanInv, UsersApart, NEW w \in Workers, NEW row \in Due(w),
         GrantDueAllowance(w, row)
  PROVE  ListKnown' /\ PlansKept'
<1> DEFINE s == row.id
           u == sub[s].user
<1>0. IInv
  BY DEF PlanInv, PeriodInv
<1>1. /\ s \in Payments /\ sub[s] \in SubRow /\ sub[s] # NoRow /\ u \in Users
      /\ job[w].kind = "refill" /\ NextRow(w, row)
  BY <1>0, ListedRow, BillingAssumption DEF GrantDueAllowance, Working
<1>2. /\ RowsKept /\ sub'[s].status = sub[s].status
      /\ sub'[s].grantsMade = sub[s].grantsMade + 1
      /\ sub'[s].nextGrantAt = NextGrantAt(row)
      /\ \A t \in Payments : t # s => sub'[t] = sub[t]
  BY <1>0, RefillKeepsRows
<1>3. /\ row.grantsMade = sub[s].grantsMade
      /\ sub[s].grantsMade + 1 < sub[s].endsAt - sub[s].startsAt
      /\ ActiveSubs(u) # {}
  BY <1>1 DEF PlanInv, ListKnown, AsListed
<1>4. /\ sub'[s] # NoRow /\ sub'[s].user = u /\ sub'[s].plan = sub[s].plan
      /\ sub'[s].startsAt = sub[s].startsAt /\ sub'[s].endsAt = sub[s].endsAt
  BY <1>1, <1>2 DEF RowsKept, RowKept
<1>5. \A v : ActiveSubs(v)' = ActiveSubs(v)
  BY <1>1, <1>2, <1>4 DEF ActiveSubs
<1>6. ListKnown'
  <2> SUFFICES ASSUME NEW v \in Workers, NEW other \in Due(v)'
               PROVE  AsListed(v, other)'
    BY DEF ListKnown
  <2>1. /\ job'[v].kind = job[v].kind /\ other.id \in Payments /\ other.id # s
        /\ AsListed(v, other)
    BY <1>1, RestOfList
  <2>2. sub'[other.id] = sub[other.id]
    BY <1>2, <2>1
  <2> QED
    BY <1>5, <2>1, <2>2 DEF AsListed
<1>7. RefillSchedule'
  <2>1. /\ sub'[s].grantsMade < sub'[s].endsAt - sub'[s].startsAt
        /\ sub'[s].nextGrantAt # Never =>
             /\ sub'[s].nextGrantAt = sub'[s].startsAt + sub'[s].grantsMade + 1
             /\ sub'[s].nextGrantAt < sub'[s].endsAt
    BY <1>1, <1>2, <1>3, <1>4 DEF NextGrantAt, SubRow
  <2>2. \A t \in Payments : t # s => (sub'[t] # NoRow <=> sub[t] # NoRow)
    BY <1>2
  <2> QED
    BY <1>2, <2>1, <2>2 DEF PlanInv, RefillSchedule
<1>8. user' = user /\ account \in [Users -> Account]
  BY <1>0 DEF IInv, TypeOK, GrantDueAllowance
<1>9. \A v \in Users : v # u => account'[v] = account[v]
  BY <1>8 DEF GrantDueAllowance
<1>10. \A t \in Payments : sub[t] # NoRow =>
         sub'[t].plan = sub[t].plan /\ sub'[t].endsAt = sub[t].endsAt
  BY <1>2, <1>4
<1>11. PlanSnapshot'
  <2> SUFFICES ASSUME NEW v \in Users, user'[v] # NoRow
               PROVE  /\ ActiveSubs(v)' = {} =>
                           user'[v] = [plan |-> FreePlan, expiresAt |-> Never]
                      /\ \A t \in ActiveSubs(v)' :
                           user'[v] = [plan |-> sub'[t].plan, expiresAt |-> sub'[t].endsAt]
    BY DEF PlanSnapshot
  <2>1. /\ ActiveSubs(v) = {} => user[v] = [plan |-> FreePlan, expiresAt |-> Never]
        /\ \A t \in ActiveSubs(v) :
             user[v] = [plan |-> sub[t].plan, expiresAt |-> sub[t].endsAt]
    BY <1>8 DEF PlanInv, PlanSnapshot
  <2>2. \A t \in ActiveSubs(v) : t \in Payments /\ sub[t] # NoRow
    BY DEF ActiveSubs
  <2> QED
    BY <1>5, <1>8, <1>10, <2>1, <2>2
<1>12. AllowanceNeedsPlan'
  <2> SUFFICES ASSUME NEW v \in Users, account'[v].allowance > 0
               PROVE  ActiveSubs(v) # {}
    BY <1>5 DEF AllowanceNeedsPlan
  <2>1. CASE v = u
    BY <1>3, <2>1
  <2>2. CASE v # u
    BY <1>9, <2>2 DEF PlanInv, AllowanceNeedsPlan
  <2> QED
    BY <2>1, <2>2
<1> QED
  BY <1>6, <1>7, <1>11, <1>12 DEF PlansKept

(* Every step preserves PlanInv, while the runs are about different users. *)
LEMMA NextPlanInv ==
  ASSUME UsersApart, PlanInv, [Next]_vars
  PROVE  PlanInv'
<1>0. IInv /\ AppliedOnce /\ ListedLapsed /\ PeriodInv
  BY DEF PlanInv, PeriodInv
<1>1. PeriodInv' /\ NamesKnown'
  BY <1>0, NextPeriodInv, NextNames DEF PlanInv
<1>2. ListsKept
  BY <1>0, NextPeriods
<1>3. ListKnown' /\ PlansKept'
  BY <1>0, <1>2, NextKinds, QuietLists, QuietPlans, ActivationLists, ActivationPlans,
     ExpiryPlans, RefillPlans DEF Kinds
<1> QED
  BY <1>1, <1>3 DEF PlanInv, PlansKept

(* Nobody has a plan at the start but the free one.                        *)
LEMMA InitPlanInv ==
  ASSUME Init
  PROVE  PlanInv
<1>1. ListKnown /\ NamesKnown
  BY DEF Init, ListKnown, NamesKnown, Due
<1>2. \A u : ActiveSubs(u) = {}
  BY DEF Init, ActiveSubs
<1>3. RefillSchedule
  BY DEF Init, RefillSchedule
<1>4. PlanSnapshot
  BY <1>2 DEF Init, PlanSnapshot
<1>5. AllowanceNeedsPlan
  BY DEF Init, AllowanceNeedsPlan, NoAccount
<1> QED
  BY <1>1, <1>3, <1>4, <1>5, InitPeriodInv DEF PlanInv

(* PlanInv holds in every reachable state, while the runs are about        *)
(* different users.                                                        *)
LEMMA PlansInductive == Spec /\ []UsersApart => []PlanInv
<1>1. UsersApart /\ PlanInv /\ [Next]_vars => PlanInv'
  BY NextPlanInv
<1> QED
  BY <1>1, InitPlanInv, PTL DEF Spec

(* Where no two runs have listed rows of one user, the refills of a plan   *)
(* stay on its monthly grid and inside its period: none is made twice, and *)
(* a 12-month plan has 11.                                                 *)
THEOREM RefillsOnSchedule == Spec /\ []UsersApart => []RefillSchedule
<1>1. PlanInv => RefillSchedule
  BY DEF PlanInv
<1> QED
  BY <1>1, PlansInductive, PTL

(* Where no two runs have listed rows of one user, the plan on the users   *)
(* row is the plan of the user's active subscription, or the free one.     *)
THEOREM SnapshotsTrue == Spec /\ []UsersApart => []PlanSnapshot
<1>1. PlanInv => PlanSnapshot
  BY DEF PlanInv
<1> QED
  BY <1>1, PlansInductive, PTL

(* Where no two runs have listed rows of one user, nobody keeps an         *)
(* allowance beyond the plan.                                              *)
THEOREM AllowancesOfPlans == Spec /\ []UsersApart => []AllowanceNeedsPlan
<1>1. PlanInv => AllowanceNeedsPlan
  BY DEF PlanInv
<1> QED
  BY <1>1, PlansInductive, PTL
=============================================================================
