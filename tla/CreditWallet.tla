---------------------------- MODULE CreditWallet ----------------------------
(***************************************************************************)
(* The credit account of one user as internal/module/billing writes it: a  *)
(* credit_wallets row together with the history in credit_ledger.  Every   *)
(* operator takes an account and returns the account after the call.       *)
(* They run inside the caller's database transaction, on a locked row.     *)
(*                                                                         *)
(* The ledger is abstracted to the sum of its deltas.  A month is the unit *)
(* of time, since date_trunc('month', now()) is all a wallet asks of the   *)
(* clock.                                                                  *)
(***************************************************************************)
EXTENDS Integers

CONSTANTS SignupCredits,    \* subscription_plans.signup_credits of 'free'
          FreeQuota,        \* Cfg.AI.FreeQuota, the fallback bonus
          MonthlySpendCap   \* Cfg.AI.MonthlyCostCap, copied to every wallet

ASSUME WalletAssumption ==
  SignupCredits \in Nat /\ FreeQuota \in Nat /\ MonthlySpendCap \in Nat

\* granted, bought and used are the lifetime_* columns; spent and month are
\* month_spent and month_started_at; sum is SUM(credit_ledger.delta).
Account ==
  [open: BOOLEAN, allowance: Int, purchased: Int, granted: Int, bought: Int,
   used: Int, spent: Int, month: Nat, sum: Int]

NoAccount ==
  [open |-> FALSE, allowance |-> 0, purchased |-> 0, granted |-> 0,
   bought |-> 0, used |-> 0, spent |-> 0, month |-> 0, sum |-> 0]

Total(a) == a.allowance + a.purchased

EnsureWallet(a, m) ==
  IF a.open THEN a ELSE [a EXCEPT !.open = TRUE, !.month = m]

(* Balances are overwritten, counters are incremented, and the first write *)
(* of a new month restarts the monthly usage.                              *)
ApplyWallet(a, e, m) ==
  [open |-> a.open, allowance |-> e.allowance, purchased |-> e.purchased,
   granted |-> a.granted + e.granted,
   bought |-> a.bought + e.bought,
   used |-> a.used + e.used,
   spent |-> IF a.month < m THEN e.used ELSE a.spent + e.used,
   month |-> IF a.month < m THEN m ELSE a.month,
   sum |-> a.sum + e.delta]

WelcomeBonus == IF SignupCredits > 0 THEN SignupCredits ELSE FreeQuota

(* The welcome bonus is WRITTEN over the balances, not added to them: the  *)
(* code takes it for granted that the wallet was just created.             *)
ProvisionNewUser(a, m) ==
  LET w == EnsureWallet(a, m)
  IN  IF WelcomeBonus = 0 THEN w
      ELSE ApplyWallet(w, [allowance |-> 0, purchased |-> WelcomeBonus,
                           delta |-> WelcomeBonus, granted |-> 0,
                           bought |-> WelcomeBonus, used |-> 0], m)

LockOrProvision(a, m) == IF a.open THEN a ELSE ProvisionNewUser(a, m)

\* Mutant: the balance is left to the check made before the call.
AffordableUnderCap(a, cost) == cost > 0 => a.spent + cost <= MonthlySpendCap

Affordable(a, cost) ==
  cost > 0 => /\ Total(a) >= cost
              /\ a.spent + cost <= MonthlySpendCap

\* Mutant: purchased credits first.
DebitPurchasedFirst(a, cost, m) ==
  LET fromPurchased == IF cost > a.purchased THEN a.purchased ELSE cost
  IN  IF cost = 0 THEN a
      ELSE ApplyWallet(a, [allowance |-> a.allowance - (cost - fromPurchased),
                           purchased |-> a.purchased - fromPurchased,
                           delta |-> -cost, granted |-> 0, bought |-> 0,
                           used |-> cost], m)

(* Allowance first, purchased credits second.                              *)
Debit(a, cost, m) ==
  LET fromAllowance == IF cost > a.allowance THEN a.allowance ELSE cost
  IN  IF cost = 0 THEN a
      ELSE ApplyWallet(a, [allowance |-> a.allowance - fromAllowance,
                           purchased |-> a.purchased - (cost - fromAllowance),
                           delta |-> -cost, granted |-> 0, bought |-> 0,
                           used |-> cost], m)

\* Mutant: the lifetime counters are forgotten.
RefundUncounted(a, credits, m) ==
  ApplyWallet(a, [allowance |-> a.allowance, purchased |-> a.purchased + credits,
                  delta |-> credits, granted |-> 0, bought |-> 0, used |-> 0], m)

RefundCredits(a, credits, m) ==
  IF credits = 0 THEN a
  ELSE ApplyWallet(a, [allowance |-> a.allowance,
                       purchased |-> a.purchased + credits,
                       delta |-> credits, granted |-> 0, bought |-> credits,
                       used |-> 0], m)

(* A refill replaces the allowance unless the live plan lets it roll over; *)
(* the ledger row carries the full grant either way.                       *)
Grant(a, allowance, purchased, rollsOver, m) ==
  LET w == LockOrProvision(a, m)
  IN  IF allowance = 0 /\ purchased = 0 THEN a
      ELSE ApplyWallet(w, [allowance |-> IF allowance > 0 /\ ~rollsOver
                                         THEN allowance
                                         ELSE w.allowance + allowance,
                           purchased |-> w.purchased + purchased,
                           delta |-> allowance + purchased,
                           granted |-> allowance, bought |-> purchased,
                           used |-> 0], m)

\* Mutant: the wallet is left alone.
ExpireNothing(a, m) == a

ExpireAllowance(a, m) ==
  IF a.allowance > 0
  THEN ApplyWallet(a, [allowance |-> 0, purchased |-> a.purchased,
                       delta |-> -a.allowance, granted |-> 0, bought |-> 0,
                       used |-> 0], m)
  ELSE a
=============================================================================
