--------------------------- MODULE BillingClaims ---------------------------
(***************************************************************************)
(* What the comments and documents of the repository say about billing and *)
(* the code does not keep.  Each definition states one such sentence; the  *)
(* claim_*.cfg runs find the behaviour that breaks it.                     *)
(***************************************************************************)
EXTENDS MCBilling

(* checkout.go:47-50: the check at checkout keeps the index on live        *)
(* subscriptions from failing an activation "AFTER their money had already *)
(* moved": whatever subscription is on sale can be activated when paid.    *)
PurchaseCanBeApplied ==
  \A p \in Payments :
    payment[p] # NoRow /\ payment[p].status = "pending" /\ payment[p].kind = "subscription"
      => MayActivate(payment[p].user)
=============================================================================
