----------------------------- MODULE MCBilling -----------------------------
(***************************************************************************)
(* Small instances of Billing for TLC.  The catalogue keeps what the seed  *)
(* data of 006_seed_reference_data.sql distinguishes: a free plan with a   *)
(* signup bonus, a one-month plan without rollover, and a plan of several  *)
(* months, once with and once without rollover.                            *)
(***************************************************************************)
EXTENDS Billing, TLC

MCPlans == {"free", "plus", "pro", "year"}

PlanOfMonths(months, monthly, signup, rolls, features) ==
  [months |-> months, paid |-> months > 0, active |-> TRUE, monthly |-> monthly,
   signup |-> signup, rollsOver |-> rolls, features |-> features]

MCPlan ==
  [p \in MCPlans |->
     CASE p = "free" -> PlanOfMonths(0, 0, 1, FALSE, {})
       [] p = "plus" -> PlanOfMonths(1, 2, 0, FALSE, {"coach"})
       [] p = "pro"  -> PlanOfMonths(3, 2, 0, FALSE, {"coach", "report"})
       [] p = "year" -> PlanOfMonths(3, 2, 1, TRUE, {"coach", "report"})]

MCPlansShort == {"free", "plus", "pro"}
MCPlanShort == [p \in MCPlansShort |-> MCPlan[p]]

MCPackCredits == [k \in {"tokens"} |-> 3]
MCNoPacks == [k \in {} |-> 0]

\* "coach" is metered and open to pay-as-you-go, "report" a plan-only module.
MCFeature ==
  [f \in {"coach", "report"} |->
     [cost |-> IF f = "coach" THEN 2 ELSE 0, payg |-> f = "coach", active |-> TRUE]]

Ids == Permutations(Payments)
IdsAndUsers == Permutations(Payments) \union Permutations(Users)
=============================================================================
