----------------------------- MODULE BillingMC -----------------------------
(***************************************************************************)
(* Constants of the billing instance.                                      *)
(***************************************************************************)
EXTENDS Billing

PlanDays == [plan \in PaidPlans |-> IF plan = "monthly" THEN 1 ELSE 2]
=============================================================================
