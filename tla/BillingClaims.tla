--------------------------- MODULE BillingClaims ---------------------------
(***************************************************************************)
(* What the comments of billing say and the operations do not keep.        *)
(***************************************************************************)
EXTENDS BillingMC

\* apply-wompi-transaction.action.ts:53-55: when the application of an
\* approved transaction fails, the sweep tries again, because the id was
\* noted.  The sweep looks at pending payments alone.
SweepRetriesApproved ==
    \A p \in Payments, t \in Txs :
        (payments[p].tx = t /\ wompi[t] = [link |-> p, status |-> "approved"]) ~> Applied(p)
=============================================================================
