-------------------------- MODULE PurchasesClaims --------------------------
(***************************************************************************)
(* What the repository says of a reception and the code does not do.       *)
(***************************************************************************)
EXTENDS Purchases

\* mark-purchase-received.action.ts:29-31 and 39-41: a second reception is
\* refused, and two at a time, a double click, are serialized.  So the stock
\* is what live purchases brought, once each, less what was sold.
ReceivedOnce ==
    stock + sold =
        Total([p \in Purchases |->
            IF Active(p) /\ purchase[p].status = "received" THEN purchase[p].units ELSE 0],
            Purchases)
=============================================================================
