--------------------------- MODULE BillingProofs ---------------------------
(***************************************************************************)
(* What holds of a subscription for any number of payments, attempts,      *)
(* days and plan prices.                                                   *)
(***************************************************************************)
EXTENDS Billing, TLAPS

\* A payment that was saved has a plan; a transaction belongs to a payment that
\* was saved; a payment knows only transactions of its own link.
LinksKept ==
    /\ \A p \in Payments : payments[p].status # "none" => payments[p].plan \in PaidPlans
    /\ \A t \in Txs : wompi[t].status # "none" =>
          wompi[t].link \in Payments /\ payments[wompi[t].link].status # "none"
    /\ \A p \in Payments : payments[p].tx # NoTx =>
          wompi[payments[p].tx].link = p /\ wompi[payments[p].tx].status # "none"

\* What a request fetched exists, and an approval that it fetched stands.
FetchStands ==
    request.tx # NoTx =>
        /\ wompi[request.tx].status # "none" /\ request.status # "none"
        /\ request.status = "approved" => wompi[request.tx].status = "approved"

BillingInv ==
    BillingTypeOK /\ LinksKept /\ FetchStands /\ PaidPeriodsApart /\ DaysArePaidFor

-----------------------------------------------------------------------------
\* The days of a payment follow what is left, and what is left only grows.
LEMMA StartsAfterTheRest ==
    ASSUME BillingTypeOK
    PROVE  /\ PeriodStart(sub, day) \in Nat
           /\ PeriodStart(sub, day) >= sub.expires /\ PeriodStart(sub, day) >= day
BY DEF BillingTypeOK, Subscription, PeriodStart

\* Asking for a plan leaves the expiry and the plan as they are.
LEMMA AskedFacts ==
    ASSUME NEW s \in Subscription, NEW target \in PaidPlans \cup {"free"}, NEW now \in Nat
    PROVE  /\ Asked(s, target, now) \in Subscription
           /\ Asked(s, target, now).expires = s.expires
           /\ Asked(s, target, now).plan = s.plan
<1>1. CASE target = "free"
  BY <1>1 DEF Asked, Subscription, PaidPlans, NoPlan
<1>2. CASE target # "free" /\ HasRunningPaidPeriod(s, now)
  BY <1>2 DEF Asked, Subscription, PaidPlans, NoPlan
<1>3. CASE target # "free" /\ ~HasRunningPaidPeriod(s, now)
  BY <1>3 DEF Asked, Subscription, PaidPlans, NoPlan
<1> QED
  BY <1>1, <1>2, <1>3

\* What a request remembers.
Requests == [plan : PaidPlans \cup {NoPlan}, tx : Txs \cup {NoTx},
             status : {"none", "pending", "approved", "odd", "rejected"}]

LEMMA IdleIsARequest ==
    /\ Idle \in Requests /\ Idle.tx = NoTx
    /\ \A plan \in PaidPlans : [Idle EXCEPT !.plan = plan] \in Requests
                              /\ [Idle EXCEPT !.plan = plan].tx = NoTx
BY DEF Idle, Requests, NoTx, NoPlan

LEMMA BillingStart == BillingInit => BillingInv
<1> SUFFICES ASSUME BillingInit
             PROVE  BillingInv
  OBVIOUS
<1> USE BillingAssumption DEF BillingInit
<1>1. NoPayment \in Payment /\ NoTransaction \in Transaction /\ sub \in Subscription
  BY DEF NoPayment, Payment, NoTransaction, Transaction, Subscription, PaidPlans, NoPlan, NoTx
<1>2. \A p \in Payments : /\ payments[p] = NoPayment /\ payments[p].status = "none"
                          /\ payments[p].ends = payments[p].starts /\ payments[p].tx = NoTx
  BY DEF NoPayment
<1>3. \A t \in Txs : wompi[t].status = "none"
  BY DEF NoTransaction
<1>4. BillingTypeOK
  <2>1. request \in Requests
    BY IdleIsARequest
  <2>2. payments \in [Payments -> Payment] /\ wompi \in [Txs -> Transaction]
    BY <1>1
  <2>3. NoPayment.starts = NoPayment.ends /\ NoPayment.ends \in Nat
    BY DEF NoPayment
  <2>4. \A p \in Payments : /\ payments[p].status # "approved"
                            /\ ~(payments[p].ends > payments[p].starts)
    BY <1>2, <2>3
  <2> QED
    BY <1>1, <2>1, <2>2, <2>4 DEF BillingTypeOK, Requests
<1>5. LinksKept /\ FetchStands
  BY <1>2, <1>3 DEF LinksKept, FetchStands, Idle, NoTx
<1>6. PaidPeriodsApart /\ DaysArePaidFor
  BY <1>2 DEF PaidPeriodsApart, DaysArePaidFor, Applied
<1> QED
  BY <1>4, <1>5, <1>6 DEF BillingInv

\* What the locked transaction does when it is given a transaction of the
\* payment, approved by the provider if it counts as approved.
LEMMA LockedStep ==
    ASSUME BillingInv, NEW p \in Payments, NEW t \in Txs, NEW outcome,
           payments[p].status # "none", wompi[t].link = p, wompi[t].status # "none",
           outcome \in {"pending", "approved", "rejected", "needs_review"},
           outcome = "approved" => wompi[t].status = "approved",
           ApplyLocked(p, t, outcome), UNCHANGED <<day, wompi, promoted, rare>>,
           request' = request \/ request' = Idle
    PROVE  BillingInv'
<1> USE DEF BillingInv
<1>1. CASE Applied(p)
  <2>1. UNCHANGED <<sub, payments>>
    BY <1>1 DEF ApplyLocked
  <2> QED
    BY <2>1 DEF BillingTypeOK, LinksKept, FetchStands, PaidPeriodsApart, DaysArePaidFor,
       Applied, Idle, NoTx, NoPlan
<1>2. CASE ~Applied(p) /\ outcome = "approved"
  <2> DEFINE starts == PeriodStart(sub, day)
             row == Paid(payments[p], t, starts)
  <2>1. payments' = [payments EXCEPT ![p] = row] /\ sub' = Extended(sub, payments[p], day)
    BY <1>2 DEF ApplyLocked
  <2>2. /\ starts \in Nat /\ starts >= sub.expires /\ sub.expires \in Nat
        /\ payments[p].plan \in PaidPlans /\ Days[payments[p].plan] \in Nat \ {0}
    BY StartsAfterTheRest, BillingAssumption DEF LinksKept, BillingTypeOK, Subscription
  <2>3. /\ row \in Payment /\ row.status = "approved" /\ row.tx = t /\ t # NoTx
        /\ row.starts = starts /\ row.ends = starts + Days[payments[p].plan]
        /\ row.plan = payments[p].plan
    <3>1. payments[p] \in Payment /\ t \in Nat \ {0}
      BY BillingAssumption DEF BillingTypeOK, Txs
    <3>2. row = [payments[p] EXCEPT !.tx = t, !.status = "approved", !.starts = starts,
                                    !.ends = starts + Days[payments[p].plan]]
      BY DEF Paid
    <3> HIDE DEF starts, row
    <3>3. starts + Days[payments[p].plan] \in Nat
      BY <2>2
    <3>4. /\ row.tx = t /\ row.status = "approved" /\ row.starts = starts
          /\ row.ends = starts + Days[payments[p].plan] /\ row.plan = payments[p].plan
      BY <3>1, <3>2 DEF Payment
    <3>5. row \in Payment
      BY <2>2, <3>1, <3>2, <3>3 DEF Payment
    <3> QED
      BY <3>1, <3>4, <3>5 DEF NoTx
  <2>4. sub' \in Subscription /\ sub'.expires = row.ends
    BY <2>1, <2>2, <2>3 DEF Extended, BillingTypeOK, Subscription
  <2>5. payments' \in [Payments -> Payment] /\ payments'[p] = row
    BY <2>1, <2>3 DEF BillingTypeOK
  <2>6. \A q \in Payments : q # p => payments'[q] = payments[q]
    BY <2>1 DEF BillingTypeOK
  <2> HIDE DEF starts, row
  <2>7. BillingTypeOK'
    BY <2>2, <2>3, <2>4, <2>5, <2>6 DEF BillingTypeOK, Idle, NoTx, NoPlan
  <2>8. LinksKept'
    <3>1. \A q \in Payments : payments'[q].status # "none" => payments'[q].plan \in PaidPlans
      BY <2>2, <2>3, <2>5, <2>6 DEF LinksKept
    <3>2. \A u \in Txs : wompi[u].status # "none" => payments'[wompi[u].link].status # "none"
      BY <2>3, <2>5, <2>6 DEF LinksKept
    <3>3. \A q \in Payments : payments'[q].tx # NoTx =>
            wompi[payments'[q].tx].link = q /\ wompi[payments'[q].tx].status # "none"
      BY <2>3, <2>5, <2>6 DEF LinksKept
    <3> QED
      BY <3>1, <3>2, <3>3 DEF LinksKept
  <2>9. FetchStands'
    BY DEF FetchStands, Idle
  <2>10. PaidPeriodsApart'
    BY <2>2, <2>3, <2>4, <2>5, <2>6 DEF PaidPeriodsApart, Applied, BillingTypeOK, Payment
  <2>11. DaysArePaidFor'
    <3>1. wompi[t] = [link |-> p, status |-> "approved"]
      BY <1>2 DEF BillingTypeOK, Transaction
    <3> QED
      BY <2>3, <2>5, <2>6, <3>1, ZenonT(40) DEF DaysArePaidFor, Applied
  <2> QED
    BY <2>7, <2>8, <2>9, <2>10, <2>11
<1>3. CASE ~Applied(p) /\ outcome # "approved"
  <2> DEFINE row == Unpaid(payments[p], t, outcome)
  <2>1. /\ payments' = [payments EXCEPT ![p] = row]
        /\ sub' = sub \/ sub' = [sub EXCEPT !.status = "payment_failed"]
    BY <1>3 DEF ApplyLocked, Refused
  <2>2. /\ row \in Payment /\ row.status \notin {"approved", "none"} /\ row.tx = t /\ t # NoTx
        /\ row.starts = payments[p].starts /\ row.ends = payments[p].ends
        /\ row.plan = payments[p].plan
    <3>1. payments[p] \in Payment /\ t \in Nat \ {0}
      BY BillingAssumption DEF BillingTypeOK, Txs
    <3>2. PICK s \in {"needs_review", outcome} :
            row = [payments[p] EXCEPT !.tx = t, !.status = s]
      BY <3>1 DEF Unpaid, Payment
    <3> HIDE DEF row
    <3> QED
      BY <1>3, <3>1, <3>2 DEF Payment, NoTx
  <2>3. sub' \in Subscription /\ sub'.expires = sub.expires
    BY <2>1 DEF BillingTypeOK, Subscription
  <2>4. payments' \in [Payments -> Payment] /\ payments'[p] = row
    BY <2>1, <2>2 DEF BillingTypeOK
  <2>5. \A q \in Payments : q # p => payments'[q] = payments[q]
    BY <2>1 DEF BillingTypeOK
  <2> HIDE DEF row
  <2>6. BillingTypeOK'
    BY <1>3, <2>2, <2>3, <2>4, <2>5 DEF BillingTypeOK, Idle, NoTx, NoPlan, Applied
  <2>7. LinksKept'
    BY <2>2, <2>4, <2>5 DEF LinksKept
  <2>8. FetchStands'
    BY DEF FetchStands, Idle
  <2>9. PaidPeriodsApart' /\ DaysArePaidFor'
    BY <2>2, <2>3, <2>4, <2>5 DEF PaidPeriodsApart, DaysArePaidFor, Applied
  <2> QED
    BY <2>6, <2>7, <2>8, <2>9
<1> QED
  BY <1>1, <1>2, <1>3

\* Steps that leave the payments and the provider alone, and the expiry or more.
LEMMA RowStep ==
    ASSUME BillingInv, UNCHANGED <<payments, wompi>>, BillingTypeOK',
           sub'.expires >= sub.expires, request' = request \/ request'.tx = NoTx
    PROVE  BillingInv'
<1> USE DEF BillingInv
<1>1. LinksKept' /\ FetchStands' /\ DaysArePaidFor'
  BY DEF LinksKept, FetchStands, DaysArePaidFor, Applied
<1>2. PaidPeriodsApart'
  BY DEF PaidPeriodsApart, Applied, BillingTypeOK, Payment, Subscription
<1> QED
  BY <1>1, <1>2

LEMMA BillingStep == BillingInv /\ [BillingNext]_billingVars => BillingInv'
<1> SUFFICES ASSUME BillingInv, [BillingNext]_billingVars
             PROVE  BillingInv'
  OBVIOUS
<1> USE DEF BillingInv
<1>1. CASE Tick
  <2>1. BillingTypeOK'
    <3>1. /\ day' = day + 1 /\ promoted' \in BOOLEAN
          /\ UNCHANGED <<sub, payments, wompi, request, rare>>
      BY <1>1 DEF Tick
    <3> QED
      BY <3>1 DEF BillingTypeOK
  <2> QED
    BY <1>1, <2>1, RowStep DEF Tick, BillingTypeOK, Subscription
<1>2. ASSUME NEW target \in PaidPlans \cup {"free"}, ChangePlan(target)
      PROVE  BillingInv'
  <2>1. sub' \in Subscription /\ sub'.expires = sub.expires
    BY <1>2, AskedFacts DEF ChangePlan, BillingTypeOK
  <2>2. BillingTypeOK'
    BY <1>2, <2>1 DEF ChangePlan, Rarely, BillingTypeOK
  <2> QED
    BY <1>2, <2>1, <2>2, RowStep DEF ChangePlan, Subscription
<1>3. ASSUME NEW plan \in PaidPlans, Checkout(plan)
      PROVE  BillingInv'
  <2>1. request' \in Requests /\ request'.tx = NoTx
    BY <1>3, IdleIsARequest DEF Checkout
  <2>2. BillingTypeOK'
    <3>1. UNCHANGED <<day, sub, payments, wompi, promoted, rare>>
      BY <1>3 DEF Checkout
    <3> QED
      BY <2>1, <3>1 DEF BillingTypeOK, Requests
  <2> QED
    BY <1>3, <2>1, <2>2, RowStep DEF Checkout, BillingTypeOK, Subscription
<1>4. CASE SaveCheckout
  <2>1. PICK p \in Payments :
          /\ IsNext(p)
          /\ payments' = [payments EXCEPT ![p] =
                [NoPayment EXCEPT !.plan = request.plan, !.status = "pending",
                                  !.linkEnds = day + LinkLife]]
    BY <1>4 DEF SaveCheckout
  <2> DEFINE row == [NoPayment EXCEPT !.plan = request.plan, !.status = "pending",
                                      !.linkEnds = day + LinkLife]
  <2>2. request.plan \in PaidPlans /\ day + LinkLife \in Nat
    BY <1>4, BillingAssumption DEF SaveCheckout, BillingTypeOK
  <2>3. /\ row \in Payment /\ row.status = "pending" /\ row.starts = 0 /\ row.ends = 0
        /\ row.tx = NoTx /\ row.plan \in PaidPlans
    BY <2>2 DEF NoPayment, Payment, NoTx
  <2>4. sub' \in Subscription /\ sub'.expires = sub.expires
    BY <1>4, <2>2, AskedFacts DEF SaveCheckout, BillingTypeOK
  <2> HIDE DEF row
  <2>5. payments' \in [Payments -> Payment] /\ payments'[p] = row
        /\ \A q \in Payments : q # p => payments'[q] = payments[q]
    BY <2>1, <2>3 DEF row, BillingTypeOK
  <2>6. BillingTypeOK'
    <3>1. request' \in Requests /\ UNCHANGED <<day, wompi, promoted, rare>>
      BY <1>4, IdleIsARequest DEF SaveCheckout
    <3>2. \A q \in Payments :
            /\ payments'[q].status = "approved" <=> payments'[q].ends > payments'[q].starts
            /\ payments'[q].status = "approved" => payments'[q].tx # NoTx
      <4>1. ~(row.ends > row.starts)
        BY <2>3
      <4> QED
        BY <2>3, <2>5, <4>1 DEF BillingTypeOK
    <3> QED
      BY <2>4, <2>5, <3>1, <3>2 DEF BillingTypeOK, Requests
  <2>7. LinksKept'
    BY <1>4, <2>1, <2>3, <2>5 DEF SaveCheckout, LinksKept, IsNext
  <2>8. FetchStands'
    BY <1>4 DEF SaveCheckout, FetchStands, Idle
  <2>9. PaidPeriodsApart' /\ DaysArePaidFor'
    BY <1>4, <2>3, <2>4, <2>5 DEF SaveCheckout, PaidPeriodsApart, DaysArePaidFor, Applied
  <2> QED
    BY <2>6, <2>7, <2>8, <2>9
<1>5. CASE DropCheckout
  <2>1. BillingTypeOK' /\ request'.tx = NoTx
    BY <1>5 DEF DropCheckout, BillingTypeOK, Idle, NoTx, NoPlan
  <2> QED
    BY <1>5, <2>1, RowStep DEF DropCheckout, BillingTypeOK, Subscription
<1>6. CASE Grant(1)
  <2>1. sub' \in Subscription /\ sub'.expires >= sub.expires
    BY <1>6, StartsAfterTheRest DEF Grant, BillingTypeOK, Subscription
  <2>2. BillingTypeOK'
    BY <1>6, <2>1 DEF Grant, Rarely, BillingTypeOK
  <2> QED
    BY <1>6, <2>1, <2>2, RowStep DEF Grant
<1>7. ASSUME NEW p \in Payments, Pay(p)
      PROVE  BillingInv'
  <2>1. PICK t \in Txs :
          /\ wompi[t].status = "none"
          /\ wompi' = [wompi EXCEPT ![t] = [link |-> p, status |-> "pending"]]
    BY <1>7 DEF Pay
  <2>2. /\ payments[p].status # "none" /\ UNCHANGED <<day, sub, payments, request, promoted, rare>>
    BY <1>7 DEF Pay
  <2>3. BillingTypeOK'
    BY <2>1, <2>2 DEF BillingTypeOK, Transaction
  <2>4. LinksKept'
    BY <2>1, <2>2 DEF LinksKept, BillingTypeOK, Payment, Txs, NoTx
  <2>5. FetchStands' /\ DaysArePaidFor' /\ PaidPeriodsApart'
    BY <2>1, <2>2 DEF FetchStands, DaysArePaidFor, PaidPeriodsApart, Applied, BillingTypeOK
  <2> QED
    BY <2>3, <2>4, <2>5
<1>8. ASSUME NEW t \in Txs, NEW status \in {"approved", "odd", "rejected"}, Settle(t, status)
      PROVE  BillingInv'
  <2>1. /\ wompi[t].status = "pending" /\ wompi' = [wompi EXCEPT ![t].status = status]
        /\ UNCHANGED <<day, sub, payments, request, promoted>> /\ rare' \in Nat
    BY <1>8 DEF Settle, Rarely, BillingTypeOK
  <2>2. wompi'[t].link = wompi[t].link /\ wompi'[t].status = status
    BY <2>1 DEF BillingTypeOK, Transaction
  <2>3. \A u \in Txs : u # t => wompi'[u] = wompi[u]
    BY <2>1 DEF BillingTypeOK
  <2>4. BillingTypeOK'
    BY <2>1 DEF BillingTypeOK, Transaction
  <2>5. LinksKept'
    BY <2>1, <2>2, <2>3 DEF LinksKept, BillingTypeOK, Payment
  <2>6. FetchStands' /\ PaidPeriodsApart'
    BY <2>1, <2>2, <2>3 DEF FetchStands, PaidPeriodsApart, Applied, BillingTypeOK
  <2>7. DaysArePaidFor'
    <3> SUFFICES ASSUME NEW p \in Payments, Applied(p)'
                 PROVE  \E u \in Txs : /\ payments'[p].tx = u
                                       /\ wompi'[u] = [link |-> p, status |-> "approved"]
      BY DEF DaysArePaidFor
    <3>1. PICK u \in Txs : /\ payments[p].tx = u
                           /\ wompi[u] = [link |-> p, status |-> "approved"]
      BY <2>1 DEF DaysArePaidFor, Applied
    <3>2. u # t
      BY <2>1, <3>1
    <3> QED
      BY <2>1, <2>3, <3>1, <3>2
  <2> QED
    BY <2>4, <2>5, <2>6, <2>7
<1>9. ASSUME NEW t \in Txs, Hear(t)
      PROVE  BillingInv'
  <2> DEFINE p == wompi[t].link
  <2>1. /\ p \in Payments /\ payments[p].status # "none" /\ wompi[t].status # "none"
        /\ t # NoTx /\ UNCHANGED <<day, sub, wompi, promoted, rare>>
        /\ request' = [Idle EXCEPT !.tx = t, !.status = wompi[t].status]
    BY <1>9, BillingAssumption DEF Hear, LinksKept, Txs, NoTx
  <2>2. CASE UNCHANGED payments
    BY <2>1, <2>2, ZenonT(40) DEF BillingTypeOK, LinksKept, FetchStands, PaidPeriodsApart, DaysArePaidFor,
       Applied, Idle, Transaction
  <2>3. CASE ~Applied(p) /\ payments' = [payments EXCEPT ![p].tx = t]
    <3>1. /\ payments' \in [Payments -> Payment] /\ payments'[p].tx = t
          /\ payments'[p].status = payments[p].status /\ payments'[p].plan = payments[p].plan
          /\ payments'[p].starts = payments[p].starts /\ payments'[p].ends = payments[p].ends
          /\ \A q \in Payments : q # p => payments'[q] = payments[q]
      BY <2>1, <2>3 DEF BillingTypeOK, Payment
    <3>2. BillingTypeOK'
      BY <2>1, <2>3, <3>1 DEF BillingTypeOK, Applied, Idle, Transaction
    <3>3. LinksKept' /\ FetchStands'
      BY <2>1, <3>1 DEF LinksKept, FetchStands, Idle
    <3>4. PaidPeriodsApart' /\ DaysArePaidFor'
      BY <2>1, <2>3, <3>1 DEF PaidPeriodsApart, DaysArePaidFor, Applied
    <3> QED
      BY <3>2, <3>3, <3>4
  <2> QED
    BY <1>9, <2>2, <2>3 DEF Hear, Noted
<1>10. CASE Apply
  <2> DEFINE t == request.tx
             p == wompi[t].link
  <2>1. /\ t \in Txs /\ t # NoTx /\ wompi[t].status # "none" /\ request.status # "none"
        /\ request.status = "approved" => wompi[t].status = "approved"
    BY <1>10 DEF Apply, FetchStands, BillingTypeOK
  <2>2. p \in Payments /\ payments[p].status # "none"
    BY <2>1 DEF LinksKept
  <2>3. /\ Outcome(request.status) \in {"pending", "approved", "rejected", "needs_review"}
        /\ Outcome(request.status) = "approved" => request.status = "approved"
    BY <2>1 DEF Outcome, BillingTypeOK
  <2>4. /\ ApplyLocked(p, t, Outcome(request.status)) /\ request' = Idle
        /\ UNCHANGED <<day, wompi, promoted, rare>>
    BY <1>10 DEF Apply
  <2> QED
    BY <2>1, <2>2, <2>3, <2>4, LockedStep
<1>11. CASE Fail
  <2>1. BillingTypeOK' /\ request'.tx = NoTx
    BY <1>11 DEF Fail, BillingTypeOK, Idle, NoTx, NoPlan
  <2> QED
    BY <1>11, <2>1, RowStep DEF Fail, BillingTypeOK, Subscription
<1>12. CASE Promote
  <2>1. sub' \in Subscription /\ sub'.expires = sub.expires
    <3>1. CASE Current(day) = {}
      BY <1>12, <3>1 DEF Promote, Promoted, BillingTypeOK
    <3>2. CASE Current(day) # {}
      <4>1. PICK p \in Current(day) : sub' = [sub EXCEPT !.plan = payments[p].plan]
        BY <1>12, <3>2 DEF Promote, Promoted
      <4>2. payments[p].plan \in PaidPlans
        BY <4>1 DEF Current, InForce, Applied, LinksKept
      <4> QED
        BY <4>1, <4>2 DEF BillingTypeOK, Subscription
    <3> QED
      BY <3>1, <3>2
  <2>2. BillingTypeOK'
    BY <1>12, <2>1 DEF Promote, BillingTypeOK
  <2> QED
    BY <1>12, <2>1, <2>2, RowStep DEF Promote, Subscription
<1>13. ASSUME NEW p \in Payments, Check(p)
       PROVE  BillingInv'
  <2> DEFINE t == payments[p].tx
  <2>1. /\ t \in Txs /\ t # NoTx /\ payments[p].status # "none"
        /\ wompi[t].link = p /\ wompi[t].status # "none"
    BY <1>13 DEF Check, Candidate, LinksKept, BillingTypeOK, Payment
  <2>2. /\ Outcome(wompi[t].status) \in {"pending", "approved", "rejected", "needs_review"}
        /\ Outcome(wompi[t].status) = "approved" => wompi[t].status = "approved"
    BY <2>1 DEF Outcome, BillingTypeOK, Transaction
  <2>3. /\ ApplyLocked(p, t, Outcome(wompi[t].status))
        /\ UNCHANGED <<day, wompi, request, promoted, rare>>
    BY <1>13 DEF Check
  <2> QED
    BY <2>1, <2>2, <2>3, LockedStep
<1>14. CASE Expire
  <2>1. \A p \in Payments :
          \/ payments'[p] = payments[p]
          \/ /\ payments[p].status = "pending"
             /\ payments'[p] = [payments[p] EXCEPT !.status = "expired"]
    BY <1>14 DEF Expire, Unused
  <2>2. \A p \in Payments :
          /\ payments'[p] \in Payment /\ payments'[p].tx = payments[p].tx
          /\ payments'[p].starts = payments[p].starts /\ payments'[p].ends = payments[p].ends
          /\ payments'[p].plan = payments[p].plan
          /\ (payments'[p].status = "approved") <=> (payments[p].status = "approved")
          /\ (payments'[p].status = "none") <=> (payments[p].status = "none")
    <3> SUFFICES ASSUME NEW p \in Payments, payments'[p] # payments[p]
                 PROVE  /\ payments'[p] \in Payment /\ payments'[p].tx = payments[p].tx
                        /\ payments'[p].starts = payments[p].starts
                        /\ payments'[p].ends = payments[p].ends
                        /\ payments'[p].plan = payments[p].plan
                        /\ payments[p].status = "pending" /\ payments'[p].status = "expired"
      BY DEF BillingTypeOK
    <3>1. payments[p] \in Payment /\ payments[p].status = "pending"
          /\ payments'[p] = [payments[p] EXCEPT !.status = "expired"]
      BY <2>1 DEF BillingTypeOK
    <3> QED
      BY <3>1 DEF Payment
  <2>3. payments' \in [Payments -> Payment]
    BY <1>14, <2>2 DEF Expire
  <2>4. UNCHANGED <<day, sub, wompi, request, promoted, rare>>
    BY <1>14 DEF Expire
  <2>5. BillingTypeOK'
    BY <2>2, <2>3, <2>4 DEF BillingTypeOK
  <2>6. LinksKept' /\ FetchStands'
    BY <2>2, <2>4 DEF LinksKept, FetchStands, BillingTypeOK, Transaction
  <2>7. PaidPeriodsApart' /\ DaysArePaidFor'
    BY <2>2, <2>4 DEF PaidPeriodsApart, DaysArePaidFor, Applied
  <2> QED
    BY <2>5, <2>6, <2>7
<1>15. CASE UNCHANGED billingVars
  BY <1>15 DEF billingVars, BillingTypeOK, LinksKept, FetchStands, PaidPeriodsApart,
     DaysArePaidFor, Applied
<1> QED
  BY <1>1, <1>2, <1>3, <1>4, <1>5, <1>6, <1>7, <1>8, <1>9, <1>10, <1>11, <1>12, <1>13,
     <1>14, <1>15 DEF BillingNext

LEMMA BillingAlways == BillingSpec => []BillingInv
BY BillingStart, BillingStep, PTL DEF BillingSpec

-----------------------------------------------------------------------------
\* Payments keep the CHECKs of their table: an approved one has its period and
\* its transaction, and no other has.
THEOREM BillingTypes == BillingSpec => []BillingTypeOK
<1>1. BillingInv => BillingTypeOK
  BY DEF BillingInv
<1> QED
  BY <1>1, BillingAlways, PTL

\* Paid periods never overlap, for any number of payments applied in any order:
\* computeExtension under the lock of the subscription.
THEOREM PeriodsNeverOverlap == BillingSpec => []PaidPeriodsApart
<1>1. BillingInv => PaidPeriodsApart
  BY DEF BillingInv
<1> QED
  BY <1>1, BillingAlways, PTL

\* No days without an approved transaction of the same link for the exact price,
\* whatever is heard of late, twice or out of order.
THEOREM NoDaysForFree == BillingSpec => []DaysArePaidFor
<1>1. BillingInv => DaysArePaidFor
  BY DEF BillingInv
<1> QED
  BY <1>1, BillingAlways, PTL

\* The check under the lock keeps payments off a plan that runs for longer than
\* the renewal window, although the link was created before it.
THEOREM NothingOnTop == BillingSpec => NoPaymentOnTopOfPlan
<1>1. BillingInv /\ [BillingNext]_billingVars =>
        [\A p \in Payments :
            /\ payments[p].status = "none"
            /\ payments'[p].status # "none"
            /\ HasRunningPaidPeriod(sub, day)
            => day > sub.expires - Window]_billingVars
  <2> SUFFICES ASSUME BillingInv, [BillingNext]_billingVars, NEW p \in Payments,
                      payments[p].status = "none", payments'[p].status # "none",
                      HasRunningPaidPeriod(sub, day)
               PROVE  day > sub.expires - Window
    OBVIOUS
  <2> USE DEF BillingInv
  <2>1. CASE SaveCheckout
    BY <2>1 DEF SaveCheckout, StillAllowed, CheckoutAllowed
  <2>2. ~(\E q \in Payments, t \in Txs, o \in {"pending", "approved", "odd", "rejected",
              "needs_review", "none"} :
            payments[q].status # "none" /\ ApplyLocked(q, t, o))
    BY DEF ApplyLocked, BillingTypeOK
  <2>3. ~Apply
    BY <2>2 DEF Apply, FetchStands, LinksKept, Outcome, BillingTypeOK
  <2>4. \A q \in Payments : ~Check(q)
    BY <2>2 DEF Check, Candidate, LinksKept, Outcome, BillingTypeOK, Payment, Transaction
  <2>5. \A t \in Txs : ~Hear(t)
    BY DEF Hear, Noted, LinksKept, BillingTypeOK
  <2>6. ~Expire
    BY DEF Expire, Unused
  <2>7. payments' # payments
    OBVIOUS
  <2> QED
    BY <2>1, <2>3, <2>4, <2>5, <2>6, <2>7 DEF BillingNext, Tick, ChangePlan, Checkout,
       DropCheckout, Grant, Pay, Settle, Fail, Promote, billingVars
<1> QED
  BY <1>1, BillingAlways, PTL DEF BillingSpec, NoPaymentOnTopOfPlan

-----------------------------------------------------------------------------
\* What is in force, and the plan of the subscription, stay as they are.
PlanStays ==
    /\ day' = day /\ promoted' = promoted /\ sub'.plan = sub.plan
    /\ \A p \in Payments :
          Applied(p)' => /\ Applied(p)
                         /\ payments'[p].starts = payments[p].starts
                         /\ payments'[p].ends = payments[p].ends
                         /\ payments'[p].plan = payments[p].plan

LEMMA PlanStaysPaid ==
    ASSUME PlanIsTheOnePaid, PlanStays
    PROVE  PlanIsTheOnePaid'
BY DEF PlanIsTheOnePaid, PlanStays, InForce

\* Days that are granted start now only when no others are left, and take their
\* plan with them; days that start later leave the plan that runs.
LEMMA LockedPlan ==
    ASSUME BillingInv, PlanIsTheOnePaid, NEW p \in Payments, NEW t \in Txs, NEW outcome,
           payments[p].status # "none", outcome \in {"pending", "approved", "rejected", "needs_review"},
           ApplyLocked(p, t, outcome), day' = day, promoted' = promoted
    PROVE  PlanIsTheOnePaid'
<1> USE DEF BillingInv
<1>0. /\ payments \in [Payments -> Payment] /\ sub \in Subscription /\ day \in Nat
      /\ sub.expires \in Nat
  BY DEF BillingTypeOK, Subscription
<1>1. CASE Applied(p)
  BY <1>1, PlanStaysPaid DEF ApplyLocked, PlanStays, Applied
<1>2. CASE ~Applied(p) /\ outcome = "approved"
  <2> DEFINE starts == PeriodStart(sub, day)
             row == Paid(payments[p], t, starts)
  <2>1. payments' = [payments EXCEPT ![p] = row] /\ sub' = Extended(sub, payments[p], day)
    BY <1>2 DEF ApplyLocked
  <2>2. row.starts = starts /\ row.plan = payments[p].plan
    BY <1>0 DEF Paid, Payment
  <2>3. payments[p].plan \in PaidPlans
    BY DEF LinksKept
  <2> SUFFICES ASSUME promoted, NEW q \in Payments, InForce(q, day)'
               PROVE  sub'.plan = payments'[q].plan
    BY DEF PlanIsTheOnePaid
  <2>4. CASE sub.expires <= day
    <3>1. sub'.plan = payments[p].plan
      BY <1>0, <2>1, <2>4 DEF Extended, PlanSwitchesNow, HasRunningPaidPeriod
    <3>2. q = p
      <4> SUFFICES ASSUME q # p PROVE FALSE
        OBVIOUS
      <4>1. payments'[q] = payments[q]
        BY <2>1
      <4>2. Applied(q) /\ day < payments[q].ends
        BY <4>1 DEF InForce, Applied
      <4>3. payments[q].ends <= sub.expires /\ payments[q].ends \in Nat
        BY <1>0, <4>2 DEF PaidPeriodsApart, Payment
      <4> QED
        BY <1>0, <2>4, <4>2, <4>3
    <3> QED
      BY <1>0, <2>1, <2>2, <3>1, <3>2
  <2>5. CASE ~(sub.expires <= day)
    <3>1. starts = sub.expires
      BY <2>5 DEF PeriodStart
    <3>2. q # p
      <4> SUFFICES ASSUME q = p PROVE FALSE
        OBVIOUS
      <4>1. row.starts <= day
        BY <1>0, <2>1 DEF InForce
      <4> QED
        BY <1>0, <2>2, <2>5, <3>1, <4>1
    <3>3. payments'[q] = payments[q]
      BY <2>1, <3>2
    <3>4. InForce(q, day)
      BY <3>3 DEF InForce, Applied
    <3>5. sub.plan = payments[q].plan /\ payments[q].plan \in PaidPlans
      BY <3>4 DEF PlanIsTheOnePaid, InForce, Applied, LinksKept
    <3>6. HasRunningPaidPeriod(sub, day)
      BY <1>0, <2>5, <3>5 DEF HasRunningPaidPeriod
    <3>7. sub'.plan = sub.plan
      BY <2>1, <3>6 DEF Extended, PlanSwitchesNow
    <3> QED
      BY <3>3, <3>5, <3>7
  <2> QED
    BY <2>4, <2>5
<1>3. CASE ~Applied(p) /\ outcome # "approved"
  <2> DEFINE row == Unpaid(payments[p], t, outcome)
  <2>1. /\ payments' = [payments EXCEPT ![p] = row]
        /\ sub' = sub \/ sub' = [sub EXCEPT !.status = "payment_failed"]
    BY <1>3 DEF ApplyLocked, Refused
  <2>2. row.status # "approved"
    BY <1>0, <1>3 DEF Unpaid, Payment
  <2> HIDE DEF row
  <2>3. PlanStays
    BY <1>0, <2>1, <2>2 DEF PlanStays, Applied, Subscription
  <2> QED
    BY <2>3, PlanStaysPaid
<1> QED
  BY <1>1, <1>2, <1>3

LEMMA PlanStep ==
    BillingInv /\ PlanIsTheOnePaid /\ [BillingNext]_billingVars => PlanIsTheOnePaid'
<1> SUFFICES ASSUME BillingInv, PlanIsTheOnePaid, [BillingNext]_billingVars
             PROVE  PlanIsTheOnePaid'
  OBVIOUS
<1> USE DEF BillingInv
<1>0. payments \in [Payments -> Payment] /\ sub \in Subscription /\ day \in Nat
  BY DEF BillingTypeOK
<1>1. CASE Tick
  BY <1>1 DEF Tick, PlanIsTheOnePaid
<1>2. ASSUME NEW target \in PaidPlans \cup {"free"}, ChangePlan(target)
      PROVE  PlanIsTheOnePaid'
  <2>1. sub'.plan = sub.plan
    BY <1>0, <1>2, AskedFacts DEF ChangePlan
  <2> QED
    BY <1>2, <2>1, PlanStaysPaid DEF ChangePlan, PlanStays, Applied
<1>3. ASSUME UNCHANGED <<day, sub, payments, promoted>>
      PROVE  PlanIsTheOnePaid'
  BY <1>3, PlanStaysPaid DEF PlanStays, Applied
<1>4. CASE SaveCheckout
  <2>1. PICK p \in Payments :
          /\ IsNext(p)
          /\ payments' = [payments EXCEPT ![p] =
                [NoPayment EXCEPT !.plan = request.plan, !.status = "pending",
                                  !.linkEnds = day + LinkLife]]
    BY <1>4 DEF SaveCheckout
  <2>2. request.plan \in PaidPlans
    BY <1>4 DEF SaveCheckout, BillingTypeOK
  <2>3. sub'.plan = sub.plan /\ day' = day /\ promoted' = promoted
    BY <1>0, <1>4, <2>2, AskedFacts DEF SaveCheckout
  <2>4. payments'[p].status = "pending" /\ \A q \in Payments : q # p => payments'[q] = payments[q]
    BY <1>0, <2>1 DEF NoPayment
  <2> QED
    BY <2>3, <2>4, PlanStaysPaid DEF PlanStays, Applied
<1>5. CASE Grant(1)
  <2>1. sub'.plan = sub.plan
    BY <1>0, <1>5 DEF Grant, Subscription
  <2> QED
    BY <1>5, <2>1, PlanStaysPaid DEF Grant, PlanStays, Applied
<1>6. ASSUME NEW t \in Txs, Hear(t)
      PROVE  PlanIsTheOnePaid'
  <2>1. /\ UNCHANGED <<day, sub, promoted>> /\ wompi[t].link \in Payments
        /\ payments' = Noted(wompi[t].link, t)
    BY <1>6 DEF Hear, LinksKept
  <2>2. \A q \in Payments : /\ payments'[q].status = payments[q].status
                            /\ payments'[q].starts = payments[q].starts
                            /\ payments'[q].ends = payments[q].ends
                            /\ payments'[q].plan = payments[q].plan
    BY <1>0, <2>1 DEF Noted, Payment
  <2> QED
    BY <2>1, <2>2, PlanStaysPaid DEF PlanStays, Applied
<1>7. CASE Apply
  <2> DEFINE t == request.tx
             p == wompi[t].link
  <2>1. /\ t \in Txs /\ wompi[t].status # "none" /\ request.status # "none"
    BY <1>7 DEF Apply, FetchStands, BillingTypeOK
  <2>2. p \in Payments /\ payments[p].status # "none"
    BY <2>1 DEF LinksKept
  <2>3. Outcome(request.status) \in {"pending", "approved", "rejected", "needs_review"}
    BY <2>1 DEF Outcome, BillingTypeOK
  <2>4. ApplyLocked(p, t, Outcome(request.status)) /\ day' = day /\ promoted' = promoted
    BY <1>7 DEF Apply
  <2> QED
    BY <2>1, <2>2, <2>3, <2>4, LockedPlan
<1>8. CASE Promote
  <2> SUFFICES ASSUME NEW p \in Payments, InForce(p, day)
               PROVE  sub'.plan = payments[p].plan
    BY <1>8 DEF Promote, PlanIsTheOnePaid, InForce, Applied
  <2>1. ASSUME NEW q \in Payments, InForce(q, day)
        PROVE  q = p
    <3>1. /\ Applied(p) /\ payments[p].starts <= day /\ day < payments[p].ends
          /\ Applied(q) /\ payments[q].starts <= day /\ day < payments[q].ends
      BY <2>1 DEF InForce
    <3>2. /\ payments[p].starts \in Nat /\ payments[p].ends \in Nat
          /\ payments[q].starts \in Nat /\ payments[q].ends \in Nat
      BY <1>0 DEF Payment
    <3> QED
      BY <1>0, <3>1, <3>2 DEF PaidPeriodsApart
  <2>2. payments[p].starts \in Nat
    BY <1>0 DEF Payment
  <2>3. Current(day) = {p}
    BY <2>1, <2>2 DEF Current
  <2>4. sub' = [sub EXCEPT !.plan = payments[p].plan]
    BY <1>8, <2>3 DEF Promote, Promoted
  <2> QED
    BY <1>0, <2>4 DEF Subscription
<1>9. ASSUME NEW p \in Payments, Check(p)
      PROVE  PlanIsTheOnePaid'
  <2> DEFINE t == payments[p].tx
  <2>1. /\ t \in Txs /\ payments[p].status # "none" /\ wompi[t].status # "none"
    BY <1>9 DEF Check, Candidate, LinksKept, BillingTypeOK, Payment
  <2>2. Outcome(wompi[t].status) \in {"pending", "approved", "rejected", "needs_review"}
    BY <2>1 DEF Outcome, BillingTypeOK, Transaction
  <2>3. ApplyLocked(p, t, Outcome(wompi[t].status)) /\ day' = day /\ promoted' = promoted
    BY <1>9 DEF Check
  <2> QED
    BY <2>1, <2>2, <2>3, LockedPlan
<1>10. CASE Expire
  <2>1. \A p \in Payments :
          \/ payments'[p] = payments[p]
          \/ payments'[p] = [payments[p] EXCEPT !.status = "expired"]
    BY <1>10 DEF Expire
  <2>2. \A p \in Payments : payments'[p] = payments[p] \/ payments'[p].status = "expired"
    BY <1>0, <2>1 DEF Payment
  <2> QED
    BY <1>10, <2>2, PlanStaysPaid DEF Expire, PlanStays, Applied
<1>11. ASSUME NEW p \in Payments, Pay(p)
       PROVE  PlanIsTheOnePaid'
  BY <1>3, <1>11 DEF Pay
<1>12. ASSUME NEW t, NEW status, Settle(t, status)
       PROVE  PlanIsTheOnePaid'
  BY <1>3, <1>12 DEF Settle
<1> QED
  BY <1>1, <1>2, <1>3, <1>4, <1>5, <1>6, <1>7, <1>8, <1>9, <1>10, <1>11, <1>12
     DEF BillingNext, Checkout, DropCheckout, Fail, billingVars

\* The plan in force after the sweep of the day is the one that was paid for
\* that day, for any number of payments applied in any order, whatever plans
\* were asked for, scheduled or declined in between.
THEOREM PlanInForceIsPaid == BillingSpec => []PlanIsTheOnePaid
<1>1. BillingInit => PlanIsTheOnePaid
  BY DEF BillingInit, PlanIsTheOnePaid
<1> QED
  BY <1>1, PlanStep, BillingAlways, PTL DEF BillingSpec

-----------------------------------------------------------------------------
\* A payment of which a transaction is known that the provider has settled.
Known(p, t) == payments[p].status = "pending" /\ payments[p].tx = t /\ Settled(t)

\* Days are given by a payment that is applied now and starts where the rest
\* ends, or by the administrator, and nothing takes them back.
NothingIsTakenBack ==
    /\ sub'.expires >= sub.expires
    /\ \A p \in Payments : Applied(p) => payments'[p] = payments[p]
    /\ sub'.expires # sub.expires =>
          \/ rare' = rare + 1 /\ payments' = payments
          \/ \E p \in Payments : /\ ~Applied(p) /\ Applied(p)'
                                 /\ payments'[p].starts >= sub.expires
                                 /\ sub'.expires = payments'[p].ends

\* A check settles what it knows, and grants the days of an approved
\* transaction; until then the payment keeps knowing it, unless it comes to
\* know of another.
SweepHolds ==
    \A p \in Payments, t \in Txs : Known(p, t) =>
        /\ payments'[p].status # "pending" \/ payments'[p].tx # t \/ Known(p, t)'
        /\ Check(p) => payments'[p].status # "pending"
        /\ Check(p) /\ wompi[t].status = "approved" => Applied(p)'

LEMMA LockedTakesNothing ==
    ASSUME BillingInv, NEW p \in Payments, NEW t, payments[p].status # "none",
           NEW o \in {"pending", "approved", "rejected", "needs_review"},
           ApplyLocked(p, t, o), UNCHANGED <<wompi, day>>
    PROVE  NothingIsTakenBack
<1>1. /\ payments \in [Payments -> Payment] /\ sub \in Subscription
      /\ sub.expires \in Nat /\ payments[p].plan \in PaidPlans
  BY DEF BillingInv, BillingTypeOK, LinksKept, Subscription
<1>2. CASE Applied(p)
  BY <1>1, <1>2 DEF ApplyLocked, NothingIsTakenBack
<1>3. CASE ~Applied(p) /\ o = "approved"
  <2> DEFINE starts == PeriodStart(sub, day)
  <2>1. /\ payments' = [payments EXCEPT ![p] = Paid(payments[p], t, starts)]
        /\ sub' = Extended(sub, payments[p], day)
    BY <1>3 DEF ApplyLocked
  <2>2. starts \in Nat /\ starts >= sub.expires /\ Days[payments[p].plan] \in Nat
    BY <1>1, StartsAfterTheRest, BillingAssumption DEF BillingInv
  <2>3. sub'.expires = starts + Days[payments[p].plan]
    BY <2>1 DEF Extended
  <2> HIDE DEF starts
  <2>4. /\ payments'[p].status = "approved" /\ payments'[p].starts = starts
        /\ payments'[p].ends = starts + Days[payments[p].plan]
    BY <1>1, <2>1 DEF Paid, Payment
  <2>5. \A q \in Payments : Applied(q) => payments'[q] = payments[q]
    BY <1>1, <1>3, <2>1
  <2> QED
    BY <1>1, <1>3, <2>2, <2>3, <2>4, <2>5 DEF NothingIsTakenBack, Applied
<1>4. CASE ~Applied(p) /\ o # "approved"
  <2>1. /\ payments' = [payments EXCEPT ![p] = Unpaid(payments[p], t, o)]
        /\ sub' = IF o = "rejected" THEN Refused(sub, payments[p]) ELSE sub
    BY <1>4 DEF ApplyLocked
  <2>2. sub'.expires = sub.expires
    BY <1>1, <2>1 DEF Refused, Subscription
  <2>3. \A q \in Payments : Applied(q) => payments'[q] = payments[q]
    BY <1>1, <1>4, <2>1
  <2> QED
    BY <1>1, <2>2, <2>3 DEF NothingIsTakenBack
<1> QED
  BY <1>2, <1>3, <1>4

LEMMA NothingTaken == BillingInv /\ [BillingNext]_billingVars => NothingIsTakenBack \/ UNCHANGED billingVars
<1> SUFFICES ASSUME BillingInv, BillingNext
             PROVE  NothingIsTakenBack
  OBVIOUS
<1>1. /\ payments \in [Payments -> Payment] /\ sub \in Subscription
      /\ sub.expires \in Nat /\ day \in Nat
  BY DEF BillingInv, BillingTypeOK, Subscription
<1>2. ASSUME UNCHANGED payments, sub'.expires = sub.expires
      PROVE  NothingIsTakenBack
  BY <1>1, <1>2 DEF NothingIsTakenBack
<1>3. CASE Tick \/ DropCheckout \/ Fail \/ (\E plan \in PaidPlans : Checkout(plan))
           \/ (\E p \in Payments : Pay(p))
           \/ (\E t \in Txs, status \in {"approved", "odd", "rejected"} : Settle(t, status))
  BY <1>2, <1>3 DEF Tick, DropCheckout, Fail, Checkout, Pay, Settle
<1>4. ASSUME NEW target \in PaidPlans \cup {"free"}, ChangePlan(target)
      PROVE  NothingIsTakenBack
  BY <1>1, <1>2, <1>4, AskedFacts DEF ChangePlan
<1>5. CASE SaveCheckout
  <2>1. PICK p \in Payments : /\ payments[p].status = "none"
                              /\ \A q \in Payments \ {p} : payments'[q] = payments[q]
    BY <1>1, <1>5 DEF SaveCheckout, IsNext
  <2>2. sub'.expires = sub.expires
    <3>1. request.plan \in PaidPlans /\ sub' = Asked(sub, request.plan, day)
      BY <1>5 DEF SaveCheckout, BillingInv, BillingTypeOK
    <3> QED
      BY <1>1, <3>1, AskedFacts
  <2> QED
    BY <1>1, <2>1, <2>2 DEF NothingIsTakenBack, Applied
<1>6. CASE Grant(1)
  <2>1. /\ sub'.expires = PeriodStart(sub, day) + 1 /\ payments' = payments
        /\ rare' = rare + 1
    BY <1>1, <1>6 DEF Grant, Rarely, Subscription
  <2>2. PeriodStart(sub, day) \in Nat /\ PeriodStart(sub, day) >= sub.expires
    BY StartsAfterTheRest DEF BillingInv
  <2> QED
    BY <1>1, <2>1, <2>2 DEF NothingIsTakenBack
<1>7. ASSUME NEW t \in Txs, Hear(t)
      PROVE  NothingIsTakenBack
  <2>1. sub' = sub /\ payments' = Noted(wompi[t].link, t)
    BY <1>7 DEF Hear
  <2>2. \A q \in Payments : Applied(q) => payments'[q] = payments[q]
    BY <1>1, <2>1 DEF Noted
  <2> QED
    BY <1>1, <2>1, <2>2 DEF NothingIsTakenBack
<1>8. CASE Apply
  <2>1. /\ request.tx \in Txs /\ wompi[request.tx].link \in Payments
        /\ payments[wompi[request.tx].link].status # "none"
        /\ request.status \in {"pending", "approved", "odd", "rejected"}
    BY <1>8 DEF Apply, BillingInv, BillingTypeOK, FetchStands, LinksKept
  <2>2. Outcome(request.status) \in {"pending", "approved", "rejected", "needs_review"}
    BY <2>1 DEF Outcome
  <2>3. /\ ApplyLocked(wompi[request.tx].link, request.tx, Outcome(request.status))
        /\ UNCHANGED <<wompi, day>>
    BY <1>8 DEF Apply
  <2> QED
    BY <2>1, <2>2, <2>3, LockedTakesNothing
<1>9. ASSUME NEW p \in Payments, Check(p)
      PROVE  NothingIsTakenBack
  <2>1. /\ payments[p].tx \in Txs /\ payments[p].status # "none"
        /\ wompi[payments[p].tx].status \in {"pending", "approved", "odd", "rejected"}
    BY <1>1, <1>9 DEF Check, Candidate, BillingInv, BillingTypeOK, LinksKept, Payment, Transaction
  <2>2. Outcome(wompi[payments[p].tx].status)
            \in {"pending", "approved", "rejected", "needs_review"}
    BY <2>1 DEF Outcome
  <2>3. /\ ApplyLocked(p, payments[p].tx, Outcome(wompi[payments[p].tx].status))
        /\ UNCHANGED <<wompi, day>>
    BY <1>9 DEF Check
  <2> QED
    BY <2>1, <2>2, <2>3, LockedTakesNothing
<1>10. CASE Promote
  <2>1. sub'.expires = sub.expires /\ payments' = payments
    BY <1>1, <1>10 DEF Promote, Promoted, Subscription
  <2> QED
    BY <1>2, <2>1
<1>11. CASE Expire
  <2>1. sub' = sub /\ \A q \in Payments : Applied(q) => payments'[q] = payments[q]
    BY <1>1, <1>11 DEF Expire, Unused, Applied
  <2> QED
    BY <1>1, <2>1 DEF NothingIsTakenBack
<1> QED
  BY <1>3, <1>4, <1>5, <1>6, <1>7, <1>8, <1>9, <1>10, <1>11 DEF BillingNext

LEMMA KnownStays ==
    ASSUME BillingInv, BillingNext
    PROVE  SweepHolds
<1> SUFFICES ASSUME NEW p \in Payments, NEW t \in Txs, Known(p, t)
             PROVE  /\ payments'[p].status # "pending" \/ payments'[p].tx # t \/ Known(p, t)'
                    /\ Check(p) => payments'[p].status # "pending"
                    /\ Check(p) /\ wompi[t].status = "approved" => Applied(p)'
  BY DEF SweepHolds
<1>1. wompi \in [Txs -> Transaction] /\ payments \in [Payments -> Payment]
  BY DEF BillingInv, BillingTypeOK
<1>2. wompi'[t] = wompi[t]
  <2>1. \A q \in Payments : Pay(q) => wompi'[t] = wompi[t]
    BY <1>1 DEF Pay, Known, Settled
  <2>2. \A u \in Txs, s \in {"approved", "odd", "rejected"} :
            Settle(u, s) => wompi'[t] = wompi[t]
    BY <1>1 DEF Settle, Known, Settled
  <2> QED
    BY <2>1, <2>2 DEF BillingNext, Tick, ChangePlan, Checkout, SaveCheckout, DropCheckout,
       Grant, Hear, Apply, Fail, Promote, Check, Expire
<1>3. ASSUME Check(p)
      PROVE  /\ payments'[p].status # "pending"
             /\ wompi[t].status = "approved" => Applied(p)'
  <2>1. /\ ApplyLocked(p, t, Outcome(wompi[t].status)) /\ ~Applied(p)
        /\ payments[p].status = "pending"
    BY <1>3 DEF Check, Known, Applied
  <2>2. CASE wompi[t].status = "approved"
    <3>1. payments' = [payments EXCEPT ![p] = Paid(payments[p], t, PeriodStart(sub, day))]
      BY <2>1, <2>2 DEF ApplyLocked, Outcome
    <3> QED
      BY <1>1, <3>1 DEF Paid, Payment, Applied
  <2>3. CASE wompi[t].status # "approved"
    <3>1. Outcome(wompi[t].status) \in {"needs_review", "rejected"}
      BY <2>3 DEF Known, Settled, Outcome
    <3>2. payments' = [payments EXCEPT ![p] =
                          Unpaid(payments[p], t, Outcome(wompi[t].status))]
      BY <2>1, <3>1 DEF ApplyLocked
    <3>3. payments'[p].status = Outcome(wompi[t].status)
      BY <1>1, <2>1, <3>2 DEF Unpaid, Payment
    <3> QED
      BY <2>3, <3>1, <3>3
  <2> QED
    BY <2>2, <2>3
<1> QED
  BY <1>2, <1>3 DEF Known, Settled

\* No webhook, sweep, return page or change of plan takes back a day, or
\* touches a payment that granted days; and no day comes but from a payment
\* applied now, which starts where the rest ends, or from the administrator.
THEOREM NoDayIsTakenBack == BillingSpec => [][NothingIsTakenBack]_billingVars
BY NothingTaken, BillingAlways, PTL DEF BillingSpec

\* The part of SweepSettles that is not fairness: a pending payment that knows
\* a settled transaction keeps it until it is settled or hears of another, and
\* the check of the sweep, when it runs, settles it and grants what was paid.
THEOREM SweepKeepsAndSettles == BillingSpec => [][SweepHolds]_billingVars
BY KnownStays, BillingAlways, PTL DEF BillingSpec
=============================================================================
