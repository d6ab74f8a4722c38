------------------------------ MODULE Billing ------------------------------
(***************************************************************************)
(* The subscription of one shop and its payments through Wompi.            *)
(*                                                                         *)
(* A checkout opens a payment link outside any transaction and saves the   *)
(* payment afterwards; the owner pays on the provider's page, perhaps more *)
(* than once; a transaction is applied by whoever hears of it: the         *)
(* webhook, the page the owner returns to, or the sweep that runs every    *)
(* five minutes.  Each of them fetches the transaction and notes its id on *)
(* the payment, and later applies what it fetched in one database          *)
(* transaction that locks the payment and then the subscription.           *)
(*                                                                         *)
(* The provider is external: an event may be lost, repeated or late, so a  *)
(* webhook is a fetch at any time; a transaction is created on a live link *)
(* and settles once, or never.  Time is in days, and a period [starts,     *)
(* ends) is in force on the days it contains.                              *)
(*                                                                         *)
(* DECLINED, VOIDED and ERROR are "rejected" here; "odd" is APPROVED with  *)
(* an amount or a currency that is not the payment's.                      *)
(***************************************************************************)
EXTENDS Integers, FiniteSets

CONSTANTS
    MaxPayments,   \* bound: payments of the subscription
    MaxTxs,        \* bound: transactions at the provider
    MaxDay,        \* bound: days observed
    MaxRare,       \* bound: plan changes, extensions, odd amounts
    TrialEnd,      \* day the free trial ends
    Days,          \* days a paid plan buys: [PaidPlans -> Nat]
    Window,        \* RENEWAL_WINDOW_DAYS
    LinkLife,      \* PAYMENT_LINK_TTL_MS
    Grace          \* PAYMENT_EXPIRE_GRACE_MS

PaidPlans == {"monthly", "annual"}
NoPlan == "none"
Payments == 1..MaxPayments
Txs == 1..MaxTxs
NoTx == 0

ASSUME BillingAssumption ==
    /\ MaxPayments \in Nat /\ MaxTxs \in Nat /\ MaxDay \in Nat /\ MaxRare \in Nat
    /\ TrialEnd \in Nat /\ Window \in Nat /\ LinkLife \in Nat
    /\ Grace \in Nat
    /\ Days \in [PaidPlans -> Nat \ {0}]

VARIABLES
    day,       \* now
    sub,       \* the row of subscriptions
    payments,  \* the rows of subscription_payments, "none" before the insert
    wompi,     \* the provider's transactions
    request,   \* the request between two steps: the plan of a checkout that
               \* waits for its link, or what was fetched and not applied yet
    promoted,  \* promoteStartedPeriods ran today
    rare       \* bounded events so far

billingVars == <<day, sub, payments, wompi, request, promoted, rare>>

Subscription == [plan : PaidPlans \cup {"free"},
                 status : {"trialing", "active", "payment_pending", "payment_failed", "canceled"},
                 requested : PaidPlans \cup {NoPlan},
                 scheduled : PaidPlans \cup {NoPlan},
                 expires : Nat]

Payment == [plan : PaidPlans \cup {NoPlan},
            status : {"none", "pending", "approved", "rejected", "expired", "needs_review"},
            tx : Txs \cup {NoTx},
            linkEnds : Nat, starts : Nat, ends : Nat]

Transaction == [link : Payments \cup {0},
                status : {"none", "pending", "approved", "odd", "rejected"}]

\* With the CHECKs of subscription_payments: an approved payment, and only an
\* approved one, has its period, and it names a transaction.
BillingTypeOK ==
    /\ day \in Nat
    /\ sub \in Subscription
    /\ payments \in [Payments -> Payment]
    /\ \A p \in Payments : /\ payments[p].status = "approved" <=> payments[p].ends > payments[p].starts
                           /\ payments[p].status = "approved" => payments[p].tx # NoTx
    /\ wompi \in [Txs -> Transaction]
    /\ request \in [plan : PaidPlans \cup {NoPlan}, tx : Txs \cup {NoTx},
                    status : {"none", "pending", "approved", "odd", "rejected"}]
    /\ promoted \in BOOLEAN
    /\ rare \in Nat

NoPayment == [plan |-> NoPlan, status |-> "none", tx |-> NoTx,
              linkEnds |-> 0, starts |-> 0, ends |-> 0]
NoTransaction == [link |-> 0, status |-> "none"]
Idle == [plan |-> NoPlan, tx |-> NoTx, status |-> "none"]

BillingInit ==
    /\ day = 0
    /\ sub = [plan |-> "free", status |-> "trialing", requested |-> NoPlan,
              scheduled |-> NoPlan, expires |-> TrialEnd]
    /\ payments = [p \in Payments |-> NoPayment]
    /\ wompi = [t \in Txs |-> NoTransaction]
    /\ request = Idle
    /\ promoted = FALSE
    /\ rare = 0

-----------------------------------------------------------------------------
(* plan-policy.ts, plan-transition.ts and payment-outcome.ts: pure rules.  *)

HasRunningPaidPeriod(s, now) == s.plan \in PaidPlans /\ s.expires > now

\* resolveCheckoutDecision: with a month or more of a paid plan ahead there
\* is nothing to charge.
CheckoutAllowed(s, now) ==
    HasRunningPaidPeriod(s, now) => now > s.expires - Window

\* Mutant: another plan starts at once, over the period that is paid.
SwitchesAlways(s, paid, now) == TRUE

PlanSwitchesNow(s, paid, now) == ~HasRunningPaidPeriod(s, now) \/ s.plan = paid

\* resolvePlanTransition: what asking for a plan does to the row.
Asked(s, target, now) ==
    CASE target = "free" ->
            [s EXCEPT !.status = IF s.plan \in PaidPlans THEN "canceled" ELSE "trialing",
                      !.requested = NoPlan, !.scheduled = NoPlan]
      [] target # "free" /\ HasRunningPaidPeriod(s, now) ->
            [s EXCEPT !.status = "active", !.requested = NoPlan,
                      !.scheduled = IF target = s.plan THEN NoPlan ELSE target]
      [] OTHER ->
            [s EXCEPT !.status = "payment_pending", !.requested = target,
                      !.scheduled = NoPlan]

\* Mutant: the days are counted from today.
PeriodStartsToday(s, now) == now

\* computeExtension: the days go after what is left.
PeriodStart(s, now) == IF s.expires <= now THEN now ELSE s.expires

\* Mutant: whatever was approved is taken for the price.
OutcomeOfStatus(status) == IF status = "odd" THEN "approved" ELSE status

\* evaluateTransaction: the status the payment gets.
Outcome(status) == IF status = "odd" THEN "needs_review" ELSE status

-----------------------------------------------------------------------------
(* The owner and the administrator.                                        *)

Rarely == rare < MaxRare /\ rare' = rare + 1

\* A request takes seconds, so none is open from one day to the next.
Tick ==
    /\ day < MaxDay
    /\ request = Idle
    /\ day' = day + 1
    /\ promoted' = FALSE
    /\ UNCHANGED <<sub, payments, wompi, request, rare>>

\* POST /portal/plan
ChangePlan(target) ==
    /\ Rarely
    /\ sub' = Asked(sub, target, day)
    /\ sub' # sub
    /\ UNCHANGED <<day, payments, wompi, request, promoted>>

Open(plan, now) == {p \in Payments : /\ payments[p].status = "pending"
                                     /\ payments[p].plan = plan
                                     /\ payments[p].linkEnds > now}

\* The newest open link of the plan, if nobody tried to pay it yet.
Reusable(plan, now) ==
    {p \in Open(plan, now) : /\ payments[p].tx = NoTx
                             /\ \A q \in Open(plan, now) : q <= p}

\* POST /billing/checkout up to the call that creates the link.  A link that
\* can be used again is answered as it is.
Checkout(plan) ==
    /\ request = Idle
    /\ CheckoutAllowed(sub, day)
    /\ Reusable(plan, day) = {}
    /\ request' = [Idle EXCEPT !.plan = plan]
    /\ UNCHANGED <<day, sub, payments, wompi, promoted, rare>>

IsNext(p) == /\ payments[p].status = "none"
             /\ \A q \in Payments : q < p => payments[q].status # "none"

\* Mutant: what was checked before the link was created is not checked again.
SavedAnyway(s, now) == TRUE

StillAllowed(s, now) == CheckoutAllowed(s, now)

\* The transaction that saves it, under the lock of the subscription.
SaveCheckout ==
    /\ request.plan # NoPlan
    /\ StillAllowed(sub, day)
    /\ \E p \in Payments :
        /\ IsNext(p)
        /\ payments' = [payments EXCEPT ![p] =
            [NoPayment EXCEPT !.plan = request.plan, !.status = "pending",
                              !.linkEnds = day + LinkLife]]
    /\ sub' = Asked(sub, request.plan, day)
    /\ request' = Idle
    /\ UNCHANGED <<day, wompi, promoted, rare>>

\* The provider did not create the link, or the check under the lock refuses.
DropCheckout ==
    /\ request.plan # NoPlan
    /\ request' = Idle
    /\ UNCHANGED <<day, sub, payments, wompi, promoted, rare>>

\* PATCH /superadmin/.../subscription: extendDays.  A date before the expiry,
\* which takes back days on purpose, is left out.
Grant(n) ==
    /\ Rarely
    /\ sub' = [sub EXCEPT !.expires = PeriodStart(sub, day) + n]
    /\ UNCHANGED <<day, payments, wompi, request, promoted>>

-----------------------------------------------------------------------------
(* The provider.                                                           *)

Pay(p) ==
    /\ payments[p].status # "none"
    /\ day < payments[p].linkEnds
    /\ ~\E t \in Txs : wompi[t].link = p /\ wompi[t].status \in {"approved", "odd"}
    /\ \E t \in Txs :
        /\ wompi[t].status = "none"
        /\ \A u \in Txs : u < t => wompi[u].status # "none"
        /\ wompi' = [wompi EXCEPT ![t] = [link |-> p, status |-> "pending"]]
    /\ UNCHANGED <<day, sub, payments, request, promoted, rare>>

Settle(t, status) ==
    /\ wompi[t].status = "pending"
    /\ IF status = "odd" THEN Rarely ELSE UNCHANGED rare
    /\ wompi' = [wompi EXCEPT ![t].status = status]
    /\ UNCHANGED <<day, sub, payments, request, promoted>>

-----------------------------------------------------------------------------
(* ApplyWompiTransactionAction.                                           *)

Applied(p) == payments[p].status = "approved"

\* Mutant: the id is noted on a payment that was applied, too.
NotedAnyway(p, t) == [payments EXCEPT ![p].tx = t]

\* The id is written before the transaction that may fail.
Noted(p, t) == IF Applied(p) THEN payments ELSE [payments EXCEPT ![p].tx = t]

\* A webhook, or the page the owner returns to: fetch, then note.
Hear(t) ==
    /\ request = Idle
    /\ wompi[t].status # "none"
    /\ request' = [Idle EXCEPT !.tx = t, !.status = wompi[t].status]
    /\ payments' = Noted(wompi[t].link, t)
    /\ UNCHANGED <<day, sub, wompi, promoted, rare>>

\* What applyLocked leaves in the payment when it grants no days.
Unpaid(row, t, outcome) ==
    [row EXCEPT !.tx = t,
                !.status = IF @ = "needs_review" THEN @ ELSE outcome]

Refused(s, row) ==
    IF s.status = "payment_pending" /\ s.requested = row.plan
    THEN [s EXCEPT !.status = "payment_failed"] ELSE s

Paid(row, t, starts) ==
    [row EXCEPT !.tx = t, !.status = "approved",
                !.starts = starts, !.ends = starts + Days[row.plan]]

Extended(s, row, now) ==
    [plan |-> IF PlanSwitchesNow(s, row.plan, now) THEN row.plan ELSE s.plan,
     status |-> "active", requested |-> NoPlan, scheduled |-> NoPlan,
     expires |-> PeriodStart(s, now) + Days[row.plan]]

\* The locked transaction.  One that finds the payment applied does nothing.
ApplyLocked(p, t, outcome) ==
    CASE Applied(p) -> UNCHANGED <<sub, payments>>
      [] ~Applied(p) /\ outcome = "approved" ->
            /\ payments' = [payments EXCEPT ![p] = Paid(@, t, PeriodStart(sub, day))]
            /\ sub' = Extended(sub, payments[p], day)
      [] OTHER ->
            /\ payments' = [payments EXCEPT ![p] = Unpaid(@, t, outcome)]
            /\ sub' = IF outcome = "rejected" THEN Refused(sub, payments[p]) ELSE sub

Apply ==
    /\ request.tx # NoTx
    /\ LET t == request.tx
       IN  ApplyLocked(wompi[t].link, t, Outcome(request.status))
    /\ request' = Idle
    /\ UNCHANGED <<day, wompi, promoted, rare>>

\* The process stops or the database fails after the fetch: the request ends
\* without its effect, and what it noted stays.
Fail ==
    /\ request.tx # NoTx
    /\ request' = Idle
    /\ UNCHANGED <<day, sub, payments, wompi, promoted, rare>>

-----------------------------------------------------------------------------
(* BillingScheduler.reconcile: it promotes, checks one payment after the   *)
(* other and expires, every five minutes, so each of the three happens     *)
(* again and again between any other steps.  A check is one step: that     *)
(* what it fetched is old when it is applied is the case of the request,   *)
(* with the sweep in between.                                              *)

InForce(p, d) == Applied(p) /\ payments[p].starts <= d /\ d < payments[p].ends

Current(d) == {p \in Payments : InForce(p, d) /\
                 \A q \in Payments : InForce(q, d) => payments[q].starts <= payments[p].starts}

\* promoteStartedPeriods
Promoted(s, d) ==
    IF Current(d) = {} THEN s
    ELSE [s EXCEPT !.plan = payments[CHOOSE p \in Current(d) : TRUE].plan]

Promote ==
    /\ ~promoted
    /\ sub' = Promoted(sub, day)
    /\ promoted' = TRUE
    /\ UNCHANGED <<day, payments, wompi, request, rare>>

\* Mutant: payments that know their transaction are left to the webhook.
NeverCandidate(p) == FALSE

Candidate(p) == payments[p].status = "pending" /\ payments[p].tx # NoTx

Check(p) ==
    /\ Candidate(p)
    /\ LET t == payments[p].tx
       IN  ApplyLocked(p, t, Outcome(wompi[t].status))
    /\ UNCHANGED <<day, wompi, request, promoted, rare>>

\* The links nobody paid.
Unused(p) == /\ payments[p].status = "pending"
             /\ payments[p].tx = NoTx
             /\ payments[p].linkEnds + Grace <= day

Expire ==
    /\ \E p \in Payments : Unused(p)
    /\ payments' = [p \in Payments |->
        IF Unused(p) THEN [payments[p] EXCEPT !.status = "expired"] ELSE payments[p]]
    /\ UNCHANGED <<day, sub, wompi, request, promoted, rare>>

-----------------------------------------------------------------------------
BillingNext ==
    \/ Tick
    \/ \E target \in PaidPlans \cup {"free"} : ChangePlan(target)
    \/ \E plan \in PaidPlans : Checkout(plan)
    \/ SaveCheckout
    \/ DropCheckout
    \/ Grant(1)
    \/ \E p \in Payments : Pay(p)
    \/ \E t \in Txs, status \in {"approved", "odd", "rejected"} : Settle(t, status)
    \/ \E t \in Txs : Hear(t)
    \/ Apply
    \/ Fail
    \/ Promote
    \/ \E p \in Payments : Check(p)
    \/ Expire

\* Node runs the continuations of a request and the timer of the sweep; the
\* owner, the provider and its webhooks are not fair.
BillingFairness ==
    /\ WF_billingVars(Apply)
    /\ WF_billingVars(Promote)
    /\ \A p \in Payments : WF_billingVars(Check(p))
    /\ WF_billingVars(Expire)

BillingSpec == BillingInit /\ [][BillingNext]_billingVars /\ BillingFairness

-----------------------------------------------------------------------------
(* Properties.                                                             *)

\* Paid periods never overlap, each is as long as its plan says, and access
\* reaches to the end of all of them, whatever the order in which links are
\* paid, heard of and applied.  computeExtension, applyLocked.
PaidPeriodsApart ==
    /\ \A p \in Payments : Applied(p) =>
        /\ payments[p].ends = payments[p].starts + Days[payments[p].plan]
        /\ payments[p].ends <= sub.expires
    /\ \A p, q \in Payments : p # q /\ Applied(p) /\ Applied(q) =>
        payments[p].ends <= payments[q].starts \/ payments[q].ends <= payments[p].starts

\* A payment that granted days names the transaction that paid for them: of
\* its own link, approved by the provider, for the exact price.  A late
\* worker never replaces it.  Noted, ApplyLocked.
DaysArePaidFor ==
    \A p \in Payments : Applied(p) =>
        \E t \in Txs : /\ payments[p].tx = t
                       /\ wompi[t] = [link |-> p, status |-> "approved"]

\* Once the sweep of the day ran, the plan in force is the plan that was paid
\* for that day, even if other plans were asked for, scheduled, paid in
\* advance or declined in between.  PlanSwitchesNow, promoteStartedPeriods.
PlanIsTheOnePaid ==
    promoted =>
        \A p \in Payments : InForce(p, day) => sub.plan = payments[p].plan

\* No payment is saved while a month or more of a paid plan is ahead, even if
\* another payment was applied while the link was being created.
\* assertCheckoutAllowed under the lock.
NoPaymentOnTopOfPlan ==
    [][\A p \in Payments :
        /\ payments[p].status = "none"
        /\ payments'[p].status # "none"
        /\ HasRunningPaidPeriod(sub, day)
        => day > sub.expires - Window]_billingVars

Settled(t) == wompi[t].status \in {"approved", "odd", "rejected"}

\* The webhook may be lost: a pending payment that knows a settled transaction
\* is settled by the sweep, unless it comes to know of another transaction.
SweepSettles ==
    \A p \in Payments, t \in Txs :
        (payments[p].status = "pending" /\ payments[p].tx = t /\ Settled(t))
            ~> (payments[p].status # "pending" \/ payments[p].tx # t)
=============================================================================
