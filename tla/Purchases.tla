----------------------------- MODULE Purchases -----------------------------
(***************************************************************************)
(* Purchases of one company: the debt they create with suppliers and       *)
(* carriers, the payments that settle it, the goods they bring in, and     *)
(* the edits and archivals that take all of it back.                       *)
(*                                                                         *)
(* Edits, archivals and bulk payments run SERIALIZABLE and write the row   *)
(* of the purchase or of its credit, so each is one step: a rival that     *)
(* committed after its snapshot makes it fail.  A reception and a payment  *)
(* run READ COMMITTED and look at the purchase without locking it, so each *)
(* is two steps, what it looked at and what it did with it; the second     *)
(* step holds the locks and commits.  A refused request is no step.        *)
(*                                                                         *)
(* A purchase is a total, the units its lines bring of one product, and a  *)
(* freight.  Registers, banks and wallets are accounts; who may force a    *)
(* stock adjustment, folios, due dates, texts and histories are left out.  *)
(* Amounts are whole units: the 0.01 a payment of freight may leave in a   *)
(* credit it marks PAID (PAID_TOLERANCE_CENTS) is less than one.           *)
(* A create repeated under its client_operation_id answers the first       *)
(* purchase, which is no step either.                                      *)
(***************************************************************************)
EXTENDS Integers, FiniteSets, Totals

CONSTANTS
    Suppliers, Carriers, Accounts,
    Clerks,         \* users whose requests overlap
    Uuids,          \* idempotency keys of payments
    NoSupplier, NoCarrier,
    MaxPurchases,   \* bound: purchases
    Amounts,        \* totals and payments that requests name
    Freights,       \* transport costs that requests name
    Lots,           \* unit_qty that requests name
    Money,          \* opening balance of every account
    Strict,         \* strict_inventory_control
    MaxEdits,       \* bound: edits
    MaxSold         \* bound: units sold

Purchases == 1..MaxPurchases
NoPurchase == 0

ASSUME PurchasesAssumption ==
    /\ MaxPurchases \in Nat /\ MaxEdits \in Nat /\ MaxSold \in Nat
    /\ Money \in Nat
    /\ Amounts \subseteq Nat \ {0} /\ Freights \subseteq Nat /\ Lots \subseteq Nat
    /\ NoSupplier \notin Suppliers /\ NoCarrier \notin Carriers
    /\ Strict \in BOOLEAN
    /\ IsFiniteSet(Uuids) /\ IsFiniteSet(Accounts)

VARIABLES
    purchase,      \* rows of purchases, with the units of their lines
    credit,        \* purchase_credits, by purchase
    freight,       \* carrier_credits, by purchase
    payment,       \* purchase_payments, by uuid
    freightPaid,   \* sum of carrier_payments, by purchase
    debt,          \* suppliers.accumulated_debt
    balance,       \* balances of the accounts
    stock,         \* stock of the product
    sold,          \* units sold so far
    request,       \* what each clerk looked at and has not applied yet
    edits,         \* edits so far
    raced          \* a reception was applied to a purchase that was not
                   \* pending any more (history)

purchaseVars == <<purchase, credit, freight, payment, freightPaid, debt, balance,
                  stock, sold, request, edits, raced>>

Purchase == [status : {"none", "pending", "received"}, deleted : BOOLEAN,
             supplier : Suppliers \cup {NoSupplier},
             carrier : Carriers \cup {NoCarrier},
             total : Nat, transport : Nat, units : Nat]

Credit == [total : Nat, paid : Nat, balance : Nat,
           status : {"none", "PENDING", "PARTIAL", "PAID"}]

NoCredit == [total |-> 0, paid |-> 0, balance |-> 0, status |-> "none"]

NewCredit(total) ==
    [total |-> total, paid |-> 0, balance |-> total, status |-> "PENDING"]

Exists(c) == c.status # "none"

NoPayment == [purchase |-> NoPurchase, amount |-> 0]

Idle == [kind |-> "idle", purchase |-> NoPurchase]
Requests ==
    {Idle} \cup [kind : {"receive"}, purchase : Purchases]
           \cup [kind : {"pay"}, purchase : Purchases, uuid : Uuids,
                 amount : Amounts, account : Accounts]

\* The parts of a credit add up, and its status tells how much is paid.  The
\* status is a CHECK of purchase_credits alone: that of carrier_credits, whose
\* CHECKs are about amounts, is what the operations keep.  A carrier credit may
\* end at zero, a purchase credit may not.
AddsUp(c) ==
    /\ c.paid + c.balance = c.total
    /\ c.status = "PENDING" => c.paid = 0
    /\ c.status = "PARTIAL" => c.paid > 0 /\ c.balance > 0
    /\ c.status = "PAID" => c.balance = 0

\* Types, with the CHECKs of purchase_credits, carrier_credits, suppliers and
\* the accounts, which no operation is ever refused by, and the status of the
\* carrier credits, which has none.
PurchasesTypeOK ==
    /\ purchase \in [Purchases -> Purchase]
    /\ credit \in [Purchases -> Credit]
    /\ \A p \in Purchases : AddsUp(credit[p]) /\ (Exists(credit[p]) => credit[p].total > 0)
    /\ freight \in [Purchases -> Credit] /\ \A p \in Purchases : AddsUp(freight[p])
    /\ payment \in [Uuids -> {NoPayment} \cup [purchase : Purchases, amount : Amounts]]
    /\ freightPaid \in [Purchases -> Nat]
    /\ debt \in [Suppliers -> Nat]
    /\ balance \in [Accounts -> Nat]
    /\ stock \in Int /\ sold \in Nat /\ edits \in Nat
    /\ request \in [Clerks -> Requests]
    /\ raced \in BOOLEAN

NoRow == [status |-> "none", deleted |-> FALSE, supplier |-> NoSupplier,
          carrier |-> NoCarrier, total |-> 0, transport |-> 0, units |-> 0]

PurchasesInit ==
    /\ purchase = [p \in Purchases |-> NoRow]
    /\ credit = [p \in Purchases |-> NoCredit]
    /\ freight = [p \in Purchases |-> NoCredit]
    /\ payment = [u \in Uuids |-> NoPayment]
    /\ freightPaid = [p \in Purchases |-> 0]
    /\ debt = [s \in Suppliers |-> 0]
    /\ balance = [a \in Accounts |-> Money]
    /\ stock = 0 /\ sold = 0 /\ edits = 0
    /\ request = [c \in Clerks |-> Idle]
    /\ raced = FALSE

-----------------------------------------------------------------------------
\* Helpers

Active(p) == purchase[p].status # "none" /\ ~purchase[p].deleted

\* Sum of the payment rows of a purchase.
Rows(p) ==
    Total([u \in Uuids |-> IF payment[u].purchase = p THEN payment[u].amount ELSE 0], Uuids)

CreditStatus(paid, left) ==
    IF left <= 0 THEN "PAID" ELSE IF paid > 0 THEN "PARTIAL" ELSE "PENDING"

\* Mutant: what was overpaid stays in the credit.
KeepsExcess(c, total) ==
    [c EXCEPT !.total = total, !.balance = IF total < c.paid THEN 0 ELSE total - c.paid,
              !.status = CreditStatus(c.paid, total - c.paid)]

\* reconcileCredit, and case 5 of reconcileCarrierCredit: the credit after
\* its total changes.
Reconciled(c, total) ==
    IF total < c.paid
    THEN [total |-> total, paid |-> total, balance |-> 0, status |-> "PAID"]
    ELSE [total |-> total, paid |-> c.paid, balance |-> total - c.paid,
          status |-> CreditStatus(c.paid, total - c.paid)]

\* Mutant: the debt follows the total, whatever was overpaid.
DebtFollowsTotal(c, total) == total - c.total

\* What the debt of the supplier moves by: the difference of what is left.
DebtChange(c, total) == Reconciled(c, total).balance - c.balance

\* What is paid above the new total and has to be refunded.
Excess(c, total) == IF total < c.paid THEN c.paid - total ELSE 0

Paid(c, amount) ==
    [c EXCEPT !.paid = @ + amount, !.balance = @ - amount,
              !.status = CreditStatus(c.paid + amount, c.balance - amount)]

\* A freight names its carrier, and a carrier may come without freight.
FreightAllowed(f, k) == f > 0 => k # NoCarrier

\* DEDUCT and RETURN of adjustInventory: only the strict mode refuses to
\* leave the stock negative, and an override lets it.
Adjusted(units, override) ==
    /\ units < 0 /\ Strict /\ ~override => stock + units >= 0
    /\ stock' = stock + units

-----------------------------------------------------------------------------
\* Create: the purchase, its credit, the debt and the freight at once.

Create(p, s, total, f, k, units) ==
    /\ purchase[p] = NoRow
    /\ \A q \in Purchases : q < p => purchase[q] # NoRow
    /\ FreightAllowed(f, k)
    /\ purchase' = [purchase EXCEPT ![p] =
            [status |-> "pending", deleted |-> FALSE, supplier |-> s, carrier |-> k,
             total |-> total, transport |-> f, units |-> units]]
    /\ credit' = [credit EXCEPT ![p] = NewCredit(total)]
    /\ debt' = [debt EXCEPT ![s] = @ + total]
    /\ freight' = [freight EXCEPT ![p] = IF f > 0 THEN NewCredit(f) ELSE NoCredit]
    /\ UNCHANGED <<payment, freightPaid, balance, stock, sold, request, edits, raced>>

-----------------------------------------------------------------------------
\* Receive: the status is read without a lock; the row is then updated by id
\* alone, and the units of the lines, read afterwards, enter the stock.

BeginReceive(c, p) ==
    /\ request[c] = Idle
    /\ Active(p) /\ purchase[p].status = "pending"
    /\ request' = [request EXCEPT ![c] = [kind |-> "receive", purchase |-> p]]
    /\ UNCHANGED <<purchase, credit, freight, payment, freightPaid, debt, balance,
                   stock, sold, edits, raced>>

Receive(c) ==
    LET p == request[c].purchase IN
    /\ request[c].kind = "receive"
    /\ purchase' = [purchase EXCEPT ![p].status = "received"]
    /\ stock' = stock + purchase[p].units
    /\ raced' = (raced \/ purchase[p].status # "pending" \/ purchase[p].deleted)
    /\ request' = [request EXCEPT ![c] = Idle]
    /\ UNCHANGED <<credit, freight, payment, freightPaid, debt, balance, sold, edits>>

\* Units leave the stock by a sale.
Sell ==
    /\ sold < MaxSold
    /\ Adjusted(-1, FALSE)
    /\ sold' = sold + 1
    /\ UNCHANGED <<purchase, credit, freight, payment, freightPaid, debt, balance,
                   request, edits, raced>>

-----------------------------------------------------------------------------
\* Payments to the supplier

Used(u) == payment[u] # NoPayment

Due(items, p) ==
    Total([i \in items |-> IF i.purchase = p THEN i.amount ELSE 0], items)

Spent(items, a) ==
    Total([i \in items |-> IF i.account = a THEN i.amount ELSE 0], items)

\* Mutant: nothing but the first look tells that a uuid is used.
UnusedWhenAsked(items) == TRUE

\* The unique index of the table.
Unused(items) == \A i \in items : ~Used(i.uuid)

CreditTakes(items) ==
    \A p \in Purchases : Due(items, p) <= credit[p].balance

\* applyPurchasePayment from the lock of the credit on, for each item in turn:
\* the balance of the credit, the account, the row with its uuid, the debt.
ApplyPayments(items) ==
    /\ Unused(items)
    /\ CreditTakes(items)
    /\ \A a \in Accounts : Spent(items, a) <= balance[a]
    /\ payment' = [u \in Uuids |->
            IF \E i \in items : i.uuid = u
            THEN LET i == CHOOSE j \in items : j.uuid = u
                 IN [purchase |-> i.purchase, amount |-> i.amount]
            ELSE payment[u]]
    /\ balance' = [a \in Accounts |-> balance[a] - Spent(items, a)]
    /\ credit' = [p \in Purchases |->
            IF Due(items, p) > 0 THEN Paid(credit[p], Due(items, p)) ELSE credit[p]]
    /\ debt' = [s \in Suppliers |->
            debt[s] - Total([p \in Purchases |->
                IF purchase[p].supplier = s THEN Due(items, p) ELSE 0], Purchases)]
    /\ UNCHANGED <<purchase, freight, freightPaid, stock, sold, edits, raced>>

\* The purchase is active and the uuid unknown when the request looks.
BeginPay(c, p, u, amount, a) ==
    /\ request[c] = Idle
    /\ Active(p) /\ ~Used(u)
    /\ request' = [request EXCEPT ![c] =
            [kind |-> "pay", purchase |-> p, uuid |-> u, amount |-> amount, account |-> a]]
    /\ UNCHANGED <<purchase, credit, freight, payment, freightPaid, debt, balance,
                   stock, sold, edits, raced>>

Pay(c) ==
    /\ request[c].kind = "pay"
    /\ ApplyPayments({request[c]})
    /\ request' = [request EXCEPT ![c] = Idle]

\* What a request looked at is not true any more, or it is refused.
GiveUp(c) ==
    /\ request[c].kind = "pay"
    /\ request' = [request EXCEPT ![c] = Idle]
    /\ UNCHANGED <<purchase, credit, freight, payment, freightPaid, debt, balance,
                   stock, sold, edits, raced>>

\* One or two payments in one transaction, all or nothing; one whose uuid was used
\* for the same purchase is answered and not applied again.  What is checked
\* before the transaction may be stale and is checked again inside it.
PayInBulk(batch) ==
    /\ \A i \in batch : Active(i.purchase)
                        /\ (Used(i.uuid) => payment[i.uuid].purchase = i.purchase)
    /\ ApplyPayments({i \in batch : ~Used(i.uuid)})
    /\ UNCHANGED request

-----------------------------------------------------------------------------
\* Payments to the carrier lock the carrier credit; they carry no key.

PayCarrier(p, amount, a) ==
    /\ Exists(freight[p]) /\ amount <= freight[p].balance
    /\ amount <= balance[a]
    /\ balance' = [balance EXCEPT ![a] = @ - amount]
    /\ freightPaid' = [freightPaid EXCEPT ![p] = @ + amount]
    /\ freight' = [freight EXCEPT ![p] = Paid(@, amount)]
    /\ UNCHANGED <<purchase, credit, payment, debt, stock, sold, request, edits, raced>>

-----------------------------------------------------------------------------
\* Edits

\* Mutant: an edit without freight leaves the credit as it was.
FreightStays(p, f, k) ==
    IF f <= 0 THEN freight[p]
    ELSE IF Exists(freight[p]) THEN Reconciled(freight[p], f) ELSE NewCredit(f)

\* reconcileCarrierCredit: the carrier credit after the edit.
FreightAfter(p, f, k) ==
    CASE f <= 0 -> NoCredit
      [] f > 0 /\ Exists(freight[p]) /\ purchase[p].carrier = k -> Reconciled(freight[p], f)
      [] OTHER -> NewCredit(f)

\* Cases 3 and 4 delete the credit, and carrier_payments restricts that.
FreightReplaced(p, f, k) ==
    Exists(freight[p]) /\ (f <= 0 \/ purchase[p].carrier # k)

FreightRefund(p, f, k) ==
    IF FreightReplaced(p, f, k) THEN freight[p].paid
    ELSE IF Exists(freight[p]) THEN Excess(freight[p], f) ELSE 0

Refunded(a, x, b, y) ==
    [d \in Accounts |-> balance[d] + (IF d = a THEN x ELSE 0) + (IF d = b THEN y ELSE 0)]

\* Mutant: the new units enter whole.
UnitsAgain(p, units) == units

\* applyInventoryDelta: what the purchase brings now less what it brought.
UnitsChange(p, units) == units - purchase[p].units

\* The branch of a request without lines: carrier and freight alone.
EditTransport(p, f, k, b) ==
    /\ edits < MaxEdits /\ edits' = edits + 1
    /\ Active(p) /\ FreightAllowed(f, k)
    /\ FreightReplaced(p, f, k) => freightPaid[p] = 0
    /\ purchase' = [purchase EXCEPT ![p].carrier = k, ![p].transport = f]
    /\ freight' = [freight EXCEPT ![p] = FreightAfter(p, f, k)]
    /\ balance' = Refunded(b, FreightRefund(p, f, k), b, 0)
    /\ UNCHANGED <<credit, payment, freightPaid, debt, stock, sold, request, raced>>

\* The whole edit.  The inventory is adjusted by the difference, and never
\* with an override.
Edit(p, total, units, f, k, a, b) ==
    /\ edits < MaxEdits /\ edits' = edits + 1
    /\ Active(p) /\ FreightAllowed(f, k)
    /\ FreightReplaced(p, f, k) => freightPaid[p] = 0
    /\ IF purchase[p].status = "received"
       THEN Adjusted(UnitsChange(p, units), FALSE)
       ELSE UNCHANGED stock
    /\ purchase' = [purchase EXCEPT ![p].carrier = k, ![p].transport = f,
                                    ![p].total = total, ![p].units = units]
    /\ credit' = [credit EXCEPT ![p] = Reconciled(@, total)]
    /\ debt' = [debt EXCEPT ![purchase[p].supplier] =
                    @ + DebtChange(credit[p], total)]
    /\ freight' = [freight EXCEPT ![p] = FreightAfter(p, f, k)]
    /\ balance' = Refunded(a, Excess(credit[p], total), b, FreightRefund(p, f, k))
    /\ UNCHANGED <<payment, freightPaid, sold, request, raced>>

-----------------------------------------------------------------------------
\* Archive: the goods go back, every payment row is refunded in full, the
\* debt left is forgiven and the credits are closed at what was paid.

\* Mutant: a credit without payments stays open.
SettledIfPaid(c) ==
    IF c.paid > 0 THEN [c EXCEPT !.total = c.paid, !.balance = 0, !.status = "PAID"] ELSE c

\* The carrier credit is kept, at zero if nothing was paid.
Settled(c) ==
    IF Exists(c) THEN [c EXCEPT !.total = c.paid, !.balance = 0, !.status = "PAID"] ELSE c

Archive(p, a, override) ==
    /\ Active(p)
    /\ IF purchase[p].status = "received"
       THEN Adjusted(-purchase[p].units, override)
       ELSE UNCHANGED stock
    /\ balance' = [balance EXCEPT ![a] = @ + Rows(p) + freightPaid[p]]
    /\ debt' = [debt EXCEPT ![purchase[p].supplier] = @ - credit[p].balance]
    /\ credit' = [credit EXCEPT ![p] = IF @.paid > 0 THEN Settled(@) ELSE NoCredit]
    /\ freight' = [freight EXCEPT ![p] = Settled(@)]
    /\ purchase' = [purchase EXCEPT ![p].deleted = TRUE]
    /\ UNCHANGED <<payment, freightPaid, sold, request, edits, raced>>

-----------------------------------------------------------------------------
Items == [uuid : Uuids, purchase : Purchases, amount : Amounts, account : Accounts]

\* A batch that repeats a uuid is refused.
Batches == {batch \in {{i, j} : i, j \in Items} :
               \A i, j \in batch : i.uuid = j.uuid => i = j}

\* The two fields of the freight part of a request.
Haulage == {h \in Freights \X (Carriers \cup {NoCarrier}) : FreightAllowed(h[1], h[2])}

PurchasesNext ==
    \/ \E p \in Purchases, s \in Suppliers, total \in Amounts, h \in Haulage, n \in Lots :
          Create(p, s, total, h[1], h[2], n)
    \/ \E c \in Clerks, p \in Purchases : BeginReceive(c, p)
    \/ \E c \in Clerks : Receive(c)
    \/ Sell
    \/ \E c \in Clerks, i \in Items : BeginPay(c, i.purchase, i.uuid, i.amount, i.account)
    \/ \E c \in Clerks : Pay(c)
    \/ \E c \in Clerks : GiveUp(c)
    \/ \E batch \in Batches : PayInBulk(batch)
    \/ \E p \in Purchases, amount \in Amounts, a \in Accounts : PayCarrier(p, amount, a)
    \/ \E p \in Purchases, h \in Haulage, b \in Accounts : EditTransport(p, h[1], h[2], b)
    \/ \E p \in Purchases, total \in Amounts, n \in Lots, h \in Haulage, a, b \in Accounts :
          Edit(p, total, n, h[1], h[2], a, b)
    \/ \E p \in Purchases, a \in Accounts, override \in BOOLEAN : Archive(p, a, override)

PurchasesSpec == PurchasesInit /\ [][PurchasesNext]_purchaseVars

-----------------------------------------------------------------------------
(* Properties                                                              *)

\* The debt of a supplier is what the credits of its purchases have left,
\* whatever was paid, edited and archived, in any order: accumulated_debt is
\* moved by differences in five places and never recomputed.
DebtIsCredits ==
    \A s \in Suppliers :
        debt[s] = Total([p \in Purchases |->
            IF purchase[p].supplier = s THEN credit[p].balance ELSE 0], Purchases)

\* What a live purchase is charged is what it says: its credit has its total,
\* and there is a carrier credit, of its freight, exactly when it has one.
CreditsFollowPurchase ==
    \A p \in Purchases : Active(p) =>
        /\ credit[p].total = purchase[p].total
        /\ freight[p].total = purchase[p].transport
        /\ Exists(freight[p]) <=> purchase[p].transport > 0

\* Money out is what live purchases have paid: an archived one gives back its
\* payment rows, which are more than its credit has paid if an edit refunded
\* a part before.
MoneyIsPaid ==
    Total(balance, Accounts)
        + Total([p \in Purchases |-> credit[p].paid + freight[p].paid], Purchases)
    = Money * Cardinality(Accounts)
        + Total([p \in Purchases |->
              IF purchase[p].deleted THEN Rows(p) + freightPaid[p] ELSE 0], Purchases)

\* A credit never has more paid than its payment rows add up to: a request
\* repeated or crossed with its twin is not counted twice.
PaidHasRows ==
    \A p \in Purchases : credit[p].paid <= Rows(p) /\ freight[p].paid <= freightPaid[p]

\* As long as no reception was applied to a purchase that was received or
\* archived meanwhile, the stock is what live purchases brought less what was
\* sold.
StockIsReceived ==
    ~raced => stock + sold =
        Total([p \in Purchases |->
            IF Active(p) /\ purchase[p].status = "received" THEN purchase[p].units ELSE 0],
            Purchases)

\* An archived purchase takes no more payments, although nobody looks at
\* is_deleted under a lock: a payment that looked before finds a credit with
\* nothing left.
ArchivedTakesNothing ==
    [][\A p \in Purchases : purchase[p].deleted =>
            UNCHANGED <<credit[p], freight[p], freightPaid[p]>> /\ Rows(p)' = Rows(p)]_purchaseVars
=============================================================================
