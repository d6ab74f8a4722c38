----------------------------- MODULE SaleLedger -----------------------------
(***************************************************************************)
(* The money and goods of a sale, from the order to the annulment.         *)
(*                                                                         *)
(* One action per operation of the API that changes a sale: POST /sales,   *)
(* POST /payments, POST /sales/:id/loan, /convert-to-sale, /collect and    *)
(* /void, PUT /sales/:id, POST /credits/payment and                        *)
(* DELETE /sales/:id/payments/:id.  Each runs in one PostgreSQL            *)
(* transaction that locks the sale (or its credit) FOR UPDATE, all but the *)
(* first SERIALIZABLE, so one action is one committed transaction; a       *)
(* request that is refused changes nothing and is not a step.              *)
(*                                                                         *)
(* Data kept abstract: a sale is a number of units, one unit of goods has  *)
(* price 1, so the value of a sale and the goods it takes from stock are   *)
(* the same number.  Amounts are whole units, far above the 0.01 tolerance *)
(* of the amount checks.  Roles, folios, tables, points, margins and the   *)
(* text of logs are left out; stock is the net quantity each sale took     *)
(* (the strict-stock refusal is one more refused request).                 *)
(***************************************************************************)
EXTENDS Totals, Sequences

CONSTANTS
    Sales,           \* identities of sale_invoices rows
    Customers,       \* customers of the business
    Actors,          \* users; the register of a user is named by the user
    Banks,           \* bank accounts
    Wallets,         \* wallets: paid into by an inline payment or a debit note
    NoCustomer,      \* customer_id IS NULL
    NoAccount,       \* account_id = 0, and an absent correction source
    MaxUnits,        \* bound: units of a sale as placed
    MaxDebits,       \* bound: units the debit notes of a sale add
    MaxTender,       \* bound: amount handed over in one tender or payment
    MaxPayments,     \* bound: rows of sale_payments
    Opening,         \* opening balance of every register and bank
    OpeningAdvance,  \* opening customers.advance_balance
    Requests         \* the optional request shapes clients use, see RequestKinds

\* Request shapes the API accepts and an installation may or may not send.
\*   inline         POST /sales carrying payments
\*   change         POST /sales/:id/collect, or a payment of POST /sales, with
\*                  change_amount > 0
\*   collectEdited  the same on a sale that has credit or debit notes
\*   refund         PUT /sales/:id with credit_correction_source
\*   reassign       PUT /sales/:id with another customer_id, or null
\*   loanEdit       PUT /sales/:id on a LOAN
\*   lateInstalment POST /credits/payment on an annulled sale
RequestKinds == {"inline", "change", "collectEdited", "refund", "reassign",
                 "loanEdit", "lateInstalment"}

Accounts == Actors \cup Banks \cup Wallets
Methods == {"CASH", "TRANSFER", "ADVANCE"}
Events == {"CREATED", "COLLECTED", "CREDIT_OPENED", "INSTALLMENT", "PAID",
           "VOIDED", "LOANED"}

ASSUME LedgerAssumption ==
    /\ MaxUnits \in Nat /\ MaxDebits \in Nat /\ MaxTender \in Nat
    /\ MaxPayments \in Nat
    /\ Opening \in Nat /\ OpeningAdvance \in Nat
    /\ NoCustomer \notin Customers
    /\ NoAccount \notin Accounts \cup Customers
    /\ Actors \cap (Banks \cup Wallets) = {} /\ Banks \cap Wallets = {}
    /\ Accounts \cap Customers = {}
    /\ IsFiniteSet(Sales) /\ IsFiniteSet(Customers) /\ IsFiniteSet(Accounts)
    /\ Requests \subseteq RequestKinds

VARIABLES
    invoice,   \* sale_invoices: ticket_type, is_deleted, customer_id, total
    notes,     \* credit_notes: value of the NCs and of the NDs of each sale
    credit,    \* sale_credits, one row at most per sale
    payments,  \* sale_payments, in id order
    balance,   \* balance of cash_registers, banks and wallets
    advance,   \* customers.advance_balance
    shipped,   \* inventory_movements: units deducted minus returned, by sale
    received,  \* money rows (cash logs, movements, advances) net, by sale
    timeline   \* sale_status_history: the events recorded for each sale

vars == <<invoice, notes, credit, payments, balance, advance, shipped,
          received, timeline>>

-----------------------------------------------------------------------------
\* Rows

Absent == [ticket |-> "NONE", deleted |-> FALSE, customer |-> NoCustomer,
           total |-> 0]
NoNotes == [nc |-> 0, nd |-> 0, fullVoid |-> FALSE]
NoCredit == [total |-> 0, paid |-> 0, balance |-> 0, status |-> "NONE",
             debtor |-> NoCustomer]

Clients == Customers \cup {NoCustomer}

InvoiceRows == [ticket : {"NONE", "ORDER", "SALE", "LOAN"}, deleted : BOOLEAN,
                customer : Clients, total : 0..MaxUnits]
NoteRows == [nc : Nat, nd : Nat, fullVoid : BOOLEAN]
CreditRows == [total : Int, paid : Int, balance : Int,
               status : {"NONE", "PENDING", "PARTIALLY_PAID", "PAID"},
               debtor : Clients]

\* Payment rows name the account they entered: the register or bank, or the
\* customer whose advance was consumed.
PaymentRows ==
    {row \in [sale : Sales, method : Methods, gross : Nat, change : Nat,
              account : Accounts \cup Customers \cup {NoAccount},
              voided : BOOLEAN] : row.change <= row.gross}

Net(row) == row.gross - row.change

\* Mutant: the is_voided filter is forgotten.
NetEvenIfVoided(row, s, M) ==
    IF row.sale = s /\ row.method \in M THEN Net(row) ELSE 0

\* What a payment row counts for sale s when only the methods in M do.
LiveNetOf(row, s, M) ==
    IF row.sale = s /\ row.method \in M /\ ~row.voided THEN Net(row) ELSE 0

\* sumLivePayments: SUM(amount - change_amount) over the rows of sale s that
\* are not voided, restricted to the methods in M.
LiveNet(rows, s, M) ==
    LET sum[n \in 0..Len(rows)] ==
            IF n = 0 THEN 0 ELSE sum[n-1] + LiveNetOf(rows[n], s, M)
    IN  sum[Len(rows)]

LivePaid(rows, s) == LiveNet(rows, s, Methods)

\* findSaleInCompany and loadSaleForSettlement: the row, locked, not deleted.
Live(s, tickets) == invoice[s].ticket \in tickets /\ ~invoice[s].deleted

\* Mutant: the funds of an account are not looked at.
CoversAnything(x, amount) == x \in Accounts

\* An account is debited only when its locked balance covers the amount.
Covers(x, amount) == balance[x] >= amount

HasTransfer(s) == \E p \in DOMAIN payments :
    payments[p].sale = s /\ payments[p].method = "TRANSFER" /\ ~payments[p].voided

\* getConsolidatedInvoice: the original lines, minus the NCs, plus the NDs.
ConsolidatedOf(inv, nts, s) == inv[s].total - nts[s].nc + nts[s].nd
Consolidated(s) == ConsolidatedOf(invoice, notes, s)

AtMost(x, y) == IF x <= y THEN x ELSE y
Positive(x) == IF x >= 0 THEN x ELSE 0

CreditRow(total, paid, debtor) ==
    [total |-> total, paid |-> paid, balance |-> total - paid,
     status |-> IF total - paid <= 0 THEN "PAID"
                ELSE IF paid <= 0 THEN "PENDING" ELSE "PARTIALLY_PAID",
     debtor |-> debtor]

HasCredit(s) == credit[s] # NoCredit

\* Mutant: paid_amount is not clamped to the total.
ResettledUnclamped(s, rows) ==
    IF HasCredit(s) /\ Consolidated(s) > 0
    THEN CreditRow(Consolidated(s), Positive(LivePaid(rows, s)), credit[s].debtor)
    ELSE credit[s]

\* Mutant: settled against sale.total, as the code once did.
ResettledToOriginal(s, rows) ==
    IF HasCredit(s) /\ Consolidated(s) > 0
    THEN CreditRow(invoice[s].total,
                   AtMost(Positive(LivePaid(rows, s)), invoice[s].total),
                   credit[s].debtor)
    ELSE credit[s]

\* The SaleCredit row re-derived from the live payments and the consolidated
\* total; a sale without a credit never gets one.
Resettled(s, rows) ==
    IF HasCredit(s) /\ Consolidated(s) > 0
    THEN CreditRow(Consolidated(s),
                   AtMost(Positive(LivePaid(rows, s)), Consolidated(s)),
                   credit[s].debtor)
    ELSE credit[s]

Record(s, events) == timeline' = [timeline EXCEPT ![s] = @ \cup events]

-----------------------------------------------------------------------------
\* Tenders: at most one per method in a request; 0 means there is none.

Tenders == [cash : 0..MaxTender, change : 0..MaxTender,
            transfer : 0..MaxTender, bank : Banks, advance : 0..MaxTender]

TenderNet(t) == t.cash - t.change + t.transfer + t.advance

WellFormed(t) ==
    /\ t.change <= t.cash
    /\ t.cash + t.transfer + t.advance > 0

Row(s, method, gross, change, account) ==
    [sale |-> s, method |-> method, gross |-> gross, change |-> change,
     account |-> account, voided |-> FALSE]

Rows(s, a, c, t) ==
    (IF t.cash > 0 THEN <<Row(s, "CASH", t.cash, t.change, a)>> ELSE <<>>)
    \o (IF t.transfer > 0 THEN <<Row(s, "TRANSFER", t.transfer, 0, t.bank)>> ELSE <<>>)
    \o (IF t.advance > 0 THEN <<Row(s, "ADVANCE", t.advance, 0, c)>> ELSE <<>>)

\* A payment POST /sales carries: a register, a bank or a wallet and what is
\* handed over; gross 0 means there is none.
InlinePayments ==
    {p \in [account : Accounts, gross : 0..MaxTender, change : 0..MaxTender] :
        p.change <= p.gross}

\* applySalePayment calls whatever does not enter a bank CASH.
InlineRow(s, p) ==
    Row(s, IF p.account \in Banks THEN "TRANSFER" ELSE "CASH", p.gross, p.change,
        p.account)

InlineRows(s, p) == IF p.gross > 0 THEN <<InlineRow(s, p)>> ELSE <<>>

Insert(rows) ==
    /\ Len(payments) + Len(rows) <= MaxPayments
    /\ payments' = payments \o rows

Credited(x, amount) == [balance EXCEPT ![x] = @ + amount]

\* Mutant: the movement of the bank is recorded, its balance left.
CreditedRegister(a, cash, b, transfer) == [balance EXCEPT ![a] = @ + cash]

CreditedBoth(a, cash, b, transfer) ==
    [balance EXCEPT ![a] = @ + cash, ![b] = @ + transfer]

-----------------------------------------------------------------------------
\* POST /sales: always an ORDER, no stock and, unless the request carries a
\* payment, no money.
CreateSale(s, c, n) ==
    /\ invoice[s] = Absent
    /\ invoice' = [invoice EXCEPT ![s] = [ticket |-> "ORDER", deleted |-> FALSE,
                                          customer |-> c, total |-> n]]
    /\ Record(s, {"CREATED"})
    /\ UNCHANGED <<notes, credit, payments, balance, advance, shipped, received>>

\* POST /sales with payments p and q (bound: at most two; none is q.gross = 0).
\* Each puts its gross amount in its account and writes its change in the row
\* only; what the gross amounts leave is a SaleCredit, which needs a customer.
CreatePaidSale(s, a, c, n, p, q) ==
    LET g     == p.gross + q.gross
        first == Credited(p.account, p.gross)
    IN
    /\ "inline" \in Requests
    /\ p.change + q.change > 0 => "change" \in Requests
    /\ invoice[s] = Absent
    /\ {p.account, q.account} \subseteq {a} \cup Banks \cup Wallets
    /\ p.gross > 0
    /\ g <= n
    /\ g < n => c # NoCustomer
    /\ invoice' = [invoice EXCEPT ![s] = [ticket |-> "ORDER", deleted |-> FALSE,
                                          customer |-> c, total |-> n]]
    /\ Insert(InlineRows(s, p) \o InlineRows(s, q))
    /\ balance' = [first EXCEPT ![q.account] = @ + q.gross]
    /\ received' = [received EXCEPT ![s] = @ + g]
    /\ credit' = [credit EXCEPT ![s] = IF g < n THEN CreditRow(n, g, c) ELSE @]
    /\ Record(s, {"CREATED"} \cup IF g < n THEN {"CREDIT_OPENED"} ELSE {})
    /\ UNCHANGED <<notes, advance, shipped>>

\* Mutant: the goods of a loan are taken out of stock a second time.
DeductedAlways(s, from) == invoice[s].total

\* The stock a checkout deducts: a loan already took its goods.
Deducted(s, from) == IF from = "LOAN" THEN 0 ELSE invoice[s].total

\* POST /payments (from = ORDER) and POST /sales/:id/convert-to-sale (from =
\* LOAN): the tenders and the part left on credit, k, must add up to the
\* total.
ProcessPayment(s, a, t, k, from) ==
    LET c == invoice[s].customer IN
    /\ Live(s, {from})
    /\ t.change <= t.cash
    /\ TenderNet(t) + k = invoice[s].total
    /\ WellFormed(t) \/ k > 0
    /\ k > 0 => /\ c # NoCustomer
                /\ ~HasCredit(s)          \* UNIQUE (company_id, sale_invoice_id)
    /\ t.advance > 0 => /\ c # NoCustomer
                        /\ t.advance <= advance[c]
    /\ Insert(Rows(s, a, c, t))
    /\ invoice' = [invoice EXCEPT ![s].ticket = "SALE"]
    /\ balance' = CreditedBoth(a, t.cash - t.change, t.bank, t.transfer)
    /\ advance' = IF t.advance > 0 THEN [advance EXCEPT ![c] = @ - t.advance]
                  ELSE advance
    /\ received' = [received EXCEPT ![s] = @ + TenderNet(t)]
    /\ shipped' = [shipped EXCEPT ![s] = @ + Deducted(s, from)]
    /\ credit' = [credit EXCEPT ![s] = IF k > 0 THEN CreditRow(k, 0, c) ELSE @]
    /\ Record(s, {"COLLECTED"} \cup IF k > 0 THEN {"CREDIT_OPENED"} ELSE {})
    /\ UNCHANGED notes

\* POST /sales/:id/loan
ConvertOrderToLoan(s) ==
    /\ Live(s, {"ORDER"})
    /\ invoice[s].customer # NoCustomer
    /\ invoice' = [invoice EXCEPT ![s].ticket = "LOAN"]
    /\ shipped' = [shipped EXCEPT ![s] = @ + invoice[s].total]
    /\ Record(s, {"LOANED"})
    /\ UNCHANGED <<notes, credit, payments, balance, advance, received>>

-----------------------------------------------------------------------------
\* Mutant: what was already collected is forgotten.
OwedInFull(s) == invoice[s].total

\* What a collection may still take: read from sale.total, not consolidated.
Owed(s) == invoice[s].total - LivePaid(payments, s)

\* POST /sales/:id/collect: applySalePayment puts the gross amount of a cash
\* tender in the register.
CollectSaleBalance(s, a, t) ==
    LET rows == Rows(s, a, NoCustomer, t) IN
    /\ t.change > 0 => "change" \in Requests
    /\ notes[s] # NoNotes => "collectEdited" \in Requests
    /\ Live(s, {"SALE"})
    /\ t.advance = 0
    /\ WellFormed(t)
    /\ Owed(s) > 0
    /\ TenderNet(t) <= Owed(s)
    /\ Insert(rows)
    /\ balance' = CreditedBoth(a, t.cash, t.bank, t.transfer)
    /\ received' = [received EXCEPT ![s] = @ + t.cash + t.transfer]
    /\ credit' = [credit EXCEPT ![s] = Resettled(s, payments \o rows)]
    /\ Record(s, IF ~HasCredit(s) THEN {"COLLECTED"}
                 ELSE {"INSTALLMENT"} \cup
                      IF LivePaid(payments \o rows, s) >= Consolidated(s)
                      THEN {"PAID"} ELSE {})
    /\ UNCHANGED <<invoice, notes, advance, shipped>>

\* POST /credits/payment: looks at the credit only, never at the sale.
ProcessCreditPayment(s, a, x, m) ==
    LET row == CreditRow(credit[s].total, credit[s].paid + m, credit[s].debtor) IN
    /\ invoice[s].deleted => "lateInstalment" \in Requests
    /\ HasCredit(s)
    /\ credit[s].status # "PAID"
    /\ m \in 1..credit[s].balance
    /\ x \in {a} \cup Banks
    /\ Insert(<<Row(s, IF x \in Banks THEN "TRANSFER" ELSE "CASH", m, 0, x)>>)
    /\ balance' = Credited(x, m)
    /\ received' = [received EXCEPT ![s] = @ + m]
    /\ credit' = [credit EXCEPT ![s] = row]
    /\ Record(s, {"INSTALLMENT"} \cup IF row.status = "PAID" THEN {"PAID"} ELSE {})
    /\ UNCHANGED <<invoice, notes, advance, shipped>>

\* DELETE /sales/:id/payments/:id: the net goes back to the account the row
\* names; refused when the account has not enough or does not exist.
DeleteSalePayment(p) ==
    LET row == payments[p]
        rows == [payments EXCEPT ![p].voided = TRUE]
        x == row.account
        s == row.sale
    IN
    /\ ~row.voided
    /\ Live(s, {"ORDER", "LOAN", "SALE"})
    /\ Net(row) > 0 => x # NoAccount /\ (x \in Accounts => Covers(x, Net(row)))
    /\ payments' = rows
    /\ balance' = IF x \in Accounts THEN Credited(x, -Net(row)) ELSE balance
    /\ advance' = IF x \in Customers THEN [advance EXCEPT ![x] = @ + Net(row)]
                  ELSE advance
    /\ received' = [received EXCEPT ![s] = @ - Net(row)]
    /\ credit' = [credit EXCEPT ![s] = Resettled(s, rows)]
    /\ UNCHANGED <<invoice, notes, shipped, timeline>>


-----------------------------------------------------------------------------
\* PUT /sales/:id on an ORDER: lines, total and customer are replaced.
EditOrder(s, c, n) ==
    /\ Live(s, {"ORDER"})
    /\ invoice' = [invoice EXCEPT ![s].customer = c, ![s].total = n]
    /\ UNCHANGED <<notes, credit, payments, balance, advance, shipped, received,
                   timeline>>

\* computeCreditSaleRefund, and for a sale without credit the whole note.
RefundOf(s, r, d) ==
    LET newTotal == Positive(Consolidated(s) - r + d)
    IN  IF HasCredit(s)
        THEN AtMost(r, Positive(LivePaid(payments, s) - newTotal))
        ELSE r

\* PUT /sales/:id on a SALE or LOAN: r units leave (a credit note, refunded
\* from refundTo), d units join (a debit note, charged to chargeTo), and the
\* customer becomes c.  A register is always the actor's own and the payment
\* row of a debit note charged to it names account 0.
EditSale(s, a, r, d, c, refundTo, chargeTo) ==
    LET reassigned == c # invoice[s].customer
        emptied == d = 0 /\ r > 0 /\ r = Consolidated(s)
        refund  == IF refundTo = NoAccount THEN 0 ELSE RefundOf(s, r, d)
        charge  == IF HasCredit(s) THEN 0 ELSE d
        total   == Consolidated(s) - r + d
        isRegister == chargeTo = a
        afterNC == IF refund > 0 THEN Credited(refundTo, -refund) ELSE balance
    IN
    /\ invoice[s].ticket = "LOAN" => "loanEdit" \in Requests
    /\ reassigned => "reassign" \in Requests
    /\ refundTo # NoAccount => "refund" \in Requests
    /\ Live(s, {"SALE", "LOAN"})
    /\ ~notes[s].fullVoid
    /\ r <= Consolidated(s)
    /\ notes[s].nd + d <= MaxDebits
    /\ r + d > 0 \/ reassigned
    /\ reassigned => credit[s].paid <= 0             \* assertNoLockedCredit
    /\ refundTo \in {NoAccount, a} \cup Banks \cup Wallets
    /\ chargeTo \in {a} \cup Banks \cup Wallets
    /\ refund > 0 => Covers(refundTo, refund)
    /\ notes' = [notes EXCEPT ![s] = [nc |-> @.nc + r, nd |-> @.nd + d,
                                      fullVoid |-> emptied]]
    /\ invoice' = [invoice EXCEPT ![s].customer = c, ![s].deleted = emptied]
    /\ shipped' = [shipped EXCEPT ![s] = @ - r + d]
    /\ balance' = [afterNC EXCEPT ![chargeTo] = @ + charge]
    /\ received' = [received EXCEPT ![s] = @ - refund + charge]
    /\ IF charge > 0
       THEN Insert(<<Row(s, IF isRegister THEN "CASH" ELSE "TRANSFER", charge, 0,
                         IF isRegister THEN NoAccount ELSE chargeTo)>>)
       ELSE payments' = payments
    /\ credit' = IF HasCredit(s) /\ ~emptied /\ r + d > 0 /\ total > 0
                 THEN [credit EXCEPT ![s] =
                         CreditRow(total, AtMost(LivePaid(payments, s), total), @.debtor)]
                 ELSE credit
    /\ UNCHANGED <<advance, timeline>>

-----------------------------------------------------------------------------
\* POST /sales/:id/void.  An ORDER is only marked deleted.
VoidOrder(s) ==
    /\ Live(s, {"ORDER"})
    /\ invoice' = [invoice EXCEPT ![s].deleted = TRUE]
    /\ Record(s, {"VOIDED"})
    /\ UNCHANGED <<notes, credit, payments, balance, advance, shipped, received>>

\* A LOAN returns the goods of its original lines.
VoidLoan(s) ==
    /\ Live(s, {"LOAN"})
    /\ invoice' = [invoice EXCEPT ![s].deleted = TRUE]
    /\ shipped' = [shipped EXCEPT ![s] = @ - invoice[s].total]
    /\ Record(s, {"VOIDED"})
    /\ UNCHANGED <<notes, credit, payments, balance, advance, received>>

\* Mutant: the original lines, not the consolidated ones.
OriginalValue(s) == invoice[s].total

\* What the full credit note of an annulment credits and returns.
VoidedValue(s) == Consolidated(s)

\* A SALE gets a full credit note and returns the consolidated goods; live
\* cash leaves the register of the actor, live transfers the account src, and
\* advances go back to the customer the sale has now.  src is looked at only
\* when there is a transfer to refund.
VoidSale(s, a, src) ==
    LET cash     == LiveNet(payments, s, {"CASH"})
        transfer == LiveNet(payments, s, {"TRANSFER"})
        c        == invoice[s].customer
        restored == IF c = NoCustomer THEN 0 ELSE LiveNet(payments, s, {"ADVANCE"})
    IN
    /\ Live(s, {"SALE"})
    /\ ~notes[s].fullVoid
    /\ src \in Banks \cup Wallets \cup {NoAccount}
    /\ HasTransfer(s) <=> src # NoAccount
    /\ cash > 0 => Covers(a, cash)
    /\ HasTransfer(s) => Covers(src, transfer)
    /\ notes' = [notes EXCEPT ![s].nc = @ + VoidedValue(s), ![s].fullVoid = TRUE]
    /\ shipped' = [shipped EXCEPT ![s] = @ - VoidedValue(s)]
    /\ invoice' = [invoice EXCEPT ![s].deleted = TRUE]
    /\ balance' = IF HasTransfer(s) THEN CreditedBoth(a, -cash, src, -transfer)
                  ELSE Credited(a, -cash)
    /\ advance' = IF c = NoCustomer THEN advance
                  ELSE [advance EXCEPT ![c] = @ + restored]
    /\ received' = [received EXCEPT ![s] = @ - cash - transfer - restored]
    /\ Record(s, {"VOIDED"})
    /\ UNCHANGED <<credit, payments>>

-----------------------------------------------------------------------------
Init ==
    /\ invoice = [s \in Sales |-> Absent]
    /\ notes = [s \in Sales |-> NoNotes]
    /\ credit = [s \in Sales |-> NoCredit]
    /\ payments = <<>>
    /\ balance = [x \in Accounts |-> Opening]
    /\ advance = [c \in Customers |-> OpeningAdvance]
    /\ shipped = [s \in Sales |-> 0]
    /\ received = [s \in Sales |-> 0]
    /\ timeline = [s \in Sales |-> {}]

Sizes == 1..MaxUnits

Order(s) ==
    \/ \E c \in Clients, n \in Sizes : CreateSale(s, c, n)
    \/ /\ invoice[s] = Absent
       /\ \E a \in Actors, c \in Clients, n \in Sizes, p, q \in InlinePayments :
             CreatePaidSale(s, a, c, n, p, q)
    \/ \E c \in Clients, n \in Sizes : EditOrder(s, c, n)
    \/ ConvertOrderToLoan(s)

Collect(s) ==
    \E a \in Actors :
        \/ \E t \in Tenders, k \in 0..MaxUnits, from \in {"ORDER", "LOAN"} :
              ProcessPayment(s, a, t, k, from)
        \/ \E t \in Tenders : CollectSaleBalance(s, a, t)
        \/ \E x \in Accounts, m \in 1..MaxTender : ProcessCreditPayment(s, a, x, m)

Edit(s) ==
    \E a \in Actors, r \in 0..(MaxUnits + MaxDebits), d \in 0..MaxDebits, c \in Clients,
       refundTo \in Accounts \cup {NoAccount}, chargeTo \in Accounts :
        EditSale(s, a, r, d, c, refundTo, chargeTo)

Annul(s) ==
    \/ VoidOrder(s)
    \/ VoidLoan(s)
    \/ \E a \in Actors, src \in Banks \cup Wallets \cup {NoAccount} : VoidSale(s, a, src)

Next ==
    \/ \E s \in Sales : Order(s) \/ Collect(s) \/ Edit(s) \/ Annul(s)
    \/ \E p \in DOMAIN payments : DeleteSalePayment(p)

Spec == Init /\ [][Next]_vars

-----------------------------------------------------------------------------
\* Every variable keeps its type; no register, bank or advance is overdrawn.
TypeOK ==
    /\ invoice \in [Sales -> InvoiceRows]
    /\ notes \in [Sales -> NoteRows]
    /\ credit \in [Sales -> CreditRows]
    /\ payments \in Seq(PaymentRows)
    /\ balance \in [Accounts -> Nat]
    /\ advance \in [Customers -> Nat]
    /\ shipped \in [Sales -> Int]
    /\ received \in [Sales -> Int]
    /\ timeline \in [Sales -> SUBSET Events]

Annulled(s) == "VOIDED" \in timeline[s]
Standing(s) == invoice[s].ticket = "SALE" /\ ~invoice[s].deleted

\* No operation leaves a sale_credits row the CHECKs of its table would abort:
\* total > 0, total = paid + balance and the status the amounts imply.
CreditRowConsistent ==
    \A s \in Sales : HasCredit(s) =>
        LET row == credit[s] IN
        /\ row.total > 0 /\ row.paid >= 0 /\ row.balance >= 0
        /\ row.total = row.paid + row.balance
        /\ row.status = "PENDING" <=> row.paid = 0
        /\ row.status = "PAID" <=> row.balance = 0

\* The stock a sale holds out of the warehouse is its consolidated value while
\* it is a sale or a loan, and nothing before it and once it is deleted: the
\* DEDUCTs and RETURNs of checkout, loan, edits and annulment cancel out.
StockMatchesSales ==
    \A s \in Sales :
        shipped[s] = IF invoice[s].ticket \in {"SALE", "LOAN"} /\ ~invoice[s].deleted
                     THEN Consolidated(s) ELSE 0

\* The money rows of a sale add up to its live payments while it stands, and
\* to nothing once POST /void annulled it, unless a collection or an inline
\* payment gave change, which leaves the gross tender in the register.
MoneyMatchesPayments ==
    \A s \in Sales :
        /\ ~Annulled(s) => received[s] = LivePaid(payments, s)
        /\ Annulled(s) /\ invoice[s].ticket = "SALE" => received[s] = 0

\* Every peso that enters or leaves a register, a bank or an advance has its
\* cash log, movement or payment row, and the reverse: applyAccountBalanceDelta
\* exists because edits once recorded the movement and left the balance.
BalancesMatchMovements ==
    Sum([x \in Accounts |-> balance[x] - Opening], Accounts)
        + Sum([c \in Customers |-> OpeningAdvance - advance[c]], Customers)
    = Sum(received, Sales)

\* What a standing credit sale still owes by its credit row is its consolidated
\* value less its live payments: instalments, reversals and edits agree.
CreditMatchesDebt ==
    \A s \in Sales : Standing(s) /\ HasCredit(s) =>
        credit[s].balance = Positive(Consolidated(s) - LivePaid(payments, s))

\* No collection takes more than the sale is worth: when the live payments of
\* a standing sale grow and it is not being edited, they end within its value.
NoOverCollection ==
    [][\A s \in Sales :
          /\ Standing(s) /\ Standing(s)'
          /\ notes'[s] = notes[s]
          /\ LivePaid(payments', s) > LivePaid(payments, s)
          => LivePaid(payments', s) <= Consolidated(s)']_vars

\* The advance of a customer is spent by the live ADVANCE rows of the sales not
\* annulled, and by nothing else: voiding a sale or a payment restores it once.
AdvanceConserved ==
    \A c \in Customers :
        advance[c] + Total([p \in DOMAIN payments |->
                               IF /\ payments[p].account = c /\ ~payments[p].voided
                                  /\ ~Annulled(payments[p].sale)
                               THEN Net(payments[p]) ELSE 0], DOMAIN payments)
            = OpeningAdvance

\* Notes never take more out of a sale than it has, and an order has none:
\* with this the checks of each operation keep the other invariants.
NotesFitSale ==
    \A s \in Sales :
        /\ Consolidated(s) >= 0
        /\ invoice[s].ticket \in {"NONE", "ORDER"} => notes[s] = NoNotes

\* After a deletion, by annulment or by an edit that empties the sale, no step
\* touches the invoice, its notes or its goods again: goods return once.
AnnulledIsFinal ==
    [][\A s \in Sales : invoice[s].deleted =>
          /\ invoice'[s] = invoice[s]
          /\ notes'[s] = notes[s]
          /\ shipped'[s] = shipped[s]]_vars

\* A full-void note exists only on a deleted sale and leaves it worth nothing,
\* and a deleted SALE always has one: the two ways to void a sale agree.
FullVoidEmptiesSale ==
    \A s \in Sales :
        /\ notes[s].fullVoid => invoice[s].deleted /\ Consolidated(s) = 0
        /\ invoice[s].ticket = "SALE" /\ invoice[s].deleted => notes[s].fullVoid

-----------------------------------------------------------------------------
\* The promise of SaleContract, read off the tables.
phaseNames == [NONE |-> "none", ORDER |-> "order", LOAN |-> "loan", SALE |-> "sale"]
phaseOf == [s \in Sales |->
    IF invoice[s].deleted THEN "void" ELSE phaseNames[invoice[s].ticket]]
valueOf == [s \in Sales |-> IF invoice[s].deleted THEN 0 ELSE Consolidated(s)]
paidOf == [s \in Sales |-> IF Standing(s) THEN LivePaid(payments, s) ELSE 0]

Contract == INSTANCE SaleContract WITH
    Values <- 0..(MaxUnits + MaxDebits),
    phase <- phaseOf, value <- valueOf, goods <- shipped, paid <- paidOf

\* Every operation on a sale is a step the contract allows.
KeepsContract == Contract!CSpec
=============================================================================
