-------------------------- MODULE SaleLedgerProofs --------------------------
(***************************************************************************)
(* Theorems of SaleLedger, for every number of sales, customers, accounts  *)
(* and every set of request shapes.                                        *)
(***************************************************************************)
EXTENDS SaleLedgerClaims, WellFoundedInduction, TotalsTheorems, TLAPS

-----------------------------------------------------------------------------
\* Every set of naturals that is not empty has a least element: this is what
\* the sums over payment rows are reasoned about with.
LEMMA LeastNatural ==
    ASSUME NEW T, T \subseteq Nat, T # {}
    PROVE  \E x \in T : \A y \in T : x <= y
<1>1. \E x \in T : \A y \in T : ~ (<<y, x>> \in OpToRel(<, Nat))
    BY WFMin, NatLessThanWellFounded, Zenon
<1>2. PICK x \in T : \A y \in T : ~ (<<y, x>> \in OpToRel(<, Nat))
    BY <1>1
<1>3. \A y \in T : ~ (y < x)
    BY <1>2 DEF OpToRel
<1>4. QED
    BY <1>3

\* f is the running sum of the weights w, from 0 to len.
IsRunningSum(f, len, w) ==
    f = [n \in 0..len |-> IF n = 0 THEN 0 ELSE f[n-1] + w[n]]

\* A running sum of naturals over 1..len exists, is unique as a function and
\* is natural: what the recursive definition inside LiveNet denotes.
LEMMA RunningSum ==
    ASSUME NEW len \in Nat, NEW w, \A k \in 1..len : w[k] \in Nat
    PROVE  \E f \in [0..len -> Nat] : IsRunningSum(f, len, w)
<1> DEFINE Good(m) == \E f \in [0..m -> Nat] :
                f[0] = 0 /\ \A n \in 1..m : f[n] = f[n-1] + w[n]
           Bad == {m \in 0..len : ~Good(m)}
<1>1. ASSUME Bad # {} PROVE FALSE
    <2>0. Bad \subseteq Nat
        OBVIOUS
    <2> HIDE DEF Bad
    <2>1. PICK m \in Bad : \A y \in Bad : m <= y
        BY <1>1, <2>0, LeastNatural
    <2> USE DEF Bad
    <2> HIDE DEF Good
    <2>2. CASE m = 0
        <3>1. [n \in 0..0 |-> 0] \in [0..0 -> Nat]
            OBVIOUS
        <3>2. Good(0)
            <4> USE DEF Good
            <4> WITNESS [n \in 0..0 |-> 0] \in [0..0 -> Nat]
            <4> QED OBVIOUS
        <3>3. QED
            BY <2>1, <2>2, <3>2
    <2>3. CASE m # 0
        <3>1. m - 1 \in 0..len /\ m \in 1..len /\ m - 1 \notin Bad
            <4>1. m \in 0..len
                OBVIOUS
            <4>2. m - 1 \in 0..len /\ m \in 1..len /\ ~(m <= m - 1)
                BY <4>1, <2>3
            <4>3. QED
                BY <2>1, <4>2
        <3>2. Good(m - 1)
            BY <3>1
        <3>3. PICK f \in [0..(m-1) -> Nat] :
                    f[0] = 0 /\ \A n \in 1..(m-1) : f[n] = f[n-1] + w[n]
            BY <3>2 DEF Good
        <3> DEFINE g == [n \in 0..m |-> IF n = m THEN f[m-1] + w[m] ELSE f[n]]
        <3>4. g \in [0..m -> Nat]
            BY <3>1
        <3>5. g[0] = 0
            BY <3>1, <3>3
        <3>6. \A n \in 1..m : g[n] = g[n-1] + w[n]
            BY <3>1, <3>3
        <3>7. Good(m)
            BY <3>4, <3>5, <3>6 DEF Good
        <3>8. QED
            BY <2>1, <3>7
    <2>4. QED
        BY <2>2, <2>3
<1> HIDE DEF Good
<1>2. Good(len)
    BY <1>1
<1>3. PICK f \in [0..len -> Nat] :
            f[0] = 0 /\ \A n \in 1..len : f[n] = f[n-1] + w[n]
    BY <1>2 DEF Good
<1>4. IsRunningSum(f, len, w)
    BY <1>3 DEF IsRunningSum
<1>5. QED
    BY <1>4

\* Two functions that satisfy the same running-sum equation are one.
LEMMA RunningSumUnique ==
    ASSUME NEW len \in Nat, NEW w,
           NEW f, IsRunningSum(f, len, w),
           NEW g, IsRunningSum(g, len, w)
    PROVE  f = g
<1>0. /\ f = [n \in 0..len |-> IF n = 0 THEN 0 ELSE f[n-1] + w[n]]
      /\ g = [n \in 0..len |-> IF n = 0 THEN 0 ELSE g[n-1] + w[n]]
    BY DEF IsRunningSum
<1> DEFINE Bad == {m \in 0..len : f[m] # g[m]}
<1>1. Bad \subseteq Nat
    OBVIOUS
<1>2. ASSUME Bad # {} PROVE FALSE
    <2> HIDE DEF Bad
    <2>1. PICK m \in Bad : \A y \in Bad : m <= y
        BY <1>1, <1>2, LeastNatural
    <2> USE DEF Bad
    <2>2. m \in 0..len /\ f[m] # g[m]
        OBVIOUS
    <2>3. m # 0
        <3>1. f[0] = 0
            <4>1. 0 \in 0..len
                OBVIOUS
            <4>2. QED
                BY <1>0, <4>1, Zenon
        <3>2. g[0] = 0
            <4>1. 0 \in 0..len
                OBVIOUS
            <4>2. QED
                BY <1>0, <4>1, Zenon
        <3>3. QED
            BY <2>2, <3>1, <3>2
    <2>4. m - 1 \in 0..len /\ ~(m <= m - 1)
        BY <2>2, <2>3
    <2>5. f[m-1] = g[m-1]
        BY <2>1, <2>4
    <2>6. f[m] = f[m-1] + w[m] /\ g[m] = g[m-1] + w[m]
        BY <1>0, <2>2, <2>3
    <2>7. QED
        BY <2>2, <2>5, <2>6
<1>3. \A n \in 0..len : f[n] = g[n]
    BY <1>2
<1>4. QED
    <2>1. f = [n \in 0..len |-> f[n]] /\ g = [n \in 0..len |-> g[n]]
        BY <1>0
    <2>2. [n \in 0..len |-> f[n]] = [n \in 0..len |-> g[n]]
        BY <1>3
    <2>3. QED
        BY <2>1, <2>2, Zenon

LEMMA NetNat ==
    ASSUME NEW row \in PaymentRows, NEW s, NEW M
    PROVE  /\ Net(row) \in Nat
           /\ LiveNetOf(row, s, M) \in Nat
BY DEF PaymentRows, Net, LiveNetOf

\* LiveNet is the last value of a running sum of naturals.
LEMMA LiveNetSum ==
    ASSUME NEW rows \in Seq(PaymentRows), NEW s, NEW M
    PROVE  \E f \in [0..Len(rows) -> Nat] :
              /\ f = [n \in 0..Len(rows) |->
                        IF n = 0 THEN 0 ELSE f[n-1] + LiveNetOf(rows[n], s, M)]
              /\ LiveNet(rows, s, M) = f[Len(rows)]
<1> DEFINE w == [k \in 1..Len(rows) |-> LiveNetOf(rows[k], s, M)]
           Equation(f) == f = [n \in 0..Len(rows) |->
                        IF n = 0 THEN 0 ELSE f[n-1] + LiveNetOf(rows[n], s, M)]
           sum == CHOOSE f : Equation(f)
<1>0. Len(rows) \in Nat
    OBVIOUS
<1>1. \A k \in 1..Len(rows) : w[k] \in Nat
    BY NetNat
<1> HIDE DEF w
<1>2. PICK f \in [0..Len(rows) -> Nat] : IsRunningSum(f, Len(rows), w)
    BY <1>0, <1>1, RunningSum
<1>3. Equation(f)
    <2>1. \A n \in 1..Len(rows) : w[n] = LiveNetOf(rows[n], s, M)
        BY DEF w
    <2>2. \A n \in 0..Len(rows) :
            (IF n = 0 THEN 0 ELSE f[n-1] + w[n])
                = (IF n = 0 THEN 0 ELSE f[n-1] + LiveNetOf(rows[n], s, M))
        BY <1>0, <2>1
    <2>3. QED
        BY <1>2, <2>2 DEF IsRunningSum
<1>4. Equation(sum)
    BY <1>3, Zenon
<1>5. IsRunningSum(sum, Len(rows), w)
    <2> HIDE DEF sum
    <2>1. QED BY <1>4 DEF w, IsRunningSum
<1>6. f = sum
    <2> HIDE DEF sum
    <2>1. QED BY <1>0, <1>2, <1>5, RunningSumUnique, Zenon
<1>7. LiveNet(rows, s, M) = sum[Len(rows)]
    BY DEF LiveNet
<1> HIDE DEF sum, Equation
<1>8. QED
    BY <1>2, <1>3, <1>6, <1>7 DEF Equation

\* What the live payments of a sale add up to is a natural number.
LEMMA LiveNetNat ==
    ASSUME NEW rows \in Seq(PaymentRows), NEW s, NEW M
    PROVE  LiveNet(rows, s, M) \in Nat
BY LiveNetSum

-----------------------------------------------------------------------------
\* What the small operators return.
LEMMA CreditRowType ==
    ASSUME NEW total \in Int, NEW paid \in Int, NEW debtor \in Clients
    PROVE  CreditRow(total, paid, debtor) \in CreditRows
BY DEF CreditRow, CreditRows

LEMMA RowType ==
    ASSUME NEW s \in Sales, NEW method \in Methods, NEW gross \in Nat,
           NEW change \in Nat, change <= gross,
           NEW x \in Accounts \cup Customers \cup {NoAccount}
    PROVE  Row(s, method, gross, change, x) \in PaymentRows
BY DEF Row, PaymentRows

LEMMA AtMostPositive ==
    ASSUME NEW x \in Int, NEW y \in Int
    PROVE  /\ AtMost(x, y) \in Int /\ AtMost(x, y) <= x /\ AtMost(x, y) <= y
           /\ AtMost(x, y) = x \/ AtMost(x, y) = y
           /\ Positive(x) \in Nat
           /\ x >= 0 => Positive(x) = x
BY DEF AtMost, Positive

\* The edits of a sale_invoices row keep it one.
LEMMA DeletedInvoice ==
    ASSUME NEW inv \in InvoiceRows
    PROVE  [inv EXCEPT !.deleted = TRUE] \in InvoiceRows
BY Zenon DEF InvoiceRows

LEMMA EditedInvoice ==
    ASSUME NEW inv \in InvoiceRows, NEW c \in Clients, NEW d \in BOOLEAN
    PROVE  [inv EXCEPT !.customer = c, !.deleted = d] \in InvoiceRows
BY Zenon DEF InvoiceRows

LEMMA RewrittenInvoice ==
    ASSUME NEW inv \in InvoiceRows, NEW c \in Clients, NEW n \in 0..MaxUnits
    PROVE  [inv EXCEPT !.customer = c, !.total = n] \in InvoiceRows
BY Zenon DEF InvoiceRows

\* The rows a set of tenders inserts are payment rows.
LEMMA RowsType ==
    ASSUME NEW s \in Sales, NEW a \in Actors, NEW c, NEW t \in Tenders,
           t.change <= t.cash, t.advance > 0 => c \in Customers
    PROVE  Rows(s, a, c, t) \in Seq(PaymentRows)
<1>1. /\ t.cash \in Nat /\ t.change \in Nat /\ t.transfer \in Nat /\ t.advance \in Nat
      /\ t.bank \in Banks
    BY LedgerAssumption DEF Tenders
<1>2. Row(s, "CASH", t.cash, t.change, a) \in PaymentRows
    BY <1>1, RowType DEF Methods, Accounts
<1>3. Row(s, "TRANSFER", t.transfer, 0, t.bank) \in PaymentRows
    BY <1>1, RowType DEF Methods, Accounts
<1>4. t.advance > 0 => Row(s, "ADVANCE", t.advance, 0, c) \in PaymentRows
    BY <1>1, RowType DEF Methods, Accounts
<1>5. QED
    BY <1>2, <1>3, <1>4 DEF Rows

\* What POST /sales may carry, and the rows it inserts for it.
LEMMA InlineType ==
    ASSUME NEW s \in Sales, NEW p \in InlinePayments
    PROVE  /\ p.account \in Accounts /\ p.gross \in Nat /\ p.change \in Nat
           /\ p.change <= p.gross
           /\ InlineRow(s, p) \in PaymentRows
           /\ InlineRows(s, p) \in Seq(PaymentRows)
<1>1. /\ p.account \in Accounts /\ p.gross \in Nat /\ p.change \in Nat
      /\ p.change <= p.gross
    BY LedgerAssumption DEF InlinePayments
<1>2. InlineRow(s, p) \in PaymentRows
    BY <1>1, RowType DEF InlineRow, Methods
<1>3. QED
    BY <1>1, <1>2 DEF InlineRows

LEMMA InsertType ==
    ASSUME payments \in Seq(PaymentRows), NEW rows \in Seq(PaymentRows), Insert(rows)
    PROVE  payments' \in Seq(PaymentRows)
BY DEF Insert

LEMMA RecordType ==
    ASSUME timeline \in [Sales -> SUBSET Events], NEW s \in Sales,
           NEW events \in SUBSET Events, Record(s, events)
    PROVE  timeline' \in [Sales -> SUBSET Events]
BY DEF Record

LEMMA ConsolidatedInt ==
    ASSUME TypeOK, NEW s \in Sales
    PROVE  Consolidated(s) \in Int /\ Consolidated(s) = invoice[s].total - notes[s].nc + notes[s].nd
BY LedgerAssumption DEF TypeOK, Consolidated, ConsolidatedOf, InvoiceRows, NoteRows

\* A credit row re-derived from the payments is either the old one or one
\* whose amount paid lies between 0 and its total.
LEMMA ResettledShape ==
    ASSUME TypeOK, NEW s \in Sales, NEW rows \in Seq(PaymentRows)
    PROVE  \/ Resettled(s, rows) = credit[s]
           \/ \E paid \in 0..Consolidated(s) :
                 /\ Consolidated(s) > 0
                 /\ Resettled(s, rows) = CreditRow(Consolidated(s), paid, credit[s].debtor)
<1>1. Consolidated(s) \in Int
    BY ConsolidatedInt
<1>2. LivePaid(rows, s) \in Nat
    BY LiveNetNat DEF LivePaid
<1>3. ASSUME Consolidated(s) > 0
      PROVE  AtMost(Positive(LivePaid(rows, s)), Consolidated(s)) \in 0..Consolidated(s)
    BY <1>1, <1>2, <1>3 DEF AtMost, Positive
<1>4. QED
    BY <1>1, <1>3 DEF Resettled

-----------------------------------------------------------------------------
\* The inductive invariant.  NotesFitSale is what the others rest on: without
\* it a full credit note or a resettled credit could be negative.
IInv == TypeOK /\ NotesFitSale /\ CreditRowConsistent /\ FullVoidEmptiesSale

\* A row the CHECKs of sale_credits accept.
Consistent(row) ==
    /\ row.total > 0 /\ row.paid >= 0 /\ row.balance >= 0
    /\ row.total = row.paid + row.balance
    /\ row.status = "PENDING" <=> row.paid = 0
    /\ row.status = "PAID" <=> row.balance = 0

LEMMA ConsistentCreditRow ==
    ASSUME NEW total \in Nat \ {0}, NEW paid \in 0..total, NEW debtor
    PROVE  Consistent(CreditRow(total, paid, debtor))
BY DEF Consistent, CreditRow

\* Changing one credit row to a consistent one keeps the table consistent.
LEMMA CreditStep ==
    ASSUME TypeOK, CreditRowConsistent, NEW s \in Sales, NEW row \in CreditRows,
           row = credit[s] \/ Consistent(row),
           credit' = [credit EXCEPT ![s] = row]
    PROVE  /\ credit' \in [Sales -> CreditRows]
           /\ CreditRowConsistent'
<1>1. credit' \in [Sales -> CreditRows]
    BY DEF TypeOK
<1>2. ASSUME NEW q \in Sales, credit'[q] # NoCredit
      PROVE  Consistent(credit'[q])
    <2>1. CASE q = s /\ row # credit[s]
        BY <2>1 DEF TypeOK
    <2>2. CASE q # s \/ row = credit[s]
        <3>1. credit'[q] = credit[q]
            BY <2>2 DEF TypeOK
        <3>2. QED
            BY <1>2, <3>1 DEF CreditRowConsistent, HasCredit, Consistent
    <2>3. QED
        BY <2>1, <2>2
<1>3. QED
    BY <1>1, <1>2 DEF CreditRowConsistent, HasCredit, Consistent

\* Re-deriving a credit row from any list of payments keeps the table
\* consistent: DELETE of a payment and a collection both do it.
LEMMA ResettledStep ==
    ASSUME TypeOK, CreditRowConsistent, NEW s \in Sales, NEW rows \in Seq(PaymentRows),
           credit' = [credit EXCEPT ![s] = Resettled(s, rows)]
    PROVE  /\ credit' \in [Sales -> CreditRows]
           /\ CreditRowConsistent'
<1>1. Consolidated(s) \in Int
    BY ConsolidatedInt
<1>2. /\ credit[s] \in CreditRows
      /\ credit[s].debtor \in Clients
    BY DEF TypeOK, CreditRows
<1>3. CASE Resettled(s, rows) = credit[s]
    BY <1>2, <1>3, CreditStep
<1>4. CASE \E paid \in 0..Consolidated(s) :
                 /\ Consolidated(s) > 0
                 /\ Resettled(s, rows) = CreditRow(Consolidated(s), paid, credit[s].debtor)
    <2>1. PICK paid \in 0..Consolidated(s) :
                 /\ Consolidated(s) > 0
                 /\ Resettled(s, rows) = CreditRow(Consolidated(s), paid, credit[s].debtor)
        BY <1>4
    <2>2. Consistent(Resettled(s, rows))
        BY <1>1, <2>1, ConsistentCreditRow
    <2>3. Resettled(s, rows) \in CreditRows
        BY <1>1, <1>2, <2>1, CreditRowType
    <2>4. QED
        BY <2>2, <2>3, CreditStep
<1>5. QED
    BY <1>3, <1>4, ResettledShape

\* Steps that leave the invoice and the notes alone keep what relates them.
LEMMA SaleUntouched ==
    ASSUME NotesFitSale, FullVoidEmptiesSale, UNCHANGED <<invoice, notes>>
    PROVE  NotesFitSale' /\ FullVoidEmptiesSale'
BY DEF NotesFitSale, FullVoidEmptiesSale, Consolidated, ConsolidatedOf

\* A register and a bank or wallet that cover what they pay stay natural.
LEMMA CreditedBothType ==
    ASSUME balance \in [Accounts -> Nat],
           NEW a \in Accounts, NEW cash \in Int, balance[a] + cash >= 0,
           NEW b \in Accounts, NEW transfer \in Int, balance[b] + transfer >= 0,
           a # b
    PROVE  CreditedBoth(a, cash, b, transfer) \in [Accounts -> Nat]
<1> DEFINE f == [balance EXCEPT ![a] = @ + cash]
<1>1. f \in [Accounts -> Nat] /\ f[b] = balance[b]
    OBVIOUS
<1>2. CreditedBoth(a, cash, b, transfer) = [f EXCEPT ![b] = @ + transfer]
    BY DEF CreditedBoth
<1> HIDE DEF f
<1>3. QED
    BY <1>1, <1>2

\* What NotesFitSale and FullVoidEmptiesSale say of one sale, given its rows.
SaleFits(inv, nts) ==
    /\ inv.total - nts.nc + nts.nd >= 0
    /\ inv.ticket \in {"NONE", "ORDER"} => nts = NoNotes
    /\ nts.fullVoid => inv.deleted /\ inv.total - nts.nc + nts.nd = 0
    /\ inv.ticket = "SALE" /\ inv.deleted => nts.fullVoid

LEMMA EverySaleFits ==
    (\A s \in Sales : SaleFits(invoice[s], notes[s]))
        <=> NotesFitSale /\ FullVoidEmptiesSale
BY DEF SaleFits, NotesFitSale, FullVoidEmptiesSale, Consolidated, ConsolidatedOf

\* A step that writes the invoice and the notes of one sale only has to be
\* looked at for that sale.
LEMMA OneSaleStep ==
    ASSUME TypeOK, NotesFitSale, FullVoidEmptiesSale,
           NEW s \in Sales, NEW inv, NEW nts,
           invoice' = [invoice EXCEPT ![s] = inv], notes' = [notes EXCEPT ![s] = nts],
           SaleFits(inv, nts)
    PROVE  NotesFitSale' /\ FullVoidEmptiesSale'
<1>1. ASSUME NEW q \in Sales PROVE SaleFits(invoice'[q], notes'[q])
    <2>1. CASE q = s
        BY <2>1 DEF TypeOK
    <2>2. CASE q # s
        <3>1. invoice'[q] = invoice[q] /\ notes'[q] = notes[q]
            BY <2>2 DEF TypeOK
        <3>2. QED
            BY <3>1, EverySaleFits
    <2>3. QED
        BY <2>1, <2>2
<1>2. QED
    BY <1>1 DEF SaleFits, NotesFitSale, FullVoidEmptiesSale, Consolidated, ConsolidatedOf

\* The same for a step that leaves the notes alone.
LEMMA OneInvoiceStep ==
    ASSUME TypeOK, NotesFitSale, FullVoidEmptiesSale,
           NEW s \in Sales, NEW inv,
           invoice' = [invoice EXCEPT ![s] = inv], notes' = notes,
           SaleFits(inv, notes[s])
    PROVE  NotesFitSale' /\ FullVoidEmptiesSale'
<1>1. notes' = [notes EXCEPT ![s] = notes[s]]
    BY DEF TypeOK
<1>2. QED
    BY <1>1, OneSaleStep

-----------------------------------------------------------------------------
LEMMA InitIInv == Init => IInv
<1> SUFFICES ASSUME Init PROVE IInv
    OBVIOUS
<1>1. TypeOK
    BY LedgerAssumption DEF Init, TypeOK, InvoiceRows, NoteRows, CreditRows, Clients,
        Absent, NoNotes, NoCredit
<1>2. NotesFitSale
    BY DEF Init, NotesFitSale, Consolidated, ConsolidatedOf, Absent, NoNotes
<1>3. CreditRowConsistent
    BY DEF Init, CreditRowConsistent, HasCredit
<1>4. FullVoidEmptiesSale
    BY DEF Init, FullVoidEmptiesSale, Absent, NoNotes
<1>5. QED
    BY <1>1, <1>2, <1>3, <1>4 DEF IInv

\* An order freshly placed, or edited before it is checked out, has no notes.
LEMMA OrderFits ==
    ASSUME TypeOK, NotesFitSale, NEW s \in Sales, NEW inv,
           inv.ticket = "ORDER", inv.total \in Sizes,
           invoice[s].ticket \in {"NONE", "ORDER"}
    PROVE  SaleFits(inv, notes[s])
<1>1. notes[s] = NoNotes
    BY DEF NotesFitSale
<1>2. QED
    BY <1>1 DEF SaleFits, NoNotes, Sizes

LEMMA CreateSaleStep ==
    ASSUME IInv, NEW s \in Sales, NEW c \in Clients, NEW n \in Sizes, CreateSale(s, c, n)
    PROVE  IInv'
<1> USE DEF IInv
<1>1. invoice' \in [Sales -> InvoiceRows]
    BY LedgerAssumption DEF CreateSale, TypeOK, InvoiceRows, Sizes
<1>2. timeline' \in [Sales -> SUBSET Events]
    BY RecordType DEF CreateSale, TypeOK, Events
<1>3. TypeOK'
    BY <1>1, <1>2 DEF CreateSale, TypeOK
<1>4. NotesFitSale' /\ FullVoidEmptiesSale'
    <2>1. SaleFits([ticket |-> "ORDER", deleted |-> FALSE, customer |-> c, total |-> n],
                   notes[s])
        BY OrderFits DEF CreateSale, Absent
    <2>2. QED
        BY <2>1, OneInvoiceStep DEF CreateSale
<1>5. CreditRowConsistent'
    BY DEF CreateSale, CreditRowConsistent, HasCredit
<1>6. QED
    BY <1>3, <1>4, <1>5

LEMMA CreatePaidSaleStep ==
    ASSUME IInv, NEW s \in Sales, NEW a \in Actors, NEW c \in Clients, NEW n \in Sizes,
           NEW p \in InlinePayments, NEW r \in InlinePayments,
           CreatePaidSale(s, a, c, n, p, r)
    PROVE  IInv'
<1> DEFINE g == p.gross + r.gross
<1> USE DEF IInv
<1>0. /\ p.account \in Accounts /\ r.account \in Accounts
      /\ p.gross \in Nat /\ r.gross \in Nat /\ g \in Nat
      /\ InlineRows(s, p) \in Seq(PaymentRows) /\ InlineRows(s, r) \in Seq(PaymentRows)
    BY InlineType
<1>1. invoice' \in [Sales -> InvoiceRows]
    BY LedgerAssumption DEF CreatePaidSale, TypeOK, InvoiceRows, Sizes
<1>2. timeline' \in [Sales -> SUBSET Events]
    BY RecordType DEF CreatePaidSale, TypeOK, Events
<1>3. payments' \in Seq(PaymentRows)
    <2> HIDE DEF IInv
    <2>1. InlineRows(s, p) \o InlineRows(s, r) \in Seq(PaymentRows)
        BY <1>0
    <2>2. QED
        BY <2>1, InsertType DEF CreatePaidSale, TypeOK, IInv
<1>4. balance' \in [Accounts -> Nat] /\ received' \in [Sales -> Int]
    <2>1. balance \in [Accounts -> Nat] /\ received \in [Sales -> Int]
        BY DEF TypeOK
    <2> DEFINE first == Credited(p.account, p.gross)
    <2>2. first \in [Accounts -> Nat]
        BY <1>0, <2>1 DEF Credited
    <2>3. /\ balance' = [first EXCEPT ![r.account] = @ + r.gross]
          /\ received' = [received EXCEPT ![s] = @ + g]
        BY DEF CreatePaidSale
    <2> HIDE DEF first, g
    <2>4. QED
        BY <1>0, <2>1, <2>2, <2>3
<1>5. credit' \in [Sales -> CreditRows] /\ CreditRowConsistent'
    <2>1. CASE g < n
        <3>1. n \in Nat \ {0} /\ g \in 0..n
            BY <1>0, <2>1, LedgerAssumption DEF Sizes
        <3>2. CreditRow(n, g, c) \in CreditRows /\ Consistent(CreditRow(n, g, c))
            BY <3>1, CreditRowType, ConsistentCreditRow
        <3>3. QED
            BY <2>1, <3>2, CreditStep DEF CreatePaidSale
    <2>2. CASE ~(g < n)
        BY <2>2 DEF CreatePaidSale, TypeOK, CreditRowConsistent, HasCredit
    <2>3. QED
        BY <2>1, <2>2
<1>6. TypeOK'
    BY <1>1, <1>2, <1>3, <1>4, <1>5 DEF CreatePaidSale, TypeOK
<1>7. NotesFitSale' /\ FullVoidEmptiesSale'
    <2>1. SaleFits([ticket |-> "ORDER", deleted |-> FALSE, customer |-> c, total |-> n],
                   notes[s])
        BY OrderFits DEF CreatePaidSale, Absent
    <2>2. QED
        BY <2>1, OneInvoiceStep DEF CreatePaidSale
<1>8. QED
    BY <1>5, <1>6, <1>7

LEMMA ProcessPaymentStep ==
    ASSUME IInv, NEW s \in Sales, NEW a \in Actors, NEW t \in Tenders,
           NEW k \in 0..MaxUnits, NEW from \in {"ORDER", "LOAN"},
           ProcessPayment(s, a, t, k, from)
    PROVE  IInv'
<1> DEFINE c == invoice[s].customer
<1> USE DEF IInv
<1>0. /\ invoice[s] \in InvoiceRows
      /\ c \in Clients
      /\ t.cash \in Nat /\ t.change \in Nat /\ t.transfer \in Nat /\ t.advance \in Nat
      /\ t.bank \in Banks
      /\ t.change <= t.cash
      /\ t.advance > 0 => c \in Customers
    BY LedgerAssumption DEF TypeOK, InvoiceRows, Tenders, ProcessPayment, Clients
<1>1. invoice' = [invoice EXCEPT ![s] = [invoice[s] EXCEPT !.ticket = "SALE"]]
    BY DEF ProcessPayment
<1>2. invoice' \in [Sales -> InvoiceRows]
    BY <1>0, <1>1 DEF TypeOK, InvoiceRows
<1>3. timeline' \in [Sales -> SUBSET Events]
    BY RecordType DEF ProcessPayment, TypeOK, Events
<1>4. payments' \in Seq(PaymentRows)
    BY <1>0, RowsType, InsertType DEF ProcessPayment, TypeOK
<1>5. balance' \in [Accounts -> Nat]
    <2>1. /\ a \in Accounts /\ t.bank \in Accounts /\ a # t.bank
          /\ balance \in [Accounts -> Nat]
        BY <1>0, LedgerAssumption DEF TypeOK, Accounts
    <2>2. CreditedBoth(a, t.cash - t.change, t.bank, t.transfer) \in [Accounts -> Nat]
        <3>1. /\ t.cash - t.change \in Int /\ balance[a] + (t.cash - t.change) >= 0
              /\ t.transfer \in Int /\ balance[t.bank] + t.transfer >= 0
            BY <1>0, <2>1
        <3>2. QED
            BY <2>1, <3>1, CreditedBothType
    <2>3. QED
        BY <2>2 DEF ProcessPayment
<1>6. advance' \in [Customers -> Nat]
    BY <1>0 DEF ProcessPayment, TypeOK
<1>7. received' \in [Sales -> Int]
    BY <1>0, SMTT(30) DEF ProcessPayment, TypeOK, TenderNet
<1>8. shipped' \in [Sales -> Int]
    BY <1>0, LedgerAssumption DEF ProcessPayment, TypeOK, Deducted, InvoiceRows
<1>9. credit' \in [Sales -> CreditRows] /\ CreditRowConsistent'
    <2>1. CASE k > 0
        <3>1. k \in Nat \ {0} /\ 0 \in 0..k
            BY <2>1, LedgerAssumption
        <3>2. CreditRow(k, 0, c) \in CreditRows /\ Consistent(CreditRow(k, 0, c))
            BY <1>0, <3>1, CreditRowType, ConsistentCreditRow
        <3>3. QED
            BY <2>1, <3>2, CreditStep DEF ProcessPayment
    <2>2. CASE ~(k > 0)
        BY <2>2 DEF ProcessPayment, TypeOK, CreditRowConsistent, HasCredit
    <2>3. QED
        BY <2>1, <2>2
<1>10. TypeOK'
    BY <1>2, <1>3, <1>4, <1>5, <1>6, <1>7, <1>8, <1>9 DEF ProcessPayment, TypeOK
<1>11. NotesFitSale' /\ FullVoidEmptiesSale'
    <2>1. SaleFits(invoice[s], notes[s])
        BY EverySaleFits
    <2>2. SaleFits([invoice[s] EXCEPT !.ticket = "SALE"], notes[s])
        BY <1>0, <2>1 DEF SaleFits, ProcessPayment, Live, InvoiceRows
    <2>3. QED
        BY <1>1, <2>2, OneInvoiceStep DEF ProcessPayment
<1>12. QED
    BY <1>9, <1>10, <1>11

LEMMA ConvertOrderToLoanStep ==
    ASSUME IInv, NEW s \in Sales, ConvertOrderToLoan(s)
    PROVE  IInv'
<1> USE DEF IInv
<1>0. invoice[s] \in InvoiceRows
    BY DEF TypeOK
<1>1. invoice' = [invoice EXCEPT ![s] = [invoice[s] EXCEPT !.ticket = "LOAN"]]
    BY DEF ConvertOrderToLoan
<1>2. invoice' \in [Sales -> InvoiceRows]
    BY <1>0, <1>1 DEF TypeOK, InvoiceRows
<1>3. timeline' \in [Sales -> SUBSET Events]
    BY RecordType DEF ConvertOrderToLoan, TypeOK, Events
<1>4. shipped' \in [Sales -> Int]
    BY <1>0, LedgerAssumption DEF ConvertOrderToLoan, TypeOK, InvoiceRows
<1>5. TypeOK'
    BY <1>2, <1>3, <1>4 DEF ConvertOrderToLoan, TypeOK
<1>6. NotesFitSale' /\ FullVoidEmptiesSale'
    <2>1. SaleFits(invoice[s], notes[s])
        BY EverySaleFits
    <2>2. SaleFits([invoice[s] EXCEPT !.ticket = "LOAN"], notes[s])
        BY <1>0, <2>1 DEF SaleFits, ConvertOrderToLoan, Live, InvoiceRows
    <2>3. QED
        BY <1>1, <2>2, OneInvoiceStep DEF ConvertOrderToLoan
<1>7. CreditRowConsistent'
    BY DEF ConvertOrderToLoan, CreditRowConsistent, HasCredit
<1>8. QED
    BY <1>5, <1>6, <1>7

LEMMA CollectSaleBalanceStep ==
    ASSUME IInv, NEW s \in Sales, NEW a \in Actors, NEW t \in Tenders,
           CollectSaleBalance(s, a, t)
    PROVE  IInv'
<1> DEFINE rows == Rows(s, a, NoCustomer, t)
<1> USE DEF IInv
<1>0. /\ t.cash \in Nat /\ t.change \in Nat /\ t.transfer \in Nat /\ t.advance = 0
      /\ t.bank \in Banks
      /\ t.change <= t.cash
    BY LedgerAssumption DEF Tenders, CollectSaleBalance, WellFormed
<1>1. rows \in Seq(PaymentRows) /\ payments \o rows \in Seq(PaymentRows)
    <2>1. rows \in Seq(PaymentRows)
        BY <1>0, RowsType
    <2> HIDE DEF rows, IInv
    <2>2. QED
        BY <2>1 DEF TypeOK, IInv
<1>2. timeline' \in [Sales -> SUBSET Events]
    BY RecordType DEF CollectSaleBalance, TypeOK, Events
<1>3. payments' \in Seq(PaymentRows)
    BY <1>1, InsertType DEF CollectSaleBalance, TypeOK
<1>4. balance' \in [Accounts -> Nat]
    <2>1. /\ a \in Accounts /\ t.bank \in Accounts /\ a # t.bank
          /\ balance \in [Accounts -> Nat]
        BY <1>0, LedgerAssumption DEF TypeOK, Accounts
    <2>2. CreditedBoth(a, t.cash, t.bank, t.transfer) \in [Accounts -> Nat]
        <3>1. /\ t.cash \in Int /\ balance[a] + t.cash >= 0
              /\ t.transfer \in Int /\ balance[t.bank] + t.transfer >= 0
            BY <1>0, <2>1
        <3>2. QED
            BY <2>1, <3>1, CreditedBothType
    <2>3. QED
        BY <2>2 DEF CollectSaleBalance
<1>5. received' \in [Sales -> Int]
    BY <1>0 DEF CollectSaleBalance, TypeOK
<1>6. credit' \in [Sales -> CreditRows] /\ CreditRowConsistent'
    BY <1>1, ResettledStep DEF CollectSaleBalance
<1>7. TypeOK'
    BY <1>2, <1>3, <1>4, <1>5, <1>6 DEF CollectSaleBalance, TypeOK
<1>8. NotesFitSale' /\ FullVoidEmptiesSale'
    BY SaleUntouched DEF CollectSaleBalance
<1>9. QED
    BY <1>6, <1>7, <1>8

LEMMA ProcessCreditPaymentStep ==
    ASSUME IInv, NEW s \in Sales, NEW a \in Actors, NEW x \in Accounts,
           NEW m \in 1..MaxTender, ProcessCreditPayment(s, a, x, m)
    PROVE  IInv'
<1> DEFINE row == CreditRow(credit[s].total, credit[s].paid + m, credit[s].debtor)
<1> USE DEF IInv
<1>0. /\ credit[s].total \in Int /\ credit[s].paid \in Int /\ credit[s].balance \in Int
      /\ credit[s].debtor \in Clients
      /\ m \in Nat /\ m <= credit[s].balance
    BY LedgerAssumption DEF TypeOK, CreditRows, ProcessCreditPayment
<1>1. timeline' \in [Sales -> SUBSET Events]
    BY RecordType DEF ProcessCreditPayment, TypeOK, Events
<1>2. payments' \in Seq(PaymentRows)
    <2>1. Row(s, IF x \in Banks THEN "TRANSFER" ELSE "CASH", m, 0, x) \in PaymentRows
        BY <1>0, RowType DEF Methods
    <2> HIDE DEF IInv
    <2>2. <<Row(s, IF x \in Banks THEN "TRANSFER" ELSE "CASH", m, 0, x)>> \in Seq(PaymentRows)
        BY <2>1
    <2>3. QED
        BY <2>2, InsertType DEF ProcessCreditPayment, TypeOK, IInv
<1>3. balance' \in [Accounts -> Nat] /\ received' \in [Sales -> Int]
    BY <1>0 DEF ProcessCreditPayment, TypeOK, Credited
<1>4. credit' \in [Sales -> CreditRows] /\ CreditRowConsistent'
    <2>1. row \in CreditRows
        BY <1>0, CreditRowType
    <2>2. /\ credit[s].total > 0 /\ credit[s].paid >= 0
          /\ credit[s].total = credit[s].paid + credit[s].balance
        BY DEF CreditRowConsistent, ProcessCreditPayment
    <2>3. /\ credit[s].total \in Nat \ {0}
          /\ credit[s].paid + m \in 0..credit[s].total
        BY <1>0, <2>2
    <2>4. Consistent(row)
        BY <2>3, ConsistentCreditRow
    <2>5. QED
        BY <2>1, <2>4, CreditStep DEF ProcessCreditPayment
<1>5. TypeOK'
    BY <1>1, <1>2, <1>3, <1>4 DEF ProcessCreditPayment, TypeOK
<1>6. NotesFitSale' /\ FullVoidEmptiesSale'
    BY SaleUntouched DEF ProcessCreditPayment
<1>7. QED
    BY <1>4, <1>5, <1>6

LEMMA DeleteSalePaymentStep ==
    ASSUME IInv, NEW p \in DOMAIN payments, DeleteSalePayment(p)
    PROVE  IInv'
<1> DEFINE row == payments[p]
           rows == [payments EXCEPT ![p].voided = TRUE]
           x == row.account
           s == row.sale
<1> USE DEF IInv
<1>0. row \in PaymentRows
    BY DEF TypeOK
<1>1. /\ s \in Sales /\ x \in Accounts \cup Customers \cup {NoAccount}
      /\ Net(row) \in Nat
    BY <1>0, NetNat DEF PaymentRows
<1>2. rows \in Seq(PaymentRows)
    <2>1. [row EXCEPT !.voided = TRUE] \in PaymentRows
        BY <1>0 DEF PaymentRows
    <2>2. rows = [payments EXCEPT ![p] = [row EXCEPT !.voided = TRUE]]
        OBVIOUS
    <2> HIDE DEF row, rows
    <2>3. QED
        BY <2>1, <2>2 DEF TypeOK
<1>3. balance' \in [Accounts -> Nat]
    BY <1>1 DEF DeleteSalePayment, TypeOK, Credited, Covers
<1>4. advance' \in [Customers -> Nat] /\ received' \in [Sales -> Int]
    BY <1>1, SMTT(30) DEF DeleteSalePayment, TypeOK
<1>5. credit' \in [Sales -> CreditRows] /\ CreditRowConsistent'
    BY <1>1, <1>2, ResettledStep DEF DeleteSalePayment
<1>6. TypeOK'
    BY <1>2, <1>3, <1>4, <1>5 DEF DeleteSalePayment, TypeOK
<1>7. NotesFitSale' /\ FullVoidEmptiesSale'
    BY SaleUntouched DEF DeleteSalePayment
<1>8. QED
    BY <1>5, <1>6, <1>7

LEMMA EditOrderStep ==
    ASSUME IInv, NEW s \in Sales, NEW c \in Clients, NEW n \in Sizes, EditOrder(s, c, n)
    PROVE  IInv'
<1> DEFINE inv == [invoice[s] EXCEPT !.customer = c, !.total = n]
<1> USE DEF IInv
<1>0. invoice[s] \in InvoiceRows
    BY DEF TypeOK
<1>1. invoice' = [invoice EXCEPT ![s] = inv]
    BY DEF EditOrder
<1>2. inv \in InvoiceRows
    <2>1. n \in 0..MaxUnits
        BY LedgerAssumption DEF Sizes
    <2>2. QED
        BY <1>0, <2>1, RewrittenInvoice
<1>3. TypeOK'
    BY <1>1, <1>2 DEF EditOrder, TypeOK
<1>4. NotesFitSale' /\ FullVoidEmptiesSale'
    <2>1. inv.ticket = "ORDER" /\ inv.total = n
        BY <1>0 DEF EditOrder, Live, InvoiceRows
    <2>2. SaleFits(inv, notes[s])
        BY <2>1, OrderFits DEF EditOrder, Live
    <2>3. QED
        BY <1>1, <2>2, OneInvoiceStep DEF EditOrder
<1>5. CreditRowConsistent'
    BY DEF EditOrder, CreditRowConsistent, HasCredit
<1>6. QED
    BY <1>3, <1>4, <1>5

LEMMA VoidOrderStep ==
    ASSUME IInv, NEW s \in Sales, VoidOrder(s)
    PROVE  IInv'
<1> DEFINE inv == [invoice[s] EXCEPT !.deleted = TRUE]
<1> USE DEF IInv
<1>0. invoice[s] \in InvoiceRows
    BY DEF TypeOK
<1>1. invoice' = [invoice EXCEPT ![s] = inv]
    BY DEF VoidOrder
<1>2. timeline' \in [Sales -> SUBSET Events]
    BY RecordType DEF VoidOrder, TypeOK, Events
<1>3. TypeOK'
    <2>1. inv \in InvoiceRows
        BY <1>0, DeletedInvoice
    <2>2. QED
        BY <1>1, <1>2, <2>1 DEF VoidOrder, TypeOK
<1>4. NotesFitSale' /\ FullVoidEmptiesSale'
    <2>1. SaleFits(invoice[s], notes[s])
        BY EverySaleFits
    <2>2. SaleFits(inv, notes[s])
        BY <1>0, <2>1 DEF SaleFits, VoidOrder, Live, InvoiceRows
    <2>3. QED
        BY <1>1, <2>2, OneInvoiceStep DEF VoidOrder
<1>5. CreditRowConsistent'
    BY DEF VoidOrder, CreditRowConsistent, HasCredit
<1>6. QED
    BY <1>3, <1>4, <1>5

LEMMA VoidLoanStep ==
    ASSUME IInv, NEW s \in Sales, VoidLoan(s)
    PROVE  IInv'
<1> DEFINE inv == [invoice[s] EXCEPT !.deleted = TRUE]
<1> USE DEF IInv
<1>0. invoice[s] \in InvoiceRows
    BY DEF TypeOK
<1>1. invoice' = [invoice EXCEPT ![s] = inv]
    BY DEF VoidLoan
<1>2. timeline' \in [Sales -> SUBSET Events]
    BY RecordType DEF VoidLoan, TypeOK, Events
<1>3. shipped' \in [Sales -> Int]
    BY <1>0, LedgerAssumption DEF VoidLoan, TypeOK, InvoiceRows
<1>4. TypeOK'
    <2>1. inv \in InvoiceRows
        BY <1>0, DeletedInvoice
    <2>2. QED
        BY <1>1, <1>2, <1>3, <2>1 DEF VoidLoan, TypeOK
<1>5. NotesFitSale' /\ FullVoidEmptiesSale'
    <2>1. SaleFits(invoice[s], notes[s])
        BY EverySaleFits
    <2>2. SaleFits(inv, notes[s])
        BY <1>0, <2>1 DEF SaleFits, VoidLoan, Live, InvoiceRows
    <2>3. QED
        BY <1>1, <2>2, OneInvoiceStep DEF VoidLoan
<1>6. CreditRowConsistent'
    BY DEF VoidLoan, CreditRowConsistent, HasCredit
<1>7. QED
    BY <1>4, <1>5, <1>6

\* The refund of a credit note is a natural number.
LEMMA RefundNat ==
    ASSUME TypeOK, NEW s \in Sales, NEW r \in Nat, NEW d \in Nat
    PROVE  RefundOf(s, r, d) \in Nat
<1>1. Consolidated(s) \in Int /\ LivePaid(payments, s) \in Nat
    BY ConsolidatedInt, LiveNetNat DEF LivePaid, TypeOK
<1>2. QED
    BY <1>1 DEF RefundOf, AtMost, Positive

LEMMA EditSaleStep ==
    ASSUME IInv, NEW s \in Sales, NEW a \in Actors, NEW r \in 0..(MaxUnits + MaxDebits),
           NEW d \in 0..MaxDebits, NEW c \in Clients,
           NEW refundTo \in Accounts \cup {NoAccount}, NEW chargeTo \in Accounts,
           EditSale(s, a, r, d, c, refundTo, chargeTo)
    PROVE  IInv'
<1> DEFINE emptied == d = 0 /\ r > 0 /\ r = Consolidated(s)
           refund  == IF refundTo = NoAccount THEN 0 ELSE RefundOf(s, r, d)
           charge  == IF HasCredit(s) THEN 0 ELSE d
           total   == Consolidated(s) - r + d
           isRegister == chargeTo = a
           afterNC == IF refund > 0 THEN Credited(refundTo, -refund) ELSE balance
           inv == [invoice[s] EXCEPT !.customer = c, !.deleted = emptied]
           nts == [nc |-> notes[s].nc + r, nd |-> notes[s].nd + d, fullVoid |-> emptied]
           row == Row(s, IF isRegister THEN "CASH" ELSE "TRANSFER", charge, 0,
                      IF isRegister THEN NoAccount ELSE chargeTo)
<1>0. /\ TypeOK /\ NotesFitSale /\ CreditRowConsistent /\ FullVoidEmptiesSale
      /\ invoice[s] \in InvoiceRows /\ notes[s] \in NoteRows
      /\ credit[s].debtor \in Clients
      /\ r \in Nat /\ d \in Nat
      /\ Consolidated(s) \in Int
      /\ LivePaid(payments, s) \in Nat
    <2>1. /\ TypeOK /\ NotesFitSale /\ CreditRowConsistent /\ FullVoidEmptiesSale
          /\ Consolidated(s) \in Int
        BY ConsolidatedInt DEF IInv
    <2>2. /\ invoice[s] \in InvoiceRows /\ notes[s] \in NoteRows
          /\ credit[s].debtor \in Clients
        BY <2>1 DEF TypeOK, CreditRows
    <2>3. r \in Nat /\ d \in Nat
        BY LedgerAssumption
    <2>4. LivePaid(payments, s) \in Nat
        BY <2>1, LiveNetNat DEF TypeOK, LivePaid
    <2>5. QED
        BY <2>1, <2>2, <2>3, <2>4
<1>1. /\ refund \in Nat /\ charge \in Nat
      /\ refund > 0 => refundTo \in Accounts /\ balance[refundTo] >= refund
    BY <1>0, RefundNat DEF EditSale, Covers
<1>2. balance' \in [Accounts -> Nat]
    <2>1. afterNC \in [Accounts -> Nat]
        BY <1>0, <1>1 DEF TypeOK, Credited
    <2>2. balance' = [afterNC EXCEPT ![chargeTo] = @ + charge]
        BY DEF EditSale
    <2> HIDE DEF afterNC, charge, refund
    <2>3. QED
        BY <1>1, <2>1, <2>2
<1>3. notes' = [notes EXCEPT ![s] = nts]
    BY DEF EditSale
<1>4. nts \in NoteRows
    BY <1>0 DEF NoteRows
<1>5. invoice' = [invoice EXCEPT ![s] = inv]
    BY DEF EditSale
<1>6. inv \in InvoiceRows
    <2>1. emptied \in BOOLEAN
        OBVIOUS
    <2> HIDE DEF emptied
    <2>2. QED
        BY <1>0, <2>1, EditedInvoice
<1>7. shipped' \in [Sales -> Int]
    BY <1>0 DEF EditSale, TypeOK
<1>8. received' \in [Sales -> Int]
    <2>1. received' = [received EXCEPT ![s] = @ - refund + charge]
        BY DEF EditSale
    <2> HIDE DEF refund, charge
    <2>2. QED
        BY <1>0, <1>1, <2>1 DEF TypeOK
<1>9. payments' \in Seq(PaymentRows)
    <2>1. CASE charge > 0
        <3>1. row \in PaymentRows
            BY <1>1, RowType DEF Methods
        <3>2. Insert(<<row>>)
            BY <2>1 DEF EditSale
        <3> HIDE DEF row
        <3>3. <<row>> \in Seq(PaymentRows)
            BY <3>1
        <3>4. QED
            BY <1>0, <3>2, <3>3, InsertType DEF TypeOK
    <2>2. CASE ~(charge > 0)
        BY <1>0, <2>2 DEF EditSale, TypeOK
    <2>3. QED
        BY <2>1, <2>2
<1>10. credit' \in [Sales -> CreditRows] /\ CreditRowConsistent'
    <2> DEFINE paid == AtMost(LivePaid(payments, s), total)
    <2>1. CASE HasCredit(s) /\ ~emptied /\ r + d > 0 /\ total > 0
        <3>1. credit' = [credit EXCEPT ![s] = CreditRow(total, paid, credit[s].debtor)]
            BY <2>1 DEF EditSale
        <3>2. total \in Nat \ {0} /\ paid \in 0..total
            BY <1>0, <2>1 DEF AtMost
        <3> HIDE DEF total, paid
        <3>3. CreditRow(total, paid, credit[s].debtor) \in CreditRows
            BY <1>0, <3>2, CreditRowType
        <3>4. Consistent(CreditRow(total, paid, credit[s].debtor))
            BY <3>2, ConsistentCreditRow
        <3>5. QED
            BY <1>0, <3>1, <3>3, <3>4, CreditStep
    <2>2. CASE ~(HasCredit(s) /\ ~emptied /\ r + d > 0 /\ total > 0)
        <3>1. credit' = credit
            BY <2>2 DEF EditSale
        <3>2. QED
            BY <1>0, <3>1 DEF TypeOK, CreditRowConsistent, HasCredit
    <2>3. QED
        BY <2>1, <2>2
<1>11. TypeOK'
    <2> HIDE DEF inv, nts
    <2>1. invoice' \in [Sales -> InvoiceRows] /\ notes' \in [Sales -> NoteRows]
        BY <1>0, <1>3, <1>4, <1>5, <1>6 DEF TypeOK
    <2>2. UNCHANGED <<advance, timeline>>
        BY DEF EditSale
    <2>3. QED
        BY <1>0, <1>2, <1>7, <1>8, <1>9, <1>10, <2>1, <2>2 DEF TypeOK
<1>12. NotesFitSale' /\ FullVoidEmptiesSale'
    <2>1. /\ inv.ticket = invoice[s].ticket /\ inv.total = invoice[s].total
          /\ inv.deleted = emptied
        BY <1>0 DEF InvoiceRows
    <2>2. /\ Consolidated(s) = invoice[s].total - notes[s].nc + notes[s].nd
          /\ r <= Consolidated(s)
          /\ invoice[s].ticket \in {"SALE", "LOAN"}
          /\ invoice[s].total \in Nat /\ notes[s].nc \in Nat /\ notes[s].nd \in Nat
        BY <1>0, ConsolidatedInt, LedgerAssumption DEF EditSale, Live, InvoiceRows, NoteRows
    <2>3. inv.total - nts.nc + nts.nd = Consolidated(s) - r + d
        BY <1>0, <2>1, <2>2
    <2>4. SaleFits(inv, nts)
        <3>1. inv.total - nts.nc + nts.nd >= 0
            BY <1>0, <2>2, <2>3
        <3>2. inv.ticket \notin {"NONE", "ORDER"}
            BY <2>1, <2>2
        <3>3. nts.fullVoid = emptied
            OBVIOUS
        <3>4. emptied => inv.total - nts.nc + nts.nd = 0
            BY <1>0, <2>3
        <3> HIDE DEF inv, nts, emptied
        <3>5. QED
            BY <2>1, <3>1, <3>2, <3>3, <3>4, Zenon DEF SaleFits
    <2> HIDE DEF inv, nts
    <2>5. QED
        BY <1>0, <1>3, <1>5, <2>4, OneSaleStep
<1>13. QED
    BY <1>10, <1>11, <1>12 DEF IInv

LEMMA VoidSaleStep ==
    ASSUME IInv, NEW s \in Sales, NEW a \in Actors,
           NEW src \in Banks \cup Wallets \cup {NoAccount}, VoidSale(s, a, src)
    PROVE  IInv'
<1> DEFINE cash     == LiveNet(payments, s, {"CASH"})
           transfer == LiveNet(payments, s, {"TRANSFER"})
           c        == invoice[s].customer
           restored == IF c = NoCustomer THEN 0 ELSE LiveNet(payments, s, {"ADVANCE"})
           inv == [invoice[s] EXCEPT !.deleted = TRUE]
           nts == [notes[s] EXCEPT !.nc = @ + VoidedValue(s), !.fullVoid = TRUE]
<1>0. /\ TypeOK /\ NotesFitSale /\ CreditRowConsistent /\ FullVoidEmptiesSale
      /\ invoice[s] \in InvoiceRows /\ notes[s] \in NoteRows
      /\ c \in Clients
      /\ Consolidated(s) \in Nat
      /\ cash \in Nat /\ transfer \in Nat /\ restored \in Nat
    BY LedgerAssumption, ConsolidatedInt, LiveNetNat DEF IInv, TypeOK, InvoiceRows, NotesFitSale
<1> HIDE DEF cash, transfer, restored
<1>1. balance' \in [Accounts -> Nat]
    <2>1. balance \in [Accounts -> Nat] /\ a \in Accounts
        BY <1>0 DEF TypeOK, Accounts
    <2>2. balance[a] - cash >= 0
        BY <1>0, <2>1 DEF VoidSale, Covers, cash
    <2>3. CASE HasTransfer(s)
        <3>1. src \in Banks \cup Wallets
            BY <2>3 DEF VoidSale
        <3>2. src \in Accounts /\ src # a /\ balance[src] \in Nat
            BY <2>1, <3>1, LedgerAssumption DEF Accounts
        <3>3. balance[src] >= transfer
            BY <2>3 DEF VoidSale, Covers, transfer
        <3>4. CreditedBoth(a, -cash, src, -transfer) \in [Accounts -> Nat]
            <4>1. /\ -cash \in Int /\ balance[a] + (-cash) >= 0
                  /\ -transfer \in Int /\ balance[src] + (-transfer) >= 0
                BY <1>0, <2>1, <2>2, <3>2, <3>3
            <4>2. QED
                BY <2>1, <3>2, <4>1, CreditedBothType
        <3>5. QED
            BY <2>3, <3>4 DEF VoidSale, cash, transfer
    <2>4. CASE ~HasTransfer(s)
        <3>1. balance' = Credited(a, -cash)
            BY <2>4 DEF VoidSale, cash
        <3>2. QED
            BY <1>0, <2>1, <2>2, <3>1 DEF Credited
    <2>5. QED
        BY <2>3, <2>4
<1>2. advance' \in [Customers -> Nat]
    <2>1. advance' = IF c = NoCustomer THEN advance
                     ELSE [advance EXCEPT ![c] = @ + restored]
        BY DEF VoidSale, restored
    <2>2. QED
        BY <1>0, <2>1 DEF TypeOK, Clients
<1>3. received' \in [Sales -> Int]
    <2>1. received' = [received EXCEPT ![s] = @ - cash - transfer - restored]
        BY DEF VoidSale, cash, transfer, restored
    <2>2. QED
        BY <1>0, <2>1 DEF TypeOK
<1>4. shipped' \in [Sales -> Int]
    BY <1>0 DEF VoidSale, TypeOK, VoidedValue
<1>5. timeline' \in [Sales -> SUBSET Events]
    BY <1>0, RecordType DEF VoidSale, TypeOK, Events
<1>6. notes' = [notes EXCEPT ![s] = nts]
    BY <1>0 DEF VoidSale, TypeOK
<1>7. nts \in NoteRows
    <2>1. notes[s].nc + VoidedValue(s) \in Nat
        BY <1>0 DEF VoidedValue, NoteRows
    <2>2. QED
        BY <1>0, <2>1, Zenon DEF NoteRows
<1>8. invoice' = [invoice EXCEPT ![s] = inv]
    BY DEF VoidSale
<1>9. inv \in InvoiceRows
    BY <1>0, DeletedInvoice
<1>10. TypeOK'
    <2> HIDE DEF inv, nts
    <2>1. invoice' \in [Sales -> InvoiceRows] /\ notes' \in [Sales -> NoteRows]
        BY <1>0, <1>6, <1>7, <1>8, <1>9 DEF TypeOK
    <2>2. UNCHANGED <<credit, payments>>
        BY DEF VoidSale
    <2>3. QED
        BY <1>0, <1>1, <1>2, <1>3, <1>4, <1>5, <2>1, <2>2 DEF TypeOK
<1>11. NotesFitSale' /\ FullVoidEmptiesSale'
    <2>1. inv.ticket = "SALE" /\ inv.total = invoice[s].total /\ inv.deleted
        BY <1>0 DEF InvoiceRows, VoidSale, Live
    <2>2. nts.nc = notes[s].nc + Consolidated(s) /\ nts.nd = notes[s].nd /\ nts.fullVoid
        BY <1>0 DEF NoteRows, VoidedValue
    <2>3. /\ Consolidated(s) = invoice[s].total - notes[s].nc + notes[s].nd
          /\ invoice[s].total \in Nat /\ notes[s].nc \in Nat /\ notes[s].nd \in Nat
        BY <1>0, ConsolidatedInt, LedgerAssumption DEF InvoiceRows, NoteRows
    <2>4. SaleFits(inv, nts)
        BY <1>0, <2>1, <2>2, <2>3 DEF SaleFits
    <2> HIDE DEF inv, nts
    <2>5. QED
        BY <1>0, <1>6, <1>8, <2>4, OneSaleStep
<1>12. CreditRowConsistent'
    BY <1>0 DEF VoidSale, CreditRowConsistent, HasCredit
<1>13. QED
    BY <1>10, <1>11, <1>12 DEF IInv

-----------------------------------------------------------------------------
LEMMA IInvStep == IInv /\ [Next]_vars => IInv'
<1> SUFFICES ASSUME IInv, [Next]_vars PROVE IInv'
    OBVIOUS
<1>1. ASSUME NEW s \in Sales, Order(s) PROVE IInv'
    BY <1>1, CreateSaleStep, CreatePaidSaleStep, EditOrderStep, ConvertOrderToLoanStep
       DEF Order
<1>2. ASSUME NEW s \in Sales, Collect(s) PROVE IInv'
    BY <1>2, ProcessPaymentStep, CollectSaleBalanceStep, ProcessCreditPaymentStep
       DEF Collect
<1>3. ASSUME NEW s \in Sales, Edit(s) PROVE IInv'
    BY <1>3, EditSaleStep DEF Edit
<1>4. ASSUME NEW s \in Sales, Annul(s) PROVE IInv'
    BY <1>4, VoidOrderStep, VoidLoanStep, VoidSaleStep DEF Annul
<1>5. ASSUME NEW p \in DOMAIN payments, DeleteSalePayment(p) PROVE IInv'
    BY <1>5, DeleteSalePaymentStep
<1>6. CASE UNCHANGED vars
    BY <1>6 DEF vars, IInv, TypeOK, NotesFitSale, CreditRowConsistent,
        FullVoidEmptiesSale, HasCredit, Consolidated, ConsolidatedOf
<1>7. QED
    BY <1>1, <1>2, <1>3, <1>4, <1>5, <1>6 DEF Next

\* No register, bank, wallet or advance is ever overdrawn and every row keeps
\* its shape, whatever the operations and their order.
THEOREM TypeCorrect == Spec => []TypeOK
<1>1. IInv => TypeOK
    BY DEF IInv
<1>2. QED
    BY InitIInv, IInvStep, <1>1, PTL DEF Spec

\* No sequence of payments, reversals and edits drives the credit notes of a
\* sale above what it holds.
THEOREM NotesAlwaysFit == Spec => []NotesFitSale
<1>1. IInv => NotesFitSale
    BY DEF IInv
<1>2. QED
    BY InitIInv, IInvStep, <1>1, PTL DEF Spec

\* The credit row of a sale satisfies the CHECKs of its table after any
\* sequence of checkouts, instalments, collections, reversals and edits.
THEOREM CreditRowsConsistent == Spec => []CreditRowConsistent
<1>1. IInv => CreditRowConsistent
    BY DEF IInv
<1>2. QED
    BY InitIInv, IInvStep, <1>1, PTL DEF Spec

\* Annulling a sale and editing it down to nothing leave the same thing behind:
\* a deleted sale that is worth nothing, with its full-void note.
THEOREM FullVoidAlwaysEmpties == Spec => []FullVoidEmptiesSale
<1>1. IInv => FullVoidEmptiesSale
    BY DEF IInv
<1>2. QED
    BY InitIInv, IInvStep, <1>1, PTL DEF Spec

-----------------------------------------------------------------------------
\* What a step may not do to a deleted sale.
Frozen(s) ==
    /\ invoice'[s] = invoice[s]
    /\ notes'[s] = notes[s]
    /\ shipped'[s] = shipped[s]

\* A request writes the invoice, the notes and the goods of one sale only.
LEMMA OtherSalesFrozen ==
    ASSUME TypeOK, NEW s \in Sales, NEW q \in Sales, s # q,
           Order(s) \/ Collect(s) \/ Edit(s) \/ Annul(s)
    PROVE  Frozen(q)
<1>1. CASE Order(s)
    <2>1. ASSUME NEW a, NEW c, NEW n, NEW p, NEW r, CreatePaidSale(s, a, c, n, p, r)
          PROVE  Frozen(q)
        BY <2>1 DEF TypeOK, CreatePaidSale, Frozen
    <2>2. ASSUME NEW c, NEW n, CreateSale(s, c, n) \/ EditOrder(s, c, n)
          PROVE  Frozen(q)
        BY <2>2 DEF TypeOK, CreateSale, EditOrder, Frozen
    <2>3. ConvertOrderToLoan(s) => Frozen(q)
        BY DEF TypeOK, ConvertOrderToLoan, Frozen
    <2>4. QED
        BY <1>1, <2>1, <2>2, <2>3 DEF Order
<1>2. CASE Collect(s)
    <2>1. ASSUME NEW a, NEW t, NEW k, NEW from, ProcessPayment(s, a, t, k, from)
          PROVE  Frozen(q)
        BY <2>1 DEF TypeOK, ProcessPayment, Frozen
    <2>2. ASSUME NEW a, NEW t, CollectSaleBalance(s, a, t)
          PROVE  Frozen(q)
        BY <2>2 DEF CollectSaleBalance, Frozen
    <2>3. ASSUME NEW a, NEW x, NEW m, ProcessCreditPayment(s, a, x, m)
          PROVE  Frozen(q)
        BY <2>3 DEF ProcessCreditPayment, Frozen
    <2>4. QED
        BY <1>2, <2>1, <2>2, <2>3 DEF Collect
<1>3. CASE Edit(s)
    <2>1. ASSUME NEW a, NEW r, NEW d, NEW c, NEW refundTo, NEW chargeTo,
                 EditSale(s, a, r, d, c, refundTo, chargeTo)
          PROVE  Frozen(q)
        BY <2>1 DEF TypeOK, EditSale, Frozen
    <2>2. QED
        BY <1>3, <2>1 DEF Edit
<1>4. CASE Annul(s)
    BY <1>4 DEF TypeOK, Annul, VoidOrder, VoidLoan, VoidSale, Frozen
<1>5. QED
    BY <1>1, <1>2, <1>3, <1>4

\* Nor does any of them run on a deleted sale, but for an instalment.
LEMMA DeletedSaleFrozen ==
    ASSUME NEW s \in Sales, invoice[s].deleted,
           Order(s) \/ Collect(s) \/ Edit(s) \/ Annul(s)
    PROVE  Frozen(s)
<1>0. invoice[s] # Absent
    BY DEF Absent
<1>1. CASE Order(s)
    BY <1>0, <1>1, ZenonT(40) DEF Order, CreateSale, CreatePaidSale, EditOrder, ConvertOrderToLoan, Live
<1>2. CASE Collect(s)
    BY <1>2, ZenonT(40) DEF Collect, ProcessPayment, CollectSaleBalance, ProcessCreditPayment, Live,
        Frozen
<1>3. CASE Edit(s)
    BY <1>3 DEF Edit, EditSale, Live
<1>4. CASE Annul(s)
    BY <1>4 DEF Annul, VoidOrder, VoidLoan, VoidSale, Live
<1>5. QED
    BY <1>1, <1>2, <1>3, <1>4

LEMMA DeletedStaysFrozen ==
    ASSUME TypeOK, NEW q \in Sales, invoice[q].deleted, [Next]_vars
    PROVE  Frozen(q)
<1>1. ASSUME NEW s \in Sales, Order(s) \/ Collect(s) \/ Edit(s) \/ Annul(s)
      PROVE  Frozen(q)
    BY <1>1, OtherSalesFrozen, DeletedSaleFrozen
<1>2. ASSUME NEW p \in DOMAIN payments, DeleteSalePayment(p) PROVE Frozen(q)
    BY <1>2 DEF DeleteSalePayment, Frozen
<1>3. CASE UNCHANGED vars
    BY <1>3 DEF vars, Frozen
<1>4. QED
    BY <1>1, <1>2, <1>3 DEF Next

\* No operation, in any order, touches the invoice, the notes or the goods of a
\* sale once it is deleted.
THEOREM DeletedIsFinal == Spec => AnnulledIsFinal
<1>1. TypeOK /\ [Next]_vars =>
        [\A s \in Sales : invoice[s].deleted =>
          /\ invoice'[s] = invoice[s]
          /\ notes'[s] = notes[s]
          /\ shipped'[s] = shipped[s]]_vars
    BY DeletedStaysFrozen DEF Frozen
<1>2. QED
    BY TypeCorrect, <1>1, PTL DEF Spec, AnnulledIsFinal

-----------------------------------------------------------------------------
\* What StockMatchesSales says of one sale, and why it is kept: as long as
\* loans are not edited, a loan has no notes and its original lines, which
\* VoidLoan returns, are what it holds.
Stocked(s) ==
    /\ shipped[s] = IF invoice[s].ticket \in {"SALE", "LOAN"} /\ ~invoice[s].deleted
                    THEN Consolidated(s) ELSE 0
    /\ invoice[s].ticket = "LOAN" => notes[s] = NoNotes

StockInv == \A s \in Sales : Stocked(s)

LEMMA FrozenStaysStocked ==
    ASSUME NEW s \in Sales, Stocked(s), Frozen(s)
    PROVE  Stocked(s)'
BY DEF Stocked, Frozen, Consolidated, ConsolidatedOf

LEMMA OrderStocked ==
    ASSUME IInv, NEW s \in Sales, Stocked(s), Order(s)
    PROVE  Stocked(s)'
<1> USE DEF IInv
<1>1. ASSUME invoice[s] = Absent, invoice'[s].ticket = "ORDER", shipped'[s] = shipped[s]
      PROVE  Stocked(s)'
    BY <1>1 DEF Stocked, Absent
<1>2. ASSUME NEW c \in Clients, NEW n \in Sizes, CreateSale(s, c, n)
      PROVE  Stocked(s)'
    BY <1>1, <1>2 DEF CreateSale, TypeOK
<1>3. ASSUME NEW a \in Actors, NEW c \in Clients, NEW n \in Sizes,
             NEW p \in InlinePayments, NEW r \in InlinePayments,
             CreatePaidSale(s, a, c, n, p, r)
      PROVE  Stocked(s)'
    BY <1>1, <1>3 DEF CreatePaidSale, TypeOK
<1>4. ASSUME NEW c \in Clients, NEW n \in Sizes, EditOrder(s, c, n)
      PROVE  Stocked(s)'
    <2>1. invoice[s].ticket = "ORDER" /\ invoice'[s].ticket = "ORDER"
          /\ shipped'[s] = shipped[s]
        BY <1>4 DEF EditOrder, Live, TypeOK, InvoiceRows
    <2>2. QED
        BY <2>1 DEF Stocked
<1>5. CASE ConvertOrderToLoan(s)
    <2>1. /\ notes'[s] = NoNotes
          /\ shipped[s] = 0
        BY <1>5 DEF ConvertOrderToLoan, Live, NotesFitSale, Stocked
    <2>2. /\ invoice'[s].ticket = "LOAN" /\ invoice'[s].total = invoice[s].total
          /\ invoice'[s].deleted = invoice[s].deleted
          /\ ~invoice[s].deleted
          /\ invoice[s].total \in Int
        BY <1>5, LedgerAssumption DEF ConvertOrderToLoan, Live, TypeOK, InvoiceRows
    <2>3. shipped'[s] = invoice[s].total
        BY <1>5, <2>1, <2>2 DEF ConvertOrderToLoan, TypeOK
    <2>4. QED
        BY <2>1, <2>2, <2>3 DEF Stocked, Consolidated, ConsolidatedOf, NoNotes
<1>6. QED
    BY <1>2, <1>3, <1>4, <1>5 DEF Order

LEMMA CollectStocked ==
    ASSUME IInv, NEW s \in Sales, Stocked(s), Collect(s)
    PROVE  Stocked(s)'
<1>1. ASSUME NEW a \in Actors, NEW t \in Tenders, NEW k \in 0..MaxUnits,
             NEW from \in {"ORDER", "LOAN"}, ProcessPayment(s, a, t, k, from)
      PROVE  Stocked(s)'
    <2>1. /\ TypeOK /\ NotesFitSale
          /\ invoice[s].ticket = from /\ ~invoice[s].deleted
          /\ notes'[s] = notes[s] /\ notes[s] = NoNotes
          /\ invoice[s].total \in Int
        BY <1>1, LedgerAssumption, SMTT(30) DEF IInv, ProcessPayment, Live, NotesFitSale, Stocked,
            TypeOK, InvoiceRows
    <2>2. /\ invoice'[s].ticket = "SALE" /\ invoice'[s].total = invoice[s].total
          /\ invoice'[s].deleted = invoice[s].deleted
        BY <1>1, <2>1 DEF ProcessPayment, TypeOK, InvoiceRows
    <2>3. shipped'[s] = shipped[s] + Deducted(s, from)
        BY <1>1, <2>1 DEF ProcessPayment, TypeOK
    <2>4. shipped'[s] = invoice[s].total
        BY <2>1, <2>3 DEF Stocked, Deducted, Consolidated, ConsolidatedOf, NoNotes
    <2>5. QED
        BY <2>1, <2>2, <2>4 DEF Stocked, Consolidated, ConsolidatedOf, NoNotes
<1>2. ASSUME NEW a, NEW t, CollectSaleBalance(s, a, t)
      PROVE  Stocked(s)'
    BY <1>2, FrozenStaysStocked DEF CollectSaleBalance, Frozen
<1>3. ASSUME NEW a, NEW x, NEW m, ProcessCreditPayment(s, a, x, m)
      PROVE  Stocked(s)'
    BY <1>3, FrozenStaysStocked DEF ProcessCreditPayment, Frozen
<1>4. QED
    BY <1>1, <1>2, <1>3 DEF Collect

LEMMA EditStocked ==
    ASSUME IInv, NEW s \in Sales, Stocked(s), Edit(s), "loanEdit" \notin Requests
    PROVE  Stocked(s)'
<1> SUFFICES ASSUME NEW a \in Actors, NEW r \in 0..(MaxUnits + MaxDebits),
                    NEW d \in 0..MaxDebits, NEW c \in Clients,
                    NEW refundTo \in Accounts \cup {NoAccount}, NEW chargeTo \in Accounts,
                    EditSale(s, a, r, d, c, refundTo, chargeTo)
             PROVE  Stocked(s)'
    BY DEF Edit
<1> DEFINE emptied == d = 0 /\ r > 0 /\ r = Consolidated(s)
<1>0. TypeOK /\ invoice[s] \in InvoiceRows /\ notes[s] \in NoteRows
    BY DEF IInv, TypeOK
<1>1. /\ r \in Int /\ d \in Int
      /\ invoice[s].ticket = "SALE" /\ ~invoice[s].deleted
      /\ invoice[s].total \in Int /\ notes[s].nc \in Int /\ notes[s].nd \in Int
    <2>1. Live(s, {"SALE", "LOAN"}) /\ invoice[s].ticket # "LOAN"
        BY DEF EditSale
    <2>2. QED
        BY <1>0, <2>1, LedgerAssumption DEF Live, InvoiceRows, NoteRows
<1>2. /\ invoice'[s].ticket = "SALE" /\ invoice'[s].total = invoice[s].total
      /\ invoice'[s].deleted = emptied
    BY <1>0, <1>1 DEF EditSale, TypeOK, InvoiceRows
<1>3. notes'[s].nc = notes[s].nc + r /\ notes'[s].nd = notes[s].nd + d
    BY <1>0, <1>1 DEF EditSale, TypeOK
<1>4. shipped'[s] = Consolidated(s) - r + d
    BY <1>0, <1>1 DEF EditSale, TypeOK, Stocked
<1>5. /\ Consolidated(s)' = Consolidated(s) - r + d
      /\ emptied => Consolidated(s) - r + d = 0
    BY <1>0, <1>1, <1>2, <1>3, ConsolidatedInt DEF Consolidated, ConsolidatedOf
<1> HIDE DEF emptied
<1>6. QED
    BY <1>2, <1>4, <1>5 DEF Stocked

LEMMA AnnulStocked ==
    ASSUME IInv, NEW s \in Sales, Stocked(s), Annul(s)
    PROVE  Stocked(s)'
<1>0. /\ TypeOK /\ invoice[s] \in InvoiceRows /\ Consolidated(s) \in Int
      /\ invoice[s].total \in Int
    BY ConsolidatedInt, LedgerAssumption DEF IInv, TypeOK, InvoiceRows
<1>1. CASE VoidOrder(s)
    BY <1>0, <1>1 DEF VoidOrder, Live, TypeOK, InvoiceRows, Stocked
<1>2. CASE VoidLoan(s)
    <2>1. shipped[s] = invoice[s].total
        BY <1>0, <1>2 DEF VoidLoan, Live, Stocked, Consolidated, ConsolidatedOf, NoNotes
    <2>2. shipped'[s] = 0
        BY <1>0, <1>2, <2>1 DEF VoidLoan, TypeOK
    <2>3. invoice'[s].deleted /\ invoice'[s].ticket = invoice[s].ticket
          /\ notes'[s] = notes[s]
        BY <1>0, <1>2 DEF VoidLoan, TypeOK, InvoiceRows
    <2>4. QED
        BY <2>2, <2>3 DEF Stocked
<1>3. ASSUME NEW a, NEW src, VoidSale(s, a, src)
      PROVE  Stocked(s)'
    <2>1. shipped[s] = Consolidated(s)
        BY <1>3 DEF VoidSale, Live, Stocked
    <2>2. shipped'[s] = 0
        BY <1>0, <1>3, <2>1 DEF VoidSale, VoidedValue, TypeOK
    <2>3. invoice'[s].deleted /\ invoice'[s].ticket = "SALE"
        BY <1>0, <1>3 DEF VoidSale, Live, TypeOK, InvoiceRows
    <2>4. QED
        BY <2>2, <2>3 DEF Stocked
<1>4. QED
    BY <1>1, <1>2, <1>3 DEF Annul

LEMMA StockStep ==
    ASSUME IInv, StockInv, [Next]_vars, "loanEdit" \notin Requests
    PROVE  StockInv'
<1> SUFFICES ASSUME NEW q \in Sales PROVE Stocked(q)'
    BY DEF StockInv
<1>0. TypeOK /\ Stocked(q)
    BY DEF IInv, StockInv
<1>1. ASSUME NEW s \in Sales, Order(s) \/ Collect(s) \/ Edit(s) \/ Annul(s)
      PROVE  Stocked(q)'
    <2>1. CASE s = q
        BY <1>0, <1>1, <2>1, OrderStocked, CollectStocked, EditStocked, AnnulStocked
    <2>2. CASE s # q
        BY <1>0, <1>1, <2>2, OtherSalesFrozen, FrozenStaysStocked
    <2>3. QED
        BY <2>1, <2>2
<1>2. ASSUME NEW p \in DOMAIN payments, DeleteSalePayment(p) PROVE Stocked(q)'
    BY <1>0, <1>2, FrozenStaysStocked DEF DeleteSalePayment, Frozen
<1>3. CASE UNCHANGED vars
    BY <1>0, <1>3, FrozenStaysStocked DEF vars, Frozen
<1>4. QED
    BY <1>1, <1>2, <1>3 DEF Next

\* Where loans are not edited, the goods a sale keeps out of the warehouse are
\* what it is worth, through any sequence of loans, checkouts, edits and
\* annulments: nothing is deducted or returned twice.
THEOREM StockAlwaysMatches ==
    ASSUME "loanEdit" \notin Requests
    PROVE  Spec => []StockMatchesSales
<1>1. Init => StockInv
    BY DEF Init, StockInv, Stocked, Absent
<1>2. IInv /\ StockInv /\ [Next]_vars => StockInv'
    BY StockStep
<1>3. StockInv => StockMatchesSales
    BY DEF StockInv, Stocked, StockMatchesSales
<1>4. QED
    BY InitIInv, IInvStep, <1>1, <1>2, <1>3, PTL DEF Spec

-----------------------------------------------------------------------------
\* Payment rows and their sums: a row that is added, a row that is voided.

\* Any function that satisfies the running sum of the rows ends in LiveNet.
LEMMA LiveNetIs ==
    ASSUME NEW rows \in Seq(PaymentRows), NEW s, NEW M, NEW f,
           f = [n \in 0..Len(rows) |->
                  IF n = 0 THEN 0 ELSE f[n-1] + LiveNetOf(rows[n], s, M)]
    PROVE  LiveNet(rows, s, M) = f[Len(rows)]
<1> DEFINE w == [k \in 1..Len(rows) |-> LiveNetOf(rows[k], s, M)]
<1>0. Len(rows) \in Nat
    OBVIOUS
<1>1. PICK g \in [0..Len(rows) -> Nat] :
              /\ g = [n \in 0..Len(rows) |->
                        IF n = 0 THEN 0 ELSE g[n-1] + LiveNetOf(rows[n], s, M)]
              /\ LiveNet(rows, s, M) = g[Len(rows)]
    BY LiveNetSum
<1>2. \A n \in 1..Len(rows) : w[n] = LiveNetOf(rows[n], s, M)
    OBVIOUS
<1> HIDE DEF w
<1>3. ASSUME NEW h, h = [n \in 0..Len(rows) |->
                  IF n = 0 THEN 0 ELSE h[n-1] + LiveNetOf(rows[n], s, M)]
      PROVE  IsRunningSum(h, Len(rows), w)
    <2>1. \A n \in 0..Len(rows) :
            (IF n = 0 THEN 0 ELSE h[n-1] + w[n])
                = (IF n = 0 THEN 0 ELSE h[n-1] + LiveNetOf(rows[n], s, M))
        BY <1>0, <1>2
    <2>2. [n \in 0..Len(rows) |-> IF n = 0 THEN 0 ELSE h[n-1] + w[n]]
          = [n \in 0..Len(rows) |-> IF n = 0 THEN 0 ELSE h[n-1] + LiveNetOf(rows[n], s, M)]
        BY <2>1
    <2>3. QED
        BY <1>3, <2>2, Zenon DEF IsRunningSum
<1>4. IsRunningSum(f, Len(rows), w)
    BY <1>3
<1>5. IsRunningSum(g, Len(rows), w)
    BY <1>1, <1>3
<1>6. f = g
    BY <1>0, <1>4, <1>5, RunningSumUnique, Zenon
<1>7. QED
    BY <1>1, <1>6

\* f is the running sum of what rows count for sale s by the methods in M.
IsLiveSum(f, rows, s, M) ==
    /\ f = [n \in 0..Len(rows) |-> f[n]]
    /\ f[0] = 0
    /\ \A n \in 1..Len(rows) : f[n] = f[n-1] + LiveNetOf(rows[n], s, M)

LEMMA LiveNetEquations ==
    ASSUME NEW rows \in Seq(PaymentRows), NEW s, NEW M, NEW f, IsLiveSum(f, rows, s, M)
    PROVE  LiveNet(rows, s, M) = f[Len(rows)]
<1> USE DEF IsLiveSum
<1>0. Len(rows) \in Nat
    OBVIOUS
<1>1. \A n \in 0..Len(rows) :
          f[n] = IF n = 0 THEN 0 ELSE f[n-1] + LiveNetOf(rows[n], s, M)
    <2> TAKE n \in 0..Len(rows)
    <2>1. n = 0 \/ n \in 1..Len(rows)
        BY <1>0
    <2>2. n \in 1..Len(rows) => n # 0
        BY <1>0
    <2>3. QED
        BY <2>1, <2>2, Zenon
<1>2. [n \in 0..Len(rows) |-> f[n]]
      = [n \in 0..Len(rows) |-> IF n = 0 THEN 0 ELSE f[n-1] + LiveNetOf(rows[n], s, M)]
    BY <1>1
<1>3. f = [n \in 0..Len(rows) |->
             IF n = 0 THEN 0 ELSE f[n-1] + LiveNetOf(rows[n], s, M)]
    BY <1>2, Zenon
<1>4. QED
    BY <1>3, LiveNetIs, SMTT(30)

LEMMA LiveNetHasSum ==
    ASSUME NEW rows \in Seq(PaymentRows), NEW s, NEW M
    PROVE  \E f \in [0..Len(rows) -> Nat] : /\ IsLiveSum(f, rows, s, M)
                                            /\ LiveNet(rows, s, M) = f[Len(rows)]
<1>0. Len(rows) \in Nat
    OBVIOUS
<1>1. PICK f \in [0..Len(rows) -> Nat] :
              /\ f = [n \in 0..Len(rows) |->
                        IF n = 0 THEN 0 ELSE f[n-1] + LiveNetOf(rows[n], s, M)]
              /\ LiveNet(rows, s, M) = f[Len(rows)]
    BY LiveNetSum
<1>2. f[0] = 0 /\ \A n \in 1..Len(rows) : f[n] = f[n-1] + LiveNetOf(rows[n], s, M)
    BY <1>0, <1>1
<1>3. f = [n \in 0..Len(rows) |-> f[n]]
    OBVIOUS
<1>4. IsLiveSum(f, rows, s, M)
    BY <1>2, <1>3 DEF IsLiveSum
<1>5. QED
    BY <1>1, <1>4

\* One row more.
LEMMA LiveNetOneMore ==
    ASSUME NEW rows \in Seq(PaymentRows), NEW row \in PaymentRows, NEW s, NEW M
    PROVE  /\ rows \o <<row>> \in Seq(PaymentRows)
           /\ LiveNet(rows \o <<row>>, s, M) = LiveNet(rows, s, M) + LiveNetOf(row, s, M)
<1> DEFINE all == rows \o <<row>>
           len == Len(rows)
<1>1. PICK g \in [0..len -> Nat] :
              IsLiveSum(g, rows, s, M) /\ LiveNet(rows, s, M) = g[len]
    BY LiveNetHasSum
<1>2. /\ len \in Nat /\ all \in Seq(PaymentRows) /\ Len(all) = len + 1
      /\ all[len + 1] = row /\ \A n \in 1..len : all[n] = rows[n]
    OBVIOUS
<1>3. g[0] = 0 /\ \A n \in 1..len : g[n] = g[n-1] + LiveNetOf(rows[n], s, M)
    BY <1>1 DEF IsLiveSum
<1> DEFINE f == [n \in 0..Len(all) |-> IF n = len + 1 THEN g[len] + LiveNetOf(row, s, M)
                                      ELSE g[n]]
<1> HIDE DEF all, len
<1>4. f[0] = 0 /\ \A n \in 1..Len(all) : f[n] = f[n-1] + LiveNetOf(all[n], s, M)
    BY <1>2, <1>3
<1>5. f = [n \in 0..Len(all) |-> f[n]]
    OBVIOUS
<1>6. f[Len(all)] = g[len] + LiveNetOf(row, s, M)
    BY <1>2
<1> HIDE DEF f
<1>7. LiveNet(all, s, M) = f[Len(all)]
    <2>1. IsLiveSum(f, all, s, M)
        BY <1>4, <1>5 DEF IsLiveSum
    <2>2. QED
        BY <1>2, <2>1, LiveNetEquations
<1>8. QED
    BY <1>1, <1>2, <1>6, <1>7 DEF all, len

\* A row that is there only if it is worth something.
Perhaps(n, row) == IF n > 0 THEN <<row>> ELSE <<>>

LEMMA LiveNetPerhaps ==
    ASSUME NEW rows \in Seq(PaymentRows), NEW n \in Nat, NEW row,
           n > 0 => row \in PaymentRows, NEW s, NEW M
    PROVE  /\ Perhaps(n, row) \in Seq(PaymentRows)
           /\ rows \o Perhaps(n, row) \in Seq(PaymentRows)
           /\ LiveNet(rows \o Perhaps(n, row), s, M)
              = LiveNet(rows, s, M) + IF n > 0 THEN LiveNetOf(row, s, M) ELSE 0
<1> USE DEF Perhaps
<1>1. CASE n > 0
    BY <1>1, LiveNetOneMore
<1>2. CASE ~(n > 0)
    <2>1. rows \o <<>> = rows
        OBVIOUS
    <2>2. LiveNet(rows, s, M) \in Nat
        BY LiveNetNat
    <2>3. QED
        BY <1>2, <2>1, <2>2
<1>3. QED
    BY <1>1, <1>2

\* Voiding a row takes out what it counted.
Reversed(rows, p) == [rows EXCEPT ![p].voided = TRUE]

LEMMA LiveNetVoided ==
    ASSUME NEW rows \in Seq(PaymentRows), NEW p \in DOMAIN rows, ~rows[p].voided, NEW s, NEW M
    PROVE  /\ Reversed(rows, p) \in Seq(PaymentRows)
           /\ LiveNet(Reversed(rows, p), s, M)
              = LiveNet(rows, s, M) - LiveNetOf(rows[p], s, M)
<1> DEFINE len == Len(rows)
           gone == LiveNetOf(rows[p], s, M)
<1>1. PICK g \in [0..len -> Nat] :
              IsLiveSum(g, rows, s, M) /\ LiveNet(rows, s, M) = g[len]
    BY LiveNetHasSum
<1> DEFINE left == Reversed(rows, p)
<1>2. len \in Nat /\ p \in 1..len /\ rows[p] \in PaymentRows /\ gone \in Nat
    BY NetNat
<1>3. [rows[p] EXCEPT !.voided = TRUE] \in PaymentRows
    BY <1>2 DEF PaymentRows
<1>4. LiveNetOf([rows[p] EXCEPT !.voided = TRUE], s, M) = 0
    BY <1>2 DEF LiveNetOf, PaymentRows
<1>5. left = [rows EXCEPT ![p] = [rows[p] EXCEPT !.voided = TRUE]]
    BY DEF Reversed
<1>6. /\ left \in Seq(PaymentRows) /\ Len(left) = len
      /\ \A n \in 1..len : LiveNetOf(left[n], s, M) =
             LiveNetOf(rows[n], s, M) - IF n = p THEN gone ELSE 0
    <2> HIDE DEF left
    <2>1. left \in Seq(PaymentRows) /\ Len(left) = len
        BY <1>2, <1>3, <1>5
    <2>2. \A n \in 1..len : n # p => left[n] = rows[n] /\ LiveNetOf(rows[n], s, M) \in Nat
        BY <1>5, NetNat
    <2>3. left[p] = [rows[p] EXCEPT !.voided = TRUE]
        BY <1>2, <1>5
    <2>4. QED
        BY <1>2, <1>4, <2>1, <2>2, <2>3
<1>7. g[0] = 0 /\ \A n \in 1..len : g[n] = g[n-1] + LiveNetOf(rows[n], s, M)
    BY <1>1 DEF IsLiveSum
<1>8. \A n \in 1..len : LiveNetOf(rows[n], s, M) \in Nat
    BY NetNat
<1> DEFINE f == [n \in 0..Len(left) |-> IF n < p THEN g[n] ELSE g[n] - gone]
<1> HIDE DEF left, len, gone
<1>9. f[0] = 0 /\ \A n \in 1..Len(left) : f[n] = f[n-1] + LiveNetOf(left[n], s, M)
    <2>1. f[0] = 0
        BY <1>2, <1>6, <1>7
    <2>2. ASSUME NEW n \in 1..Len(left) PROVE f[n] = f[n-1] + LiveNetOf(left[n], s, M)
        <3>1. n \in 1..len /\ n - 1 \in 0..len /\ g[n] \in Nat /\ g[n-1] \in Nat
            BY <1>1, <1>2, <1>6
        <3>2. g[n] = g[n-1] + LiveNetOf(rows[n], s, M) /\ LiveNetOf(rows[n], s, M) \in Nat
            BY <1>7, <1>8, <3>1
        <3>3. LiveNetOf(left[n], s, M) = LiveNetOf(rows[n], s, M) - IF n = p THEN gone ELSE 0
            BY <1>6, <3>1
        <3>4. f[n] = IF n < p THEN g[n] ELSE g[n] - gone
            BY <1>6, <3>1
        <3>5. f[n-1] = IF n - 1 < p THEN g[n-1] ELSE g[n-1] - gone
            BY <1>6, <3>1
        <3> HIDE DEF f
        <3>6. QED
            BY <1>2, <3>1, <3>2, <3>3, <3>4, <3>5, SMTT(30)
    <2>3. QED
        BY <2>1, <2>2
<1>10. f = [n \in 0..Len(left) |-> f[n]]
    OBVIOUS
<1>11. f[Len(left)] = g[len] - gone
    BY <1>2, <1>6
<1> HIDE DEF f
<1>12. LiveNet(left, s, M) = f[Len(left)]
    <2>1. IsLiveSum(f, left, s, M)
        BY <1>9, <1>10 DEF IsLiveSum
    <2>2. QED
        BY <1>6, <2>1, LiveNetEquations
<1>13. QED
    BY <1>1, <1>6, <1>11, <1>12 DEF left, len, gone

\* No rows, no sum.
LEMMA LiveNetEmpty ==
    ASSUME NEW s, NEW M
    PROVE  LiveNet(<<>>, s, M) = 0
<1> DEFINE f == [n \in 0..0 |-> 0]
<1>1. Len(<<>>) = 0 /\ <<>> \in Seq(PaymentRows)
    OBVIOUS
<1>2. f[0] = 0 /\ f = [n \in 0..Len(<<>>) |-> f[n]]
    BY <1>1
<1>3. \A n \in 1..Len(<<>>) : f[n] = f[n-1] + LiveNetOf(<<>>[n], s, M)
    BY <1>1
<1> HIDE DEF f
<1>4. QED
    BY <1>1, <1>2, <1>3, LiveNetEquations

\* What a sale was paid is what it was paid by each method.
LEMMA LiveNetByMethod ==
    ASSUME NEW rows \in Seq(PaymentRows), NEW s
    PROVE  LivePaid(rows, s) = LiveNet(rows, s, {"CASH"}) + LiveNet(rows, s, {"TRANSFER"})
                               + LiveNet(rows, s, {"ADVANCE"})
<1> DEFINE len == Len(rows)
           Sums(g, m) == IsLiveSum(g, rows, s, {m}) /\ LiveNet(rows, s, {m}) = g[len]
<1>0. len \in Nat
    OBVIOUS
<1>1. PICK a \in [0..len -> Nat] : Sums(a, "CASH")
    BY LiveNetHasSum
<1>2. PICK b \in [0..len -> Nat] : Sums(b, "TRANSFER")
    BY LiveNetHasSum
<1>3. PICK c \in [0..len -> Nat] : Sums(c, "ADVANCE")
    BY LiveNetHasSum
<1>4. \A n \in 1..len :
          /\ LiveNetOf(rows[n], s, {"CASH"}) \in Nat
          /\ LiveNetOf(rows[n], s, {"TRANSFER"}) \in Nat
          /\ LiveNetOf(rows[n], s, {"ADVANCE"}) \in Nat
          /\ LiveNetOf(rows[n], s, Methods) = LiveNetOf(rows[n], s, {"CASH"})
                + LiveNetOf(rows[n], s, {"TRANSFER"}) + LiveNetOf(rows[n], s, {"ADVANCE"})
    <2> SUFFICES ASSUME NEW row \in PaymentRows
                 PROVE  /\ LiveNetOf(row, s, {"CASH"}) \in Nat
                        /\ LiveNetOf(row, s, {"TRANSFER"}) \in Nat
                        /\ LiveNetOf(row, s, {"ADVANCE"}) \in Nat
                        /\ LiveNetOf(row, s, Methods) = LiveNetOf(row, s, {"CASH"})
                             + LiveNetOf(row, s, {"TRANSFER"}) + LiveNetOf(row, s, {"ADVANCE"})
        BY SMTT(30)
    <2>1. Net(row) \in Nat /\ row.method \in Methods
        BY NetNat DEF PaymentRows
    <2>2. QED
        BY <2>1 DEF LiveNetOf, Methods
<1>5. /\ a[0] = 0 /\ b[0] = 0 /\ c[0] = 0
      /\ \A n \in 1..len : /\ a[n] = a[n-1] + LiveNetOf(rows[n], s, {"CASH"})
                           /\ b[n] = b[n-1] + LiveNetOf(rows[n], s, {"TRANSFER"})
                           /\ c[n] = c[n-1] + LiveNetOf(rows[n], s, {"ADVANCE"})
    BY <1>1, <1>2, <1>3 DEF IsLiveSum
<1> DEFINE f == [n \in 0..len |-> a[n] + b[n] + c[n]]
<1>6. f[0] = 0 /\ \A n \in 1..len : f[n] = f[n-1] + LiveNetOf(rows[n], s, Methods)
    <2>1. f[0] = 0
        BY <1>0, <1>5
    <2>2. ASSUME NEW n \in 1..len PROVE f[n] = f[n-1] + LiveNetOf(rows[n], s, Methods)
        <3>1. /\ n - 1 \in 0..len /\ n \in 0..len
              /\ a[n-1] \in Nat /\ b[n-1] \in Nat /\ c[n-1] \in Nat
            BY <1>0, SMTT(30)
        <3>2. f[n] = a[n] + b[n] + c[n] /\ f[n-1] = a[n-1] + b[n-1] + c[n-1]
            BY <3>1
        <3> HIDE DEF f
        <3>3. QED
            BY <1>4, <1>5, <3>1, <3>2, SMTT(30)
    <2>3. QED
        BY <2>1, <2>2
<1>7. f = [n \in 0..len |-> f[n]] /\ f[len] = a[len] + b[len] + c[len]
    BY <1>0
<1> HIDE DEF f, len
<1>8. LiveNet(rows, s, Methods) = f[len]
    <2>1. IsLiveSum(f, rows, s, Methods)
        BY <1>6, <1>7 DEF IsLiveSum, len
    <2>2. QED
        BY <2>1, LiveNetEquations DEF len
<1>9. QED
    BY <1>1, <1>2, <1>3, <1>7, <1>8 DEF LivePaid

\* Rows added together are rows added one after the other.
LEMMA AddedOneByOne ==
    ASSUME NEW S, NEW rows \in Seq(S), NEW A \in Seq(S), NEW B \in Seq(S), NEW C \in Seq(S)
    PROVE  rows \o (A \o B \o C) = ((rows \o A) \o B) \o C
<1>1. ASSUME NEW X \in Seq(S), NEW Y \in Seq(S), NEW Z \in Seq(S)
      PROVE  (X \o Y) \o Z = X \o (Y \o Z)
    OBVIOUS
<1>2. (rows \o A) \o B = rows \o (A \o B)
    BY <1>1
<1>3. A \o B \in Seq(S)
    OBVIOUS
<1>4. (rows \o (A \o B)) \o C = rows \o ((A \o B) \o C)
    BY <1>1, <1>3, SMTT(30)
<1>5. QED
    BY <1>2, <1>4, Zenon

\* What the tenders of a request count for sale q by the methods in M.
TendersCount(s, t, q, M) ==
    IF q # s THEN 0
    ELSE (IF "CASH" \in M THEN t.cash - t.change ELSE 0)
         + (IF "TRANSFER" \in M THEN t.transfer ELSE 0)
         + (IF "ADVANCE" \in M THEN t.advance ELSE 0)

\* The rows of the tenders of a request are worth its tenders.
LEMMA LiveNetOfTenders ==
    ASSUME NEW rows \in Seq(PaymentRows), NEW s \in Sales, NEW a \in Actors, NEW c,
           NEW t \in Tenders, t.change <= t.cash, t.advance > 0 => c \in Customers,
           NEW q, NEW M
    PROVE  LiveNet(rows \o Rows(s, a, c, t), q, M)
           = LiveNet(rows, q, M) + TendersCount(s, t, q, M)
<1> DEFINE cash == Row(s, "CASH", t.cash, t.change, a)
           transfer == Row(s, "TRANSFER", t.transfer, 0, t.bank)
           spent == Row(s, "ADVANCE", t.advance, 0, c)
           A == Perhaps(t.cash, cash)
           B == Perhaps(t.transfer, transfer)
           C == Perhaps(t.advance, spent)
<1>1. /\ t.cash \in Nat /\ t.change \in Nat /\ t.transfer \in Nat /\ t.advance \in Nat
      /\ t.bank \in Banks
    BY LedgerAssumption DEF Tenders
<1>2. cash \in PaymentRows /\ transfer \in PaymentRows
    BY <1>1, RowType DEF Methods, Accounts
<1>3. t.advance > 0 => spent \in PaymentRows
    BY <1>1, RowType DEF Methods, Accounts
<1>4. /\ LiveNetOf(cash, q, M) = IF q = s /\ "CASH" \in M THEN t.cash - t.change ELSE 0
      /\ LiveNetOf(transfer, q, M) = IF q = s /\ "TRANSFER" \in M THEN t.transfer ELSE 0
      /\ LiveNetOf(spent, q, M) = IF q = s /\ "ADVANCE" \in M THEN t.advance ELSE 0
    BY <1>1 DEF LiveNetOf, Row, Net
<1>5. Rows(s, a, c, t) = A \o B \o C
    BY DEF Rows, Perhaps
<1> HIDE DEF cash, transfer, spent
<1>7. /\ A \in Seq(PaymentRows) /\ rows \o A \in Seq(PaymentRows)
      /\ LiveNet(rows \o A, q, M) = LiveNet(rows, q, M)
           + IF q = s /\ "CASH" \in M THEN t.cash - t.change ELSE 0
    <2>1. /\ A \in Seq(PaymentRows) /\ rows \o A \in Seq(PaymentRows)
          /\ LiveNet(rows \o A, q, M)
             = LiveNet(rows, q, M) + IF t.cash > 0 THEN LiveNetOf(cash, q, M) ELSE 0
        BY <1>1, <1>2, LiveNetPerhaps
    <2>2. t.cash > 0 \/ t.cash - t.change = 0
        BY <1>1
    <2>3. QED
        BY <1>4, <2>1, <2>2
<1> DEFINE two == rows \o A
<1>8. /\ B \in Seq(PaymentRows) /\ two \o B \in Seq(PaymentRows)
      /\ LiveNet(two \o B, q, M) = LiveNet(two, q, M)
           + IF q = s /\ "TRANSFER" \in M THEN t.transfer ELSE 0
    <2>1. two \in Seq(PaymentRows)
        BY <1>7
    <2> HIDE DEF two
    <2>2. /\ B \in Seq(PaymentRows) /\ two \o B \in Seq(PaymentRows)
          /\ LiveNet(two \o B, q, M)
             = LiveNet(two, q, M) + IF t.transfer > 0 THEN LiveNetOf(transfer, q, M) ELSE 0
        BY <1>1, <1>2, <2>1, LiveNetPerhaps
    <2>3. t.transfer > 0 \/ t.transfer = 0
        BY <1>1
    <2>4. QED
        BY <1>4, <2>2, <2>3
<1> DEFINE three == two \o B
<1>9. /\ C \in Seq(PaymentRows)
      /\ LiveNet(three \o C, q, M) = LiveNet(three, q, M)
           + IF q = s /\ "ADVANCE" \in M THEN t.advance ELSE 0
    <2>1. three \in Seq(PaymentRows)
        BY <1>8
    <2> HIDE DEF three
    <2>2. /\ C \in Seq(PaymentRows)
          /\ LiveNet(three \o C, q, M)
             = LiveNet(three, q, M) + IF t.advance > 0 THEN LiveNetOf(spent, q, M) ELSE 0
        BY <1>1, <1>3, <2>1, LiveNetPerhaps
    <2>3. t.advance > 0 \/ t.advance = 0
        BY <1>1
    <2>4. QED
        BY <1>4, <2>2, <2>3
<1>10. rows \o (A \o B \o C) = three \o C
    <2>0. A \in Seq(PaymentRows) /\ B \in Seq(PaymentRows) /\ C \in Seq(PaymentRows)
        BY <1>7, <1>8, <1>9
    <2> HIDE DEF A, B, C
    <2>1. rows \o (A \o B \o C) = ((rows \o A) \o B) \o C
        BY <2>0, AddedOneByOne, SMTT(30)
    <2>2. QED
        BY <2>1 DEF two, three
<1>11. LiveNet(rows, q, M) \in Nat
    BY LiveNetNat
<1>12. LiveNet(rows \o Rows(s, a, c, t), q, M) = LiveNet(three \o C, q, M)
    BY <1>5, <1>10
<1> HIDE DEF three
<1>13. CASE q # s
    BY <1>7, <1>8, <1>9, <1>11, <1>12, <1>13 DEF TendersCount, three
<1>14. CASE q = s
    BY <1>1, <1>7, <1>8, <1>9, <1>11, <1>12, <1>14, SMTT(30) DEF TendersCount, three
<1>15. QED
    BY <1>13, <1>14

-----------------------------------------------------------------------------
\* What a request does to the live payments of each sale.
LEMMA OneRowPaid ==
    ASSUME TypeOK, NEW s \in Sales, NEW method \in Methods, NEW gross \in Nat,
           NEW x \in Accounts \cup Customers \cup {NoAccount},
           Insert(<<Row(s, method, gross, 0, x)>>), NEW q, NEW M
    PROVE  LiveNet(payments', q, M)
           = LiveNet(payments, q, M) + IF q = s /\ method \in M THEN gross ELSE 0
<1> DEFINE row == Row(s, method, gross, 0, x)
<1>1. row \in PaymentRows
    BY RowType
<1>2. LiveNetOf(row, q, M) = IF q = s /\ method \in M THEN gross ELSE 0
    BY DEF LiveNetOf, Row, Net
<1>3. payments' = payments \o <<row>> /\ payments \in Seq(PaymentRows)
    BY DEF Insert, TypeOK
<1> HIDE DEF row
<1>4. QED
    BY <1>1, <1>2, <1>3, LiveNetOneMore

\* What a payment of POST /sales counts for sale q by the methods in M.
InlineCount(s, p, q, M) ==
    IF q = s /\ (IF p.account \in Banks THEN "TRANSFER" ELSE "CASH") \in M
    THEN p.gross - p.change ELSE 0

LEMMA InlineCountOf ==
    ASSUME NEW s \in Sales, NEW p \in InlinePayments
    PROVE  /\ InlineCount(s, p, s, Methods) = p.gross - p.change
           /\ InlineCount(s, p, s, {"ADVANCE"}) = 0
           /\ \A q, M : q # s => InlineCount(s, p, q, M) = 0
           /\ \A q, M : LiveNetOf(InlineRow(s, p), q, M) = InlineCount(s, p, q, M)
           /\ \A q, M : InlineCount(s, p, q, M) \in Nat
                        /\ (p.gross = 0 => InlineCount(s, p, q, M) = 0)
<1> DEFINE net == p.gross - p.change
<1>1. /\ p.gross \in Nat /\ p.change \in Nat /\ p.change <= p.gross
      /\ net \in Nat /\ (p.gross = 0 => net = 0)
    BY InlineType
<1>2. \A q, M : LiveNetOf(InlineRow(s, p), q, M) = InlineCount(s, p, q, M)
    BY DEF InlineCount, LiveNetOf, InlineRow, Row, Net
<1> HIDE DEF net
<1>3. \A q, M : InlineCount(s, p, q, M)
                 = IF q = s /\ (IF p.account \in Banks THEN "TRANSFER" ELSE "CASH") \in M
                   THEN net ELSE 0
    BY DEF InlineCount, net
<1>4. /\ InlineCount(s, p, s, Methods) = net
      /\ InlineCount(s, p, s, {"ADVANCE"}) = 0
      /\ \A q, M : q # s => InlineCount(s, p, q, M) = 0
    BY <1>3 DEF Methods
<1>5. \A q, M : /\ InlineCount(s, p, q, M) \in Nat
                /\ p.gross = 0 => InlineCount(s, p, q, M) = 0
    BY <1>1, <1>3
<1>6. QED
    BY <1>2, <1>4, <1>5 DEF net

LEMMA InlinePaidOne ==
    ASSUME NEW rows \in Seq(PaymentRows), NEW s \in Sales, NEW p \in InlinePayments,
           NEW q, NEW M
    PROVE  /\ rows \o InlineRows(s, p) \in Seq(PaymentRows)
           /\ LiveNet(rows \o InlineRows(s, p), q, M)
              = LiveNet(rows, q, M) + InlineCount(s, p, q, M)
<1> DEFINE row == InlineRow(s, p)
<1>1. /\ p.gross \in Nat /\ row \in PaymentRows
      /\ InlineRows(s, p) = Perhaps(p.gross, row)
    BY InlineType DEF InlineRows, Perhaps
<1>2. /\ LiveNetOf(row, q, M) = InlineCount(s, p, q, M)
      /\ p.gross = 0 => InlineCount(s, p, q, M) = 0
    BY InlineCountOf
<1> HIDE DEF row
<1>3. /\ rows \o Perhaps(p.gross, row) \in Seq(PaymentRows)
      /\ LiveNet(rows \o Perhaps(p.gross, row), q, M)
         = LiveNet(rows, q, M) + IF p.gross > 0 THEN LiveNetOf(row, q, M) ELSE 0
    BY <1>1, LiveNetPerhaps
<1>4. p.gross > 0 \/ p.gross = 0
    BY <1>1
<1>5. QED
    BY <1>1, <1>2, <1>3, <1>4

LEMMA InlinePaid ==
    ASSUME TypeOK, NEW s \in Sales, NEW p \in InlinePayments, NEW r \in InlinePayments,
           Insert(InlineRows(s, p) \o InlineRows(s, r)), NEW q, NEW M
    PROVE  LiveNet(payments', q, M)
           = LiveNet(payments, q, M) + InlineCount(s, p, q, M) + InlineCount(s, r, q, M)
<1> DEFINE A == InlineRows(s, p)
           B == InlineRows(s, r)
           one == payments \o A
<1>1. /\ payments \in Seq(PaymentRows) /\ payments' = payments \o (A \o B)
      /\ A \in Seq(PaymentRows) /\ B \in Seq(PaymentRows)
    BY InlineType DEF Insert, TypeOK
<1>2. one \in Seq(PaymentRows) /\ LiveNet(one, q, M) = LiveNet(payments, q, M) + InlineCount(s, p, q, M)
    BY <1>1, InlinePaidOne
<1>3. payments' = one \o B
    <2> HIDE DEF A, B
    <2>1. payments \o (A \o B) = (payments \o A) \o B
        BY <1>1
    <2>2. QED
        BY <1>1, <2>1 DEF one
<1> HIDE DEF one
<1>4. LiveNet(one \o B, q, M) = LiveNet(one, q, M) + InlineCount(s, r, q, M)
    BY <1>2, InlinePaidOne
<1>5. QED
    BY <1>2, <1>3, <1>4

LEMMA TendersPaid ==
    ASSUME TypeOK, NEW s \in Sales, NEW a \in Actors, NEW c, NEW t \in Tenders,
           t.change <= t.cash, t.advance > 0 => c \in Customers,
           Insert(Rows(s, a, c, t)), NEW q, NEW M
    PROVE  LiveNet(payments', q, M) = LiveNet(payments, q, M) + TendersCount(s, t, q, M)
<1>1. payments' = payments \o Rows(s, a, c, t) /\ payments \in Seq(PaymentRows)
    BY DEF Insert, TypeOK
<1>2. QED
    BY <1>1, LiveNetOfTenders

LEMMA ReversalPaid ==
    ASSUME TypeOK, NEW p \in DOMAIN payments, DeleteSalePayment(p), NEW q, NEW M
    PROVE  /\ LiveNet(payments', q, M)
              = LiveNet(payments, q, M) - LiveNetOf(payments[p], q, M)
           /\ LiveNet(payments', q, M) \in Nat
<1>1. /\ payments \in Seq(PaymentRows) /\ ~payments[p].voided
      /\ payments' = Reversed(payments, p)
    BY DEF TypeOK, DeleteSalePayment, Reversed
<1>2. /\ Reversed(payments, p) \in Seq(PaymentRows)
      /\ LiveNet(Reversed(payments, p), q, M)
         = LiveNet(payments, q, M) - LiveNetOf(payments[p], q, M)
    BY <1>1, LiveNetVoided
<1>3. QED
    BY <1>1, <1>2, LiveNetNat

\* The tenders of a checkout and of a collection.
LEMMA TendersOf ==
    ASSUME NEW t \in Tenders
    PROVE  /\ t.cash \in Nat /\ t.change \in Nat /\ t.transfer \in Nat /\ t.advance \in Nat
           /\ t.bank \in Banks
           /\ TenderNet(t) \in Int
           /\ \A s : /\ TendersCount(s, t, s, Methods) = TenderNet(t)
                     /\ TendersCount(s, t, s, {"ADVANCE"}) = t.advance
           /\ \A s, q, M : q # s => TendersCount(s, t, q, M) = 0
<1>1. /\ t.cash \in Nat /\ t.change \in Nat /\ t.transfer \in Nat /\ t.advance \in Nat
      /\ t.bank \in Banks
    BY LedgerAssumption DEF Tenders
<1>2. QED
    BY <1>1 DEF TendersCount, TenderNet, Methods

\* The rest of a sale that a request for another sale leaves alone.
Still(q) ==
    /\ Frozen(q)
    /\ received'[q] = received[q] /\ timeline'[q] = timeline[q] /\ credit'[q] = credit[q]
    /\ \A M : LiveNet(payments', q, M) = LiveNet(payments, q, M)

LEMMA OtherSalesStill ==
    ASSUME TypeOK, NEW s \in Sales, NEW q \in Sales, s # q,
           Order(s) \/ Collect(s) \/ Edit(s) \/ Annul(s)
    PROVE  Still(q)
<1>0. Frozen(q)
    BY OtherSalesFrozen
<1> DEFINE Rest == /\ received'[q] = received[q] /\ timeline'[q] = timeline[q]
                   /\ credit'[q] = credit[q]
           Paid == \A M : LiveNet(payments', q, M) = LiveNet(payments, q, M)
<1>1. \A M : LiveNet(payments, q, M) \in Nat
    BY LiveNetNat DEF TypeOK
<1>2. ASSUME NEW method \in Methods, NEW gross \in Nat,
             NEW x \in Accounts \cup Customers \cup {NoAccount},
             Insert(<<Row(s, method, gross, 0, x)>>)
      PROVE  Paid
    <2> TAKE M
    <2>0. LiveNet(payments', q, M)
          = LiveNet(payments, q, M) + IF q = s /\ method \in M THEN gross ELSE 0
        <3> HIDE DEF Rest, Paid
        <3>1. QED
            BY <1>2, OneRowPaid
    <2>1. LiveNet(payments', q, M) = LiveNet(payments, q, M) + 0
        BY <2>0
    <2>2. QED
        BY <1>1, <2>1
<1>3. ASSUME NEW a \in Actors, NEW t \in Tenders, NEW c, Insert(Rows(s, a, c, t)),
             t.change <= t.cash, t.advance > 0 => c \in Customers
      PROVE  Paid
    <2> TAKE M
    <2>1. LiveNet(payments', q, M) = LiveNet(payments, q, M) + TendersCount(s, t, q, M)
        BY <1>3, TendersPaid
    <2>2. TendersCount(s, t, q, M) = 0
        BY TendersOf
    <2>3. QED
        BY <1>1, <2>1, <2>2
<1>4. CASE Order(s)
    <2>1. Rest
        <3>1. ASSUME NEW a, NEW c, NEW n, NEW p, NEW r, CreatePaidSale(s, a, c, n, p, r)
              PROVE  Rest
            BY <3>1 DEF TypeOK, CreatePaidSale, Record
        <3>2. ASSUME NEW c, NEW n, CreateSale(s, c, n) \/ EditOrder(s, c, n) \/ ConvertOrderToLoan(s)
              PROVE  Rest
            BY <3>2 DEF TypeOK, CreateSale, EditOrder, ConvertOrderToLoan, Record
        <3> HIDE DEF Rest
        <3>3. QED
            BY <1>4, <3>1, <3>2 DEF Order
    <2>2. ASSUME NEW a \in Actors, NEW c \in Clients, NEW n \in Sizes,
                 NEW p \in InlinePayments, NEW r \in InlinePayments,
                 CreatePaidSale(s, a, c, n, p, r)
          PROVE  Paid
        <3> TAKE M
        <3>1. Insert(InlineRows(s, p) \o InlineRows(s, r))
            BY <2>2 DEF CreatePaidSale
        <3>2. LiveNet(payments', q, M)
              = LiveNet(payments, q, M) + InlineCount(s, p, q, M) + InlineCount(s, r, q, M)
            BY <3>1, InlinePaid
        <3>3. InlineCount(s, p, q, M) = 0 /\ InlineCount(s, r, q, M) = 0
            BY InlineCountOf
        <3>4. QED
            BY <1>1, <3>2, <3>3
    <2>3. payments' = payments => Paid
        OBVIOUS
    <2> HIDE DEF Paid, Rest
    <2>4. Paid
        BY <1>4, <2>2, <2>3 DEF Order, CreateSale, EditOrder, ConvertOrderToLoan
    <2>5. QED
        BY <1>0, <2>1, <2>4 DEF Still, Paid, Rest
<1>5. CASE Collect(s)
    <2>1. ASSUME NEW a \in Actors, NEW t \in Tenders, NEW k, NEW from,
                 ProcessPayment(s, a, t, k, from)
          PROVE  Rest /\ Paid
        <3>1. Rest
            BY <2>1 DEF TypeOK, ProcessPayment, Record
        <3>2. t.change <= t.cash /\ (t.advance > 0 => invoice[s].customer \in Customers)
            BY <2>1 DEF ProcessPayment, TypeOK, InvoiceRows, Clients
        <3>3. Insert(Rows(s, a, invoice[s].customer, t))
            BY <2>1 DEF ProcessPayment
        <3>4. QED
            BY <1>3, <3>1, <3>2, <3>3
    <2>2. ASSUME NEW a \in Actors, NEW t \in Tenders, CollectSaleBalance(s, a, t)
          PROVE  Rest /\ Paid
        <3>1. Rest
            BY <2>2 DEF TypeOK, CollectSaleBalance, Record
        <3>2. t.change <= t.cash /\ ~(t.advance > 0) /\ Insert(Rows(s, a, NoCustomer, t))
            BY <2>2, TendersOf DEF CollectSaleBalance, WellFormed
        <3>3. QED
            BY <1>3, <3>1, <3>2
    <2>3. ASSUME NEW a \in Actors, NEW x \in Accounts, NEW m \in 1..MaxTender,
                 ProcessCreditPayment(s, a, x, m)
          PROVE  Rest /\ Paid
        <3>1. Rest
            BY <2>3 DEF TypeOK, ProcessCreditPayment, Record
        <3>2. QED
            BY <1>2, <2>3, <3>1, LedgerAssumption DEF ProcessCreditPayment, Methods
    <2>4. Rest /\ Paid
        BY <1>5, <2>1, <2>2, <2>3 DEF Collect
    <2>5. QED
        BY <1>0, <2>4 DEF Still
<1>6. CASE Edit(s)
    <2>1. ASSUME NEW a \in Actors, NEW r \in 0..(MaxUnits + MaxDebits),
                 NEW d \in 0..MaxDebits, NEW c \in Clients,
                 NEW refundTo \in Accounts \cup {NoAccount}, NEW chargeTo \in Accounts,
                 EditSale(s, a, r, d, c, refundTo, chargeTo)
          PROVE  Rest /\ Paid
        <3>1. Rest
            BY <2>1 DEF TypeOK, EditSale
        <3> DEFINE charge == IF HasCredit(s) THEN 0 ELSE d
        <3>2. charge \in Nat
            BY LedgerAssumption
        <3>3. CASE charge > 0
            BY <1>2, <2>1, <3>1, <3>2, <3>3 DEF EditSale, Methods
        <3>4. CASE ~(charge > 0)
            <4>1. payments' = payments
                BY <2>1, <3>4 DEF EditSale
            <4>2. QED
                BY <3>1, <4>1
        <3>5. QED
            BY <3>3, <3>4
    <2>2. Rest /\ Paid
        BY <1>6, <2>1 DEF Edit
    <2>3. QED
        BY <1>0, <2>2 DEF Still
<1>7. CASE Annul(s)
    <2>1. Rest /\ payments' = payments
        BY <1>7 DEF TypeOK, Annul, VoidOrder, VoidLoan, VoidSale, Record
    <2>2. QED
        BY <1>0, <2>1 DEF Still
<1>8. QED
    BY <1>4, <1>5, <1>6, <1>7

\* A reversal leaves every sale but that of the payment alone.
LEMMA OtherReversalStill ==
    ASSUME TypeOK, NEW p \in DOMAIN payments, DeleteSalePayment(p), NEW q \in Sales,
           payments[p].sale # q
    PROVE  Still(q)
<1>1. \A M : LiveNet(payments', q, M) = LiveNet(payments, q, M)
    <2> TAKE M
    <2>1. LiveNet(payments', q, M) = LiveNet(payments, q, M) - LiveNetOf(payments[p], q, M)
        BY ReversalPaid
    <2>2. LiveNetOf(payments[p], q, M) = 0
        BY DEF LiveNetOf
    <2>3. LiveNet(payments, q, M) \in Nat
        BY LiveNetNat DEF TypeOK
    <2>4. QED
        BY <2>1, <2>2, <2>3
<1>2. Frozen(q) /\ timeline'[q] = timeline[q]
    BY DEF DeleteSalePayment, Frozen
<1>3. received'[q] = received[q] /\ credit'[q] = credit[q]
    BY DEF DeleteSalePayment, TypeOK
<1>4. QED
    BY <1>1, <1>2, <1>3 DEF Still

LEMMA StutterStill ==
    ASSUME NEW q \in Sales, UNCHANGED vars
    PROVE  Still(q)
BY DEF vars, Still, Frozen

-----------------------------------------------------------------------------
\* What MoneyMatchesPayments says of one sale.  An annulled sale is deleted, so
\* that no more money reaches it; and a sale has live ADVANCE rows only while it
\* has the customer they go back to.
MoneyFits(s) ==
    /\ ~Annulled(s) => received[s] = LivePaid(payments, s)
    /\ Annulled(s) /\ invoice[s].ticket = "SALE" => received[s] = 0
    /\ Annulled(s) => invoice[s].deleted
    /\ invoice[s].ticket # "SALE" \/ invoice[s].customer = NoCustomer =>
           LiveNet(payments, s, {"ADVANCE"}) = 0

MoneyInv == \A s \in Sales : MoneyFits(s)

\* Other requests, other sales.
LEMMA StillFits ==
    ASSUME NEW q \in Sales, MoneyFits(q), Still(q)
    PROVE  MoneyFits(q)'
BY DEF MoneyFits, Still, Frozen, Annulled, LivePaid

\* A request that takes m for a sale, writes the row of it and records that it
\* was not an annulment.
Takes(s, m) ==
    /\ received'[s] = received[s] + m
    /\ LivePaid(payments', s) = LivePaid(payments, s) + m
    /\ ~invoice[s].deleted
    /\ "VOIDED" \in timeline'[s] => "VOIDED" \in timeline[s]

LEMMA MoneyTaken ==
    ASSUME NEW s \in Sales, MoneyFits(s), NEW m \in Int, Takes(s, m),
           invoice'[s].ticket # "SALE" \/ invoice'[s].customer = NoCustomer
               => LiveNet(payments', s, {"ADVANCE"}) = 0
    PROVE  MoneyFits(s)'
BY DEF MoneyFits, Takes, Annulled

LEMMA OrderMoney ==
    ASSUME IInv, NEW s \in Sales, MoneyFits(s), Order(s), "change" \notin Requests
    PROVE  MoneyFits(s)'
<1>0. /\ TypeOK /\ LivePaid(payments, s) \in Nat /\ received[s] \in Int
      /\ invoice[s] \in InvoiceRows
    BY LiveNetNat DEF IInv, TypeOK, LivePaid
<1>1. ASSUME NEW events, Record(s, events), "VOIDED" \notin events,
             payments' = payments, received' = received, ~invoice[s].deleted,
             invoice[s].ticket # "SALE", invoice'[s].ticket # "SALE"
      PROVE  MoneyFits(s)'
    <2>1. Takes(s, 0)
        BY <1>0, <1>1 DEF TypeOK, Takes, Record
    <2>2. LiveNet(payments', s, {"ADVANCE"}) = 0
        BY <1>1 DEF MoneyFits
    <2>3. QED
        BY <2>1, <2>2, MoneyTaken
<1>2. ASSUME NEW c \in Clients, NEW n \in Sizes, CreateSale(s, c, n)
      PROVE  MoneyFits(s)'
    BY <1>0, <1>1, <1>2 DEF CreateSale, Absent, TypeOK
<1>3. ASSUME NEW a \in Actors, NEW c \in Clients, NEW n \in Sizes,
             NEW p \in InlinePayments, NEW r \in InlinePayments,
             CreatePaidSale(s, a, c, n, p, r)
      PROVE  MoneyFits(s)'
    <2> DEFINE g == p.gross + r.gross
    <2>1. /\ Insert(InlineRows(s, p) \o InlineRows(s, r))
          /\ received' = [received EXCEPT ![s] = @ + g]
          /\ ~(p.change + r.change > 0)
        BY <1>3 DEF CreatePaidSale
    <2>2. /\ p.gross \in Nat /\ r.gross \in Nat /\ g \in Int
          /\ p.change = 0 /\ r.change = 0
        BY <2>1, InlineType
    <2>3. \A M : LiveNet(payments', s, M)
                 = LiveNet(payments, s, M) + InlineCount(s, p, s, M) + InlineCount(s, r, s, M)
        BY <1>0, <2>1, InlinePaid
    <2>4. LivePaid(payments', s) = LivePaid(payments, s) + g
        BY <1>0, <2>2, <2>3, InlineCountOf DEF LivePaid
    <2>5. LiveNet(payments', s, {"ADVANCE"}) = 0
        <3>1. LiveNet(payments, s, {"ADVANCE"}) = 0
            BY <1>3 DEF MoneyFits, CreatePaidSale, Absent
        <3>2. QED
            BY <2>3, <3>1, InlineCountOf
    <2> HIDE DEF g
    <2>6. Takes(s, g)
        BY <1>0, <1>3, <2>1, <2>2, <2>4 DEF CreatePaidSale, Absent, TypeOK, Record, Takes
    <2>7. QED
        BY <2>2, <2>5, <2>6, MoneyTaken
<1>4. ASSUME NEW c \in Clients, NEW n \in Sizes, EditOrder(s, c, n)
      PROVE  MoneyFits(s)'
    <2>1. /\ UNCHANGED <<payments, received, timeline>> /\ invoice'[s].ticket = "ORDER"
          /\ invoice[s].ticket = "ORDER" /\ ~invoice[s].deleted
        BY <1>0, <1>4 DEF EditOrder, Live, TypeOK, InvoiceRows
    <2>2. QED
        BY <2>1 DEF MoneyFits, Annulled
<1>5. CASE ConvertOrderToLoan(s)
    <2>1. invoice'[s].ticket = "LOAN"
        BY <1>0, <1>5 DEF ConvertOrderToLoan, TypeOK, InvoiceRows
    <2>2. QED
        BY <1>1, <1>5, <2>1 DEF ConvertOrderToLoan, Live
<1>6. QED
    BY <1>2, <1>3, <1>4, <1>5 DEF Order

LEMMA CollectMoney ==
    ASSUME IInv, NEW s \in Sales, MoneyFits(s), Collect(s),
           "change" \notin Requests, "lateInstalment" \notin Requests
    PROVE  MoneyFits(s)'
<1>0. /\ TypeOK /\ LivePaid(payments, s) \in Nat /\ received[s] \in Int
      /\ invoice[s] \in InvoiceRows
    BY LiveNetNat DEF IInv, TypeOK, LivePaid
<1>1. ASSUME NEW a \in Actors, NEW t \in Tenders, NEW k \in 0..MaxUnits,
             NEW from \in {"ORDER", "LOAN"}, ProcessPayment(s, a, t, k, from)
      PROVE  MoneyFits(s)'
    <2> DEFINE c == invoice[s].customer
    <2>1. /\ t.change <= t.cash /\ (t.advance > 0 => c \in Customers)
          /\ Insert(Rows(s, a, c, t))
          /\ received' = [received EXCEPT ![s] = @ + TenderNet(t)]
          /\ invoice[s].ticket # "SALE" /\ ~invoice[s].deleted
        BY <1>0, <1>1 DEF ProcessPayment, InvoiceRows, Clients, Live
    <2>2. "VOIDED" \in timeline'[s] => "VOIDED" \in timeline[s]
        BY <1>0, <1>1 DEF ProcessPayment, TypeOK, Record
    <2>3. \A M : LiveNet(payments', s, M) = LiveNet(payments, s, M) + TendersCount(s, t, s, M)
        BY <1>0, <2>1, TendersPaid
    <2>4. LivePaid(payments', s) = LivePaid(payments, s) + TenderNet(t)
        BY <2>3, TendersOf DEF LivePaid
    <2>5. LiveNet(payments', s, {"ADVANCE"}) = t.advance
        BY <2>1, <2>3, TendersOf DEF MoneyFits
    <2>6. invoice'[s].customer = c
        BY <1>0, <1>1 DEF ProcessPayment, TypeOK, InvoiceRows
    <2>7. invoice'[s].ticket = "SALE"
        BY <1>0, <1>1 DEF ProcessPayment, TypeOK, InvoiceRows
    <2>8. c = NoCustomer => t.advance = 0
        BY <2>1, TendersOf, LedgerAssumption
    <2> HIDE DEF c
    <2>9. Takes(s, TenderNet(t))
        BY <1>0, <2>1, <2>2, <2>4, TendersOf DEF Takes, TypeOK
    <2>10. QED
        BY <2>5, <2>6, <2>7, <2>8, <2>9, TendersOf, MoneyTaken
<1>2. ASSUME NEW a \in Actors, NEW t \in Tenders, CollectSaleBalance(s, a, t)
      PROVE  MoneyFits(s)'
    <2>1. /\ t.change = 0 /\ t.advance = 0 /\ t.change <= t.cash
          /\ Insert(Rows(s, a, NoCustomer, t))
          /\ invoice' = invoice
          /\ invoice[s].ticket = "SALE" /\ ~invoice[s].deleted
        BY <1>2, TendersOf DEF CollectSaleBalance, WellFormed, Live
    <2>2. "VOIDED" \in timeline'[s] => "VOIDED" \in timeline[s]
        BY <1>0, <1>2 DEF CollectSaleBalance, TypeOK, Record
    <2>3. \A M : LiveNet(payments', s, M) = LiveNet(payments, s, M) + TendersCount(s, t, s, M)
        BY <1>0, <2>1, TendersOf, TendersPaid
    <2>4. LivePaid(payments', s) = LivePaid(payments, s) + TenderNet(t)
        BY <2>3, TendersOf DEF LivePaid
    <2>5. LiveNet(payments', s, {"ADVANCE"}) = LiveNet(payments, s, {"ADVANCE"})
        <3>1. LiveNet(payments, s, {"ADVANCE"}) \in Nat
            BY <1>0, LiveNetNat DEF TypeOK
        <3>2. QED
            BY <2>1, <2>3, <3>1, TendersOf
    <2>6. received' = [received EXCEPT ![s] = @ + TenderNet(t)]
        <3>1. received[s] + t.cash + t.transfer = received[s] + TenderNet(t)
            BY <1>0, <2>1, TendersOf DEF TenderNet
        <3>2. QED
            BY <1>2, <3>1 DEF CollectSaleBalance
    <2>7. Takes(s, TenderNet(t))
        BY <1>0, <2>1, <2>2, <2>4, <2>6, TendersOf DEF Takes, TypeOK
    <2>8. QED
        BY <2>1, <2>5, <2>7, TendersOf, MoneyTaken DEF MoneyFits
<1>3. ASSUME NEW a \in Actors, NEW x \in Accounts, NEW m \in 1..MaxTender,
             ProcessCreditPayment(s, a, x, m)
      PROVE  MoneyFits(s)'
    <2> DEFINE method == IF x \in Banks THEN "TRANSFER" ELSE "CASH"
    <2>1. /\ Insert(<<Row(s, method, m, 0, x)>>) /\ m \in Nat
          /\ method \in Methods /\ method # "ADVANCE"
          /\ received' = [received EXCEPT ![s] = @ + m]
          /\ ~invoice[s].deleted /\ invoice' = invoice
        BY <1>3, LedgerAssumption DEF ProcessCreditPayment, Methods
    <2> HIDE DEF method
    <2>2. \A M : LiveNet(payments', s, M)
                    = LiveNet(payments, s, M) + IF method \in M THEN m ELSE 0
        BY <1>0, <2>1, OneRowPaid
    <2>3. LivePaid(payments', s) = LivePaid(payments, s) + m
        BY <2>1, <2>2 DEF LivePaid
    <2>4. LiveNet(payments', s, {"ADVANCE"}) = LiveNet(payments, s, {"ADVANCE"})
        <3>1. LiveNet(payments, s, {"ADVANCE"}) \in Nat
            BY <1>0, LiveNetNat DEF TypeOK
        <3>2. QED
            BY <2>1, <2>2, <3>1
    <2>5. "VOIDED" \in timeline'[s] => "VOIDED" \in timeline[s]
        BY <1>0, <1>3 DEF ProcessCreditPayment, TypeOK, Record
    <2>6. Takes(s, m)
        BY <1>0, <2>1, <2>3, <2>5 DEF Takes, TypeOK
    <2>7. QED
        BY <2>1, <2>4, <2>6, MoneyTaken DEF MoneyFits
<1>4. QED
    BY <1>1, <1>2, <1>3 DEF Collect

LEMMA EditMoney ==
    ASSUME IInv, NEW s \in Sales, MoneyFits(s), Edit(s),
           "refund" \notin Requests, "reassign" \notin Requests
    PROVE  MoneyFits(s)'
<1> SUFFICES ASSUME NEW a \in Actors, NEW r \in 0..(MaxUnits + MaxDebits),
                    NEW d \in 0..MaxDebits, NEW c \in Clients,
                    NEW refundTo \in Accounts \cup {NoAccount}, NEW chargeTo \in Accounts,
                    EditSale(s, a, r, d, c, refundTo, chargeTo)
             PROVE  MoneyFits(s)'
    BY DEF Edit
<1> DEFINE charge == IF HasCredit(s) THEN 0 ELSE d
<1>0. /\ TypeOK /\ received[s] \in Int /\ invoice[s] \in InvoiceRows
      /\ \A M : LiveNet(payments, s, M) \in Nat
    BY LiveNetNat DEF IInv, TypeOK
<1>1. charge \in Nat /\ refundTo = NoAccount /\ c = invoice[s].customer
    BY LedgerAssumption DEF EditSale
<1>2. received'[s] = received[s] + charge
    BY <1>0, <1>1 DEF EditSale, TypeOK
<1>3. /\ LivePaid(payments', s) = LivePaid(payments, s) + charge
      /\ LiveNet(payments', s, {"ADVANCE"}) = LiveNet(payments, s, {"ADVANCE"})
    <2>1. CASE charge > 0
        <3> DEFINE method == IF chargeTo = a THEN "CASH" ELSE "TRANSFER"
                   x == IF chargeTo = a THEN NoAccount ELSE chargeTo
        <3>1. /\ Insert(<<Row(s, method, charge, 0, x)>>)
              /\ method \in Methods /\ method # "ADVANCE"
              /\ x \in Accounts \cup Customers \cup {NoAccount}
            BY <2>1 DEF EditSale, Methods
        <3> HIDE DEF method, x, charge
        <3>2. \A M : LiveNet(payments', s, M)
                        = LiveNet(payments, s, M) + IF method \in M THEN charge ELSE 0
            BY <1>0, <1>1, <3>1, OneRowPaid
        <3>3. QED
            BY <1>0, <3>1, <3>2 DEF LivePaid
    <2>2. CASE ~(charge > 0)
        <3>1. payments' = payments
            BY <2>2 DEF EditSale
        <3>2. QED
            BY <1>0, <1>1, <2>2, <3>1 DEF LivePaid
    <2>3. QED
        BY <2>1, <2>2
<1>4. timeline' = timeline /\ ~invoice[s].deleted
    BY DEF EditSale, Live
<1>5. invoice'[s].ticket = invoice[s].ticket /\ invoice'[s].customer = invoice[s].customer
    BY <1>0, <1>1 DEF EditSale, TypeOK, InvoiceRows
<1> HIDE DEF charge
<1>6. QED
    BY <1>2, <1>3, <1>4, <1>5 DEF MoneyFits, Annulled

LEMMA AnnulMoney ==
    ASSUME IInv, NEW s \in Sales, MoneyFits(s), Annul(s)
    PROVE  MoneyFits(s)'
<1>0. /\ TypeOK /\ received[s] \in Int /\ invoice[s] \in InvoiceRows
      /\ \A M : LiveNet(payments, s, M) \in Nat
    BY LiveNetNat DEF IInv, TypeOK
<1>1. CASE VoidOrder(s) \/ VoidLoan(s)
    <2>1. /\ invoice'[s].deleted /\ invoice'[s].ticket # "SALE"
          /\ invoice[s].ticket # "SALE"
          /\ Annulled(s)' /\ payments' = payments
        BY <1>0, <1>1 DEF VoidOrder, VoidLoan, Live, TypeOK, InvoiceRows, Annulled, Record
    <2>2. QED
        BY <2>1 DEF MoneyFits
<1>2. ASSUME NEW a, NEW src, VoidSale(s, a, src)
      PROVE  MoneyFits(s)'
    <2> DEFINE cash     == LiveNet(payments, s, {"CASH"})
               transfer == LiveNet(payments, s, {"TRANSFER"})
               spent    == LiveNet(payments, s, {"ADVANCE"})
               restored == IF invoice[s].customer = NoCustomer THEN 0 ELSE spent
    <2>1. /\ invoice[s].ticket = "SALE" /\ ~invoice[s].deleted
          /\ invoice'[s].deleted /\ invoice'[s].ticket = "SALE"
          /\ invoice'[s].customer = invoice[s].customer
          /\ payments' = payments
        BY <1>0, <1>2 DEF VoidSale, Live, TypeOK, InvoiceRows
    <2>2. Annulled(s)'
        BY <1>0, <1>2 DEF VoidSale, TypeOK, Annulled, Record
    <2>3. restored = spent /\ received[s] = LivePaid(payments, s)
        BY <2>1 DEF MoneyFits
    <2>4. received' = [received EXCEPT ![s] = @ - cash - transfer - restored]
        BY <1>2 DEF VoidSale
    <2>5. LivePaid(payments, s) = cash + transfer + spent
        BY <1>0, LiveNetByMethod DEF TypeOK
    <2>6. cash \in Nat /\ transfer \in Nat /\ spent \in Nat
        BY <1>0
    <2> HIDE DEF cash, transfer, spent, restored
    <2>7. received'[s] = 0
        BY <1>0, <2>3, <2>4, <2>5, <2>6 DEF TypeOK
    <2>8. QED
        BY <2>1, <2>2, <2>7 DEF MoneyFits
<1>3. QED
    BY <1>1, <1>2 DEF Annul

LEMMA ReversalMoney ==
    ASSUME IInv, NEW p \in DOMAIN payments, DeleteSalePayment(p), NEW s \in Sales,
           payments[p].sale = s, MoneyFits(s)
    PROVE  MoneyFits(s)'
<1>0. /\ TypeOK /\ received[s] \in Int /\ payments[p] \in PaymentRows
      /\ \A M : LiveNet(payments, s, M) \in Nat
    BY LiveNetNat DEF IInv, TypeOK
<1>1. \A M : /\ LiveNet(payments', s, M) \in Nat
             /\ LiveNet(payments', s, M)
                = LiveNet(payments, s, M) - LiveNetOf(payments[p], s, M)
    BY <1>0, ReversalPaid
<1>2. /\ Net(payments[p]) \in Nat
      /\ \A M : LiveNetOf(payments[p], s, M) \in Nat
      /\ LiveNetOf(payments[p], s, Methods) = Net(payments[p])
    BY <1>0, NetNat DEF LiveNetOf, DeleteSalePayment, PaymentRows
<1>3. received'[s] = received[s] - Net(payments[p])
    BY <1>0 DEF DeleteSalePayment, TypeOK
<1>4. /\ invoice' = invoice /\ timeline' = timeline /\ ~invoice[s].deleted
    BY DEF DeleteSalePayment, Live
<1>5. LivePaid(payments', s) = LivePaid(payments, s) - Net(payments[p])
    BY <1>1, <1>2 DEF LivePaid
<1>6. LiveNet(payments, s, {"ADVANCE"}) = 0 => LiveNet(payments', s, {"ADVANCE"}) = 0
    <2>1. LiveNetOf(payments[p], s, {"ADVANCE"}) \in Nat
        BY <1>2
    <2>2. LiveNet(payments', s, {"ADVANCE"}) \in Nat
        BY <1>1
    <2>3. LiveNet(payments', s, {"ADVANCE"})
          = LiveNet(payments, s, {"ADVANCE"}) - LiveNetOf(payments[p], s, {"ADVANCE"})
        BY <1>1
    <2>4. QED
        BY <2>1, <2>2, <2>3
<1>7. QED
    BY <1>3, <1>4, <1>5, <1>6 DEF MoneyFits, Annulled

LEMMA MoneyStep ==
    ASSUME IInv, MoneyInv, [Next]_vars,
           Requests \cap {"change", "refund", "reassign", "lateInstalment"} = {}
    PROVE  MoneyInv'
<1> SUFFICES ASSUME NEW q \in Sales PROVE MoneyFits(q)'
    BY DEF MoneyInv
<1>0. TypeOK /\ MoneyFits(q)
    BY DEF IInv, MoneyInv
<1>1. ASSUME NEW s \in Sales, Order(s) \/ Collect(s) \/ Edit(s) \/ Annul(s)
      PROVE  MoneyFits(q)'
    <2>1. CASE s = q
        BY <1>0, <1>1, <2>1, OrderMoney, CollectMoney, EditMoney, AnnulMoney
    <2>2. CASE s # q
        BY <1>0, <1>1, <2>2, OtherSalesStill, StillFits
    <2>3. QED
        BY <2>1, <2>2
<1>2. ASSUME NEW p \in DOMAIN payments, DeleteSalePayment(p) PROVE MoneyFits(q)'
    <2>1. CASE payments[p].sale = q
        BY <1>0, <1>2, <2>1, ReversalMoney
    <2>2. CASE payments[p].sale # q
        BY <1>0, <1>2, <2>2, OtherReversalStill, StillFits
    <2>3. QED
        BY <2>1, <2>2
<1>3. CASE UNCHANGED vars
    BY <1>0, <1>3, StutterStill, StillFits
<1>4. QED
    BY <1>1, <1>2, <1>3 DEF Next

\* Where no collection and no payment of POST /sales gives change, an edit
\* refunds nothing and keeps the customer, and no instalment is taken for an annulled sale, the cash
\* logs, movements and advances of a sale add up to its live payments as long
\* as it stands and cancel out when it is annulled, in any order of requests.
THEOREM MoneyAlwaysMatches ==
    ASSUME Requests \cap {"change", "refund", "reassign", "lateInstalment"} = {}
    PROVE  Spec => []MoneyMatchesPayments
<1>1. Init => MoneyInv
    <2> SUFFICES ASSUME Init, NEW s \in Sales PROVE MoneyFits(s)
        BY DEF MoneyInv
    <2>1. \A M : LiveNet(payments, s, M) = 0
        BY LiveNetEmpty DEF Init
    <2>2. received[s] = 0 /\ timeline[s] = {} /\ invoice[s].ticket = "NONE"
        BY DEF Init, Absent
    <2>3. QED
        BY <2>1, <2>2 DEF MoneyFits, LivePaid, Annulled
<1>2. IInv /\ MoneyInv /\ [Next]_vars => MoneyInv'
    BY MoneyStep
<1>3. MoneyInv => MoneyMatchesPayments
    BY DEF MoneyInv, MoneyFits, MoneyMatchesPayments
<1>4. QED
    BY InitIInv, IInvStep, <1>1, <1>2, <1>3, PTL DEF Spec

-----------------------------------------------------------------------------
\* What was received for a sale covers its live payments until it is deleted,
\* so that whoever returns them never pays out more than came in.
Backed(s) ==
    /\ received[s] >= 0
    /\ ~invoice[s].deleted => received[s] >= LivePaid(payments, s)

BackedInv == \A s \in Sales : Backed(s)

LEMMA StillBacked ==
    ASSUME NEW q \in Sales, Backed(q), Still(q)
    PROVE  Backed(q)'
BY DEF Backed, Still, Frozen, LivePaid

\* A request that takes at least what it writes in payment rows.
Brings(s, m) ==
    /\ received'[s] >= received[s] + m
    /\ LivePaid(payments', s) = LivePaid(payments, s) + m
    /\ invoice[s].deleted => invoice'[s].deleted

LEMMA BroughtBacked ==
    ASSUME TypeOK, TypeOK', NEW s \in Sales, Backed(s), NEW m \in Nat, Brings(s, m)
    PROVE  Backed(s)'
<1>1. /\ received[s] \in Int /\ received'[s] \in Int
      /\ LivePaid(payments, s) \in Nat
      /\ invoice[s].deleted \in BOOLEAN /\ invoice'[s].deleted \in BOOLEAN
    BY LiveNetNat DEF TypeOK, LivePaid, InvoiceRows
<1>2. QED
    BY <1>1 DEF Backed, Brings

LEMMA OrderBacked ==
    ASSUME TypeOK, TypeOK', NEW s \in Sales, Backed(s), Order(s)
    PROVE  Backed(s)'
<1>0. LivePaid(payments, s) \in Nat /\ received[s] \in Int
    BY LiveNetNat DEF TypeOK, LivePaid
<1>1. CASE /\ UNCHANGED <<payments, received>>
           /\ ~invoice[s].deleted
    <2>1. Brings(s, 0)
        BY <1>0, <1>1 DEF Brings
    <2>2. QED
        BY <2>1, BroughtBacked
<1>2. ASSUME NEW a \in Actors, NEW c \in Clients, NEW n \in Sizes,
             NEW p \in InlinePayments, NEW r \in InlinePayments,
             CreatePaidSale(s, a, c, n, p, r)
      PROVE  Backed(s)'
    <2> DEFINE net == (p.gross - p.change) + (r.gross - r.change)
    <2>1. Insert(InlineRows(s, p) \o InlineRows(s, r))
        BY <1>2 DEF CreatePaidSale
    <2>2. /\ p.gross + r.gross \in Nat /\ net \in Nat /\ net <= p.gross + r.gross
          /\ p.gross - p.change \in Nat /\ r.gross - r.change \in Nat
        <3>1. /\ p.gross \in Nat /\ p.change \in Nat /\ p.change <= p.gross
              /\ r.gross \in Nat /\ r.change \in Nat /\ r.change <= r.gross
            BY InlineType
        <3>2. QED
            BY <3>1
    <2>3. LiveNet(payments', s, Methods) = LiveNet(payments, s, Methods)
              + InlineCount(s, p, s, Methods) + InlineCount(s, r, s, Methods)
        BY <2>1, InlinePaid
    <2>4. LivePaid(payments', s) = LivePaid(payments, s) + net
        BY <1>0, <2>2, <2>3, InlineCountOf DEF LivePaid
    <2>5. received'[s] = received[s] + (p.gross + r.gross) /\ ~invoice[s].deleted
        BY <1>2 DEF CreatePaidSale, Absent, TypeOK
    <2> HIDE DEF net
    <2>6. Brings(s, net)
        BY <1>0, <2>2, <2>4, <2>5 DEF Brings
    <2>7. QED
        BY <2>2, <2>6, BroughtBacked
<1>3. ASSUME NEW c, NEW n, CreateSale(s, c, n)
      PROVE  UNCHANGED <<payments, received>> /\ ~invoice[s].deleted
    BY <1>3 DEF CreateSale, Absent
<1>4. ASSUME NEW c, NEW n, EditOrder(s, c, n)
      PROVE  UNCHANGED <<payments, received>> /\ ~invoice[s].deleted
    BY <1>4 DEF EditOrder, Live
<1>5. ASSUME ConvertOrderToLoan(s)
      PROVE  UNCHANGED <<payments, received>> /\ ~invoice[s].deleted
    BY <1>5 DEF ConvertOrderToLoan, Live
<1>6. QED
    BY <1>1, <1>2, <1>3, <1>4, <1>5 DEF Order

\* Change stays in the register although the row counts the tender without it.
LEMMA CollectBacked ==
    ASSUME TypeOK, TypeOK', NEW s \in Sales, Backed(s), Collect(s)
    PROVE  Backed(s)'
<1>0. /\ LivePaid(payments, s) \in Nat /\ received[s] \in Int
      /\ invoice[s] \in InvoiceRows
    BY LiveNetNat DEF TypeOK, LivePaid
<1>1. ASSUME NEW a \in Actors, NEW t \in Tenders, NEW k \in 0..MaxUnits,
             NEW from \in {"ORDER", "LOAN"}, ProcessPayment(s, a, t, k, from)
      PROVE  Backed(s)'
    <2> DEFINE c == invoice[s].customer
    <2>1. /\ t.change <= t.cash /\ (t.advance > 0 => c \in Customers)
          /\ Insert(Rows(s, a, c, t))
          /\ ~invoice[s].deleted
        BY <1>0, <1>1 DEF ProcessPayment, InvoiceRows, Clients, Live
    <2>2. LiveNet(payments', s, Methods)
            = LiveNet(payments, s, Methods) + TendersCount(s, t, s, Methods)
        BY <2>1, TendersPaid
    <2>3. LivePaid(payments', s) = LivePaid(payments, s) + TenderNet(t)
        BY <2>2, TendersOf DEF LivePaid
    <2>4. received'[s] = received[s] + TenderNet(t)
        BY <1>1 DEF ProcessPayment, TypeOK
    <2>5. TenderNet(t) \in Nat
        BY <2>1, TendersOf DEF TenderNet
    <2>6. Brings(s, TenderNet(t))
        BY <1>0, <2>1, <2>3, <2>4, <2>5 DEF Brings
    <2>7. QED
        BY <2>5, <2>6, BroughtBacked
<1>2. ASSUME NEW a \in Actors, NEW t \in Tenders, CollectSaleBalance(s, a, t)
      PROVE  Backed(s)'
    <2>1. /\ t.advance = 0 /\ t.change <= t.cash
          /\ Insert(Rows(s, a, NoCustomer, t))
          /\ ~invoice[s].deleted
        BY <1>2 DEF CollectSaleBalance, WellFormed, Live
    <2>2. LiveNet(payments', s, Methods)
            = LiveNet(payments, s, Methods) + TendersCount(s, t, s, Methods)
        BY <2>1, TendersOf, TendersPaid
    <2>3. LivePaid(payments', s) = LivePaid(payments, s) + TenderNet(t)
        BY <2>2, TendersOf DEF LivePaid
    <2>4. received'[s] = received[s] + t.cash + t.transfer
        BY <1>2 DEF CollectSaleBalance, TypeOK
    <2>5. TenderNet(t) \in Nat /\ TenderNet(t) <= t.cash + t.transfer
        BY <2>1, TendersOf DEF TenderNet
    <2>6. Brings(s, TenderNet(t))
        BY <1>0, <2>1, <2>3, <2>4, <2>5, TendersOf DEF Brings
    <2>7. QED
        BY <2>5, <2>6, BroughtBacked
<1>3. ASSUME NEW a \in Actors, NEW x \in Accounts, NEW m \in 1..MaxTender,
             ProcessCreditPayment(s, a, x, m)
      PROVE  Backed(s)'
    <2> DEFINE method == IF x \in Banks THEN "TRANSFER" ELSE "CASH"
    <2>1. /\ Insert(<<Row(s, method, m, 0, x)>>) /\ m \in Nat /\ method \in Methods
          /\ invoice' = invoice
        BY <1>3, LedgerAssumption DEF ProcessCreditPayment, Methods
    <2> HIDE DEF method
    <2>2. LiveNet(payments', s, Methods) = LiveNet(payments, s, Methods) + m
        BY <2>1, OneRowPaid
    <2>3. received'[s] = received[s] + m
        BY <1>3 DEF ProcessCreditPayment, TypeOK
    <2>4. Brings(s, m)
        BY <1>0, <2>1, <2>2, <2>3 DEF Brings, LivePaid
    <2>5. QED
        BY <2>1, <2>4, BroughtBacked
<1>4. QED
    BY <1>1, <1>2, <1>3 DEF Collect

LEMMA EditBacked ==
    ASSUME TypeOK, TypeOK', NEW s \in Sales, Backed(s), Edit(s), "refund" \notin Requests
    PROVE  Backed(s)'
<1> SUFFICES ASSUME NEW a \in Actors, NEW r \in 0..(MaxUnits + MaxDebits),
                    NEW d \in 0..MaxDebits, NEW c \in Clients,
                    NEW refundTo \in Accounts \cup {NoAccount}, NEW chargeTo \in Accounts,
                    EditSale(s, a, r, d, c, refundTo, chargeTo)
             PROVE  Backed(s)'
    BY DEF Edit
<1> DEFINE charge == IF HasCredit(s) THEN 0 ELSE d
<1>0. LivePaid(payments, s) \in Nat /\ received[s] \in Int
    BY LiveNetNat DEF TypeOK, LivePaid
<1>1. charge \in Nat /\ refundTo = NoAccount /\ ~invoice[s].deleted
    BY LedgerAssumption DEF EditSale, Live
<1>2. received'[s] = received[s] + charge
    BY <1>0, <1>1 DEF EditSale, TypeOK
<1>3. LivePaid(payments', s) = LivePaid(payments, s) + charge
    <2>1. CASE charge > 0
        <3> DEFINE method == IF chargeTo = a THEN "CASH" ELSE "TRANSFER"
                   x == IF chargeTo = a THEN NoAccount ELSE chargeTo
        <3>1. /\ Insert(<<Row(s, method, charge, 0, x)>>) /\ method \in Methods
              /\ x \in Accounts \cup Customers \cup {NoAccount}
            BY <2>1 DEF EditSale, Methods
        <3> HIDE DEF method, x, charge
        <3>2. QED
            BY <1>1, <3>1, OneRowPaid DEF LivePaid
    <2>2. CASE ~(charge > 0)
        <3>1. payments' = payments
            BY <2>2 DEF EditSale
        <3>2. QED
            BY <1>0, <1>1, <2>2, <3>1
    <2>3. QED
        BY <2>1, <2>2
<1> HIDE DEF charge
<1>4. Brings(s, charge)
    BY <1>0, <1>1, <1>2, <1>3 DEF Brings
<1>5. QED
    BY <1>1, <1>4, BroughtBacked

\* An annulment returns live payments, and advances to a customer if any.
LEMMA AnnulBacked ==
    ASSUME TypeOK, TypeOK', NEW s \in Sales, Backed(s), Annul(s)
    PROVE  Backed(s)'
<1>0. /\ received[s] \in Int /\ invoice[s] \in InvoiceRows
      /\ \A M : LiveNet(payments, s, M) \in Nat
    BY LiveNetNat DEF TypeOK
<1>1. CASE VoidOrder(s) \/ VoidLoan(s)
    <2>1. UNCHANGED <<payments, received>> /\ ~invoice[s].deleted
        BY <1>1 DEF VoidOrder, VoidLoan, Live
    <2>2. Brings(s, 0)
        BY <1>0, <2>1 DEF Brings, LivePaid
    <2>3. QED
        BY <2>2, BroughtBacked
<1>2. ASSUME NEW a, NEW src, VoidSale(s, a, src)
      PROVE  Backed(s)'
    <2> DEFINE cash     == LiveNet(payments, s, {"CASH"})
               transfer == LiveNet(payments, s, {"TRANSFER"})
               spent    == LiveNet(payments, s, {"ADVANCE"})
               restored == IF invoice[s].customer = NoCustomer THEN 0 ELSE spent
    <2>1. ~invoice[s].deleted /\ invoice'[s].deleted
        BY <1>0, <1>2 DEF VoidSale, Live, TypeOK, InvoiceRows
    <2>2. received'[s] = received[s] - cash - transfer - restored
        BY <1>0, <1>2 DEF VoidSale, TypeOK
    <2>3. LivePaid(payments, s) = cash + transfer + spent
        BY <1>0, LiveNetByMethod DEF TypeOK
    <2>4. cash \in Nat /\ transfer \in Nat /\ spent \in Nat /\ restored \in 0..spent
        BY <1>0
    <2> HIDE DEF cash, transfer, spent, restored
    <2>5. received[s] >= cash + transfer + spent
        BY <2>1, <2>3 DEF Backed
    <2>6. QED
        BY <1>0, <2>1, <2>2, <2>4, <2>5 DEF Backed
<1>3. QED
    BY <1>1, <1>2 DEF Annul

LEMMA ReversalBacked ==
    ASSUME TypeOK, NEW p \in DOMAIN payments, DeleteSalePayment(p), NEW s \in Sales,
           payments[p].sale = s, Backed(s)
    PROVE  Backed(s)'
<1>0. received[s] \in Int /\ payments[p] \in PaymentRows
    BY DEF TypeOK
<1>1. /\ LivePaid(payments', s) \in Nat /\ LivePaid(payments, s) \in Nat
      /\ LivePaid(payments', s)
         = LivePaid(payments, s) - LiveNetOf(payments[p], s, Methods)
    BY <1>0, ReversalPaid, LiveNetNat DEF LivePaid, TypeOK
<1>2. /\ Net(payments[p]) \in Nat
      /\ LiveNetOf(payments[p], s, Methods) = Net(payments[p])
    BY <1>0, NetNat DEF LiveNetOf, DeleteSalePayment, PaymentRows
<1>3. received'[s] = received[s] - Net(payments[p])
    BY <1>0 DEF DeleteSalePayment, TypeOK
<1>4. invoice' = invoice /\ ~invoice[s].deleted
    BY DEF DeleteSalePayment, Live
<1>5. QED
    BY <1>0, <1>1, <1>2, <1>3, <1>4 DEF Backed

LEMMA BackedStep ==
    ASSUME TypeOK, TypeOK', BackedInv, [Next]_vars, "refund" \notin Requests
    PROVE  BackedInv'
<1> SUFFICES ASSUME NEW q \in Sales PROVE Backed(q)'
    BY DEF BackedInv
<1>0. Backed(q)
    BY DEF BackedInv
<1>1. ASSUME NEW s \in Sales, Order(s) \/ Collect(s) \/ Edit(s) \/ Annul(s)
      PROVE  Backed(q)'
    <2>1. CASE s = q
        BY <1>0, <1>1, <2>1, OrderBacked, CollectBacked, EditBacked, AnnulBacked
    <2>2. CASE s # q
        BY <1>0, <1>1, <2>2, OtherSalesStill, StillBacked
    <2>3. QED
        BY <2>1, <2>2
<1>2. ASSUME NEW p \in DOMAIN payments, DeleteSalePayment(p) PROVE Backed(q)'
    <2>1. CASE payments[p].sale = q
        BY <1>0, <1>2, <2>1, ReversalBacked
    <2>2. CASE payments[p].sale # q
        BY <1>0, <1>2, <2>2, OtherReversalStill, StillBacked
    <2>3. QED
        BY <2>1, <2>2
<1>3. CASE UNCHANGED vars
    BY <1>0, <1>3, StutterStill, StillBacked
<1>4. QED
    BY <1>1, <1>2, <1>3 DEF Next

\* Where edits refund nothing, a sale never pays out more than it took in, with
\* every other request and in any order: of all the ways to return money,
\* reversals, annulments and edits that refund, only the last breaks what the
\* comment of void-sale says.
THEOREM OnlyRefundsOverpay ==
    ASSUME "refund" \notin Requests
    PROVE  Spec => []NeverPaysOutMoreThanCollected
<1>1. Init => BackedInv
    <2> SUFFICES ASSUME Init, NEW s \in Sales PROVE Backed(s)
        BY DEF BackedInv
    <2>1. LiveNet(payments, s, Methods) = 0 /\ received[s] = 0
        BY LiveNetEmpty DEF Init
    <2>2. QED
        BY <2>1 DEF Backed, LivePaid
<1>2. IInv /\ IInv' /\ BackedInv /\ [Next]_vars => BackedInv'
    BY BackedStep DEF IInv
<1>3. BackedInv => NeverPaysOutMoreThanCollected
    BY DEF BackedInv, Backed, NeverPaysOutMoreThanCollected
<1>4. QED
    BY InitIInv, IInvStep, <1>1, <1>2, <1>3, PTL DEF Spec

-----------------------------------------------------------------------------
\* What CreditMatchesDebt says of one sale.  Before the checkout there is no
\* payment and no credit; and what was placed is worth something until it is
\* deleted, so that a credit is always settled again.
DebtFits(s) ==
    /\ Standing(s) /\ HasCredit(s) =>
           credit[s].balance = Positive(Consolidated(s) - LivePaid(payments, s))
    /\ invoice[s].ticket # "SALE" => LivePaid(payments, s) = 0 /\ ~HasCredit(s)
    /\ invoice[s].ticket # "NONE" /\ ~invoice[s].deleted => Consolidated(s) > 0
    /\ invoice[s].ticket = "NONE" => invoice[s] = Absent

DebtInv == \A s \in Sales : DebtFits(s)

-----------------------------------------------------------------------------
\* The promise of SaleContract for one sale: a step of the contract that takes
\* the sale where it goes, or none.
Goes(s, to, v, g, p) ==
    /\ phaseOf'[s] = to /\ valueOf'[s] = v /\ shipped'[s] = g /\ paidOf'[s] = p

Values == 0..(MaxUnits + MaxDebits)

Promised(s) ==
    \/ Goes(s, phaseOf[s], valueOf[s], shipped[s], paidOf[s])
    \/ /\ phaseOf[s] \in {"none", "order"}
       /\ \E v \in Values \ {0} : Goes(s, "order", v, 0, 0)
    \/ phaseOf[s] = "order" /\ Goes(s, "loan", valueOf[s], valueOf[s], 0)
    \/ /\ phaseOf[s] \in {"order", "loan"}
       /\ \E p \in 0..valueOf[s] : Goes(s, "sale", valueOf[s], valueOf[s], p)
    \/ /\ phaseOf[s] = "sale"
       /\ \E p \in 0..valueOf[s] : p > paidOf[s] /\ Goes(s, "sale", valueOf[s], shipped[s], p)
    \/ /\ phaseOf[s] = "sale"
       /\ \E p \in 0..paidOf[s] : Goes(s, "sale", valueOf[s], shipped[s], p)
    \/ /\ phaseOf[s] = "sale"
       /\ \E v \in Values, d \in Values : d <= v /\ Goes(s, "sale", v, v, paidOf[s] + d)
    \/ /\ phaseOf[s] \in {"order", "loan", "sale"}
       /\ Goes(s, "void", 0, 0, 0)

LEMMA SeenOfAll ==
    /\ phaseOf = [q \in Sales |-> phaseOf[q]] /\ phaseOf' = [q \in Sales |-> phaseOf'[q]]
    /\ valueOf = [q \in Sales |-> valueOf[q]] /\ valueOf' = [q \in Sales |-> valueOf'[q]]
    /\ paidOf = [q \in Sales |-> paidOf[q]] /\ paidOf' = [q \in Sales |-> paidOf'[q]]
<1>1. phaseOf = [q \in Sales |-> phaseOf[q]] /\ phaseOf' = [q \in Sales |-> phaseOf'[q]]
    BY Zenon DEF phaseOf
<1>2. valueOf = [q \in Sales |-> valueOf[q]] /\ valueOf' = [q \in Sales |-> valueOf'[q]]
    BY Zenon DEF valueOf
<1>3. paidOf = [q \in Sales |-> paidOf[q]] /\ paidOf' = [q \in Sales |-> paidOf'[q]]
    BY Zenon DEF paidOf
<1>4. QED
    BY <1>1, <1>2, <1>3

\* A step that is promised for one sale and leaves the others alone is a step
\* of the contract.
LEMMA PromisedIsAllowed ==
    ASSUME TypeOK, TypeOK', NEW s \in Sales, Promised(s),
           \A q \in Sales \ {s} : Goes(q, phaseOf[q], valueOf[q], shipped[q], paidOf[q])
    PROVE  [Contract!CNext]_(Contract!cvars)
<1>1. /\ phaseOf = [q \in Sales |-> phaseOf[q]] /\ phaseOf' = [q \in Sales |-> phaseOf'[q]]
      /\ valueOf = [q \in Sales |-> valueOf[q]] /\ valueOf' = [q \in Sales |-> valueOf'[q]]
      /\ paidOf = [q \in Sales |-> paidOf[q]] /\ paidOf' = [q \in Sales |-> paidOf'[q]]
    BY SeenOfAll
<1>2. shipped = [q \in Sales |-> shipped[q]] /\ shipped' = [q \in Sales |-> shipped'[q]]
    BY DEF TypeOK
<1>3. ASSUME NEW to, NEW v, NEW g, NEW p, Goes(s, to, v, g, p)
      PROVE  Contract!Move(s, to, v, g, p)
    BY <1>1, <1>2, <1>3 DEF Contract!Move, Goes
<1>4. CASE Goes(s, phaseOf[s], valueOf[s], shipped[s], paidOf[s])
    <2>1. \A q \in Sales : Goes(q, phaseOf[q], valueOf[q], shipped[q], paidOf[q])
        BY <1>4
    <2>2. UNCHANGED <<phaseOf, valueOf, shipped, paidOf>>
        BY <1>1, <1>2, <2>1, Zenon DEF Goes
    <2>3. QED
        BY <2>2 DEF Contract!cvars
<1>5. CASE /\ phaseOf[s] \in {"none", "order"}
           /\ \E v \in Values \ {0} : Goes(s, "order", v, 0, 0)
    BY <1>3, <1>5 DEF Contract!CNext, Contract!Place, Values
<1>6. CASE phaseOf[s] = "order" /\ Goes(s, "loan", valueOf[s], valueOf[s], 0)
    BY <1>3, <1>6 DEF Contract!CNext, Contract!Lend
<1>7. CASE /\ phaseOf[s] \in {"order", "loan"}
           /\ \E p \in 0..valueOf[s] : Goes(s, "sale", valueOf[s], valueOf[s], p)
    BY <1>3, <1>7 DEF Contract!CNext, Contract!Sell
<1>8. CASE /\ phaseOf[s] = "sale"
           /\ \E p \in 0..valueOf[s] :
                 p > paidOf[s] /\ Goes(s, "sale", valueOf[s], shipped[s], p)
    BY <1>3, <1>8 DEF Contract!CNext, Contract!Pay
<1>9. CASE /\ phaseOf[s] = "sale"
           /\ \E p \in 0..paidOf[s] : Goes(s, "sale", valueOf[s], shipped[s], p)
    BY <1>3, <1>9 DEF Contract!CNext, Contract!Reverse
<1>10. CASE /\ phaseOf[s] = "sale"
            /\ \E v \in Values, d \in Values : d <= v /\ Goes(s, "sale", v, v, paidOf[s] + d)
    BY <1>3, <1>10 DEF Contract!CNext, Contract!Adjust, Values
<1>11. CASE /\ phaseOf[s] \in {"order", "loan", "sale"}
            /\ Goes(s, "void", 0, 0, 0)
    BY <1>3, <1>11 DEF Contract!CNext, Contract!Annul
<1>12. QED
    BY <1>4, <1>5, <1>6, <1>7, <1>8, <1>9, <1>10, <1>11 DEF Promised

\* What the contract sees of a sale, from its invoice.
LEMMA Seen ==
    ASSUME NEW s \in Sales, invoice[s].deleted \in BOOLEAN,
           invoice[s].ticket \in {"NONE", "ORDER", "SALE", "LOAN"}
    PROVE  /\ invoice[s].deleted => phaseOf[s] = "void" /\ valueOf[s] = 0 /\ paidOf[s] = 0
           /\ ~invoice[s].deleted =>
                 /\ phaseOf[s] = "none" <=> invoice[s].ticket = "NONE"
                 /\ phaseOf[s] = "order" <=> invoice[s].ticket = "ORDER"
                 /\ phaseOf[s] = "loan" <=> invoice[s].ticket = "LOAN"
                 /\ phaseOf[s] = "sale" <=> invoice[s].ticket = "SALE"
                 /\ valueOf[s] = Consolidated(s)
                 /\ paidOf[s] = IF invoice[s].ticket = "SALE" THEN LivePaid(payments, s) ELSE 0
BY DEF phaseOf, phaseNames, valueOf, paidOf, Standing

LEMMA SeenNext ==
    ASSUME NEW s \in Sales, invoice'[s].deleted \in BOOLEAN,
           invoice'[s].ticket \in {"NONE", "ORDER", "SALE", "LOAN"}
    PROVE  /\ invoice'[s].deleted => phaseOf'[s] = "void" /\ valueOf'[s] = 0 /\ paidOf'[s] = 0
           /\ ~invoice'[s].deleted =>
                 /\ phaseOf'[s] = "none" <=> invoice'[s].ticket = "NONE"
                 /\ phaseOf'[s] = "order" <=> invoice'[s].ticket = "ORDER"
                 /\ phaseOf'[s] = "loan" <=> invoice'[s].ticket = "LOAN"
                 /\ phaseOf'[s] = "sale" <=> invoice'[s].ticket = "SALE"
                 /\ valueOf'[s] = Consolidated(s)'
                 /\ paidOf'[s] = IF invoice'[s].ticket = "SALE" THEN LivePaid(payments', s) ELSE 0
BY DEF phaseOf, phaseNames, valueOf, paidOf, Standing

LEMMA InitPromise == Init => Contract!CInit
<1> SUFFICES ASSUME Init PROVE Contract!CInit
    OBVIOUS
<1>1. ASSUME NEW s \in Sales
      PROVE  phaseOf[s] = "none" /\ valueOf[s] = 0 /\ paidOf[s] = 0
    <2>1. /\ invoice[s].ticket = "NONE" /\ invoice[s].deleted = FALSE
          /\ Consolidated(s) = 0
        BY DEF Init, Consolidated, ConsolidatedOf, Absent, NoNotes
    <2>2. QED
        BY <2>1, Seen
<1>2. /\ phaseOf = [q \in Sales |-> phaseOf[q]]
      /\ valueOf = [q \in Sales |-> valueOf[q]]
      /\ paidOf = [q \in Sales |-> paidOf[q]]
    BY SeenOfAll
<1>3. shipped = [q \in Sales |-> 0]
    BY DEF Init
<1>4. QED
    BY <1>1, <1>2, <1>3 DEF Contract!CInit

-----------------------------------------------------------------------------
\* What NoOverCollection says of one sale.
Within(s) ==
    /\ Standing(s) /\ Standing(s)'
    /\ notes'[s] = notes[s]
    /\ LivePaid(payments', s) > LivePaid(payments, s)
    => LivePaid(payments', s) <= Consolidated(s)'

\* What a request makes of a sale.
Becomes(s, ticket, deleted, worth, paid, goods) ==
    /\ invoice'[s].ticket = ticket /\ invoice'[s].deleted = deleted
    /\ Consolidated(s)' = worth
    /\ LivePaid(payments', s) = paid
    /\ shipped'[s] = goods

LEMMA SaleNow ==
    ASSUME IInv, NEW s \in Sales
    PROVE  /\ invoice[s].ticket \in {"NONE", "ORDER", "SALE", "LOAN"}
           /\ invoice[s].deleted \in BOOLEAN
           /\ invoice[s].total \in Nat /\ invoice[s].total <= MaxUnits
           /\ notes[s].nc \in Nat /\ notes[s].nd \in Nat
           /\ Consolidated(s) \in Nat /\ LivePaid(payments, s) \in Nat
           /\ Consolidated(s) = invoice[s].total - notes[s].nc + notes[s].nd
           /\ shipped[s] \in Int
<1>1. TypeOK /\ NotesFitSale
    BY DEF IInv
<1>2. invoice[s] \in InvoiceRows /\ notes[s] \in NoteRows /\ shipped[s] \in Int
    BY <1>1 DEF TypeOK
<1>3. /\ invoice[s].ticket \in {"NONE", "ORDER", "SALE", "LOAN"}
      /\ invoice[s].deleted \in BOOLEAN
      /\ notes[s].nc \in Nat /\ notes[s].nd \in Nat
    BY <1>2 DEF InvoiceRows, NoteRows
<1>4. invoice[s].total \in Nat /\ invoice[s].total <= MaxUnits
    BY <1>2, LedgerAssumption DEF InvoiceRows
<1>5. Consolidated(s) \in Nat
    BY <1>1, ConsolidatedInt DEF NotesFitSale
<1>6. LivePaid(payments, s) \in Nat
    BY <1>1, LiveNetNat DEF TypeOK, LivePaid
<1>7. QED
    BY <1>1, <1>2, <1>3, <1>4, <1>5, <1>6, ConsolidatedInt

\* A sale of which nothing was paid and nothing is owed on credit, and that is
\* not sold, keeps DebtFits and is not collected.
LEMMA UnsoldFits ==
    ASSUME NEW s \in Sales, NEW ticket \in {"ORDER", "LOAN"}, NEW deleted \in BOOLEAN,
           NEW worth \in Nat \ {0}, NEW goods, Becomes(s, ticket, deleted, worth, 0, goods),
           credit'[s] = NoCredit
    PROVE  DebtFits(s)' /\ Within(s)
BY DEF Becomes, DebtFits, HasCredit, Standing, Within

LEMMA OrderDebt ==
    ASSUME IInv, NEW s \in Sales, Stocked(s), DebtFits(s), Order(s), "inline" \notin Requests
    PROVE  DebtFits(s)' /\ Promised(s) /\ Within(s)
<1>0. TypeOK /\ NotesFitSale
    BY DEF IInv
<1>1. ASSUME NEW c \in Clients, NEW n \in Sizes, CreateSale(s, c, n) \/ EditOrder(s, c, n)
      PROVE  DebtFits(s)' /\ Promised(s) /\ Within(s)
    <2>1. /\ invoice[s].ticket \in {"NONE", "ORDER"} /\ ~invoice[s].deleted
          /\ UNCHANGED <<notes, credit, payments, shipped>>
        BY <1>1 DEF CreateSale, EditOrder, Live, Absent
    <2>2. /\ invoice'[s].ticket = "ORDER" /\ invoice'[s].deleted = FALSE
          /\ invoice'[s].total = n
        <3>1. CASE CreateSale(s, c, n)
            BY <1>0, <3>1 DEF CreateSale, TypeOK
        <3>2. CASE EditOrder(s, c, n)
            BY <1>0, <2>1, <3>2 DEF EditOrder, Live, TypeOK, InvoiceRows
        <3>3. QED
            BY <1>1, <3>1, <3>2
    <2>3. n \in Nat \ {0} /\ n \in Values \ {0}
        BY LedgerAssumption DEF Sizes, Values
    <2>4. notes[s] = NoNotes /\ notes'[s] = NoNotes
        BY <1>0, <2>1 DEF NotesFitSale
    <2>5. Becomes(s, "ORDER", FALSE, n, 0, 0)
        BY <2>1, <2>2, <2>3, <2>4 DEF Becomes, DebtFits, Stocked, Consolidated,
            ConsolidatedOf, NoNotes
    <2>6. credit'[s] = NoCredit
        BY <2>1 DEF DebtFits, HasCredit
    <2>7. DebtFits(s)' /\ Within(s)
        BY <2>3, <2>5, <2>6, UnsoldFits
    <2>8. phaseOf[s] \in {"none", "order"}
        BY <2>1, SaleNow, Seen
    <2>9. Goes(s, "order", n, 0, 0)
        BY <2>5, SeenNext DEF Becomes, Goes
    <2>10. QED
        BY <2>3, <2>7, <2>8, <2>9 DEF Promised
<1>2. CASE ConvertOrderToLoan(s)
    <2>1. /\ invoice[s].ticket = "ORDER" /\ invoice[s].deleted = FALSE
          /\ UNCHANGED <<notes, credit, payments>>
          /\ shipped' = [shipped EXCEPT ![s] = @ + invoice[s].total]
        BY <1>2, SaleNow DEF ConvertOrderToLoan, Live
    <2>2. /\ invoice'[s].ticket = "LOAN" /\ invoice'[s].deleted = FALSE
          /\ invoice'[s].total = invoice[s].total
        BY <1>0, <1>2, <2>1 DEF ConvertOrderToLoan, TypeOK, InvoiceRows
    <2>3. notes[s] = NoNotes /\ notes'[s] = NoNotes
        BY <1>0, <2>1 DEF NotesFitSale
    <2>4. Consolidated(s) = invoice[s].total /\ Consolidated(s) \in Nat \ {0}
        BY <2>1, <2>3, SaleNow DEF DebtFits, NoNotes
    <2>5. shipped'[s] = Consolidated(s)
        BY <1>0, <2>1, <2>4, SaleNow DEF Stocked, TypeOK
    <2>6. Becomes(s, "LOAN", FALSE, Consolidated(s), 0, Consolidated(s))
        BY <2>1, <2>2, <2>3, <2>4, <2>5 DEF Becomes, DebtFits, Consolidated, ConsolidatedOf
    <2>7. credit'[s] = NoCredit
        BY <2>1 DEF DebtFits, HasCredit
    <2>8. DebtFits(s)' /\ Within(s)
        BY <2>4, <2>6, <2>7, UnsoldFits
    <2>9. phaseOf[s] = "order" /\ valueOf[s] = Consolidated(s)
        BY <2>1, Seen
    <2>10. Goes(s, "loan", valueOf[s], valueOf[s], 0)
        BY <2>6, <2>9, SeenNext DEF Becomes, Goes
    <2>11. QED
        BY <2>8, <2>9, <2>10 DEF Promised
<1>3. \A a, c, n, p, r : ~CreatePaidSale(s, a, c, n, p, r)
    BY DEF CreatePaidSale
<1>4. QED
    BY <1>1, <1>2, <1>3 DEF Order

\* A sale that stands: its credit is settled, and what was paid is within what
\* it is worth or it was not collected.
LEMMA SoldFits ==
    ASSUME NEW s \in Sales, NEW worth \in Nat \ {0}, NEW paid \in Nat, NEW goods,
           Becomes(s, "SALE", FALSE, worth, paid, goods),
           credit'[s] # NoCredit => credit'[s].balance = Positive(worth - paid)
    PROVE  DebtFits(s)'
BY DEF Becomes, DebtFits, HasCredit, Standing

LEMMA CheckoutDebt ==
    ASSUME IInv, NEW s \in Sales, Stocked(s), DebtFits(s), NEW a \in Actors,
           NEW t \in Tenders, NEW k \in 0..MaxUnits, NEW from \in {"ORDER", "LOAN"},
           ProcessPayment(s, a, t, k, from)
    PROVE  DebtFits(s)' /\ Promised(s) /\ Within(s)
<1> DEFINE c == invoice[s].customer
           worth == Consolidated(s)
<1>0. TypeOK /\ NotesFitSale /\ k \in Nat /\ c \in Clients
    BY LedgerAssumption DEF IInv, TypeOK, InvoiceRows
<1>1. /\ invoice[s].ticket = from /\ invoice[s].deleted = FALSE
      /\ notes' = notes /\ t.change <= t.cash
      /\ TenderNet(t) + k = invoice[s].total
      /\ t.advance > 0 => c \in Customers
      /\ Insert(Rows(s, a, c, t))
      /\ shipped' = [shipped EXCEPT ![s] = @ + Deducted(s, from)]
      /\ credit' = [credit EXCEPT ![s] = IF k > 0 THEN CreditRow(k, 0, c) ELSE @]
    BY <1>0, SaleNow DEF ProcessPayment, Live, Clients
<1>2. /\ invoice'[s].ticket = "SALE" /\ invoice'[s].deleted = FALSE
      /\ invoice'[s].total = invoice[s].total
    BY <1>0, <1>1 DEF ProcessPayment, TypeOK, InvoiceRows
<1>3. notes[s] = NoNotes /\ notes'[s] = NoNotes
    BY <1>0, <1>1 DEF NotesFitSale, Stocked
<1>4. worth = invoice[s].total /\ worth \in Nat \ {0}
    BY <1>1, <1>3, SaleNow DEF DebtFits, NoNotes
<1>5. shipped'[s] = worth
    BY <1>0, <1>1, <1>4, SaleNow DEF Stocked, TypeOK, Deducted
<1>6. TenderNet(t) \in Nat
    BY <1>1, TendersOf DEF TenderNet
<1>7. LivePaid(payments', s) = worth - k /\ worth - k \in Nat
    <2>1. LivePaid(payments', s) = LivePaid(payments, s) + TendersCount(s, t, s, Methods)
        BY <1>0, <1>1, TendersPaid DEF LivePaid
    <2>2. LivePaid(payments, s) = 0
        BY <1>1 DEF DebtFits
    <2>3. QED
        BY <1>0, <1>1, <1>4, <1>6, <2>1, <2>2, TendersOf
<1>8. Becomes(s, "SALE", FALSE, worth, worth - k, worth)
    BY <1>2, <1>3, <1>4, <1>5, <1>7, SaleNow DEF Becomes, Consolidated, ConsolidatedOf, NoNotes
<1>9. credit'[s] # NoCredit => credit'[s].balance = Positive(worth - (worth - k))
    <2>1. CASE k > 0
        <3>1. credit'[s] = CreditRow(k, 0, c)
            BY <1>0, <1>1, <2>1 DEF TypeOK
        <3>2. QED
            BY <1>0, <1>4, <2>1, <3>1 DEF CreditRow, Positive
    <2>2. CASE ~(k > 0)
        BY <1>0, <1>1, <2>2 DEF TypeOK, DebtFits, HasCredit
    <2>3. QED
        BY <2>1, <2>2
<1> HIDE DEF worth
<1>10. DebtFits(s)'
    BY <1>4, <1>7, <1>8, <1>9, SoldFits
<1>11. phaseOf[s] \in {"order", "loan"} /\ valueOf[s] = worth
    BY <1>1, SaleNow, Seen DEF worth
<1>12. worth - k \in 0..valueOf[s]
    BY <1>0, <1>4, <1>7, <1>11
<1>13. Goes(s, "sale", valueOf[s], valueOf[s], worth - k)
    BY <1>8, <1>11, SeenNext DEF Becomes, Goes
<1>14. Within(s)
    BY <1>1 DEF Within, Standing
<1>15. QED
    BY <1>10, <1>11, <1>12, <1>13, <1>14 DEF Promised

\* Settling a credit again makes its balance what is left to pay.
LEMMA ResettledBalance ==
    ASSUME NEW s \in Sales, NEW rows, Consolidated(s) \in Nat \ {0},
           LivePaid(rows, s) \in Nat
    PROVE  Resettled(s, rows) # NoCredit =>
               Resettled(s, rows).balance = Positive(Consolidated(s) - LivePaid(rows, s))
<1>1. CASE HasCredit(s)
    <2>1. Resettled(s, rows) = CreditRow(Consolidated(s),
                AtMost(Positive(LivePaid(rows, s)), Consolidated(s)), credit[s].debtor)
        BY <1>1 DEF Resettled
    <2>2. Resettled(s, rows).balance
          = Consolidated(s) - AtMost(Positive(LivePaid(rows, s)), Consolidated(s))
        BY <2>1 DEF CreditRow
    <2>3. QED
        BY <2>2 DEF AtMost, Positive
<1>2. CASE ~HasCredit(s)
    BY <1>2 DEF Resettled, HasCredit
<1>3. QED
    BY <1>1, <1>2

\* A collection or an instalment of m for a sale that stands.
LEMMA PaidPromise ==
    ASSUME IInv, NEW s \in Sales, invoice[s].ticket = "SALE", invoice[s].deleted = FALSE,
           NEW m \in Nat, LivePaid(payments, s) + m <= Consolidated(s),
           Becomes(s, "SALE", FALSE, Consolidated(s), LivePaid(payments, s) + m, shipped[s])
    PROVE  Promised(s) /\ Within(s)
<1> DEFINE worth == Consolidated(s)
           paid == LivePaid(payments, s)
<1>1. worth \in Nat /\ paid \in Nat
    BY SaleNow
<1>2. phaseOf[s] = "sale" /\ valueOf[s] = worth /\ paidOf[s] = paid
    BY SaleNow, Seen
<1>3. Goes(s, "sale", worth, shipped[s], paid + m)
    BY SeenNext DEF Becomes, Goes
<1>4. Within(s)
    BY DEF Becomes, Within
<1> HIDE DEF worth, paid
<1>5. CASE m = 0
    BY <1>1, <1>2, <1>3, <1>4, <1>5 DEF Promised
<1>6. CASE m # 0
    <2>1. paid + m \in 0..valueOf[s] /\ paid + m > paidOf[s]
        BY <1>1, <1>2, <1>6 DEF worth, paid
    <2>2. QED
        BY <1>2, <1>3, <1>4, <2>1 DEF Promised
<1>7. QED
    BY <1>5, <1>6

LEMMA BalanceDebt ==
    ASSUME IInv, NEW s \in Sales, Stocked(s), DebtFits(s), NEW a \in Actors,
           NEW t \in Tenders, CollectSaleBalance(s, a, t)
    PROVE  /\ DebtFits(s)'
           /\ "collectEdited" \notin Requests => Promised(s) /\ Within(s)
<1> DEFINE worth == Consolidated(s)
           paid == LivePaid(payments, s)
           m == TenderNet(t)
           rows == payments \o Rows(s, a, NoCustomer, t)
<1>0. TypeOK
    BY DEF IInv
<1>1. /\ invoice[s].ticket = "SALE" /\ invoice[s].deleted = FALSE
      /\ UNCHANGED <<invoice, notes, shipped>>
      /\ t.change <= t.cash /\ t.advance = 0
      /\ TenderNet(t) <= invoice[s].total - paid
      /\ Insert(Rows(s, a, NoCustomer, t)) /\ payments' = rows
      /\ credit' = [credit EXCEPT ![s] = Resettled(s, rows)]
      /\ notes[s] # NoNotes => "collectEdited" \in Requests
    BY SaleNow DEF CollectSaleBalance, Live, WellFormed, Owed, Insert
<1>2. m \in Nat /\ worth \in Nat /\ worth # 0 /\ paid \in Nat
    BY <1>1, TendersOf, SaleNow DEF TenderNet, DebtFits
<1>3. LivePaid(payments', s) = paid + m
    <2>1. ~(t.advance > 0)
        BY <1>1
    <2>2. LivePaid(payments', s) = paid + TendersCount(s, t, s, Methods)
        BY <1>0, <1>1, <2>1, TendersPaid DEF LivePaid
    <2>3. QED
        BY <2>2, TendersOf
<1>4. Becomes(s, "SALE", FALSE, worth, paid + m, shipped[s])
    BY <1>1, <1>3 DEF Becomes, Consolidated, ConsolidatedOf
<1>5. credit'[s] # NoCredit => credit'[s].balance = Positive(worth - (paid + m))
    <2>1. credit'[s] = Resettled(s, rows)
        BY <1>0, <1>1 DEF TypeOK
    <2>2. LivePaid(rows, s) = paid + m
        BY <1>1, <1>3
    <2> HIDE DEF rows, m
    <2>3. QED
        BY <1>2, <2>1, <2>2, ResettledBalance
<1> HIDE DEF worth, paid, m, rows
<1>6. DebtFits(s)'
    <2>1. worth \in Nat \ {0} /\ paid + m \in Nat
        BY <1>2
    <2>2. QED
        BY <1>4, <1>5, <2>1, SoldFits
<1>7. ASSUME "collectEdited" \notin Requests
      PROVE  Promised(s) /\ Within(s)
    <2>1. worth = invoice[s].total
        BY <1>1, <1>7, SaleNow DEF NoNotes, worth
    <2>2. paid + m <= worth
        BY <1>1, <1>2, <2>1, SaleNow DEF m
    <2>3. QED
        BY <1>1, <1>2, <1>4, <2>2, PaidPromise DEF worth, paid
<1>8. QED
    BY <1>6, <1>7

LEMMA InstalmentDebt ==
    ASSUME IInv, NEW s \in Sales, Stocked(s), DebtFits(s), NEW a \in Actors,
           NEW x \in Accounts, NEW m \in 1..MaxTender, ProcessCreditPayment(s, a, x, m)
    PROVE  DebtFits(s)' /\ Promised(s) /\ Within(s)
<1> DEFINE worth == Consolidated(s)
           paid == LivePaid(payments, s)
           method == IF x \in Banks THEN "TRANSFER" ELSE "CASH"
           row == CreditRow(credit[s].total, credit[s].paid + m, credit[s].debtor)
<1>0. TypeOK /\ CreditRowConsistent /\ m \in Nat
    BY LedgerAssumption DEF IInv
<1>1. /\ HasCredit(s) /\ UNCHANGED <<invoice, notes, shipped>>
      /\ m <= credit[s].balance
      /\ Insert(<<Row(s, method, m, 0, x)>>) /\ method \in Methods
      /\ credit' = [credit EXCEPT ![s] = row]
    BY DEF ProcessCreditPayment, Methods
<1>2. invoice[s].ticket = "SALE" /\ worth \in Nat /\ paid \in Nat
    BY <1>1, SaleNow DEF DebtFits
<1>3. CASE invoice[s].deleted
    <2>1. DebtFits(s)' /\ Within(s)
        BY <1>1, <1>2, <1>3 DEF DebtFits, Within, Standing
    <2>2. Goes(s, phaseOf[s], valueOf[s], shipped[s], paidOf[s])
        <3>1. phaseOf[s] = "void" /\ valueOf[s] = 0 /\ paidOf[s] = 0
            BY <1>3, SaleNow, Seen
        <3>2. phaseOf'[s] = "void" /\ valueOf'[s] = 0 /\ paidOf'[s] = 0
            BY <1>1, <1>3, SaleNow, SeenNext
        <3>3. QED
            BY <1>1, <3>1, <3>2 DEF Goes
    <2>3. QED
        BY <2>1, <2>2 DEF Promised
<1>4. CASE ~invoice[s].deleted
    <2>1. LivePaid(payments', s) = paid + m
        <3> HIDE DEF method
        <3>1. x \in Accounts \cup Customers \cup {NoAccount}
            OBVIOUS
        <3>2. LivePaid(payments', s) = paid + IF method \in Methods THEN m ELSE 0
            BY <1>0, <1>1, <3>1, OneRowPaid DEF LivePaid
        <3>3. QED
            BY <1>1, <3>2
    <2>2. Becomes(s, "SALE", FALSE, worth, paid + m, shipped[s])
        BY <1>1, <1>2, <1>4, <2>1, SaleNow DEF Becomes, Consolidated, ConsolidatedOf
    <2>3. /\ credit[s].balance = Positive(worth - paid)
          /\ credit[s].total = credit[s].paid + credit[s].balance
        BY <1>0, <1>1, <1>2, <1>4 DEF DebtFits, Standing, CreditRowConsistent
    <2>4. credit[s].paid \in Int /\ credit[s].balance \in Int /\ m >= 1
        BY <1>0 DEF TypeOK, CreditRows
    <2>5. paid + m <= worth
        BY <1>0, <1>1, <1>2, <2>3, <2>4 DEF Positive
    <2>6. credit'[s] = row
        BY <1>0, <1>1 DEF TypeOK
    <2>7. row.balance = credit[s].balance - m
        BY <1>0, <2>3, <2>4 DEF CreditRow
    <2>8. worth # 0
        BY <1>2, <1>4 DEF DebtFits
    <2> HIDE DEF worth, paid, method, row
    <2>9. row.balance = Positive(worth - (paid + m))
        BY <1>0, <1>2, <2>3, <2>4, <2>5, <2>7 DEF Positive
    <2>10. DebtFits(s)'
        <3>1. worth \in Nat \ {0} /\ paid + m \in Nat
            BY <1>0, <1>2, <2>8
        <3>2. QED
            BY <2>2, <2>6, <2>9, <3>1, SoldFits
    <2>11. Promised(s) /\ Within(s)
        BY <1>0, <1>2, <1>4, <2>2, <2>5, SaleNow, PaidPromise DEF worth, paid
    <2>12. QED
        BY <2>10, <2>11
<1>5. QED
    BY <1>3, <1>4

LEMMA CollectDebt ==
    ASSUME IInv, NEW s \in Sales, Stocked(s), DebtFits(s), Collect(s)
    PROVE  /\ DebtFits(s)'
           /\ "collectEdited" \notin Requests => Promised(s) /\ Within(s)
BY CheckoutDebt, BalanceDebt, InstalmentDebt DEF Collect

LEMMA ReversalDebt ==
    ASSUME IInv, NEW p \in DOMAIN payments, DeleteSalePayment(p), NEW s \in Sales,
           payments[p].sale = s, Stocked(s), DebtFits(s)
    PROVE  DebtFits(s)' /\ Promised(s) /\ Within(s)
<1> DEFINE worth == Consolidated(s)
           paid == LivePaid(payments, s)
           gone == LiveNetOf(payments[p], s, Methods)
<1>0. TypeOK /\ worth \in Nat /\ paid \in Nat
    BY SaleNow DEF IInv
<1>1. /\ UNCHANGED <<invoice, notes, shipped>>
      /\ invoice[s].ticket # "NONE" /\ invoice[s].deleted = FALSE
      /\ credit' = [credit EXCEPT ![s] = Resettled(s, payments')]
    BY SaleNow DEF DeleteSalePayment, Live
<1>2. payments[p] \in PaymentRows
    BY <1>0 DEF TypeOK
<1>3. gone \in Nat
    BY <1>2, NetNat
<1>4. LivePaid(payments', s) = paid - gone /\ paid - gone \in Nat
    BY <1>0, ReversalPaid DEF LivePaid
<1>5. Becomes(s, invoice[s].ticket, FALSE, worth, paid - gone, shipped[s])
    BY <1>1, <1>4 DEF Becomes, Consolidated, ConsolidatedOf
<1>6. credit'[s] = Resettled(s, payments') /\ worth \in Nat \ {0}
    BY <1>0, <1>1 DEF TypeOK, DebtFits
<1>7. Within(s)
    <2>1. ~(LivePaid(payments', s) > LivePaid(payments, s))
        BY <1>0, <1>3, <1>4
    <2>2. QED
        BY <2>1 DEF Within
<1>8. CASE invoice[s].ticket = "SALE"
    <2>1. credit'[s] # NoCredit => credit'[s].balance = Positive(worth - (paid - gone))
        <3>1. LivePaid(payments', s) \in Nat
            BY <1>4
        <3>2. QED
            BY <1>4, <1>6, <3>1, ResettledBalance
    <2> HIDE DEF worth, paid, gone
    <2>2. DebtFits(s)'
        BY <1>4, <1>5, <1>6, <1>8, <2>1, SoldFits
    <2>3. phaseOf[s] = "sale" /\ valueOf[s] = worth /\ paidOf[s] = paid
        BY <1>1, <1>8, SaleNow, Seen DEF worth, paid
    <2>4. Goes(s, "sale", worth, shipped[s], paid - gone)
        BY <1>5, <1>8, SeenNext DEF Becomes, Goes
    <2>5. paid - gone \in 0..paidOf[s]
        BY <1>0, <1>3, <1>4, <2>3
    <2>6. QED
        BY <1>7, <2>2, <2>3, <2>4, <2>5 DEF Promised
<1>9. CASE invoice[s].ticket # "SALE"
    <2>1. paid = 0 /\ credit[s] = NoCredit
        BY <1>9 DEF DebtFits, HasCredit
    <2>2. LivePaid(payments', s) = 0
        BY <1>3, <1>4, <2>1
    <2>3. credit'[s] = NoCredit
        BY <1>6, <2>1 DEF Resettled, HasCredit
    <2>4. invoice[s].ticket \in {"ORDER", "LOAN"}
        BY <1>1, <1>9, SaleNow
    <2>5. DebtFits(s)'
        BY <1>5, <1>4, <1>6, <2>2, <2>3, <2>4, UnsoldFits
    <2>6. /\ phaseOf'[s] = phaseOf[s] /\ valueOf'[s] = valueOf[s] /\ paidOf'[s] = paidOf[s]
        BY <1>1, <1>5, <1>9, SaleNow, Seen, SeenNext DEF Becomes, phaseOf
    <2>7. Goes(s, phaseOf[s], valueOf[s], shipped[s], paidOf[s])
        BY <1>1, <2>6 DEF Goes
    <2>8. QED
        BY <1>7, <2>5, <2>7 DEF Promised
<1>10. QED
    BY <1>8, <1>9

LEMMA EditDebt ==
    ASSUME IInv, NEW s \in Sales, Stocked(s), DebtFits(s), Edit(s), "loanEdit" \notin Requests
    PROVE  DebtFits(s)' /\ Promised(s) /\ Within(s)
<1> SUFFICES ASSUME NEW a \in Actors, NEW r \in 0..(MaxUnits + MaxDebits),
                    NEW d \in 0..MaxDebits, NEW c \in Clients,
                    NEW refundTo \in Accounts \cup {NoAccount}, NEW chargeTo \in Accounts,
                    EditSale(s, a, r, d, c, refundTo, chargeTo)
             PROVE  DebtFits(s)' /\ Promised(s) /\ Within(s)
    BY DEF Edit
<1> DEFINE emptied == d = 0 /\ r > 0 /\ r = Consolidated(s)
           charge  == IF HasCredit(s) THEN 0 ELSE d
           worth   == Consolidated(s)
           total   == Consolidated(s) - r + d
           paid    == LivePaid(payments, s)
<1>0. TypeOK /\ r \in Nat /\ d \in Nat
    BY LedgerAssumption DEF IInv
<1>1. /\ invoice[s].ticket = "SALE" /\ invoice[s].deleted = FALSE
      /\ r <= worth /\ notes[s].nd + d <= MaxDebits
    <2>1. Live(s, {"SALE", "LOAN"}) /\ invoice[s].ticket # "LOAN"
        BY DEF EditSale
    <2>2. QED
        BY <2>1, SaleNow DEF Live, EditSale
<1>2. /\ worth \in Nat /\ worth # 0 /\ paid \in Nat /\ shipped[s] = worth
      /\ charge \in Nat /\ charge <= d
    BY <1>0, <1>1, SaleNow DEF DebtFits, Stocked
<1>3. /\ invoice'[s].ticket = "SALE" /\ invoice'[s].total = invoice[s].total
      /\ invoice'[s].deleted = emptied
    BY <1>0, <1>1 DEF EditSale, TypeOK, InvoiceRows
<1>4. notes'[s].nc = notes[s].nc + r /\ notes'[s].nd = notes[s].nd + d
    BY <1>0 DEF EditSale, TypeOK
<1>5. shipped'[s] = total /\ total \in Nat
    <2>1. shipped'[s] = shipped[s] - r + d
        BY <1>0 DEF EditSale, TypeOK
    <2>2. QED
        BY <1>0, <1>1, <1>2, <2>1
<1>6. Consolidated(s)' = total
    <2>1. Consolidated(s)' = invoice[s].total - (notes[s].nc + r) + (notes[s].nd + d)
        BY <1>3, <1>4 DEF Consolidated, ConsolidatedOf
    <2>2. worth = invoice[s].total - notes[s].nc + notes[s].nd
        BY SaleNow
    <2> HIDE DEF worth
    <2>3. QED
        BY <1>0, <2>1, <2>2, SaleNow DEF worth
<1>7. total \in Values
    BY <1>0, <1>1, <1>5, SaleNow, LedgerAssumption DEF Values
<1>8. /\ LivePaid(payments', s) = paid + charge
      /\ charge = 0 => payments' = payments
    <2>1. CASE charge > 0
        <3> DEFINE method == IF chargeTo = a THEN "CASH" ELSE "TRANSFER"
                   x == IF chargeTo = a THEN NoAccount ELSE chargeTo
        <3>1. /\ Insert(<<Row(s, method, charge, 0, x)>>) /\ method \in Methods
              /\ x \in Accounts \cup Customers \cup {NoAccount}
            BY <2>1 DEF EditSale, Methods
        <3> HIDE DEF method, x, charge
        <3>2. LivePaid(payments', s) = paid + IF method \in Methods THEN charge ELSE 0
            BY <1>0, <1>2, <3>1, OneRowPaid DEF LivePaid
        <3>3. QED
            BY <2>1, <3>1, <3>2
    <2>2. CASE ~(charge > 0)
        <3>1. payments' = payments
            BY <2>2 DEF EditSale
        <3>2. QED
            BY <1>2, <2>2, <3>1
    <2>3. QED
        BY <2>1, <2>2
<1>9. Within(s)
    <2>1. notes'[s] = notes[s] => r = 0 /\ d = 0
        BY <1>0, <1>4, SaleNow
    <2>2. d = 0 => LivePaid(payments', s) = LivePaid(payments, s)
        BY <1>2, <1>8
    <2>3. QED
        BY <1>2, <2>1, <2>2 DEF Within
<1>10. credit' = IF HasCredit(s) /\ ~emptied /\ r + d > 0 /\ total > 0
                 THEN [credit EXCEPT ![s] =
                         CreditRow(total, AtMost(LivePaid(payments, s), total), @.debtor)]
                 ELSE credit
    BY DEF EditSale
<1>11. phaseOf[s] = "sale" /\ valueOf[s] = worth /\ paidOf[s] = paid
    BY <1>1, SaleNow, Seen
<1>12. CASE emptied
    <2>1. DebtFits(s)'
        BY <1>3, <1>12 DEF DebtFits, Standing
    <2>2. total = 0
        BY <1>0, <1>2, <1>12
    <2>3. phaseOf'[s] = "void" /\ valueOf'[s] = 0 /\ paidOf'[s] = 0
        BY <1>3, <1>12, SeenNext
    <2>4. Goes(s, "void", 0, 0, 0)
        BY <1>5, <2>2, <2>3 DEF Goes
    <2>5. QED
        BY <1>9, <1>11, <2>1, <2>4 DEF Promised
<1>13. CASE ~emptied
    <2>1. total # 0
        BY <1>0, <1>1, <1>2, <1>13
    <2>2. Becomes(s, "SALE", FALSE, total, paid + charge, total)
        BY <1>3, <1>5, <1>6, <1>8, <1>13 DEF Becomes
    <2>3. credit'[s] # NoCredit => credit'[s].balance = Positive(total - (paid + charge))
        <3>1. CASE ~HasCredit(s)
            BY <1>10, <3>1 DEF HasCredit
        <3>2. CASE HasCredit(s) /\ r + d > 0
            <4>1. credit'[s] = CreditRow(total, AtMost(paid, total), credit[s].debtor)
                BY <1>0, <1>5, <1>10, <1>13, <2>1, <3>2 DEF TypeOK
            <4>2. charge = 0
                BY <3>2
            <4> HIDE DEF total, paid, charge
            <4>3. QED
                BY <1>2, <1>5, <4>1, <4>2 DEF CreditRow, AtMost, Positive
        <3>3. CASE HasCredit(s) /\ ~(r + d > 0)
            <4>1. credit'[s] = credit[s] /\ charge = 0 /\ total = worth
                BY <1>0, <1>2, <1>10, <3>3
            <4>2. credit[s].balance = Positive(worth - paid)
                BY <1>1, <3>3 DEF DebtFits, Standing
            <4>3. QED
                BY <1>2, <4>1, <4>2
        <3>4. QED
            BY <3>1, <3>2, <3>3
    <2>4. total \in Nat \ {0} /\ paid + charge \in Nat
        BY <1>2, <1>5, <2>1
    <2>5. charge \in Values /\ charge <= total
        BY <1>0, <1>1, <1>2, LedgerAssumption DEF Values
    <2> HIDE DEF total, paid, charge, worth
    <2>6. DebtFits(s)'
        BY <2>2, <2>3, <2>4, SoldFits
    <2>7. Goes(s, "sale", total, total, paid + charge)
        BY <2>2, SeenNext DEF Becomes, Goes
    <2>8. QED
        BY <1>7, <1>9, <1>11, <2>5, <2>6, <2>7 DEF Promised
<1>14. QED
    BY <1>12, <1>13

LEMMA AnnulDebt ==
    ASSUME IInv, NEW s \in Sales, Stocked(s), DebtFits(s), Annul(s)
    PROVE  DebtFits(s)' /\ Promised(s) /\ Within(s)
<1>0. TypeOK /\ invoice[s] \in InvoiceRows
    BY DEF IInv, TypeOK
<1>1. /\ invoice[s].ticket # "NONE" /\ ~invoice[s].deleted
      /\ invoice'[s].ticket = invoice[s].ticket /\ invoice'[s].deleted
      /\ payments' = payments /\ credit' = credit
    BY <1>0 DEF Annul, VoidOrder, VoidLoan, VoidSale, Live, TypeOK, InvoiceRows
<1>2. DebtFits(s)' /\ Within(s)
    BY <1>1 DEF DebtFits, Standing, Within, HasCredit
<1>3. shipped'[s] = 0
    <2>1. Stocked(s)'
        BY AnnulStocked
    <2>2. QED
        BY <1>1, <2>1 DEF Stocked
<1>4. phaseOf[s] \in {"order", "loan", "sale"}
    BY <1>1, SaleNow, Seen
<1>5. phaseOf'[s] = "void" /\ valueOf'[s] = 0 /\ paidOf'[s] = 0
    BY <1>1, SaleNow, SeenNext
<1>6. QED
    BY <1>2, <1>3, <1>4, <1>5 DEF Promised, Goes

\* A sale that a request leaves alone.
LEMMA StillDebt ==
    ASSUME IInv, NEW q \in Sales, DebtFits(q), Still(q)
    PROVE  /\ DebtFits(q)' /\ Within(q)
           /\ Goes(q, phaseOf[q], valueOf[q], shipped[q], paidOf[q])
<1>1. /\ invoice'[q] = invoice[q] /\ notes'[q] = notes[q] /\ shipped'[q] = shipped[q]
      /\ credit'[q] = credit[q] /\ LivePaid(payments', q) = LivePaid(payments, q)
    BY DEF Still, Frozen, LivePaid
<1>2. Consolidated(q)' = Consolidated(q)
    BY <1>1 DEF Consolidated, ConsolidatedOf
<1>3. DebtFits(q)'
    BY <1>1, <1>2 DEF DebtFits, Standing, HasCredit
<1>4. Within(q)
    <2>1. ~(LivePaid(payments', q) > LivePaid(payments, q))
        BY <1>1, SaleNow
    <2>2. QED
        BY <2>1 DEF Within
<1>5. phaseOf'[q] = phaseOf[q] /\ valueOf'[q] = valueOf[q] /\ paidOf'[q] = paidOf[q]
    BY <1>1, <1>2 DEF phaseOf, valueOf, paidOf, Standing
<1>6. QED
    BY <1>1, <1>3, <1>4, <1>5 DEF Goes

-----------------------------------------------------------------------------
\* What every step keeps, and the step of the contract that it is.
LEMMA DebtStep ==
    ASSUME IInv, StockInv, DebtInv, [Next]_vars,
           "inline" \notin Requests, "loanEdit" \notin Requests
    PROVE  /\ DebtInv'
           /\ "collectEdited" \notin Requests =>
                 /\ \A q \in Sales : Within(q)
                 /\ [Contract!CNext]_(Contract!cvars)
<1> DEFINE Same(q) == Goes(q, phaseOf[q], valueOf[q], shipped[q], paidOf[q])
<1>0. /\ TypeOK /\ TypeOK'
      /\ \A q \in Sales : Stocked(q) /\ DebtFits(q)
    BY IInvStep DEF IInv, StockInv, DebtInv
<1>1. \A q \in Sales : Still(q) => DebtFits(q)' /\ Within(q) /\ Same(q)
    BY <1>0, StillDebt
<1>2. ASSUME NEW s \in Sales, \A q \in Sales \ {s} : Still(q), DebtFits(s)',
             "collectEdited" \notin Requests => Promised(s) /\ Within(s)
      PROVE  /\ DebtInv'
             /\ "collectEdited" \notin Requests =>
                   /\ \A q \in Sales : Within(q)
                   /\ [Contract!CNext]_(Contract!cvars)
    <2>1. DebtInv'
        BY <1>1, <1>2 DEF DebtInv
    <2>2. ASSUME "collectEdited" \notin Requests
          PROVE  (\A q \in Sales : Within(q)) /\ [Contract!CNext]_(Contract!cvars)
        <3>1. \A q \in Sales : Within(q)
            BY <1>1, <1>2, <2>2
        <3>2. \A q \in Sales \ {s} : Same(q)
            BY <1>1, <1>2
        <3>3. QED
            BY <1>0, <1>2, <2>2, <3>1, <3>2, PromisedIsAllowed
    <2>3. QED
        BY <2>1, <2>2
<1>3. ASSUME NEW s \in Sales, Order(s) \/ Collect(s) \/ Edit(s) \/ Annul(s)
      PROVE  /\ DebtInv'
             /\ "collectEdited" \notin Requests =>
                   /\ \A q \in Sales : Within(q)
                   /\ [Contract!CNext]_(Contract!cvars)
    <2>1. \A q \in Sales \ {s} : Still(q)
        BY <1>0, <1>3, OtherSalesStill
    <2>2. DebtFits(s)' /\ ("collectEdited" \notin Requests => Promised(s) /\ Within(s))
        BY <1>0, <1>3, OrderDebt, CollectDebt, EditDebt, AnnulDebt
    <2>3. QED
        BY <1>2, <2>1, <2>2
<1>4. ASSUME NEW p \in DOMAIN payments, DeleteSalePayment(p)
      PROVE  /\ DebtInv'
             /\ "collectEdited" \notin Requests =>
                   /\ \A q \in Sales : Within(q)
                   /\ [Contract!CNext]_(Contract!cvars)
    <2>1. PICK s \in Sales : payments[p].sale = s
        <3>1. payments[p] \in PaymentRows
            BY <1>0 DEF TypeOK
        <3>2. QED
            BY <3>1 DEF PaymentRows
    <2>2. \A q \in Sales \ {s} : Still(q)
        BY <1>0, <1>4, <2>1, OtherReversalStill
    <2>3. DebtFits(s)' /\ Promised(s) /\ Within(s)
        BY <1>0, <1>4, <2>1, ReversalDebt
    <2>4. QED
        BY <1>2, <2>2, <2>3
<1>5. CASE UNCHANGED vars
    <2>1. \A q \in Sales : Still(q)
        BY <1>5, StutterStill
    <2>2. DebtInv' /\ \A q \in Sales : Within(q)
        BY <1>1, <2>1 DEF DebtInv
    <2>3. UNCHANGED <<phaseOf, valueOf, shipped, paidOf>>
        BY <1>5 DEF vars, phaseOf, valueOf, paidOf, Standing, Consolidated, ConsolidatedOf
    <2>4. QED
        BY <2>2, <2>3 DEF Contract!cvars
<1>6. QED
    BY <1>3, <1>4, <1>5 DEF Next

LEMMA InitDebt == Init => DebtInv
<1> SUFFICES ASSUME Init, NEW s \in Sales PROVE DebtFits(s)
    BY DEF DebtInv
<1>1. LivePaid(payments, s) = 0
    BY LiveNetEmpty DEF Init, LivePaid
<1>2. invoice[s] = Absent /\ invoice[s].ticket = "NONE" /\ credit[s] = NoCredit
    BY DEF Init, Absent
<1>3. QED
    BY <1>1, <1>2 DEF DebtFits, Standing, HasCredit

LEMMA InitStock == Init => StockInv
BY DEF Init, StockInv, Stocked, Absent

\* What a standing credit sale owes by its credit row is its consolidated value
\* less its live payments, after any sequence of collections, instalments,
\* reversals and edits, whatever an edit refunds and to whom it is reassigned.
THEOREM CreditAlwaysMatches ==
    ASSUME "inline" \notin Requests, "loanEdit" \notin Requests
    PROVE  Spec => []CreditMatchesDebt
<1>1. IInv /\ StockInv /\ [Next]_vars => StockInv'
    BY StockStep
<1>2. IInv /\ StockInv /\ DebtInv /\ [Next]_vars => DebtInv'
    BY DebtStep
<1>3. DebtInv => CreditMatchesDebt
    BY DEF DebtInv, DebtFits, CreditMatchesDebt
<1>4. QED
    BY InitIInv, IInvStep, InitStock, InitDebt, <1>1, <1>2, <1>3, PTL DEF Spec

\* No checkout, collection or instalment ever takes more than the sale is worth.
THEOREM NeverOverCollects ==
    ASSUME "inline" \notin Requests, "loanEdit" \notin Requests,
           "collectEdited" \notin Requests
    PROVE  Spec => NoOverCollection
<1>1. IInv /\ StockInv /\ [Next]_vars => StockInv'
    BY StockStep
<1>2. IInv /\ StockInv /\ DebtInv /\ [Next]_vars => DebtInv'
    BY DebtStep
<1>3. IInv /\ StockInv /\ DebtInv /\ [Next]_vars =>
        [\A s \in Sales :
          /\ Standing(s) /\ Standing(s)'
          /\ notes'[s] = notes[s]
          /\ LivePaid(payments', s) > LivePaid(payments, s)
          => LivePaid(payments', s) <= Consolidated(s)']_vars
    BY DebtStep DEF Within
<1>4. QED
    BY InitIInv, IInvStep, InitStock, InitDebt, <1>1, <1>2, <1>3, PTL
       DEF Spec, NoOverCollection

\* The ledger implements the contract of a sale: every request is one of its
\* steps or changes nothing that it speaks of.
THEOREM ContractIsKept ==
    ASSUME "inline" \notin Requests, "loanEdit" \notin Requests,
           "collectEdited" \notin Requests
    PROVE  Spec => KeepsContract
<1>1. IInv /\ StockInv /\ [Next]_vars => StockInv'
    BY StockStep
<1>2. IInv /\ StockInv /\ DebtInv /\ [Next]_vars => DebtInv'
    BY DebtStep
<1>3. IInv /\ StockInv /\ DebtInv /\ [Next]_vars => [Contract!CNext]_(Contract!cvars)
    BY DebtStep
<1>4. QED
    BY InitIInv, IInvStep, InitStock, InitDebt, InitPromise, <1>1, <1>2, <1>3, PTL
       DEF Spec, KeepsContract, Contract!CSpec

-----------------------------------------------------------------------------
\* The books: what the accounts hold, what was spent of the advances and what
\* the money rows of the sales say.
Holdings(b) == Sum([x \in Accounts |-> b[x] - Opening], Accounts)
Spent(a) == Sum([c \in Customers |-> OpeningAdvance - a[c]], Customers)
Taken(r) == Sum(r, Sales)

\* g is f with m more at x.
Moved(f, g, S, x, m) ==
    /\ f \in [S -> Int] /\ g \in [S -> Int]
    /\ g[x] = f[x] + m
    /\ \A y \in S \ {x} : g[y] = f[y]

LEMMA HoldingsChange ==
    ASSUME NEW b, NEW after, NEW x \in Accounts, NEW m \in Int,
           Moved(b, after, Accounts, x, m)
    PROVE  Holdings(b) \in Int /\ Holdings(after) = Holdings(b) + m
<1> DEFINE f == [y \in Accounts |-> b[y] - Opening]
           g == [y \in Accounts |-> after[y] - Opening]
<1>1. IsFiniteSet(Accounts) /\ Opening \in Int
    BY LedgerAssumption
<1>2. /\ \A y \in Accounts : f[y] \in Int /\ g[y] \in Int
      /\ \A y \in Accounts \ {x} : f[y] = g[y]
      /\ g[x] = f[x] + m /\ f[x] \in Int
    BY <1>1 DEF Moved
<1>3. Holdings(b) = Sum(f, Accounts) /\ Holdings(after) = Sum(g, Accounts)
    BY DEF Holdings
<1> HIDE DEF f, g
<1>4. Sum(f, Accounts) \in Int /\ Sum(g, Accounts) = Sum(f, Accounts) - f[x] + g[x]
    BY <1>1, <1>2, SumChange
<1>5. QED
    BY <1>2, <1>3, <1>4

LEMMA SpentChange ==
    ASSUME NEW a, NEW after, NEW c \in Customers, NEW m \in Int,
           Moved(a, after, Customers, c, m)
    PROVE  Spent(a) \in Int /\ Spent(after) = Spent(a) - m
<1> DEFINE f == [y \in Customers |-> OpeningAdvance - a[y]]
           g == [y \in Customers |-> OpeningAdvance - after[y]]
<1>1. IsFiniteSet(Customers) /\ OpeningAdvance \in Int
    BY LedgerAssumption
<1>2. /\ \A y \in Customers : f[y] \in Int /\ g[y] \in Int
      /\ \A y \in Customers \ {c} : f[y] = g[y]
      /\ g[c] = f[c] - m /\ f[c] \in Int
    BY <1>1 DEF Moved
<1>3. Spent(a) = Sum(f, Customers) /\ Spent(after) = Sum(g, Customers)
    BY DEF Spent
<1> HIDE DEF f, g
<1>4. Sum(f, Customers) \in Int /\ Sum(g, Customers) = Sum(f, Customers) - f[c] + g[c]
    BY <1>1, <1>2, SumChange
<1>5. QED
    BY <1>2, <1>3, <1>4

LEMMA TakenChange ==
    ASSUME NEW r, NEW after, NEW s \in Sales, NEW m \in Int, Moved(r, after, Sales, s, m)
    PROVE  Taken(r) \in Int /\ Taken(after) = Taken(r) + m
<1>1. IsFiniteSet(Sales)
    BY LedgerAssumption
<1>2. /\ \A y \in Sales : r[y] \in Int /\ after[y] \in Int
      /\ \A y \in Sales \ {s} : r[y] = after[y]
      /\ after[s] = r[s] + m
    BY DEF Moved
<1>3. Sum(r, Sales) \in Int /\ Sum(after, Sales) = Sum(r, Sales) - r[s] + after[s]
    BY <1>1, <1>2, SumChange
<1>4. QED
    BY <1>2, <1>3 DEF Taken

LEMMA BooksAreInt ==
    ASSUME TypeOK
    PROVE  Holdings(balance) \in Int /\ Spent(advance) \in Int /\ Taken(received) \in Int
<1>1. Holdings(balance) \in Int
    <2> DEFINE f == [x \in Accounts |-> balance[x] - Opening]
    <2>1. IsFiniteSet(Accounts) /\ Opening \in Int
        BY LedgerAssumption
    <2>2. \A x \in Accounts : f[x] \in Int
        BY <2>1 DEF TypeOK
    <2> HIDE DEF f
    <2>3. Sum(f, Accounts) \in Int
        BY <2>1, <2>2, SumIsInt
    <2>4. QED
        BY <2>3 DEF Holdings, f
<1>2. Spent(advance) \in Int
    <2> DEFINE f == [c \in Customers |-> OpeningAdvance - advance[c]]
    <2>1. IsFiniteSet(Customers) /\ OpeningAdvance \in Int
        BY LedgerAssumption
    <2>2. \A c \in Customers : f[c] \in Int
        BY <2>1 DEF TypeOK
    <2> HIDE DEF f
    <2>3. Sum(f, Customers) \in Int
        BY <2>1, <2>2, SumIsInt
    <2>4. QED
        BY <2>3 DEF Spent, f
<1>3. Taken(received) \in Int
    <2>1. IsFiniteSet(Sales) /\ \A s \in Sales : received[s] \in Int
        BY LedgerAssumption DEF TypeOK
    <2>2. QED
        BY <2>1, SumIsInt DEF Taken
<1>4. QED
    BY <1>1, <1>2, <1>3

\* The net amount m reached the accounts, or else the advances, and the money
\* rows of sale s say so.
Booked(s, m, u) ==
    /\ Holdings(balance') = Holdings(balance) + m
    /\ Spent(advance') = Spent(advance) + u
    /\ received'[s] = received[s] + (m + u)
    /\ \A q \in Sales \ {s} : received'[q] = received[q]

LEMMA BookedBalances ==
    ASSUME IInv, IInv', BalancesMatchMovements, NEW s \in Sales, NEW m \in Int, NEW u \in Int,
           Booked(s, m, u)
    PROVE  BalancesMatchMovements'
<1>1. Holdings(balance) \in Int /\ Spent(advance) \in Int /\ Taken(received) \in Int
    BY BooksAreInt DEF IInv
<1>2. received \in [Sales -> Int] /\ received' \in [Sales -> Int]
    BY DEF IInv, TypeOK
<1>3. Moved(received, received', Sales, s, m + u)
    BY <1>2 DEF Booked, Moved
<1>4. m + u \in Int
    OBVIOUS
<1>5. Taken(received') = Taken(received) + (m + u)
    BY <1>3, <1>4, TakenChange
<1>6. Holdings(balance) + Spent(advance) = Taken(received)
    BY DEF BalancesMatchMovements, Holdings, Spent, Taken
<1>7. Holdings(balance') + Spent(advance') = Taken(received')
    BY <1>1, <1>5, <1>6 DEF Booked
<1>8. QED
    BY <1>7 DEF BalancesMatchMovements, Holdings, Spent, Taken

\* One account credited, or two.
LEMMA CreditedHoldings ==
    ASSUME TypeOK, NEW x \in Accounts, NEW m \in Int
    PROVE  Holdings(Credited(x, m)) = Holdings(balance) + m
<1>1. balance \in [Accounts -> Int]
    BY DEF TypeOK
<1>2. Moved(balance, Credited(x, m), Accounts, x, m)
    BY <1>1 DEF Moved, Credited
<1>3. QED
    BY <1>2, HoldingsChange

More(b, x, m) == [b EXCEPT ![x] = @ + m]

LEMMA MoreHoldings ==
    ASSUME NEW b \in [Accounts -> Int], NEW x \in Accounts, NEW m \in Int
    PROVE  Holdings(b) \in Int /\ Holdings(More(b, x, m)) = Holdings(b) + m
<1>1. Moved(b, More(b, x, m), Accounts, x, m)
    BY DEF Moved, More
<1>2. QED
    BY <1>1, HoldingsChange

LEMMA CreditedBothHoldings ==
    ASSUME TypeOK, NEW x \in Accounts, NEW m \in Int, NEW y \in Accounts, NEW n \in Int,
           x # y
    PROVE  Holdings(CreditedBoth(x, m, y, n)) = Holdings(balance) + m + n
<1> DEFINE f == [balance EXCEPT ![x] = @ + m]
<1>1. f \in [Accounts -> Int] /\ Credited(x, m) = f
    BY DEF TypeOK, Credited
<1>2. CreditedBoth(x, m, y, n) = [f EXCEPT ![y] = @ + n]
    BY DEF CreditedBoth, TypeOK
<1> HIDE DEF f
<1>3. CreditedBoth(x, m, y, n) = More(f, y, n)
    BY <1>2 DEF More
<1>4. Holdings(f) = Holdings(balance) + m
    BY <1>1, CreditedHoldings
<1>5. QED
    BY <1>1, <1>3, <1>4, MoreHoldings

\* Requests that leave the money alone.
LEMMA UnbookedBalances ==
    ASSUME BalancesMatchMovements, UNCHANGED <<balance, advance, received>>
    PROVE  BalancesMatchMovements'
BY DEF BalancesMatchMovements

\* The sale is credited with what the accounts took in.
LEMMA BookedOne ==
    ASSUME TypeOK, NEW s \in Sales, NEW m \in Int, Holdings(balance') = Holdings(balance) + m,
           advance' = advance, received' = [received EXCEPT ![s] = @ + m]
    PROVE  Booked(s, m, 0)
BY BooksAreInt DEF Booked, TypeOK

LEMMA OrderBooks ==
    ASSUME IInv, IInv', BalancesMatchMovements, NEW s \in Sales, Order(s)
    PROVE  BalancesMatchMovements'
<1>0. TypeOK
    BY DEF IInv
<1>1. ASSUME NEW a \in Actors, NEW c \in Clients, NEW n \in Sizes,
             NEW p \in InlinePayments, NEW r \in InlinePayments,
             CreatePaidSale(s, a, c, n, p, r)
      PROVE  BalancesMatchMovements'
    <2> DEFINE g == p.gross + r.gross
    <2>1. /\ p.account \in Accounts /\ r.account \in Accounts
          /\ p.gross \in Int /\ r.gross \in Int /\ g \in Int
        BY InlineType
    <2> DEFINE first == Credited(p.account, p.gross)
    <2>2. /\ balance' = More(first, r.account, r.gross)
          /\ advance' = advance
          /\ received' = [received EXCEPT ![s] = @ + g]
        BY <1>1 DEF CreatePaidSale, More
    <2>3. Holdings(balance') = Holdings(balance) + p.gross + r.gross
        <3>1. Holdings(first) = Holdings(balance) + p.gross
            BY <1>0, <2>1, CreditedHoldings
        <3>2. first \in [Accounts -> Int]
            BY <1>0, <2>1 DEF TypeOK, Credited
        <3> HIDE DEF first
        <3>3. QED
            BY <2>1, <2>2, <3>1, <3>2, MoreHoldings
    <2>4. Holdings(balance') = Holdings(balance) + g
        <3>1. Holdings(balance) \in Int
            BY <1>0, BooksAreInt
        <3>2. QED
            BY <2>1, <2>3, <3>1
    <2> HIDE DEF g
    <2>5. Booked(s, g, 0)
        BY <1>0, <2>1, <2>2, <2>4, BookedOne
    <2>6. QED
        BY <2>1, <2>5, BookedBalances
<1>2. QED
    BY <1>1, UnbookedBalances DEF Order, CreateSale, EditOrder, ConvertOrderToLoan

LEMMA CollectBooks ==
    ASSUME IInv, IInv', BalancesMatchMovements, NEW s \in Sales, Collect(s)
    PROVE  BalancesMatchMovements'
<1>0. TypeOK /\ Holdings(balance) \in Int /\ Spent(advance) \in Int /\ received[s] \in Int
    BY BooksAreInt DEF IInv, TypeOK
<1>1. ASSUME NEW a \in Actors, NEW t \in Tenders, NEW k \in 0..MaxUnits,
             NEW from \in {"ORDER", "LOAN"}, ProcessPayment(s, a, t, k, from)
      PROVE  BalancesMatchMovements'
    <2> DEFINE c == invoice[s].customer
               m == t.cash - t.change
    <2>1. /\ balance' = CreditedBoth(a, m, t.bank, t.transfer)
          /\ t.advance > 0 => c \in Customers
          /\ advance' = IF t.advance > 0 THEN [advance EXCEPT ![c] = @ - t.advance]
                        ELSE advance
          /\ received' = [received EXCEPT ![s] = @ + TenderNet(t)]
        BY <1>0, <1>1 DEF ProcessPayment, TypeOK, InvoiceRows, Clients
    <2>2. /\ m \in Int /\ t.transfer \in Int /\ t.advance \in Nat
          /\ a \in Accounts /\ t.bank \in Accounts /\ a # t.bank
        BY TendersOf, LedgerAssumption DEF Accounts
    <2>3. TenderNet(t) = m + t.transfer + t.advance
        BY TendersOf DEF TenderNet
    <2> HIDE DEF m, c
    <2>4. Holdings(balance') = Holdings(balance) + m + t.transfer
        BY <1>0, <2>1, <2>2, CreditedBothHoldings, SMTT(30)
    <2>5. Spent(advance') = Spent(advance) + t.advance
        <3>1. CASE t.advance > 0
            <4>1. Moved(advance, advance', Customers, c, -t.advance)
                BY <1>0, <2>1, <2>2, <3>1, SMTT(30) DEF Moved, TypeOK
            <4>2. Spent(advance') = Spent(advance) - (-t.advance)
                BY <2>1, <2>2, <3>1, <4>1, SpentChange
            <4>3. QED
                BY <1>0, <2>2, <4>2
        <3>2. CASE ~(t.advance > 0)
            BY <1>0, <2>1, <2>2, <3>2
        <3>3. QED
            BY <3>1, <3>2
    <2>6. Booked(s, m + t.transfer, t.advance)
        BY <1>0, <2>1, <2>2, <2>3, <2>4, <2>5 DEF Booked, TypeOK
    <2>7. m + t.transfer \in Int /\ t.advance \in Int
        BY <2>2
    <2>8. QED
        BY <2>6, <2>7, BookedBalances
<1>2. ASSUME NEW a \in Actors, NEW t \in Tenders, CollectSaleBalance(s, a, t)
      PROVE  BalancesMatchMovements'
    <2>1. /\ balance' = CreditedBoth(a, t.cash, t.bank, t.transfer) /\ advance' = advance
          /\ received' = [received EXCEPT ![s] = @ + t.cash + t.transfer]
        BY <1>2 DEF CollectSaleBalance
    <2>2. /\ t.cash \in Int /\ t.transfer \in Int
          /\ a \in Accounts /\ t.bank \in Accounts /\ a # t.bank
        BY TendersOf, LedgerAssumption DEF Accounts
    <2>3. Holdings(balance') = Holdings(balance) + t.cash + t.transfer
        BY <1>0, <2>1, <2>2, CreditedBothHoldings
    <2>4. Booked(s, t.cash + t.transfer, 0)
        BY <1>0, <2>1, <2>2, <2>3, SMTT(30) DEF Booked, TypeOK
    <2>5. t.cash + t.transfer \in Int
        BY <2>2
    <2>6. QED
        BY <2>4, <2>5, BookedBalances
<1>3. ASSUME NEW a \in Actors, NEW x \in Accounts, NEW m \in 1..MaxTender,
             ProcessCreditPayment(s, a, x, m)
      PROVE  BalancesMatchMovements'
    <2>1. m \in Int /\ balance' = Credited(x, m) /\ advance' = advance
        BY <1>3 DEF ProcessCreditPayment
    <2>2. Holdings(balance') = Holdings(balance) + m
        BY <1>0, <2>1, CreditedHoldings
    <2>3. received' = [received EXCEPT ![s] = @ + m]
        BY <1>3 DEF ProcessCreditPayment
    <2>4. Booked(s, m, 0)
        BY <1>0, <2>1, <2>2, <2>3, BookedOne
    <2>5. QED
        BY <2>1, <2>4, BookedBalances
<1>4. QED
    BY <1>1, <1>2, <1>3 DEF Collect

LEMMA EditBooks ==
    ASSUME IInv, IInv', BalancesMatchMovements, NEW s \in Sales, Edit(s)
    PROVE  BalancesMatchMovements'
<1> SUFFICES ASSUME NEW a \in Actors, NEW r \in 0..(MaxUnits + MaxDebits),
                    NEW d \in 0..MaxDebits, NEW c \in Clients,
                    NEW refundTo \in Accounts \cup {NoAccount}, NEW chargeTo \in Accounts,
                    EditSale(s, a, r, d, c, refundTo, chargeTo)
             PROVE  BalancesMatchMovements'
    BY DEF Edit
<1> DEFINE refund  == IF refundTo = NoAccount THEN 0 ELSE RefundOf(s, r, d)
           charge  == IF HasCredit(s) THEN 0 ELSE d
           afterNC == IF refund > 0 THEN Credited(refundTo, -refund) ELSE balance
<1>0. TypeOK /\ Holdings(balance) \in Int /\ Spent(advance) \in Int /\ received[s] \in Int
    BY BooksAreInt DEF IInv, TypeOK
<1>1. /\ refund \in Nat /\ charge \in Nat
      /\ refund > 0 => refundTo \in Accounts
    <2>1. r \in Nat /\ d \in Nat
        BY LedgerAssumption
    <2>2. QED
        BY <1>0, <2>1, RefundNat
<1>2. /\ balance' = [afterNC EXCEPT ![chargeTo] = @ + charge] /\ advance' = advance
      /\ received' = [received EXCEPT ![s] = @ - refund + charge]
    BY DEF EditSale
<1> HIDE DEF refund, charge
<1>3. afterNC \in [Accounts -> Int] /\ Holdings(afterNC) = Holdings(balance) + (-refund)
    <2>1. CASE refund > 0
        <3>1. -refund \in Int /\ refundTo \in Accounts /\ afterNC = Credited(refundTo, -refund)
            BY <1>1, <2>1
        <3>2. afterNC \in [Accounts -> Int]
            BY <1>0, <3>1 DEF TypeOK, Credited
        <3> HIDE DEF afterNC
        <3>3. QED
            BY <1>0, <3>1, <3>2, CreditedHoldings
    <2>2. CASE ~(refund > 0)
        BY <1>0, <1>1, <2>2 DEF TypeOK
    <2>3. QED
        BY <2>1, <2>2
<1> HIDE DEF afterNC
<1>4. Holdings(balance') = Holdings(balance) + (-refund) + charge
    <2>1. balance' = More(afterNC, chargeTo, charge) /\ charge \in Int
        BY <1>1, <1>2 DEF More
    <2>2. Holdings(balance') = Holdings(afterNC) + charge
        BY <1>3, <2>1, MoreHoldings
    <2>3. QED
        BY <1>3, <2>2
<1>5. Booked(s, charge - refund, 0)
    BY <1>0, <1>1, <1>2, <1>4, SMTT(30) DEF Booked, TypeOK
<1>6. charge - refund \in Int
    BY <1>1
<1>7. QED
    BY <1>5, <1>6, BookedBalances

\* Without a live transfer the transfers add up to nothing.
LEMMA NoTransfer ==
    ASSUME TypeOK, NEW s, ~HasTransfer(s)
    PROVE  LiveNet(payments, s, {"TRANSFER"}) = 0
<1> DEFINE f == [n \in 0..Len(payments) |-> 0]
<1>1. payments \in Seq(PaymentRows) /\ Len(payments) \in Nat
    BY DEF TypeOK
<1>2. \A n \in 1..Len(payments) : LiveNetOf(payments[n], s, {"TRANSFER"}) = 0
    <2>1. \A n \in 1..Len(payments) : n \in DOMAIN payments
        BY <1>1
    <2>2. QED
        BY <2>1 DEF HasTransfer, LiveNetOf
<1>3. IsLiveSum(f, payments, s, {"TRANSFER"})
    BY <1>1, <1>2 DEF IsLiveSum
<1>4. f[Len(payments)] = 0
    BY <1>1
<1> HIDE DEF f
<1>5. QED
    BY <1>1, <1>3, <1>4, LiveNetEquations

LEMMA AnnulBooks ==
    ASSUME IInv, IInv', BalancesMatchMovements, NEW s \in Sales, Annul(s)
    PROVE  BalancesMatchMovements'
<1>0. TypeOK /\ Holdings(balance) \in Int /\ Spent(advance) \in Int /\ received[s] \in Int
    BY BooksAreInt DEF IInv, TypeOK
<1>1. ASSUME NEW a \in Actors, NEW src \in Banks \cup Wallets \cup {NoAccount},
             VoidSale(s, a, src)
      PROVE  BalancesMatchMovements'
    <2> DEFINE cash     == LiveNet(payments, s, {"CASH"})
               transfer == LiveNet(payments, s, {"TRANSFER"})
               c        == invoice[s].customer
               restored == IF c = NoCustomer THEN 0 ELSE LiveNet(payments, s, {"ADVANCE"})
    <2>1. cash \in Nat /\ transfer \in Nat /\ restored \in Nat /\ c \in Clients
        BY <1>0, LiveNetNat DEF TypeOK, InvoiceRows
    <2>2. /\ balance' = IF HasTransfer(s) THEN CreditedBoth(a, -cash, src, -transfer)
                        ELSE Credited(a, -cash)
          /\ advance' = IF c = NoCustomer THEN advance
                        ELSE [advance EXCEPT ![c] = @ + restored]
          /\ received' = [received EXCEPT ![s] = @ - cash - transfer - restored]
          /\ HasTransfer(s) => src \in Accounts /\ src # a
        BY <1>1, LedgerAssumption DEF VoidSale, Accounts
    <2>3. ~HasTransfer(s) => transfer = 0
        BY <1>0, NoTransfer
    <2>4. c = NoCustomer => restored = 0
        OBVIOUS
    <2> HIDE DEF cash, transfer, restored, c
    <2>5. Holdings(balance') = Holdings(balance) + (-cash) + (-transfer)
        <3>1. -cash \in Int /\ -transfer \in Int /\ a \in Accounts
            BY <2>1 DEF Accounts
        <3>2. CASE HasTransfer(s)
            BY <1>0, <2>2, <3>1, <3>2, CreditedBothHoldings
        <3>3. CASE ~HasTransfer(s)
            <4>1. Holdings(balance') = Holdings(balance) + (-cash)
                BY <1>0, <2>2, <3>1, <3>3, CreditedHoldings
            <4>2. QED
                BY <1>0, <2>1, <2>3, <3>3, <4>1
        <3>4. QED
            BY <3>2, <3>3
    <2>6. Spent(advance') = Spent(advance) - restored
        <3>1. CASE c = NoCustomer
            BY <1>0, <2>2, <2>4, <3>1
        <3>2. CASE c # NoCustomer
            <4>1. c \in Customers
                BY <2>1, <3>2 DEF Clients
            <4>2. Moved(advance, advance', Customers, c, restored)
                BY <1>0, <2>1, <2>2, <3>2, <4>1, SMTT(30) DEF Moved, TypeOK
            <4>3. QED
                BY <2>1, <4>1, <4>2, SpentChange
        <3>3. QED
            BY <3>1, <3>2
    <2>7. Booked(s, -cash - transfer, -restored)
        BY <1>0, <2>1, <2>2, <2>5, <2>6, SMTT(30) DEF Booked, TypeOK
    <2>8. -cash - transfer \in Int /\ -restored \in Int
        BY <2>1
    <2>9. QED
        BY <2>7, <2>8, BookedBalances
<1>2. QED
    BY <1>1, UnbookedBalances DEF Annul, VoidOrder, VoidLoan

LEMMA ReversalBooks ==
    ASSUME IInv, IInv', BalancesMatchMovements, NEW p \in DOMAIN payments,
           DeleteSalePayment(p)
    PROVE  BalancesMatchMovements'
<1> DEFINE row == payments[p]
           net == Net(row)
<1>0. TypeOK /\ Holdings(balance) \in Int /\ Spent(advance) \in Int
    BY BooksAreInt DEF IInv
<1>1. row \in PaymentRows /\ net \in Nat
    <2>1. row \in PaymentRows
        BY <1>0 DEF TypeOK
    <2>2. QED
        BY <2>1, NetNat
<1>2. row.sale \in Sales /\ row.account \in Accounts \cup Customers \cup {NoAccount}
    BY <1>1 DEF PaymentRows
<1>3. /\ net > 0 => row.account # NoAccount
      /\ balance' = IF row.account \in Accounts THEN Credited(row.account, -net) ELSE balance
      /\ advance' = IF row.account \in Customers
                    THEN [advance EXCEPT ![row.account] = @ + net] ELSE advance
      /\ received' = [received EXCEPT ![row.sale] = @ - net]
    BY DEF DeleteSalePayment
<1> HIDE DEF row, net
<1>4. PICK x \in Accounts \cup Customers \cup {NoAccount}, s \in Sales, m \in Nat :
          row.account = x /\ row.sale = s /\ net = m
    BY <1>1, <1>2
<1>5. received[s] \in Int /\ -m \in Int /\ -m + 0 = -m /\ 0 + -m = -m
    BY <1>0 DEF TypeOK
<1>6. /\ received'[s] = received[s] + (-m)
      /\ \A q \in Sales \ {s} : received'[q] = received[q]
    BY <1>0, <1>3, <1>4, <1>5 DEF TypeOK
<1>7. CASE x \in Accounts
    <2>1. balance' = Credited(x, -m) /\ advance' = advance
        BY <1>3, <1>4, <1>7, LedgerAssumption
    <2>2. Holdings(balance') = Holdings(balance) + (-m)
        BY <1>0, <1>5, <1>7, <2>1, CreditedHoldings
    <2>3. Booked(s, -m, 0)
        BY <1>0, <1>5, <1>6, <2>1, <2>2 DEF Booked
    <2>4. QED
        BY <1>5, <2>3, BookedBalances
<1>8. CASE x \in Customers
    <2>1. balance' = balance /\ advance' = [advance EXCEPT ![x] = @ + m]
        BY <1>3, <1>4, <1>8, LedgerAssumption
    <2>2. Moved(advance, advance', Customers, x, m)
        BY <1>0, <1>8, <2>1 DEF Moved, TypeOK
    <2>3. Spent(advance') = Spent(advance) - m
        BY <1>8, <2>2, SpentChange
    <2>4. Booked(s, 0, -m)
        BY <1>0, <1>5, <1>6, <2>1, <2>3 DEF Booked
    <2>5. QED
        BY <1>5, <2>4, BookedBalances
<1>9. CASE x \notin Accounts \cup Customers
    <2>1. m = 0 /\ balance' = balance /\ advance' = advance
        BY <1>3, <1>4, <1>9
    <2>2. Booked(s, 0, 0)
        BY <1>0, <1>6, <2>1, <1>5 DEF Booked
    <2>3. QED
        BY <2>2, BookedBalances
<1>10. QED
    BY <1>7, <1>8, <1>9

\* Every peso that enters or leaves a register, a bank, a wallet or an advance
\* has its money row, and the reverse, in any order of any requests.
THEOREM BalancesAlwaysMatch == Spec => []BalancesMatchMovements
<1>1. Init => BalancesMatchMovements
    <2> SUFFICES ASSUME Init PROVE BalancesMatchMovements
        OBVIOUS
    <2> DEFINE f == [x \in Accounts |-> balance[x] - Opening]
               g == [c \in Customers |-> OpeningAdvance - advance[c]]
    <2>1. \A x \in Accounts : f[x] = 0
        BY LedgerAssumption DEF Init
    <2>2. \A c \in Customers : g[c] = 0
        BY LedgerAssumption DEF Init
    <2>3. \A s \in Sales : received[s] = 0
        BY DEF Init
    <2>4. BalancesMatchMovements <=> Sum(f, Accounts) + Sum(g, Customers) = Sum(received, Sales)
        BY DEF BalancesMatchMovements
    <2> HIDE DEF f, g
    <2>5. Sum(f, Accounts) = 0 /\ Sum(g, Customers) = 0 /\ Sum(received, Sales) = 0
        BY <2>1, <2>2, <2>3, SumZero
    <2>6. QED
        BY <2>4, <2>5
<1>2. IInv /\ BalancesMatchMovements /\ [Next]_vars => BalancesMatchMovements'
    <2> SUFFICES ASSUME IInv, BalancesMatchMovements, [Next]_vars
                 PROVE  BalancesMatchMovements'
        OBVIOUS
    <2>0. IInv'
        BY IInvStep
    <2>1. CASE UNCHANGED vars
        BY <2>1, UnbookedBalances DEF vars
    <2>2. ASSUME NEW s \in Sales, Order(s) \/ Collect(s) \/ Edit(s) \/ Annul(s)
          PROVE  BalancesMatchMovements'
        BY <2>0, <2>2, OrderBooks, CollectBooks, EditBooks, AnnulBooks
    <2>3. ASSUME NEW p \in DOMAIN payments, DeleteSalePayment(p)
          PROVE  BalancesMatchMovements'
        BY <2>0, <2>3, ReversalBooks
    <2>4. QED
        BY <2>1, <2>2, <2>3 DEF Next
<1>3. QED
    BY InitIInv, IInvStep, <1>1, <1>2, PTL DEF Spec

-----------------------------------------------------------------------------
\* What a customer paid in advance.

\* A row that consumed an advance names the customer, and while it is live on a
\* sale that stands, that customer is the one of the sale.
AdvanceRow(row, invoices) ==
    /\ row.account \in Customers <=> row.method = "ADVANCE"
    /\ row.method = "ADVANCE" /\ ~row.voided /\ ~invoices[row.sale].deleted
       => /\ invoices[row.sale].ticket = "SALE"
          /\ row.account = invoices[row.sale].customer

\* Without reassignments a sale keeps its customer, so the annulment finds the
\* customer that every live ADVANCE row of the sale names.
AdvanceInv ==
    /\ \A s \in Sales : Annulled(s) => invoice[s].deleted
    /\ \A p \in DOMAIN payments : AdvanceRow(payments[p], invoice)

Gone == {s \in Sales : Annulled(s)}

\* What a row holds of the advance of customer c while the sales in gone are
\* annulled.
Due(row, c, gone) ==
    IF row.account = c /\ ~row.voided /\ row.sale \notin gone THEN Net(row) ELSE 0
DuesOf(rows, c, gone) == [p \in DOMAIN rows |-> Due(rows[p], c, gone)]
Owing(rows, c, gone) == Total(DuesOf(rows, c, gone), DOMAIN rows)

LEMMA DueNat ==
    ASSUME NEW row \in PaymentRows, NEW c, NEW gone
    PROVE  Due(row, c, gone) \in Nat
BY NetNat DEF Due

LEMMA OwingNat ==
    ASSUME NEW rows \in Seq(PaymentRows), NEW c, NEW gone
    PROVE  /\ IsFiniteSet(DOMAIN rows)
           /\ \A p \in DOMAIN rows : /\ DuesOf(rows, c, gone)[p] = Due(rows[p], c, gone)
                                     /\ DuesOf(rows, c, gone)[p] \in Nat
           /\ Owing(rows, c, gone) \in Nat
<1>1. Len(rows) \in Nat /\ DOMAIN rows = 1..Len(rows)
    OBVIOUS
<1>2. IsFiniteSet(DOMAIN rows)
    BY <1>1, FS_Interval
<1>3. \A p \in DOMAIN rows : /\ DuesOf(rows, c, gone)[p] = Due(rows[p], c, gone)
                             /\ DuesOf(rows, c, gone)[p] \in Nat
    BY DueNat DEF DuesOf
<1>4. QED
    BY <1>2, <1>3, TotalIsNat DEF Owing

\* One row more.
LEMMA OwingOneMore ==
    ASSUME NEW rows \in Seq(PaymentRows), NEW row \in PaymentRows, NEW c, NEW gone
    PROVE  /\ rows \o <<row>> \in Seq(PaymentRows)
           /\ Owing(rows \o <<row>>, c, gone) = Owing(rows, c, gone) + Due(row, c, gone)
<1> DEFINE all == rows \o <<row>>
           len == Len(rows)
           f == DuesOf(rows, c, gone)
           g == DuesOf(all, c, gone)
<1>1. /\ len \in Nat /\ DOMAIN rows = 1..len /\ all \in Seq(PaymentRows)
      /\ DOMAIN all = (1..len) \cup {len + 1} /\ len + 1 \notin 1..len
      /\ all[len + 1] = row /\ \A n \in 1..len : all[n] = rows[n]
    OBVIOUS
<1>2. IsFiniteSet(1..len)
    BY <1>1, OwingNat
<1> HIDE DEF all, len
<1>3. /\ \A n \in (1..len) \cup {len + 1} : g[n] = Due(all[n], c, gone) /\ g[n] \in Nat
      /\ \A n \in 1..len : f[n] = Due(rows[n], c, gone)
    BY <1>1, OwingNat
<1>4. g[len + 1] = Due(row, c, gone) /\ \A n \in 1..len : g[n] = f[n]
    BY <1>1, <1>3
<1>5. Owing(all, c, gone) = Total(g, (1..len) \cup {len + 1})
    BY <1>1 DEF Owing
<1>6. Owing(rows, c, gone) = Total(f, 1..len)
    BY <1>1 DEF Owing
<1> HIDE DEF f, g
<1>7. Total(g, (1..len) \cup {len + 1}) = Total(g, 1..len) + g[len + 1]
    BY <1>1, <1>2, <1>3, TotalOneMore
<1>8. Total(g, 1..len) = Total(f, 1..len)
    BY <1>4, TotalSame
<1>9. QED
    BY <1>1, <1>4, <1>5, <1>6, <1>7, <1>8 DEF all

LEMMA OwingPerhaps ==
    ASSUME NEW rows \in Seq(PaymentRows), NEW n \in Nat, NEW row,
           n > 0 => row \in PaymentRows, NEW c, NEW gone
    PROVE  /\ rows \o Perhaps(n, row) \in Seq(PaymentRows)
           /\ Owing(rows \o Perhaps(n, row), c, gone)
              = Owing(rows, c, gone) + IF n > 0 THEN Due(row, c, gone) ELSE 0
<1> USE DEF Perhaps
<1>1. CASE n > 0
    BY <1>1, OwingOneMore
<1>2. CASE ~(n > 0)
    <2>1. rows \o <<>> = rows
        OBVIOUS
    <2>2. Owing(rows, c, gone) \in Nat
        BY OwingNat
    <2>3. QED
        BY <1>2, <2>1, <2>2
<1>3. QED
    BY <1>1, <1>2

\* The payments of POST /sales hold no advance.
LEMMA OwingOfInline ==
    ASSUME NEW rows \in Seq(PaymentRows), NEW s \in Sales, NEW p \in InlinePayments,
           NEW r \in InlinePayments, NEW c \in Customers, NEW gone
    PROVE  Owing(rows \o (InlineRows(s, p) \o InlineRows(s, r)), c, gone)
           = Owing(rows, c, gone)
<1>1. ASSUME NEW z \in InlinePayments, NEW some \in Seq(PaymentRows)
      PROVE  /\ some \o InlineRows(s, z) \in Seq(PaymentRows)
             /\ Owing(some \o InlineRows(s, z), c, gone) = Owing(some, c, gone)
    <2> DEFINE row == InlineRow(s, z)
    <2>1. /\ z.gross \in Nat /\ row \in PaymentRows
          /\ InlineRows(s, z) = Perhaps(z.gross, row)
        BY InlineType DEF InlineRows, Perhaps
    <2>2. Due(row, c, gone) = 0
        BY InlineType, LedgerAssumption DEF Due, InlineRow, Row
    <2>3. Owing(some, c, gone) \in Nat
        BY OwingNat
    <2> HIDE DEF row
    <2>4. /\ some \o Perhaps(z.gross, row) \in Seq(PaymentRows)
          /\ Owing(some \o Perhaps(z.gross, row), c, gone)
             = Owing(some, c, gone) + IF z.gross > 0 THEN Due(row, c, gone) ELSE 0
        BY <2>1, OwingPerhaps
    <2>5. QED
        BY <2>1, <2>2, <2>3, <2>4
<1> DEFINE A == InlineRows(s, p)
           B == InlineRows(s, r)
           one == rows \o A
<1>2. A \in Seq(PaymentRows) /\ B \in Seq(PaymentRows)
    BY InlineType
<1>3. one \in Seq(PaymentRows) /\ Owing(one, c, gone) = Owing(rows, c, gone)
    BY <1>1
<1>4. rows \o (A \o B) = one \o B
    <2> HIDE DEF A, B
    <2>1. QED
        BY <1>2 DEF one
<1> HIDE DEF one
<1>5. Owing(one \o B, c, gone) = Owing(one, c, gone)
    BY <1>1, <1>3
<1>6. QED
    BY <1>3, <1>4, <1>5

\* The tenders of a request hold its advance and nothing else.
LEMMA OwingOfTenders ==
    ASSUME NEW rows \in Seq(PaymentRows), NEW s \in Sales, NEW a \in Actors, NEW b,
           NEW t \in Tenders, t.change <= t.cash, t.advance > 0 => b \in Customers,
           NEW c \in Customers, NEW gone, s \notin gone
    PROVE  Owing(rows \o Rows(s, a, b, t), c, gone)
           = Owing(rows, c, gone) + IF b = c THEN t.advance ELSE 0
<1> DEFINE cash == Row(s, "CASH", t.cash, t.change, a)
           transfer == Row(s, "TRANSFER", t.transfer, 0, t.bank)
           spent == Row(s, "ADVANCE", t.advance, 0, b)
           A == Perhaps(t.cash, cash)
           B == Perhaps(t.transfer, transfer)
           C == Perhaps(t.advance, spent)
<1>1. /\ t.cash \in Nat /\ t.change \in Nat /\ t.transfer \in Nat /\ t.advance \in Nat
      /\ t.bank \in Banks
    BY TendersOf
<1>2. cash \in PaymentRows /\ transfer \in PaymentRows
    BY <1>1, RowType DEF Methods, Accounts
<1>3. t.advance > 0 => spent \in PaymentRows
    BY <1>1, RowType DEF Methods, Accounts
<1>4. /\ Due(cash, c, gone) = 0 /\ Due(transfer, c, gone) = 0
      /\ Due(spent, c, gone) = IF b = c THEN t.advance ELSE 0
    BY <1>1, LedgerAssumption DEF Due, Row, Net, Accounts
<1>5. Rows(s, a, b, t) = A \o B \o C
    BY DEF Rows, Perhaps
<1> HIDE DEF cash, transfer, spent
<1>6. /\ A \in Seq(PaymentRows) /\ B \in Seq(PaymentRows) /\ C \in Seq(PaymentRows)
    BY <1>1, <1>2, <1>3, LiveNetPerhaps
<1> DEFINE two == rows \o A
           three == two \o B
<1>7. two \in Seq(PaymentRows) /\ Owing(two, c, gone) = Owing(rows, c, gone) + 0
    <2>1. /\ two \in Seq(PaymentRows)
          /\ Owing(two, c, gone)
             = Owing(rows, c, gone) + IF t.cash > 0 THEN Due(cash, c, gone) ELSE 0
        BY <1>1, <1>2, OwingPerhaps
    <2> HIDE DEF two
    <2>2. QED
        BY <1>4, <2>1
<1> HIDE DEF two
<1>8. three \in Seq(PaymentRows) /\ Owing(three, c, gone) = Owing(two, c, gone) + 0
    <2>1. /\ three \in Seq(PaymentRows)
          /\ Owing(three, c, gone)
             = Owing(two, c, gone) + IF t.transfer > 0 THEN Due(transfer, c, gone) ELSE 0
        <3>1. two \in Seq(PaymentRows) /\ (t.transfer > 0 => transfer \in PaymentRows)
            BY <1>2, <1>7
        <3> HIDE DEF B
        <3>2. /\ two \o Perhaps(t.transfer, transfer) \in Seq(PaymentRows)
              /\ Owing(two \o Perhaps(t.transfer, transfer), c, gone)
                 = Owing(two, c, gone) + IF t.transfer > 0 THEN Due(transfer, c, gone) ELSE 0
            BY <1>1, <3>1, OwingPerhaps
        <3>3. QED
            BY <3>2 DEF three, B
    <2> HIDE DEF three
    <2>2. QED
        BY <1>4, <2>1
<1> HIDE DEF three
<1>9. Owing(three \o C, c, gone) = Owing(three, c, gone) + IF b = c THEN t.advance ELSE 0
    <2>1. Owing(three \o C, c, gone)
             = Owing(three, c, gone) + IF t.advance > 0 THEN Due(spent, c, gone) ELSE 0
        BY <1>1, <1>3, <1>8, OwingPerhaps
    <2>2. t.advance > 0 \/ t.advance = 0
        BY <1>1
    <2>3. QED
        BY <1>4, <2>1, <2>2
<1>10. rows \o (A \o B \o C) = three \o C
    <2> HIDE DEF A, B, C
    <2>1. rows \o (A \o B \o C) = ((rows \o A) \o B) \o C
        BY <1>6, AddedOneByOne, SMTT(30)
    <2>2. QED
        BY <2>1 DEF two, three
<1>11. Owing(rows, c, gone) \in Nat
    BY OwingNat
<1>12. Owing(rows \o Rows(s, a, b, t), c, gone) = Owing(three \o C, c, gone)
    BY <1>5, <1>10
<1>13. QED
    <2> DEFINE last == IF b = c THEN t.advance ELSE 0
    <2>1. last \in Nat
        BY <1>1
    <2> HIDE DEF last
    <2>2. Owing(three \o C, c, gone) = Owing(three, c, gone) + last
        BY <1>9 DEF last
    <2>3. Owing(three \o C, c, gone) = Owing(rows, c, gone) + last
        BY <1>7, <1>8, <1>11, <2>1, <2>2
    <2>4. QED
        BY <1>12, <2>3 DEF last

\* Voiding a row gives back what it held.
LEMMA OwingReversed ==
    ASSUME NEW rows \in Seq(PaymentRows), NEW p \in DOMAIN rows, NEW c, NEW gone
    PROVE  Owing(Reversed(rows, p), c, gone) = Owing(rows, c, gone) - Due(rows[p], c, gone)
<1> DEFINE left == Reversed(rows, p)
           f == DuesOf(rows, c, gone)
           g == DuesOf(left, c, gone)
<1>1. /\ DOMAIN left = DOMAIN rows
      /\ \A n \in DOMAIN rows : n # p => left[n] = rows[n]
      /\ left[p] = [rows[p] EXCEPT !.voided = TRUE]
    BY DEF Reversed
<1>2. rows[p] \in PaymentRows
    OBVIOUS
<1>3. Due(left[p], c, gone) = 0
    BY <1>1, <1>2 DEF Due, PaymentRows
<1>4. /\ IsFiniteSet(DOMAIN rows) /\ Owing(rows, c, gone) \in Nat
      /\ \A n \in DOMAIN rows : f[n] = Due(rows[n], c, gone) /\ f[n] \in Nat
    BY OwingNat
<1> HIDE DEF left
<1>5. \A n \in DOMAIN rows : g[n] = Due(left[n], c, gone)
    BY <1>1 DEF DuesOf
<1>6. /\ g[p] = 0 /\ f[p] = Due(rows[p], c, gone)
      /\ \A n \in DOMAIN rows \ {p} : f[n] = g[n]
    BY <1>1, <1>3, <1>4, <1>5
<1>7. \A n \in DOMAIN rows : f[n] \in Nat /\ g[n] \in Nat
    BY <1>4, <1>6
<1>8. Owing(left, c, gone) = Total(g, DOMAIN rows) /\ Owing(rows, c, gone) = Total(f, DOMAIN rows)
    BY <1>1 DEF Owing
<1> HIDE DEF f, g
<1>9. Total(g, DOMAIN rows) = Total(f, DOMAIN rows) - f[p] + g[p]
    BY <1>4, <1>6, <1>7, TotalChange
<1>10. QED
    BY <1>4, <1>6, <1>7, <1>8, <1>9 DEF left

\* LiveNet is a sum over the rows.
LEMMA LiveNetIsTotal ==
    ASSUME NEW rows \in Seq(PaymentRows), NEW s, NEW M
    PROVE  LiveNet(rows, s, M)
           = Total([p \in DOMAIN rows |-> LiveNetOf(rows[p], s, M)], DOMAIN rows)
<1> DEFINE len == Len(rows)
           w == [p \in DOMAIN rows |-> LiveNetOf(rows[p], s, M)]
           f == [n \in 0..len |-> Total(w, 1..n)]
<1>1. len \in Nat /\ DOMAIN rows = 1..len
    OBVIOUS
<1>2. \A n \in 1..len : w[n] = LiveNetOf(rows[n], s, M) /\ w[n] \in Nat
    BY NetNat
<1> HIDE DEF w, len
<1>3. f[0] = 0
    <2>1. \A x \in 1..0 : w[x] = 0
        OBVIOUS
    <2>2. f[0] = Total(w, 1..0)
        BY <1>1
    <2> HIDE DEF f
    <2>3. QED
        BY <2>1, <2>2, TotalZero
<1>4. ASSUME NEW n \in 1..len PROVE f[n] = f[n-1] + LiveNetOf(rows[n], s, M)
    <2> DEFINE S == 1..(n-1)
    <2>1. /\ n \in Nat /\ n - 1 \in Nat /\ n - 1 \in 0..len /\ n \in 0..len
          /\ 1..n = S \cup {n} /\ n \notin S /\ S \cup {n} \subseteq 1..len
        BY <1>1
    <2>2. f[n] = Total(w, 1..n) /\ f[n-1] = Total(w, S)
        BY <2>1
    <2>3. IsFiniteSet(S)
        BY <2>1, FS_Interval
    <2>4. \A y \in S \cup {n} : w[y] \in Nat
        BY <1>2, <2>1
    <2> HIDE DEF S, f
    <2>5. Total(w, S \cup {n}) = Total(w, S) + w[n]
        BY <2>1, <2>3, <2>4, TotalOneMore
    <2>6. QED
        BY <1>2, <2>1, <2>2, <2>5
<1>5. f = [n \in 0..len |-> f[n]] /\ f[len] = Total(w, 1..len)
    BY <1>1
<1> HIDE DEF f
<1>6. IsLiveSum(f, rows, s, M)
    BY <1>3, <1>4, <1>5 DEF IsLiveSum, len
<1>7. LiveNet(rows, s, M) = f[len]
    BY <1>6, LiveNetEquations DEF len
<1>8. QED
    BY <1>1, <1>5, <1>7 DEF w

\* The rows of a request: an advance only when the tender has one.
LEMMA TenderRows ==
    ASSUME NEW s, NEW a, NEW b, NEW t \in Tenders, NEW n \in DOMAIN Rows(s, a, b, t)
    PROVE  \/ Rows(s, a, b, t)[n] = Row(s, "CASH", t.cash, t.change, a)
           \/ Rows(s, a, b, t)[n] = Row(s, "TRANSFER", t.transfer, 0, t.bank)
           \/ t.advance > 0 /\ Rows(s, a, b, t)[n] = Row(s, "ADVANCE", t.advance, 0, b)
<1> DEFINE cash == Row(s, "CASH", t.cash, t.change, a)
           transfer == Row(s, "TRANSFER", t.transfer, 0, t.bank)
           spent == Row(s, "ADVANCE", t.advance, 0, b)
           A == IF t.cash > 0 THEN <<cash>> ELSE <<>>
           B == IF t.transfer > 0 THEN <<transfer>> ELSE <<>>
           C == IF t.advance > 0 THEN <<spent>> ELSE <<>>
           Any == {cash, transfer} \cup IF t.advance > 0 THEN {spent} ELSE {}
<1>1. Rows(s, a, b, t) = A \o B \o C
    BY DEF Rows
<1>2. A \in Seq(Any) /\ B \in Seq(Any) /\ C \in Seq(Any)
    <2> HIDE DEF cash, transfer, spent
    <2>1. cash \in Any /\ transfer \in Any /\ (t.advance > 0 => spent \in Any)
        OBVIOUS
    <2> HIDE DEF Any
    <2>2. \A x \in Any : <<x>> \in Seq(Any)
        OBVIOUS
    <2>3. <<>> \in Seq(Any)
        OBVIOUS
    <2>4. QED
        BY <2>1, <2>2, <2>3
<1> HIDE DEF A, B, C, Any
<1>3. A \o B \o C \in Seq(Any)
    BY <1>2
<1>4. Rows(s, a, b, t)[n] \in Any
    BY <1>1, <1>3
<1>5. QED
    BY <1>4 DEF Any

\* What a request does to the invoice of its sale and to the annulled sales.
LEMMA SaleAsItWas ==
    ASSUME TypeOK, "reassign" \notin Requests, NEW s \in Sales,
           Order(s) \/ Collect(s) \/ Edit(s) \/ Annul(s)
    PROVE  /\ invoice[s].deleted => invoice'[s].deleted
           /\ ~invoice'[s].deleted /\ invoice[s].ticket = "SALE"
              => invoice'[s].ticket = "SALE" /\ invoice'[s].customer = invoice[s].customer
           /\ "VOIDED" \in timeline'[s] => "VOIDED" \in timeline[s] \/ invoice'[s].deleted
<1> DEFINE Kept == /\ invoice[s].deleted => invoice'[s].deleted
                   /\ ~invoice'[s].deleted /\ invoice[s].ticket = "SALE"
                      => /\ invoice'[s].ticket = "SALE"
                         /\ invoice'[s].customer = invoice[s].customer
           Told == "VOIDED" \in timeline'[s] => "VOIDED" \in timeline[s] \/ invoice'[s].deleted
<1>0. invoice \in [Sales -> InvoiceRows] /\ timeline \in [Sales -> SUBSET Events]
    BY DEF TypeOK
<1>1. ASSUME NEW c, NEW n, CreateSale(s, c, n) PROVE Kept /\ Told
    BY <1>0, <1>1 DEF CreateSale, Record, Absent
<1>2. ASSUME NEW a, NEW c, NEW n, NEW p, NEW r, CreatePaidSale(s, a, c, n, p, r)
      PROVE  Kept /\ Told
    BY <1>0, <1>2 DEF CreatePaidSale, Record, Absent
<1>3. ASSUME NEW c, NEW n, EditOrder(s, c, n) PROVE Kept /\ Told
    BY <1>0, <1>3 DEF EditOrder, Live, InvoiceRows
<1>4. ASSUME ConvertOrderToLoan(s) PROVE Kept /\ Told
    BY <1>0, <1>4 DEF ConvertOrderToLoan, Record, Live, InvoiceRows
<1>5. ASSUME NEW a, NEW t, NEW k, NEW from \in {"ORDER", "LOAN"},
             ProcessPayment(s, a, t, k, from)
      PROVE  Kept /\ Told
    BY <1>0, <1>5 DEF ProcessPayment, Record, Live, InvoiceRows
<1>6. ASSUME NEW a, NEW t, CollectSaleBalance(s, a, t) PROVE Kept /\ Told
    BY <1>0, <1>6 DEF CollectSaleBalance, Record
<1>7. ASSUME NEW a, NEW x, NEW m, ProcessCreditPayment(s, a, x, m) PROVE Kept /\ Told
    BY <1>0, <1>7 DEF ProcessCreditPayment, Record
<1>8. ASSUME NEW a, NEW r, NEW d, NEW c, NEW refundTo, NEW chargeTo,
             EditSale(s, a, r, d, c, refundTo, chargeTo)
      PROVE  Kept /\ Told
    BY <1>0, <1>8 DEF EditSale, Live, InvoiceRows
<1>9. ASSUME VoidOrder(s) \/ VoidLoan(s) \/ \E a, src : VoidSale(s, a, src)
      PROVE  Kept /\ Told
    BY <1>0, <1>9 DEF VoidOrder, VoidLoan, VoidSale, Live, InvoiceRows
<1> HIDE DEF Kept, Told
<1>10. Kept /\ Told
    BY <1>1, <1>2, <1>3, <1>4, <1>5, <1>6, <1>7, <1>8, <1>9
       DEF Order, Collect, Edit, Annul
<1>11. QED
    BY <1>10 DEF Kept, Told

\* What a request adds to the payment rows.
LEMMA RowsAdded ==
    ASSUME TypeOK, NEW s \in Sales, Order(s) \/ Collect(s) \/ Edit(s) \/ Annul(s)
    PROVE  \/ payments' = payments
           \/ \E method \in {"CASH", "TRANSFER"}, gross \in Nat, x \in Accounts \cup {NoAccount} :
                  Insert(<<Row(s, method, gross, 0, x)>>)
           \/ \E p, r \in InlinePayments : Insert(InlineRows(s, p) \o InlineRows(s, r))
           \/ \E a \in Actors, t \in Tenders, c \in Clients :
                  /\ t.change <= t.cash /\ (t.advance > 0 => c \in Customers)
                  /\ Insert(Rows(s, a, c, t))
                  /\ t.advance > 0 => /\ c = invoice[s].customer /\ ~invoice[s].deleted
                                      /\ invoice'[s].customer = c
                                      /\ invoice'[s].ticket = "SALE"
<1> DEFINE One == \E method \in {"CASH", "TRANSFER"}, gross \in Nat,
                     x \in Accounts \cup {NoAccount} :
                      Insert(<<Row(s, method, gross, 0, x)>>)
           Inline == \E p, r \in InlinePayments :
                         Insert(InlineRows(s, p) \o InlineRows(s, r))
           Spending(c, t) ==
               t.advance > 0 => /\ c = invoice[s].customer /\ ~invoice[s].deleted
                                /\ invoice'[s].customer = c
                                /\ invoice'[s].ticket = "SALE"
           Many == \E a \in Actors, t \in Tenders, c \in Clients :
                       /\ t.change <= t.cash /\ (t.advance > 0 => c \in Customers)
                       /\ Insert(Rows(s, a, c, t))
                       /\ Spending(c, t)
<1>0. invoice \in [Sales -> InvoiceRows] /\ MaxTender \in Nat
    BY LedgerAssumption DEF TypeOK
<1>1. ASSUME NEW a, NEW c, NEW n, NEW p \in InlinePayments, NEW r \in InlinePayments,
             CreatePaidSale(s, a, c, n, p, r)
      PROVE  Inline
    BY <1>1 DEF CreatePaidSale
<1>2. ASSUME NEW a \in Actors, NEW t \in Tenders, NEW k, NEW from \in {"ORDER", "LOAN"},
             ProcessPayment(s, a, t, k, from)
      PROVE  Many
    <2> DEFINE c == invoice[s].customer
    <2>1. c \in Clients
        BY <1>0 DEF InvoiceRows
    <2>2. /\ t.change <= t.cash /\ (t.advance > 0 => c \in Customers)
          /\ Insert(Rows(s, a, c, t))
        BY <1>2, <2>1 DEF ProcessPayment, Clients
    <2>3. Spending(c, t)
        BY <1>0, <1>2 DEF ProcessPayment, Live, InvoiceRows
    <2> HIDE DEF c, Spending
    <2>4. QED
        BY <2>1, <2>2, <2>3
<1>3. ASSUME NEW a \in Actors, NEW t \in Tenders, CollectSaleBalance(s, a, t) PROVE Many
    <2>1. /\ NoCustomer \in Clients /\ t.change <= t.cash /\ ~(t.advance > 0)
          /\ Insert(Rows(s, a, NoCustomer, t))
        BY <1>3, TendersOf DEF CollectSaleBalance, WellFormed, Clients
    <2>2. QED
        BY <2>1
<1>4. ASSUME NEW a, NEW x \in Accounts, NEW m \in 1..MaxTender,
             ProcessCreditPayment(s, a, x, m)
      PROVE  One
    <2>1. /\ Insert(<<Row(s, IF x \in Banks THEN "TRANSFER" ELSE "CASH", m, 0, x)>>)
          /\ (IF x \in Banks THEN "TRANSFER" ELSE "CASH") \in {"CASH", "TRANSFER"}
          /\ m \in Nat /\ x \in Accounts \cup {NoAccount}
        BY <1>0, <1>4 DEF ProcessCreditPayment
    <2>2. QED
        BY <2>1
<1>5. ASSUME NEW a, NEW r, NEW d \in 0..MaxDebits, NEW c, NEW refundTo,
             NEW chargeTo \in Accounts, EditSale(s, a, r, d, c, refundTo, chargeTo)
      PROVE  payments' = payments \/ One
    <2> DEFINE charge == IF HasCredit(s) THEN 0 ELSE d
               method == IF chargeTo = a THEN "CASH" ELSE "TRANSFER"
               x == IF chargeTo = a THEN NoAccount ELSE chargeTo
    <2>1. CASE ~(charge > 0)
        BY <1>5, <2>1 DEF EditSale
    <2>2. CASE charge > 0
        <3>1. Insert(<<Row(s, method, charge, 0, x)>>)
            BY <1>5, <2>2 DEF EditSale
        <3>2. charge \in Nat /\ method \in {"CASH", "TRANSFER"} /\ x \in Accounts \cup {NoAccount}
            BY LedgerAssumption
        <3> HIDE DEF charge, method, x
        <3>3. QED
            BY <3>1, <3>2
    <2>3. QED
        BY <2>1, <2>2
<1>6. ASSUME NEW c, NEW n, CreateSale(s, c, n) \/ EditOrder(s, c, n) \/ ConvertOrderToLoan(s)
      PROVE  payments' = payments
    BY <1>6 DEF CreateSale, EditOrder, ConvertOrderToLoan
<1>7. Annul(s) => payments' = payments
    BY DEF Annul, VoidOrder, VoidLoan, VoidSale
<1> HIDE DEF One, Inline, Many
<1>8. payments' = payments \/ One \/ Inline \/ Many
    BY <1>1, <1>2, <1>3, <1>4, <1>5, <1>6, <1>7 DEF Order, Collect, Edit
<1>9. QED
    BY <1>8 DEF One, Inline, Many

LEMMA AdvanceStep ==
    ASSUME TypeOK, TypeOK', AdvanceInv, "reassign" \notin Requests, [Next]_vars
    PROVE  AdvanceInv'
<1> DEFINE Told == \A s \in Sales : Annulled(s)' => invoice'[s].deleted
           Fit(rows, inv) == \A p \in DOMAIN rows : AdvanceRow(rows[p], inv)
<1>0. /\ payments \in Seq(PaymentRows) /\ \A p \in DOMAIN payments : payments[p].sale \in Sales
      /\ \A q \in Sales : "VOIDED" \in timeline[q] => invoice[q].deleted
      /\ Fit(payments, invoice)
    <2>1. payments \in Seq(PaymentRows)
        BY DEF TypeOK
    <2>2. \A p \in DOMAIN payments : payments[p] \in PaymentRows
        BY <2>1
    <2>3. \A row \in PaymentRows : row.sale \in Sales
        BY DEF PaymentRows
    <2>4. QED
        BY <2>1, <2>2, <2>3 DEF AdvanceInv, Annulled
<1>1. ASSUME NEW s \in Sales, Order(s) \/ Collect(s) \/ Edit(s) \/ Annul(s)
      PROVE  Told /\ Fit(payments', invoice')
    <2>1. ASSUME NEW q \in Sales, q # s
          PROVE  invoice'[q] = invoice[q] /\ timeline'[q] = timeline[q]
        BY <1>1, <2>1, OtherSalesStill DEF Still, Frozen
    <2>2. /\ invoice[s].deleted => invoice'[s].deleted
          /\ ~invoice'[s].deleted /\ invoice[s].ticket = "SALE"
              => invoice'[s].ticket = "SALE" /\ invoice'[s].customer = invoice[s].customer
          /\ "VOIDED" \in timeline'[s] => "VOIDED" \in timeline[s] \/ invoice'[s].deleted
        BY <1>1, SaleAsItWas
    <2>3. Told
        BY <1>0, <2>1, <2>2 DEF Annulled
    <2>4. ASSUME NEW p \in DOMAIN payments PROVE AdvanceRow(payments[p], invoice')
        <3>1. CASE payments[p].sale = s
            BY <1>0, <2>2, <3>1 DEF AdvanceRow
        <3>2. CASE payments[p].sale # s
            BY <1>0, <2>1, <3>2 DEF AdvanceRow
        <3>3. QED
            BY <3>1, <3>2
    <2>5. ASSUME NEW rows, rows \in Seq(PaymentRows), payments' = payments \o rows,
                 Fit(rows, invoice')
          PROVE  Fit(payments', invoice')
        <3> SUFFICES ASSUME NEW p \in DOMAIN payments' PROVE AdvanceRow(payments'[p], invoice')
            OBVIOUS
        <3>1. /\ Len(payments) \in Nat /\ Len(rows) \in Nat
              /\ DOMAIN rows = 1..Len(rows) /\ DOMAIN payments = 1..Len(payments)
              /\ p \in 1..(Len(payments) + Len(rows))
            BY <1>0, <2>5
        <3>2. CASE p <= Len(payments)
            <4>1. p \in DOMAIN payments /\ payments'[p] = payments[p]
                BY <1>0, <2>5, <3>1, <3>2
            <4>2. QED
                BY <2>4, <4>1
        <3>3. CASE ~(p <= Len(payments))
            <4>1. p - Len(payments) \in DOMAIN rows /\ payments'[p] = rows[p - Len(payments)]
                BY <1>0, <2>5, <3>1, <3>3
            <4>2. QED
                BY <2>5, <4>1
        <3>4. QED
            BY <3>2, <3>3
    <2>6. CASE payments' = payments
        BY <2>3, <2>4, <2>6
    <2>7. ASSUME NEW method \in {"CASH", "TRANSFER"}, NEW gross \in Nat,
                 NEW x \in Accounts \cup {NoAccount}, Insert(<<Row(s, method, gross, 0, x)>>)
          PROVE  Fit(payments', invoice')
        <3> DEFINE row == Row(s, method, gross, 0, x)
        <3>1. row \in PaymentRows
            BY RowType DEF Methods
        <3>2. AdvanceRow(row, invoice')
            BY LedgerAssumption DEF AdvanceRow, Row
        <3>3. payments' = payments \o <<row>>
            BY <2>7 DEF Insert
        <3> HIDE DEF row
        <3>4. <<row>> \in Seq(PaymentRows) /\ Fit(<<row>>, invoice')
            BY <3>1, <3>2
        <3> HIDE DEF Fit
        <3>5. QED
            BY <2>5, <3>3, <3>4
    <2>8. ASSUME NEW a \in Actors, NEW t \in Tenders, NEW c \in Clients,
                 t.change <= t.cash, t.advance > 0 => c \in Customers,
                 Insert(Rows(s, a, c, t)),
                 t.advance > 0 => invoice'[s].customer = c /\ invoice'[s].ticket = "SALE"
          PROVE  Fit(payments', invoice')
        <3> DEFINE rows == Rows(s, a, c, t)
        <3>1. payments' = payments \o rows
            BY <2>8 DEF Insert
        <3>2. rows \in Seq(PaymentRows)
            BY <2>8, RowsType
        <3>3. ASSUME NEW n \in DOMAIN rows PROVE AdvanceRow(rows[n], invoice')
            <4>1. /\ AdvanceRow(Row(s, "CASH", t.cash, t.change, a), invoice')
                  /\ AdvanceRow(Row(s, "TRANSFER", t.transfer, 0, t.bank), invoice')
                BY TendersOf, LedgerAssumption DEF AdvanceRow, Row, Accounts
            <4>2. t.advance > 0 => AdvanceRow(Row(s, "ADVANCE", t.advance, 0, c), invoice')
                BY <2>8 DEF AdvanceRow, Row
            <4>3. QED
                BY <4>1, <4>2, TenderRows
        <3> HIDE DEF rows
        <3>4. QED
            BY <2>5, <3>1, <3>2, <3>3
    <2>9. ASSUME NEW p \in InlinePayments, NEW r \in InlinePayments,
                 Insert(InlineRows(s, p) \o InlineRows(s, r))
          PROVE  Fit(payments', invoice')
        <3> DEFINE A == InlineRows(s, p)
                   B == InlineRows(s, r)
                   Spends == {row \in PaymentRows : ~AdvanceRow(row, invoice')}
        <3>1. payments' = payments \o (A \o B)
            BY <2>9 DEF Insert
        <3>2. A \in Seq(PaymentRows \ Spends) /\ B \in Seq(PaymentRows \ Spends)
            <4>1. /\ AdvanceRow(InlineRow(s, p), invoice') /\ AdvanceRow(InlineRow(s, r), invoice')
                  /\ InlineRow(s, p) \in PaymentRows /\ InlineRow(s, r) \in PaymentRows
                BY InlineType, LedgerAssumption DEF AdvanceRow, InlineRow, Row
            <4>2. InlineRow(s, p) \in PaymentRows \ Spends /\ InlineRow(s, r) \in PaymentRows \ Spends
                BY <4>1
            <4> DEFINE Other == PaymentRows \ Spends
            <4> HIDE DEF Spends
            <4>3. ASSUME NEW z \in InlinePayments, InlineRow(s, z) \in Other
                  PROVE  InlineRows(s, z) \in Seq(Other)
                <5> HIDE DEF Other
                <5>1. QED
                    BY <4>3 DEF InlineRows
            <4>4. QED
                BY <4>2, <4>3
        <3> HIDE DEF A, B
        <3>3. /\ A \o B \in Seq(PaymentRows)
              /\ \A n \in DOMAIN (A \o B) : (A \o B)[n] \in PaymentRows \ Spends
            <4>1. A \o B \in Seq(PaymentRows \ Spends)
                BY <3>2
            <4>2. QED
                BY <4>1
        <3>4. QED
            BY <2>5, <3>1, <3>3
    <2> HIDE DEF Fit, Told
    <2>10. QED
        BY <1>1, <2>3, <2>6, <2>7, <2>8, <2>9, RowsAdded
<1>2. ASSUME NEW p \in DOMAIN payments, DeleteSalePayment(p)
      PROVE  Told /\ Fit(payments', invoice')
    <2>1. /\ payments' = Reversed(payments, p) /\ invoice' = invoice /\ timeline' = timeline
        BY <1>2 DEF DeleteSalePayment, Reversed
    <2>2. Told
        BY <1>0, <2>1 DEF Annulled
    <2>3. ASSUME NEW n \in DOMAIN payments' PROVE AdvanceRow(payments'[n], invoice')
        <3>1. n \in DOMAIN payments /\ payments[n] \in PaymentRows
            BY <1>0, <2>1 DEF Reversed
        <3>2. CASE n # p
            BY <1>0, <2>1, <3>1, <3>2 DEF Reversed
        <3>3. CASE n = p
            <4>1. payments'[n] = [payments[n] EXCEPT !.voided = TRUE]
                BY <2>1, <3>1, <3>3 DEF Reversed
            <4>2. QED
                BY <1>0, <3>1, <4>1 DEF AdvanceRow, PaymentRows
        <3>4. QED
            BY <3>2, <3>3
    <2>4. QED
        BY <2>2, <2>3
<1>3. ASSUME UNCHANGED vars PROVE Told /\ Fit(payments', invoice')
    <2>1. payments' = payments /\ invoice' = invoice /\ timeline' = timeline
        BY <1>3 DEF vars
    <2>2. Told
        BY <1>0, <2>1 DEF Annulled
    <2>3. QED
        BY <1>0, <2>1, <2>2
<1> HIDE DEF Told, Fit
<1>4. Told /\ Fit(payments', invoice')
    BY <1>1, <1>2, <1>3 DEF Next
<1>5. QED
    BY <1>4 DEF Told, Fit, AdvanceInv

\* The advances of the customers, as the rows hold them.
Conserved(c) == advance[c] + Owing(payments, c, Gone) = OpeningAdvance

LEMMA ConservedIs ==
    ASSUME TypeOK
    PROVE  AdvanceConserved <=> \A c \in Customers : Conserved(c)
<1>1. payments \in Seq(PaymentRows) /\ \A p \in DOMAIN payments : payments[p] \in PaymentRows
    BY DEF TypeOK
<1>2. ASSUME NEW c \in Customers
      PROVE  Owing(payments, c, Gone)
             = Total([p \in DOMAIN payments |->
                         IF /\ payments[p].account = c /\ ~payments[p].voided
                            /\ ~Annulled(payments[p].sale)
                         THEN Net(payments[p]) ELSE 0], DOMAIN payments)
    <2> DEFINE f == DuesOf(payments, c, Gone)
               g == [p \in DOMAIN payments |->
                         IF /\ payments[p].account = c /\ ~payments[p].voided
                            /\ ~Annulled(payments[p].sale)
                         THEN Net(payments[p]) ELSE 0]
    <2>1. \A p \in DOMAIN payments : payments[p].sale \in Sales
        BY <1>1 DEF PaymentRows
    <2>2. \A p \in DOMAIN payments : f[p] = g[p]
        BY <2>1 DEF DuesOf, Due, Gone
    <2> HIDE DEF f, g
    <2>3. Total(f, DOMAIN payments) = Total(g, DOMAIN payments)
        BY <2>2, TotalSame
    <2>4. QED
        BY <2>3 DEF Owing, f, g
<1>3. QED
    BY <1>2 DEF AdvanceConserved, Conserved

\* A request that annuls nothing.
LEMMA GoneStays ==
    ASSUME \A s \in Sales : "VOIDED" \in timeline'[s] <=> "VOIDED" \in timeline[s]
    PROVE  Gone' = Gone
BY DEF Gone, Annulled

\* The sale of an annulment joins those that hold nothing any more.
LEMMA GoneGrows ==
    ASSUME TypeOK, NEW s \in Sales, Record(s, {"VOIDED"})
    PROVE  Gone' = Gone \cup {s}
<1>1. timeline \in [Sales -> SUBSET Events]
    BY DEF TypeOK
<1>2. \A q \in Sales : "VOIDED" \in timeline'[q] <=> q = s \/ "VOIDED" \in timeline[q]
    BY <1>1 DEF Record
<1>3. QED
    BY <1>2 DEF Gone, Annulled

\* Only advances name a customer, and those of sale s that are live name b.
SpentBy(rows, s, b) ==
    \A p \in DOMAIN rows :
        /\ rows[p].account \in Customers <=> rows[p].method = "ADVANCE"
        /\ rows[p].sale = s /\ rows[p].method = "ADVANCE" /\ ~rows[p].voided
           => rows[p].account = b

\* What the annulment of a sale takes out of the sums.
LEMMA OwingAnnulled ==
    ASSUME NEW rows \in Seq(PaymentRows), NEW s \in Sales, NEW gone, s \notin gone,
           NEW c \in Customers, NEW b, SpentBy(rows, s, b)
    PROVE  Owing(rows, c, gone) = Owing(rows, c, gone \cup {s})
                                  + IF c = b THEN LiveNet(rows, s, {"ADVANCE"}) ELSE 0
<1> DEFINE after == gone \cup {s}
           f == DuesOf(rows, c, after)
           h == DuesOf(rows, c, gone)
           w == [p \in DOMAIN rows |-> LiveNetOf(rows[p], s, {"ADVANCE"})]
           g == [p \in DOMAIN rows |-> IF c = b THEN w[p] ELSE 0]
<1>1. /\ IsFiniteSet(DOMAIN rows) /\ Owing(rows, c, after) \in Nat
      /\ \A p \in DOMAIN rows : f[p] = Due(rows[p], c, after) /\ f[p] \in Nat
    BY OwingNat
<1>2. \A p \in DOMAIN rows : h[p] = Due(rows[p], c, gone) /\ h[p] \in Nat
    BY OwingNat
<1>3. \A p \in DOMAIN rows : w[p] = LiveNetOf(rows[p], s, {"ADVANCE"}) /\ w[p] \in Nat
    BY NetNat
<1>4. \A p \in DOMAIN rows : g[p] = (IF c = b THEN w[p] ELSE 0) /\ g[p] \in Nat
    BY <1>3
<1>5. Owing(rows, c, after) = Total(f, DOMAIN rows) /\ Owing(rows, c, gone) = Total(h, DOMAIN rows)
    BY DEF Owing
<1>6. LiveNet(rows, s, {"ADVANCE"}) = Total(w, DOMAIN rows)
    BY LiveNetIsTotal
<1> HIDE DEF f, h, w, g
<1>7. ASSUME NEW p \in DOMAIN rows PROVE h[p] = f[p] + g[p]
    <2>1. rows[p] \in PaymentRows /\ Net(rows[p]) \in Nat
        BY NetNat
    <2>2. rows[p].voided \in BOOLEAN
        BY <2>1 DEF PaymentRows
    <2>3. CASE rows[p].sale = s
        BY <1>1, <1>2, <1>3, <1>4, <2>1, <2>2, <2>3 DEF Due, LiveNetOf, SpentBy
    <2>4. CASE rows[p].sale # s
        BY <1>1, <1>2, <1>3, <1>4, <2>1, <2>2, <2>4 DEF Due, LiveNetOf, SpentBy
    <2>5. QED
        BY <2>3, <2>4
<1>8. Total(h, DOMAIN rows) = Total(f, DOMAIN rows) + Total(g, DOMAIN rows)
    BY <1>1, <1>4, <1>7, TotalPlus
<1>9. CASE c = b
    <2>1. Total(g, DOMAIN rows) = Total(w, DOMAIN rows)
        BY <1>4, <1>9, TotalSame
    <2>2. QED
        BY <1>5, <1>6, <1>8, <1>9, <2>1
<1>10. CASE c # b
    <2>1. Total(g, DOMAIN rows) = 0
        BY <1>4, <1>10, TotalZero
    <2>2. QED
        BY <1>1, <1>5, <1>8, <1>10, <2>1
<1>11. QED
    BY <1>9, <1>10

LEMMA ConservedStep ==
    ASSUME TypeOK, AdvanceInv, [Next]_vars, NEW c \in Customers, Conserved(c)
    PROVE  Conserved(c)'
<1>0. /\ payments \in Seq(PaymentRows) /\ advance \in [Customers -> Nat]
      /\ invoice \in [Sales -> InvoiceRows] /\ timeline \in [Sales -> SUBSET Events]
      /\ OpeningAdvance \in Nat /\ \A row \in PaymentRows : row.sale \in Sales
      /\ \A p \in DOMAIN payments : payments[p] \in PaymentRows
    BY LedgerAssumption DEF TypeOK, PaymentRows
<1> DEFINE owing == Owing(payments, c, Gone)
<1>1. owing \in Nat /\ advance[c] \in Nat /\ advance[c] + owing = OpeningAdvance
    BY <1>0, OwingNat DEF Conserved
<1>2. \A s \in Sales : s \in Gone => invoice[s].deleted
    BY DEF AdvanceInv, Gone
<1>3. ASSUME Gone' = Gone, advance' = advance,
             Owing(payments', c, Gone) = Owing(payments, c, Gone)
      PROVE  Conserved(c)'
    BY <1>1, <1>3 DEF Conserved
<1>4. ASSUME Gone' = Gone, advance' = advance, NEW s \in Sales,
             NEW method \in Methods, NEW gross \in Nat, NEW x \in Accounts \cup {NoAccount},
             Insert(<<Row(s, method, gross, 0, x)>>)
      PROVE  Conserved(c)'
    <2> DEFINE row == Row(s, method, gross, 0, x)
    <2>1. row \in PaymentRows
        BY RowType
    <2>2. Due(row, c, Gone) = 0
        BY LedgerAssumption DEF Due, Row
    <2>3. payments' = payments \o <<row>>
        BY <1>4 DEF Insert
    <2> HIDE DEF row
    <2>4. Owing(payments', c, Gone) = owing + 0
        BY <1>0, <2>1, <2>2, <2>3, OwingOneMore
    <2>5. QED
        BY <1>1, <1>3, <1>4, <2>4
<1>5. ASSUME NEW s \in Sales, Order(s) PROVE Conserved(c)'
    <2>1. Gone' = Gone /\ advance' = advance
        <3>1. ASSUME NEW events, "VOIDED" \notin events, Record(s, events) PROVE Gone' = Gone
            <4>1. \A q \in Sales : "VOIDED" \in timeline'[q] <=> "VOIDED" \in timeline[q]
                BY <1>0, <3>1 DEF Record
            <4>2. QED
                BY <4>1, GoneStays
        <3>2. timeline' = timeline => Gone' = Gone
            BY DEF Gone, Annulled
        <3>3. ASSUME NEW b, NEW n, CreateSale(s, b, n) PROVE Gone' = Gone /\ advance' = advance
            BY <3>1, <3>3 DEF CreateSale
        <3>4. ASSUME NEW a, NEW b, NEW n, NEW p, NEW r, CreatePaidSale(s, a, b, n, p, r)
              PROVE  Gone' = Gone /\ advance' = advance
            <4> DEFINE events == {"CREATED"} \cup IF p.gross + r.gross < n
                                                 THEN {"CREDIT_OPENED"} ELSE {}
            <4>1. "VOIDED" \notin events /\ Record(s, events) /\ advance' = advance
                BY <3>4 DEF CreatePaidSale
            <4> HIDE DEF events
            <4>2. QED
                BY <3>1, <4>1
        <3>5. ASSUME NEW b, NEW n, EditOrder(s, b, n) PROVE Gone' = Gone /\ advance' = advance
            BY <3>2, <3>5 DEF EditOrder
        <3>6. ConvertOrderToLoan(s) => Gone' = Gone /\ advance' = advance
            BY <3>1 DEF ConvertOrderToLoan
        <3>7. QED
            BY <1>5, <3>3, <3>4, <3>5, <3>6 DEF Order
    <2>2. ASSUME NEW a, NEW b, NEW n, NEW p \in InlinePayments, NEW r \in InlinePayments,
                 CreatePaidSale(s, a, b, n, p, r)
          PROVE  Conserved(c)'
        <3>1. payments' = payments \o (InlineRows(s, p) \o InlineRows(s, r))
            BY <2>2 DEF CreatePaidSale, Insert
        <3>2. Owing(payments', c, Gone) = Owing(payments, c, Gone)
            BY <1>0, <3>1, OwingOfInline
        <3>3. QED
            BY <1>3, <2>1, <3>2
    <2>3. payments' = payments => Conserved(c)'
        BY <1>3, <2>1
    <2>4. QED
        BY <1>5, <2>2, <2>3 DEF Order, CreateSale, EditOrder, ConvertOrderToLoan
<1>6. ASSUME NEW s \in Sales, Collect(s) PROVE Conserved(c)'
    <2>1. Gone' = Gone
        <3>1. ASSUME NEW events, "VOIDED" \notin events, Record(s, events) PROVE Gone' = Gone
            <4>1. \A q \in Sales : "VOIDED" \in timeline'[q] <=> "VOIDED" \in timeline[q]
                BY <1>0, <3>1 DEF Record
            <4>2. QED
                BY <4>1, GoneStays
        <3>2. PICK events : "VOIDED" \notin events /\ Record(s, events)
            <4>1. ASSUME NEW a, NEW t, NEW k, NEW from, ProcessPayment(s, a, t, k, from)
                  PROVE  \E events : "VOIDED" \notin events /\ Record(s, events)
                <5>1. Record(s, {"COLLECTED"} \cup IF k > 0 THEN {"CREDIT_OPENED"} ELSE {})
                    BY <4>1 DEF ProcessPayment
                <5>2. "VOIDED" \notin {"COLLECTED"} \cup IF k > 0 THEN {"CREDIT_OPENED"} ELSE {}
                    OBVIOUS
                <5>3. QED
                    BY <5>1, <5>2
            <4>2. ASSUME NEW a, NEW t, CollectSaleBalance(s, a, t)
                  PROVE  \E events : "VOIDED" \notin events /\ Record(s, events)
                <5> DEFINE rows == Rows(s, a, NoCustomer, t)
                           events == IF ~HasCredit(s) THEN {"COLLECTED"}
                                     ELSE {"INSTALLMENT"} \cup
                                          IF LivePaid(payments \o rows, s) >= Consolidated(s)
                                          THEN {"PAID"} ELSE {}
                <5>1. Record(s, events)
                    BY <4>2 DEF CollectSaleBalance
                <5>2. "VOIDED" \notin events
                    OBVIOUS
                <5> HIDE DEF events
                <5>3. QED
                    BY <5>1, <5>2
            <4>3. ASSUME NEW a, NEW x, NEW m, ProcessCreditPayment(s, a, x, m)
                  PROVE  \E events : "VOIDED" \notin events /\ Record(s, events)
                <5> DEFINE row == CreditRow(credit[s].total, credit[s].paid + m, credit[s].debtor)
                           events == {"INSTALLMENT"} \cup IF row.status = "PAID" THEN {"PAID"} ELSE {}
                <5>1. Record(s, events)
                    BY <4>3 DEF ProcessCreditPayment
                <5>2. "VOIDED" \notin events
                    OBVIOUS
                <5> HIDE DEF events
                <5>3. QED
                    BY <5>1, <5>2
            <4>4. QED
                BY <1>6, <4>1, <4>2, <4>3 DEF Collect
        <3>3. QED
            BY <3>1, <3>2
    <2>2. ASSUME NEW a \in Actors, NEW t \in Tenders, NEW k, NEW from,
                 ProcessPayment(s, a, t, k, from)
          PROVE  Conserved(c)'
        <3> DEFINE b == invoice[s].customer
                   taken == IF b = c THEN t.advance ELSE 0
        <3>1. /\ t.change <= t.cash /\ t.advance \in Nat
              /\ (t.advance > 0 => b \in Customers)
              /\ payments' = payments \o Rows(s, a, b, t)
              /\ ~invoice[s].deleted
            BY <1>0, <2>2, TendersOf DEF ProcessPayment, InvoiceRows, Clients, Live, Insert
        <3>2. Owing(payments', c, Gone) = owing + taken
            <4>1. s \notin Gone
                BY <1>2, <3>1
            <4> HIDE DEF b
            <4>2. QED
                BY <1>0, <3>1, <4>1, OwingOfTenders
        <3>3. advance' = IF t.advance > 0 THEN [advance EXCEPT ![b] = @ - t.advance] ELSE advance
            BY <2>2 DEF ProcessPayment
        <3>4. advance'[c] = advance[c] - taken
            <4> HIDE DEF b
            <4>1. CASE t.advance > 0
                BY <1>0, <3>1, <3>3, <4>1
            <4>2. CASE ~(t.advance > 0)
                BY <1>0, <3>1, <3>3, <4>2
            <4>3. QED
                BY <4>1, <4>2
        <3>5. taken \in Nat
            BY <3>1
        <3> HIDE DEF taken
        <3>6. advance'[c] + Owing(payments', c, Gone) = OpeningAdvance
            BY <1>1, <3>2, <3>4, <3>5
        <3>7. QED
            BY <2>1, <3>6 DEF Conserved
    <2>3. ASSUME NEW a \in Actors, NEW t \in Tenders, CollectSaleBalance(s, a, t)
          PROVE  Conserved(c)'
        <3>1. /\ t.change <= t.cash /\ t.advance = 0 /\ Live(s, {"SALE"})
              /\ payments' = payments \o Rows(s, a, NoCustomer, t) /\ advance' = advance
            BY <2>3 DEF CollectSaleBalance, WellFormed, Insert
        <3>2. s \notin Gone /\ NoCustomer # c /\ ~(t.advance > 0)
            BY <1>2, <3>1, LedgerAssumption DEF Live
        <3>3. Owing(payments', c, Gone) = owing + 0
            BY <1>0, <3>1, <3>2, OwingOfTenders
        <3>4. QED
            BY <1>1, <1>3, <2>1, <3>1, <3>3
    <2>4. ASSUME NEW a \in Actors, NEW x \in Accounts, NEW m \in 1..MaxTender,
                 ProcessCreditPayment(s, a, x, m)
          PROVE  Conserved(c)'
        <3>1. advance' = advance /\ m \in Nat
              /\ (IF x \in Banks THEN "TRANSFER" ELSE "CASH") \in Methods
              /\ Insert(<<Row(s, IF x \in Banks THEN "TRANSFER" ELSE "CASH", m, 0, x)>>)
            BY <2>4, LedgerAssumption DEF ProcessCreditPayment, Methods
        <3>2. QED
            BY <1>4, <2>1, <3>1
    <2>5. QED
        BY <1>6, <2>2, <2>3, <2>4 DEF Collect
<1>7. ASSUME NEW s \in Sales, Edit(s) PROVE Conserved(c)'
    <2>1. PICK a \in Actors, r \in 0..(MaxUnits + MaxDebits), d \in 0..MaxDebits, b \in Clients,
               refundTo \in Accounts \cup {NoAccount}, chargeTo \in Accounts :
              EditSale(s, a, r, d, b, refundTo, chargeTo)
        BY <1>7 DEF Edit
    <2>2. advance' = advance /\ Gone' = Gone
        BY <2>1 DEF EditSale, Gone, Annulled
    <2> DEFINE charge == IF HasCredit(s) THEN 0 ELSE d
               method == IF chargeTo = a THEN "CASH" ELSE "TRANSFER"
               x == IF chargeTo = a THEN NoAccount ELSE chargeTo
    <2>3. CASE ~(charge > 0)
        <3>1. payments' = payments
            BY <2>1, <2>3 DEF EditSale
        <3>2. QED
            BY <1>3, <2>2, <3>1
    <2>4. CASE charge > 0
        <3>1. Insert(<<Row(s, method, charge, 0, x)>>)
            BY <2>1, <2>4 DEF EditSale
        <3>2. charge \in Nat /\ method \in Methods /\ x \in Accounts \cup {NoAccount}
            BY LedgerAssumption DEF Methods
        <3> HIDE DEF charge, method, x
        <3>3. QED
            BY <1>4, <2>2, <3>1, <3>2
    <2>5. QED
        BY <2>3, <2>4
<1>8. ASSUME NEW s \in Sales, Annul(s) PROVE Conserved(c)'
    <2>1. payments' = payments /\ Record(s, {"VOIDED"}) /\ ~invoice[s].deleted
        BY <1>8 DEF Annul, VoidOrder, VoidLoan, VoidSale, Live
    <2>2. Gone' = Gone \cup {s} /\ s \notin Gone
        BY <1>2, <2>1, GoneGrows
    <2> DEFINE b == invoice[s].customer
    <2>3. \A p \in DOMAIN payments :
              /\ payments[p].account \in Customers <=> payments[p].method = "ADVANCE"
              /\ payments[p].sale = s /\ payments[p].method = "ADVANCE" /\ ~payments[p].voided
                 => payments[p].account = b /\ invoice[s].ticket = "SALE"
        BY <2>1 DEF AdvanceInv, AdvanceRow
    <2> HIDE DEF b
    <2>4. CASE VoidOrder(s) \/ VoidLoan(s)
        <3>1. invoice[s].ticket # "SALE" /\ advance' = advance
            BY <2>4 DEF VoidOrder, VoidLoan, Live
        <3>2. SpentBy(payments, s, NoAccount)
            BY <2>3, <3>1 DEF SpentBy
        <3>3. c # NoAccount /\ Owing(payments, c, Gone \cup {s}) \in Nat
            BY <1>0, LedgerAssumption, OwingNat
        <3>4. owing = Owing(payments, c, Gone \cup {s})
                      + IF c = NoAccount THEN LiveNet(payments, s, {"ADVANCE"}) ELSE 0
            BY <1>0, <2>2, <3>2, OwingAnnulled
        <3>5. owing = Owing(payments, c, Gone \cup {s})
            BY <3>3, <3>4
        <3>6. QED
            BY <1>1, <2>1, <2>2, <3>1, <3>5 DEF Conserved
    <2>5. ASSUME NEW a, NEW src, VoidSale(s, a, src) PROVE Conserved(c)'
        <3> DEFINE spent == LiveNet(payments, s, {"ADVANCE"})
        <3>1. spent \in Nat /\ Owing(payments, c, Gone \cup {s}) \in Nat
            BY <1>0, LiveNetNat, OwingNat
        <3>2. owing = Owing(payments, c, Gone \cup {s}) + IF c = b THEN spent ELSE 0
            <4>1. SpentBy(payments, s, b)
                BY <2>3 DEF SpentBy
            <4>2. QED
                BY <1>0, <2>2, <4>1, OwingAnnulled
        <3>3. advance' = IF b = NoCustomer THEN advance
                         ELSE [advance EXCEPT ![b] = @ + (IF b = NoCustomer THEN 0 ELSE spent)]
            BY <2>5 DEF VoidSale, b
        <3> HIDE DEF spent
        <3>4. advance'[c] = advance[c] + IF c = b THEN spent ELSE 0
            <4>1. NoCustomer # c
                BY LedgerAssumption
            <4>2. CASE b = NoCustomer
                BY <1>1, <3>3, <4>1, <4>2
            <4>3. CASE b # NoCustomer
                BY <1>0, <1>1, <3>3, <4>3
            <4>4. QED
                BY <4>2, <4>3
        <3>5. advance'[c] + Owing(payments, c, Gone \cup {s}) = OpeningAdvance
            BY <1>1, <3>1, <3>2, <3>4
        <3>6. QED
            BY <2>1, <2>2, <3>5 DEF Conserved
    <2>6. QED
        BY <1>8, <2>4, <2>5 DEF Annul
<1>9. ASSUME NEW p \in DOMAIN payments, DeleteSalePayment(p) PROVE Conserved(c)'
    <2> DEFINE row == payments[p]
               x == row.account
    <2>1. /\ payments' = Reversed(payments, p) /\ timeline' = timeline /\ ~row.voided
          /\ ~invoice[row.sale].deleted
          /\ advance' = IF x \in Customers THEN [advance EXCEPT ![x] = @ + Net(row)] ELSE advance
        BY <1>9 DEF DeleteSalePayment, Reversed, Live
    <2>2. row.sale \notin Gone /\ Gone' = Gone /\ Net(row) \in Nat
        BY <1>0, <1>2, <2>1, NetNat DEF Gone, Annulled
    <2>3. Owing(payments', c, Gone) = owing - Due(row, c, Gone)
        BY <1>0, <2>1, OwingReversed
    <2>4. Due(row, c, Gone) = IF x = c THEN Net(row) ELSE 0
        BY <2>1, <2>2 DEF Due
    <2>5. advance'[c] = advance[c] + Due(row, c, Gone)
        <3> HIDE DEF row
        <3>1. CASE x = c
            BY <1>0, <2>1, <2>4, <3>1
        <3>2. CASE x # c
            BY <1>0, <1>1, <2>1, <2>4, <3>2
        <3>3. QED
            BY <3>1, <3>2
    <2>6. Due(row, c, Gone) \in Nat
        BY <2>2, <2>4
    <2> HIDE DEF row
    <2>7. advance'[c] + Owing(payments', c, Gone) = OpeningAdvance
        BY <1>1, <2>3, <2>5, <2>6
    <2>8. QED
        BY <2>2, <2>7 DEF Conserved
<1>10. CASE UNCHANGED vars
    <2>1. payments' = payments /\ advance' = advance /\ timeline' = timeline
        BY <1>10 DEF vars
    <2>2. QED
        BY <1>3, <2>1 DEF Gone, Annulled
<1>11. QED
    BY <1>5, <1>6, <1>7, <1>8, <1>9, <1>10 DEF Next

\* As long as no edit moves a sale to another customer, an advance is spent by
\* the live ADVANCE rows of the sales not annulled and by nothing else: voiding
\* a payment or a sale gives it back once, to the customer who had paid it.
THEOREM AdvancesConserved ==
    ASSUME "reassign" \notin Requests
    PROVE  Spec => []AdvanceConserved
<1>1. Init => AdvanceInv /\ \A c \in Customers : Conserved(c)
    <2> SUFFICES ASSUME Init PROVE AdvanceInv /\ \A c \in Customers : Conserved(c)
        OBVIOUS
    <2>1. DOMAIN payments = {} /\ payments \in Seq(PaymentRows)
        BY DEF Init
    <2>2. AdvanceInv
        BY <2>1 DEF Init, AdvanceInv, Annulled
    <2>3. ASSUME NEW c \in Customers PROVE Conserved(c)
        <3>1. Owing(payments, c, Gone) = 0
            BY <2>1, TotalZero DEF Owing
        <3>2. advance[c] = OpeningAdvance /\ OpeningAdvance \in Nat
            BY LedgerAssumption DEF Init
        <3>3. QED
            BY <3>1, <3>2 DEF Conserved
    <2>4. QED
        BY <2>2, <2>3
<1> DEFINE All == \A c \in Customers : Conserved(c)
<1>2. IInv /\ IInv' /\ AdvanceInv /\ All /\ [Next]_vars => AdvanceInv' /\ All'
    BY AdvanceStep, ConservedStep DEF IInv
<1>3. IInv /\ All => AdvanceConserved
    BY ConservedIs DEF IInv
<1> HIDE DEF All
<1>4. Init => All
    BY <1>1 DEF All
<1>5. QED
    BY InitIInv, IInvStep, <1>1, <1>2, <1>3, <1>4, PTL DEF Spec
=============================================================================
