-------------------------- MODULE PurchasesProofs --------------------------
(***************************************************************************)
(* What holds of the books of purchases for any number of purchases,       *)
(* suppliers, accounts, clerks and amounts.                                *)
(***************************************************************************)
EXTENDS Purchases, TotalsTheorems

\* A purchase that is not written owes nothing; one that is has a supplier; a
\* credit that does not exist is empty; requests are about purchases written.
RowsKnown ==
    /\ \A p \in Purchases :
          /\ purchase[p].status = "none" =>
                /\ ~purchase[p].deleted /\ purchase[p].supplier = NoSupplier
                /\ credit[p] = NoCredit /\ freight[p] = NoCredit
          /\ purchase[p].status # "none" => purchase[p].supplier \in Suppliers
          /\ ~Exists(credit[p]) => credit[p] = NoCredit
          /\ ~Exists(freight[p]) => freight[p] = NoCredit
    /\ \A c \in Clerks : request[c].kind # "idle" =>
          purchase[request[c].purchase].status # "none"

\* The credits of an archived purchase have nothing left.
NothingLeft ==
    \A p \in Purchases : purchase[p].deleted => credit[p].balance = 0 /\ freight[p].balance = 0

BooksInv ==
    /\ PurchasesTypeOK /\ RowsKnown /\ NothingLeft
    /\ DebtIsCredits /\ CreditsFollowPurchase /\ MoneyIsPaid /\ PaidHasRows /\ StockIsReceived

\* What the sums of the books add up.
Owed(s, p) == IF purchase[p].supplier = s THEN credit[p].balance ELSE 0
PaidOn(p) == credit[p].paid + freight[p].paid
Returned(p) == IF purchase[p].deleted THEN Rows(p) + freightPaid[p] ELSE 0
Brought(p) == IF Active(p) /\ purchase[p].status = "received" THEN purchase[p].units ELSE 0

-----------------------------------------------------------------------------
LEMMA Finite == IsFiniteSet(Purchases) /\ IsFiniteSet(Accounts) /\ IsFiniteSet(Uuids)
<1>1. 1 \in Int /\ MaxPurchases \in Int
  BY PurchasesAssumption
<1>2. IsFiniteSet(1..MaxPurchases)
  BY <1>1, FS_Interval
<1> QED
  BY <1>2, PurchasesAssumption DEF Purchases

LEMMA SumsAreNat ==
    ASSUME PurchasesTypeOK, NEW p \in Purchases
    PROVE  /\ Rows(p) \in Nat /\ PaidOn(p) \in Nat /\ Returned(p) \in Nat /\ Brought(p) \in Nat
           /\ \A s : Owed(s, p) \in Nat
<1>1. Rows(p) \in Nat
  <2> DEFINE f == [u \in Uuids |-> IF payment[u].purchase = p THEN payment[u].amount ELSE 0]
  <2>1. ASSUME NEW u \in Uuids
        PROVE  f[u] \in Nat
    <3>1. CASE payment[u] = NoPayment
      BY <3>1 DEF NoPayment
    <3>2. CASE payment[u] # NoPayment
      BY <3>2, PurchasesAssumption DEF PurchasesTypeOK
    <3> QED
      BY <3>1, <3>2
  <2> HIDE DEF f
  <2>2. Total(f, Uuids) \in Nat
    BY <2>1, Finite, TotalIsNat
  <2> QED
    BY <2>2 DEF f, Rows
<1> QED
  BY <1>1 DEF PurchasesTypeOK, Purchase, Credit, PaidOn, Returned, Brought, Owed

\* The books in terms of what they add up.
LEMMA BooksAre ==
    /\ DebtIsCredits <=>
          \A s \in Suppliers : debt[s] = Total([p \in Purchases |-> Owed(s, p)], Purchases)
    /\ MoneyIsPaid <=>
          Total(balance, Accounts) + Total([p \in Purchases |-> PaidOn(p)], Purchases)
          = Money * Cardinality(Accounts) + Total([p \in Purchases |-> Returned(p)], Purchases)
    /\ StockIsReceived <=>
          (~raced => stock + sold = Total([p \in Purchases |-> Brought(p)], Purchases))
BY DEF DebtIsCredits, MoneyIsPaid, StockIsReceived, Owed, PaidOn, Returned, Brought

-----------------------------------------------------------------------------
(* Steps that change the rows of one purchase.                             *)

LEMMA DebtOfOne ==
    ASSUME PurchasesTypeOK, DebtIsCredits, NEW p \in Purchases,
           \A s \in Suppliers, q \in Purchases : Owed(s, q)' \in Nat,
           \A q \in Purchases \ {p} : purchase'[q] = purchase[q] /\ credit'[q] = credit[q],
           \A s \in Suppliers : debt'[s] = debt[s] + Owed(s, p)' - Owed(s, p)
    PROVE  DebtIsCredits'
<1> SUFFICES ASSUME NEW s \in Suppliers
             PROVE  debt'[s] = Total([q \in Purchases |-> Owed(s, q)'], Purchases)
  BY DEF DebtIsCredits, Owed
<1> DEFINE old == [q \in Purchases |-> Owed(s, q)]
           new == [q \in Purchases |-> Owed(s, q)']
<1>1. \A q \in Purchases : old[q] \in Nat /\ new[q] \in Nat
  BY SumsAreNat
<1>2. \A q \in Purchases \ {p} : old[q] = new[q]
  BY DEF Owed
<1>3. old[p] = Owed(s, p) /\ new[p] = Owed(s, p)'
  OBVIOUS
<1>4. debt[s] = Total(old, Purchases)
  BY BooksAre
<1> HIDE DEF old, new
<1>5. Total(new, Purchases) = Total(old, Purchases) - old[p] + new[p]
  BY <1>1, <1>2, Finite, TotalChange
<1>6. Total(old, Purchases) \in Nat
  BY <1>1, Finite, TotalIsNat
<1>7. debt'[s] = Total(new, Purchases)
  BY <1>1, <1>3, <1>4, <1>5, <1>6
<1> QED
  BY <1>7 DEF new

LEMMA MoneyOfOne ==
    ASSUME PurchasesTypeOK, MoneyIsPaid, NEW p \in Purchases,
           \A q \in Purchases : PaidOn(q)' \in Nat /\ Returned(q)' \in Nat,
           \A q \in Purchases \ {p} : PaidOn(q)' = PaidOn(q) /\ Returned(q)' = Returned(q),
           Total(balance', Accounts) = Total(balance, Accounts)
               + Returned(p)' - Returned(p) - PaidOn(p)' + PaidOn(p)
    PROVE  MoneyIsPaid'
<1> DEFINE paid == [q \in Purchases |-> PaidOn(q)]
           paidNew == [q \in Purchases |-> PaidOn(q)']
           back == [q \in Purchases |-> Returned(q)]
           backNew == [q \in Purchases |-> Returned(q)']
<1>1. \A q \in Purchases : /\ paid[q] \in Nat /\ paidNew[q] \in Nat
                           /\ back[q] \in Nat /\ backNew[q] \in Nat
  BY SumsAreNat
<1>2. \A q \in Purchases \ {p} : paid[q] = paidNew[q] /\ back[q] = backNew[q]
  OBVIOUS
<1>3. /\ paid[p] = PaidOn(p) /\ paidNew[p] = PaidOn(p)'
      /\ back[p] = Returned(p) /\ backNew[p] = Returned(p)'
  OBVIOUS
<1>4. Total(balance, Accounts) + Total(paid, Purchases)
      = Money * Cardinality(Accounts) + Total(back, Purchases)
  BY BooksAre
<1> HIDE DEF paid, paidNew, back, backNew
<1>5. /\ Total(paidNew, Purchases) = Total(paid, Purchases) - paid[p] + paidNew[p]
      /\ Total(backNew, Purchases) = Total(back, Purchases) - back[p] + backNew[p]
  BY <1>1, <1>2, Finite, TotalChange
<1>6. /\ Total(paid, Purchases) \in Nat /\ Total(back, Purchases) \in Nat
      /\ Total(balance, Accounts) \in Nat
  <2>1. \A a \in Accounts : balance[a] \in Nat
    BY DEF PurchasesTypeOK
  <2> QED
    BY <1>1, <2>1, Finite, TotalIsNat
<1>7. Money * Cardinality(Accounts) \in Nat
  <2>1. Cardinality(Accounts) \in Nat
    BY Finite, FS_CardinalityType
  <2> QED
    BY <2>1, PurchasesAssumption
<1>8. Total(balance', Accounts) + Total(paidNew, Purchases)
      = Money * Cardinality(Accounts) + Total(backNew, Purchases)
  <2> DEFINE m == Money * Cardinality(Accounts)
  <2> HIDE DEF m
  <2> SUFFICES Total(balance', Accounts) + Total(paidNew, Purchases) = m + Total(backNew, Purchases)
    BY DEF m
  <2>1. Total(balance, Accounts) + Total(paid, Purchases) = m + Total(back, Purchases) /\ m \in Nat
    BY <1>4, <1>7 DEF m
  <2> QED
    BY <2>1, <1>1, <1>3, <1>5, <1>6
<1> QED
  BY <1>8 DEF paidNew, backNew, PaidOn, Returned, MoneyIsPaid

LEMMA StockOfOne ==
    ASSUME PurchasesTypeOK, StockIsReceived, NEW p \in Purchases,
           \A q \in Purchases : Brought(q)' \in Nat,
           \A q \in Purchases \ {p} : purchase'[q] = purchase[q],
           ~raced' => ~raced /\ stock' + sold' = stock + sold + Brought(p)' - Brought(p)
    PROVE  StockIsReceived'
<1> SUFFICES ASSUME ~raced'
             PROVE  stock' + sold' = Total([q \in Purchases |-> Brought(q)'], Purchases)
  BY DEF StockIsReceived, Brought
<1> DEFINE old == [q \in Purchases |-> Brought(q)]
           new == [q \in Purchases |-> Brought(q)']
<1>1. \A q \in Purchases : old[q] \in Nat /\ new[q] \in Nat
  BY SumsAreNat
<1>2. \A q \in Purchases \ {p} : old[q] = new[q]
  BY DEF Brought, Active
<1>3. old[p] = Brought(p) /\ new[p] = Brought(p)'
  OBVIOUS
<1>4. stock + sold = Total(old, Purchases)
  BY BooksAre
<1> HIDE DEF old, new
<1>5. Total(new, Purchases) = Total(old, Purchases) - old[p] + new[p]
  BY <1>1, <1>2, Finite, TotalChange
<1>6. Total(old, Purchases) \in Nat
  BY <1>1, Finite, TotalIsNat
<1>7. stock' + sold' = Total(new, Purchases)
  BY <1>1, <1>3, <1>4, <1>5, <1>6
<1> QED
  BY <1>7 DEF new

\* Money that enters or leaves one account, or enters two.
LEMMA BalanceOfOne ==
    ASSUME PurchasesTypeOK, NEW a \in Accounts, NEW n \in Int, balance[a] + n \in Nat,
           balance' = [balance EXCEPT ![a] = @ + n]
    PROVE  /\ balance' \in [Accounts -> Nat]
           /\ Total(balance', Accounts) = Total(balance, Accounts) + n
<1>1. balance' \in [Accounts -> Nat]
  BY DEF PurchasesTypeOK
<1>2. /\ \A d \in Accounts : balance[d] \in Nat /\ balance'[d] \in Nat
      /\ \A d \in Accounts \ {a} : balance[d] = balance'[d]
      /\ balance'[a] = balance[a] + n
  BY <1>1 DEF PurchasesTypeOK
<1>3. Total(balance', Accounts) = Total(balance, Accounts) - balance[a] + balance'[a]
  <2> DEFINE after == balance'
  <2>1. /\ \A d \in Accounts : balance[d] \in Nat /\ after[d] \in Nat
        /\ \A d \in Accounts \ {a} : balance[d] = after[d]
    BY <1>2
  <2> HIDE DEF after
  <2>2. Total(after, Accounts) = Total(balance, Accounts) - balance[a] + after[a]
    BY <2>1, Finite, TotalChange
  <2> QED
    BY <2>2 DEF after
<1>4. Total(balance, Accounts) \in Nat
  BY <1>2, Finite, TotalIsNat
<1> QED
  BY <1>1, <1>2, <1>3, <1>4

LEMMA RefundedFacts ==
    ASSUME PurchasesTypeOK, NEW a \in Accounts, NEW b \in Accounts, NEW x \in Nat, NEW y \in Nat
    PROVE  /\ Refunded(a, x, b, y) \in [Accounts -> Nat]
           /\ Total(Refunded(a, x, b, y), Accounts) = Total(balance, Accounts) + x + y
<1> DEFINE first == [d \in Accounts |-> IF d = a THEN x ELSE 0]
           second == [d \in Accounts |-> IF d = b THEN y ELSE 0]
           both == [d \in Accounts |-> first[d] + second[d]]
           after == Refunded(a, x, b, y)
<1>1. Refunded(a, x, b, y) \in [Accounts -> Nat]
  BY DEF PurchasesTypeOK, Refunded
<1>2. \A d \in Accounts : /\ balance[d] \in Nat /\ first[d] \in Nat /\ second[d] \in Nat
                          /\ both[d] \in Nat
                          /\ both[d] = first[d] + second[d]
                          /\ after[d] = balance[d] + both[d]
  BY DEF PurchasesTypeOK, Refunded
<1>3. first[a] = x /\ second[b] = y
      /\ (\A d \in Accounts \ {a} : first[d] = 0) /\ (\A d \in Accounts \ {b} : second[d] = 0)
  OBVIOUS
<1> HIDE DEF first, second, both, after
<1>4. Total(first, Accounts) = x
  BY <1>3, TotalOne
<1>5. Total(second, Accounts) = y
  BY <1>3, TotalOne
<1>6. Total(both, Accounts) = Total(first, Accounts) + Total(second, Accounts)
  BY <1>2, Finite, TotalPlus
<1>7. Total(after, Accounts) = Total(balance, Accounts) + Total(both, Accounts)
  BY <1>2, Finite, TotalPlus
<1>8. Total(balance, Accounts) \in Nat
  BY <1>2, Finite, TotalIsNat
<1>9. Total(after, Accounts) = Total(balance, Accounts) + x + y
  BY <1>4, <1>5, <1>6, <1>7, <1>8
<1> QED
  BY <1>1, <1>9 DEF after

-----------------------------------------------------------------------------
(* Payments of one or more items.                                          *)

\* Items that a transaction may apply: finitely many, each with its own uuid.
ItemsOK(items) ==
    /\ IsFiniteSet(items)
    /\ \A i \in items : /\ i.uuid \in Uuids /\ i.purchase \in Purchases
                        /\ i.amount \in Amounts /\ i.account \in Accounts
    /\ \A i, j \in items : i.uuid = j.uuid => i = j

\* The items of a purchase, and of an account, add up to all of them.
LEMMA ItemSums ==
    ASSUME NEW items, ItemsOK(items)
    PROVE  /\ \A p \in Purchases : Due(items, p) \in Nat
           /\ \A a \in Accounts : Spent(items, a) \in Nat
           /\ Total([p \in Purchases |-> Due(items, p)], Purchases)
              = Total([i \in items |-> i.amount], items)
           /\ Total([a \in Accounts |-> Spent(items, a)], Accounts)
              = Total([i \in items |-> i.amount], items)
<1> DEFINE f == [i \in items |-> i.amount]
           toPurchase == [i \in items |-> i.purchase]
           fromAccount == [i \in items |-> i.account]
           toOne == [p \in Purchases |-> [i \in items |-> IF i.purchase = p THEN i.amount ELSE 0]]
           fromOne == [a \in Accounts |-> [i \in items |-> IF i.account = a THEN i.amount ELSE 0]]
           due == [p \in Purchases |-> Due(items, p)]
           spent == [a \in Accounts |-> Spent(items, a)]
<1>1. \A i \in items : /\ f[i] = i.amount /\ f[i] \in Nat
                       /\ toPurchase[i] = i.purchase /\ toPurchase[i] \in Purchases
                       /\ fromAccount[i] = i.account /\ fromAccount[i] \in Accounts
  BY PurchasesAssumption DEF ItemsOK
<1>2. IsFiniteSet(items)
  BY DEF ItemsOK
<1>3. ASSUME NEW p \in Purchases
      PROVE  Due(items, p) \in Nat
  <2> DEFINE g == [i \in items |-> IF i.purchase = p THEN i.amount ELSE 0]
  <2>1. \A i \in items : g[i] \in Nat
    BY <1>1
  <2> HIDE DEF g
  <2>2. Total(g, items) \in Nat
    BY <1>2, <2>1, TotalIsNat
  <2> QED
    BY <2>2 DEF g, Due
<1>4. ASSUME NEW a \in Accounts
      PROVE  Spent(items, a) \in Nat
  <2> DEFINE g == [i \in items |-> IF i.account = a THEN i.amount ELSE 0]
  <2>1. \A i \in items : g[i] \in Nat
    BY <1>1
  <2> HIDE DEF g
  <2>2. Total(g, items) \in Nat
    BY <1>2, <2>1, TotalIsNat
  <2> QED
    BY <2>2 DEF g, Spent
<1>5. \A p \in Purchases :
         /\ \A i \in items : toOne[p][i] = IF toPurchase[i] = p THEN f[i] ELSE 0
         /\ due[p] = Total(toOne[p], items)
  BY DEF Due
<1>6. \A a \in Accounts :
         /\ \A i \in items : fromOne[a][i] = IF fromAccount[i] = a THEN f[i] ELSE 0
         /\ spent[a] = Total(fromOne[a], items)
  BY DEF Spent
<1> HIDE DEF f, toPurchase, fromAccount, toOne, fromOne, due, spent
<1>7. Total(due, Purchases) = Total(f, items)
  <2>1. AddedByKey(f, items, toPurchase, toOne, due, Purchases)
    BY <1>1, <1>5 DEF AddedByKey
  <2> QED
    BY <1>2, <2>1, TotalByKey
<1>8. Total(spent, Accounts) = Total(f, items)
  <2>1. AddedByKey(f, items, fromAccount, fromOne, spent, Accounts)
    BY <1>1, <1>6 DEF AddedByKey
  <2> QED
    BY <1>2, <2>1, TotalByKey
<1> QED
  BY <1>3, <1>4, <1>7, <1>8 DEF f, due, spent

\* The payment rows of a purchase grow by its items.
LEMMA RowsGrow ==
    ASSUME PurchasesTypeOK, NEW items, ItemsOK(items), ApplyPayments(items), NEW p \in Purchases
    PROVE  Rows(p)' = Rows(p) + Due(items, p)
<1> DEFINE f == [i \in items |-> IF i.purchase = p THEN i.amount ELSE 0]
           key == [i \in items |-> i.uuid]
           part == [u \in Uuids |-> [i \in items |-> IF key[i] = u THEN f[i] ELSE 0]]
           new == [u \in Uuids |-> Total(part[u], items)]
           before == [u \in Uuids |-> IF payment[u].purchase = p THEN payment[u].amount ELSE 0]
           after == [u \in Uuids |-> IF payment'[u].purchase = p THEN payment'[u].amount ELSE 0]
<1>1. \A i \in items : f[i] \in Nat /\ key[i] \in Uuids /\ key[i] = i.uuid
  BY PurchasesAssumption DEF ItemsOK
<1>2. Total(new, Uuids) = Total(f, items)
  <2>1. IsFiniteSet(items)
    BY DEF ItemsOK
  <2>2. \A u \in Uuids : /\ \A i \in items : part[u][i] = IF key[i] = u THEN f[i] ELSE 0
                        /\ new[u] = Total(part[u], items)
    OBVIOUS
  <2> HIDE DEF f, key, new, part
  <2>3. AddedByKey(f, items, key, part, new, Uuids)
    BY <1>1, <2>2 DEF AddedByKey
  <2> QED
    BY <2>1, <2>3, TotalByKey
<1>3. ASSUME NEW u \in Uuids, \A i \in items : i.uuid # u
      PROVE  new[u] = 0 /\ payment'[u] = payment[u]
  <2>1. \A i \in items : part[u][i] = 0
    BY <1>1, <1>3
  <2>2. Total(part[u], items) = 0
    <3> HIDE DEF part
    <3> QED
      BY <2>1, TotalZero
  <2> QED
    BY <1>3, <2>2 DEF ApplyPayments
<1>4. ASSUME NEW i \in items
      PROVE  /\ new[i.uuid] = f[i] /\ payment[i.uuid] = NoPayment
             /\ payment'[i.uuid] = [purchase |-> i.purchase, amount |-> i.amount]
  <2> DEFINE u == i.uuid
  <2>1. u \in Uuids /\ \A j \in items : j.uuid = u => j = i
    BY DEF ItemsOK
  <2>2. part[u][i] = f[i] /\ \A j \in items \ {i} : part[u][j] = 0
    BY <1>1, <2>1
  <2>3. Total(part[u], items) = f[i]
    <3> HIDE DEF part, f, u
    <3> QED
      BY <1>1, <2>2, TotalOne
  <2>4. payment[u] = NoPayment
    BY DEF ApplyPayments, Unused, Used
  <2>5. (CHOOSE j \in items : j.uuid = u) = i
    BY <2>1
  <2>6. payment'[u] = [purchase |-> i.purchase, amount |-> i.amount]
    BY <2>1, <2>5 DEF ApplyPayments
  <2> QED
    BY <2>1, <2>3, <2>4, <2>6
<1>5. ASSUME NEW u \in Uuids
      PROVE  before[u] \in Nat /\ new[u] \in Nat /\ after[u] = before[u] + new[u]
  <2>1. before[u] \in Nat
    <3>1. CASE payment[u] = NoPayment
      BY <3>1 DEF NoPayment
    <3>2. CASE payment[u] # NoPayment
      BY <3>2, PurchasesAssumption DEF PurchasesTypeOK
    <3> QED
      BY <3>1, <3>2
  <2>2. CASE \A i \in items : i.uuid # u
    BY <1>3, <2>1, <2>2
  <2>3. CASE \E i \in items : i.uuid = u
    <3>1. PICK i \in items : i.uuid = u
      BY <2>3
    <3>2. /\ new[u] = f[i] /\ payment[u] = NoPayment
          /\ payment'[u] = [purchase |-> i.purchase, amount |-> i.amount]
      BY <1>4, <3>1
    <3>3. before[u] = 0
      BY <3>2 DEF NoPayment
    <3>4. after[u] = f[i]
      BY <3>2
    <3> HIDE DEF f, before, after, new
    <3> QED
      BY <1>1, <3>2, <3>3, <3>4
  <2> QED
    BY <2>2, <2>3
<1> HIDE DEF f, new, before, after
<1>6. Total(after, Uuids) = Total(before, Uuids) + Total(new, Uuids)
  BY <1>5, Finite, TotalPlus
<1> QED
  BY <1>2, <1>6 DEF f, before, after, Rows, Due

\* An item leaves something due, and nothing that is due is more than is left.
LEMMA DueFacts ==
    ASSUME PurchasesTypeOK, NothingLeft, NEW items, ItemsOK(items), ApplyPayments(items),
           NEW p \in Purchases
    PROVE  /\ Due(items, p) \in Nat /\ Due(items, p) <= credit[p].balance
           /\ purchase[p].deleted => Due(items, p) = 0
           /\ credit'[p] = IF Due(items, p) > 0 THEN Paid(credit[p], Due(items, p)) ELSE credit[p]
<1>1. Due(items, p) \in Nat
  BY ItemSums
<1>2. Due(items, p) <= credit[p].balance
  BY DEF ApplyPayments, CreditTakes
<1> QED
  BY <1>1, <1>2 DEF NothingLeft, ApplyPayments

-----------------------------------------------------------------------------
(* What the operations do to a credit.                                     *)

LEMMA PaidFacts ==
    ASSUME NEW c \in Credit, AddsUp(c), NEW amount \in Nat \ {0}, amount <= c.balance
    PROVE  /\ Paid(c, amount) \in Credit /\ AddsUp(Paid(c, amount)) /\ Exists(Paid(c, amount))
           /\ Paid(c, amount).total = c.total /\ Paid(c, amount).paid = c.paid + amount
           /\ Paid(c, amount).balance = c.balance - amount /\ c.total > 0
<1> DEFINE paid == c.paid + amount
           left == c.balance - amount
           status == CreditStatus(paid, left)
           d == Paid(c, amount)
<1>1. paid \in Nat /\ left \in Nat /\ c.total \in Nat /\ c.paid \in Nat /\ c.balance \in Nat
  BY DEF Credit
<1>2. status \in {"PENDING", "PARTIAL", "PAID"}
  BY DEF CreditStatus
<1>3. d = [c EXCEPT !.paid = paid, !.balance = left, !.status = status]
  BY DEF Paid
<1>4. /\ status = "PENDING" => paid <= 0
      /\ status = "PARTIAL" => paid > 0 /\ ~(left <= 0)
      /\ status = "PAID" => left <= 0
  BY <1>1 DEF CreditStatus
<1>5. paid + left = c.total /\ paid > 0
  BY <1>1 DEF AddsUp
<1> HIDE DEF paid, left, status, d
<1>6. /\ d \in Credit /\ d.total = c.total /\ d.paid = paid /\ d.balance = left
      /\ d.status = status
  BY <1>1, <1>2, <1>3 DEF Credit
<1>7. AddsUp(d) /\ Exists(d)
  BY <1>1, <1>2, <1>4, <1>5, <1>6 DEF AddsUp, Exists
<1>8. c.total > 0
  BY <1>1, <1>5
<1> QED
  BY <1>6, <1>7, <1>8 DEF d, paid, left

LEMMA ReconciledFacts ==
    ASSUME NEW c \in Credit, AddsUp(c), NEW total \in Nat
    PROVE  /\ Reconciled(c, total) \in Credit /\ AddsUp(Reconciled(c, total))
           /\ Exists(Reconciled(c, total)) /\ Reconciled(c, total).total = total
           /\ Excess(c, total) \in Nat
           /\ Reconciled(c, total).paid + Excess(c, total) = c.paid
           /\ DebtChange(c, total) = Reconciled(c, total).balance - c.balance
<1>1. CASE total < c.paid
  BY <1>1 DEF Reconciled, Credit, AddsUp, Exists, Excess, DebtChange
<1>2. CASE ~(total < c.paid)
  <2>1. CreditStatus(c.paid, total - c.paid) \in {"PENDING", "PARTIAL", "PAID"}
    BY DEF CreditStatus
  <2>2. total - c.paid \in Nat /\ c.paid \in Nat
    BY <1>2 DEF Credit
  <2> QED
    BY <1>2, <2>1, <2>2 DEF Reconciled, Credit, AddsUp, Exists, Excess, DebtChange, CreditStatus
<1> QED
  BY <1>1, <1>2

LEMMA NewCreditFacts ==
    /\ NoCredit \in Credit /\ AddsUp(NoCredit) /\ ~Exists(NoCredit)
    /\ NoCredit.total = 0 /\ NoCredit.paid = 0 /\ NoCredit.balance = 0
    /\ \A total \in Nat :
          /\ NewCredit(total) \in Credit /\ AddsUp(NewCredit(total)) /\ Exists(NewCredit(total))
          /\ NewCredit(total).total = total /\ NewCredit(total).paid = 0
          /\ NewCredit(total).balance = total
BY DEF NoCredit, NewCredit, Credit, AddsUp, Exists

LEMMA SettledFacts ==
    ASSUME NEW c \in Credit, AddsUp(c), Exists(c) \/ c = NoCredit
    PROVE  /\ Settled(c) \in Credit /\ AddsUp(Settled(c)) /\ Settled(c).balance = 0
           /\ Settled(c).paid = c.paid /\ Settled(c).total = c.paid
           /\ Exists(Settled(c)) <=> Exists(c)
           /\ ~Exists(c) => Settled(c) = NoCredit
<1>1. CASE Exists(c)
  <2>1. Settled(c) = [total |-> c.paid, paid |-> c.paid, balance |-> 0, status |-> "PAID"]
    BY <1>1 DEF Settled, Credit
  <2>2. c.paid \in Nat
    BY DEF Credit
  <2> QED
    BY <1>1, <2>1, <2>2 DEF Credit, AddsUp, Exists
<1>2. CASE c = NoCredit
  BY <1>2 DEF Settled, Credit, AddsUp, Exists, NoCredit
<1> QED
  BY <1>1, <1>2

LEMMA FreightFacts ==
    ASSUME PurchasesTypeOK, RowsKnown, NEW p \in Purchases, NEW f \in Nat, NEW k
    PROVE  /\ FreightAfter(p, f, k) \in Credit /\ AddsUp(FreightAfter(p, f, k))
           /\ FreightAfter(p, f, k).total = f
           /\ Exists(FreightAfter(p, f, k)) <=> f > 0
           /\ ~Exists(FreightAfter(p, f, k)) => FreightAfter(p, f, k) = NoCredit
           /\ FreightRefund(p, f, k) \in Nat
           /\ FreightAfter(p, f, k).paid + FreightRefund(p, f, k) = freight[p].paid
<1>1. freight[p] \in Credit /\ AddsUp(freight[p]) /\ freight[p].paid \in Nat
  BY DEF PurchasesTypeOK, Credit
<1>2. CASE f <= 0
  <2>1. FreightAfter(p, f, k) = NoCredit
    BY <1>2 DEF FreightAfter
  <2>2. FreightRefund(p, f, k) = freight[p].paid
    <3>1. CASE Exists(freight[p])
      BY <1>2, <3>1 DEF FreightRefund, FreightReplaced
    <3>2. CASE ~Exists(freight[p])
      BY <3>2, NewCreditFacts DEF FreightRefund, FreightReplaced, RowsKnown
    <3> QED
      BY <3>1, <3>2
  <2> QED
    BY <1>1, <1>2, <2>1, <2>2, NewCreditFacts
<1>3. CASE f > 0 /\ Exists(freight[p]) /\ purchase[p].carrier = k
  <2>1. /\ FreightAfter(p, f, k) = Reconciled(freight[p], f)
        /\ FreightRefund(p, f, k) = Excess(freight[p], f)
    BY <1>3 DEF FreightAfter, FreightRefund, FreightReplaced
  <2>2. /\ Reconciled(freight[p], f) \in Credit /\ AddsUp(Reconciled(freight[p], f))
        /\ Exists(Reconciled(freight[p], f)) /\ Reconciled(freight[p], f).total = f
        /\ Excess(freight[p], f) \in Nat
        /\ Reconciled(freight[p], f).paid + Excess(freight[p], f) = freight[p].paid
    BY <1>1, ReconciledFacts
  <2> QED
    BY ONLY <1>3, <2>1, <2>2
<1>4. CASE f > 0 /\ ~(Exists(freight[p]) /\ purchase[p].carrier = k)
  <2>1. FreightAfter(p, f, k) = NewCredit(f)
    BY <1>4 DEF FreightAfter
  <2>2. FreightRefund(p, f, k) = freight[p].paid
    <3>1. CASE Exists(freight[p])
      BY <1>4, <3>1 DEF FreightRefund, FreightReplaced
    <3>2. CASE ~Exists(freight[p])
      BY <3>2, NewCreditFacts DEF FreightRefund, FreightReplaced, RowsKnown
    <3> QED
      BY <3>1, <3>2
  <2>3. /\ NewCredit(f) \in Credit /\ AddsUp(NewCredit(f)) /\ Exists(NewCredit(f))
        /\ NewCredit(f).total = f /\ NewCredit(f).paid = 0
    BY NewCreditFacts
  <2> DEFINE c == FreightAfter(p, f, k)
             r == FreightRefund(p, f, k)
  <2>4. /\ c \in Credit /\ AddsUp(c) /\ Exists(c) /\ c.total = f /\ c.paid = 0
        /\ r = freight[p].paid /\ r \in Nat /\ f > 0
    BY <1>1, <1>4, <2>1, <2>2, <2>3
  <2> HIDE DEF c, r
  <2>5. c.paid + r = freight[p].paid
    BY <2>4
  <2>6. (Exists(c) <=> f > 0) /\ (~Exists(c) => c = NoCredit)
    BY <2>4
  <2> QED
    BY ONLY <2>4, <2>5, <2>6 DEF c, r
<1> QED
  BY <1>2, <1>3, <1>4

-----------------------------------------------------------------------------
LEMMA BooksStart == PurchasesInit => BooksInv
<1> SUFFICES ASSUME PurchasesInit
             PROVE  BooksInv
  OBVIOUS
<1> USE DEF PurchasesInit
<1>1. NoRow \in Purchase /\ NoRow.status = "none" /\ ~NoRow.deleted /\ NoRow.supplier = NoSupplier
  BY DEF NoRow, Purchase
<1>2. PurchasesTypeOK
  <2>1. \A p \in Purchases : credit[p] = NoCredit /\ freight[p] = NoCredit
    OBVIOUS
  <2>2. request \in [Clerks -> Requests]
    BY DEF Requests
  <2>3. purchase \in [Purchases -> Purchase]
    BY <1>1
  <2>4. /\ credit \in [Purchases -> Credit] /\ freight \in [Purchases -> Credit]
        /\ \A p \in Purchases : AddsUp(credit[p]) /\ (Exists(credit[p]) => credit[p].total > 0)
        /\ \A p \in Purchases : AddsUp(freight[p])
    BY <2>1, NewCreditFacts
  <2>5. /\ balance \in [Accounts -> Nat] /\ debt \in [Suppliers -> Nat]
        /\ freightPaid \in [Purchases -> Nat]
    BY PurchasesAssumption
  <2>6. stock \in Int /\ sold \in Nat /\ edits \in Nat /\ raced \in BOOLEAN
    <3>1. stock = 0 /\ sold = 0 /\ edits = 0
      OBVIOUS
    <3>2. raced \in BOOLEAN
      OBVIOUS
    <3> HIDE DEF PurchasesInit
    <3>3. stock \in Int /\ sold \in Nat /\ edits \in Nat
      BY <3>1
    <3> QED
      BY <3>2, <3>3
  <2>7. payment \in [Uuids -> {NoPayment} \cup [purchase : Purchases, amount : Amounts]]
    <3>1. payment = [u \in Uuids |-> NoPayment]
      OBVIOUS
    <3> HIDE DEF PurchasesInit
    <3> QED
      BY <3>1
  <2> HIDE DEF PurchasesInit
  <2> QED
    BY <2>2, <2>3, <2>4, <2>5, <2>6, <2>7 DEF PurchasesTypeOK
<1>3. RowsKnown /\ NothingLeft /\ CreditsFollowPurchase
  BY <1>1 DEF RowsKnown, NothingLeft, CreditsFollowPurchase, Active, Idle
<1>4. /\ \A p \in Purchases : PaidOn(p) = 0 /\ Returned(p) = 0 /\ Brought(p) = 0
      /\ \A s \in Suppliers, p \in Purchases : Owed(s, p) = 0
  BY <1>1, NewCreditFacts DEF PaidOn, Returned, Brought, Owed, Active
<1>5. DebtIsCredits
  <2> SUFFICES ASSUME NEW s \in Suppliers
               PROVE  debt[s] = Total([p \in Purchases |-> Owed(s, p)], Purchases)
    BY BooksAre
  <2> DEFINE f == [p \in Purchases |-> Owed(s, p)]
  <2>1. \A p \in Purchases : f[p] = 0
    BY <1>4
  <2> HIDE DEF f
  <2>2. Total(f, Purchases) = 0
    BY <2>1, TotalZero
  <2> QED
    BY <2>2 DEF f
<1>6. MoneyIsPaid
  <2> DEFINE paid == [p \in Purchases |-> PaidOn(p)]
             back == [p \in Purchases |-> Returned(p)]
  <2>1. \A p \in Purchases : paid[p] = 0 /\ back[p] = 0
    BY <1>4
  <2>2. \A a \in Accounts : balance[a] = Money
    OBVIOUS
  <2> HIDE DEF paid, back, PurchasesInit
  <2>3. Total(paid, Purchases) = 0 /\ Total(back, Purchases) = 0
    BY <2>1, TotalZero
  <2>4. Total(balance, Accounts) = Cardinality(Accounts) * Money
    BY <2>2, Finite, TotalConstant, PurchasesAssumption
  <2>5. Cardinality(Accounts) \in Nat /\ Money \in Nat
    BY Finite, FS_CardinalityType, PurchasesAssumption
  <2>6. Cardinality(Accounts) * Money = Money * Cardinality(Accounts)
    BY <2>5
  <2>7. Money * Cardinality(Accounts) \in Nat
    BY <2>5
  <2>8. Total(balance, Accounts) + Total(paid, Purchases)
        = Money * Cardinality(Accounts) + Total(back, Purchases)
    BY <2>3, <2>4, <2>6, <2>7
  <2> QED
    BY <2>8, BooksAre DEF paid, back
<1>7. PaidHasRows
  BY <1>2, SumsAreNat, NewCreditFacts DEF PaidHasRows, PurchasesTypeOK
<1>8. StockIsReceived
  <2> DEFINE f == [p \in Purchases |-> Brought(p)]
  <2>1. \A p \in Purchases : f[p] = 0
    BY <1>4
  <2> HIDE DEF f
  <2>2. Total(f, Purchases) = 0
    BY <2>1, TotalZero
  <2> QED
    BY <2>2, BooksAre DEF f
<1> QED
  BY <1>2, <1>3, <1>5, <1>6, <1>7, <1>8 DEF BooksInv

\* A step that leaves the books alone.
LEMMA BooksStay ==
    ASSUME BooksInv,
           UNCHANGED <<purchase, credit, freight, payment, freightPaid, debt, balance>>,
           PurchasesTypeOK', RowsKnown', StockIsReceived'
    PROVE  BooksInv'
BY DEF BooksInv, NothingLeft, DebtIsCredits, CreditsFollowPurchase, MoneyIsPaid, PaidHasRows,
   Active, Rows

LEMMA CreateStep ==
    ASSUME BooksInv, NEW p \in Purchases, NEW s \in Suppliers, NEW total \in Amounts,
           NEW f \in Freights, NEW k \in Carriers \cup {NoCarrier}, NEW units \in Lots,
           Create(p, s, total, f, k, units)
    PROVE  BooksInv'
<1> USE DEF BooksInv
<1> DEFINE row == [status |-> "pending", deleted |-> FALSE, supplier |-> s, carrier |-> k,
                   total |-> total, transport |-> f, units |-> units]
           haul == IF f > 0 THEN NewCredit(f) ELSE NoCredit
<1>1. /\ purchase[p] = NoRow /\ purchase' = [purchase EXCEPT ![p] = row]
      /\ credit' = [credit EXCEPT ![p] = NewCredit(total)]
      /\ debt' = [debt EXCEPT ![s] = @ + total]
      /\ freight' = [freight EXCEPT ![p] = haul]
      /\ UNCHANGED <<payment, freightPaid, balance, stock, sold, request, edits, raced>>
  BY DEF Create
<1>2. total \in Nat \ {0} /\ f \in Nat /\ units \in Nat
  BY PurchasesAssumption
<1>3. /\ row \in Purchase /\ row.status = "pending" /\ ~row.deleted /\ row.supplier = s
      /\ row.total = total /\ row.transport = f /\ s # NoSupplier
  BY <1>2, PurchasesAssumption DEF Purchase
<1>4. /\ haul \in Credit /\ AddsUp(haul) /\ haul.total = f /\ haul.paid = 0
      /\ (Exists(haul) <=> f > 0) /\ (~Exists(haul) => haul = NoCredit)
  BY <1>2, NewCreditFacts
<1>5. /\ NewCredit(total) \in Credit /\ AddsUp(NewCredit(total)) /\ Exists(NewCredit(total))
      /\ NewCredit(total).total = total /\ NewCredit(total).paid = 0
      /\ NewCredit(total).balance = total
  BY <1>2, NewCreditFacts
<1>6. /\ purchase[p].status = "none" /\ ~purchase[p].deleted
      /\ purchase[p].supplier = NoSupplier
      /\ credit[p] = NoCredit /\ freight[p] = NoCredit
  BY <1>1 DEF NoRow, RowsKnown
<1> HIDE DEF row, haul
<1>7. /\ purchase' \in [Purchases -> Purchase] /\ purchase'[p] = row
      /\ credit' \in [Purchases -> Credit] /\ credit'[p] = NewCredit(total)
      /\ freight' \in [Purchases -> Credit] /\ freight'[p] = haul
      /\ debt' \in [Suppliers -> Nat] /\ debt'[s] = debt[s] + total
      /\ \A q \in Purchases \ {p} : /\ purchase'[q] = purchase[q] /\ credit'[q] = credit[q]
                                     /\ freight'[q] = freight[q]
      /\ \A r \in Suppliers \ {s} : debt'[r] = debt[r]
  BY <1>1, <1>2, <1>3, <1>4, <1>5 DEF PurchasesTypeOK
<1>8. PurchasesTypeOK'
  BY <1>1, <1>2, <1>4, <1>5, <1>7 DEF PurchasesTypeOK
<1>9. RowsKnown' /\ NothingLeft' /\ CreditsFollowPurchase'
  <2>1. RowsKnown'
    <3>1. \A c \in Clerks : request'[c].kind # "idle" =>
            purchase'[request'[c].purchase].status # "none"
      <4> SUFFICES ASSUME NEW c \in Clerks, request[c].kind # "idle"
                   PROVE  purchase'[request[c].purchase].status # "none"
        BY <1>1
      <4>1. purchase[request[c].purchase].status # "none" /\ request[c].purchase \in Purchases
        BY DEF RowsKnown, PurchasesTypeOK, Requests, Idle
      <4> QED
        BY <4>1, <1>6, <1>7
    <3> QED
      BY <1>3, <1>4, <1>5, <1>7, <3>1 DEF RowsKnown
  <2>2. NothingLeft' /\ CreditsFollowPurchase'
    BY <1>3, <1>4, <1>5, <1>7 DEF NothingLeft, CreditsFollowPurchase, Active
  <2> QED
    BY <2>1, <2>2
<1>10. /\ \A q \in Purchases : /\ Rows(q)' = Rows(q) /\ Rows(q) \in Nat
                                /\ PaidOn(q)' = PaidOn(q) /\ Returned(q)' = Returned(q)
       /\ \A q \in Purchases : PaidOn(q) \in Nat /\ Returned(q) \in Nat
       /\ \A q \in Purchases : Brought(q)' = Brought(q)
       /\ \A q \in Purchases : Brought(q) \in Nat
  <2>1. \A q \in Purchases : Rows(q)' = Rows(q)
    BY <1>1 DEF Rows
  <2> QED
    BY <2>1, <1>1, <1>3, <1>4, <1>5, <1>6, <1>7, SumsAreNat, NewCreditFacts
       DEF PaidOn, Returned, Brought, Active
<1>11. DebtIsCredits'
  <2>1. \A r \in Suppliers, q \in Purchases : Owed(r, q)' \in Nat
    BY <1>2, <1>3, <1>5, <1>7 DEF Owed, PurchasesTypeOK, Credit
  <2>2. \A r \in Suppliers : debt'[r] = debt[r] + Owed(r, p)' - Owed(r, p)
    BY <1>2, <1>3, <1>5, <1>6, <1>7, NewCreditFacts, PurchasesAssumption
       DEF Owed, PurchasesTypeOK
  <2> QED
    BY <1>7, <2>1, <2>2, DebtOfOne
<1>12. MoneyIsPaid'
  <2>1. Total(balance, Accounts) \in Nat
    BY Finite, TotalIsNat DEF PurchasesTypeOK
  <2>2. Total(balance', Accounts) = Total(balance, Accounts)
          + Returned(p)' - Returned(p) - PaidOn(p)' + PaidOn(p)
    BY <1>1, <1>10, <2>1
  <2> QED
    BY <1>10, <2>2, MoneyOfOne
<1>13. StockIsReceived'
  <2>1. ~raced' => ~raced /\ stock' + sold' = stock + sold + Brought(p)' - Brought(p)
    BY <1>1, <1>10 DEF PurchasesTypeOK
  <2> QED
    BY <1>7, <1>10, <2>1, StockOfOne
<1>14. PaidHasRows'
  BY <1>1, <1>4, <1>5, <1>7, <1>10 DEF PaidHasRows, PurchasesTypeOK
<1> QED
  BY <1>8, <1>9, <1>11, <1>12, <1>13, <1>14

\* Requests that look at a purchase, sales, and what a request gives up.
LEMMA RequestStep ==
    ASSUME BooksInv, NEW c \in Clerks, NEW r \in Requests,
           r.kind # "idle" => purchase[r.purchase].status # "none",
           request' = [request EXCEPT ![c] = r],
           UNCHANGED <<purchase, credit, freight, payment, freightPaid, debt, balance,
                       stock, sold, edits, raced>>
    PROVE  BooksInv'
<1>1. request' \in [Clerks -> Requests] /\ request'[c] = r
      /\ \A d \in Clerks \ {c} : request'[d] = request[d]
  BY DEF BooksInv, PurchasesTypeOK
<1>2. PurchasesTypeOK'
  BY <1>1 DEF BooksInv, PurchasesTypeOK
<1>3. RowsKnown'
  BY <1>1 DEF BooksInv, RowsKnown
<1>4. StockIsReceived'
  BY DEF BooksInv, StockIsReceived, Active
<1> QED
  BY <1>2, <1>3, <1>4, BooksStay

LEMMA SellStep ==
    ASSUME BooksInv, Sell
    PROVE  BooksInv'
<1>1. /\ stock' = stock - 1 /\ sold' = sold + 1 /\ stock \in Int /\ sold \in Nat
      /\ UNCHANGED <<purchase, credit, freight, payment, freightPaid, debt, balance,
                     request, edits, raced>>
  BY DEF Sell, Adjusted, BooksInv, PurchasesTypeOK
<1>2. PurchasesTypeOK' /\ RowsKnown'
  BY <1>1 DEF BooksInv, PurchasesTypeOK, RowsKnown
<1>3. StockIsReceived'
  <2>1. stock' + sold' = stock + sold
    BY <1>1
  <2> QED
    BY <1>1, <2>1 DEF BooksInv, StockIsReceived, Active
<1> QED
  BY <1>1, <1>2, <1>3, BooksStay

LEMMA ReceiveStep ==
    ASSUME BooksInv, NEW c \in Clerks, Receive(c)
    PROVE  BooksInv'
<1> USE DEF BooksInv
<1>0. PICK p : p = request[c].purchase
  OBVIOUS
<1> DEFINE row == [purchase[p] EXCEPT !.status = "received"]
<1>1. /\ request[c].kind = "receive" /\ request[c].purchase = p
      /\ purchase' = [purchase EXCEPT ![p] = row]
      /\ stock' = stock + purchase[p].units
      /\ raced' = (raced \/ purchase[p].status # "pending" \/ purchase[p].deleted)
      /\ request' = [request EXCEPT ![c] = Idle]
      /\ UNCHANGED <<credit, freight, payment, freightPaid, debt, balance, sold, edits>>
  BY <1>0 DEF Receive
<1>2. p \in Purchases /\ purchase[p].status # "none"
  BY <1>1 DEF PurchasesTypeOK, RowsKnown, Requests, Idle
<1>3. /\ row \in Purchase /\ row.status = "received" /\ row.deleted = purchase[p].deleted
      /\ row.supplier = purchase[p].supplier /\ row.units = purchase[p].units
      /\ row.total = purchase[p].total /\ row.transport = purchase[p].transport
  <2>1. purchase[p] \in Purchase
    BY <1>2 DEF PurchasesTypeOK
  <2> QED
    BY <2>1 DEF Purchase
<1> HIDE DEF row
<1>4. /\ purchase' \in [Purchases -> Purchase] /\ purchase'[p] = row
      /\ \A q \in Purchases \ {p} : purchase'[q] = purchase[q]
      /\ request' \in [Clerks -> Requests] /\ request'[c] = Idle
      /\ \A d \in Clerks \ {c} : request'[d] = request[d]
  <2>1. Idle \in Requests
    BY DEF Requests
  <2> QED
    BY <1>1, <1>2, <1>3, <2>1 DEF PurchasesTypeOK
<1>5. PurchasesTypeOK'
  <2>1. purchase[p].units \in Nat
    BY <1>2 DEF PurchasesTypeOK, Purchase
  <2>2. stock' \in Int /\ raced' \in BOOLEAN
    BY <1>1, <2>1 DEF PurchasesTypeOK
  <2> QED
    BY <1>1, <1>4, <2>2 DEF PurchasesTypeOK
<1>6. RowsKnown' /\ NothingLeft'
  <2>1. \A d \in Clerks : request'[d].kind # "idle" =>
          purchase'[request'[d].purchase].status # "none"
    <3> SUFFICES ASSUME NEW d \in Clerks, request'[d].kind # "idle"
                 PROVE  purchase'[request'[d].purchase].status # "none"
      OBVIOUS
    <3>1. request'[d] = request[d]
      BY <1>4 DEF Idle
    <3>2. purchase[request[d].purchase].status # "none" /\ request[d].purchase \in Purchases
      BY <3>1 DEF RowsKnown, PurchasesTypeOK, Requests, Idle
    <3> QED
      BY <1>3, <1>4, <3>1, <3>2
  <2> QED
    BY <1>1, <1>2, <1>3, <1>4, <2>1 DEF RowsKnown, NothingLeft
<1>7. /\ CreditsFollowPurchase' /\ PaidHasRows'
      /\ \A s \in Suppliers, q \in Purchases : Owed(s, q)' = Owed(s, q)
      /\ \A q \in Purchases : PaidOn(q)' = PaidOn(q) /\ Returned(q)' = Returned(q)
  <2>1. \A q \in Purchases : Rows(q)' = Rows(q)
    BY <1>1 DEF Rows
  <2> QED
    BY <1>1, <1>2, <1>3, <1>4, <2>1 DEF CreditsFollowPurchase, PaidHasRows, Active, Owed,
       PaidOn, Returned
<1>8. DebtIsCredits'
  <2>1. \A s \in Suppliers, q \in Purchases : Owed(s, q)' \in Nat
    BY <1>7, SumsAreNat
  <2>2. \A s \in Suppliers : debt'[s] = debt[s] + Owed(s, p)' - Owed(s, p)
    BY <1>1, <1>2, <1>7, SumsAreNat DEF PurchasesTypeOK
  <2> QED
    BY <1>1, <1>2, <1>4, <2>1, <2>2, DebtOfOne
<1>9. MoneyIsPaid'
  <2>1. Total(balance, Accounts) \in Nat
    BY Finite, TotalIsNat DEF PurchasesTypeOK
  <2>2. \A q \in Purchases : PaidOn(q)' \in Nat /\ Returned(q)' \in Nat
    BY <1>7, SumsAreNat
  <2>3. Total(balance', Accounts) = Total(balance, Accounts)
          + Returned(p)' - Returned(p) - PaidOn(p)' + PaidOn(p)
    BY <1>1, <1>2, <1>7, <2>1, <2>2
  <2> QED
    BY <1>2, <1>7, <2>2, <2>3, MoneyOfOne
<1>10. StockIsReceived'
  <2>1. /\ \A q \in Purchases \ {p} : Brought(q)' = Brought(q)
        /\ Brought(p)' \in Nat
        /\ ~raced' => Brought(p)' = purchase[p].units /\ Brought(p) = 0 /\ ~raced
        /\ purchase[p].units \in Nat
    <3>1. purchase[p].units \in Nat /\ raced \in BOOLEAN
      BY <1>2 DEF PurchasesTypeOK, Purchase
    <3>2. \A q \in Purchases \ {p} : Brought(q)' = Brought(q)
      BY <1>4 DEF Brought, Active
    <3>3. /\ purchase'[p].status = "received" /\ purchase'[p].units = purchase[p].units
          /\ purchase'[p].deleted = purchase[p].deleted
      BY <1>3, <1>4
    <3>4. Brought(p)' = IF purchase[p].deleted THEN 0 ELSE purchase[p].units
      BY <3>3 DEF Brought, Active
    <3>5. ~raced' => ~raced /\ purchase[p].status = "pending" /\ ~purchase[p].deleted
      BY <1>1
    <3>6. purchase[p].status = "pending" => Brought(p) = 0
      BY DEF Brought
    <3> QED
      BY <3>1, <3>2, <3>4, <3>5, <3>6
  <2>2. \A q \in Purchases : Brought(q)' \in Nat
    BY <2>1, SumsAreNat
  <2>3. ~raced' => ~raced /\ stock' + sold' = stock + sold + Brought(p)' - Brought(p)
    BY <1>1, <2>1 DEF PurchasesTypeOK
  <2> QED
    BY <1>2, <1>4, <2>2, <2>3, StockOfOne
<1> QED
  BY <1>5, <1>6, <1>7, <1>8, <1>9, <1>10

LEMMA PaymentsStep ==
    ASSUME BooksInv, NEW items, ItemsOK(items), ApplyPayments(items),
           request' \in [Clerks -> Requests],
           \A c \in Clerks : request'[c] = request[c] \/ request'[c] = Idle
    PROVE  /\ BooksInv'
           /\ \A p \in Purchases : purchase[p].deleted =>
                 credit'[p] = credit[p] /\ Rows(p)' = Rows(p)
           /\ \A p \in Purchases :
                 credit[p].paid = Rows(p) => credit'[p].paid = Rows(p)'
<1> USE DEF BooksInv
<1>1. UNCHANGED <<purchase, freight, freightPaid, stock, sold, edits, raced>>
  BY DEF ApplyPayments
<1>2. ASSUME NEW p \in Purchases
      PROVE  /\ Due(items, p) \in Nat /\ Due(items, p) <= credit[p].balance
             /\ purchase[p].deleted => Due(items, p) = 0
             /\ credit'[p] = IF Due(items, p) > 0 THEN Paid(credit[p], Due(items, p))
                             ELSE credit[p]
             /\ Rows(p)' = Rows(p) + Due(items, p)
  BY DueFacts, RowsGrow
<1>3. ASSUME NEW p \in Purchases
      PROVE  /\ credit'[p] \in Credit /\ AddsUp(credit'[p])
             /\ Exists(credit'[p]) <=> Exists(credit[p])
             /\ ~Exists(credit'[p]) => credit'[p] = credit[p]
             /\ Exists(credit'[p]) => credit'[p].total > 0
             /\ credit'[p].total = credit[p].total
             /\ credit'[p].paid = credit[p].paid + Due(items, p)
             /\ credit'[p].balance = credit[p].balance - Due(items, p)
  <2> DEFINE due == Due(items, p)
  <2>1. /\ credit[p] \in Credit /\ AddsUp(credit[p])
        /\ Exists(credit[p]) => credit[p].total > 0
        /\ credit[p].paid \in Nat /\ credit[p].balance \in Nat
        /\ ~Exists(credit[p]) => credit[p].balance = 0
    BY NewCreditFacts DEF PurchasesTypeOK, Credit, RowsKnown
  <2>2. /\ due \in Nat /\ due <= credit[p].balance
        /\ credit'[p] = IF due > 0 THEN Paid(credit[p], due) ELSE credit[p]
    BY <1>2
  <2> HIDE DEF due, BooksInv
  <2>3. CASE due = 0
    BY <2>1, <2>2, <2>3 DEF due
  <2>4. CASE due > 0
    <3>1. due \in Nat \ {0} /\ credit'[p] = Paid(credit[p], due) /\ Exists(credit[p])
      BY <2>1, <2>2, <2>4
    <3>2. /\ Paid(credit[p], due) \in Credit /\ AddsUp(Paid(credit[p], due))
          /\ Exists(Paid(credit[p], due)) /\ Paid(credit[p], due).total = credit[p].total
          /\ Paid(credit[p], due).paid = credit[p].paid + due
          /\ Paid(credit[p], due).balance = credit[p].balance - due /\ credit[p].total > 0
      BY <2>1, <2>2, <3>1, PaidFacts
    <3> QED
      BY ONLY <3>1, <3>2 DEF due
  <2> QED
    BY <2>2, <2>3, <2>4
<1>4. \A p \in Purchases : purchase[p].deleted => credit'[p] = credit[p] /\ Rows(p)' = Rows(p)
  <2> SUFFICES ASSUME NEW p \in Purchases, purchase[p].deleted
               PROVE  credit'[p] = credit[p] /\ Rows(p)' = Rows(p)
    OBVIOUS
  <2>1. Due(items, p) = 0 /\ Rows(p) \in Nat
    BY <1>2, SumsAreNat
  <2> QED
    BY <1>2, <2>1
<1>5. credit' \in [Purchases -> Credit]
  BY <1>3 DEF ApplyPayments
<1>6. /\ balance' \in [Accounts -> Nat]
      /\ \A a \in Accounts : balance[a] = balance'[a] + Spent(items, a)
  <2>1. \A a \in Accounts : /\ Spent(items, a) \in Nat /\ Spent(items, a) <= balance[a]
                            /\ balance[a] \in Nat
    BY ItemSums DEF ApplyPayments, PurchasesTypeOK
  <2>2. balance' = [a \in Accounts |-> balance[a] - Spent(items, a)]
    BY DEF ApplyPayments
  <2> HIDE DEF BooksInv
  <2> QED
    BY <2>1, <2>2
<1>7. payment' \in [Uuids -> {NoPayment} \cup [purchase : Purchases, amount : Amounts]]
  <2> SUFFICES ASSUME NEW u \in Uuids
               PROVE  payment'[u] \in {NoPayment} \cup [purchase : Purchases, amount : Amounts]
    BY DEF ApplyPayments
  <2>1. CASE \E i \in items : i.uuid = u
    <3> DEFINE i == CHOOSE j \in items : j.uuid = u
    <3>1. i \in items
      BY <2>1
    <3>2. payment'[u] = [purchase |-> i.purchase, amount |-> i.amount]
      BY <2>1 DEF ApplyPayments
    <3>3. i.purchase \in Purchases /\ i.amount \in Amounts
      BY <3>1 DEF ItemsOK
    <3> HIDE DEF i
    <3> QED
      BY <3>2, <3>3
  <2>2. CASE ~\E i \in items : i.uuid = u
    BY <2>2 DEF ApplyPayments, PurchasesTypeOK
  <2> QED
    BY <2>1, <2>2
<1>8. DebtIsCredits' /\ debt' \in [Suppliers -> Nat]
  <2>1. ASSUME NEW s \in Suppliers
        PROVE  /\ debt'[s] = Total([p \in Purchases |-> Owed(s, p)'], Purchases)
               /\ debt'[s] \in Nat
    <3> DEFINE old == [p \in Purchases |-> Owed(s, p)]
               new == [p \in Purchases |-> Owed(s, p)']
               part == [p \in Purchases |-> IF purchase[p].supplier = s THEN Due(items, p) ELSE 0]
    <3>1. ASSUME NEW p \in Purchases
          PROVE  new[p] \in Nat /\ part[p] \in Nat /\ old[p] = new[p] + part[p]
      <4>1. /\ credit[p].balance \in Nat /\ Due(items, p) \in Nat
            /\ Due(items, p) <= credit[p].balance
            /\ credit'[p].balance = credit[p].balance - Due(items, p)
        BY <1>2, <1>3 DEF PurchasesTypeOK, Credit
      <4> QED
        BY <1>1, <4>1 DEF Owed
    <3>2. debt[s] = Total(old, Purchases) /\ debt'[s] = debt[s] - Total(part, Purchases)
      BY BooksAre DEF ApplyPayments
    <3> HIDE DEF old, new, part
    <3>3. Total(old, Purchases) = Total(new, Purchases) + Total(part, Purchases)
      BY <3>1, Finite, TotalPlus
    <3>4. Total(new, Purchases) \in Nat /\ Total(part, Purchases) \in Nat
      BY <3>1, Finite, TotalIsNat
    <3>5. debt'[s] = Total(new, Purchases) /\ debt'[s] \in Nat
      BY <3>2, <3>3, <3>4
    <3> QED
      BY <3>5 DEF new
  <2>2. debt' \in [Suppliers -> Nat]
    BY <2>1 DEF ApplyPayments
  <2> QED
    BY <2>1, <2>2 DEF DebtIsCredits, Owed
<1>9. PurchasesTypeOK'
  <2>1. \A p \in Purchases : /\ AddsUp(credit'[p])
                             /\ Exists(credit'[p]) => credit'[p].total > 0
    BY <1>3
  <2> QED
    BY <1>1, <1>5, <1>6, <1>7, <1>8, <2>1 DEF PurchasesTypeOK
<1>10. RowsKnown' /\ NothingLeft' /\ CreditsFollowPurchase'
  <2>1. \A c \in Clerks : request'[c].kind # "idle" =>
          purchase'[request'[c].purchase].status # "none"
    BY <1>1 DEF RowsKnown, Idle
  <2>2. \A p \in Purchases :
          /\ purchase[p].status = "none" => credit'[p] = NoCredit
          /\ ~Exists(credit'[p]) => credit'[p] = NoCredit
    <3> SUFFICES ASSUME NEW p \in Purchases
                 PROVE  /\ purchase[p].status = "none" => credit'[p] = NoCredit
                        /\ ~Exists(credit'[p]) => credit'[p] = NoCredit
      OBVIOUS
    <3>1. credit[p] = NoCredit => ~Exists(credit[p])
      BY NewCreditFacts
    <3>2. /\ Exists(credit'[p]) <=> Exists(credit[p])
          /\ ~Exists(credit'[p]) => credit'[p] = credit[p]
      BY <1>3
    <3> QED
      BY <3>1, <3>2 DEF RowsKnown
  <2>3. RowsKnown'
    BY <1>1, <2>1, <2>2 DEF RowsKnown
  <2> QED
    BY <1>1, <1>3, <1>4, <2>3 DEF NothingLeft, CreditsFollowPurchase, Active
<1>11. MoneyIsPaid'
  <2> DEFINE paid == [p \in Purchases |-> PaidOn(p)]
             paidNew == [p \in Purchases |-> PaidOn(p)']
             due == [p \in Purchases |-> Due(items, p)]
             spent == [a \in Accounts |-> Spent(items, a)]
             back == [p \in Purchases |-> Returned(p)]
             backNew == [p \in Purchases |-> Returned(p)']
             left == balance'
  <2>1. ASSUME NEW p \in Purchases
        PROVE  /\ paid[p] \in Nat /\ due[p] \in Nat /\ paidNew[p] = paid[p] + due[p]
               /\ back[p] = backNew[p] /\ back[p] \in Nat
    <3>1. /\ credit[p].paid \in Nat /\ freight[p].paid \in Nat /\ Due(items, p) \in Nat
          /\ credit'[p].paid = credit[p].paid + Due(items, p)
      BY <1>2, <1>3 DEF PurchasesTypeOK, Credit
    <3>2. Returned(p)' = Returned(p)
      BY <1>1, <1>4 DEF Returned
    <3> QED
      BY <1>1, <3>1, <3>2, SumsAreNat DEF PaidOn
  <2>2. \A a \in Accounts : left[a] \in Nat /\ spent[a] \in Nat /\ balance[a] = left[a] + spent[a]
    BY <1>6, ItemSums
  <2>3. Total(due, Purchases) = Total(spent, Accounts)
    BY ItemSums
  <2>4. Total(balance, Accounts) + Total(paid, Purchases)
        = Money * Cardinality(Accounts) + Total(back, Purchases)
    BY BooksAre
  <2> HIDE DEF paid, paidNew, due, spent, back, backNew, left
  <2>5. Total(paidNew, Purchases) = Total(paid, Purchases) + Total(due, Purchases)
    BY <2>1, Finite, TotalPlus
  <2>6. Total(balance, Accounts) = Total(left, Accounts) + Total(spent, Accounts)
    BY <2>2, Finite, TotalPlus
  <2>7. Total(back, Purchases) = Total(backNew, Purchases)
    BY <2>1, TotalSame
  <2>8. /\ Total(paid, Purchases) \in Nat /\ Total(due, Purchases) \in Nat
        /\ Total(left, Accounts) \in Nat
    BY <2>1, <2>2, Finite, TotalIsNat
  <2>9. Total(left, Accounts) + Total(paidNew, Purchases)
        = Money * Cardinality(Accounts) + Total(backNew, Purchases)
    <3>1. Total(left, Accounts) + Total(paidNew, Purchases)
          = Total(balance, Accounts) + Total(paid, Purchases)
      BY <2>3, <2>5, <2>6, <2>8
    <3> QED
      BY <2>4, <2>7, <3>1
  <2> QED
    BY <2>9 DEF left, paidNew, backNew, PaidOn, Returned, MoneyIsPaid
<1>12. PaidHasRows'
  <2> SUFFICES ASSUME NEW p \in Purchases
               PROVE  credit'[p].paid <= Rows(p)' /\ freight'[p].paid <= freightPaid'[p]
    BY DEF PaidHasRows
  <2>1. /\ credit[p].paid \in Nat /\ Rows(p) \in Nat /\ credit[p].paid <= Rows(p)
        /\ freight[p].paid <= freightPaid[p]
    BY SumsAreNat DEF PaidHasRows, PurchasesTypeOK, Credit
  <2>2. /\ Due(items, p) \in Nat /\ Rows(p)' = Rows(p) + Due(items, p)
        /\ credit'[p].paid = credit[p].paid + Due(items, p)
    BY <1>2, <1>3
  <2> QED
    BY <1>1, <2>1, <2>2
<1>13. StockIsReceived'
  BY <1>1 DEF StockIsReceived, Active
<1>14. \A p \in Purchases : credit[p].paid = Rows(p) => credit'[p].paid = Rows(p)'
  BY <1>2, <1>3
<1> QED
  BY <1>4, <1>8, <1>9, <1>10, <1>11, <1>12, <1>13, <1>14

LEMMA PayStep ==
    ASSUME BooksInv, NEW c \in Clerks, Pay(c)
    PROVE  /\ BooksInv'
           /\ \A p \in Purchases : purchase[p].deleted =>
                 credit'[p] = credit[p] /\ Rows(p)' = Rows(p)
           /\ \A p \in Purchases :
                 credit[p].paid = Rows(p) => credit'[p].paid = Rows(p)'
<1> DEFINE items == {request[c]}
<1>1. /\ request[c].uuid \in Uuids /\ request[c].purchase \in Purchases
      /\ request[c].amount \in Amounts /\ request[c].account \in Accounts
  BY DEF BooksInv, PurchasesTypeOK, Pay, Requests, Idle
<1>2. ItemsOK(items)
  BY <1>1, FS_Singleton DEF ItemsOK
<1>3. ApplyPayments(items) /\ request' = [request EXCEPT ![c] = Idle]
  BY DEF Pay
<1>4. /\ request' \in [Clerks -> Requests]
      /\ \A d \in Clerks : request'[d] = request[d] \/ request'[d] = Idle
  BY <1>3 DEF BooksInv, PurchasesTypeOK, Requests
<1> HIDE DEF items
<1> QED
  BY <1>2, <1>3, <1>4, PaymentsStep

LEMMA BulkStep ==
    ASSUME BooksInv, NEW batch \in Batches, PayInBulk(batch)
    PROVE  /\ BooksInv'
           /\ \A p \in Purchases : purchase[p].deleted =>
                 credit'[p] = credit[p] /\ Rows(p)' = Rows(p)
           /\ \A p \in Purchases :
                 credit[p].paid = Rows(p) => credit'[p].paid = Rows(p)'
<1> DEFINE items == {i \in batch : ~Used(i.uuid)}
<1>1. PICK i \in Items, j \in Items : batch = {i, j}
  BY DEF Batches
<1>2. IsFiniteSet(batch)
  <2>1. IsFiniteSet({i})
    BY FS_Singleton
  <2>2. IsFiniteSet({i} \cup {j}) /\ batch = {i} \cup {j}
    BY <1>1, <2>1, FS_AddElement
  <2> QED
    BY <2>2
<1>3. ItemsOK(items)
  <2>1. IsFiniteSet(items)
    BY <1>2, FS_Subset
  <2>2. \A k, l \in batch : k.uuid = l.uuid => k = l
    BY DEF Batches
  <2> QED
    BY <1>1, <2>1, <2>2 DEF ItemsOK, Items
<1>4. ApplyPayments(items) /\ request' = request
  BY DEF PayInBulk
<1>5. request' \in [Clerks -> Requests] /\ \A d \in Clerks : request'[d] = request[d]
  BY <1>4 DEF BooksInv, PurchasesTypeOK
<1> HIDE DEF items
<1> QED
  BY <1>3, <1>4, <1>5, PaymentsStep

-----------------------------------------------------------------------------
(* Operations that write the rows of one live purchase and move money.     *)

BroughtBy(row) == IF ~row.deleted /\ row.status = "received" THEN row.units ELSE 0

\* What an operation on p may write: the rows of the purchase, of its credit
\* and of its freight.
RowsWritten(p, row, c, h) ==
    /\ row \in Purchase /\ c \in Credit /\ h \in Credit
    /\ row.status = purchase[p].status /\ row.supplier = purchase[p].supplier
    /\ AddsUp(c) /\ AddsUp(h)
    /\ Exists(c) => c.total > 0
    /\ ~Exists(c) => c = NoCredit
    /\ ~Exists(h) => h = NoCredit
    /\ row.deleted => c.balance = 0 /\ h.balance = 0
    /\ ~row.deleted => /\ c.total = row.total /\ h.total = row.transport
                       /\ Exists(h) <=> row.transport > 0
    /\ purchase' = [purchase EXCEPT ![p] = row]
    /\ credit' = [credit EXCEPT ![p] = c]
    /\ freight' = [freight EXCEPT ![p] = h]
    /\ UNCHANGED <<payment, sold, request, raced>>

LEMMA OneRowStep ==
    ASSUME BooksInv, NEW p \in Purchases, Active(p), NEW row, NEW c, NEW h,
           RowsWritten(p, row, c, h),
           \A s \in Suppliers : debt'[s] = debt[s]
               + (IF s = purchase[p].supplier THEN c.balance - credit[p].balance ELSE 0),
           debt' \in [Suppliers -> Int],
           freightPaid' \in [Purchases -> Nat],
           \A q \in Purchases \ {p} : freightPaid'[q] = freightPaid[q],
           balance' \in [Accounts -> Nat],
           Total(balance', Accounts) = Total(balance, Accounts)
               + (IF row.deleted THEN Rows(p) + freightPaid'[p] ELSE 0)
               - (c.paid + h.paid) + (credit[p].paid + freight[p].paid),
           c.paid <= Rows(p), h.paid <= freightPaid'[p],
           stock' \in Int, edits' \in Nat,
           stock' = stock + BroughtBy(row) - BroughtBy(purchase[p])
    PROVE  BooksInv'
<1> USE DEF BooksInv
<1>1. /\ row \in Purchase /\ c \in Credit /\ h \in Credit
      /\ purchase' = [purchase EXCEPT ![p] = row]
      /\ credit' = [credit EXCEPT ![p] = c]
      /\ freight' = [freight EXCEPT ![p] = h]
      /\ UNCHANGED <<payment, sold, request, raced>>
  BY DEF RowsWritten
<1>2. /\ purchase' \in [Purchases -> Purchase] /\ purchase'[p] = row
      /\ credit' \in [Purchases -> Credit] /\ credit'[p] = c
      /\ freight' \in [Purchases -> Credit] /\ freight'[p] = h
      /\ \A q \in Purchases \ {p} : /\ purchase'[q] = purchase[q] /\ credit'[q] = credit[q]
                                     /\ freight'[q] = freight[q]
  BY <1>1 DEF PurchasesTypeOK
<1>3. /\ row.status = purchase[p].status /\ row.supplier = purchase[p].supplier
      /\ purchase[p].status # "none" /\ ~purchase[p].deleted
      /\ purchase[p].supplier \in Suppliers
  BY DEF RowsWritten, Active, RowsKnown
<1>4. /\ AddsUp(c) /\ AddsUp(h)
      /\ Exists(c) => c.total > 0
      /\ ~Exists(c) => c = NoCredit
      /\ ~Exists(h) => h = NoCredit
      /\ row.deleted => c.balance = 0 /\ h.balance = 0
      /\ ~row.deleted => /\ c.total = row.total /\ h.total = row.transport
                         /\ Exists(h) <=> row.transport > 0
  BY DEF RowsWritten
<1>5. RowsKnown'
  <2>1. \A d \in Clerks : request'[d].kind # "idle" =>
          purchase'[request'[d].purchase].status # "none"
    <3> SUFFICES ASSUME NEW d \in Clerks, request[d].kind # "idle"
                 PROVE  purchase'[request[d].purchase].status # "none"
      BY <1>1
    <3>1. purchase[request[d].purchase].status # "none" /\ request[d].purchase \in Purchases
      BY DEF RowsKnown, PurchasesTypeOK, Requests, Idle
    <3> QED
      BY <3>1, <1>2, <1>3
  <2> QED
    BY <1>2, <1>3, <1>4, <2>1 DEF RowsKnown
<1>6. NothingLeft' /\ CreditsFollowPurchase'
  BY <1>2, <1>3, <1>4 DEF NothingLeft, CreditsFollowPurchase, Active
<1>7. \A q \in Purchases : Rows(q)' = Rows(q) /\ Rows(q) \in Nat
  BY <1>1, SumsAreNat DEF Rows
<1>8. PaidHasRows'
  BY <1>2, <1>7 DEF PaidHasRows
<1>9. /\ \A s \in Suppliers, q \in Purchases : Owed(s, q)' \in Nat
      /\ \A q \in Purchases : PaidOn(q)' \in Nat /\ Returned(q)' \in Nat /\ Brought(q)' \in Nat
  BY <1>2, <1>7 DEF Owed, PaidOn, Returned, Brought, Credit, Purchase
<1>10. DebtIsCredits'
  <2>1. \A s \in Suppliers : debt'[s] = debt[s] + Owed(s, p)' - Owed(s, p)
    <3> SUFFICES ASSUME NEW s \in Suppliers
                 PROVE  debt'[s] = debt[s] + Owed(s, p)' - Owed(s, p)
      OBVIOUS
    <3>1. /\ c.balance \in Nat /\ credit[p].balance \in Nat /\ debt[s] \in Nat
      BY <1>1 DEF PurchasesTypeOK, Credit
    <3>2. CASE s = purchase[p].supplier
      <4>1. Owed(s, p)' = c.balance /\ Owed(s, p) = credit[p].balance
        BY <1>2, <1>3, <3>2 DEF Owed
      <4>2. debt'[s] = debt[s] + (c.balance - credit[p].balance)
        BY <3>2
      <4> QED
        BY <3>1, <4>1, <4>2
    <3>3. CASE s # purchase[p].supplier
      <4>1. Owed(s, p)' = 0 /\ Owed(s, p) = 0
        BY <1>2, <1>3, <3>3 DEF Owed
      <4>2. debt'[s] = debt[s] + 0
        BY <3>3
      <4> QED
        BY <3>1, <4>1, <4>2
    <3> QED
      BY <3>2, <3>3
  <2> QED
    BY <1>2, <1>9, <2>1, DebtOfOne
<1>11. debt' \in [Suppliers -> Nat]
  <2>1. ASSUME NEW s \in Suppliers
        PROVE  debt'[s] \in Nat
    <3> DEFINE f == [q \in Purchases |-> Owed(s, q)']
    <3>1. debt'[s] = Total(f, Purchases)
      BY <1>10 DEF DebtIsCredits, Owed
    <3>2. \A q \in Purchases : f[q] \in Nat
      BY <1>9
    <3> HIDE DEF f
    <3>3. Total(f, Purchases) \in Nat
      BY <3>2, Finite, TotalIsNat
    <3> QED
      BY <3>1, <3>3
  <2> QED
    BY <2>1
<1>12. PurchasesTypeOK'
  BY <1>1, <1>2, <1>4, <1>11 DEF PurchasesTypeOK
<1>13. MoneyIsPaid'
  <2>1. /\ PaidOn(p)' = c.paid + h.paid /\ PaidOn(p) = credit[p].paid + freight[p].paid
        /\ Returned(p)' = IF row.deleted THEN Rows(p) + freightPaid'[p] ELSE 0
        /\ Returned(p) = 0
    BY <1>2, <1>3, <1>7 DEF PaidOn, Returned
  <2>2. Total(balance, Accounts) \in Nat
    BY Finite, TotalIsNat DEF PurchasesTypeOK
  <2>3. Total(balance', Accounts) = Total(balance, Accounts)
          + Returned(p)' - Returned(p) - PaidOn(p)' + PaidOn(p)
    <3>1. PaidOn(p) \in Nat /\ PaidOn(p)' \in Nat /\ Returned(p)' \in Nat
      BY <1>9, SumsAreNat
    <3>2. Total(balance', Accounts) = Total(balance, Accounts)
            + Returned(p)' - PaidOn(p)' + PaidOn(p)
      BY <2>1
    <3> HIDE DEF BooksInv
    <3> QED
      BY <2>1, <2>2, <3>1, <3>2
  <2>4. \A q \in Purchases \ {p} : PaidOn(q)' = PaidOn(q) /\ Returned(q)' = Returned(q)
    BY <1>2, <1>7 DEF PaidOn, Returned
  <2> QED
    BY <1>9, <2>3, <2>4, MoneyOfOne
<1>14. StockIsReceived'
  <2>1. Brought(p)' = BroughtBy(row) /\ Brought(p) = BroughtBy(purchase[p])
    BY <1>2, <1>3 DEF Brought, BroughtBy, Active
  <2>2. /\ Brought(p) \in Nat /\ Brought(p)' \in Nat /\ stock \in Int /\ sold \in Nat
        /\ sold' = sold
    BY <1>1, <1>9, SumsAreNat DEF PurchasesTypeOK
  <2>3. stock' + sold' = stock + sold + Brought(p)' - Brought(p)
    BY <2>1, <2>2
  <2> QED
    BY <1>1, <1>2, <1>9, <2>3, StockOfOne
<1> QED
  BY <1>5, <1>6, <1>8, <1>10, <1>12, <1>13, <1>14

\* What a live purchase has in its rows.
LEMMA LiveFacts ==
    ASSUME BooksInv, NEW p \in Purchases, Active(p)
    PROVE  /\ purchase[p] \in Purchase /\ purchase[p].status # "none" /\ ~purchase[p].deleted
           /\ purchase[p].supplier \in Suppliers /\ purchase[p].units \in Nat
           /\ credit[p] \in Credit /\ AddsUp(credit[p])
           /\ credit[p].paid \in Nat /\ credit[p].balance \in Nat
           /\ Exists(credit[p]) => credit[p].total > 0
           /\ Exists(credit[p]) \/ credit[p] = NoCredit
           /\ freight[p] \in Credit /\ AddsUp(freight[p]) /\ freight[p].paid \in Nat
           /\ Exists(freight[p]) \/ freight[p] = NoCredit
           /\ credit[p].total = purchase[p].total
           /\ freight[p].total = purchase[p].transport
           /\ Exists(freight[p]) <=> purchase[p].transport > 0
           /\ Rows(p) \in Nat /\ credit[p].paid <= Rows(p)
           /\ freightPaid[p] \in Nat /\ freight[p].paid <= freightPaid[p]
           /\ Total(balance, Accounts) \in Nat /\ stock \in Int /\ edits \in Nat
<1>1. Total(balance, Accounts) \in Nat
  BY Finite, TotalIsNat DEF BooksInv, PurchasesTypeOK
<1>2. /\ purchase[p] \in Purchase /\ purchase[p].units \in Nat
      /\ credit[p] \in Credit /\ credit[p].paid \in Nat /\ credit[p].balance \in Nat
      /\ freight[p] \in Credit /\ freight[p].paid \in Nat
  BY DEF BooksInv, PurchasesTypeOK, Purchase, Credit
<1>3. Rows(p) \in Nat
  BY SumsAreNat DEF BooksInv
<1> QED
  BY <1>1, <1>2, <1>3
     DEF BooksInv, PurchasesTypeOK, RowsKnown, PaidHasRows, CreditsFollowPurchase, Active

LEMMA PayCarrierStep ==
    ASSUME BooksInv, NEW p \in Purchases, NEW amount \in Amounts, NEW a \in Accounts,
           PayCarrier(p, amount, a)
    PROVE  BooksInv' /\ ~purchase[p].deleted
<1> DEFINE h == Paid(freight[p], amount)
<1>1. /\ Exists(freight[p]) /\ amount <= freight[p].balance /\ amount <= balance[a]
      /\ balance' = [balance EXCEPT ![a] = @ - amount]
      /\ freightPaid' = [freightPaid EXCEPT ![p] = @ + amount]
      /\ freight' = [freight EXCEPT ![p] = h]
      /\ UNCHANGED <<purchase, credit, payment, debt, stock, sold, request, edits, raced>>
  BY DEF PayCarrier
<1>2. amount \in Nat \ {0}
  BY PurchasesAssumption
<1>3. Active(p)
  <2>1. purchase[p].status # "none"
    BY <1>1, NewCreditFacts DEF BooksInv, RowsKnown
  <2>2. ~purchase[p].deleted
    BY <1>1, <1>2 DEF BooksInv, NothingLeft
  <2> QED
    BY <2>1, <2>2 DEF Active
<1>4. /\ h \in Credit /\ AddsUp(h) /\ Exists(h) /\ h.total = freight[p].total
      /\ h.paid = freight[p].paid + amount /\ h.balance = freight[p].balance - amount
  <2>1. freight[p] \in Credit /\ AddsUp(freight[p])
    BY <1>3, LiveFacts
  <2> QED
    BY <1>1, <1>2, <2>1, PaidFacts
<1> HIDE DEF h
<1>5. balance' \in [Accounts -> Nat] /\ Total(balance', Accounts) = Total(balance, Accounts) - amount
  <2>1. balance[a] \in Nat /\ -amount \in Int /\ balance[a] + (-amount) \in Nat
    BY <1>1, <1>2 DEF BooksInv, PurchasesTypeOK
  <2>2. balance' = [balance EXCEPT ![a] = @ + (-amount)]
    BY <1>1, <1>2, <2>1
  <2>3. /\ balance' \in [Accounts -> Nat]
        /\ Total(balance', Accounts) = Total(balance, Accounts) + (-amount)
    BY <2>1, <2>2, BalanceOfOne DEF BooksInv
  <2>4. Total(balance, Accounts) \in Nat
    BY <1>3, LiveFacts
  <2> QED
    BY <1>2, <2>3, <2>4
<1>6. freightPaid' \in [Purchases -> Nat] /\ freightPaid'[p] = freightPaid[p] + amount
      /\ \A q \in Purchases \ {p} : freightPaid'[q] = freightPaid[q]
  BY <1>1, <1>2 DEF BooksInv, PurchasesTypeOK
<1>7. RowsWritten(p, purchase[p], credit[p], h)
  <2>1. purchase' = [purchase EXCEPT ![p] = purchase[p]]
        /\ credit' = [credit EXCEPT ![p] = credit[p]]
    BY <1>1 DEF BooksInv, PurchasesTypeOK
  <2> QED
    BY <1>1, <1>3, <1>4, <2>1, LiveFacts DEF RowsWritten
<1>8. \A s \in Suppliers : debt'[s] = debt[s]
        + (IF s = purchase[p].supplier THEN credit[p].balance - credit[p].balance ELSE 0)
  BY <1>1, <1>3, LiveFacts DEF BooksInv, PurchasesTypeOK
<1>9. Total(balance', Accounts) = Total(balance, Accounts)
        + (IF purchase[p].deleted THEN Rows(p) + freightPaid'[p] ELSE 0)
        - (credit[p].paid + h.paid) + (credit[p].paid + freight[p].paid)
  BY <1>2, <1>3, <1>4, <1>5, LiveFacts
<1>10. credit[p].paid <= Rows(p) /\ h.paid <= freightPaid'[p]
  BY <1>2, <1>3, <1>4, <1>6, LiveFacts
<1>11. debt' \in [Suppliers -> Int] /\ stock' \in Int /\ edits' \in Nat
  BY <1>1 DEF BooksInv, PurchasesTypeOK
<1>12. stock' = stock + BroughtBy(purchase[p]) - BroughtBy(purchase[p])
  BY <1>1, <1>3, LiveFacts DEF BroughtBy
<1>13. BooksInv'
  BY <1>3, <1>5, <1>6, <1>7, <1>8, <1>9, <1>10, <1>11, <1>12, OneRowStep
<1> QED
  BY <1>3, <1>13 DEF Active

LEMMA EditTransportStep ==
    ASSUME BooksInv, NEW p \in Purchases, NEW f \in Nat, NEW k \in Carriers \cup {NoCarrier},
           NEW b \in Accounts, EditTransport(p, f, k, b)
    PROVE  BooksInv' /\ ~purchase[p].deleted
<1> DEFINE row == [purchase[p] EXCEPT !.carrier = k, !.transport = f]
           h == FreightAfter(p, f, k)
           x == FreightRefund(p, f, k)
<1>1. /\ edits' = edits + 1 /\ Active(p)
      /\ purchase' = [purchase EXCEPT ![p] = row]
      /\ freight' = [freight EXCEPT ![p] = h]
      /\ balance' = Refunded(b, x, b, 0)
      /\ UNCHANGED <<credit, payment, freightPaid, debt, stock, sold, request, raced>>
  BY DEF EditTransport
<1>2. /\ row \in Purchase /\ row.transport = f /\ row.status = purchase[p].status
      /\ row.deleted = purchase[p].deleted /\ row.supplier = purchase[p].supplier
      /\ row.total = purchase[p].total /\ row.units = purchase[p].units
  <2>1. purchase[p] \in Purchase
    BY <1>1, LiveFacts
  <2> QED
    BY <2>1 DEF Purchase
<1>3. /\ h \in Credit /\ AddsUp(h) /\ h.total = f /\ (Exists(h) <=> f > 0)
      /\ (~Exists(h) => h = NoCredit) /\ x \in Nat /\ h.paid + x = freight[p].paid
  BY FreightFacts DEF BooksInv
<1> HIDE DEF row, h, x
<1>4. /\ balance' \in [Accounts -> Nat]
      /\ Total(balance', Accounts) = Total(balance, Accounts) + x
  <2>1. /\ Refunded(b, x, b, 0) \in [Accounts -> Nat]
        /\ Total(Refunded(b, x, b, 0), Accounts) = Total(balance, Accounts) + x + 0
    <3>1. 0 \in Nat /\ x \in Nat /\ PurchasesTypeOK
      BY <1>3 DEF BooksInv
    <3> QED
      BY <3>1, RefundedFacts
  <2> QED
    BY <1>1, <1>3, <2>1, LiveFacts
<1>5. RowsWritten(p, row, credit[p], h)
  <2>1. credit' = [credit EXCEPT ![p] = credit[p]]
    BY <1>1 DEF BooksInv, PurchasesTypeOK
  <2> QED
    BY <1>1, <1>2, <1>3, <2>1, LiveFacts DEF RowsWritten
<1>6. \A s \in Suppliers : debt'[s] = debt[s]
        + (IF s = purchase[p].supplier THEN credit[p].balance - credit[p].balance ELSE 0)
  BY <1>1, LiveFacts DEF BooksInv, PurchasesTypeOK
<1>7. /\ h.paid \in Nat /\ ~row.deleted
      /\ freightPaid' \in [Purchases -> Nat] /\ freightPaid' = freightPaid
  BY <1>1, <1>2, <1>3, LiveFacts DEF BooksInv, PurchasesTypeOK, Credit
<1>8. Total(balance', Accounts) = Total(balance, Accounts)
        + (IF row.deleted THEN Rows(p) + freightPaid'[p] ELSE 0)
        - (credit[p].paid + h.paid) + (credit[p].paid + freight[p].paid)
  BY <1>1, <1>3, <1>4, <1>7, LiveFacts
<1>9. credit[p].paid <= Rows(p) /\ h.paid <= freightPaid'[p]
  BY <1>1, <1>3, <1>7, LiveFacts
<1>10. debt' \in [Suppliers -> Int] /\ stock' \in Int /\ edits' \in Nat
  BY <1>1 DEF BooksInv, PurchasesTypeOK
<1>11. stock' = stock + BroughtBy(row) - BroughtBy(purchase[p])
  BY <1>1, <1>2, LiveFacts DEF BroughtBy
<1>12. BooksInv'
  BY <1>1, <1>4, <1>5, <1>6, <1>7, <1>8, <1>9, <1>10, <1>11, OneRowStep
<1> QED
  BY <1>1, <1>12 DEF Active

LEMMA EditStep ==
    ASSUME BooksInv, NEW p \in Purchases, NEW total \in Amounts, NEW units \in Lots,
           NEW f \in Nat, NEW k \in Carriers \cup {NoCarrier}, NEW a \in Accounts, NEW b \in Accounts,
           Edit(p, total, units, f, k, a, b)
    PROVE  BooksInv' /\ ~purchase[p].deleted
<1> DEFINE row == [purchase[p] EXCEPT !.carrier = k, !.transport = f,
                                      !.total = total, !.units = units]
           c == Reconciled(credit[p], total)
           h == FreightAfter(p, f, k)
           x == Excess(credit[p], total)
           y == FreightRefund(p, f, k)
<1>1. /\ edits' = edits + 1 /\ Active(p)
      /\ IF purchase[p].status = "received"
         THEN Adjusted(UnitsChange(p, units), FALSE) ELSE UNCHANGED stock
      /\ purchase' = [purchase EXCEPT ![p] = row]
      /\ credit' = [credit EXCEPT ![p] = c]
      /\ debt' = [debt EXCEPT ![purchase[p].supplier] = @ + DebtChange(credit[p], total)]
      /\ freight' = [freight EXCEPT ![p] = h]
      /\ balance' = Refunded(a, x, b, y)
      /\ UNCHANGED <<payment, freightPaid, sold, request, raced>>
  BY DEF Edit
<1>2. total \in Nat /\ total > 0 /\ units \in Nat
  BY PurchasesAssumption
<1>3. /\ row \in Purchase /\ row.transport = f /\ row.status = purchase[p].status
      /\ row.deleted = purchase[p].deleted /\ row.supplier = purchase[p].supplier
      /\ row.total = total /\ row.units = units
  <2>1. purchase[p] \in Purchase
    BY <1>1, LiveFacts
  <2> QED
    BY <1>2, <2>1 DEF Purchase
<1>4. /\ h \in Credit /\ AddsUp(h) /\ h.total = f /\ (Exists(h) <=> f > 0)
      /\ (~Exists(h) => h = NoCredit) /\ y \in Nat /\ h.paid + y = freight[p].paid
  BY FreightFacts DEF BooksInv
<1>5. /\ c \in Credit /\ AddsUp(c) /\ Exists(c) /\ c.total = total /\ x \in Nat
      /\ c.paid + x = credit[p].paid /\ DebtChange(credit[p], total) = c.balance - credit[p].balance
  <2>1. credit[p] \in Credit /\ AddsUp(credit[p])
    BY <1>1, LiveFacts
  <2> QED
    BY <1>2, <2>1, ReconciledFacts
<1> HIDE DEF row, c, h, x, y
<1>6. /\ balance' \in [Accounts -> Nat]
      /\ Total(balance', Accounts) = Total(balance, Accounts) + x + y
  <2>1. /\ Refunded(a, x, b, y) \in [Accounts -> Nat]
        /\ Total(Refunded(a, x, b, y), Accounts) = Total(balance, Accounts) + x + y
    <3>1. PurchasesTypeOK /\ x \in Nat /\ y \in Nat
      BY <1>4, <1>5 DEF BooksInv
    <3> QED
      BY <3>1, RefundedFacts
  <2> QED
    BY <1>1, <2>1
<1>7. RowsWritten(p, row, c, h)
  BY <1>1, <1>2, <1>3, <1>4, <1>5, LiveFacts DEF RowsWritten
<1>8. /\ debt' \in [Suppliers -> Int]
      /\ \A s \in Suppliers : debt'[s] = debt[s]
            + (IF s = purchase[p].supplier THEN c.balance - credit[p].balance ELSE 0)
  <2>1. c.balance \in Nat /\ credit[p].balance \in Nat /\ purchase[p].supplier \in Suppliers
    BY <1>1, <1>5, LiveFacts DEF Credit
  <2>2. debt \in [Suppliers -> Nat]
    BY DEF BooksInv, PurchasesTypeOK
  <2>3. debt' = [debt EXCEPT ![purchase[p].supplier] = @ + (c.balance - credit[p].balance)]
    BY <1>1, <1>5
  <2> QED
    BY <2>1, <2>2, <2>3
<1>9. /\ c.paid \in Nat /\ h.paid \in Nat /\ ~row.deleted
      /\ freightPaid' \in [Purchases -> Nat] /\ freightPaid' = freightPaid
  BY <1>1, <1>3, <1>4, <1>5, LiveFacts DEF BooksInv, PurchasesTypeOK, Credit
<1>10. Total(balance', Accounts) = Total(balance, Accounts)
        + (IF row.deleted THEN Rows(p) + freightPaid'[p] ELSE 0)
        - (c.paid + h.paid) + (credit[p].paid + freight[p].paid)
  BY <1>1, <1>4, <1>5, <1>6, <1>9, LiveFacts
<1>11. c.paid <= Rows(p) /\ h.paid <= freightPaid'[p]
  BY <1>1, <1>4, <1>5, <1>9, LiveFacts
<1>12. edits' \in Nat
  BY <1>1, LiveFacts
<1>13. stock' \in Int /\ stock' = stock + BroughtBy(row) - BroughtBy(purchase[p])
  <2>1. /\ stock \in Int /\ purchase[p].units \in Nat /\ ~purchase[p].deleted
        /\ purchase[p].status # "none"
    BY <1>1, LiveFacts
  <2>2. CASE purchase[p].status = "received"
    <3>1. stock' = stock + (units - purchase[p].units)
      BY <1>1, <2>2 DEF Adjusted, UnitsChange
    <3>2. BroughtBy(row) = units /\ BroughtBy(purchase[p]) = purchase[p].units
      BY <1>3, <1>9, <2>1, <2>2 DEF BroughtBy
    <3> QED
      BY <1>2, <2>1, <3>1, <3>2
  <2>3. CASE purchase[p].status # "received"
    <3>1. stock' = stock
      BY <1>1, <2>3
    <3>2. BroughtBy(row) = 0 /\ BroughtBy(purchase[p]) = 0
      BY <1>3, <2>3 DEF BroughtBy
    <3> QED
      BY <2>1, <3>1, <3>2
  <2> QED
    BY <2>2, <2>3
<1>14. BooksInv'
  BY <1>1, <1>6, <1>7, <1>8, <1>9, <1>10, <1>11, <1>12, <1>13, OneRowStep
<1> QED
  BY <1>1, <1>14 DEF Active

LEMMA ArchiveStep ==
    ASSUME BooksInv, NEW p \in Purchases, NEW a \in Accounts, NEW override \in BOOLEAN,
           Archive(p, a, override)
    PROVE  BooksInv' /\ ~purchase[p].deleted
<1> DEFINE row == [purchase[p] EXCEPT !.deleted = TRUE]
           c == IF credit[p].paid > 0 THEN Settled(credit[p]) ELSE NoCredit
           h == Settled(freight[p])
<1>1. /\ Active(p)
      /\ IF purchase[p].status = "received"
         THEN Adjusted(-purchase[p].units, override) ELSE UNCHANGED stock
      /\ balance' = [balance EXCEPT ![a] = @ + Rows(p) + freightPaid[p]]
      /\ debt' = [debt EXCEPT ![purchase[p].supplier] = @ - credit[p].balance]
      /\ credit' = [credit EXCEPT ![p] = c]
      /\ freight' = [freight EXCEPT ![p] = h]
      /\ purchase' = [purchase EXCEPT ![p] = row]
      /\ UNCHANGED <<payment, freightPaid, sold, request, edits, raced>>
  BY DEF Archive
<1>2. /\ row \in Purchase /\ row.status = purchase[p].status /\ row.deleted
      /\ row.supplier = purchase[p].supplier
  <2>1. purchase[p] \in Purchase
    BY <1>1, LiveFacts
  <2> QED
    BY <2>1 DEF Purchase
<1>3. /\ h \in Credit /\ AddsUp(h) /\ h.balance = 0 /\ h.paid = freight[p].paid
      /\ (~Exists(h) => h = NoCredit)
  <2>1. freight[p] \in Credit /\ AddsUp(freight[p]) /\ (Exists(freight[p]) \/ freight[p] = NoCredit)
    BY <1>1, LiveFacts
  <2> QED
    BY <2>1, SettledFacts
<1>4. /\ c \in Credit /\ AddsUp(c) /\ c.balance = 0 /\ c.paid = credit[p].paid
      /\ (~Exists(c) => c = NoCredit) /\ (Exists(c) => c.total > 0)
  <2>1. /\ credit[p] \in Credit /\ AddsUp(credit[p]) /\ credit[p].paid \in Nat
        /\ (Exists(credit[p]) \/ credit[p] = NoCredit)
    BY <1>1, LiveFacts
  <2>2. CASE credit[p].paid > 0
    <3>1. /\ Settled(credit[p]) \in Credit /\ AddsUp(Settled(credit[p]))
          /\ Settled(credit[p]).balance = 0
          /\ Settled(credit[p]).paid = credit[p].paid
          /\ Settled(credit[p]).total = credit[p].paid
          /\ (Exists(Settled(credit[p])) <=> Exists(credit[p]))
          /\ (~Exists(credit[p]) => Settled(credit[p]) = NoCredit)
      BY <2>1, SettledFacts
    <3>2. c = Settled(credit[p])
      BY <2>2
    <3> HIDE DEF c
    <3> QED
      BY <2>2, <3>1, <3>2
  <2>3. CASE ~(credit[p].paid > 0)
    <3>1. credit[p].paid = 0 /\ c = NoCredit
      BY <2>1, <2>3
    <3> HIDE DEF c
    <3> QED
      BY <3>1, NewCreditFacts
  <2> QED
    BY <2>2, <2>3
<1> HIDE DEF row, c, h
<1>5. /\ balance' \in [Accounts -> Nat]
      /\ Total(balance', Accounts) = Total(balance, Accounts) + (Rows(p) + freightPaid[p])
  <2>1. /\ Rows(p) + freightPaid[p] \in Nat /\ balance[a] \in Nat
        /\ Rows(p) \in Nat /\ freightPaid[p] \in Nat
    BY <1>1, LiveFacts DEF BooksInv, PurchasesTypeOK
  <2>2. balance' = [balance EXCEPT ![a] = @ + (Rows(p) + freightPaid[p])]
    <3>1. balance[a] + Rows(p) + freightPaid[p] = balance[a] + (Rows(p) + freightPaid[p])
      BY <2>1
    <3>2. balance' = [balance EXCEPT ![a] = balance[a] + Rows(p) + freightPaid[p]]
      BY <1>1
    <3> QED
      BY ONLY <3>1, <3>2
  <2>3. Rows(p) + freightPaid[p] \in Int /\ balance[a] + (Rows(p) + freightPaid[p]) \in Nat
    BY <2>1
  <2> QED
    BY <2>2, <2>3, BalanceOfOne DEF BooksInv
<1>6. RowsWritten(p, row, c, h)
  BY <1>1, <1>2, <1>3, <1>4 DEF RowsWritten
<1>7. /\ debt' \in [Suppliers -> Int]
      /\ \A s \in Suppliers : debt'[s] = debt[s]
            + (IF s = purchase[p].supplier THEN c.balance - credit[p].balance ELSE 0)
  <2>1. c.balance = 0 /\ credit[p].balance \in Nat /\ purchase[p].supplier \in Suppliers
    BY <1>1, <1>4, LiveFacts
  <2>2. debt \in [Suppliers -> Nat]
    BY DEF BooksInv, PurchasesTypeOK
  <2>3. debt' = [debt EXCEPT ![purchase[p].supplier] = @ - credit[p].balance]
    BY <1>1
  <2> QED
    BY <2>1, <2>2, <2>3
<1>8. /\ c.paid \in Nat /\ h.paid \in Nat
      /\ freightPaid' \in [Purchases -> Nat] /\ freightPaid' = freightPaid
  BY <1>1, <1>3, <1>4 DEF BooksInv, PurchasesTypeOK, Credit
<1>9. Total(balance', Accounts) = Total(balance, Accounts)
        + (IF row.deleted THEN Rows(p) + freightPaid'[p] ELSE 0)
        - (c.paid + h.paid) + (credit[p].paid + freight[p].paid)
  BY <1>1, <1>2, <1>3, <1>4, <1>5, <1>8, LiveFacts
<1>10. c.paid <= Rows(p) /\ h.paid <= freightPaid'[p]
  BY <1>1, <1>3, <1>4, <1>8, LiveFacts
<1>11. edits' \in Nat
  BY <1>1, LiveFacts
<1>12. stock' \in Int /\ stock' = stock + BroughtBy(row) - BroughtBy(purchase[p])
  <2>1. /\ stock \in Int /\ purchase[p].units \in Nat /\ ~purchase[p].deleted
    BY <1>1, LiveFacts
  <2>2. BroughtBy(row) = 0
    BY <1>2 DEF BroughtBy
  <2>3. CASE purchase[p].status = "received"
    <3>1. stock' = stock + (-purchase[p].units)
      BY <1>1, <2>3 DEF Adjusted
    <3>2. BroughtBy(purchase[p]) = purchase[p].units
      BY <2>1, <2>3 DEF BroughtBy
    <3> QED
      BY <2>1, <2>2, <3>1, <3>2
  <2>4. CASE purchase[p].status # "received"
    <3>1. stock' = stock
      BY <1>1, <2>4
    <3>2. BroughtBy(purchase[p]) = 0
      BY <2>4 DEF BroughtBy
    <3> QED
      BY <2>1, <2>2, <3>1, <3>2
  <2> QED
    BY <2>3, <2>4
<1>13. BooksInv'
  BY <1>1, <1>5, <1>6, <1>7, <1>8, <1>9, <1>10, <1>11, <1>12, OneRowStep
<1> QED
  BY <1>1, <1>13 DEF Active

-----------------------------------------------------------------------------
LEMMA BooksStep == BooksInv /\ [PurchasesNext]_purchaseVars => BooksInv'
<1> SUFFICES ASSUME BooksInv, [PurchasesNext]_purchaseVars
             PROVE  BooksInv'
  OBVIOUS
<1>1. ASSUME NEW h \in Haulage
      PROVE  h[1] \in Freights /\ h[1] \in Nat /\ h[2] \in Carriers \cup {NoCarrier}
  BY PurchasesAssumption DEF Haulage
<1>2. ASSUME NEW p \in Purchases, NEW s \in Suppliers, NEW total \in Amounts, NEW h \in Haulage,
             NEW n \in Lots, Create(p, s, total, h[1], h[2], n)
      PROVE  BooksInv'
  BY <1>1, <1>2, CreateStep
<1>3. ASSUME NEW c \in Clerks, NEW p \in Purchases, BeginReceive(c, p)
      PROVE  BooksInv'
  <2> DEFINE r == [kind |-> "receive", purchase |-> p]
  <2>1. r \in Requests /\ r.purchase = p
    BY DEF Requests
  <2>2. purchase[p].status # "none" /\ request' = [request EXCEPT ![c] = r]
        /\ UNCHANGED <<purchase, credit, freight, payment, freightPaid, debt, balance,
                       stock, sold, edits, raced>>
    BY <1>3 DEF BeginReceive
  <2> HIDE DEF r
  <2> QED
    BY <2>1, <2>2, RequestStep
<1>4. ASSUME NEW c \in Clerks, Receive(c)
      PROVE  BooksInv'
  BY <1>4, ReceiveStep
<1>5. ASSUME NEW c \in Clerks, NEW i \in Items,
             BeginPay(c, i.purchase, i.uuid, i.amount, i.account)
      PROVE  BooksInv'
  <2> DEFINE r == [kind |-> "pay", purchase |-> i.purchase, uuid |-> i.uuid,
                   amount |-> i.amount, account |-> i.account]
  <2>1. r \in Requests /\ r.purchase = i.purchase
    BY DEF Requests, Items
  <2>2. purchase[i.purchase].status # "none" /\ request' = [request EXCEPT ![c] = r]
        /\ UNCHANGED <<purchase, credit, freight, payment, freightPaid, debt, balance,
                       stock, sold, edits, raced>>
    BY <1>5 DEF BeginPay, Active
  <2> HIDE DEF r
  <2> QED
    BY <2>1, <2>2, RequestStep
<1>6. ASSUME NEW c \in Clerks, GiveUp(c)
      PROVE  BooksInv'
  <2>1. Idle \in Requests /\ Idle.kind = "idle"
    BY DEF Requests, Idle
  <2>2. request' = [request EXCEPT ![c] = Idle]
        /\ UNCHANGED <<purchase, credit, freight, payment, freightPaid, debt, balance,
                       stock, sold, edits, raced>>
    BY <1>6 DEF GiveUp
  <2> QED
    BY <2>1, <2>2, RequestStep
<1>7. ASSUME NEW p \in Purchases, NEW h \in Haulage, NEW b \in Accounts,
             EditTransport(p, h[1], h[2], b)
      PROVE  BooksInv'
  BY <1>1, <1>7, EditTransportStep
<1>8. ASSUME NEW p \in Purchases, NEW total \in Amounts, NEW n \in Lots, NEW h \in Haulage,
             NEW a \in Accounts, NEW b \in Accounts, Edit(p, total, n, h[1], h[2], a, b)
      PROVE  BooksInv'
  BY <1>1, <1>8, EditStep
<1>9. CASE UNCHANGED purchaseVars
  BY <1>9 DEF purchaseVars, BooksInv, PurchasesTypeOK, RowsKnown, NothingLeft, DebtIsCredits,
     CreditsFollowPurchase, MoneyIsPaid, PaidHasRows, StockIsReceived, Active, Rows
<1>10. CASE PurchasesNext
  BY <1>10, <1>2, <1>3, <1>4, <1>5, <1>6, <1>7, <1>8, SellStep, PayStep, BulkStep,
     PayCarrierStep, ArchiveStep DEF PurchasesNext
<1> QED
  BY <1>9, <1>10

LEMMA BooksAlways == PurchasesSpec => []BooksInv
BY BooksStart, BooksStep, PTL DEF PurchasesSpec

\* No operation writes the credits, or takes a payment, of an archived
\* purchase: only receptions still reach it.
LEMMA ArchivedStep ==
    ASSUME BooksInv, [PurchasesNext]_purchaseVars, NEW q \in Purchases, purchase[q].deleted
    PROVE  UNCHANGED <<credit[q], freight[q], freightPaid[q]>> /\ Rows(q)' = Rows(q)
<1>1. ASSUME UNCHANGED <<credit, freight, freightPaid, payment>>
      PROVE  UNCHANGED <<credit[q], freight[q], freightPaid[q]>> /\ Rows(q)' = Rows(q)
  BY <1>1 DEF Rows
<1>2. ASSUME NEW p \in Purchases, purchase[p] = NoRow \/ ~purchase[p].deleted
      PROVE  p # q
  BY <1>2 DEF NoRow
<1>3. /\ credit \in [Purchases -> Credit] /\ freight \in [Purchases -> Credit]
      /\ freightPaid \in [Purchases -> Nat]
  BY DEF BooksInv, PurchasesTypeOK
<1>4. ASSUME UNCHANGED payment
      PROVE  Rows(q)' = Rows(q)
  BY <1>4 DEF Rows
<1>5. ASSUME NEW p \in Purchases, NEW s \in Suppliers, NEW total \in Amounts, NEW h \in Haulage,
             NEW n \in Lots, Create(p, s, total, h[1], h[2], n)
      PROVE  UNCHANGED <<credit[q], freight[q], freightPaid[q]>> /\ Rows(q)' = Rows(q)
  <2>1. p # q
    BY <1>2, <1>5 DEF Create
  <2>2. UNCHANGED <<credit[q], freight[q], freightPaid[q]>>
    BY <1>3, <1>5, <2>1 DEF Create
  <2>3. UNCHANGED payment
    BY <1>5 DEF Create
  <2> QED
    BY <1>4, <2>2, <2>3
<1>6. ASSUME NEW p \in Purchases, NEW amount \in Amounts, NEW a \in Accounts,
             PayCarrier(p, amount, a)
      PROVE  UNCHANGED <<credit[q], freight[q], freightPaid[q]>> /\ Rows(q)' = Rows(q)
  <2>1. p # q
    BY <1>2, <1>6, PayCarrierStep DEF PayCarrier
  <2>2. UNCHANGED <<credit[q], freight[q], freightPaid[q]>>
    BY <1>3, <1>6, <2>1 DEF PayCarrier
  <2>3. UNCHANGED payment
    BY <1>6 DEF PayCarrier
  <2> QED
    BY <1>4, <2>2, <2>3
<1>7. ASSUME NEW p \in Purchases, NEW h \in Haulage, NEW b \in Accounts,
             EditTransport(p, h[1], h[2], b)
      PROVE  UNCHANGED <<credit[q], freight[q], freightPaid[q]>> /\ Rows(q)' = Rows(q)
  <2>1. p # q
    BY <1>2, <1>7 DEF EditTransport, Active
  <2>2. UNCHANGED <<credit[q], freight[q], freightPaid[q]>>
    BY <1>3, <1>7, <2>1 DEF EditTransport
  <2>3. UNCHANGED payment
    BY <1>7 DEF EditTransport
  <2> QED
    BY <1>4, <2>2, <2>3
<1>8. ASSUME NEW p \in Purchases, NEW total \in Amounts, NEW n \in Lots, NEW h \in Haulage,
             NEW a \in Accounts, NEW b \in Accounts, Edit(p, total, n, h[1], h[2], a, b)
      PROVE  UNCHANGED <<credit[q], freight[q], freightPaid[q]>> /\ Rows(q)' = Rows(q)
  <2>1. p # q
    BY <1>2, <1>8 DEF Edit, Active
  <2>2. UNCHANGED <<credit[q], freight[q], freightPaid[q]>>
    BY <1>3, <1>8, <2>1 DEF Edit
  <2>3. UNCHANGED payment
    BY <1>8 DEF Edit
  <2> QED
    BY <1>4, <2>2, <2>3
<1>9. ASSUME NEW p \in Purchases, NEW a \in Accounts, NEW override \in BOOLEAN,
             Archive(p, a, override)
      PROVE  UNCHANGED <<credit[q], freight[q], freightPaid[q]>> /\ Rows(q)' = Rows(q)
  <2>1. p # q
    BY <1>2, <1>9 DEF Archive, Active
  <2>2. UNCHANGED <<credit[q], freight[q], freightPaid[q]>>
    BY <1>3, <1>9, <2>1 DEF Archive
  <2>3. UNCHANGED payment
    BY <1>9 DEF Archive
  <2> QED
    BY <1>4, <2>2, <2>3
<1>10. ASSUME NEW c \in Clerks, Pay(c)
       PROVE  UNCHANGED <<credit[q], freight[q], freightPaid[q]>> /\ Rows(q)' = Rows(q)
  BY <1>10, PayStep DEF Pay, ApplyPayments
<1>11. ASSUME NEW batch \in Batches, PayInBulk(batch)
       PROVE  UNCHANGED <<credit[q], freight[q], freightPaid[q]>> /\ Rows(q)' = Rows(q)
  BY <1>11, BulkStep DEF PayInBulk, ApplyPayments
<1>12. CASE UNCHANGED purchaseVars
  BY <1>1, <1>12 DEF purchaseVars
<1>13. CASE \/ \E c \in Clerks, p \in Purchases : BeginReceive(c, p)
            \/ \E c \in Clerks : Receive(c)
            \/ Sell
            \/ \E c \in Clerks, i \in Items :
                  BeginPay(c, i.purchase, i.uuid, i.amount, i.account)
            \/ \E c \in Clerks : GiveUp(c)
  BY <1>1, <1>13 DEF BeginReceive, Receive, Sell, BeginPay, GiveUp
<1> QED
  BY <1>5, <1>6, <1>7, <1>8, <1>9, <1>10, <1>11, <1>12, <1>13 DEF PurchasesNext

-----------------------------------------------------------------------------
\* The types hold in every reachable state, the CHECKs of the credits among
\* them, and no debt and no account ever gets below zero.
THEOREM PurchasesTypes == PurchasesSpec => []PurchasesTypeOK
BY BooksAlways, PTL DEF BooksInv

\* accumulated_debt is what the credits of the purchases of a supplier have
\* left, whatever the order of creations, payments, edits and archivals.
THEOREM DebtAddsUp == PurchasesSpec => []DebtIsCredits
BY BooksAlways, PTL DEF BooksInv

\* A live purchase is charged its total and its freight.
THEOREM ChargesFollow == PurchasesSpec => []CreditsFollowPurchase
BY BooksAlways, PTL DEF BooksInv

\* The money that left the accounts is what live and archived purchases have
\* paid, less what archivals gave back.
THEOREM MoneyAddsUp == PurchasesSpec => []MoneyIsPaid
BY BooksAlways, PTL DEF BooksInv

\* No credit has more paid than its payment rows.
THEOREM PaidIsBooked == PurchasesSpec => []PaidHasRows
BY BooksAlways, PTL DEF BooksInv

\* Without a reception that came late, the stock is what live purchases
\* brought less what was sold.
THEOREM StockAddsUp == PurchasesSpec => []StockIsReceived
BY BooksAlways, PTL DEF BooksInv

\* An archived purchase takes no more payments.
THEOREM ArchivedIsClosed == PurchasesSpec => ArchivedTakesNothing
<1>1. BooksInv /\ [PurchasesNext]_purchaseVars =>
        [\A p \in Purchases : purchase[p].deleted =>
            UNCHANGED <<credit[p], freight[p], freightPaid[p]>> /\ Rows(p)' = Rows(p)]_purchaseVars
  BY ArchivedStep
<1> QED
  BY <1>1, BooksAlways, PTL DEF PurchasesSpec, ArchivedTakesNothing

-----------------------------------------------------------------------------
(* Before the first edit.                                                  *)

\* What the credits of a purchase have paid is what its payment rows add up to.
PaidByRows(p) == credit[p].paid = Rows(p) /\ freight[p].paid = freightPaid[p]

Unedited == edits = 0 => \A p \in Purchases : PaidByRows(p)

LEMMA UneditedStart == PurchasesInit => Unedited
<1> SUFFICES ASSUME PurchasesInit, NEW p \in Purchases
             PROVE  PaidByRows(p)
  BY DEF Unedited
<1>1. credit[p].paid = 0 /\ freight[p].paid = 0 /\ freightPaid[p] = 0
  BY DEF PurchasesInit, NoCredit
<1>2. 0 <= Rows(p)
  BY BooksStart, SumsAreNat DEF BooksInv
<1>3. \A u \in Uuids : payment[u].purchase # p
  BY PurchasesAssumption DEF PurchasesInit, NoPayment, NoPurchase, Purchases
<1>4. Rows(p) = 0
  BY <1>3, TotalZero DEF Rows
<1> QED
  BY <1>1, <1>4 DEF PaidByRows

LEMMA UneditedStep ==
    ASSUME BooksInv, Unedited, [PurchasesNext]_purchaseVars
    PROVE  Unedited'
<1> SUFFICES ASSUME edits' = 0, NEW q \in Purchases
             PROVE  PaidByRows(q)'
  BY DEF Unedited
<1>1. /\ credit \in [Purchases -> Credit] /\ freight \in [Purchases -> Credit]
      /\ freightPaid \in [Purchases -> Nat] /\ edits \in Nat
  BY DEF BooksInv, PurchasesTypeOK
<1>2. ASSUME edits = 0
      PROVE  PaidByRows(q)
  BY <1>2 DEF Unedited
<1>3. ASSUME UNCHANGED payment
      PROVE  Rows(q)' = Rows(q)
  BY <1>3 DEF Rows
<1>4. ASSUME UNCHANGED <<credit, freight, freightPaid, payment, edits>>
      PROVE  PaidByRows(q)'
  BY <1>2, <1>3, <1>4 DEF PaidByRows
<1>5. ASSUME NEW p \in Purchases, NEW s \in Suppliers, NEW total \in Amounts, NEW h \in Haulage,
             NEW n \in Lots, Create(p, s, total, h[1], h[2], n)
      PROVE  PaidByRows(q)'
  <2>1. UNCHANGED <<payment, freightPaid, edits>> /\ Rows(q)' = Rows(q) /\ PaidByRows(q)
    BY <1>2, <1>3, <1>5 DEF Create
  <2>2. credit'[q].paid = credit[q].paid /\ freight'[q].paid = freight[q].paid
    <3>1. CASE q = p
      <4>1. credit[p] = NoCredit /\ freight[p] = NoCredit
        BY <1>5 DEF Create, NoRow, BooksInv, RowsKnown
      <4>2. /\ credit'[p] = NewCredit(total)
            /\ freight'[p] = IF h[1] > 0 THEN NewCredit(h[1]) ELSE NoCredit
        BY <1>1, <1>5 DEF Create
      <4> QED
        BY <3>1, <4>1, <4>2 DEF NewCredit, NoCredit
    <3>2. CASE q # p
      BY <1>1, <1>5, <3>2 DEF Create
    <3> QED
      BY <3>1, <3>2
  <2> QED
    BY <2>1, <2>2 DEF PaidByRows
<1>6. ASSUME NEW p \in Purchases, NEW amount \in Amounts, NEW a \in Accounts,
             PayCarrier(p, amount, a)
      PROVE  PaidByRows(q)'
  <2>1. UNCHANGED <<payment, credit, edits>> /\ Rows(q)' = Rows(q) /\ PaidByRows(q)
    BY <1>2, <1>3, <1>6 DEF PayCarrier
  <2>2. freight'[q].paid = freightPaid'[q]
    <3>1. CASE q = p
      <4>1. freight'[p].paid = freight[p].paid + amount
        BY <1>1, <1>6 DEF PayCarrier, Paid, Credit
      <4>2. freightPaid'[p] = freightPaid[p] + amount
        BY <1>1, <1>6 DEF PayCarrier
      <4> QED
        BY <2>1, <3>1, <4>1, <4>2 DEF PaidByRows
    <3>2. CASE q # p
      BY <1>1, <1>6, <2>1, <3>2 DEF PayCarrier, PaidByRows
    <3> QED
      BY <3>1, <3>2
  <2> QED
    BY <2>1, <2>2 DEF PaidByRows
<1>7. ASSUME NEW p \in Purchases, NEW a \in Accounts, NEW override \in BOOLEAN,
             Archive(p, a, override)
      PROVE  PaidByRows(q)'
  <2>1. UNCHANGED <<payment, freightPaid, edits>> /\ Rows(q)' = Rows(q) /\ PaidByRows(q)
    BY <1>2, <1>3, <1>7 DEF Archive
  <2>2. credit'[q].paid = credit[q].paid /\ freight'[q].paid = freight[q].paid
    <3>1. CASE q = p
      <4>1. /\ credit'[p] = IF credit[p].paid > 0 THEN Settled(credit[p]) ELSE NoCredit
            /\ freight'[p] = Settled(freight[p])
        BY <1>1, <1>7 DEF Archive
      <4>2. credit[p] \in Credit /\ freight[p] \in Credit /\ credit[p].paid \in Nat
        BY <1>1 DEF Credit
      <4>3. \A c \in Credit : Settled(c).paid = c.paid
        BY DEF Settled, Credit
      <4> QED
        BY <3>1, <4>1, <4>2, <4>3 DEF NoCredit
    <3>2. CASE q # p
      BY <1>1, <1>7, <3>2 DEF Archive
    <3> QED
      BY <3>1, <3>2
  <2> QED
    BY <2>1, <2>2 DEF PaidByRows
<1>8. ASSUME NEW c \in Clerks, Pay(c)
      PROVE  PaidByRows(q)'
  <2>1. UNCHANGED <<freight, freightPaid, edits>>
    BY <1>8 DEF Pay, ApplyPayments
  <2>2. credit[q].paid = Rows(q) => credit'[q].paid = Rows(q)'
    BY <1>8, PayStep
  <2> QED
    BY <1>2, <2>1, <2>2 DEF PaidByRows
<1>9. ASSUME NEW batch \in Batches, PayInBulk(batch)
      PROVE  PaidByRows(q)'
  <2>1. UNCHANGED <<freight, freightPaid, edits>>
    BY <1>9 DEF PayInBulk, ApplyPayments
  <2>2. credit[q].paid = Rows(q) => credit'[q].paid = Rows(q)'
    BY <1>9, BulkStep
  <2> QED
    BY <1>2, <2>1, <2>2 DEF PaidByRows
<1>10. CASE \/ \E p \in Purchases, h \in Haulage, b \in Accounts :
                  EditTransport(p, h[1], h[2], b)
            \/ \E p \in Purchases, total \in Amounts, n \in Lots, h \in Haulage,
                  a, b \in Accounts : Edit(p, total, n, h[1], h[2], a, b)
  <2>1. ASSUME NEW p, NEW f, NEW k, NEW b, EditTransport(p, f, k, b)
        PROVE  edits' = edits + 1
    BY <2>1 DEF EditTransport
  <2>2. ASSUME NEW p, NEW total, NEW n, NEW f, NEW k, NEW a, NEW b, Edit(p, total, n, f, k, a, b)
        PROVE  edits' = edits + 1
    BY <2>2 DEF Edit
  <2>3. edits' = edits + 1
    BY <1>10, <2>1, <2>2
  <2> QED
    BY <1>1, <2>3
<1>11. CASE \/ UNCHANGED purchaseVars
            \/ \E c \in Clerks, p \in Purchases : BeginReceive(c, p)
            \/ \E c \in Clerks : Receive(c)
            \/ Sell
            \/ \E c \in Clerks, i \in Items :
                  BeginPay(c, i.purchase, i.uuid, i.amount, i.account)
            \/ \E c \in Clerks : GiveUp(c)
  BY <1>4, <1>11 DEF purchaseVars, BeginReceive, Receive, Sell, BeginPay, GiveUp
<1> QED
  BY <1>5, <1>6, <1>7, <1>8, <1>9, <1>10, <1>11 DEF PurchasesNext

\* Until a purchase is edited, archivals give back exactly what was paid: what
\* left the accounts is what the purchases that are not archived have paid.
\* Only an edit that refunds makes a later archival refund again.
OnlyLivePurchasesPaid ==
    Total(balance, Accounts)
        + Total([p \in Purchases |-> IF purchase[p].deleted THEN 0
                                     ELSE credit[p].paid + freight[p].paid], Purchases)
    = Money * Cardinality(Accounts)

THEOREM UneditedPurchasesRepayExactly ==
    PurchasesSpec => [](edits = 0 => OnlyLivePurchasesPaid)
<1>1. ASSUME BooksInv, Unedited, edits = 0
      PROVE  OnlyLivePurchasesPaid
  <2> DEFINE paid == [p \in Purchases |-> PaidOn(p)]
             back == [p \in Purchases |-> Returned(p)]
             alive == [p \in Purchases |-> IF purchase[p].deleted THEN 0
                                           ELSE credit[p].paid + freight[p].paid]
  <2>1. PurchasesTypeOK /\ Total(balance, Accounts) + Total(paid, Purchases)
                           = Money * Cardinality(Accounts) + Total(back, Purchases)
    BY <1>1, BooksAre DEF BooksInv
  <2>2. \A p \in Purchases : PaidByRows(p)
    BY <1>1 DEF Unedited
  <2>3. \A p \in Purchases : /\ alive[p] \in Nat /\ back[p] \in Nat /\ paid[p] \in Nat
                             /\ paid[p] = alive[p] + back[p]
    BY <2>1, <2>2, SumsAreNat DEF PaidOn, Returned, PaidByRows
  <2>4. Total(balance, Accounts) \in Nat
    BY <2>1, Finite, TotalIsNat DEF PurchasesTypeOK
  <2>5. Money * Cardinality(Accounts) \in Nat
    BY Finite, FS_CardinalityType, PurchasesAssumption
  <2> HIDE DEF paid, back, alive
  <2>6. /\ Total(paid, Purchases) = Total(alive, Purchases) + Total(back, Purchases)
        /\ Total(alive, Purchases) \in Nat /\ Total(back, Purchases) \in Nat
    BY <2>3, Finite, TotalPlus, TotalIsNat
  <2>7. Total(balance, Accounts) + Total(alive, Purchases) = Money * Cardinality(Accounts)
    BY <2>1, <2>4, <2>5, <2>6
  <2> QED
    BY <2>7 DEF alive, OnlyLivePurchasesPaid
<1>2. BooksInv /\ Unedited /\ [PurchasesNext]_purchaseVars => Unedited'
  BY UneditedStep
<1> QED
  BY <1>1, <1>2, UneditedStart, BooksAlways, PTL DEF PurchasesSpec
=============================================================================
