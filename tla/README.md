# A verification project for pos_api

`kikedevelopers/pos_api` is the NestJS / TypeScript / PostgreSQL API of a
multi-tenant point of sale. These modules model the parts of it where money and
goods can go wrong, check them with TLC on small instances and prove the most
important properties with TLAPS for every instance. Paths are those of the
repository; code lives in `src/modules/`, listed in PROJECT.json under
`src/src/modules/`.

| Module | What it is |
| --- | --- |
| `SaleContract` | abstract: what a shop is promised of a sale |
| `SaleLedger` | the life of a sale: every operation on its money, goods, notes and credit |
| `SaleLedgerMC` | two interchangeable sales and customers |
| `SaleLedgerClaims` | what comments of the sales code say and the operations do not keep |
| `SaleLedgerProofs` | theorems of `SaleLedger` |
| `CashDesk` | abstract: what a shop is promised of its registers and accounts |
| `Treasury` | registers, banks and wallets under concurrent transactions |
| `TreasuryMC` | the request shapes of the instance |
| `TreasuryClaims` | what the documentation of close-cash says and it does not keep |
| `TreasuryProofs` | theorems of `Treasury` |
| `Billing` | a subscription, its payment links, the provider's transactions and the sweep |
| `BillingMC`, `BillingClaims` | the plans of the instance; what a comment says of the sweep |
| `BillingProofs` | theorems of `Billing` |
| `Purchases` | purchases, their credits, freight, payments, receptions, edits and archivals |
| `PurchasesMC`, `PurchasesClaims` | symmetry and bounds; what comments say of a reception |
| `PurchasesProofs` | theorems of `Purchases` |
| `Inventory` | the stock that sales take and give back, through presentations and combos |
| `InventoryProofs` | theorems of `Inventory` |
| `FixedExpenses` | the periods of a fixed expense, their alerts and their payments |
| `FixedExpensesProofs` | theorems of `FixedExpenses` |
| `Consent` | abstract: what a user is promised of the operations the assistant offers |
| `Assistant` | operations the AI assistant prepares and the user confirms |
| `SellerOrders` | a conversation of the sales agent, the orders it leaves and their tickets |
| `AgentProofs` | theorems of `Assistant` and `SellerOrders` |
| `BackOfficeMC` | `FixedExpenses`, `Inventory`, `Assistant` and `SellerOrders` in one run |
| `Totals`, `TotalsTheorems` | the sum of a function over a set, and what is proved of it |

## 1. Inventory

Requests reach stateless Node processes; all shared state is in PostgreSQL.
Components interact through rows: a service of one module calls a helper of
another inside the caller's transaction, and two requests meet in the rows they
both lock. There are a few schedulers (catalogue index, backups, e-mail alerts,
billing, product images, the Telegram worker), one webhook from a payment
provider (Wompi), and push, realtime and mail messages sent after commit.

### Sales (`sales`, `payments`, `credits`, `credit-notes`)
* *State*: `sale_invoices` (ORDER, LOAN or SALE, `is_deleted`), their lines,
  `credit_notes` (NC and ND), `sale_credits` (one row per sale at most, with CHECKs),
  `sale_payments` (soft-deleted by `is_voided`), `sale_status_history`,
  `inventory_movements`, `customers.advance_balance`.
* *Operations*: place an order (with or without a payment), edit it, check it
  out, lend it and convert the loan, collect a balance, pay an instalment,
  reverse one payment, edit a sale by notes with refund or charge, annul.
* *Interactions*: registers, banks and wallets; inventory; advances.
* *Hard*: the same money can be returned by three operations (reversal, edit,
  annulment), the same goods by two, and each reads what the others left; the
  credit row is derived and re-derived by four of them.
* *Correct when*: money rows agree with live payments, goods out with the
  consolidated value, the credit row with both; an annulment is final and
  returns everything once; nothing is overdrawn or over-collected.

### Treasury (`pos-data`, `cash-register`, `banks`, `wallets`, `accounts`, `financial-movements`)
* *State*: a balance per register, bank and wallet; logs and movements; the
  Idempotency-Key inside `reference_code`.
* *Operations*: close a register (simple or reconciling), transfer out of it,
  transfer between accounts and into registers, adjust.
* *Hard*: balances are absolute values computed in the application from a locked
  read; SERIALIZABLE conflicts, deadlocks and retries; replays.
* *Correct when*: a balance is its opening plus its movements, nothing is
  overdrawn, a key closes once, a replay tells the truth, every call ends.

### Billing (`billing`, `subscriptions`, `portal`)
* *State*: the subscription (plan, requested and scheduled plan, expiry) and its
  payments (status, link, transaction, period).
* *Operations*: create a checkout, apply a Wompi transaction (webhook, return
  page and sweep), change the plan, extend it, promote the plan of a period that
  starts, expire links.
* *Hard*: webhooks lost, repeated or late; the status of a transaction is fetched
  before the payment is locked; links are created outside the transaction.
* *Correct when*: paid periods never overlap or shrink, days come only from an
  approved payment, the plan is that of the period that covers the day, a known
  settled transaction is applied in the end.

### Inventory (`products`, `packagings`, `product-history`)
* *State*: stock of base products, of which presentations and combos draw; the
  factor and the recipe that a line of a sale froze; movements.
* *Operations*: deduct and return the lines of a sale, once or twice in one
  transaction; edit packagings, recipes, the shape of a product and its stock.
* *Hard*: units are worked out from unlocked reads, rows are locked one after the
  other, and a return happens long after the catalogue changed.
* *Correct when*: stock is its movements, never negative under strict control
  unless forced, and a return gives back exactly what was taken.

### Restaurant (`salons`, `restaurant-tables`, `comandas`, `deliveries`)
Tables with a turn and an order on it. *Correct when* a table has one open order
and is free when the order ends.

### Purchases (`purchases`, `suppliers`, `carriers`, `carrier-payments`)
* *State*: purchases, `purchase_credits`, `carrier_credits`, their payments,
  `suppliers.accumulated_debt`, stock, average cost.
* *Operations*: create, receive, pay one by one and in batches, pay the carrier,
  edit with or without lines, archive.
* *Hard*: the debt is moved by differences and never recomputed; receptions and
  payments look at the purchase without a lock; edits refund, archivals refund.
* *Correct when*: the debt is what the credits have left, money and goods are
  explained by the purchases, an archived purchase takes nothing more.

### Expenses and fixed expenses
* *State*: the expense and its schedule, its periods, an alert for each, the
  expenses that paid them.
* *Operations*: synchronise the periods that fell due (on a visit or after an
  edit), pay several periods at once, mark one paid, void an expense, archive.
* *Hard*: no clock creates periods, visits do, and several overlap and fail.
* *Correct when*: periods are numbered without gaps and announced once, and what
  they say was paid is what expenses add up to.

### AI assistant (`ai`)
* *State*: a prepared operation waits in `ai_pending_actions` for an explicit yes
  to its own summary; messages are recognised by the hash of their text.
* *Operations*: prepare, supersede, confirm, expire, execute.
* *Hard*: tabs and repeated requests overlap, the data of a summary changes.
* *Correct when*: an operation happens at most once, only for the message that
  answers it, and corrections are of what was shown.

### Lending (`src/lending`)
Loan plans and the creation of a loan, no payments yet.

### Auth, users, roles, employees, portal
One-time activation and recovery tokens with expiry and attempt limits; sessions;
permissions are data.

### Sales agent (`sales-agent`, `catalog-knowledge`)
* *State*: a cart per conversation (a JSON column, with an `operation_id`), the
  orders that carts became, the ticket of the POS an order was linked to.
* *Operations*: tools that change the cart, close it, reopen, amend or cancel the
  last order; the shop takes, dismisses, returns and links orders; follow-ups,
  human takeover and a Telegram worker around them.
* *Hard*: the cart is read, worked on and written whole without a lock, and
  messages overlap; the shop reads an order and updates it later.
* *Correct when* what a customer asked for becomes one order, an order that was
  taken stays as it was taken, and a live ticket keeps its order; a bot does not
  speak over a person.

### The rest
Customers and categories, companies, app and ticket settings, superadmin,
reports, dashboard, mail, alerts, push, realtime, product images, backups,
migration import, database and config: catalogue data, read-only queries, output
or one-off conversions. PROJECT.json says why each is left out.

## 2. Plan

Done: `SaleLedger`, `Treasury` and `Assistant`, each with the abstract
specification it implements (`SaleContract`, `CashDesk`, `Consent`) and the proof
that it does; `Billing`, `Purchases`, `SellerOrders`, `Inventory` and
`FixedExpenses` with their proofs. Every safety and action property of a passing
run is a theorem, the refinements among them (section 8). Next, most important
first:

1. **SaleRequests**: idempotent requests of one sale (`uuid`,
   `client_operation_id`) as concurrent transactions, statement by statement.
2. **Costs**: recalculation of the average cost from the receptions that remain,
   as a recursive function against a reference definition.
3. **Restaurant**, **OneTimeTokens**, **Lending**.

## 3. SaleLedger

### State and code
| Variable | Code |
| --- | --- |
| `invoice` | `sale_invoices`: ticket_type, is_deleted, customer_id, total |
| `notes` | `credit_notes` of the sale: value of its NCs and NDs, and whether one is FULL_VOID |
| `credit` | `sale_credits`: total_amount, paid_amount, balance, status, customer |
| `payments` | `sale_payments` in order of id |
| `balance`, `advance` | balances of registers, banks and wallets; `advance_balance` |
| `shipped` | `inventory_movements` of the sale, DEDUCT less RETURN |
| `received` | cash logs, financial movements and advances of the sale, net |
| `timeline` | `sale_status_history` |

One action is one committed transaction: the operations lock the sale or its
credit `FOR UPDATE` before reading, and all but POST /sales, which creates its
row, are SERIALIZABLE, so committed transactions of a sale are as if one after
the other. A refused request rolls back and is not a step. What happens *inside*
concurrent transactions is the matter of `Treasury`.

| Action | Operation |
| --- | --- |
| `CreateSale`, `CreatePaidSale` | POST /sales, without and with a payment |
| `EditOrder`, `EditSale` | PUT /sales/:id |
| `ProcessPayment` | POST /payments, POST /sales/:id/convert-to-sale |
| `ConvertOrderToLoan` | POST /sales/:id/loan |
| `CollectSaleBalance` | POST /sales/:id/collect |
| `ProcessCreditPayment` | POST /credits/payment |
| `DeleteSalePayment` | DELETE /sales/:id/payments/:id |
| `VoidOrder`, `VoidLoan`, `VoidSale` | POST /sales/:id/void |

Abstractions: one unit of goods has price 1, so value and goods share a number;
amounts are whole units; folios, tables, points, roles and margins are left out.
Strict stock would only add refusals. POST /sales carries any number of payments
and the model two at most, each with its change, which is at most what was handed
over (POST /payments and /collect check that, POST /sales does not).

### Request shapes
Some shapes of requests that the API accepts break some of the properties, and
that is what the finding and section 10 say. So that each run says exactly what holds, the
constant `Requests` names the optional shapes an installation sends:

| Shape | What it is | Properties it breaks |
| --- | --- | --- |
| `inline` | POST /sales with payments | `CreditMatchesDebt`, `NoOverCollection`, `KeepsContract` (a checkout ignores what the order was paid with and leaves its credit open) |
| `change` | change given back by a collection or by a payment of POST /sales | `MoneyMatchesPayments` (the register gets the gross amount, the row keeps the net) |
| `collectEdited` | collect on a sale with notes | `NoOverCollection`, `KeepsContract` |
| `refund` | edit that refunds | `MoneyMatchesPayments` |
| `reassign` | edit that changes the customer | `AdvanceConserved`, `MoneyMatchesPayments` |
| `loanEdit` | edit of a loan | `StockMatchesSales`, `CreditMatchesDebt`, `NoOverCollection`, `KeepsContract` |
| `lateInstalment` | instalment on an annulled sale | the second half of `MoneyMatchesPayments` |

### Runs
| Run | Shows | Bounds |
| --- | --- | --- |
| `LedgerAny` | with every shape: `TypeOK` (no overdraft), `CreditRowConsistent`, `BalancesMatchMovements`, `FullVoidEmptiesSale` | one sale of up to 2 units, 1 debit unit, 2 payment rows, 2 units per tender |
| `LedgerMoney` | `MoneyMatchesPayments` with inline payments without change, collections of edited sales, loan edits, a wallet | the same |
| `LedgerDebt` | `CreditMatchesDebt`, `StockMatchesSales`, `NoOverCollection` and the refinement `KeepsContract` with change, refunds, reassignment, late instalments | the same |
| `LedgerAdvance` | `AdvanceConserved` with two sales and two customers that share advances | 1 unit, 3 payment rows, symmetric |
| `ClaimPayOut` | the finding of section 9 | one shape |

Why the bounds are enough: the operations of different sales meet only in
balances and advances (`LedgerAdvance` has two sales); within a sale two payment
rows, one of each origin, and a value that can rise and fall by one are what the
guards tell apart: paid nothing, part, all, and more than the value. A value of
2 has a proper part, and two units of tender can pay it at once or exceed the
rest. The mutants show that each property is within reach of these bounds.

There is no fairness and no liveness: each step is a decision of somebody at the
counter, and nothing in the code makes one happen.

### Proofs (`SaleLedgerProofs`)
For any number of sales, customers, accounts, units and payments:

* `TypeCorrect`, `NotesAlwaysFit`, `CreditRowsConsistent`,
  `FullVoidAlwaysEmpties`: `IInv` is the conjunction of the type, of
  `NotesFitSale` (notes never take out more than there is), of the credit row's
  CHECKs and of the full-void property. None is inductive alone: that a
  resettled credit satisfies its CHECKs needs the consolidated value to be
  non-negative, which needs that a full void leaves nothing to edit. There is
  one lemma per action, on top of lemmas about the running sum of live payments,
  the rows of a tender, and the credit row built from totals.
* `DeletedIsFinal`: the guard of every operation that touches the invoice, the
  notes or the goods, together with the type of the rows.
* `StockAlwaysMatches`: for installations that do not edit loans
  (`"loanEdit" \notin Requests` is its only assumption).

* `BalancesAlwaysMatch`: with every shape. The sum of what registers, accounts
  and advances differ from their openings changes by what the step books for its
  sale, whichever row it moves; the sum over accounts, customers and sales is the
  `Total` of `TotalsTheorems`, for finite sets of any size.
* `MoneyAlwaysMatches`, without `change` (of collections and of payments of
  POST /sales alike), `refund`, `reassign` and `lateInstalment`. `MoneyInv` adds that an annulled sale is deleted, so that no
  other operation finds it standing, and that a sale without customer, or that is
  not a SALE yet, has no live ADVANCE row: an annulment gives an advance back to
  the customer of the sale, and to nobody when there is none.
* `CreditAlwaysMatches`, without `inline` and `loanEdit`; `NeverOverCollects`,
  without `collectEdited` besides. `DebtInv` adds that before the checkout there
  is neither payment nor credit, and that what was placed is worth something until
  it is deleted, so that every edit settles the credit again.
* `ContractIsKept`: with the same shapes, `SaleLedger` implements
  `SaleContract`. Each operation on a sale is shown to take the pair of phase,
  value, goods and payments of that sale where a step of the contract takes it, or
  nowhere, and to leave the other sales where they were. It rests on
  `IInv`, `StockInv` and `DebtInv` together.
* `AdvancesConserved`, without `reassign`. `AdvanceInv` says that an annulled
  sale is deleted and that a row names a customer exactly when it consumed an
  advance, who is the customer of the sale while the row is live and the sale
  stands; so what an annulment gives back to one customer is what the rows of the
  sale took from that customer.

* `OnlyRefundsOverpay`, without `refund` and with every other shape: a sale never
  pays out more than it took in. This is the comment that `ClaimPayOut` refutes
  (section 9), so edits that refund are the only cause. `BackedInv` says that what
  a sale received is never negative and, until it is deleted, at least what its
  live payments would return: reversals and annulments take from it what they void,
  and an edit without refund only adds.

The shapes a theorem excludes are those that the table above says break the
property: its hypothesis is a condition on the constant `Requests` alone.
Annulments are the delicate step of all of them, because the code sums live rows
by destination while the properties count rows; the lemmas about `LiveNet`
relate both.

## 4. Treasury

### State and code
A call is one HTTP request: `shape` is its body, `pc` its place:

    idle -> received -> ready -> open -> committed
                 |        ^       |----> refused     business check, 422
                 |        +-------+----> failed      40001 after the last retry
                 +-> replayed     +----> victim      40P01

`received` exists for requests with an Idempotency-Key, while `close-cash` looks
the key up outside any transaction. `held` and `seen` are the locked rows of an open transaction and
the balances read in them, `stale` the rows others committed since its snapshot,
`flow` what logs and movements add up to, `keyed` the sums by tag (TRF, OVR, SHT)
of the movements of a key, `answer` the `moved_amount` and `difference` answered.

| Kind | Operation | Lock order | Isolation |
| --- | --- | --- | --- |
| `close`, `reconcile` | close-cash.action, two modes | register, destination | SERIALIZABLE, retried |
| `cashOut` | transfer-cash.action | register, destination, then the balance check | SERIALIZABLE, retried |
| `transfer` | accounts/transfer.action | source, balance check, destination (account or register) | SERIALIZABLE, retried |
| `adjust`, `deposit`, `withdraw` | adjust-cash-register, bank and wallet adjustments | the row | default |

`Commit` is the tail of a transaction after its last lock: the writes are to
locked rows, so nobody sees them before. Transfers from a branch to the main
business lock the same way between the accounts of two companies and are
`transfer` here.

PostgreSQL is external: row locks until the end, 40001 on locking a row changed
since the snapshot (SERIALIZABLE only), one victim per cycle of waits. Its other
40001, raised by predicate locks, only adds retries without trace.

### Runs
`TreasuryCalls`: one register, one bank, one wallet, three calls out of the nine
shapes of `TreasuryMC`: a keyed overage and a keyed shortage closing, a simple
closing, a transfer in each direction between register, bank and wallet, and the
three adjustments. Three calls make every cycle of waits over three rows, two
rivals in a row for one call, and a key used three times. `MaxRetries` is 1
there: giving up then takes two rivals, which three calls have; with the 2 of
the code it takes four calls and the case would not happen. The theorem is for
every `MaxRetries`.

Invariants: `BooksBalance` (no lost update), `TypeOK` (no overdraft),
`ReplayTellsWhatHappened`, `GivesUpOnlyUnderContention`; action properties
`CountIsAccounted`, `CashDeadlocksOnlyWithIncoming`; liveness `EveryCallEnds`; and
the refinement `ServedOneByOne`: locks, snapshots, conflicts, deadlocks and
retries are `CashDesk`, where a request is served whole at the balances of one
instant, or told what its key did, or turned down because at that instant it could
not be served, or given up without a trace, and never when it is alone. The
mapping reads the outcome of a call off `pc` and the memory of a key off its
movements (`keyed`). `CashDesk` says what a closing, a transfer or an adjustment leaves and
sends by equations on what can be counted, not by the formulas of the code.

`EveryCallEnds` says that each call is, again and again, not there yet or at its
end; since a call that ended stays so, one that arrives is answered.

Fairness: weak fairness of each call's steps. Node runs the continuation of every
pending promise, and PostgreSQL grants a free row, detects deadlocks after a
timeout and aborts conflicts; no fairness is assumed of clients. A call that
waits for a row is released because the holder's own steps are fair and end; a
step that is enabled and taken away by a rival (a row locked first) leads to a
wait, not to a loop, because retries are bounded.

`ClaimKey` is the finding of section 9.

### Proofs (`TreasuryProofs`)
Assuming only the named `TreasuryAssumption` (natural amounts, registers are not
accounts, the shapes are those the DTOs accept, one body per key):

* `BooksAlwaysBalance` and `NeverOverdrawn`. `BooksBalance` alone says nothing of
  what a transaction has read. `BooksInv` adds that rows are locked by one
  transaction at most (`LocksApart`), that a call locks the rows of its own
  request, the source first (`LocksInOrder`), and that what was read in a locked
  row is still its balance (`ReadsAreCurrent`). `Commit` writes only rows it
  holds, so the reads of others stay current.
* `CashDeadlockNeedsIncoming`: in a cycle of waits everybody holds the source and
  wants the destination; so a register in the cycle is somebody's destination.
* `ReplaysAlwaysTell`: with `KeyInv`, that the sums of a key used once are those
  of its one closing, and of each replay.
* `GivesUpOnlyToRivals`: with `RetryInv`, that each retry, and each conflict yet
  to be met, is paid for by another committed rival.
* `CountAlwaysAccounted`.

* `EachServedByItself`: the refinement, for any number of calls, accounts and
  retries. A step of a call is a step of `CashDesk` when it ends the call and a
  stutter otherwise; the step is taken at `Commit`, `Refuse`, `Replay` or the last
  conflict. `BooksInv` gives what `Commit` and `Refuse` need: what was read in the
  locked rows is their balance now.
* `LateRetriesOnlyRepeat`: a client that sends a key again after it was done is
  told what was done and never closes again; only calls that overlap can, which is
  the finding `ClaimKey`.

`EveryCallEnds` itself stays with TLC: liveness under fairness and ENABLED are out
of the prover's reach. What it needs of the system besides fairness is proved:
`NobodyIsStuck`, in every state where some call is under way some call can go on,
a cycle of waits included (its guard is stated without ENABLED); and
`RetriesRunOut`, every step lowers a measure that starts at
`MaxCalls * (5 * MaxRetries + 6)`, so retries do not go on for ever.

## 5. Billing

### State and code
`sub` is the row of `subscriptions` of the owner, `payments` the rows of
`subscription_payments`, `wompi` the transactions at the provider, `request` what
a request holds between two of its steps (the plan of a checkout that waits for
its link, or a fetched status), `promoted` that the sweep of the day promoted the
period in force. A day is the unit of time.

| Action | Code |
| --- | --- |
| `Checkout`, `SaveCheckout`, `DropCheckout` | POST /billing/checkout: the link is created outside a transaction and saved after `assertCheckoutAllowed` looks again under the lock |
| `ChangePlan`, `Grant` | PATCH of the plan; an extension by the administrator |
| `Pay`, `Settle` | the provider (external) |
| `Hear`, `Check`, `Apply`, `Fail` | the webhook, the return page and the sweep: fetch, note the transaction, lock payment and subscription, apply |
| `Promote`, `Expire`, `Tick` | `promoteStartedPeriods`, expiry of links, a day passes |

`Grant` moves the end of the subscription forward only; an administrator can also
write an earlier date, and then paid periods are cut on purpose.

### Run and bounds
`BillingDays`: two payments, two transactions, two days, one rare event (change
of plan, extension or odd amount). Two payments of two plans give every order of
paying, hearing and applying, a period paid in advance, and an old link paid
after a new one; a second transaction on one link is the replaced attempt.

Fairness: `Apply`, `Promote`, `Check(p)` and `Expire` are weakly fair: Node runs
the continuation of a pending request, and an interval of five minutes starts the
sweep, which takes every candidate payment. Owner, administrator and provider are not
fair. `SweepSettles` is liveness: a pending payment that knows a settled
transaction is settled although no webhook ever comes. `ClaimSweep` is the
finding of section 9: a payment that was declined first is not pending, and the
sweep does not look at it.

### Proofs (`BillingProofs`)
For any number of payments, transactions and days: `BillingTypes`,
`PeriodsNeverOverlap`, `NoDaysForFree`, `NothingOnTop`, `PlanInForceIsPaid`.
`PaidPeriodsApart` and `DaysArePaidFor` need two strengthenings: `LinksKept` (a transaction that a
payment names exists and is of its link) and `FetchStands` (an approval that was
fetched is still what the provider says, because a settled transaction never
changes). `PlanIsTheOnePaid` is inductive beside them: days that are
granted start now only when none are left, and take their plan with them, while
days that start later leave the plan that runs; at the turn of a day `promoted`
is withdrawn until the sweep has looked again. `BillingTypes` stands for
the type invariant, which the run does not repeat.

`NoDayIsTakenBack`: no step takes back a day that was paid or granted or touches
the row of a payment that granted days; a period comes only from a payment applied
now, which starts where the rest ends. It is about every pair of states, where
`PaidPeriodsApart` is about one.

`SweepSettles` is only model-checked: liveness is out of the prover's reach. Its
safety part is `SweepKeepsAndSettles`: a pending payment that knows a settled
transaction stays pending and knows it until it is settled or hears of another
transaction, and the check of the sweep, when it runs, settles it and grants the
days if they were paid. What is left to fairness is that the check runs.

Not modelled: the seven-day horizon of the sweep's query, signatures and
environments of events, alerts and mails, the text of rejections.

## 6. Purchases

### State and code
| Variable | Code |
| --- | --- |
| `purchase` | `purchases` with the units of their lines |
| `credit`, `freight` | `purchase_credits`, `carrier_credits`, one per purchase |
| `payment`, `freightPaid` | `purchase_payments` by uuid; the sum of `carrier_payments` |
| `debt`, `balance`, `stock` | `suppliers.accumulated_debt`, accounts, `products.stock` |
| `request` | what a reception or a payment looked at before it took its locks |

| Action | Operation |
| --- | --- |
| `Create` | POST /purchases |
| `BeginReceive`, `Receive` | PATCH /purchases/:id/receive: status read, then stock under lock |
| `BeginPay`, `Pay`, `PayInBulk` | one payment; a batch |
| `PayCarrier` | payment of a freight |
| `EditTransport`, `Edit` | PUT /purchases/:id without and with lines |
| `Archive` | DELETE /purchases/:id |
| `Sell` | sales, as far as they take stock |
| `GiveUp` | a refused request |

`raced` is history: a reception was applied to a purchase that another request
had received or archived since it looked. The code does not look again, so
`StockIsReceived` is stated for behaviours where this did not happen, and
`ClaimReceive` is the finding of section 9.

### Run and bounds
`PurchaseBooks` explores two instances under one constraint: two purchases and
two overlapping requests with single units (`Plain`), or one purchase with
freight, two carriers and lots of two sizes (`OneRich`); one edit, one unit sold.
Purchases meet in the debt of the supplier, in accounts and in stock, which two
of them show; freight belongs to one purchase. Carriers, clerks, uuids and
accounts are interchangeable.

### Proofs (`PurchasesProofs`)
For any number of everything, with `PurchasesAssumption` only: `PurchasesTypes`,
`DebtAddsUp`, `ChargesFollow`, `MoneyAddsUp`, `PaidIsBooked`, `StockAddsUp`,
`ArchivedIsClosed`; the type is a theorem and the run does not repeat it. The
properties are about sums (the debt is the sum of the
balances, an account is its opening less its payments). Induction over data is
out of the prover's reach, so `Totals` defines a sum as the number of its units, a
cardinality, and `TotalsTheorems` proves from the library's theorems on finite
sets that sums add, change by what one term changes, and agree when grouped by a
key. `BooksInv` is the conjunction of the invariants of the run with two more:
`RowsKnown` (rows that do not exist are blank and a live row names its supplier)
and `NothingLeft` (the credits of an archived purchase have nothing left, so that it
adds nothing to the debt); none of the invariants is inductive without the types of credits,
which say that a balance is total less paid.

Amounts are whole units, above the cent of tolerance of freight payments. The
status of a purchase credit is a CHECK of its table; that of a carrier credit is
not, and `AddsUp` says that the operations keep it all the same. `PayInBulk` is
one step, because its transaction is: that a batch applies all its payments or
none is how it is modelled, not what is checked.

`MoneyIsPaid` counts what an archival gives back, whatever it is, and so also holds
when an archival refunds again what an edit refunded.
`UneditedPurchasesRepayExactly` is the other side of what section 10 says of
edits: as long as nothing was edited, what is missing from the accounts is exactly
what the live purchases have paid, so an archival gives back all of it and once.
It needs that a live credit has paid what its rows say to the unit (`PaidByRows`),
which an edit that refunds breaks.

## 7. Inventory, fixed expenses, the assistant and the sales agent

The run `BackOffice` moves one of four modules that share no variable: `focus`
says which, so their states add instead of multiplying. `BackOfficeSmall` is the
constraint of the part in focus, each named bound is commented there.

### Inventory
`product` is the catalogue, `onHand` is `products.stock`, `booked` what the
movements and forms say, `line` the lines of sales and debit notes with the
factor and recipe they froze, `out` the units a line has out, `trade` the open
transactions.

| Action | Code |
| --- | --- |
| `WriteOrder` | a line is written and frozen (`create-sale`) |
| `StartDelivery` | payment or loan of an order: `adjustInventory(DEDUCT)` |
| `StartReturn`, `StartAddition` | annulment; edit, credit note then debit note, in one transaction |
| `LockRow` | `lockTargetProducts`, rows in order of id |
| `Commit`, `RefuseTrade` | writes and movements; insufficient stock or a deadlock |
| `EditFactor`, `EditRecipe`, `Reparent`, `MakeCombo`, `UnmakeCombo`, `SetStock` | forms of packagings and products |

A line is *shaken* (history) when something it did not freeze changed: the shape of
its product, the recipe of a combo of a debit note, or when more of it was
added under another factor. `ReturnsWhatItTook` is about the others; section 10
lists what happens to the shaken ones.

The run has a combo, a presentation and two base products, two transactions and
one edit of the catalogue: two transactions are enough for a lost update and for
a deadlock (rows are locked in order, but an edit locks twice), one edit for
every way a snapshot can differ from the catalogue.

`InventoryProofs` proves for any catalogue, any number of transactions, lines
and edits: `InventoryTypes`, `StockAddsUp` and `ReturnsAreExact`, from
`InventoryAssumption` (components of combos are base products, what
`resolveComboComponents` enforces). `StockInv` strengthens them with: rows and
lines are in one transaction at a time; what a transaction has in its rows is
their stock (`StockRead`); components stay base products; and what an open
transaction is about to give or take is, for a line nothing shook, what the
catalogue says today (`TradesFollow`). The last is kept by an edit because units
depend only on the type, the row and the frozen factor and recipe (`UnitsStand`),
and is used by `Commit` because units of a sum are sums of units (`UnitsAdd`).

`SettledReturnsAreExact` drops the notion of a shaken line: where packagings,
recipes and shapes are not edited (`SettledCatalogue`, a condition on the constant
`CatalogueEdits`), every line is returned exactly, with what was added to it and
debit notes of combos. The three kinds of edit are thus all that section 10 has to
list.

### Fixed expenses
`period` are the rows of `fixed_expense_periods` by number, `alerts` what each
raised, `sync` the synchronisations in flight, `cooling` the minute in memory
during which visits are skipped, `outlay` the expenses that paid a period,
`marking` a balance read and not paid yet.

| Action | Code |
| --- | --- |
| `BeginSync`, `ReadExisting`, `InsertPeriod`, `EndSync`, `FailSync` | `SyncDuePeriodsAction`: read the expense, read the numbers that exist, one transaction per missing period |
| `Cool`, `Restart`, `Pass` | the minute, a crash, time |
| `ChangeFixed`, `ArchiveFixed` | the form |
| `PayPeriods` | one payment over several periods, oldest first |
| `ReadToMark`, `MarkPaid`, `RefuseMark` | mark one period paid |
| `VoidOutlay` | void an expense |

Two runs, three units of time, two schedules, one edit: a run that read the old
schedule, a run that inserts what another inserted, and a failed run that another
completes all happen. Payments are followed when time is over, because a period
that exists does not depend on later ones.

`FixedExpensesProofs`: `FixedTypes`, `NoPeriodIsMissing`, `PeriodPaymentsAddUp`,
`SyncsAreComplete`, for any schedules, amounts, cashiers and any number of runs.
`FixedInv` adds what a run knows (`SyncsKnow`): the periods it passed, and those
it read, exist, and each it still expects was due when it began (`DueInTime`,
which is where whole intervals and ends of months are reasoned about); and that
a cashier marks a period that exists (`MarksKnown`). The payment of several
periods rests on `GreedyAddsUp`: shares taken one after the other, each at most
what its period owes, add up to the amount to the last unit. It and
`RankExists`, the pairing of the i-th period paid with the i-th free row, are
proved by a least counterexample among the natural numbers (`LeastNumber`).

### Assistant
`pending` are the rows of `ai_pending_actions`, `message` the requests to
/ai/chat, `tool` the tool call each is in, `facts` versions of what a summary
shows, `performed` and `by` history.

| Action | Code |
| --- | --- |
| `Send`, `Repeat`, `End` | a message; the same request again; its answer, or a lost connection |
| `StartPrepare`, `Save` | prepare, supersede what waits, with the unique index of one PENDING per user |
| `StartConfirm`, `Check` | the row is found `FOR UPDATE`; expired, of another tool, of this request, not confirmed by this text |
| `Execute`, `Undo`, `GiveUp` | the operation and EXECUTED in one transaction; roll back; give it up when its data changed, or when the sale or purchase built of it no longer validates: EXPIRED, committed |
| `Lapse`, `ChangeFacts` | time to live; somebody else's change |

Two chats, three messages, two prepared operations: a yes needs a question
before it and a rival beside it. Which tools the model calls is left open, so
the properties do not trust it.

`KeepsItsWord` is the refinement of `Consent`, where there are no messages,
tools, locks or snapshots: one offer waits at a time and a new one drops it; an
offer is done once, after a yes, and if it archives or corrects, only while its
subject is as it was shown; what was done or dropped is over; a yes is not taken
back. The mapping reads the life of an offer off its row and `performed`
(`lifeOf`), and the yes off the messages (`agreedTo`).

`AgentProofs`: `AssistantTypes`, `OperationsHappenOnce`, `YesMeansThisOne`,
`ShownIsCorrected`, `WordIsKept`, for any number of chats, messages and operations.
`AssistantInv` adds that a row found stays PENDING while it is held (`RowsHeld`),
that the turns of a chat follow each other (`TurnsFollow`), that a checked yes
stays one (`YesStands`), that what was read under a lock is pinned
(`ReadsStand`), and who performed what (`Performers`). The refinement needs
besides that a prepare tool saves what was so when it read it (`SavesRead`), and
that rows and messages, once there, say the same for ever (`RowsStay`,
`SentStays`).
`YesAnswersItsSummary` is stated for summaries whose triggering text is not the
text of a rival chat (`Unmistakable`), see section 10.

### Seller orders
`cart` is the column of the conversation, with its `operation_id`, the last order
and the order it amends; `orders` are the rows of `sales_agent_orders`; `turn` is
what a call of a tool read or is about to write, `clerk` what a request of the
shop read and is about to do, `live` the tickets that are not annulled. A
purchase is what a customer puts into an empty cart and changes from then on: no
column keeps it, and the property is about it. `held`, what an order held when it
was taken, and `raced`, that an order was linked since a request read it, are
history.

| Action | Code |
| --- | --- |
| `ReadCart`, `WriteItems`, `WriteCart`, `LeaveCart`, `ForgetCart` | a tool reads the column, works, writes it whole, or refuses; the cart expires or the customer starts over |
| `RecordOrder` | close: insert unless the `operation_id` is there, then empty the cart |
| `AmendOrder`, `ReopenOrder`, `CancelOrder` | amend, take back or cancel the last order, each conditional on `pending` without ticket |
| `ReadOrder`, `CheckStatus`, `UpdateStatus` | `updateStatus`: read, look the ticket up, update if the status is the one read |
| `ReadToLink`, `CheckLink`, `LinkTicket` | `linkTicket`: read, look both tickets up, update without condition |
| `AnnulTicket` | the POS annuls a ticket |

A tool may stop between the row and the cart, so that the cart still holds what
was closed. `CheckLink` makes one instant of three queries on tickets. Left out:
what the products are, requests, follow-ups, takeover, the Telegram worker, and
what a customer may set on a cart that amends an order beyond its items.

Two turns, two clerks, two wishes, two tickets, three orders; `SellerSmall`
keeps two steps in flight at a time and says which pairs meet where. Two turns on
one cart make a repeated closing and a stale write, a turn and a clerk an
amendment against a taking, two clerks a link against a return.

`AgentProofs`, for any number of turns, clerks, tickets and orders:
`SellerTypes`, `OneOrderEach`, `TicketsFit`, `LiveTicketsKept`.
`OneOrderPerPurchase` is not inductive: a copy of a cart in some turn could close
what another copy closed. `SellerInv` adds that copies of a purchase that is not
an order yet have one operation id (`OneOpPerPurchase`), that the order of a
purchase that a cart still holds has that id (`OrderOfItsCart`), so that the
second insert finds the first, and that ids are there to compare (`OpsKnown`).
`TicketFitsOrder` and `KeepsLiveTicket` need what a request of the shop carries
(`ErrandsKnow`): an order that exists and a change of state that is allowed; and
that a request that will take an order out of its ticket has found no live one,
unless the order was linked since (`LinksStand`, of which annulments only make
more true). `OneClerkKeepsTickets` assumes that requests of the shop do not overlap
(one clerk) and proves that an order then never leaves a live ticket: with `raced`
excluded by the assumption and not by the property.

## 8. Mutants, and what is only model-checked

Each property has a mutant: the definition a plausible bug would change (a
filter on `is_voided`, a clamp, a lock, a second look, a snapshot) and the form it
would take. The operators are next to the ones they change and are marked
`Mutant:` in comments; TLC finds the property violated with each.

Every invariant and action property of a passing run is a theorem, and so are the
three refinements. Only liveness, `EveryCallEnds` and `SweepSettles`, is
model-checked alone: fairness and ENABLED are out of the prover's reach. What both
need besides fairness is proved (`NobodyIsStuck`, `RetriesRunOut`,
`SweepKeepsAndSettles`). The type invariants of the four parts of `BackOffice`, and
of `Billing` and `Purchases`, are theorems that the runs do not repeat.
`CorrectsWhatWasShown` (`ShownIsCorrected`) is not in a run of its own because
`KeepsItsWord` says more.

Theorems assume no more of the constants than the named assumption of their module,
which TLC evaluates on every run, with these exceptions, each a condition that
says which behaviours are excluded: the shapes of section 3 (`SaleLedger`,
`OnlyRefundsOverpay` among them), one clerk (`OneClerkKeepsTickets`), and no edit of
packagings, recipes and shapes (`SettledReturnsAreExact`). Each of them is proved
beside a theorem or a run that says what happens without the condition.

## 9. Where the code and its documentation disagree

Each has a run that finds the counterexample; PROJECT.json quotes the lines.

1. **Refund, then annulment** (`ClaimPayOut`). An edit refunds without touching
   the payment rows, and the annulment returns them in full. Without refunds it
   cannot happen, whatever else does (`OnlyRefundsOverpay`).
2. **The same key twice** (`ClaimKey`). The key of close-cash is looked up once,
   outside the transaction; two calls that overlap both close.
   `pos-data.controller.ts:151` says a retry does not duplicate the closing, which is
   true of a retry that starts after the first call ended (`LateRetriesOnlyRepeat`).
3. **A second attempt on a declined link** (`ClaimSweep`). A comment of
   `apply-wompi-transaction` (53-55) says the sweep retries an approved transaction
   that could not be applied, because its id was noted. The sweep takes pending
   payments alone (`billing.scheduler.ts:67`): after a declined attempt on the same
   link the payment is not pending any more.
4. **A reception after an archival** (`ClaimReceive`). A reception looks at the
   status without a lock; the purchase can be received or archived before its
   stock is written, and the goods come in twice or for nothing.

## 10. Seen while modelling

Behaviours of the code met on the way, without a run of their own, because no
text of the repository states the contrary of the states modelled, or because
they are outside of the models.

Sales and treasury:
* Change given by a collection or by a payment of POST /sales stays in the row:
  the register gets the gross tender (`apply-sale-payment.ts:185` and 389);
  `void-sale` gives back the net, which its comment (444-446) takes for what came
  in. POST /sales counts the gross as paid (`create-sale.action.ts:336`) and does
  not check that the change is at most the tender.
* `collect-sale-balance.action.ts:103` asks for `sale.total` of an edited sale;
  `recompute-sale-settlement.ts:109-111` explains why that is wrong.
* When the system balance is below the base and cash is over, the whole overage
  leaves and the register stays below its base (`close-cash.dto.ts:17`).
* An instalment is accepted on the credit of an annulled sale
  (`process-credit-payment.action.ts:176` never looks at the sale); it is
  SERIALIZABLE without a retry (173).
* A debit note charged to a register writes a payment on account 0
  (`update-sale.action.ts:1162`), which `delete-sale-payment` cannot resolve.
* Reassigning a sale paid by advance loses the customer its annulment would
  refund; reassigning a credit sale leaves the credit with the old one.
* Editing a loan writes notes, while annulling a loan returns its original lines.
* An edit that empties a sale deletes it without a VOIDED event.
* The checkout of an order asks for the whole total again, whatever was paid when
  the order was placed, and leaves the credit opened then.
* The class comment of `void-sale` (73-77) says transfers are ignored; they are
  returned (463-487).
* Replaying a closing that an administrator made on an employee's register
  answers the administrator's balance (`close-cash.action.ts:756`).
* Adjustments of accounts run at the default isolation.

Purchases:
* An edit that lowers the total refunds the excess and keeps the payment rows, so
  a later archival refunds it again (`UneditedPurchasesRepayExactly` excludes only this).
* A freight of which a cent is left is PAID (`process-carrier-payment.action.ts:46`,
  187) and disappears from the list of what is owed to the carrier, although the
  cent can still be paid. The models count whole units.
* Removing or changing the carrier of a freight that has payments fails on the
  foreign key (`update-purchase.action.ts:1047-1066`).
* `force_stock_adjustment` of an edit is never passed on
  (`dto/update-purchase.dto.ts:93`); the override of an archival takes stock below
  zero (`archive-purchase.action.ts:77-78`).
* The unique violation of a payment uuid is caught inside the transaction it
  aborted (`apply-purchase-payment.ts:217-233`).
* Archiving a carrier reads its debts without locks.

Inventory:
* A debit note does not keep the recipe of a combo
  (`update-sale.action.ts:829-847`), although `credit-note-line.entity.ts:229-235`
  and `adjust-inventory.helper.ts:48-52` say that returns give back exactly what was
  taken; its return follows today's recipe.
* More of a line added by a debit note after its packaging was edited is returned
  under the first factor.
* The parent and the type of a product are not frozen.
* The form of a product writes an absolute stock, without movement or lock
  (`update-product.action.ts:244-246`); editing a packaging does not re-cost.
* Two overlapping receptions can leave the cost of a combo stale
  (`recalculate-product-costs` 448-503).

Fixed expenses and the assistant:
* Voiding the expense that paid a period gives the money back and leaves the
  period paid. Nothing creates periods if nobody visits.
* A run that read the expense before an edit inserts periods of the old schedule.
* The same text in two tabs makes a yes in one answer the summary of the other
  (`Unmistakable`); `same_request` only looks at rows still PENDING.
* A confirmation that waited for a row that a rival superseded answers that there
  is nothing to confirm.

Sales agent (`sales-agent-orders.service.ts`):
* The comment of `updateStatus` (418-419) says that its condition on the status
  keeps a concurrent change; a link from taken to taken leaves the status as it
  was, so a return to pending that read before drops a live link. `KeepsLiveTicket`
  names that case (`raced`) and excludes every other.
* `linkTicket` updates without a condition (487-496): an order that the customer
  cancelled since it was read is taken, and `cancelled_by_customer` stays.
* An order can be amended between "Llevar al POS" and the link; the ticket then
  has what was taken to the POS, the order what was amended.
* Closing again with the same `operation_id` answers the first order, whatever the
  cart holds by then; an append to a session can restore a cart.

Not modelled, read only:
* Product images: a restore during a purge, a crash between the deletion of a
  file and of its reference, orphans of concurrent uploads.

## 11. Not modelled

PROJECT.json says it for each component. Of the modelled ones:
* **Sales**: idempotent replay of requests (`uuid`, `client_operation_id`),
  statement-level failures inside an aborted transaction, strict stock (in
  `Inventory`), cents, folios.
* **Treasury**: changes of `base_amount`, archiving of accounts, creation of a
  register by two first operations.
* **Billing, Purchases, Inventory, FixedExpenses, Assistant, SellerOrders**: see
  their sections.
  The average cost, and the recalculation of costs by receptions, are planned.
* **Restaurant, auth, lending**: planned, in this order of value: one-time tokens,
  tables, loans.
* **Sales agent** outside of carts and orders: follow-ups, takeover, the Telegram
  worker.
* Reports, dashboard, mail, alerts, push, realtime, settings, catalogue data:
  read-only queries or output without state of their own.
* Migration import and backups: one-off conversions and I/O.
