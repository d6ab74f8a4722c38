SPECIFICATION Spec
CONSTANTS
    Sales = {s1}
    Customers = {ana}
    Actors = {caja1}
    Banks = {banco}
    Wallets = {}
    NoCustomer = NoCustomer
    NoAccount = NoAccount
    MaxUnits = 2
    MaxDebits = 1
    MaxTender = 2
    MaxPayments = 2
    Opening = 1
    OpeningAdvance = 1
    Requests = {"inline", "change", "collectEdited", "refund", "reassign", "loanEdit", "lateInstalment"}
INVARIANTS
    TypeOK
    CreditRowConsistent
    BalancesMatchMovements
    FullVoidEmptiesSale
\* A counter may close with nothing left to do.
CHECK_DEADLOCK FALSE
