SPECIFICATION Spec
CONSTANTS
    Sales = {s1}
    Customers = {ana}
    Actors = {caja1}
    Banks = {banco}
    Wallets = {}
    NoCustomer = NoCustomer
    NoAccount = NoAccount
    MaxUnits = 2
    MaxDebits = 1
    MaxTender = 2
    MaxPayments = 2
    Opening = 2
    OpeningAdvance = 1
    Requests = {"refund"}
INVARIANTS
    NeverPaysOutMoreThanCollected
\* A counter may close with nothing left to do.
CHECK_DEADLOCK FALSE
