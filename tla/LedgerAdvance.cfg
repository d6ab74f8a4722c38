SPECIFICATION Spec
CONSTANTS
    Sales = {s1, s2}
    Customers = {ana, luis}
    Actors = {caja1}
    Banks = {banco}
    Wallets = {}
    NoCustomer = NoCustomer
    NoAccount = NoAccount
    MaxUnits = 1
    MaxDebits = 0
    MaxTender = 1
    MaxPayments = 3
    Opening = 0
    OpeningAdvance = 1
    Requests = {"inline", "lateInstalment"}
INVARIANTS
    AdvanceConserved
\* A counter may close with nothing left to do.
CHECK_DEADLOCK FALSE
SYMMETRY Symmetry
