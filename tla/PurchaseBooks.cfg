\* Two purchases and two overlapping requests, or one purchase with freight,
\* two carriers and lots of two sizes; one edit, one unit sold.
SPECIFICATION PurchasesSpec
CONSTANTS
    s1 = s1  k1 = k1  k2 = k2  a1 = a1  u1 = u1  u2 = u2  c1 = c1  c2 = c2
    Suppliers = {s1}
    Carriers = {k1, k2}
    Accounts = {a1}
    Clerks = {c1, c2}
    Uuids = {u1, u2}
    NoSupplier = NoSupplier
    NoCarrier = NoCarrier
    MaxPurchases = 2
    Amounts = {1, 2}
    Freights = {0, 1, 2}
    Lots = {1, 2}
    Money = 3
    Strict = TRUE
    MaxEdits = 1
    MaxSold = 1
CONSTRAINT PlainOrRich
SYMMETRY Interchangeable
INVARIANTS
    DebtIsCredits
    CreditsFollowPurchase
    MoneyIsPaid
    PaidHasRows
    StockIsReceived
PROPERTIES
    ArchivedTakesNothing
CHECK_DEADLOCK FALSE
