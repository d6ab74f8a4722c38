\* Fixed expenses: two overlapping runs, three units of time, one edit.
\* Assistant: two chats, three messages, two prepared operations.
\* Inventory: two sales at a time, two lines, one edit of the catalogue.
\* Sales agent: two steps at a time, three orders, two tickets.
SPECIFICATION BackOfficeSpec
CONSTANTS
    Foci = {"fixed expenses", "assistant", "inventory", "sales agent"}
    c1 = c1  c2 = c2
    StrictStock = TRUE
    Syncs = {c1, c2}
    Cashiers = {ana}
    Schedules <- ScheduleRows
    Charges = {1, 2}
    Payable = {3}
    Funds = 3
    MonthLength = 2
    Horizon = 3
    MaxOutlays = 3
    MaxChanges = 1
    Chats = {c1, c2}
    Texts = {"ask", "yes"}
    Yes = "yes"
    Operations = {"sale", "void"}
    MaxMessages = 3
    MaxPrepared = 2
    MaxFacts = 1
    Products <- ProductIds
    Catalogue <- ProductRows
    Recipes <- RecipeRows
    Transactions = {c1, c2}
    Factors = {1, 2}
    CatalogueEdits = {"packaging", "recipe", "shape", "stock"}
    Stocks = {2}
    MaxQuantity = 2
    MaxLines = 2
    MaxCatalogueEdits = 1
    Turns = {c1, c2}
    Clerks = {c1, c2}
    Wishes = {bread, milk}
    Tickets = {k1, k2}
    Nothing = Nothing
    NoTicket = NoTicket
    MaxOrders = 3
CONSTRAINT BackOfficeSmall
SYMMETRY Interchangeable
INVARIANTS
    PeriodsWithoutGaps
    PaymentsAddUp
    PerformedOnce
    YesAnswersItsSummary
    ReturnsWhatItTook
    StockIsItsMovements
    OneOrderPerPurchase
    TicketFitsOrder
PROPERTIES
    FinishedSyncIsComplete
    KeepsItsWord
    KeepsLiveTicket
CHECK_DEADLOCK FALSE
