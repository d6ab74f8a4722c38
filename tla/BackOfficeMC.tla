---------------------------- MODULE BackOfficeMC ----------------------------
(***************************************************************************)
(* Fixed expenses, stock, the assistant and the orders of the sales agent  *)
(* in one run.  They share no variable, so a behaviour moves one of them   *)
(* and leaves the others at rest: `focus` is the one that moves, and the   *)
(* states of the four instances add instead of multiplying.                *)
(***************************************************************************)
EXTENDS FixedExpenses, Assistant, Inventory, SellerOrders, TLC

CONSTANTS Foci     \* parts that the run moves

VARIABLE focus

ScheduleRows ==
    {[unit |-> "legacy", every |-> 1, start |-> 0],
     [unit |-> "semimonthly", every |-> 1, start |-> 1]}

\* Two base products, a presentation of two units of the first, and a combo of
\* one unit of each.
ProductIds == 1..4

Mix(a, b) == [p \in ProductIds |-> CASE p = 1 -> a [] p = 2 -> b [] OTHER -> 0]

ProductRows ==
    [p \in ProductIds |->
        [type |-> IF p = 4 THEN "COMBO" ELSE "SIMPLE", parent |-> IF p = 3 THEN 1 ELSE 0,
         factor |-> IF p = 3 THEN 2 ELSE 1, recipe |-> IF p = 4 THEN Mix(1, 1) ELSE Mix(0, 0)]]

RecipeRows == {Mix(1, 1), Mix(0, 2)}

BackOfficeInit ==
    /\ focus \in Foci
    /\ FixedInit /\ AssistantInit /\ InventoryInit /\ SellerInit
    /\ fixed.amount = Max(Charges)
    /\ focus # "fixed expenses" => fixed.schedule = SyncIdle.schedule

BackOfficeNext ==
    \/ /\ focus = "fixed expenses" /\ FixedNext
       /\ UNCHANGED <<focus, assistantVars, inventoryVars, sellerVars>>
    \/ /\ focus = "assistant" /\ AssistantNext
       /\ UNCHANGED <<focus, fixedVars, inventoryVars, sellerVars>>
    \/ /\ focus = "inventory" /\ InventoryNext
       /\ UNCHANGED <<focus, fixedVars, assistantVars, sellerVars>>
    \/ /\ focus = "sales agent" /\ SellerNext
       /\ UNCHANGED <<focus, fixedVars, assistantVars, inventoryVars>>

BackOfficeSpec ==
    BackOfficeInit /\ [][BackOfficeNext]_<<focus, fixedVars, assistantVars,
                                           inventoryVars, sellerVars>>

-----------------------------------------------------------------------------
\* The runs, the chats, the sales, the turns and the clerks that overlap have the
\* same names.
Interchangeable == Permutations(Chats)

\* Bound: payments of fixed expenses are followed once the time is over, while
\* no synchronisation runs and the expense is as it was created; an archived
\* one was not edited.
PaymentsSeen ==
    \/ \E o \in Outlays : outlay[o] # NoOutlay
    \/ \E c \in Cashiers : marking[c] # NotMarking

FixedSmall ==
    /\ fixed.archived => changes = 0
    /\ PaymentsSeen => /\ \A s \in Syncs : sync[s].step = "idle"
                       /\ ~cooling /\ ~fixed.archived /\ changes = 0
                       /\ clock = Horizon

\* Bound: two messages and two tool calls at a time, the first message asks,
\* the first operation is a void, and one lapse, change of data or lost answer
\* in all.
AssistantSmall ==
    /\ Cardinality({m \in Messages : message[m].state = "open"}) <= 2
    /\ Cardinality({m \in Messages : tool[m].step # "none"}) <= 2
    /\ Cardinality({o \in Prepared : pending[o].expired})
         + Cardinality({k \in Operations : facts[k] > 0})
         + Cardinality({m \in Messages : message[m].state = "cut"}) <= 1
    /\ message[1] # NotSent => message[1].text # Yes
    /\ pending[1] # NotPrepared => pending[1].kind = "void"

\* Bound: stocks near zero, one unit in a second line and
\* in what an edit adds, no edit after a forced
\* sale; a line whose product changed its shape rests.
InventorySmall ==
    /\ \A p \in Products : onHand[p] \in -2..4
    /\ \A l \in Lines : /\ line[l].shaken => ~Busy(l)
                       /\ l > 1 => line[l].quantity <= 1
    /\ \A c \in Transactions : trade[c].added # NoLine => trade[c].take = 1
    /\ forced => catalogueEdits = 0

\* Bound: two steps of the conversation or of the shop at a time.  Two overlap
\* in the conversation while no order was taken; one of each meet on one order;
\* two requests of the shop meet on one order while the cart rests, or on
\* several that are being linked.  A new cart holds one kind of item, `first`,
\* and what a customer changes it into matters to orders that are taken.
SellerSmall ==
    LET T == {t \in Turns : turn[t] # NoTurn}
        C == {c \in Clerks : clerk[c] # NoErrand}
        Rows == {o \in Orders : orders[o] # NoRow}
        off == {o \in Rows : orders[o].status = "dismissed"}
        untouched == live = Tickets /\ \A o \in Rows : orders[o].status # "taken"
        first == CHOOSE w \in Wishes : TRUE
        plain == \A h \in CartsAround \cup {orders[o] : o \in Rows} :
                    h.items \in {Nothing, first}
    IN  /\ Cardinality(T) + Cardinality(C) <= 2
        /\ Cardinality(T) = 2 => untouched /\ plain
        /\ Cardinality(T) = 2 /\ off # {} => Cardinality(Rows) <= 1
        /\ C # {} /\ Cardinality(Rows) > 1 =>
              /\ T = {} /\ cart = NoCart /\ live = Tickets /\ off = {} /\ plain
              /\ \A c \in C : clerk[c].ticket # NoTicket
        /\ Cardinality(C) = 2 => cart = NoCart /\ plain
        /\ live # Tickets => T = {} /\ cart = NoCart
        /\ off # {} => C = {} \/ cart = NoCart
        /\ \A c \in CartsAround : c.amends = NoOrder =>
              c.items = Nothing \/ (c.items = first /\ C = {} /\ untouched)

BackOfficeSmall ==
    CASE focus = "assistant" -> AssistantSmall
      [] focus = "inventory" -> InventorySmall
      [] focus = "sales agent" -> SellerSmall
      [] OTHER -> FixedSmall
=============================================================================
