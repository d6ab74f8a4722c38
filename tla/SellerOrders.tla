---------------------------- MODULE SellerOrders ----------------------------
(***************************************************************************)
(* One conversation of the sales agent with a customer, and the orders it  *)
(* leaves in the tray of the shop.                                         *)
(*                                                                         *)
(* The cart is a JSON column: every tool of the agent reads it, works, and *)
(* writes it whole; nothing locks it, and WhatsApp delivers each message   *)
(* to a handler of its own.  A turn is one call of a tool.  The orders are *)
(* rows, changed by single statements; a clerk of the shop changes the     *)
(* state of one, or links it to the ticket that the POS registered from    *)
(* it, reading first and updating later.  The row of an order stands for   *)
(* its operation_id, its id and its reference.                             *)
(*                                                                         *)
(* A purchase is what a customer puts into an empty cart and changes from  *)
(* then on, an identity no table keeps.                                    *)
(***************************************************************************)
EXTENDS Integers, FiniteSets

CONSTANTS
    Turns,       \* tool calls of the conversation that overlap
    Clerks,      \* requests of the shop that overlap
    Wishes,      \* what a cart may hold, when it holds something
    Tickets,     \* tickets of the POS, registered and not annulled at first
    Nothing,     \* what an empty cart holds
    NoTicket,
    MaxOrders    \* bound: operation ids and purchases known at a time

ASSUME SellerAssumption == Nothing \notin Wishes /\ NoTicket \notin Tickets /\ MaxOrders \in Nat

Orders == 1..MaxOrders
NoOrder == 0
NoPurchase == 0

VARIABLES
    cart,      \* column cart of the conversation
    orders,    \* rows of sales_agent_orders
    turn,      \* what each tool call read, or is about to write
    clerk,     \* what each request of the shop read, and is about to do
    live       \* tickets that are not annulled

sellerVars == <<cart, orders, turn, clerk, live>>

-----------------------------------------------------------------------------
NoCart == [op |-> NoOrder, items |-> Nothing, last |-> NoOrder, amends |-> NoOrder,
           purchase |-> NoPurchase]

SellerCart == [op : Orders \cup {NoOrder}, items : Wishes \cup {Nothing},
               last : Orders \cup {NoOrder}, amends : Orders \cup {NoOrder},
               purchase : Orders \cup {NoPurchase}]

\* `held` is what the order held when a person took it (history).
NoRow == [status |-> "none", items |-> Nothing, ticket |-> NoTicket, purchase |-> NoPurchase,
          held |-> Nothing]

OrderRow == [status : {"none", "pending", "taken", "dismissed"}, items : Wishes \cup {Nothing},
             ticket : Tickets \cup {NoTicket}, purchase : Orders \cup {NoPurchase},
             held : Wishes \cup {Nothing}]

NoTurn == [step |-> "idle", cart |-> NoCart]

\* `raced` says that the order was linked since the request read it (history).
NoErrand == [step |-> "idle", order |-> NoOrder, status |-> "none", was |-> NoTicket,
             to |-> "none", ticket |-> NoTicket, raced |-> FALSE]

Errand == [step : {"idle", "check", "update"}, order : Orders \cup {NoOrder},
           status : {"none", "pending", "taken", "dismissed"}, was : Tickets \cup {NoTicket},
           to : {"none", "pending", "taken", "dismissed"}, ticket : Tickets \cup {NoTicket},
           raced : BOOLEAN]

SellerTypeOK ==
    /\ cart \in SellerCart
    /\ orders \in [Orders -> OrderRow]
    /\ turn \in [Turns -> [step : {"idle", "read", "write"}, cart : SellerCart]]
    /\ clerk \in [Clerks -> Errand]
    /\ live \subseteq Tickets

SellerInit ==
    /\ cart = NoCart
    /\ orders = [o \in Orders |-> NoRow]
    /\ turn = [t \in Turns |-> NoTurn]
    /\ clerk = [c \in Clerks |-> NoErrand]
    /\ live = Tickets

-----------------------------------------------------------------------------
Least(S, n) == n \in S /\ \A m \in S : n <= m

CartsAround == {cart} \cup {turn[t].cart : t \in Turns}

\* A random operation_id: one that nothing mentions.
UnusedOps == {o \in Orders : orders[o] = NoRow /\ \A c \in CartsAround : c.op # o}

\* A purchase that nothing mentions.
UnusedPurchases ==
    {p \in Orders : /\ \A c \in CartsAround : c.purchase # p
                    /\ \A o \in Orders : orders[o].purchase # p}

\* A tool call reads the cart; without one, or with one that expired, it goes
\* on with an empty one.
ReadCart(t, o) ==
    /\ turn[t].step = "idle" /\ Least(UnusedOps, o)
    /\ turn' = [turn EXCEPT ![t] =
                  [step |-> "read", cart |-> IF cart = NoCart THEN [NoCart EXCEPT !.op = o]
                                             ELSE cart]]
    /\ UNCHANGED <<cart, orders, clerk, live>>

\* The purchase a cart is about, once it holds w.
PurchaseOf(c, w, p) ==
    IF c.amends # NoOrder THEN c.purchase
    ELSE IF w = Nothing THEN NoPurchase
    ELSE IF c.items = Nothing THEN p
    ELSE c.purchase

\* A product is set or taken out, delivery details are noted, or a closing
\* finds that prices changed: the cart that was read is written with w.
WriteItems(t, w, p) ==
    LET c == turn[t].cart IN
    /\ turn[t].step = "read" /\ Least(UnusedPurchases, p)
    /\ cart' = [c EXCEPT !.items = w, !.purchase = PurchaseOf(c, w, p)]
    /\ turn' = [turn EXCEPT ![t] = NoTurn]
    /\ UNCHANGED <<orders, clerk, live>>

\* The second half of a tool that changed or read a row in between.
WriteCart(t) ==
    /\ turn[t].step = "write"
    /\ cart' = turn[t].cart
    /\ turn' = [turn EXCEPT ![t] = NoTurn]
    /\ UNCHANGED <<orders, clerk, live>>

\* A tool refuses, a statement fails, or the process stops.
LeaveCart(t) ==
    /\ turn[t].step # "idle"
    /\ turn' = [turn EXCEPT ![t] = NoTurn]
    /\ UNCHANGED <<cart, orders, clerk, live>>

\* The cart expires, or the customer starts over.
ForgetCart ==
    /\ cart # NoCart
    /\ cart' = NoCart
    /\ UNCHANGED <<orders, turn, clerk, live>>

-----------------------------------------------------------------------------
\* Goes on to write c.
ThenWrites(t, c) == turn' = [turn EXCEPT ![t] = [step |-> "write", cart |-> c]]

\* What a closing leaves: no items, the order just placed, a new operation_id.
Emptied(o, next) == [NoCart EXCEPT !.op = next, !.last = o]

\* A cart that no longer amends an order lets go of what it took from it.
\* Mutant: the items stay in the cart.
ReleasedKeepingItems(c) == [c EXCEPT !.amends = NoOrder]

Released(c) == IF c.amends = NoOrder THEN c
               ELSE [c EXCEPT !.items = Nothing, !.amends = NoOrder, !.purchase = NoPurchase]

\* Mutant: the customer's statements do not look at the row.
AlwaysAmendable(o) == TRUE

\* The condition in the statements of the customer.
Amendable(o) == orders[o].status = "pending" /\ orders[o].ticket = NoTicket

\* Closing a new order: the row is inserted unless its operation_id is there.
RecordOrder(t, next) ==
    LET c == turn[t].cart IN
    /\ turn[t].step = "read" /\ c.items # Nothing /\ c.amends = NoOrder
    /\ Least(UnusedOps, next)
    /\ orders' = IF orders[c.op] # NoRow THEN orders
                 ELSE [orders EXCEPT ![c.op] =
                         [NoRow EXCEPT !.status = "pending", !.items = c.items,
                                       !.purchase = c.purchase]]
    /\ ThenWrites(t, Emptied(c.op, next))
    /\ UNCHANGED <<cart, clerk, live>>

\* Closing an amendment: the same row, if nobody took it.
AmendOrder(t, next) ==
    LET c == turn[t].cart
        o == c.amends IN
    /\ turn[t].step = "read" /\ c.items # Nothing /\ o # NoOrder
    /\ Least(UnusedOps, next)
    /\ \/ /\ Amendable(o)
          /\ orders' = [orders EXCEPT ![o].items = c.items]
          /\ ThenWrites(t, Emptied(o, next))
       \/ /\ ~Amendable(o)
          /\ ThenWrites(t, Released(c))
          /\ UNCHANGED orders
    /\ UNCHANGED <<cart, clerk, live>>

\* The last order goes back into an empty cart.
ReopenOrder(t) ==
    LET c == turn[t].cart
        o == c.last IN
    /\ turn[t].step = "read" /\ c.items = Nothing /\ o # NoOrder /\ c.amends # o
    /\ orders[o].status = "pending" /\ orders[o].ticket \notin live
    /\ ThenWrites(t, [c EXCEPT !.items = orders[o].items, !.amends = o,
                               !.purchase = orders[o].purchase])
    /\ UNCHANGED <<cart, orders, clerk, live>>

\* The customer cancels the last order.
CancelOrder(t) ==
    LET c == turn[t].cart
        o == c.last IN
    /\ turn[t].step = "read" /\ o # NoOrder /\ Amendable(o)
    /\ orders' = [orders EXCEPT ![o].status = "dismissed"]
    /\ ThenWrites(t, Released(c))
    /\ UNCHANGED <<cart, clerk, live>>

-----------------------------------------------------------------------------
Transitions == {<<"pending", "taken">>, <<"pending", "dismissed">>, <<"taken", "pending">>,
                <<"dismissed", "pending">>}

\* Mutant: a ticket that is not annulled does not hold its order back.
NeverHeld(o) == FALSE

\* The order is in a ticket that was not annulled.
HeldByTicket(o) == orders[o].ticket \in live

\* Mutant: the update names the row alone.
AlwaysStands(c) == TRUE

\* The update is conditional on the state that was read.
StatusStands(c) == orders[clerk[c].order].status = clerk[c].status

EndErrand(c) == clerk' = [clerk EXCEPT ![c] = NoErrand]

\* What an order held when it was taken, once its state is s.
HeldAfter(o, s) ==
    IF s # "taken" THEN Nothing
    ELSE IF orders[o].status = "taken" THEN orders[o].held ELSE orders[o].items

\* updateStatus reads the order; its ticket is looked up by another query.
ReadOrder(c, o, to) ==
    /\ clerk[c].step = "idle" /\ <<orders[o].status, to>> \in Transitions
    /\ clerk' = [clerk EXCEPT ![c] =
                   [NoErrand EXCEPT !.step = IF orders[o].ticket = NoTicket THEN "update"
                                             ELSE "check",
                                    !.order = o, !.status = orders[o].status,
                                    !.was = orders[o].ticket, !.to = to]]
    /\ UNCHANGED <<cart, orders, turn, live>>

CheckStatus(c) ==
    /\ clerk[c].step = "check" /\ clerk[c].to # "none"
    /\ IF clerk[c].to = "pending" /\ HeldByTicket(clerk[c].order)
       THEN EndErrand(c)
       ELSE clerk' = [clerk EXCEPT ![c].step = "update"]
    /\ UNCHANGED <<cart, orders, turn, live>>

\* Back to pending, the link is dropped.
UpdateStatus(c) ==
    LET o == clerk[c].order
        to == clerk[c].to IN
    /\ clerk[c].step = "update" /\ to # "none"
    /\ orders' = IF ~StatusStands(c) THEN orders
                 ELSE [orders EXCEPT ![o].status = to, ![o].held = HeldAfter(o, to),
                         ![o].ticket = IF to = "pending" THEN NoTicket ELSE @]
    /\ EndErrand(c)
    /\ UNCHANGED <<cart, turn, live>>

\* linkTicket reads the order, which may already have this ticket.
ReadToLink(c, o, k) ==
    /\ clerk[c].step = "idle" /\ orders[o] # NoRow /\ orders[o].ticket # k
    /\ clerk' = [clerk EXCEPT ![c] =
                   [NoErrand EXCEPT !.step = "check", !.order = o, !.status = orders[o].status,
                                    !.was = orders[o].ticket, !.ticket = k]]
    /\ UNCHANGED <<cart, orders, turn, live>>

\* An order with a live ticket keeps it; the ticket is alive and nobody's.
CheckLink(c) ==
    LET o == clerk[c].order
        k == clerk[c].ticket IN
    /\ clerk[c].step = "check" /\ k # NoTicket
    /\ IF \/ clerk[c].was # NoTicket /\ HeldByTicket(o)
          \/ k \notin live
          \/ \E q \in Orders : orders[q].ticket = k
       THEN EndErrand(c)
       ELSE clerk' = [clerk EXCEPT ![c].step = "update"]
    /\ UNCHANGED <<cart, orders, turn, live>>

\* The link, whatever the state of the order; a unique index keeps a ticket
\* from a second order.
LinkTicket(c) ==
    LET o == clerk[c].order
        k == clerk[c].ticket
        links == \A q \in Orders \ {o} : orders[q].ticket # k IN
    /\ clerk[c].step = "update" /\ k # NoTicket
    /\ orders' = IF ~links THEN orders
                 ELSE [orders EXCEPT ![o].status = "taken", ![o].ticket = k,
                                     ![o].held = HeldAfter(o, "taken")]
    /\ clerk' = [d \in Clerks |->
                   IF d = c THEN NoErrand
                   ELSE IF links /\ clerk[d].order = o THEN [clerk[d] EXCEPT !.raced = TRUE]
                   ELSE clerk[d]]
    /\ UNCHANGED <<cart, turn, live>>

\* The shop annuls a ticket.
AnnulTicket(k) ==
    /\ k \in live
    /\ live' = live \ {k}
    /\ UNCHANGED <<cart, orders, turn, clerk>>

SellerNext ==
    \/ \E t \in Turns, o \in Orders : ReadCart(t, o) \/ RecordOrder(t, o) \/ AmendOrder(t, o)
    \/ \E t \in Turns, w \in Wishes \cup {Nothing}, p \in Orders : WriteItems(t, w, p)
    \/ \E t \in Turns : WriteCart(t) \/ LeaveCart(t) \/ ReopenOrder(t) \/ CancelOrder(t)
    \/ ForgetCart
    \/ \E c \in Clerks, o \in Orders, s \in {"pending", "taken", "dismissed"} :
          ReadOrder(c, o, s)
    \/ \E c \in Clerks, o \in Orders, k \in Tickets : ReadToLink(c, o, k)
    \/ \E c \in Clerks : CheckStatus(c) \/ UpdateStatus(c) \/ CheckLink(c) \/ LinkTicket(c)
    \/ \E k \in Tickets : AnnulTicket(k)

SellerSpec == SellerInit /\ [][SellerNext]_sellerVars

-----------------------------------------------------------------------------
\* However the turns of a conversation overlap, repeat a closing or stop half
\* way, one purchase never becomes two orders in the tray: what was closed is
\* found by its operation_id, and a cart lets go of the items it took back from
\* an order before it can close as a new one.
OneOrderPerPurchase ==
    \A o, q \in Orders : orders[o] # NoRow /\ orders[q] # NoRow
                         /\ orders[o].purchase = orders[q].purchase => o = q

\* Only a taken order has a ticket: the row of a pending or a dismissed one
\* names none, whoever moved it there.  (That an order keeps the ticket it
\* was given is KeepsLiveTicket: a raced request drops it, and the order waits
\* in the tray again.)  And an order that a person has taken holds what it held
\* then, whatever the customer confirms meanwhile.
TicketFitsOrder ==
    \A o \in Orders : /\ orders[o].ticket # NoTicket => orders[o].status = "taken"
                      /\ orders[o].status = "taken" => orders[o].items = orders[o].held

\* An order leaves a ticket that was not annulled only by the hand of a request
\* that had read the order before it was linked to that ticket.
KeepsLiveTicket ==
    [][\A o \in Orders :
          orders[o].ticket \in live /\ orders'[o].ticket # orders[o].ticket
          => \E c \in Clerks : /\ clerk[c].order = o /\ clerk[c].step = "update"
                               /\ clerk[c].raced /\ clerk'[c] = NoErrand]_sellerVars
=============================================================================
