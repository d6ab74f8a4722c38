---------------------------- MODULE SaleContract ----------------------------
(***************************************************************************)
(* What a shop is promised of a sale, whatever notes, tenders, credits and *)
(* reversals bring it about: it is ordered, lent or sold, and annulled     *)
(* once; the goods out of the shop are its value while it is lent or sold; *)
(* and no payment takes more than the value.                               *)
(*                                                                         *)
(* Nothing here says that a step must happen: every one is a decision of   *)
(* the people at the counter.                                              *)
(***************************************************************************)
EXTENDS Naturals

CONSTANTS
    Sales,
    Values    \* what a sale can be worth, 0 among them

VARIABLES
    phase,   \* where the sale is in its life
    value,   \* what it is worth now, in units of goods
    goods,   \* units of it out of the shop
    paid     \* money the shop holds for it

cvars == <<phase, value, goods, paid>>

CInit ==
    /\ phase = [s \in Sales |-> "none"]
    /\ value = [s \in Sales |-> 0]
    /\ goods = [s \in Sales |-> 0]
    /\ paid = [s \in Sales |-> 0]

Move(s, to, v, g, p) ==
    /\ phase' = [phase EXCEPT ![s] = to]
    /\ value' = [value EXCEPT ![s] = v]
    /\ goods' = [goods EXCEPT ![s] = g]
    /\ paid' = [paid EXCEPT ![s] = p]

\* Placing an order, and replacing its lines.
Place(s) ==
    /\ phase[s] \in {"none", "order"}
    /\ \E v \in Values \ {0} : Move(s, "order", v, 0, 0)

Lend(s) ==
    /\ phase[s] = "order"
    /\ Move(s, "loan", value[s], value[s], 0)

\* What is not paid at the counter is left on credit.
Sell(s) ==
    /\ phase[s] \in {"order", "loan"}
    /\ \E p \in 0..value[s] : Move(s, "sale", value[s], value[s], p)

\* A collection or an instalment: within what the sale is worth.
Pay(s) ==
    /\ phase[s] = "sale"
    /\ \E p \in 0..value[s] : p > paid[s] /\ Move(s, "sale", value[s], goods[s], p)

Reverse(s) ==
    /\ phase[s] = "sale"
    /\ \E p \in 0..paid[s] : Move(s, "sale", value[s], goods[s], p)

\* Goods leave and join the sale together with their value; those that join a
\* sale without credit are paid at once.
Adjust(s) ==
    /\ phase[s] = "sale"
    /\ \E v \in Values, d \in Values :
          d <= v /\ Move(s, "sale", v, v, paid[s] + d)

Annul(s) ==
    /\ phase[s] \in {"order", "loan", "sale"}
    /\ Move(s, "void", 0, 0, 0)

CNext == \E s \in Sales :
    \/ Place(s) \/ Lend(s) \/ Sell(s) \/ Pay(s) \/ Reverse(s) \/ Adjust(s) \/ Annul(s)

CSpec == CInit /\ [][CNext]_cvars
=============================================================================
