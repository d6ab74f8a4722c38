---------------------------- MODULE PurchasesMC ----------------------------
(***************************************************************************)
(* Purchases with its symmetries.                                          *)
(***************************************************************************)
EXTENDS Purchases, TLC

Interchangeable ==
    Permutations(Carriers) \cup Permutations(Clerks) \cup Permutations(Uuids)
        \cup Permutations(Accounts)

\* Bound: two purchases, and two requests at a time, are only followed when
\* there is no freight, no sale and single units.
Plain ==
    /\ sold = 0
    /\ \A p \in Purchases : purchase[p].carrier = NoCarrier /\ purchase[p].units <= 1

OneRich ==
    /\ \A p \in Purchases : p > 1 => purchase[p] = NoRow
    /\ Cardinality({c \in Clerks : request[c] # Idle}) <= 1

PlainOrRich == Plain \/ OneRich
=============================================================================
