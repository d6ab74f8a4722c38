---------------------------- MODULE SaleLedgerMC ----------------------------
(***************************************************************************)
(* SaleLedger with two sales and two customers: sales and customers are    *)
(* interchangeable, no operation compares or orders them.                  *)
(***************************************************************************)
EXTENDS SaleLedger, TLC

Symmetry == Permutations(Sales) \cup Permutations(Customers)
=============================================================================
