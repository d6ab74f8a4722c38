-------------------------- MODULE SaleLedgerClaims --------------------------
(***************************************************************************)
(* What a comment of the sales modules says of a sale and its operations   *)
(* do not keep, read as a formula over the tables of SaleLedger.           *)
(***************************************************************************)
EXTENDS SaleLedger

\* void-sale: returning again the money of a payment "descuadraria la
\* caja/banco": a sale never pays out more than it took in.
NeverPaysOutMoreThanCollected == \A s \in Sales : received[s] >= 0
=============================================================================
