--------------------------- MODULE TreasuryClaims ---------------------------
(***************************************************************************)
(* What the documentation of POST /pos-data/close-cash says and its        *)
(* operations do not keep.                                                 *)
(***************************************************************************)
EXTENDS TreasuryMC

\* pos-data.controller: "un reintento (por timeout de red) NO duplica el
\* cierre", so a key closes once, however its calls interleave.
KeyClosesOnce == \A k \in Keys : keyed[k].times <= 1
=============================================================================
