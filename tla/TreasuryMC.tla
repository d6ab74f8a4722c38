----------------------------- MODULE TreasuryMC -----------------------------
(***************************************************************************)
(* Treasury with one register, one bank and one wallet.  RivalShapes has   *)
(* every pair of lock orders the code has, an overage and a shortage       *)
(* closing with a key, and a correction outside SERIALIZABLE.              *)
(***************************************************************************)
EXTENDS Treasury

CONSTANTS caja, banco, billetera, k1, k2

S(kind, from, to, amount, key) ==
    [kind |-> kind, from |-> from, to |-> to, amount |-> amount, key |-> key]

MCShapes ==
    {S("reconcile", caja, banco, 4, k1), S("reconcile", caja, billetera, 1, k2),
     S("close", caja, banco, 1, NoKey),
     S("cashOut", caja, billetera, 2, NoKey),
     S("transfer", billetera, caja, 1, NoKey), S("transfer", banco, billetera, 1, NoKey),
     S("adjust", caja, Nowhere, 3, NoKey), S("withdraw", banco, Nowhere, 2, NoKey),
     S("deposit", billetera, Nowhere, 1, NoKey)}
=============================================================================
