------------------------------- MODULE Totals -------------------------------
(***************************************************************************)
(* Sums of whole numbers over a finite set, counted unit by unit: a sum is *)
(* the cardinality of a set, and what is known of finite sets proves what  *)
(* the books of this code need of sums.                                    *)
(***************************************************************************)
EXTENDS Integers, FiniteSets

\* The units of the amounts that f gives to the members of S.
Units(f, S) == UNION {{x} \X (1..f[x]) : x \in S}

\* The sum over S of f, a function to Nat.
Total(f, S) == Cardinality(Units(f, S))

\* The sum over S of f, a function to Int: what comes in less what goes out.
Sum(f, S) == Total([x \in S |-> IF f[x] > 0 THEN f[x] ELSE 0], S)
             - Total([x \in S |-> IF f[x] < 0 THEN -f[x] ELSE 0], S)
=============================================================================
