------------------------------ MODULE Consent ------------------------------
(***************************************************************************)
(* What the user of the assistant is promised of the operations that are   *)
(* offered: one waits at a time, it is done once and only after a yes to   *)
(* it, what has to be exact is done as it was shown, and what was done or  *)
(* dropped is over.                                                        *)
(*                                                                         *)
(* There are no messages, tools, locks or snapshots here.  The world goes  *)
(* on while an operation waits, and the user may agree at any time.        *)
(***************************************************************************)
EXTENDS Integers

CONSTANTS
    Offers,
    Subjects,   \* what an operation may be about
    Exact       \* the subjects of which only what was shown may be done

VARIABLES
    life,       \* none, waiting, done or dropped, for each offer
    subject,
    shown,      \* the version of its subject that an offer showed
    world,      \* the version of each subject today
    agreed      \* offers that got a yes

cvars == <<life, subject, shown, world, agreed>>

CInit ==
    /\ life = [o \in Offers |-> "none"]
    /\ subject \in [Offers -> Subjects]
    /\ shown \in [Offers -> Nat]
    /\ world = [k \in Subjects |-> 0]
    /\ agreed = {}

\* An offer about k, as it was at some time until now; what waited is dropped.
Offer(o, k) ==
    /\ life[o] = "none"
    /\ life' = [p \in Offers |-> IF p = o THEN "waiting"
                                 ELSE IF life[p] = "waiting" THEN "dropped" ELSE life[p]]
    /\ \E n \in 0..world[k] : shown' = [shown EXCEPT ![o] = n]
    /\ subject' = [subject EXCEPT ![o] = k]
    /\ UNCHANGED world

Drop(o) ==
    /\ life[o] = "waiting"
    /\ life' = [life EXCEPT ![o] = "dropped"]
    /\ UNCHANGED <<subject, shown, world>>

Do(o) ==
    /\ life[o] = "waiting" /\ o \in agreed
    /\ subject[o] \in Exact => shown[o] = world[subject[o]]
    /\ life' = [life EXCEPT ![o] = "done"]
    /\ UNCHANGED <<subject, shown, world>>

Happen(k) ==
    /\ world' = [world EXCEPT ![k] = @ + 1]
    /\ UNCHANGED <<life, subject, shown>>

\* A yes is never taken back, and answers something that was offered.
Agree ==
    /\ agreed \subseteq agreed'
    /\ \A o \in agreed' : life'[o] # "none"

CNext ==
    /\ Agree
    /\ \/ UNCHANGED <<life, subject, shown, world>>
       \/ \E k \in Subjects : Happen(k)
       \/ \E o \in Offers : Drop(o) \/ Do(o)
       \/ \E o \in Offers, k \in Subjects : Offer(o, k)

CSpec == CInit /\ [][CNext]_cvars
=============================================================================
