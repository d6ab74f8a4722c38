------------------------------ MODULE CashDesk ------------------------------
(***************************************************************************)
(* What a shop is promised of its registers, banks and wallets, whatever   *)
(* rows are locked, in which order, and whoever retries: every request is  *)
(* served by itself, in one instant, at the balances of that instant; or   *)
(* it is told what its key did before; or it is turned down because at     *)
(* some instant it could not be served; or, if others are being served, it *)
(* is given up and leaves no trace.                                        *)
(*                                                                         *)
(* There are no locks, transactions or snapshots here, and what a request  *)
(* does is stated by what the owner of the cash can count afterwards: what *)
(* stays, what goes out, and the difference nobody can explain.            *)
(***************************************************************************)
EXTENDS Integers

CONSTANTS
    Calls,
    Places,     \* registers, banks and wallets
    Shapes,     \* the requests, records with kind, from, to, amount and key
    NoShape,
    Keys,
    NoKey,
    Opening,    \* opening balance of every place
    Base        \* what a reconciled register keeps for change

VARIABLES
    asked,      \* the request of each call
    outcome,    \* what became of it
    balance,    \* the money in each place
    memory,     \* per key: what went out under it, the difference, how often
    told        \* what each call was told

dvars == <<asked, outcome, balance, memory, told>>

\* A request of shape s served at balance b leaves kept in its source and sends
\* out to its destination.
Deal(s, b, kept, out) ==
    CASE s.kind = "reconcile" ->
            \* All that was counted stays or goes, what there was of the base
            \* stays, and something changes.
            /\ s.amount >= Base
            /\ kept + out = s.amount
            /\ kept = IF b < Base THEN b ELSE Base
            /\ out > 0 \/ s.amount # b
      [] s.kind \in {"close", "cashOut", "transfer"} ->
            out = s.amount /\ out > 0 /\ kept + out = b
      [] s.kind = "adjust" -> kept = s.amount /\ out = 0
      [] s.kind = "deposit" -> kept = b + s.amount /\ out = 0
      [] s.kind = "withdraw" -> kept + s.amount = b /\ out = 0

\* Nobody keeps or sends more than there was and was brought.
Within(s, b) == 0..(b + s.amount)

DInit ==
    /\ asked = [r \in Calls |-> NoShape]
    /\ outcome = [r \in Calls |-> "none"]
    /\ balance = [x \in Places |-> Opening]
    /\ memory = [k \in Keys |-> [moved |-> 0, difference |-> 0, times |-> 0]]
    /\ told = [r \in Calls |-> [moved |-> 0, difference |-> 0]]

Ask(r) ==
    /\ outcome[r] = "none"
    /\ \E s \in Shapes : asked' = [asked EXCEPT ![r] = s]
    /\ outcome' = [outcome EXCEPT ![r] = "waiting"]
    /\ UNCHANGED <<balance, memory, told>>

\* What a request may be told of what it did, and what its key remembers.
Settle(r, k, out, difference) ==
    /\ told' = [told EXCEPT ![r] = [moved |-> out, difference |-> difference]]
    /\ memory' = IF k = NoKey THEN memory
                 ELSE [memory EXCEPT ![k] = [moved |-> @.moved + out,
                                             difference |-> @.difference + difference,
                                             times |-> @.times + 1]]

\* The whole request, at the balances of this instant.
Serve(r) ==
    LET s == asked[r]
        b == balance[s.from]
    IN
    /\ outcome[r] = "waiting"
    /\ outcome' = [outcome EXCEPT ![r] = "served"]
    /\ \E kept \in Within(s, b), out \in Within(s, b) :
          /\ Deal(s, b, kept, out)
          /\ balance' = [x \in Places |-> IF x = s.from THEN kept
                                          ELSE IF x = s.to THEN balance[x] + out
                                          ELSE balance[x]]
          /\ Settle(r, s.key, out, (kept + out) - b)
    /\ UNCHANGED asked

\* The key was used: the answer is what was done under it.
Repeat(r) ==
    LET k == asked[r].key IN
    /\ outcome[r] = "waiting" /\ k # NoKey
    /\ memory[k].times > 0
    /\ told' = [told EXCEPT ![r] = [moved |-> memory[k].moved,
                                    difference |-> memory[k].difference]]
    /\ outcome' = [outcome EXCEPT ![r] = "repeated"]
    /\ UNCHANGED <<asked, balance, memory>>

\* Turned down only for a reason that is true now.
TurnDown(r) ==
    LET s == asked[r]
        b == balance[s.from]
    IN
    /\ outcome[r] = "waiting"
    /\ outcome' = [outcome EXCEPT ![r] = "refused"]
    /\ \A kept \in Within(s, b), out \in Within(s, b) : ~Deal(s, b, kept, out)
    /\ UNCHANGED <<asked, balance, memory, told>>

\* Given up without a trace, and never when it is alone.
GiveUp(r) ==
    /\ outcome[r] = "waiting"
    /\ \E q \in Calls \ {r} : outcome[q] \in {"waiting", "served"}
    /\ outcome' = [outcome EXCEPT ![r] = "givenUp"]
    /\ UNCHANGED <<asked, balance, memory, told>>

DNext == \E r \in Calls :
    Ask(r) \/ Serve(r) \/ Repeat(r) \/ TurnDown(r) \/ GiveUp(r)

DSpec == DInit /\ [][DNext]_dvars
=============================================================================
