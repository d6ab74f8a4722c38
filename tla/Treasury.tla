------------------------------ MODULE Treasury ------------------------------
(***************************************************************************)
(* Cash registers, banks and wallets under concurrent requests.            *)
(*                                                                         *)
(* A call is one HTTP request: POST /pos-data/close-cash and               *)
(* /employees/:id/cash-register/close (simple or reconcile),               *)
(* POST /pos-data/transfer-cash, POST /accounts/transfer,                  *)
(* POST /cash-register/adjust, POST /banks/:id/adjustments and the same    *)
(* for wallets.  Each opens one transaction, locks its rows one by one     *)
(* with FOR UPDATE and writes the balances it computed from what it read.  *)
(*                                                                         *)
(* PostgreSQL is external and modelled by its documented behaviour: a row  *)
(* lock is held until the transaction ends; a SERIALIZABLE transaction     *)
(* that locks a row changed after its snapshot fails with 40001; one       *)
(* transaction of a cycle of waits fails with 40P01.  A 40001 raised       *)
(* without a changed row only adds retries that leave no trace, and is     *)
(* left out.  runSerializableWithRetry repeats on 40001 alone.             *)
(*                                                                         *)
(* Data kept abstract: amounts are whole units; a movement row is what it  *)
(* adds to the books of the accounts it names; the rows that carry an      *)
(* idempotency key in reference_code are the sums by tag a replay reads.   *)
(* Calls are numbered as they arrive; a client that lost an answer sends   *)
(* the same request under the same key as one more call, at any time.      *)
(***************************************************************************)
EXTENDS Integers, FiniteSets

CONSTANTS
    MaxCalls,    \* bound: requests served
    Registers,   \* cash registers, one per user
    Banks,
    Wallets,
    Keys,        \* values of the Idempotency-Key header
    NoKey,       \* no header
    Nowhere,     \* no destination
    Shapes,      \* the requests clients send, see ShapeType
    NoShape,
    Opening,     \* opening balance of every account
    Base,        \* cash_registers.base_amount
    MaxRetries   \* retries of runSerializableWithRetry (2 in the code)

Calls == 1..MaxCalls
Accounts == Banks \cup Wallets
Places == Registers \cup Accounts

Closings == {"close", "reconcile"}
Transfers == {"cashOut", "transfer"}
Adjustments == {"adjust", "deposit", "withdraw"}

\* amount is amount_to_transfer, counted_amount, amount or target_balance.
ShapeType == [kind : Closings \cup Transfers \cup Adjustments, from : Places,
              to : Places \cup {Nowhere}, amount : Nat, key : Keys \cup {NoKey}]

\* The combinations the DTOs and assertSameCompanyTransfer accept.
Acceptable(s) ==
    /\ s.kind \in Closings \cup {"cashOut"} => s.from \in Registers /\ s.to \in Accounts
    /\ s.kind = "transfer" =>
        /\ s.from \in Accounts
        /\ s.to \in Places \ {s.from}
        /\ s.to \in Registers => s.from \in Wallets
    /\ s.kind = "adjust" => s.from \in Registers
    /\ s.kind \in {"deposit", "withdraw"} => s.from \in Accounts
    /\ s.kind \in Adjustments => s.to = Nowhere
    /\ s.key # NoKey => s.kind \in Closings

ASSUME TreasuryAssumption ==
    /\ MaxCalls \in Nat /\ Opening \in Nat /\ Base \in Nat /\ MaxRetries \in Nat
    /\ Nowhere \notin Places /\ NoKey \notin Keys
    /\ Registers \cap Accounts = {}
    /\ NoShape \notin Shapes
    /\ Shapes \subseteq ShapeType
    /\ \A s \in Shapes : Acceptable(s)
    /\ \A s, u \in Shapes : s.key # NoKey /\ s.key = u.key => s = u

VARIABLES
    shape,    \* the request of each call
    pc,       \* where each call is
    retries,  \* retries of runSerializableWithRetry so far
    stale,    \* rows committed by others since the snapshot of the transaction
    held,     \* the rows each call has locked FOR UPDATE
    seen,     \* the balance each call read in the rows it locked
    balance,  \* the committed balance of each row
    flow,     \* what the movement and log rows add up to for each account
    keyed,    \* sums by tag of the movements of each key, and closings done
    answer    \* moved_amount and difference answered to each call

vars == <<shape, pc, retries, stale, held, seen, balance, flow, keyed, answer>>

-----------------------------------------------------------------------------
Positive(n) == IF n > 0 THEN n ELSE 0

\* What a request does to a source of balance b.  Sobrante and target above
\* the balance: an IN adjustment.
Entering(s, b) ==
    IF s.kind \in {"reconcile", "adjust"} THEN Positive(s.amount - b)
    ELSE IF s.kind = "deposit" THEN s.amount ELSE 0

\* Faltante and target below the balance: an OUT adjustment.
Leaving(s, b) ==
    IF s.kind \in {"reconcile", "adjust"} THEN Positive(b - s.amount)
    ELSE IF s.kind = "withdraw" THEN s.amount ELSE 0

\* What goes to the destination: a reconciliation with an overage moves the
\* principal, if any, and then the overage; the others move counted - base.
Moved(s, b) ==
    IF s.kind \in Adjustments THEN 0
    ELSE IF s.kind # "reconcile" THEN s.amount
    ELSE IF s.amount > b THEN Positive(b - Base) + (s.amount - b)
    ELSE s.amount - Base

\* Mutant: the funds of the source are not looked at.
AllowedOverdraft(s, b) ==
    IF s.kind = "reconcile" THEN s.amount >= Base /\ (s.amount # Base \/ s.amount # b)
    ELSE s.amount > 0

\* The business checks; a request that fails them changes nothing.
Allowed(s, b) ==
    CASE s.kind = "reconcile" -> s.amount >= Base /\ (s.amount # Base \/ s.amount # b)
      [] s.kind \in {"close", "cashOut", "transfer"} -> s.amount \in 1..b
      [] s.kind = "withdraw" -> s.amount <= b
      [] OTHER -> TRUE

\* Mutant: the overage is not put in the register before it is moved.
RemainingWithoutOverage(s, b) == b - Leaving(s, b) - Moved(s, b)

\* The new balance of the source.
Remaining(s, b) == b + Entering(s, b) - Leaving(s, b) - Moved(s, b)

\* Mutant: only the overage is looked at when an answer is rebuilt.
ReplayedOverage(k) == [moved |-> keyed[k].moved, difference |-> keyed[k].over]

\* tryReplayIdempotent: the answer rebuilt from the movements of the key.
Replayed(k) == [moved |-> keyed[k].moved, difference |-> keyed[k].over - keyed[k].short]

Closed(k) == keyed[k].times > 0

Serializable(r) == shape[r].kind \notin Adjustments

Holds(r, x) == x \in held[r]

\* Mutant: transfer-cash locks the destination first.
WantsDestinationFirst(r) ==
    LET s == shape[r]
    IN  IF s.kind = "cashOut" /\ ~Holds(r, s.to) THEN s.to
        ELSE IF ~Holds(r, s.from) THEN s.from
        ELSE IF ~Holds(r, s.to) /\ Allowed(s, seen[r][s.from]) /\ Moved(s, seen[r][s.from]) > 0
        THEN s.to ELSE Nowhere

\* The row a transaction locks next: the source; then the destination, which
\* transfer-cash locks before it looks at the balance, and the others once
\* there is something they may move to it.
Wants(r) ==
    LET s == shape[r]
        b == seen[r][s.from]
    IN  IF ~Holds(r, s.from) THEN s.from
        ELSE IF /\ s.to # Nowhere /\ ~Holds(r, s.to)
                /\ s.kind = "cashOut" \/ (Allowed(s, b) /\ Moved(s, b) > 0)
        THEN s.to ELSE Nowhere

\* Mutant: a row is read without FOR UPDATE.
FreeAnyway(x) == x \in Places

Free(x) == \A q \in Calls : x \notin held[q]

\* The row changed after the snapshot of a SERIALIZABLE transaction.
Conflicting(r, x) == Serializable(r) /\ x \in stale[r]

WaitsFor(r, q) ==
    /\ pc[r] = "open" /\ Wants(r) # Nowhere
    /\ ~Conflicting(r, Wants(r))
    /\ q # r /\ Wants(r) \in held[q]

\* Mutant: a transaction that ends keeps the lock of its destination.
ReleasedSource(r) == [held EXCEPT ![r] = @ \ {shape[r].from}]

\* The end of a transaction releases its locks.
Released(r) == [held EXCEPT ![r] = {}]

\* Mutant: the last retry is not made.
MayRetryButOne(r) == retries[r] + 1 < MaxRetries

MayRetry(r) == retries[r] < MaxRetries

Unread == [x \in Places |-> 0]

\* What ending the transaction of r in state p leaves.
End(r, p) ==
    /\ pc' = [pc EXCEPT ![r] = p]
    /\ held' = Released(r)
    /\ seen' = [seen EXCEPT ![r] = Unread]

-----------------------------------------------------------------------------
\* A request arrives; a client repeats a keyed one whenever it gives up on the
\* answer.
Receive(r, s) ==
    /\ pc[r] = "idle"
    /\ \A q \in 1..(r - 1) : pc[q] # "idle"
    /\ shape' = [shape EXCEPT ![r] = s]
    /\ pc' = [pc EXCEPT ![r] = IF s.key = NoKey THEN "ready" ELSE "received"]
    /\ UNCHANGED <<retries, stale, held, seen, balance, flow, keyed, answer>>

\* The fast path of close-cash, outside any transaction: the key was used.
Replay(r) ==
    /\ pc[r] = "received" /\ Closed(shape[r].key)
    /\ pc' = [pc EXCEPT ![r] = "replayed"]
    /\ answer' = [answer EXCEPT ![r] = Replayed(shape[r].key)]
    /\ UNCHANGED <<shape, retries, stale, held, seen, balance, flow, keyed>>

\* The fast path finds nothing; it is not looked at again.
Miss(r) ==
    /\ pc[r] = "received" /\ ~Closed(shape[r].key)
    /\ pc' = [pc EXCEPT ![r] = "ready"]
    /\ UNCHANGED <<shape, retries, stale, held, seen, balance, flow, keyed, answer>>

\* BEGIN, and the snapshot of the first statement.
Open(r) ==
    /\ pc[r] = "ready"
    /\ pc' = [pc EXCEPT ![r] = "open"]
    /\ stale' = [stale EXCEPT ![r] = {}]
    /\ UNCHANGED <<shape, retries, held, seen, balance, flow, keyed, answer>>

\* SELECT ... FOR UPDATE of the next row.
Lock(r) ==
    LET x == Wants(r) IN
    /\ pc[r] = "open" /\ x # Nowhere
    /\ Free(x) /\ ~Conflicting(r, x)
    /\ held' = [held EXCEPT ![r] = @ \cup {x}]
    /\ seen' = [seen EXCEPT ![r][x] = balance[x]]
    /\ UNCHANGED <<shape, pc, retries, stale, balance, flow, keyed, answer>>

\* 40001: runSerializableWithRetry runs the callback again, or gives up.
Retry(r) ==
    /\ pc[r] = "open" /\ Wants(r) # Nowhere /\ Conflicting(r, Wants(r))
    /\ IF MayRetry(r)
       THEN End(r, "ready") /\ retries' = [retries EXCEPT ![r] = @ + 1]
       ELSE End(r, "failed") /\ UNCHANGED retries
    /\ UNCHANGED <<shape, stale, balance, flow, keyed, answer>>

\* 40P01: PostgreSQL ends one transaction of a cycle; nobody retries it.
Deadlock(r) ==
    /\ \E ring \in SUBSET Calls :
          /\ r \in ring
          /\ \A q \in ring : (\E p \in ring : WaitsFor(q, p))
                          /\ (\E p \in ring : WaitsFor(p, q))
    /\ End(r, "victim")
    /\ UNCHANGED <<shape, retries, stale, balance, flow, keyed, answer>>

\* A business check fails: 422 and ROLLBACK.
Refuse(r) ==
    /\ pc[r] = "open" /\ Wants(r) = Nowhere
    /\ ~Allowed(shape[r], seen[r][shape[r].from])
    /\ End(r, "refused")
    /\ UNCHANGED <<shape, retries, stale, balance, flow, keyed, answer>>

\* The absolute balances are written, the movements inserted, COMMIT; setting a
\* register to the balance it has writes nothing.
Commit(r) ==
    LET s == shape[r]
        b == seen[r][s.from]
        m == Moved(s, b)
        k == s.key
        written == IF s.kind = "adjust" /\ s.amount = b THEN {}
                   ELSE {s.from} \cup IF m > 0 THEN {s.to} ELSE {}
    IN
    /\ pc[r] = "open" /\ Wants(r) = Nowhere /\ Allowed(s, b)
    /\ balance' = [x \in Places |->
                     IF x = s.from THEN Remaining(s, b)
                     ELSE IF x = s.to /\ m > 0 THEN seen[r][x] + m ELSE balance[x]]
    /\ flow' = [x \in Places |->
                  IF x = s.from THEN flow[x] + Entering(s, b) - Leaving(s, b) - m
                  ELSE IF x = s.to /\ m > 0 THEN flow[x] + m ELSE flow[x]]
    /\ keyed' = IF k = NoKey THEN keyed
                ELSE [keyed EXCEPT ![k] = [moved |-> @.moved + m,
                                           over |-> @.over + Entering(s, b),
                                           short |-> @.short + Leaving(s, b),
                                           times |-> @.times + 1]]
    /\ answer' = [answer EXCEPT ![r] = [moved |-> m,
                                        difference |-> Entering(s, b) - Leaving(s, b)]]
    /\ stale' = [q \in Calls |-> IF q # r /\ pc[q] = "open" THEN stale[q] \cup written
                                 ELSE stale[q]]
    /\ End(r, "committed")
    /\ UNCHANGED <<shape, retries>>

-----------------------------------------------------------------------------
NoAnswer == [moved |-> 0, difference |-> 0]

Init ==
    /\ shape = [r \in Calls |-> NoShape]
    /\ pc = [r \in Calls |-> "idle"]
    /\ retries = [r \in Calls |-> 0]
    /\ stale = [r \in Calls |-> {}]
    /\ held = [r \in Calls |-> {}]
    /\ seen = [r \in Calls |-> Unread]
    /\ balance = [x \in Places |-> Opening]
    /\ flow = [x \in Places |-> 0]
    /\ keyed = [k \in Keys |-> [moved |-> 0, over |-> 0, short |-> 0, times |-> 0]]
    /\ answer = [r \in Calls |-> NoAnswer]

Step(r) == Replay(r) \/ Miss(r) \/ Open(r) \/ Lock(r) \/ Retry(r) \/ Deadlock(r)
              \/ Refuse(r) \/ Commit(r)

Next == \E r \in Calls : Step(r) \/ \E s \in Shapes : Receive(r, s)

\* The event loop and the database run every pending call; nobody has to call.
Fairness == \A r \in Calls : WF_vars(Step(r))

Spec == Init /\ [][Next]_vars
FairSpec == Spec /\ Fairness

-----------------------------------------------------------------------------
Finished == {"committed", "replayed", "refused", "failed", "victim"}

\* Every variable keeps its type; no account is ever overdrawn.
TypeOK ==
    /\ shape \in [Calls -> Shapes \cup {NoShape}]
    /\ pc \in [Calls -> {"idle", "received", "ready", "open"} \cup Finished]
    /\ retries \in [Calls -> 0..MaxRetries]
    /\ stale \in [Calls -> SUBSET Places]
    /\ held \in [Calls -> SUBSET Places]
    /\ seen \in [Calls -> [Places -> Nat]]
    /\ balance \in [Places -> Nat]
    /\ flow \in [Places -> Int]
    /\ keyed \in [Keys -> [moved : Nat, over : Nat, short : Nat, times : Nat]]
    /\ answer \in [Calls -> [moved : Nat, difference : Int]]

\* The balance of an account, written as an absolute value computed from an
\* earlier read, is always its opening balance plus its movements: no
\* interleaving of closings, transfers and corrections loses an update.
BooksBalance == \A x \in Places : balance[x] = Opening + flow[x]

\* A lock held is a balance that cannot have moved since it was read.
ReadsAreCurrent ==
    \A r \in Calls : \A x \in held[r] : seen[r][x] = balance[x]

\* A reconciliation accounts for the cash counted: what stays in the register
\* plus what went to the destination is what was in the drawer.
CountIsAccounted ==
    [][\A r \in Calls :
          pc[r] = "open" /\ pc'[r] = "committed" /\ shape[r].kind = "reconcile"
          => balance'[shape[r].from] + answer'[r].moved = shape[r].amount]_vars

\* A replay tells what the closing it repeats did, as long as it repeats one.
ReplayTellsWhatHappened ==
    \A r, q \in Calls :
        /\ pc[q] = "committed" /\ pc[r] = "replayed"
        /\ shape[q].key = shape[r].key /\ keyed[shape[q].key].times = 1
        => answer[r] = answer[q]

\* Closings and transfers out of a register lock it first, so PostgreSQL ends
\* one for a deadlock only while a wallet pays into a register.
CashDeadlocksOnlyWithIncoming ==
    [][\A r \in Calls :
          pc[r] = "open" /\ pc'[r] = "victim" /\ shape[r].from \in Registers
          => \E q \in Calls : pc[q] = "open" /\ shape[q].to \in Registers]_vars

\* A call gives up only when more rivals than retries committed before it.
GivesUpOnlyUnderContention ==
    \A r \in Calls : pc[r] = "failed" =>
        Cardinality({q \in Calls \ {r} : pc[q] = "committed"}) > MaxRetries

\* Every request that arrives is answered, deadlocks and conflicts included: no
\* call, once it is there, is at work for ever.
EveryCallEnds == \A r \in Calls : []<>(pc[r] \in {"idle"} \cup Finished)

-----------------------------------------------------------------------------
\* The promise of CashDesk, read off the calls and the rows.
outcomeNames == [p \in {"idle", "received", "ready", "open"} \cup Finished |->
    CASE p = "idle" -> "none"
      [] p \in {"received", "ready", "open"} -> "waiting"
      [] p = "committed" -> "served"
      [] p = "replayed" -> "repeated"
      [] p = "refused" -> "refused"
      [] p \in {"failed", "victim"} -> "givenUp"]
outcomeOf == [r \in Calls |-> outcomeNames[pc[r]]]
memoryOf == [k \in Keys |-> [moved |-> keyed[k].moved,
                             difference |-> keyed[k].over - keyed[k].short,
                             times |-> keyed[k].times]]

Desk == INSTANCE CashDesk WITH
    asked <- shape, outcome <- outcomeOf, memory <- memoryOf, told <- answer

\* Row locks, snapshots, conflicts and retries add up to requests served one by
\* one: each at the balances of one instant, refused for a reason that was
\* true, repeated from what its key did, or gone without a trace.
ServedOneByOne == Desk!DSpec
=============================================================================
