--------------------------- MODULE FixedExpenses ---------------------------
(***************************************************************************)
(* A fixed expense, the periods of its schedule that fell due, the alert   *)
(* of each, and the payments of those periods.                             *)
(*                                                                         *)
(* Periods are not created by a clock: opening the list, creating the      *)
(* expense or changing its schedule runs a synchronisation.  It reads the  *)
(* expense and the numbers that exist once, and then inserts what is       *)
(* missing, one transaction per period, so several of them, edits and the  *)
(* archival interleave.  Payments lock the periods they pay, and a void    *)
(* locks the expense it takes back; each is one step.  Marking a period    *)
(* paid reads its balance first.                                           *)
(*                                                                         *)
(* Time is counted in units of the shortest schedule.  Money is one        *)
(* account; names, texts and who pays are left out.                        *)
(***************************************************************************)
EXTENDS Integers, FiniteSets, Totals

CONSTANTS
    Syncs,          \* synchronisations that overlap
    Cashiers,       \* users that mark periods paid
    Schedules,      \* schedules that the forms send
    Charges,        \* amounts per period that the forms send
    Payable,        \* amounts that payments name
    Funds,          \* opening balance of the account
    MonthLength,    \* units of time in a month
    Horizon,        \* bound: time
    MaxOutlays,     \* bound: expense rows
    MaxChanges      \* bound: edits of the fixed expense

ScheduleUnits == {"legacy", "semimonthly", "end_of_month"}

ASSUME FixedExpensesAssumption ==
    /\ Schedules \subseteq [unit : ScheduleUnits, every : Nat \ {0}, start : Nat]
    /\ Charges \subseteq Nat \ {0} /\ Payable \subseteq Nat \ {0}
    /\ Funds \in Nat /\ Horizon \in Nat /\ MaxOutlays \in Nat /\ MaxChanges \in Nat
    /\ MonthLength \in Nat \ {0}

Numbers == 1..Horizon
Outlays == 1..MaxOutlays
NoPeriod == 0

VARIABLES
    clock,
    fixed,       \* the row of fixed_expenses
    period,      \* fixed_expense_periods, by number
    alerts,      \* FIXED_EXPENSE_DUE alerts of each number
    sync,        \* the synchronisations
    cooling,     \* less than a minute since the last one began (memory)
    outlay,      \* expenses that paid a period
    funds,       \* balance of the account
    marking,     \* balance that each cashier read and has not paid yet
    changes      \* edits so far

fixedVars == <<clock, fixed, period, alerts, sync, cooling, outlay, funds, marking, changes>>

-----------------------------------------------------------------------------
\* Instants at which a month, or half a month, ends.
IsAnchor(unit, t) ==
    IF unit = "end_of_month" THEN t % MonthLength = 0 ELSE (2 * t) % MonthLength = 0

\* Mutant: the ends of months from the start itself count.
ExpectedFromStart(s, now) ==
    IF s.unit = "legacy"
    THEN IF now > s.start THEN (now - s.start) \div s.every ELSE 0
    ELSE Cardinality({t \in 1..now : t >= s.start /\ IsAnchor(s.unit, t)})

\* Periods completed by an instant: whole intervals since the start, or ends
\* of months strictly after the start.
ExpectedPeriods(s, now) ==
    IF s.unit = "legacy"
    THEN IF now > s.start THEN (now - s.start) \div s.every ELSE 0
    ELSE Cardinality({t \in 1..now : t > s.start /\ IsAnchor(s.unit, t)})

\* The instant at which period n falls due.
DueAt(s, n) ==
    IF s.unit = "legacy" THEN s.start + n * s.every
    ELSE CHOOSE t \in Numbers :
            /\ t > s.start /\ IsAnchor(s.unit, t)
            /\ Cardinality({u \in 1..t : u > s.start /\ IsAnchor(s.unit, u)}) = n

-----------------------------------------------------------------------------
NotDue == [status |-> "none", amount |-> 0, paid |-> 0, due |-> 0]

PeriodRow == [status : {"none", "PENDING", "PARTIALLY_PAID", "PAID"},
              amount : Nat, paid : Nat, due : Nat]

Balance(n) == period[n].amount - period[n].paid

NoOutlay == [number |-> NoPeriod, amount |-> 0, archived |-> FALSE]

OutlayRow == [number : Numbers \cup {NoPeriod}, amount : Nat, archived : BOOLEAN]

SyncIdle == [step |-> "idle", schedule |-> CHOOSE s \in Schedules : TRUE, amount |-> 0,
             expected |-> 0, existing |-> {}, next |-> 1]

Sync == [step : {"idle", "read", "insert"}, schedule : Schedules, amount : Nat,
         expected : Nat, existing : SUBSET Numbers, next : Nat]

FixedTypeOK ==
    /\ clock \in Nat
    /\ fixed \in [schedule : Schedules, amount : Nat, archived : BOOLEAN]
    /\ period \in [Numbers -> PeriodRow]
    /\ alerts \in [Numbers -> Nat]
    /\ sync \in [Syncs -> Sync]
    /\ cooling \in BOOLEAN
    /\ outlay \in [Outlays -> OutlayRow]
    /\ funds \in Nat
    /\ marking \in [Cashiers -> [number : Numbers \cup {NoPeriod}, amount : Nat]]
    /\ changes \in Nat

NotMarking == [number |-> NoPeriod, amount |-> 0]

FixedInit ==
    /\ clock = 0
    /\ fixed \in [schedule : Schedules, amount : Charges, archived : {FALSE}]
    /\ period = [n \in Numbers |-> NotDue]
    /\ alerts = [n \in Numbers |-> 0]
    /\ sync = [s \in Syncs |-> SyncIdle]
    /\ cooling = FALSE
    /\ outlay = [o \in Outlays |-> NoOutlay]
    /\ funds = Funds
    /\ marking = [c \in Cashiers |-> NotMarking]
    /\ changes = 0

FellDue(n) == period[n].status # "none"

-----------------------------------------------------------------------------
\* A synchronisation begins by noting the time, then reads the expenses that
\* are not archived.  A visit within the minute after another is skipped;
\* creating or rescheduling an expense is not.
BeginSync(s, force) ==
    /\ sync[s].step = "idle"
    /\ force \/ ~cooling
    /\ ~fixed.archived
    /\ ExpectedPeriods(fixed.schedule, clock) > 0
    /\ cooling' = TRUE
    /\ sync' = [sync EXCEPT ![s] = [SyncIdle EXCEPT
          !.step = "read", !.schedule = fixed.schedule, !.amount = fixed.amount,
          !.expected = ExpectedPeriods(fixed.schedule, clock)]]
    /\ UNCHANGED <<clock, fixed, period, alerts, outlay, funds, marking, changes>>

\* It reads the numbers that exist, once.
ReadExisting(s) ==
    /\ sync[s].step = "read"
    /\ sync' = [sync EXCEPT ![s].step = "insert", ![s].existing = {n \in Numbers : FellDue(n)}]
    /\ UNCHANGED <<clock, fixed, period, alerts, cooling, outlay, funds, marking, changes>>

\* Mutant: the alert does not depend on the insert having returned a row.
InsertedAlways(n) == TRUE

\* ON CONFLICT DO NOTHING returns no row when another run was first.
Inserted(n) == ~FellDue(n)

\* Mutant: a run goes on from how many periods exist, and one too far.
SkippedByCount(c, n) == n <= Cardinality(c.existing) + 1

\* Numbers that the run read as existing are passed over.
Skipped(c, n) == n \in c.existing

\* One transaction: the period and, if it was inserted here, its alert.
InsertPeriod(s) ==
    LET c == sync[s]
        n == c.next
    IN
    /\ c.step = "insert" /\ n <= c.expected
    /\ period' = IF Skipped(c, n) \/ FellDue(n) THEN period
                 ELSE [period EXCEPT ![n] = [status |-> "PENDING", amount |-> c.amount,
                                             paid |-> 0, due |-> DueAt(c.schedule, n)]]
    /\ alerts' = IF ~Skipped(c, n) /\ Inserted(n) THEN [alerts EXCEPT ![n] = @ + 1]
                 ELSE alerts
    /\ sync' = [sync EXCEPT ![s].next = n + 1]
    /\ UNCHANGED <<clock, fixed, cooling, outlay, funds, marking, changes>>

EndSync(s) ==
    /\ sync[s].step = "insert" /\ sync[s].next > sync[s].expected
    /\ sync' = [sync EXCEPT ![s] = SyncIdle]
    /\ UNCHANGED <<clock, fixed, period, alerts, cooling, outlay, funds, marking, changes>>

\* A transaction fails and the rest of this expense waits for another
\* synchronisation.
FailSync(s) ==
    /\ sync[s].step # "idle"
    /\ sync' = [sync EXCEPT ![s] = SyncIdle]
    /\ UNCHANGED <<clock, fixed, period, alerts, cooling, outlay, funds, marking, changes>>

\* The minute passes, or the process restarts: then its runs are gone too.
Cool ==
    /\ cooling /\ cooling' = FALSE
    /\ UNCHANGED <<clock, fixed, period, alerts, sync, outlay, funds, marking, changes>>

Restart ==
    /\ cooling' = FALSE
    /\ sync' = [s \in Syncs |-> SyncIdle]
    /\ marking' = [c \in Cashiers |-> NotMarking]
    /\ UNCHANGED <<clock, fixed, period, alerts, outlay, funds, changes>>

-----------------------------------------------------------------------------
\* The form changes the amount of the periods to come, or the schedule; the
\* periods that exist stay as they are.
ChangeFixed(schedule, amount) ==
    /\ ~fixed.archived /\ changes < MaxChanges
    /\ fixed' = [fixed EXCEPT !.schedule = schedule, !.amount = amount]
    /\ fixed' # fixed
    /\ changes' = changes + 1
    /\ UNCHANGED <<clock, period, alerts, sync, cooling, outlay, funds, marking>>

ArchiveFixed ==
    /\ ~fixed.archived
    /\ fixed' = [fixed EXCEPT !.archived = TRUE]
    /\ UNCHANGED <<clock, period, alerts, sync, cooling, outlay, funds, marking, changes>>

Pass ==
    /\ clock < Horizon
    /\ clock' = clock + 1
    /\ UNCHANGED <<fixed, period, alerts, sync, cooling, outlay, funds, marking, changes>>

-----------------------------------------------------------------------------
\* Periods of a selection that still owe something.
Owing(selected) == {n \in selected : Balance(n) > 0}

OwedBy(ns) == Total([n \in Numbers |-> Balance(n)], ns)

\* Mutant: the last period selected takes what is left, whatever it owes.
AllottedRest(ns, amount, n) ==
    LET left == amount - OwedBy({m \in ns : m < n}) IN IF left <= 0 THEN 0 ELSE left

\* What each of them gets, the oldest first.
Allotted(ns, amount, n) ==
    LET left == amount - OwedBy({m \in ns : m < n})
    IN  IF left <= 0 THEN 0 ELSE IF left < Balance(n) THEN left ELSE Balance(n)

SettledAs(n, paid) == IF paid >= period[n].amount THEN "PAID" ELSE "PARTIALLY_PAID"

Paying(n, amount) ==
    [period[n] EXCEPT !.paid = @ + amount, !.status = SettledAs(n, period[n].paid + amount)]

FreeOutlays == {o \in Outlays : outlay[o] = NoOutlay}

\* The row of the i-th period paid is the i-th free one.
RowOf(ns, n) ==
    CHOOSE o \in FreeOutlays :
        Cardinality({p \in FreeOutlays : p <= o}) = Cardinality({m \in ns : m <= n})

\* The account that pays has the money.
Affords(amount) == amount <= funds

\* One payment over several periods: each gets its share, an expense row and
\* a debit of the account, in one transaction.
PayPeriods(selected, amount) ==
    LET ns == Owing(selected)
        share == [n \in Numbers |-> IF n \in ns THEN Allotted(ns, amount, n) ELSE 0]
        paidNow == {n \in ns : share[n] > 0}
    IN
    /\ selected # {} /\ \A n \in selected : FellDue(n)
    /\ ns # {} /\ amount <= OwedBy(ns) /\ Affords(amount)
    /\ Cardinality(paidNow) <= Cardinality(FreeOutlays)
    /\ period' = [n \in Numbers |-> IF n \in paidNow THEN Paying(n, share[n]) ELSE period[n]]
    /\ outlay' = [o \in Outlays |->
          IF \E n \in paidNow : RowOf(paidNow, n) = o
          THEN LET n == CHOOSE n \in paidNow : RowOf(paidNow, n) = o
               IN  [number |-> n, amount |-> share[n], archived |-> FALSE]
          ELSE outlay[o]]
    /\ funds' = funds - amount
    /\ UNCHANGED <<clock, fixed, alerts, sync, cooling, marking, changes>>

\* Marking one period paid reads its balance without a lock, and pays it.
ReadToMark(c, n) ==
    /\ marking[c] = NotMarking /\ FellDue(n) /\ Balance(n) > 0
    /\ marking' = [marking EXCEPT ![c] = [number |-> n, amount |-> Balance(n)]]
    /\ UNCHANGED <<clock, fixed, period, alerts, sync, cooling, outlay, funds, changes>>

MarkPaid(c) ==
    /\ marking[c] # NotMarking
    /\ \E o \in Outlays :
          LET n == marking[c].number
              amount == marking[c].amount
          IN
          /\ amount <= Balance(n) /\ Affords(amount)
          /\ outlay[o] = NoOutlay /\ \A p \in 1..(o - 1) : outlay[p] # NoOutlay
          /\ period' = [period EXCEPT ![n] = Paying(n, amount)]
          /\ outlay' = [outlay EXCEPT ![o] = [number |-> n, amount |-> amount,
                                              archived |-> FALSE]]
          /\ funds' = funds - amount
    /\ marking' = [marking EXCEPT ![c] = NotMarking]
    /\ UNCHANGED <<clock, fixed, alerts, sync, cooling, changes>>

\* The balance changed meanwhile, or the account has not enough.
RefuseMark(c) ==
    /\ marking[c] # NotMarking
    /\ \/ marking[c].amount > Balance(marking[c].number)
       \/ ~Affords(marking[c].amount)
    /\ marking' = [marking EXCEPT ![c] = NotMarking]
    /\ UNCHANGED <<clock, fixed, period, alerts, sync, cooling, outlay, funds, changes>>

\* Voiding an expense gives its money back and leaves the period as it is.
VoidOutlay(o) ==
    /\ outlay[o] # NoOutlay /\ ~outlay[o].archived
    /\ outlay' = [outlay EXCEPT ![o].archived = TRUE]
    /\ funds' = funds + outlay[o].amount
    /\ UNCHANGED <<clock, fixed, period, alerts, sync, cooling, marking, changes>>

FixedNext ==
    \/ \E s \in Syncs : \/ \E force \in BOOLEAN : BeginSync(s, force)
                        \/ ReadExisting(s) \/ InsertPeriod(s) \/ EndSync(s) \/ FailSync(s)
    \/ Cool \/ Restart \/ Pass \/ ArchiveFixed
    \/ \E s \in Schedules, amount \in Charges : ChangeFixed(s, amount)
    \/ \E selected \in SUBSET Numbers, amount \in Payable : PayPeriods(selected, amount)
    \/ \E c \in Cashiers : \/ \E n \in Numbers : ReadToMark(c, n)
                           \/ MarkPaid(c) \/ RefuseMark(c)
    \/ \E o \in Outlays : VoidOutlay(o)

FixedSpec == FixedInit /\ [][FixedNext]_fixedVars

-----------------------------------------------------------------------------
\* Whatever runs overlap, fail or work from an old schedule, the periods of an
\* expense are numbered without gaps, each was due when it appeared, and each
\* raised one alert.
PeriodsWithoutGaps ==
    \A n \in Numbers :
        /\ FellDue(n) => (\A m \in 1..n : FellDue(m)) /\ period[n].due <= clock
        /\ alerts[n] = IF FellDue(n) THEN 1 ELSE 0

\* A run that ends without failing leaves every period that was due when it
\* began, also those that its rivals were inserting.
FinishedSyncIsComplete ==
    [][\A s \in Syncs :
          sync[s].step = "insert" /\ sync[s].next > sync[s].expected /\ sync'[s].step = "idle"
          => \A n \in 1..sync[s].expected : FellDue(n)]_fixedVars

PaidOn(n) == [o \in Outlays |-> IF outlay[o].number = n THEN outlay[o].amount ELSE 0]

PaidBy(n) == Total(PaidOn(n), Outlays)

Standing == [o \in Outlays |-> IF outlay[o].archived THEN 0 ELSE outlay[o].amount]

OutOfPocket == Total(Standing, Outlays)

\* What a period says was paid is what the expenses linked to it add up to,
\* never more than it costs, and the account is short of exactly the expenses
\* that were not voided.
PaymentsAddUp ==
    /\ \A n \in Numbers :
          /\ period[n].paid = PaidBy(n) /\ period[n].paid <= period[n].amount
          /\ FellDue(n) => (period[n].status = "PAID") = (Balance(n) = 0)
    /\ funds = Funds - OutOfPocket
=============================================================================
