\* Two payments, two attempts, today and tomorrow, one rare event.  A month is
\* one day, a year two; the renewal window is two, so that a month leaves it
\* open and a year after what is left closes it.
SPECIFICATION BillingSpec
CONSTANTS
    MaxPayments = 2
    MaxTxs = 2
    MaxDay = 1
    MaxRare = 1
    TrialEnd = 0
    Window = 2
    LinkLife = 1
    Grace = 0
    Days <- PlanDays
INVARIANTS
    PaidPeriodsApart
    DaysArePaidFor
    PlanIsTheOnePaid
PROPERTIES
    NoPaymentOnTopOfPlan
    SweepSettles
CHECK_DEADLOCK FALSE
