\* One link, two attempts.
SPECIFICATION BillingSpec
CONSTANTS
    MaxPayments = 1
    MaxTxs = 2
    MaxDay = 0
    MaxRare = 0
    TrialEnd = 0
    Window = 2
    LinkLife = 1
    Grace = 0
    Days <- PlanDays
PROPERTY
    SweepRetriesApproved
CHECK_DEADLOCK FALSE
