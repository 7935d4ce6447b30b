SPECIFICATION Spec
CONSTANTS
    Null = Null
    Both = Both
    One = One
    Monday = Monday
    Friday = Friday
    Sunday = Sunday
    Requests = {Both, One}
    Days = {Monday, Friday, Sunday}
    Choices <- MCChoices
    Admins = {hr}
    Outcomes = {"approved", "cancelled", "returned"}
    MaxAttempts = 2
    MaxDisruptions = 2
CHECK_DEADLOCK FALSE
INVARIANTS
    TypeOK
    NoDoubleBooking
    ApprovedIsSynced
    RowFollowsWorkflow
    RepairedByStart
