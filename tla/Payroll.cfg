SPECIFICATION Spec
CONSTANTS
    c1 = c1
    c2 = c2
    o1 = o1
    i1 = i1
    i2 = i2
    i3 = i3
    Cycles = {1}
    Callers = {c1, c2}
    Items = {i1, i2, i3}
    Overtimes = {o1}
    Amounts = {1, 2}
    Entered = {"bonus", "meal_allowance", "deposit", "ot"}
    Scheduled = {"deposit"}
    Cap = 2
    MaxCalls = 3
    MaxCrashes = 1
    Null = Null
INVARIANTS
    TypeOK
    DepositCap
    LedgerMatchesItems
    OvertimePaidOnce
    BuiltOnce
    PayslipMatches
PROPERTIES
    StatusAdvances
    ClosedUnchanged
    ManualSurvives
SYMMETRY Symmetry
CHECK_DEADLOCK FALSE
