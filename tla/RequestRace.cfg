SPECIFICATION Spec
CONSTANTS
    r1 = r1
    c1 = c1
    c2 = c2
    boot = boot
    Requests = {r1}
    Callers = {c1, c2}
    Boot = boot
    Orders = {1, 2}
    Submissions = {1}
    Ids = {1,2,3,4}
    MaxCalls = 3
    MaxDisruptions = 0
    Null = Null
INVARIANTS
    ApprovedAtEveryStep
CHECK_DEADLOCK FALSE
