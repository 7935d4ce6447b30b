SPECIFICATION Spec
CONSTANTS
    Null = Null
    Requests = {q1, q2}
    Admins = {hr}
    Lengths = {1, 2}
    Entitled = 2
    MaxDisruptions = 2
SYMMETRY Symmetry
CHECK_DEADLOCK FALSE
INVARIANTS
    TypeOK
    BalanceMatchesRequests
    RequestFollowsWorkflow
