SPECIFICATION Spec
CONSTANTS
    Null = Null
    Requests = {q1, q2}
    Admins = {hr}
    Lengths = {1}
    Entitled = 1
    MaxDisruptions = 1
SYMMETRY Symmetry
CHECK_DEADLOCK FALSE
INVARIANTS
    ChargedOnce
