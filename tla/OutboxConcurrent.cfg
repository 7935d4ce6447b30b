SPECIFICATION Spec
CONSTANTS
    Null = Null
    Rows = {1, 2}
    Swept = {2}
    Dispatchers = {d1, d2}
    MaxAttempts = 2
    BatchSize = 2
SYMMETRY ReplicaSymmetry
INVARIANTS
    NeverHandledConcurrently
