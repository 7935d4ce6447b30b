SPECIFICATION Spec
CONSTANTS
    Lead = Lead
    Manager = Manager
    Owner = Owner
    Admin = Admin
    Null = Null
    Steps <- MCSteps
    Escalatable = {1}
    Inst = {i1}
    Requests = {r1, r2, r3}
    Users = {Lead, Manager, Owner}
    Approvers <- MCApprovers
    Owners = {Owner}
    Bypass = {}
    OwnerFlags = {FALSE}
    Interrupted = {r1, r2, r3}
SYMMETRY RequestSymmetry
CHECK_DEADLOCK FALSE
INVARIANTS
    TypeOK
    NoStepSkipped
    EventsAreLogged
    UncontendedDecisionIsFinal
    DecidedByItsApprover
PROPERTIES
    ResolvedUnlessStale
