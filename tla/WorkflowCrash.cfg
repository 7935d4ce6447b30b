SPECIFICATION Spec
CONSTANTS
    Lead = Lead
    Manager = Manager
    Owner = Owner
    Admin = Admin
    Null = Null
    Steps <- MCSteps
    Escalatable = {1}
    Inst = {i1}
    Requests = {r1, r2}
    Users = {Lead, Manager, Owner, Admin}
    Approvers <- MCApprovers
    Owners = {Owner}
    Bypass = {Admin}
    OwnerFlags = {FALSE, TRUE}
    Interrupted = {r1}
CHECK_DEADLOCK FALSE
PROPERTIES
    DecisionReachesOutbox
