\* One worker at a time; two requests for one address, a third without handler.
SPECIFICATION Spec
CONSTANTS
    new = new
    Users = {ann, bob, new}
    Founders = {ann, bob}
    Editable = {}
    Requests = {r1, r2, r3}
    Email <- SameEmail
    Handled = {r1, r2}
    Workers = {w1}
    Faulty = {}
    TTL = 1
    MaxClock = 1
    NoUser = NoUser
    NoRequest = NoRequest
CHECK_DEADLOCK FALSE
SYMMETRY FounderSymmetry
INVARIANTS
    AuditTrailComplete
    ExecutedMeansCreated
PROPERTY
    FollowsLifecycle
