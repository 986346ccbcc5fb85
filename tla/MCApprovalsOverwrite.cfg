\* Two workers decide on one request at once.
SPECIFICATION Spec
CONSTANTS
    new = new
    Users = {ann, bob, cyd, new}
    Founders = {ann, bob, cyd}
    Editable = {}
    Requests = {r1}
    Email <- SameEmail
    Handled = {r1}
    Workers = {w1, w2}
    Faulty = {}
    TTL = 1
    MaxClock = 1
    NoUser = NoUser
    NoRequest = NoRequest
CHECK_DEADLOCK FALSE
PROPERTY
    TerminalIsFinal
