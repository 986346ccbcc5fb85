\* Two workers on one request; accounts are edited, and one worker may be killed.
SPECIFICATION FairSpec
CONSTANTS
    new = new
    Users = {ann, bob, new}
    Founders = {ann}
    Editable = {bob}
    Requests = {r1}
    Email <- SameEmail
    Handled = {r1}
    Workers = {w1, w2}
    Faulty = {w1}
    TTL = 1
    MaxClock = 1
    NoUser = NoUser
    NoRequest = NoRequest
CHECK_DEADLOCK FALSE
INVARIANTS
    EndorsedBySecondSuperadmin
    AuditNeverLies
    DecisionOnRecord
    ExpiredOnlyAfterDeadline
PROPERTIES
    ApprovedSettles
    ImplementsRule
