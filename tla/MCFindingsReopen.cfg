\* Who reopens a decided finding.
SPECIFICATION Spec
CONSTANTS
    Users = {rep, rev, boss}
    Reviewers = {rev}
    Superadmins = {boss}
    Ids = {f1}
    Vendors = {v1}
    Workers = {w1}
    Faulty = {}
    NoUser = NoUser
    NoVendor = NoVendor
    NoId = NoId
CHECK_DEADLOCK FALSE
PROPERTY
    OnlySuperadminsReopen
