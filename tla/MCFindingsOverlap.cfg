\* Two requests at a time on one finding, with kills.  Keys are used once, so
\* nothing is left to do when the finding is deleted.
SPECIFICATION Spec
CONSTANTS
    Users = {rep, rev, boss}
    Reviewers = {rev}
    Superadmins = {boss}
    Ids = {f1}
    Vendors = {v1, v2}
    Workers = {w1, w2}
    Faulty = {w1, w2}
    NoUser = NoUser
    NoVendor = NoVendor
    NoId = NoId
CHECK_DEADLOCK FALSE
SYMMETRY WorkerAndVendorSymmetry
INVARIANTS
    VerdictNamesAuthority
    ReporterCanEdit
    ReporterKept
    ReviewReconstructable
    HostsMatchVendorUnlessShared
