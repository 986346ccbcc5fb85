\* Two requests at a time on one report, with kills.
SPECIFICATION Spec
CONSTANTS
    Users = {rep, rev, boss}
    Reviewers = {rev}
    Superadmins = {boss}
    Involved = {rev}
    Ids = {r1}
    FindingIds = {f1}
    Vendors = {v1, v2}
    Workers = {w1, w2}
    Faulty = {w1, w2}
    NoUser = NoUser
    NoVendor = NoVendor
    Deleted = Deleted
    NoId = NoId
    NoFinding = NoFinding
SYMMETRY WorkerAndVendorSymmetry
INVARIANTS
    VerdictNamesReviewer
    StatusReconstructable
    NoForeignFindingsUnlessMoved
PROPERTY
    ApprovalStands
