\* Two requests at a time on one finding, with kills.
SPECIFICATION Spec
CONSTANTS
    FindingIds = {f1}
    Names = {n1, n2}
    Contents = {c1, c2}
    Ids = {a1, a2, a3}
    Workers = {w1, w2}
    Faulty = {w1, w2}
    Absent = Absent
    Empty = Empty
    Mixed = Mixed
    NoPath = NoPath
    NoFinding = NoFinding
    NoContent = NoContent
    NoId = NoId
    NoRow = NoRow
SYMMETRY Symmetry
INVARIANTS
    TypeOK
    BlobsMatchNamesUnlessCollided
    RowsHaveBytes
    NoBytesLeft
    AttachedOnce
