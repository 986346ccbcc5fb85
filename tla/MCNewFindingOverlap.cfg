\* Three images: two that each create a finding, and one that is sent when two
\* answers have come; two forms, one of them sent again while the other is under
\* way; and three keys.
SPECIFICATION Spec
CONSTANTS
    Images = {i1, i2, i3}
    Findings = {f1, f2, f3}
    MaxSubmits = 2
    NoFinding = NoFinding
    NoImage = NoImage
    NoRow = NoRow
SYMMETRY Symmetry
INVARIANTS
    TypeOK
    OneFindingUnlessCrossed
    LinksLeadHome
    NoPhantom
CHECK_DEADLOCK FALSE
