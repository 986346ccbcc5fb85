CONSTANTS
    Templates = {t1, t2}
    Sections = {s1, s2, s3}
    Reports = {r1}
    Workers = {w1, w2}
    Faulty = {w1, w2}
    NoTemplate = NoTemplate
    NoRow = NoRow
    Idle = Idle
    Unknown = Unknown
SYMMETRY Symmetry
SPECIFICATION Spec
INVARIANTS
    AtMostOneDefault
    DefaultKept
PROPERTIES
    ImplementsLists
    TemplateKeptUnlessMet
CHECK_DEADLOCK FALSE
