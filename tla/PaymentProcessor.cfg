SPECIFICATION Spec
CONSTANTS
    Threads = {t1, t2}
    Ids = {p1, p2, p3}
    Keys = {k1, k2}
    None = none
SYMMETRY Symmetric
INVARIANTS
    TypeOK
    DuplicatesNeedOverlap
    LateDecisionRefused
    ReferencedAreConfirmed
PROPERTY ImplementsLedger
