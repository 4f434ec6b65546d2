SPECIFICATION Spec
CONSTANTS
    Threads = {t1, t2, t3}
    Ids = {l1}
    None = none
SYMMETRY Symmetric
INVARIANTS
    TypeOK
    LateDecisionRefused
    DecisionsStandUnlessOverlap
    OddAnswersNeedOverlap
