SPECIFICATION Spec
CONSTANTS
    Threads = {t1, t2}
    MaxSessions = 2
    Tokens = {k1, k2, k3}
    None = none
    RefreshLife = 2
    SessionLife = 1
    MaxClock = 3
SYMMETRY Symmetric
INVARIANTS
    TypeOK
    VoidRefreshRefused
    DoubleExchangeNeedsOverlap
    AnsweredTokenIsCurrent
    NotFoundHasReason
    TokensPaired
