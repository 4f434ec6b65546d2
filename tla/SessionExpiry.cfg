SPECIFICATION Spec
CONSTANTS
    Threads = {t1}
    MaxSessions = 1
    Tokens = {k1, k2}
    None = none
    RefreshLife = 3
    SessionLife = 3
    MaxClock = 5
INVARIANT SessionExpiresWithToken
