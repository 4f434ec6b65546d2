SPECIFICATION Spec
CONSTANTS
    None = None
    Threads = {t1, t2}
    Names = {alice}
    Passwords = {old, new}
    MaxAccounts = 2
    Hashes = {h1, h2, h3}
SYMMETRY Symmetric
INVARIANTS
    TypeOK
    CredentialsPaired
    LostOnlyByOverlap
    FailedNeedsOverlap
PROPERTY LoginAgrees
