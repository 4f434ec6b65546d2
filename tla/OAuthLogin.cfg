SPECIFICATION Spec
CONSTANTS
    None = None
    Requests = {r1, r2}
    Browsers = {b1}
    States = {s1, s2}
    Identities = {ann, bob, cyd}
    Unnamed = {bob, cyd}
    NoSub = NoSub
    Names = {n1, n2}
    LocalNames = {n1, n2}
    MaxProfiles = 3
SYMMETRY Symmetric
INVARIANTS
    TypeOK
    ReusedUnlessDisturbed
    OwnProfile
    StateOnce
