SPECIFICATION Spec
CONSTANTS
    None = None
    Requests = {r1}
    Browsers = {b1}
    States = {s1, s2, s3}
    Identities = {ann, bob}
    Unnamed = {}
    NoSub = NoSub
    Names = {n1}
    LocalNames = {}
    MaxProfiles = 3
INVARIANT SameAccountAgain
