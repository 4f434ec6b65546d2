SPECIFICATION Spec
CONSTANTS
  Threads = {t1}
  Deployments <- PlatformAlone
  Secret <- DefaultSecret
  Names = {alice, admin}
  Admins = {admin}
  UserIds = {i1}
  Tokens = {k1, k2}
  None = None
  Life = 2
  RefreshLife = 3
  MaxClock = 2
INVARIANT
  LogoutRevokes
