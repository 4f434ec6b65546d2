SPECIFICATION Spec
CONSTANTS
  Threads = {t1, t2}
  Deployments <- BySecret
  Secret <- DefaultSecret
  Names = {alice, admin}
  Admins = {admin}
  UserIds = {i1, i2}
  Tokens = {k1, k2, k3}
  None = None
  Life = 1
  RefreshLife = 2
  MaxClock = 2
INVARIANTS
  TypeOK
  LogoutEnforced
  RolesTraced
  DisabledFadesOut
SYMMETRY Symmetric
