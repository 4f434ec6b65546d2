SPECIFICATION DASpec
CONSTANTS
  Sessions = {s1, s2}
  LoanIds = {k1, k2}
  Statuses = {pending, approved}
  Pending = pending
  Null = Null
  MaxOps = 2
INVARIANTS
  DATypeOK
  AllOrNothing
  GhostsNeedOverlap
PROPERTIES
  TransactionsEnd
