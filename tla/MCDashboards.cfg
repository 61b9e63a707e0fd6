\* Three saves of two users overlap; writes outlive their handlers.
CONSTANTS
  User = {u1, u2}
  Config = {d1}
  Request = {r1, r2, r3}
  None = None
  Empty = Empty
  Torn = Torn
SPECIFICATION DashboardsSpec
SYMMETRY Symmetry
INVARIANTS
  DashboardsTypeOK
  GuardedWritesAgree
  SettledFileIsMap
