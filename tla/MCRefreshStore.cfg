CONSTANTS
  TokenId = {t1, t2, t3, t4}
  UserId = {alice, bob}
  Nobody = Nobody
  TTL = 1
  MaxTime = 3
SPECIFICATION StoreSpec
SYMMETRY Symmetry
INVARIANTS
  OneLivePerFamily
  FamilyKeepsItsUser
PROPERTIES
  TokensDieOnce
  UsersAreIsolated
  ImplementsLineage
CHECK_DEADLOCK FALSE
