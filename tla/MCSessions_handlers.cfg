\* Handlers of a directory user and of a provider's user, two in flight.
CONSTANTS
  TokenId = {t1, t2, t3}
  UserId = {idA, idB}
  Nobody = Nobody
  TTL = 1
  MaxTime = 2
  Request = {r1, r2}
  Username = {alice}
  Role = {viewer}
  Viewer = viewer
  Password = {p1}
  Unguessable = Unguessable
  NoAccount = NoAccount
  NoToken = NoToken
  Seed <- SeedEmpty
  Managed = {}
  LdapUsers = {alice}
  AutoCreate = TRUE
  LdapRole = viewer
  ldap_user_id <- LdapIds
  OidcSubjects = {idB}
  JwtLife = 1
  JwtLeeway = 0
  alice = alice
  idA = idA
  admin = viewer
  viewer = viewer
  p1 = p1
SPECIFICATION SessionsSpec
SYMMETRY Symmetry
INVARIANTS
  SessionsTypeOK
  LogoutIsFinal
  ReplayEndsEverySession
  EverySessionHasAnAccount
PROPERTY ImplementsStore
CHECK_DEADLOCK FALSE
