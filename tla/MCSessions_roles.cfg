\* An administrator at work while logins, those of the directory too, and refreshes run.
CONSTANTS
  TokenId = {t1, t2}
  UserId = {idA}
  Nobody = Nobody
  TTL = 1
  MaxTime = 3
  Request = {r1}
  Username = {alice}
  Role = {admin, viewer}
  Viewer = viewer
  Password = {p1}
  Unguessable = Unguessable
  NoAccount = NoAccount
  NoToken = NoToken
  Seed <- SeedAlice
  Managed = {alice}
  LdapUsers = {alice}
  AutoCreate = TRUE
  LdapRole = viewer
  ldap_user_id <- LdapIds
  OidcSubjects = {}
  JwtLife = 1
  JwtLeeway = 1
  alice = alice
  idA = idA
  admin = admin
  viewer = viewer
  p1 = p1
SPECIFICATION SessionsSpec
SYMMETRY Symmetry
INVARIANTS
  StaleRoleIsBounded
CHECK_DEADLOCK FALSE
