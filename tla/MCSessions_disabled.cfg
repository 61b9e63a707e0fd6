\* A disabled account that has a passkey.
CONSTANTS
  TokenId = {t1, t2}
  UserId = {idA}
  Nobody = Nobody
  TTL = 1
  MaxTime = 2
  Request = {r1, r2}
  Username = {alice}
  Role = {admin, viewer}
  Viewer = viewer
  Password = {p1}
  Unguessable = Unguessable
  NoAccount = NoAccount
  NoToken = NoToken
  Seed <- SeedAlice
  Managed = {alice}
  LdapUsers = {}
  AutoCreate = FALSE
  LdapRole = viewer
  ldap_user_id <- LdapIds
  OidcSubjects = {}
  JwtLife = 1
  JwtLeeway = 0
  alice = alice
  idA = idA
  admin = admin
  viewer = viewer
  p1 = p1
SPECIFICATION SessionsSpec
PROPERTY
  DisabledAccountsCannotLogIn
CHECK_DEADLOCK FALSE
