\* Two logins and two people, two callbacks at a time, a lifetime of one
\* minute that num_minutes stretches.
CONSTANTS
  Flow = {f1, f2}
  Provider = {google, github}
  CoreProvider = {google}
  Subject = {s1, s2}
  NullId = NullId
  Request = {r1, r2}
  NoProvider = NoProvider
  NoCode = NoCode
  TTL = 1
  TicksPerMinute = 2
  MaxTime = 4
SPECIFICATION OidcSpec
SYMMETRY Symmetry
INVARIANTS
  OidcTypeOK
  SessionIsTheAuthorizers
PROPERTY ImplementsOneShot
