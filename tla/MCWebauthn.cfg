\* Ceremonies of two users in two handlers.
CONSTANTS
  User = {u1, u2}
  Request = {r1, r2}
  Challenge = {c1, c2, c3, c4, c5}
  Passkey = {k1, k2}
  None = None
SPECIFICATION WebauthnSpec
SYMMETRY Symmetry
INVARIANTS
  WebauthnTypeOK
  OneLoginPerChallenge
  LoginsUseEnrolledKeys
  KeysAreKept
CHECK_DEADLOCK FALSE
