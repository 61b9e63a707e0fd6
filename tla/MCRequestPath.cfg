CONSTANTS
  Req = {r1}
  c1 = c1
  c2 = c2
  i1 = i1
  i2 = i2
  restricted = restricted
  free = free
  User = {restricted, free}
  Cluster = {c1, c2}
  Stranger = Stranger
  Item = {i1, i2}
  NoList = {NoList}
  Nothing = Nothing
  Configured <- MCConfigured
SPECIFICATION RequestSpec
INVARIANTS
  RequestTypeOK
  WritesNeedOperator
  
  ReportsAreTrue
  EveryCallIsReported
  EffectsAreAudited
PROPERTIES
  RequestsEnd
