\* Two clusters, two overlapping probes; a cache that outlives a ping.
CONSTANTS
  Cluster = {c1, c2}
  Probe = {p1, p2}
  TTL = 3
  PingTimeout = 2
SPECIFICATION ReadinessSpec
SYMMETRY Symmetry
INVARIANT VerdictsAreRecent
