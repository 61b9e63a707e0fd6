\* A reader, and two requests whose rows may change places.
CONSTANTS
  Writer = {w1, w2}
  Reader = {r1}
  Kind = {k1, k2}
  PerPage = {1, 2}
  Unset = Unset
  Half = 8
  MaxPerPage = 2
  MaxTime = 1
  MaxRows = 3
SPECIFICATION AuditSpec
SYMMETRY Symmetry
INVARIANTS
  PagesPartition
  WalkMissesNothing
