SPECIFICATION Spec
CONSTANTS
  Replicas = {p1, p2}
  Orders = {o1, o2}
  Devices = {d1}
  MaxKeys = 3
INVARIANTS
  SomeKeySigns
  SealedAtMostOnce
  SealingConverges
  RotationReachesAll
  TicketsKeepVerifying
SYMMETRY Symmetry
CHECK_DEADLOCK FALSE
