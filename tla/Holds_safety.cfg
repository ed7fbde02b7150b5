SPECIFICATION Spec
CONSTANTS
  s1 = s1
  s2 = s2
  s3 = s3
  s4 = s4
  Units = {s1, s2, s3, s4}
  Sessions = {a, b}
  Segs = {0, 1}
  Itineraries <- MCItineraries
  Ttls = {1, 2, 3}
  INDEX_TTL_MULTIPLIER = 4
  Ceiling = 3
  MaxTime = 3
INVARIANTS
  NoOverlappingHolds
  GrantedHoldsLast
  RefusedHoldsOnlyLost
SYMMETRY Symmetry
CHECK_DEADLOCK FALSE
