SPECIFICATION Spec
CONSTANTS
  out = out
  back = back
  s1 = s1
  s2 = s2
  p1 = p1
  A = A
  B = B
  C = C
  D = D
  r1 = r1
  r2 = r2
  MaxSegments = 3
  NSeg = 3
  Trips = {out, back}
  Route <- MCRoute
  Seats = {s1, s2}
  FareClass <- MCClass
  Pools = {p1}
  Capacity <- MCCapacity
  RuleSets = {r1, r2}
  Policy <- MCPolicy
  Seeded = r1
  Weekday <- MCWeekday
  Lead = 7
  Midnight = 1
  Requests = {q1}
  Asks <- MCAsks
  Walkups <- MCWalkups
  Switchers = {w1, w2}
  QUOTE_TTL = 1
  MaxTokens = 1
  MaxTime = 1
INVARIANTS
  RowsSayWhatIsSold
  SearchShowsWhatSells
  ChargedWhatWasDue
PROPERTIES
  SwitchesTakeEffect
SYMMETRY Symmetry
CHECK_DEADLOCK FALSE
