SPECIFICATION Spec
CONSTANTS
  t1 = t1
  t2 = t2
  s1 = s1
  s2 = s2
  p1 = p1
  Trips <- MCTrips
  Seats <- MCSeats
  Pools <- MCPools
  TripOf <- MCTripOf
  NSeg = 2
  Capacity <- MCCapacity
  Orders = {o1, o2}
  Claims = {}
  Requests <- MCRequests
  MaxPayments = 2
  MaxDeparted = 0
INVARIANTS
  NoDoubleSell
  SeatLedgerExact
  PoolLedgerExact
  StreamReplays
PROPERTIES
  OutcomesAreFinal
  ImplementsBooking
CHECK_DEADLOCK FALSE
SYMMETRY Symmetry
