SPECIFICATION FairSpec
CONSTANTS
  t1 = t1
  t2 = t2
  s1 = s1
  s2 = s2
  p1 = p1
  Trips <- MCTrips
  Seats <- MCSeats
  Pools <- MCPools
  TripOf <- MCTripOf
  NSeg = 2
  Capacity <- MCCapacity
  Orders = {o1}
  Claims = {c1}
  Requests <- TaskRequests
  MaxPayments = 1
  MaxDeparted = 1
PROPERTIES
  OverdueSettles
  CancelledTripsDrain
CHECK_DEADLOCK FALSE
