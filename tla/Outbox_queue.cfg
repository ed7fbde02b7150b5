SPECIFICATION FairSpec
CONSTANTS
  Streams = {s1, s2}
  Endpoints = {e1}
  Relays = {r1, r2}
  Workers = {w1, w2}
  RelayBatch = 2
  PostBatch = 1
  MaxAttempts = 2
  MaxEvents = 2
INVARIANTS
  NoEventMissed
PROPERTIES
  SettledStays
  EveryDeliverySettles
CHECK_DEADLOCK FALSE
