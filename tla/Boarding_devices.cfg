SPECIFICATION FairSpec
CONSTANTS
  o1 = o1
  o2 = o2
  k1 = k1
  k2 = k2
  k3 = k3
  leg1 = leg1
  leg2 = leg2
  Orders <- OneOrder
  Tickets <- TwoTickets
  OrderOf <- TwoOrderOf
  Legs <- TwoLegs
  LegOf <- TwoLegOf
  Devices = {d1, d2}
  Stamps = {n1}
  Workers = {w1, w2}
INVARIANTS
  BoardedMeansAllAboard
  OneScanBoards
  RefundVoidsEveryTicket
PROPERTIES
  RevokedStaysOut
  JournalsDrain

CHECK_DEADLOCK FALSE
