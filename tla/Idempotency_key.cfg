SPECIFICATION FairSpec
CONSTANTS
  Attempts = {a1, a2, a3}
  Bodies = {b1, b2}
  Faults = {"create", "commit", "crash"}
INVARIANTS
  RacingRetriesBookOnce
  ReplayMatchesRequest
PROPERTIES
  RepliesAreBookings
  KeyIsFreedAgain
CHECK_DEADLOCK FALSE
