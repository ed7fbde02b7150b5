SPECIFICATION FairSpec
CONSTANTS
  Intents = {i1}
  IntentKeyed = TRUE
  RefundKeyed = TRUE
  Requests = {r1, r2}
  Webhooks = {w1, w2}
  Refunds = {a1}
  Cascade = Cascade
  MaxDeclines = 2
INVARIANTS
  PaidOnce
  PaidIntentIsCaptured
PROPERTIES
  CascadePaysFirst
  CancelledTripSettles
CHECK_DEADLOCK FALSE
