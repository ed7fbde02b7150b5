SPECIFICATION Spec
CONSTANTS
  Intents = {i1}
  IntentKeyed = TRUE
  RefundKeyed = FALSE
  Requests = {r1, r2}
  Webhooks = {w1, w2}
  Refunds = {a1}
  Cascade = Cascade
  MaxDeclines = 2
INVARIANTS
  MoneyBeforeInventory
CHECK_DEADLOCK FALSE
