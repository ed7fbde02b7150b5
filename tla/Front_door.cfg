SPECIFICATION FrontSpec
CONSTANTS
  Orders = {o1, o2}
  Customers = {c1, c2}
  Handlers = {h1, h2, h3}
  Nobody = Nobody
  Keys = {kb, k1}
  BootKeys = {kb}
  Subjects = {s1}
  BootStaff = {s1}
  Requests = {q1, q2}
  Kids = {j1, j2}
  Replicas = {a}
  Callers = {x}
  Limit <- Budgets
  Window = 3
  Ahead <- Clocks
  Skew = 1
  MaxClock = 5
  MaxRefused = 1
INVARIANTS
  OwnersStayOwners
PROPERTIES
  KeysLetInAreOnRecord
  CopiesConverge
  BudgetsHold
CHECK_DEADLOCK FALSE
