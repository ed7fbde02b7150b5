SPECIFICATION Spec
CONSTANTS
  Attempts = {a1, a2, a3, a4}
  Bodies = {b1, b2}
  Faults = {"create"}
INVARIANTS
  OneBooking
CHECK_DEADLOCK FALSE
