CONSTANTS
  k1 = k1
  k2 = k2
  k3 = k3
  Keys = {k1, k2, k3}
  MaxAttempts = 2
  MaxPolls = 1
SPECIFICATION Spec
INVARIANTS
  StatusOnScreen
CHECK_DEADLOCK FALSE
