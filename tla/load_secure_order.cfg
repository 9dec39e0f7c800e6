SPECIFICATION Spec
CONSTANTS
  Keys = {s}
  Secure = {s}
  MaxLoads = 1
  MaxWrites = 0
INVARIANTS
  SecureOrder
CHECK_DEADLOCK FALSE
