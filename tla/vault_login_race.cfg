SPECIFICATION Spec
CONSTANTS
  Threads = {t1, t2}
  Kinds = {"get_opt"}
INVARIANTS
  WaitsForLogin
CHECK_DEADLOCK FALSE
