\* A plain and a secure option, every choice of sources for each of them, and
\* a second load over the outcome of the first.
SPECIFICATION Spec
CONSTANTS
  Keys = {k, s}
  Secure = {s}
  MaxLoads = 2
  MaxWrites = 1
INVARIANTS
  TypeOK
  LoadedValues
  OneKeyInBetween
PROPERTIES
  LoadEnds
\* The process stops when RapidJSON's assertion fails.
CHECK_DEADLOCK FALSE
