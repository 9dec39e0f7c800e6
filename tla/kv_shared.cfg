\* Two threads, two options: every overlap of two calls, with a snapshot that
\* can tear if it is not taken under the lock.
SPECIFICATION Spec
CONSTANTS
  Threads = {t1, t2}
  Owner = t1
  Keys = {k1, k2}
  Vals = {blank, v}
  Blank = blank
  None = none
INVARIANTS
  TypeOK
  NoDataRace
  KnownPresent
  IInv
PROPERTIES
  AtomicMap
  SomeoneCompletes
