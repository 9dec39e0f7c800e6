\* Two threads that look services up beside the owner, two objects of each kind.
SPECIFICATION Spec
CONSTANTS
  Workers = {w1, w2}
  v1 = v1
  key = key
  slashes = slashes
  Keys = {key, slashes}
  Values = {v1, v2}
  Comments = {slashes}
  NoEq = NoEq
  None = None
  NA = NA
  Args <- AllArgs
  Files <- AllFiles
  Null = Null
  MaxObjects = 2
INVARIANTS
  TypeOK
  HeldAreLive
  Owned
  ParsedAsWritten
\* The profile is destroyed, or its process crashes.
CHECK_DEADLOCK FALSE
