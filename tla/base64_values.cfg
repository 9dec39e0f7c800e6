\* Bytes with no bit, every bit, and alternating bits in both ways.
SPECIFICATION Spec
CONSTANTS
  Samples = {0, 255, 85, 170}
  Messages <- ShortMessages
INVARIANTS
  TypeOK
  LoopInv
  Decoded
\* The decoder returns.
CHECK_DEADLOCK FALSE
