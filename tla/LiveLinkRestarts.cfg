SPECIFICATION LinkSpec
CONSTANTS
  MaxSocket = 4
  MaxSession = 2
  MaxSeq = 1
  BufferCap = 1
  MaxGoAway = 0
  Client = "android"
INVARIANTS NoDuplicate
\* The bounds run out, and a client may stay away for good.
CHECK_DEADLOCK FALSE
