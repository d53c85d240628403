SPECIFICATION LinkSpec
CONSTANTS
  MaxSocket = 3
  MaxSession = 1
  MaxSeq = 2
  BufferCap = 2
  MaxGoAway = 1
  Client = "web"
INVARIANTS Attended NoSilentLoss EndReachesClient
PROPERTIES InOrder
\* The bounds run out, and a client may stay away for good.
CHECK_DEADLOCK FALSE
