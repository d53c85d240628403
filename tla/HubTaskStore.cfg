CONSTANTS
  Process = {p1, p2, p3}
  TaskKey = {k1, k2}
  Arg = {a1, a2}
  None = None
SPECIFICATION StoreSpec
INVARIANTS OneOwner LeftOnlyByCrash
PROPERTIES KeepsPromise
CHECK_DEADLOCK FALSE
