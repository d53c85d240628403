SPECIFICATION Spec
CONSTANTS
  MaxAttempts = 2
  Lockout = 1
  CodeTTL = 0
  MaxUpdate = 3
  MaxCode = 2
  MaxTime = 1
  MaxLoop = 2
INVARIANTS HandledOnce
PROPERTIES GuessesAreLimited EveryUpdateTaken
\* The bounds run out, and the bridge may be left off.
CHECK_DEADLOCK FALSE
