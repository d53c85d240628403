CONSTANTS
  MaxQueued = 2
  MaxTurns = 4
  Operator = Operator
  None = None
SPECIFICATION PhoneSpec
INVARIANTS Consistent OwnReply
PROPERTIES StartsInOrder EveryPhoneTurnEnds ImplementsRemoteTurns
CHECK_DEADLOCK FALSE
