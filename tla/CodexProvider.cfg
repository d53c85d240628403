CONSTANTS
  MaxPrompt = 3
  MaxChild = 2
  MaxAsk = 1
SPECIFICATION Spec
INVARIANTS Consistent OwnAnswer NeverBothWays YesReachesItsRequest
PROPERTIES EveryPromptEnds
CHECK_DEADLOCK FALSE
