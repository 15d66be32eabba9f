CONSTANTS
  h1 = h1
  h2 = h2
  h3 = h3
  None = None
  Handles <- TwoHandles
  MaxDepth = 3
  AuditCanFail = FALSE
SPECIFICATION FairSpec
INVARIANTS ExitClearsKeys
CHECK_DEADLOCK FALSE
