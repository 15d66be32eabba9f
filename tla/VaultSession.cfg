CONSTANTS
  h1 = h1
  h2 = h2
  h3 = h3
  None = None
  Handles <- MCHandles
  MaxDepth = 3
  AuditCanFail = TRUE
SPECIFICATION FairSpec
INVARIANTS SessionWhole LockedHoldsNothing
PROPERTIES QuietAfterPanic LockHappens
CHECK_DEADLOCK FALSE
