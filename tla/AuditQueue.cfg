CONSTANTS
  tk = tk
  timer = timer
  e1 = e1
  e2 = e2
  e3 = e3
  NoEvent = NoEvent
  Stop = Stop
  Producers <- MCProducers
  Events <- MCEvents
SPECIFICATION FairSpec
INVARIANT NoSilentLoss
PROPERTIES ClosedComplete CloseEndsIfQuiet
CHECK_DEADLOCK FALSE
