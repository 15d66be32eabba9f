CONSTANTS
  t1 = t1
  t2 = t2
  b1 = b1
  b2 = b2
  w1 = w1
  w2 = w2
  move = move
  press = press
  Free = Free
  NoRotation = NoRotation
  Never = Never
  Threads <- MCThreads
  Blocks <- MCBlocks
  Passes = 2
  Watchers <- MCWatchers
  Timeouts <- MCTimeouts
  Kinds <- MCKinds
  AcceptedKinds <- MCAccepted
  MaxClock = 3
  MaxRows = 2
  Stamps <- MCStamps
  MaxEntries = 1
  MaxAge = 0
  Period = 1
  Retention = 1
  Groups <- MCGroups
  Chars <- MCChars
  Ambiguous <- MCAmbiguous
  Lengths <- MCLengths
  Tries = 2
  HistorySize = 1
  Bits <- MCBits
  Thresholds <- MCThresholds
  Strong = 2
  Alphabet <- MCAlphabet
  RunLength = 2
  Fragments <- MCFragments
SPECIFICATION Spec
INVARIANTS WipedForGood LockJustified ArchiveCovers GeneratorSound
PROPERTIES WatchKept
