CONSTANTS
  a = a
  b = b
  c = c
  v1 = v1
  v2 = v2
  clipboard = clipboard
  Absent = Absent
  Ids <- MCIds
  ReadOnly <- MCReadOnly
  Values <- MCValues
  Default <- v1
  Settings <- MCSettings
  MaxGen = 2
  Ttl = 1
SPECIFICATION Spec
INVARIANTS Readable ListIsCurrent
PROPERTIES KeepsPromise
