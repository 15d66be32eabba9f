CONSTANTS
  s1 = s1
  s2 = s2
  other = other
  Empty = Empty
  NoSecret = NoSecret
  Never = Never
  NoToken = NoToken
  Unreadable = Unreadable
  Others <- MCOthers
  Configs <- MCConfigs
  Secrets <- MCSecrets
  ReadsFail = TRUE
SPECIFICATION MFairSpec
INVARIANTS DeadlineIsArmed NoSecretLeftBehind StatusHonest
PROPERTIES PromiseKept EventuallyCleared NoFalseAlarmAtRest WatchedChangeNoticed
