CONSTANTS
  s1 = s1
  s2 = s2
  other = other
  Empty = Empty
  NoSecret = NoSecret
  Never = Never
  NoToken = NoToken
  Unreadable = Unreadable
  Others <- MCOthers
  Configs <- Timed
  Secrets <- MCSecrets
  ReadsFail = FALSE
SPECIFICATION MFairSpec
PROPERTY CopyTimesOut
