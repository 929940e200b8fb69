CONSTANTS
  Owners = {a}
  Ids = {x, y}
  Sizes = {1, 2}
  Inodes = {f1, f2, f3, f4}
  NoFile = NoFile
  Workers = {w1, w2}
  Quota = 2
  Ttl = 1
  MaxNow = 2
  MaxTries = 3
  MaxCrashes = 1
SPECIFICATION FairSpec
INVARIANTS
  UploadedIsThere
  NoFileLeftBehind
  WithinQuota
PROPERTIES
  FilesGo
CHECK_DEADLOCK FALSE
