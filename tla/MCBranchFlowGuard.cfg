CONSTANTS
  s1 = s1
  s2 = s2
  s3 = s3
  Sha = {s1, s2, s3}
  Url = "url"
  Note = "note"
  Bodies <- AllBodies
  Heads <- MCHeads
  Keys = {TRUE, FALSE}
  Required = {TRUE, FALSE}
  RETRIES = 1
  MaxAttempts = 4
SPECIFICATION MCSpec
INVARIANT TypeOK
INVARIANT MergesByTheRules
INVARIANT GoodIsMergeable
SYMMETRY Commits
CHECK_DEADLOCK FALSE
