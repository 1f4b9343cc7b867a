CONSTANTS
  s1 = s1
  s2 = s2
  s3 = s3
  Sha = {s3}
  Url = "url"
  Note = "note"
  Bodies <- OneBody
  Heads <- Asking
  Keys = {TRUE}
  Required = {TRUE, FALSE}
  RETRIES = 3
  MaxAttempts = 2
SPECIFICATION Spec
PROPERTY AttemptsEnd
CHECK_DEADLOCK FALSE
