CONSTANTS
  CaseId <- MCCaseId
  Outcomes <- MCOutcomes
  Invocations <- MCInvocations
  Suites <- MCSuites
  Base <- Prod
  Cell = {"c31pem", "c10der"}
  DefaultMarshal = "c31pem"
SPECIFICATION MCSpec
INVARIANT TypeOK
INVARIANT RunHonest
INVARIANT TaskHonest
INVARIANT DefaultTrusted
CHECK_DEADLOCK FALSE
