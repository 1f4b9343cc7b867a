CONSTANTS
  CaseId <- MCCaseId
  Outcomes <- TaskOutcomes
  Invocations = {}
  Suites <- MCSuites
  Base <- Prod
  Cell = {"c31pem", "c10der"}
  DefaultMarshal = "c31pem"
SPECIFICATION TaskSpec
INVARIANT CalibrationTrusted
CHECK_DEADLOCK FALSE
