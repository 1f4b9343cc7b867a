CONSTANTS
  Base <- MCBase
  DefaultBases <- MCDefaultBases
  Draw <- MCDraw
  Recorded <- MCRecorded
  Commands <- MCCommands
  Outcomes <- MCOutcomes
  Iter = {0, 1, 2}
  Torn = Torn
  Absent = Absent
  MaxDeaths = 2
SPECIFICATION Spec
INVARIANT ReportKept
PROPERTY Implements
