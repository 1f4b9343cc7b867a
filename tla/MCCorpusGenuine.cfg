CONSTANTS
  Labels <- MCLabels
  Chained <- MCChained
  Cases <- MCCases
  Parts <- MCParts
  Absent = Absent
  Torn = Torn
  Genuine = Genuine
  MaxKills = 1
SPECIFICATION Spec
INVARIANT EverythingGenuine
