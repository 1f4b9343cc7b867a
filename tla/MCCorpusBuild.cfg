CONSTANTS
  Labels <- MCLabels
  Chained <- MCChained
  Cases <- MCCases
  Parts <- MCParts
  Absent = Absent
  Torn = Torn
  Genuine = Genuine
  MaxKills = 2
SPECIFICATION Spec
INVARIANT BodiesGenuine
INVARIANT PickedIsWhole
