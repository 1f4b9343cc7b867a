CONSTANTS
  Buffers <- MCBuffers
  Body <- MCBody
  String <- MCString
  Envelopes <- MCEnvelopes
  Docs <- MCDocs
  Lines <- MCLines
  s1 = s1
  s2 = s2
  Sha = {s1, s2}
  Url = "url"
  Note = "note"
  MaxLines = 5
SPECIFICATION ReadersSpec
INVARIANT TypeOK
INVARIANT ReadExact
INVARIANT PeekAgrees
INVARIANT SignedIsRead
INVARIANT ScanExact
INVARIANT ScanAgrees
INVARIANT TemplateIsHarmless
CHECK_DEADLOCK FALSE
