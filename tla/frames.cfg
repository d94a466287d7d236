SPECIFICATION Spec
CONSTANTS
  Scenarios <- MCScenarios
  MaxHeaderLines = 3
  MaxLineLength = 6
  MaxBodyLength = 4
  MaxBodyChunkLength = 2
  BufferSize = 12
  MaxErrorLength = 1
  Alphabet <- MCAlphabet
INVARIANTS
  TypeOK
  FramesParsed
  RoundTrip
  FramesAligned
  LimitsExact
  ConnectHeaderIntact
  AckedIsRead
  NothingUnread
