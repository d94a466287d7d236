SPECIFICATION Spec
CONSTANTS
  Scenarios <- TooLargeScenarios
  MaxHeaderLines = 3
  MaxLineLength = 6
  MaxBodyLength = 4
  MaxBodyChunkLength = 2
  BufferSize = 12
  MaxErrorLength = 1
  Alphabet <- MCAlphabet
INVARIANT BodyFullyRead
