CONSTANTS
  NumVariable = 1
  NumWords = 2
  Width = 2
  Height = 1
  Pixels = {2, 7}
  Image <- MCImageTwo
  MaxResults = 1
  MaxRuns = 1
SPECIFICATION Spec
INVARIANT MemoryTakesSentPixel
