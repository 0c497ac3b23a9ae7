CONSTANTS
  NumVariable = 0
  NumWords = 2
  Width = 2
  Height = 2
  Pixels = {7, 9}
  Image <- MCImage
  MaxResults = 1
  MaxRuns = 2
SPECIFICATION Spec
INVARIANT MemoryTakesSentPixel
PROPERTIES CoordinateStands DrivesFrameControl
