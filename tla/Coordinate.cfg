CONSTANTS
  NumVariable = 1
  NumWords = 2
  Width = 3
  Height = 1
  Pixels = {7, 9}
  Image <- MCImage
  MaxResults = 1
  MaxRuns = 1
SPECIFICATION Spec
INVARIANT CountsPixels
