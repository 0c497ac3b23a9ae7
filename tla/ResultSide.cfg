CONSTANTS
  NumVariable = 1
  NumWords = 8
  Width = 2
  Height = 1
  Pixels = {7, 9}
  Image <- MCImage
  MaxResults = 2
  MaxRuns = 1
SPECIFICATION ReadsSpec
INVARIANTS TypeOK KeepsOneWord
