CONSTANTS
  NumStages = 2
  Params = 5
  Thresholds = 3
  MaxSize = 2
  Held <- HeldParams
  HeldValues = 4
  DefaultValue = 5
  Words <- Digits
  Builds <- Cascades
SPECIFICATION FairSpec
INVARIANTS CascadeTypeOK StreamAligned VerdictFounded FirstRejects NoFaceUnwired
PROPERTIES EvaluatedWith ComparedWith NoVerdictLeft InspectionEnds
