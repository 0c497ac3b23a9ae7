CONSTANTS
  Stages = {1, 2}
  Size <- MCSize
  Words = {0, 1, 2}
  Contents <- MCContents
SPECIFICATION FairSpec
INVARIANTS LoadTypeOK LoadsChanges LoadsMemory
PROPERTIES LoadsAsSpecified LoadEnds
