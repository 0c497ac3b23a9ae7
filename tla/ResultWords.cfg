CONSTANTS
  NumVariable = 3
  NumWords = 4
  Width = 2
  Height = 2
SPECIFICATION FairSpec
INVARIANTS WordsTypeOK StableImage
PROPERTIES PixelsSpaced ResultWhole ReadyAgain
