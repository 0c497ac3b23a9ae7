CONSTANTS
  Width = 6
  Height = 5
SPECIFICATION Spec
INVARIANT ResizeTypeOK
PROPERTY KeepsGrid
