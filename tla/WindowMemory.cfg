CONSTANTS
  Length = 2
  FrameWidth = 3
  Modulus = 8
  Pixels = {1, 5}
  MaxPixels = 11
SPECIFICATION Spec
INVARIANTS MemoryTypeOK IntegralImage ReadyWhenFull
