CONSTANTS
  Retries = 3
  Timeout = 2
  ImageBytes = 10
  ChunkBytes = 8
  MaxRuns = 3
SPECIFICATION Spec
INVARIANTS TypeOK Released SuccessIsConfigured StreamsToOpenPort
PROPERTY Ends
CHECK_DEADLOCK FALSE
