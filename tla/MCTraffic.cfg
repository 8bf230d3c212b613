\* The bounds of the three components. MaxChunk exceeds MAX_TAIL.
CONSTANTS
  Keys = {"ip", "consumer"}
  SpecsOf <- OneSpecEach
  Token = 3
  Idle = 3
  Lag = 1
  MaxNow = 7
  NoBucket = NoBucket
  Requests = {q1, q2}
  Tables <- SomeTables
  NoTable = NoTable
  MAX_TAIL_BYTES = 8
  MAX_JSON_PARSE_ATTEMPTS = 3
  MaxU64 = 7
  UsageKeys <- MCUsageKeys
  MessageKeys <- MCMessageKeys
  UsageObject <- MCUsageObject
  MAX_TAIL = 6
  MaxChunk = 8
  Rules <- MCRules
  Bodies <- MCBodies
SPECIFICATION TrafficSpec
SYMMETRY Symmetric
INVARIANTS
  WindowBound RetryAfterHonest WeightsBounded Smooth RowIsChunkingIndependent TailIsClean
