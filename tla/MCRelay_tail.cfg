\* A tail twice as long as the rule, and chunks that may be longer than it.
SPECIFICATION RelaySpec
CONSTANTS
  MAX_TAIL_BYTES = 8
  MAX_JSON_PARSE_ATTEMPTS = 3
  MaxU64 = 7
  UsageKeys <- MCUsageKeys
  MessageKeys <- MCMessageKeys
  UsageObject <- MCUsageObject
  MAX_TAIL = 6
  MaxChunk = 8
  Rules <- MCRules
  Bodies <- MCBodies
INVARIANT NoMatchIsRelayed
