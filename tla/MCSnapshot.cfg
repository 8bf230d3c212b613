CONSTANTS
  None = None
  EmptyKey = EmptyKey
  BadLine = BadLine
  Malformed = Malformed
  ChatRe = "chat"
  AnyRe = "any"
  BrokenRe = "broken"
  U16 = 65536
  Regexes <- MCRegexes
  mirror_name <- MCMirror
  Objects <- MCObjects
  Rules <- MCRules
  Paths <- MCPaths
  MaxObjects = 4
  MaxRoutes = 3
SPECIFICATION Spec
INVARIANTS
  LiveIsGreatestConsistent FaultIsContained RequestsStayInTheirKeySpace
  FallbackIsWired RegistriesResolve PluginRulesAreFollowed
\* The longest list and the longest snapshot end a behaviour.
CHECK_DEADLOCK FALSE
