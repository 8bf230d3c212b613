CONSTANTS
  None = None
  EmptyKey = EmptyKey
  Malformed = Malformed
  ChatRe = "chat"
  MaxDepth = 2
  ChunkSize = 25
  MaxHops = 2
  AuthToken = AuthToken
  Regexes <- MCRegexes
  Requests <- MCRequests
  Snapshots <- MCSnapshots
  Router <- MCRouter
  Segment <- MCSegment
  Completions <- MCCompletions
  Providers <- MCProviders
  Actions <- MCActions
  Verdicts <- MCVerdicts
SPECIFICATION Spec
INVARIANTS
  BodyRewrittenExactly OverlayIsTransparent CredentialsAreTheGateways RoutedModelIsAuthorized
