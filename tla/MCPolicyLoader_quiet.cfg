\* The file changes only between reloads; the poll and a forced reload overlap.
CONSTANTS
  Poller = Poller
  Admins = {a1}
  None = None
  BadRules = {"bad"}
  Policies <- MCPolicies
  Names <- MCNames
  Blank = Blank
  Malformed = Malformed
  NoFile = NoFile
  RacyEdits = FALSE
  MaxEdits = 3
  MaxIoErrors = 1
SPECIFICATION LoaderSpec
INVARIANT EffectivePolicyIsDocumented
PROPERTIES NoSilentDowngrade FollowsFile
