CONSTANTS
  Kinds <- TwoKinds
  Bodies <- TwoBodies
  Invalid = {"badregex"}
  ZeroRv = {"ingress"}
  TlsKind = "secret"
  MaxRev = 3
  MaxFails = 2
  Absent = Absent
  NoFingerprint = NoFingerprint
SPECIFICATION FairSpec
INVARIANTS NotMasked OneHookPerEpisode
PROPERTIES Converges RotationSurfaced
\* After SnapshotTimeout the process has exited.
CHECK_DEADLOCK FALSE
