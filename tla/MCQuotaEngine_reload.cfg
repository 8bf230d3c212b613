\* Three requests on one key across two windows, with eviction and hot reload;
\* a reported total may reach the top of the u64 range.
CONSTANTS
  r1 = r1
  r2 = r2
  r3 = r3
  Requests <- MCRequests
  Keys = {k1}
  Specs <- Reloaded
  Ests = {2}
  Actuals = {1, 6}
  IdleMs = 1
  U64Max = 6
  MaxNow = 3
  NoCounter = NoCounter
SYMMETRY MCSymmetry
SPECIFICATION Spec
INVARIANTS EstWithinUsed NoLeakedEstimate
