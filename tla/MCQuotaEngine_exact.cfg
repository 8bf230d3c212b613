\* One infinite window, never idle long enough to be evicted. All requests end,
\* so the model may stop.
CONSTANTS
  r1 = r1
  r2 = r2
  r3 = r3
  Requests <- MCRequests
  Keys = {k1, k2}
  Specs <- OneInfinite
  Ests = {1, 3}
  Actuals = {0, 2, 6}
  IdleMs = 9
  U64Max = 30
  MaxNow = 1
  NoCounter = NoCounter
SYMMETRY MCSymmetry
SPECIFICATION Spec
INVARIANTS UsedIsExact HardBudget
CHECK_DEADLOCK FALSE
