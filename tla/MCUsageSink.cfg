\* Four rows through a channel of two, with the attempts of the code. Temporal
\* properties are checked, so no symmetry. The system stops once every row is
\* pushed and the flusher has ended.
CONSTANTS
  Rows = {m1, m2, m3, m4}
  BUFFER_SIZE = 2
  MAX_ATTEMPTS = 3
  NoRow = NoRow
SPECIFICATION Spec
INVARIANTS ExactlyOnePlace DropsCounted DeliveredIsRecorded
PROPERTY ImplementsDelivery
CHECK_DEADLOCK FALSE
