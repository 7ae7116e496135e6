SPECIFICATION Spec
CONSTANTS
  Readers = {r1}
  MaxChanges = 3
INVARIANTS NoDeadThreadUsed WireOrder
PROPERTIES CloseCompletes RemovalSent
CHECK_DEADLOCK FALSE
