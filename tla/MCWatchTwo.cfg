SPECIFICATION Spec
CONSTANTS
  Readers = {r1, r2}
  MaxChanges = 0
INVARIANTS ReleasedOnce NoUseAfterFree NoWatchOutlivesOwner ProxyNeverRaces
SYMMETRY Symmetry
CHECK_DEADLOCK FALSE
