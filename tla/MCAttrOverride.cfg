SPECIFICATION Spec
CONSTANTS
  Keys = {"k", "j"}
  Fallback = {"j"}
  Sources <- MCSources
  MaxReloads = 2
  MaxLines = 3
INVARIANT ScriptsOverride
CHECK_DEADLOCK FALSE
