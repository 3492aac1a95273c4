\* A session whose ROM fails to assemble ends before its platform event.
SPECIFICATION Spec
CONSTANTS
  Session = {s1, s2}
  Source = {"main", "lib"}
  None = None
  MaxSaves = 3
  Platform = {"simple", "tec1g"}
  Simple = "simple"
  MaxSerial = 2
  MaxBuffer = 2
  MaxEscape = 3
  MaxSent = 4
  MaxAlive <- MCMaxAlive
INVARIANTS
  RunDisabledOnlyWhileStarting
CHECK_DEADLOCK FALSE
