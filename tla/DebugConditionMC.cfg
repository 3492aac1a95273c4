SPECIFICATION Spec
CONSTANTS
  None = None
  Addr <- MCAddr
  Following <- MCFollowing
  Code <- MCCode
  LineAddr <- MCLineAddr
  EntryPc = 0
  AppStart = 1
  Unmapped = {0, 6}
  Versions = {"v1", "v2"}
  Lines = {"a", "b"}
  Chunk = 2
  StepOverMax = 3
  StepOutMax = 3
  MaxStack = 2
  MaxDepth = 2
  MaxLag = 0
  Requests = {}
  PcEdits = {}
  Conditions = {"bad"}
PROPERTY BadConditionStops
CHECK_DEADLOCK FALSE
