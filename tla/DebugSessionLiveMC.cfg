SPECIFICATION FairSpec
CONSTANTS
  None = None
  Addr <- MCAddr
  Following <- MCFollowing
  Code <- MCCode
  LineAddr <- MCLineAddr
  EntryPc = 0
  AppStart = 1
  Unmapped = {0, 6}
  Versions = {"v1"}
  Lines = {"a"}
  Chunk = 2
  StepOverMax = 3
  StepOutMax = 3
  MaxStack = 2
  MaxDepth = 2
  MaxLag = 0
  Requests = {"reset"}
  PcEdits = {}
  Conditions = {"cond", "bad"}
PROPERTY RequestsAreAnswered
CHECK_DEADLOCK FALSE
