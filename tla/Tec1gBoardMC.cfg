\* One device at a time under resets: keys pressed over one another, keyboards
\* scanned while they change, a card and a clock chip cut off at any bit.
SPECIFICATION Spec
CONSTANTS
  None = None
  Key = {2, 18}
  FnKey = 2
  Hold = 3
  MaxStretch = 2
  Row = {2, 3, 4}
  Col = {0}
  ScanBound = 3
  BlockSize = 2
  ImageSize = 3
  CardArg = {0, 1}
  CardBlock <- MCBlocks
  MaxTries = 8
  Boards <- MCBoards
  SysCtrl <- MCSysCtrl
  Written = 20
  ChipCommand = {128, 142, 191, 254, 255}
  ChipByte = {0, 129}
  Instant <- MCInstants
  MaxBurst = 2
  Focuses = {"keypad", "matrix", "card", "memory", "clock"}
INVARIANTS
  TypeOK
  KeypadShowsLastPress
  ScanIsOneMoment
  CardAnswers
  MemoryIsMapped
  ClockChipAnswers
CHECK_DEADLOCK FALSE
