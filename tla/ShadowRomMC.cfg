\* A monitor that the program image has at the bottom only, and a reset.
SPECIFICATION Spec
CONSTANTS
  None = None
  Key = {2}
  FnKey = 2
  Hold = 1
  MaxStretch = 1
  Row = {2}
  Col = {}
  ScanBound = 1
  BlockSize = 2
  ImageSize = 3
  CardArg = {0}
  CardBlock <- MCBlocks
  MaxTries = 8
  Boards <- BottomRom
  SysCtrl <- MCSysCtrl
  Written = 20
  ChipCommand = {128}
  ChipByte = {0}
  Instant <- MCInstants
  MaxBurst = 1
  Focuses = {"memory"}
INVARIANT RomShadowed
CHECK_DEADLOCK FALSE
