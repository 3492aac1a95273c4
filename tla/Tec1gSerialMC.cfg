\* Both directions on one clock with a reset; PollGap is the most TimingAssumption allows.
SPECIFICATION FairSpec
CONSTANTS
  DataBits = 2
  StopBits = 1
  HalfBit = 2
  TxBit = 4
  RxBit = 4
  MaxStretch = 2
  PollGap = 2
  BootTime = 21
  TxBytes <- MCTxByte
  Texts <- MCTexts
  MaxSent = 2
  MaxQueued = 3
  MaxResets = 1
INVARIANTS
  TypeOK
  DecoderIsServed
PROPERTIES
  HostHearsProgram
  ProgramHearsHost
  BytesArrive
