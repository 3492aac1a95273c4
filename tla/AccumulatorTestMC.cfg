SPECIFICATION Spec
CONSTANTS
  Imm8 <- Imm8Values
  Imm16 <- Imm16Values
  Disp <- Displacements
  PrivateLabels <- PrivateNames
  Jobs <- AccumulatorJobs
INVARIANTS
  LossesAreReported
CHECK_DEADLOCK FALSE
