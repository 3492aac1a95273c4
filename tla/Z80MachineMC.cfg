SPECIFICATION Spec
CONSTANTS
  Imm8 <- Imm8Values
  Imm16 <- Imm16Values
  Disp <- Displacements
  PrivateLabels <- PrivateNames
  Jobs <- AllJobs
INVARIANTS
  TypeOK
  AssembledAsWritten
  LabelsPointAtTheirBytes
  StepInfoIsTrue
  DecimalArithmetic
  BlockCopyExact
  EffectsCoverExecution
  PreservedIsPreserved
  LossesAreReported
CHECK_DEADLOCK FALSE
