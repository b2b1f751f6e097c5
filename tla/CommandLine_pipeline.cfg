SPECIFICATION Spec
CHECK_DEADLOCK FALSE
CONSTANTS
  Inputs <- SmallInputs
  EchoName <- E1
  GrepName <- G1
  MaxArgs = 3
  MaxPieces = 3
INVARIANT
  PipelinePrintsText
