SPECIFICATION Spec
CONSTANTS
  Vectors = {0, 2, 8, 14, 15}
  StubAt <- SmallAddresses
  Half = 4
  CodeSelectors = {8}
  MaxNesting = 2
INVARIANTS
  TypeOK
  Transparent
  CallAligned
  ContextIsRight
  ServedBeforeReturn
