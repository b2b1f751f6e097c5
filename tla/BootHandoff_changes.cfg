SPECIFICATION Spec
CHECK_DEADLOCK FALSE
CONSTANTS
  Layouts <- SmallLayouts
  PageBytes = 4
  WordSize = 16
  MaxChanges = 4
  Faults = {"locate", "volume", "open", "alloc", "read", "map", "exit"}
  Quirks = {"locate", "volume", "open", "map"}
  StaleStatuses <- InvalidParameter
  ImageSizes = {"empty", "fits", "too_big"}
INVARIANTS
  TypeOK
  KernelMemoryMatches
  NoCallAfterExit
  RetriesOwedToChanges
  FilesClosed
  JumpIsSafe
  InterruptsStayMasked
PROPERTIES
  HandoffEnds
  KernelReached
