SPECIFICATION Spec
CHECK_DEADLOCK FALSE
CONSTANTS
  Layouts <- SmallLayouts
  PageBytes = 4
  WordSize = 16
  MaxChanges = 1
  Faults = {}
  Quirks = {"map"}
  StaleStatuses <- InvalidParameter
  ImageSizes = {"fits"}
INVARIANT
  ExitedBeforeKernel
