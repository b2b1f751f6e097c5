SPECIFICATION Spec
CHECK_DEADLOCK FALSE
CONSTANTS
  Autoexec <- BootLines
  Scripts <- SmallScripts
  Lines <- SmallLines
  Users = {"admin", "joe"}
  Drives = {"B", "C", "Z"}
  MaxEditorLines = 2
  MaxDepth = 6
INVARIANT
  DriveSet
