SPECIFICATION Spec
CHECK_DEADLOCK FALSE
CONSTANTS
  Chars = {"a", "b"}
  Requests <- NameAndPassword
  Prompt <- Colon
  MayKeep = TRUE
  Waiting = 2
  MaxKeys = 5
  MaxLines = 2
INVARIANTS
  TypeOK
  ScreenShowsLine
  LinesAreTyped
PROPERTY
  EnterEndsLine
