SPECIFICATION Spec
CONSTANTS
  MaxUsers = 2
  AdminName = admin
  AdminPassword <- Fi
  Empty = empty
  Junk = junk
  Names = {admin, joe}
  Chars = {"f", "i", "x"}
  NUL = "NUL"
  TextMax = 2
  Passwords <- ShortPasswords
  Blocks <- TwoBlocks
  BlockOf <- Straddling
  Faults = {"open", "write", "flush", "boot"}
INVARIANTS
  PromiseKept
  AdminSlot
