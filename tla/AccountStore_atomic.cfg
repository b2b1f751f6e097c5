SPECIFICATION Spec
CONSTANTS
  MaxUsers = 2
  AdminName = admin
  AdminPassword <- Fisix
  Empty = empty
  Junk = junk
  Names = {admin, joe, eve}
  Chars = {"f", "i", "s", "x"}
  NUL = "NUL"
  TextMax = 3
  Passwords <- TwoPasswords
  Blocks <- OneBlock
  BlockOf <- AllInOne
  Faults = {"open", "write", "flush"}
INVARIANTS
  TypeOK
  TableConsistent
PROPERTY
  ImplementsLedger
