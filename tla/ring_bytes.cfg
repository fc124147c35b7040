SPECIFICATION Spec
CONSTANTS
  Size = 16
  Unit = 0
  Lens <- SingleBytes
  Calls <- Software
  Stamps = 32
INVARIANTS
  FreeWord
