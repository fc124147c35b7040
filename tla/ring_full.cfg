SPECIFICATION Spec
CONSTANTS
  Size = 12
  Unit = 3
  Lens <- OneToNine
  Calls <- Software
  Stamps = 24
INVARIANTS
  NoCatchUp
