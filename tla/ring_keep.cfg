SPECIFICATION Spec
CONSTANTS
  Size = 16
  Unit = 0
  Lens <- OneToNine
  Calls <- Software
  Stamps = 32
INVARIANTS
  NoCatchUp
PROPERTIES
  ImplementsFifo
CHECK_DEADLOCK FALSE
