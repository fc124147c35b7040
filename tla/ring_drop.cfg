SPECIFICATION Spec
CONSTANTS
  Size = 12
  Unit = 3
  Lens <- OneToNine
  Calls <- AllCalls
  Stamps = 24
INVARIANTS
  TypeOK
PROPERTIES
  ImplementsFifo
