SPECIFICATION Spec
CONSTANTS
  Nobody = nobody
  Readers = {r1, r2}
  Cap = 2
  NCpus = 2
  Lens <- ShortAndLong
  Counts <- SmallAndEnough
  MaxWrites = 3
VIEW WithoutDeadLocals
INVARIANTS
  TypeOK
  NoEmptyRead
  ReadInOrder
  WholeEntry
  NoLostWakeup
