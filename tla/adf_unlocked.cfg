SPECIFICATION Spec
CONSTANTS
  Nobody = nobody
  Irq = irq
  Boots = {boot}
  Metrics = metrics
  Debugfs = {dbg}
  Firmwares <- OneImage
  MaxTries = 2
  MaxBoots = 3
INVARIANTS
  CrashReadLocked
CHECK_DEADLOCK FALSE
