SPECIFICATION FairSpec
CONSTANTS
  Nobody = nobody
  Irq = irq
  Boots = {boot}
  Metrics = metrics
  Debugfs = {dbg}
  Firmwares <- OneImage
  MaxTries = 2
  MaxBoots = 2
INVARIANTS
  TypeOK
  HeaderOwned
  PointersGood
  MetricsApart
PROPERTIES
  LosesUnreached
  LoadEnds
  UserEnds
CHECK_DEADLOCK FALSE
