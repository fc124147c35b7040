SPECIFICATION FairSpec
CONSTANTS
  WetCountThreshold = 2
  ThresholdL = 120
  ThresholdH = 1450
  MayFail = {"role", "voltage"}
INVARIANTS
  TypeOK
  ProtectedWhenWet
  VbusAgrees
  UsableMemory
PROPERTIES
  Debounced
  WetReported
  DryReported
  ShutdownEnds
