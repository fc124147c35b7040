SPECIFICATION Spec
CONSTANTS
  Threads = {t1, t2}
  Reboot = reboot
  Requests <- TwoKinds
  BootReasons <- PowerKey
  MayFail = FALSE
INVARIANTS
  NoLostReason
