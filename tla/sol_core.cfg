SPECIFICATION Spec
CONSTANTS
  Threads = {t1}
  Reboot = reboot
  Requests <- LongPress
  BootReasons <- PowerKey
  MayFail = TRUE
VIEW WithoutDeadHistory
INVARIANTS
  TypeOK
  NoInventedReason
  SerialRecordExact
  SerialParityRight
  ReportExact
  ReportAsked
PROPERTIES
  ImplementsRecord
