-------------------------- MODULE LifeCycleRecord --------------------------
(***************************************************************************)
(* What the sign-of-life driver promises as long as its operations do not  *)
(* overlap: one persistent reason per kind.  A reason is recorded and then *)
(* committed; a boot that finds a committed record shows exactly the       *)
(* reason the record calls for; a boot that finds one whose last operation *)
(* was cut short shows that reason or reports that the check failed.       *)
(***************************************************************************)
EXTENDS SolReasons

CONSTANT BootReasons

VARIABLES
  record,     \* the code recorded for each kind
  committed,  \* no operation on the record is unfinished
  booted,     \* the reason of this boot has been selected
  shown       \* that reason
recordVars == <<record, committed, booted, shown>>

Init ==
  /\ record = [k \in Kind |-> 0]
  /\ committed = TRUE
  /\ booted = FALSE
  /\ shown = NOT_AVAILABLE

(* The reason a record calls for, b being the command line's boot reason.  *)
Calls(b) ==
  SelectReason([k \in Kind |->
    IF k = "BOOT" /\ search_lcr_by_rtc(k, record[k]) = NOT_AVAILABLE THEN b
    ELSE search_lcr_by_rtc(k, record[k])])

Report(b) ==
  /\ ~booted
  /\ booted' = TRUE
  /\ \/ shown' = Calls(b)
     \/ ~committed /\ shown' = RTC_CHECK_FAIL
  /\ UNCHANGED <<record, committed>>

(* Recording a reason, or clearing one (code 0), during a boot.            *)
Record(k, c) ==
  /\ booted
  /\ record' = [record EXCEPT ![k] = c]
  /\ committed' = FALSE
  /\ UNCHANGED <<booted, shown>>

Commit ==
  /\ booted
  /\ committed' = TRUE
  /\ UNCHANGED <<record, booted, shown>>

Down ==
  /\ booted
  /\ booted' = FALSE
  /\ shown' = NOT_AVAILABLE
  /\ UNCHANGED <<record, committed>>

Next ==
  \/ \E b \in BootReasons : Report(b)
  \/ \E k \in Kind, c \in Code : Record(k, c)
  \/ Commit
  \/ Down

Spec == Init /\ [][Next]_recordVars
=============================================================================
