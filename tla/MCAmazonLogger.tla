--------------------------- MODULE MCAmazonLogger ---------------------------
(* The instance of AmazonLogger for TLC.  An entry of 13 bytes has a       *)
(* length that the ring buffer pads; one of 5000 is longer than the        *)
(* payload limit.                                                          *)
EXTENDS AmazonLogger

ShortAndLong == {13, 5000}
SmallAndEnough == {20, 4096}

(***************************************************************************)
(* What the rest of a behaviour and the invariants depend on.  Between two *)
(* reads the locals of a reader are dead, and so is cpu where a loop over  *)
(* the CPUs is about to begin; of a return value only a 0 matters; no      *)
(* action looks at wret.                                                   *)
(***************************************************************************)
LiveCount(r) == IF pc[r] = "idle" THEN 0 ELSE count[r]
LiveCpu(r) == IF pc[r] \in {"idle", "wait", "flag", "sleep", "lock"} THEN 0 ELSE cpu[r]
WithoutDeadLocals ==
  <<buf, pend, n, waitVars, mutex, pc, event, out,
    [r \in Readers |-> <<LiveCount(r), LiveCpu(r), ret[r] = 0>>]>>
=============================================================================
