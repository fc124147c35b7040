---------------------------- MODULE MCSignOfLife ----------------------------
(***************************************************************************)
(* Instances of SignOfLife for TLC.  The code of the SOC reason has even   *)
(* parity, the others have odd parity.                                     *)
(***************************************************************************)
EXTENDS SignOfLife

TwoKinds ==
  {<<"SHUTDOWN", "SHUTDOWN_BY_LONG_PWR_KEY_PRESS">>,
   <<"THERMAL_SHUTDOWN", "THERMAL_SHUTDOWN_REASON_SOC">>}
LongPress == {<<"SHUTDOWN", "SHUTDOWN_BY_LONG_PWR_KEY_PRESS">>}

PowerKey == {"COLDBOOT_BY_POWER_KEY"}

(***************************************************************************)
(* What the rest of a behaviour and the properties depend on: once         *)
(* something was disturbed, want and torn matter only again when the next  *)
(* clean reset has set them.                                               *)
(***************************************************************************)
WithoutDeadHistory ==
  <<rtc, callVars, bootVars, rpc, rmode,
    IF disturbed THEN <<>> ELSE <<want, torn>>>>
=============================================================================
