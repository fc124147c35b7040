------------------------- MODULE MCLiquidDetection --------------------------
(* The instance of LiquidDetection for TLC: the thresholds of amzn_ld.h,   *)
(* and two rounds to call the port wet.                                    *)
EXTENDS LiquidDetection
=============================================================================
