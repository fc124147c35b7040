------------------------------ MODULE MCAdfLog ------------------------------
(* A ring over two values, so that bytes can look like the magic, filled   *)
(* nearly twice between two loads; at first it is zero, full of an earlier *)
(* log, or holds some of one.                                              *)
EXTENDS AdfLog

Earlier == {[x \in 0..(Size - 1) |-> IF x < k THEN 1 + (x % 2) ELSE 0] : k \in {0, Size - 1, Size}}
=============================================================================
