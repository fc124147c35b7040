---------------------------- MODULE MCAdfRingbuf ----------------------------
(* Instances of AdfRingbuf for TLC.                                        *)
EXTENDS AdfRingbuf

OneToNine == 1..9
SingleBytes == {1}
AllCalls == {"write", "add", "apply", "reserve"}
Software == {"write"}
=============================================================================
