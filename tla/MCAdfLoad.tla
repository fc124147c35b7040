----------------------------- MODULE MCAdfLoad ------------------------------
(* The instance of AdfLoad for TLC: an image with a section to copy, which *)
(* may fail, between the reserved ones.                                    *)
EXTENDS AdfLoad

OneImage == {<<"STA", "BIN", "LOG", "CLI">>}
=============================================================================
