------------------------- MODULE MCRequestAdmission -------------------------
(* Small instances of RequestAdmission for TLC.                            *)
EXTENDS RequestAdmission
=============================================================================
