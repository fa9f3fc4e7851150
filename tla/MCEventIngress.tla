--------------------------- MODULE MCEventIngress ---------------------------
(* Small instances of EventIngress for TLC.                                *)
EXTENDS EventIngress
=============================================================================
