------------------------- MODULE MCConnectionServer -------------------------
(* Small instances of ConnectionServer for TLC.                            *)
EXTENDS ConnectionServer, TLC

Symmetry == Permutations(Conns)
=============================================================================
