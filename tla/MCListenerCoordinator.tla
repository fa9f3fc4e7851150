----------------------- MODULE MCListenerCoordinator -----------------------
(* Small instances of ListenerCoordinator for TLC.                         *)
EXTENDS ListenerCoordinator, TLC

\* Clients are interchangeable, and manifests are only compared with each other.
Symmetry == Permutations(Conns) \cup Permutations(Manifests)
=============================================================================
