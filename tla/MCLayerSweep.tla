---------------------------- MODULE MCLayerSweep ----------------------------
(* A small layer sweep for TLC.                                            *)
EXTENDS LayerSweep, TLC

Symmetry == Permutations(Buffers)

NoFaults == {}
RunFaults == {"submit", "read", "upload", "apply"}
=============================================================================
