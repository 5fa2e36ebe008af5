---------------------------- MODULE MCStreaming ----------------------------
(* A small StreamingScheduler for TLC: buffers are interchangeable.        *)
EXTENDS StreamingScheduler, TLC

Symmetry == Permutations(Buffers)
=============================================================================
