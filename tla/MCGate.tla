-------------------------------- MODULE MCGate --------------------------------
(* Instances of Gate for TLC.                                              *)
EXTENDS Gate, TLC

CONSTANTS r1, r2

Symmetry == Permutations({r1, r2})
=============================================================================
