--------------------------- MODULE MCRunLifecycle ---------------------------
(* Instances of RunLifecycle for TLC.                                      *)
EXTENDS RunLifecycle, TLC

CONSTANTS l1, l2, h1, h2, w1

(* Lifecycle ids and dispatch attempts are interchangeable. *)
Symmetry == Permutations({l1, l2}) \cup Permutations({h1, h2})
=============================================================================
