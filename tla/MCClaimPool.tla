---------------------------- MODULE MCClaimPool ----------------------------
(* Instances of ClaimPool for TLC.                                         *)
EXTENDS ClaimPool, TLC

CONSTANTS c1, c2, h1, h2, s1, s2, w1, w2

(* Claims of one kind, submissions and Workers are interchangeable.         *)
Symmetry == Permutations({c1, c2}) \cup Permutations({h1, h2})
              \cup Permutations({s1, s2}) \cup Permutations({w1, w2})
=============================================================================
