----------------------------- MODULE MCIngress ------------------------------
(* Instances of Ingress for TLC.                                           *)
EXTENDS Ingress

CONSTANTS d1, d2, d3, r1, r2, r3, sha1, sha2
=============================================================================
