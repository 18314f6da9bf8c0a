--------------------------- MODULE MCComposition ---------------------------
(* Instances of Composition for TLC.                                       *)
EXTENDS Composition, TLC

CONSTANTS q1, q2, a1, a2

(* What is added by hand: a flag of each kind, and a policy beside the canonical  *)
(* one, a wider one, one for a group of the role, one that cannot be compared.    *)
HandFlags == {"SUPERUSER", "REPLICATION", "CREATEDB"}

HandPolicies ==
  {[permissive |-> TRUE, to |-> "public", lets |-> "all"],
   [permissive |-> TRUE, to |-> "neon", lets |-> "all"],
   [permissive |-> FALSE, to |-> "runtime", lets |-> "own"],
   [permissive |-> TRUE, to |-> "runtime", lets |-> "unread"]}

(* Requests and compositions are interchangeable (safety runs only).        *)
Symmetry == Permutations({q1, q2}) \cup Permutations({a1, a2})
=============================================================================
