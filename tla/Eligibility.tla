---------------------------- MODULE Eligibility ----------------------------
(***************************************************************************)
(* The pure decisions of packages/worker-core: the dispatch gates and the    *)
(* cross-check of the Evidence a Pass claims.  None of them has state;       *)
(* Worker.tla takes each at the point of run.ts that calls it.               *)
(***************************************************************************)
EXTENDS Naturals, Sequences, SequencesExt, Functions

ExposureLadder == <<"none", "scoped", "account">>
Exposures      == {"none", "scoped", "account"}
Provenances    == {"internal", "external"}
Isolations     == {"container", "container-rootless", "microvm"}
Autonomies     == {"inspect", "verify", "fix"}

Rung(exposure) == CHOOSE i \in 1..3 : ExposureLadder[i] = exposure

IsStrong(isolation) == isolation # "container"

(* The matrix: what a host of this Isolation may review while holding a      *)
(* credential of this Exposure.                                              *)
PermittedProvenance(exposure, isolation, allowExternal) ==
    CASE exposure = "account" -> IF IsStrong(isolation) THEN {"internal"} ELSE {}
      [] exposure = "scoped"  -> IF IsStrong(isolation) /\ allowExternal
                                 THEN Provenances ELSE {"internal"}
      [] exposure = "none"    -> IF IsStrong(isolation) THEN Provenances ELSE {"internal"}

Ineligible(spec, exposure) ==
    IF spec.provenance \in PermittedProvenance(exposure, "microvm", spec.allowExternal)
    THEN "isolation_insufficient" ELSE "provenance_ineligible"

(* The Exposure the Run is held to: the Adapter's where it resolved one.     *)
ExposureOf(spec, capability) ==
    IF capability.exposure = "unresolved" THEN spec.exposure ELSE capability.exposure

(* checkDispatch: the first gate that fails names the Refusal.               *)
CheckDispatch(spec, capability, isolation) ==
    LET exposure == ExposureOf(spec, capability)
    IN CASE ~capability.fresh -> "capability_probe_stale"
         [] capability.fresh /\ ~capability.boundary -> "instruction_boundary_unenforceable"
         [] OTHER ->
              IF spec.autonomy \notin capability.supported THEN "autonomy_unsupported"
              ELSE IF Rung(exposure) > Rung(spec.maxExposure) THEN "exposure_above_maximum"
              ELSE IF spec.provenance
                        \in PermittedProvenance(exposure, isolation, spec.allowExternal)
              THEN "none" ELSE Ineligible(spec, exposure)

---------------------------------------------------------------------------
(* The Evidence cross-check: observations are counted per call and consumed  *)
(* claim by claim, in the order the Findings make them.  The fold's value is *)
(* the count that is left, or Unsupported once a claim found none.           *)
Unsupported == << >>

Count(calls, call) == Len(SelectSeq(calls, LAMBDA c : c = call))

Consume(claim, left) ==
    IF left = Unsupported \/ left[claim] = 0
    THEN Unsupported ELSE [left EXCEPT ![claim] = @ - 1]

CrossCheck(claims, observed, Calls) ==
    FoldSeq(Consume, [c \in Calls |-> Count(observed, c)], claims) # Unsupported

(* What it comes to: no call is claimed more often than it was observed,     *)
(* whatever the order of the claims.                                         *)
CrossCheckReference(claims, observed, Calls) ==
    \A c \in Calls : Count(claims, c) <= Count(observed, c)
=============================================================================
