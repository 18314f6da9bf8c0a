------------------------------ MODULE GateLedger ------------------------------
(***************************************************************************)
(* The decisions read off the ledger of a lineage (tools/gate/report.mjs):     *)
(* whether the lineage is current, whether a report may promote its candidate, *)
(* and where the baseline points afterwards.                                   *)
(*                                                                            *)
(* A ledger is a baseline pointer and the reports in the order their batches    *)
(* completed, each with the decision made on it; one that was not scored yet is  *)
(* not in it.  The corpus and the scoring version, which are always compared     *)
(* together, are one version.                                                  *)
(***************************************************************************)
EXTENDS GateEvaluation, SequencesExt

CONSTANTS ComparisonWindow, ReportUsable, RequalifyEvery, ExceptionMax  \* FRESHNESS

ASSUME FreshnessAssumption ==
  /\ ComparisonWindow \in Nat /\ ReportUsable \in Nat
  /\ RequalifyEvery \in Nat /\ ExceptionMax \in Nat

Decisions == {"refused", "promoted", "excepted"}

Unrecorded == "unrecorded"

(* Where the baseline points, and the batch that made it.                     *)
Pointers == [revision : Revisions, version : Nat, plan : Plans, completedAt : Nat,
             reason : Kinds \cup {"rebase"}, chainBroken : BOOLEAN]

NoPointer == [revision |-> NoRevision]

(* An exception binds one candidate, one baseline and one version.            *)
Exceptions == [revision : Revisions, baseline : Revisions, version : Nat, grantedAt : Nat]

-----------------------------------------------------------------------------
IsDecisive(report) == ~report.valid \/ report.absolute \in {"PASS", "FAIL"}

Passes(report) == report.absolute = "PASS"

Standing(evidence, when) ==
  LET latest == Last(evidence)
  IN IF evidence = <<>> THEN "unqualified"
     ELSE CASE latest.absolute = "FAIL"                -> "failed"
            [] latest.absolute \notin {"FAIL", "PASS"} -> "invalid"
            [] Passes(latest) ->
                 IF when - latest.completedAt <= RequalifyEvery THEN "current" ELSE "stale"

(* A promotion counts only where the ledger moved the baseline for it, off a    *)
(* lineage that was current when it ran.                                       *)
Counts(report, decision, evidence) ==
  IF report.plan.kind = "promotion"
  THEN /\ OutcomeIsPass(report) /\ decision = "promoted"
       /\ Standing(evidence, report.completedAt) = "current"
  ELSE decision # Unrecorded /\ IsDecisive(report)

Weighed(evidence, report, decision) ==
  IF Counts(report, decision, evidence) THEN Append(evidence, report) ELSE evidence

Evidence(reports, decisions) ==
  LET upTo[k \in 0..Len(reports)] ==
        IF k = 0 THEN <<>> ELSE Weighed(upTo[k - 1], reports[k], decisions[k])
  IN upTo[Len(reports)]

LineageStatus(reports, decisions, now) == Standing(Evidence(reports, decisions), now)

-----------------------------------------------------------------------------
ExceptionApplies(exception, report, now) ==
  /\ exception.revision = report.plan.candidate
  /\ exception.baseline = report.plan.baseline
  /\ exception.version = report.plan.version
  /\ now < exception.grantedAt + ExceptionMax

BaselineNeedsRequalification(pointer, version) ==
  pointer # NoPointer /\ pointer.version # version

(* The evaluation itself could promote: it produced evidence, at the fixed      *)
(* budget, and cleared every absolute floor.                                   *)
EvaluationStands(report) ==
  /\ report.valid
  /\ report.plan.repetitions = PolicyRepetitions
  /\ report.absolute = "PASS"

IsFresh(report, now) ==
  /\ report.completedAt - report.plan.startedAt <= ComparisonWindow
  /\ now - report.completedAt <= ReportUsable

MutantBaselineStands(report, pointer) ==
  /\ pointer # NoPointer /\ report.plan.baseline # NoRevision
  /\ pointer.version = report.plan.version

BaselineStands(report, pointer) ==
  /\ pointer # NoPointer /\ report.plan.baseline # NoRevision
  /\ pointer.revision = report.plan.baseline
  /\ pointer.version = report.plan.version

(* A comparison is promoted where nothing falls short, and excepted where an   *)
(* exception accepts what does.                                                *)
MutantDecideComparison(report, pointer, exceptions, status, now) ==
  IF ~BaselineStands(report, pointer) THEN "refused"
  ELSE IF ~report.shortfall THEN "promoted"
  ELSE IF \E e \in exceptions : ExceptionApplies(e, report, now) THEN "excepted" ELSE "refused"

DecideComparison(report, pointer, exceptions, status, now) ==
  IF status # "current" \/ ~BaselineStands(report, pointer) THEN "refused"
  ELSE IF ~report.shortfall THEN "promoted"
  ELSE IF \E e \in exceptions : ExceptionApplies(e, report, now) THEN "excepted" ELSE "refused"

PromotionDecision(report, pointer, exceptions, status, now) ==
  LET decided(admitted) == IF admitted THEN "promoted" ELSE "refused"
  IN IF ~(EvaluationStands(report) /\ IsFresh(report, now)) THEN "refused"
     ELSE CASE report.plan.kind = "first-qualification" -> decided(pointer = NoPointer)
            [] report.plan.kind = "requalification" ->
                   decided(pointer # NoPointer /\ report.plan.candidate = pointer.revision)
            [] report.plan.kind = "promotion" ->
                   DecideComparison(report, pointer, exceptions, status, now)

-----------------------------------------------------------------------------
PointerTo(report, reason) ==
  [revision |-> report.plan.candidate, version |-> report.plan.version,
   plan |-> report.plan, completedAt |-> report.completedAt,
   reason |-> reason, chainBroken |-> reason = "rebase"]

(* A rebase throws where the evaluation could not have promoted anything; an   *)
(* exception moves nothing.                                                    *)
NextBaseline(pointer, report, decision, rebase) ==
  CASE rebase /\ EvaluationStands(report) -> PointerTo(report, "rebase")
    [] ~rebase /\ decision = "promoted"   -> PointerTo(report, report.plan.kind)
    [] OTHER                              -> pointer
=============================================================================
