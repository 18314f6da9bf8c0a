---------------------------- MODULE GateEvaluation ----------------------------
(***************************************************************************)
(* One evaluation of the qualification gate (tools/gate): the trials of a      *)
(* fixed budget, what each amounted to (evaluate.mjs, batch.mjs), and the       *)
(* report of a batch (qualify.mjs, scoring.mjs, report.mjs).                   *)
(*                                                                            *)
(* A trial is an arm, a scenario and a repetition.  One axis stands for the     *)
(* four, which are judged alike and joined by Overall.                         *)
(***************************************************************************)
EXTENDS Naturals, FiniteSets, Functions

CONSTANTS
  Scenarios,            \* the corpus
  PolicyRepetitions,    \* SCORING_POLICY.repetitions
  Budgets,              \* repetitions an operator may ask for
  Revisions, NoRevision

ASSUME EvaluationAssumption ==
  /\ IsFiniteSet(Scenarios) /\ Scenarios # {}
  /\ PolicyRepetitions \in Budgets /\ Budgets \subseteq Nat \ {0}
  /\ NoRevision \notin Revisions

Kinds    == {"first-qualification", "promotion", "requalification"}
Arms     == {"candidate", "baseline"}
Verdicts == {"PASS", "FAIL", "INCONCLUSIVE"}

-----------------------------------------------------------------------------
(* What Worker core returned for a trial, or what the gate threw.             *)
Sights == {"expected", "unexpected", "partial", "failed", "model_substituted",
           "sandbox_refused", "transport", "retryable_fault",
           "refused", "teardown_incomplete", "fault", "nothing"}

Judgements == {"passed", "missed", "contract_failed", "retryable", "invalid"}

ClassifyTrial(sight) ==
  CASE sight = "expected" -> "passed"
    [] sight \in {"unexpected", "partial", "failed"} -> "missed"
    [] sight = "model_substituted" -> "contract_failed"
    [] sight \in {"sandbox_refused", "transport", "retryable_fault"} -> "retryable"
    [] OTHER -> "invalid"

(* One more attempt, only for a retryable fault; the last one counts.         *)
JudgementOf(first, second) ==
  IF ClassifyTrial(first) = "retryable" THEN ClassifyTrial(second) ELSE ClassifyTrial(first)

TrialJudgements == {JudgementOf(first, second) : first \in Sights, second \in Sights}

-----------------------------------------------------------------------------
(* The plan of a batch, as resolveArms and the budget fix it.                 *)
Plans == [kind : Kinds, candidate : Revisions, baseline : Revisions \cup {NoRevision},
          version : Nat, repetitions : Budgets, startedAt : Nat]

ArmsOf(plan) == IF plan.baseline = NoRevision THEN {"candidate"} ELSE Arms

PlannedTrials(plan) == ArmsOf(plan) \X Scenarios \X (1..plan.repetitions)

(* A shard rewrites its records after every trial, so a runner that is lost    *)
(* keeps what was observed; the seeded order spreads the trials over the        *)
(* shards, and any of them may be the ones nobody observed.                    *)
Lost == "lost"

Records(plan) == [PlannedTrials(plan) -> TrialJudgements \cup {Lost}]

(* Every planned trial is accounted for: one that no shard recorded is an       *)
(* invalid trial that may not be run again.                                    *)
MutantAssembled(records) ==
  [t \in {u \in DOMAIN records : records[u] # Lost} |-> records[t]]

Assembled(records) ==
  [t \in DOMAIN records |-> IF records[t] = Lost THEN "invalid" ELSE records[t]]

(* CONTRACT_FAIL or INVALID: a batch is scored whole or not at all.           *)
BatchIsValid(records) == Range(records) \subseteq {"passed", "missed"}

Of(records, arm) == {t \in DOMAIN records : t[1] = arm}

Passed(records, arm) == {t \in Of(records, arm) : records[t] = "passed"}

(* The bootstrap's interval is a point where every family agrees, and lies     *)
(* anywhere around the floor where they do not; it is NaN over nothing.        *)
AbsoluteOutcomes(records) ==
  LET trials == Of(records, "candidate")
      passed == Passed(records, "candidate")
  IN IF trials = {} THEN {"INCONCLUSIVE"}
     ELSE CASE passed = trials             -> {"PASS"}
            [] passed = {}                 -> {"FAIL"}
            [] passed \notin {{}, trials}  -> Verdicts

(* The interval over the differences between paired families.                 *)
NonInferiorityOutcomes(records) ==
  LET candidate == Of(records, "candidate")
      baseline  == Of(records, "baseline")
      ahead     == Passed(records, "candidate")
      behind    == Passed(records, "baseline")
  IN IF candidate = {} \/ baseline = {} THEN {"INCONCLUSIVE"}
     ELSE IF ahead = candidate \/ behind = {} THEN {"PASS"}
     ELSE IF ahead = {} /\ behind = baseline THEN {"FAIL"}
     ELSE Verdicts

-----------------------------------------------------------------------------
(* The report of a batch: whether it could be scored at all, the absolute       *)
(* floors, and whether the comparison fell short of non-inferiority.  Its        *)
(* matrix shows `observed`: every trial of the policy's budget was scored on     *)
(* the candidate.  No aggregate rescues a failed axis: it PASSes where          *)
(* nothing else is said.                                                       *)
Reports == [plan : Plans, completedAt : Nat, observed : BOOLEAN, valid : BOOLEAN,
            absolute : Verdicts \cup {"unscored"}, shortfall : BOOLEAN]

OutcomeIsPass(report) == report.valid /\ report.absolute = "PASS" /\ ~report.shortfall

Observed(records) ==
  Cardinality({t \in Of(records, "candidate") : records[t] \in {"passed", "missed"}})
    = Cardinality(Scenarios) * PolicyRepetitions

ComposeReport(plan, records, completedAt) ==
  LET assembled == Assembled(records)
      report(valid, absolute, shortfall) ==
        [plan |-> plan, completedAt |-> completedAt, observed |-> Observed(assembled),
         valid |-> valid, absolute |-> absolute, shortfall |-> shortfall]
  IN IF ~BatchIsValid(assembled) THEN {report(FALSE, "unscored", FALSE)}
     ELSE {report(TRUE, absolute, verdict # "PASS") :
              absolute \in AbsoluteOutcomes(assembled),
              verdict \in IF plan.kind = "promotion" THEN NonInferiorityOutcomes(assembled)
                          ELSE {"PASS"}}
=============================================================================
