----------------------------- MODULE GateProofs -----------------------------
(***************************************************************************)
(* Where the gate's baseline comes from, for every corpus, budget, window   *)
(* and number of evaluations, maintainers and lost runners.                 *)
(*                                                                         *)
(* Both theorems are about a pointer that outlives what made it: the plan    *)
(* was fixed against another ledger, the report assembled from what was     *)
(* left, and the decision made again by whoever scored last.  What carries  *)
(* through is the report itself, which nobody rewrites: SoundReport.        *)
(***************************************************************************)
EXTENDS Gate, FiniteSetTheorems, FunctionTheorems, SequenceTheorems,
        WellFoundedInduction, TLAPS

-----------------------------------------------------------------------------
(* A batch.                                                                *)

(* A plan has one candidate trial for each scenario and each repetition.    *)
LEMMA CandidateTrials ==
  ASSUME NEW plan \in Plans, NEW records, DOMAIN records = PlannedTrials(plan)
  PROVE  Cardinality(Of(records, "candidate")) = Cardinality(Scenarios) * plan.repetitions
<1> DEFINE pairs == Scenarios \X (1..plan.repetitions)
           trial == [p \in pairs |-> <<"candidate", p[1], p[2]>>]
           ofCandidate == Of(records, "candidate")
<1>1. plan.repetitions \in Nat \ {0}
  BY EvaluationAssumption DEF Plans
<1>2. IsFiniteSet(pairs) /\ Cardinality(pairs) = Cardinality(Scenarios) * plan.repetitions
  <2>1. /\ IsFiniteSet(1..plan.repetitions)
        /\ Cardinality(1..plan.repetitions) = plan.repetitions
    BY <1>1, FS_Interval
  <2> QED
    BY <2>1, FS_Product, EvaluationAssumption
<1>3. ofCandidate = {<<"candidate", s, k>> : s \in Scenarios, k \in 1..plan.repetitions}
  BY DEF Of, PlannedTrials, ArmsOf, Arms
<1>4. trial \in [pairs -> ofCandidate]
  BY <1>3
<1>5. \A p, q \in pairs : trial[p] = trial[q] => p = q
  OBVIOUS
<1>6. \A t \in ofCandidate : \E p \in pairs : trial[p] = t
  <2> TAKE t \in ofCandidate
  <2>1. PICK s \in Scenarios, k \in 1..plan.repetitions : t = <<"candidate", s, k>>
    BY <1>3
  <2>2. <<s, k>> \in pairs /\ trial[<<s, k>>] = <<"candidate", s, k>>
    OBVIOUS
  <2> QED
    BY <2>1, <2>2
<1>7. ExistsBijection(pairs, ofCandidate)
  <2>1. trial \in Bijection(pairs, ofCandidate)
    BY <1>4, <1>5, <1>6, Fun_IsBij
  <2> QED
    BY <2>1 DEF ExistsBijection
<1> QED
  BY <1>2, <1>7, FS_Bijection

(* A batch of the policy's budget that can be scored at all was observed     *)
(* whole: a trial a lost runner took with it is there, and is invalid.      *)
LEMMA ValidBatchIsObserved ==
  ASSUME NEW plan \in Plans, NEW records \in Records(plan),
         plan.repetitions = PolicyRepetitions, BatchIsValid(Assembled(records))
  PROVE  Observed(Assembled(records))
<1> DEFINE assembled == Assembled(records)
<1>1. DOMAIN assembled = PlannedTrials(plan)
  BY DEF Records, Assembled
<1>2. \A t \in DOMAIN assembled : assembled[t] \in {"passed", "missed"}
  BY DEF BatchIsValid, Range, Assembled
<1>3. {t \in Of(assembled, "candidate") : assembled[t] \in {"passed", "missed"}}
        = Of(assembled, "candidate")
  BY <1>2 DEF Of
<1> QED
  BY <1>1, <1>3, CandidateTrials DEF Observed

(* What a report keeps for ever: what it is about, that a scored batch of    *)
(* the policy's budget was observed whole, and that only a comparison can    *)
(* fall short.                                                             *)
SoundReport(report) ==
  /\ report \in Reports
  /\ report.valid /\ report.plan.repetitions = PolicyRepetitions => report.observed
  /\ report.shortfall => report.plan.baseline \in Revisions

PlanIsArranged(plan) ==
  plan \in Plans /\ (plan.kind = "promotion" => plan.baseline \in Revisions)

LEMMA OutcomesAreVerdicts ==
  ASSUME NEW records
  PROVE  /\ AbsoluteOutcomes(records) \subseteq Verdicts
         /\ NonInferiorityOutcomes(records) \subseteq Verdicts
  BY DEF AbsoluteOutcomes, NonInferiorityOutcomes, Verdicts

LEMMA ComposedReportIsSound ==
  ASSUME NEW plan, PlanIsArranged(plan), NEW records \in Records(plan), NEW when \in Nat,
         NEW report \in ComposeReport(plan, records, when)
  PROVE  SoundReport(report)
<1> DEFINE assembled == Assembled(records)
<1>1. Observed(assembled) \in BOOLEAN
  BY DEF Observed
<1>2. CASE ~BatchIsValid(assembled)
  <2>1. report = [plan |-> plan, completedAt |-> when, observed |-> Observed(assembled),
                  valid |-> FALSE, absolute |-> "unscored", shortfall |-> FALSE]
    BY <1>2 DEF ComposeReport
  <2> QED
    BY <1>1, <2>1 DEF SoundReport, Reports, PlanIsArranged
<1>3. CASE BatchIsValid(assembled)
  <2>1. PICK absolute \in AbsoluteOutcomes(assembled),
             verdict \in IF plan.kind = "promotion" THEN NonInferiorityOutcomes(assembled)
                         ELSE {"PASS"} :
          report = [plan |-> plan, completedAt |-> when, observed |-> Observed(assembled),
                    valid |-> TRUE, absolute |-> absolute, shortfall |-> verdict # "PASS"]
    BY <1>3 DEF ComposeReport
  <2>2. absolute \in Verdicts
    BY OutcomesAreVerdicts
  <2>3. report \in Reports
    BY <1>1, <2>1, <2>2 DEF Reports, PlanIsArranged
  <2>4. plan.repetitions = PolicyRepetitions => Observed(assembled)
    BY <1>3, ValidBatchIsObserved DEF PlanIsArranged
  <2> QED
    BY <2>1, <2>3, <2>4 DEF SoundReport, PlanIsArranged
<1> QED
  BY <1>2, <1>3

(* What one scoring decides.                                               *)
LEMMA DecisionTypes ==
  ASSUME NEW report \in Reports, NEW p, NEW exs, NEW status, NEW when
  PROVE  PromotionDecision(report, p, exs, status, when) \in Decisions
<1>1. report.plan.kind \in Kinds
  BY DEF Reports, Plans
<1> QED
  BY <1>1 DEF PromotionDecision, DecideComparison, Decisions, Kinds

(* Nothing is promoted but a report that stands, of a revision that stands    *)
(* alone, stands already, or lost nothing to the one that does.             *)
LEMMA PromotedReport ==
  ASSUME NEW report \in Reports, NEW p, NEW exs, NEW status, NEW when,
         PromotionDecision(report, p, exs, status, when) = "promoted"
  PROVE  /\ EvaluationStands(report)
         /\ \/ report.plan.kind = "first-qualification" /\ p = NoPointer
            \/ report.plan.kind = "requalification" /\ report.plan.candidate = p.revision
            \/ /\ report.plan.kind = "promotion"
               /\ ~report.shortfall
               /\ p.revision = report.plan.baseline
               /\ p.version = report.plan.version
<1>1. report.plan.kind \in Kinds
  BY DEF Reports, Plans
<1>2. EvaluationStands(report)
  BY DEF PromotionDecision
<1>3. CASE report.plan.kind = "first-qualification"
  BY <1>3 DEF PromotionDecision
<1>4. CASE report.plan.kind = "requalification"
  BY <1>4 DEF PromotionDecision
<1>5. CASE report.plan.kind = "promotion"
  <2>1. DecideComparison(report, p, exs, status, when) = "promoted"
    BY <1>5 DEF PromotionDecision
  <2> QED
    BY <1>2, <1>5, <2>1 DEF DecideComparison, BaselineStands
<1> QED
  BY <1>1, <1>2, <1>3, <1>4, <1>5 DEF Kinds

-----------------------------------------------------------------------------
(* The invariant.  Earned is what the baseline needs; Sound is what it gets    *)
(* it from, since a report is only promoted long after it was composed, and    *)
(* Arranged is what Sound gets it from, since a plan outlives the pointer it    *)
(* was made against.                                                       *)
Arranged == batch # NoPlan => PlanIsArranged(batch)

Sound == \A i \in DOMAIN reports : SoundReport(reports[i])

GateInv == GateTypeOK /\ Arranged /\ Sound /\ BaselineIsEarned

LEMMA RecordedIsSequence ==
  ASSUME GateTypeOK
  PROVE  /\ recorded \in Seq(Decisions \cup {Unrecorded})
         /\ Len(recorded) = Len(reports) /\ DOMAIN recorded = DOMAIN reports
  BY DEF GateTypeOK

LEMMA QualifiedIsSound ==
  ASSUME NEW r \in Revisions
  PROVE  /\ SoundReport(Qualified(r))
         /\ PointerTo(Qualified(r), "first-qualification") \in Pointers
<1>1. Qualified(r).plan \in Plans
  BY EvaluationAssumption DEF Qualified, Plans, Kinds
<1>2. Qualified(r) \in Reports
  BY <1>1 DEF Qualified, Reports, Verdicts
<1> QED
  BY <1>1, <1>2 DEF Qualified, SoundReport, PointerTo, Pointers, Kinds

LEMMA StartsInv == Init => GateInv
<1> SUFFICES ASSUME Init PROVE GateInv
  OBVIOUS
<1> USE GateAssumption, FreshnessAssumption
<1>1. /\ version \in 1..MaxVersion /\ batch = NoPlan /\ exceptions = {}
      /\ planned \in 0..MaxBatches /\ granted \in 0..MaxExceptions
  BY DEF Init
<1>2. CASE now = 0 /\ reports = <<>> /\ recorded = <<>> /\ pointer = NoPointer
  BY <1>1, <1>2 DEF GateInv, GateTypeOK, Arranged, Sound, BaselineIsEarned
<1>3. ASSUME NEW r \in Revisions,
             now = RequalifyEvery, reports = <<Qualified(r)>>, recorded = <<"promoted">>,
             pointer = PointerTo(Qualified(r), "first-qualification")
      PROVE  GateInv
  <2>1. SoundReport(Qualified(r)) /\ pointer \in Pointers
    BY <1>3, QualifiedIsSound
  <2>2. Qualified(r) \in Reports
    BY <2>1 DEF SoundReport
  <2>3. DOMAIN reports = {1} /\ reports[1] = Qualified(r) /\ recorded[1] = "promoted"
    BY <1>3
  <2>4. GateTypeOK
    BY <1>1, <1>3, <2>1, <2>2 DEF GateTypeOK, Decisions
  <2>5. BaselineIsEarned
    BY <1>3, <2>3 DEF BaselineIsEarned, PointerTo, Qualified, Unrecorded
  <2> QED
    BY <1>1, <2>1, <2>3, <2>4, <2>5 DEF GateInv, Arranged, Sound
<1> QED
  BY <1>2, <1>3 DEF Init

(* A step that leaves the ledger alone.                                     *)
LEMMA LedgerStays ==
  ASSUME GateInv, UNCHANGED <<reports, recorded, pointer>>
  PROVE  Sound' /\ BaselineIsEarned'
  BY DEF GateInv, Sound, BaselineIsEarned

LEMMA PlanKeepsInv ==
  ASSUME GateInv, NEW kind \in Kinds, NEW candidate \in Revisions, NEW repetitions \in Budgets,
         NEW baseline \in NamedBaselines \cup {pointer.revision, NoRevision},
         Plan(kind, candidate, baseline, repetitions)
  PROVE  GateInv'
<1> USE GateAssumption
<1>1. baseline \in Revisions \cup {NoRevision}
  BY DEF GateInv, GateTypeOK, Pointers, NoPointer
<1>2. PlanIsArranged(batch')
  <2>1. now \in Nat /\ version \in Nat
    BY DEF GateInv, GateTypeOK
  <2>2. batch' = [kind |-> kind, candidate |-> candidate, baseline |-> baseline,
                  version |-> version, repetitions |-> repetitions, startedAt |-> now]
    BY DEF Plan
  <2>3. batch' \in Plans
    BY <1>1, <2>1, <2>2 DEF Plans
  <2>4. kind = "promotion" => baseline # NoRevision
    <3> HAVE kind = "promotion"
    <3> QED
      BY DEF Plan, Arrange
  <2> QED
    BY <1>1, <2>2, <2>3, <2>4 DEF PlanIsArranged
<1>3. GateTypeOK'
  <2>1. planned' \in 0..MaxBatches
    BY DEF GateInv, GateTypeOK, Plan
  <2>2. UNCHANGED <<now, version, reports, recorded, pointer, exceptions, granted>>
    BY DEF Plan
  <2>3. batch' \in Plans
    BY <1>2 DEF PlanIsArranged
  <2> QED
    BY <2>1, <2>2, <2>3 DEF GateInv, GateTypeOK
<1>4. Sound' /\ BaselineIsEarned'
  BY LedgerStays DEF Plan
<1> QED
  BY <1>2, <1>3, <1>4 DEF GateInv, Arranged

LEMMA CompleteKeepsInv ==
  ASSUME GateInv, Complete
  PROVE  GateInv'
<1> USE GateAssumption
<1>0. PICK report \in UNION {ComposeReport(batch, rs, now) : rs \in Records(batch)} :
        reports' = Append(reports, report)
  BY DEF Complete
<1>a. PICK records \in Records(batch) : report \in ComposeReport(batch, records, now)
  OBVIOUS
<1>1. reports' = Append(reports, report)
  BY <1>0
<1>2. SoundReport(report)
  <2>1. PlanIsArranged(batch)
    BY DEF GateInv, Arranged, Complete
  <2>2. now \in Nat
    BY DEF GateInv, GateTypeOK
  <2> QED
    BY <1>a, <2>1, <2>2, ComposedReportIsSound
<1>3. /\ reports \in Seq(Reports) /\ report \in Reports
      /\ recorded \in Seq(Decisions \cup {Unrecorded}) /\ Len(recorded) = Len(reports)
  BY <1>2, RecordedIsSequence DEF GateInv, GateTypeOK, SoundReport
<1>4. /\ recorded' = Append(recorded, Unrecorded) /\ batch' = NoPlan
      /\ UNCHANGED <<now, version, pointer, exceptions, planned, granted>>
  BY DEF Complete
<1>5. /\ reports' \in Seq(Reports)
      /\ recorded' \in [DOMAIN reports' -> Decisions \cup {Unrecorded}]
  <2>1. reports' \in Seq(Reports) /\ DOMAIN reports' = 1..(Len(reports) + 1)
    BY <1>1, <1>3
  <2>2. Unrecorded \in Decisions \cup {Unrecorded}
    OBVIOUS
  <2>3. /\ recorded' \in Seq(Decisions \cup {Unrecorded})
        /\ Len(recorded') = Len(reports) + 1
    BY <1>3, <1>4, <2>2, AppendProperties
  <2>4. recorded' \in [1..Len(recorded') -> Decisions \cup {Unrecorded}]
    BY <2>3, LenProperties
  <2> QED
    BY <2>1, <2>3, <2>4
<1>6. /\ DOMAIN reports' = DOMAIN reports \cup {Len(reports) + 1}
      /\ reports'[Len(reports) + 1] = report
      /\ \A i \in DOMAIN reports : reports'[i] = reports[i] /\ recorded'[i] = recorded[i]
  <2>1. /\ DOMAIN reports = 1..Len(reports) /\ Len(reports) \in Nat
        /\ DOMAIN reports' = 1..(Len(reports) + 1)
        /\ reports'[Len(reports) + 1] = report
    BY <1>1, <1>3
  <2>2. \A i \in 1..Len(reports) : reports'[i] = reports[i]
    BY <1>1, <1>3
  <2>3. \A i \in 1..Len(recorded) : recorded'[i] = recorded[i]
    BY <1>3, <1>4
  <2>4. 1..(Len(reports) + 1) = (1..Len(reports)) \cup {Len(reports) + 1}
    BY <2>1
  <2> QED
    BY <1>3, <2>1, <2>2, <2>3, <2>4
<1>7. GateTypeOK'
  BY <1>4, <1>5 DEF GateInv, GateTypeOK
<1>8. Sound'
  BY <1>2, <1>6 DEF GateInv, Sound
<1>9. BaselineIsEarned'
  BY <1>4, <1>6 DEF GateInv, BaselineIsEarned
<1> QED
  BY <1>4, <1>7, <1>8, <1>9 DEF GateInv, Arranged

(* Where a scoring moves the baseline to, if it does.                        *)
LEMMA BaselineGoes ==
  ASSUME NEW p \in Pointers \cup {NoPointer}, NEW report \in Reports, NEW exs, NEW status,
         NEW when, NEW rebase \in BOOLEAN, NEW decision,
         decision = PromotionDecision(report, p, exs, status, when)
  PROVE  LET next == NextBaseline(p, report, decision, rebase)
         IN /\ next \in Pointers \cup {NoPointer}
            /\ \/ next = p
               \/ /\ EvaluationStands(report)
                  /\ rebase /\ next = PointerTo(report, "rebase")
               \/ /\ EvaluationStands(report) /\ decision = "promoted"
                  /\ ~rebase /\ next = PointerTo(report, report.plan.kind)
<1>1. \A reason \in Kinds \cup {"rebase"} : PointerTo(report, reason) \in Pointers
  BY DEF PointerTo, Pointers, Reports, Plans
<1>2. report.plan.kind \in Kinds
  BY DEF Reports, Plans
<1>3. decision = "promoted" => EvaluationStands(report)
  BY PromotedReport
<1>4. CASE rebase /\ EvaluationStands(report)
  BY <1>1, <1>4 DEF NextBaseline
<1>5. CASE ~rebase /\ decision = "promoted"
  BY <1>1, <1>2, <1>3, <1>5 DEF NextBaseline
<1>6. CASE ~(rebase /\ EvaluationStands(report)) /\ ~(~rebase /\ decision = "promoted")
  BY <1>6 DEF NextBaseline
<1> QED
  BY <1>4, <1>5, <1>6

LEMMA ScoreKeepsInv ==
  ASSUME GateInv, NEW i \in DOMAIN reports, NEW rebase \in BOOLEAN, Score(i, rebase)
  PROVE  GateInv'
<1> DEFINE report == reports[i]
           status == LineageStatus(reports, recorded, now)
           decision == PromotionDecision(report, pointer, exceptions, status, now)
           next == NextBaseline(pointer, report, decision, rebase)
<1>1. report \in Reports /\ SoundReport(report)
  BY DEF GateInv, Sound, SoundReport
<1>2. decision \in Decisions
  BY <1>1, DecisionTypes
<1>3. pointer \in Pointers \cup {NoPointer}
  BY DEF GateInv, GateTypeOK
<1>4. /\ next \in Pointers \cup {NoPointer}
      /\ next # pointer => /\ EvaluationStands(report)
                           /\ \E reason : next = PointerTo(report, reason)
  <2> HIDE DEF status, report
  <2> QED
    BY <1>1, <1>3, BaselineGoes
<1>5. /\ recorded' = [recorded EXCEPT ![i] = decision]
      /\ pointer' \in {pointer, next}
      /\ UNCHANGED <<now, version, batch, reports, exceptions, planned, granted>>
  BY DEF Score
<1>6. recorded \in [DOMAIN reports -> Decisions \cup {Unrecorded}]
  BY DEF GateInv, GateTypeOK
<1> HIDE DEF decision, next
<1>7. /\ recorded' \in [DOMAIN reports -> Decisions \cup {Unrecorded}]
      /\ recorded'[i] # Unrecorded
      /\ \A j \in DOMAIN reports : recorded[j] # Unrecorded => recorded'[j] # Unrecorded
  BY <1>2, <1>5, <1>6 DEF Decisions, Unrecorded
<1>8. GateTypeOK'
  BY <1>3, <1>4, <1>5, <1>7 DEF GateInv, GateTypeOK
<1>9. Arranged' /\ Sound'
  BY <1>5 DEF GateInv, Arranged, Sound
<1>10. BaselineIsEarned'
  <2>1. CASE pointer' = pointer
    BY <1>5, <1>7, <2>1 DEF GateInv, BaselineIsEarned
  <2>2. CASE pointer' # pointer
    <3>1. EvaluationStands(report)
      BY <1>4, <1>5, <2>2
    <3>2. PICK reason : pointer' = PointerTo(report, reason)
      BY <1>4, <1>5, <2>2
    <3>3. report.observed /\ report.absolute = "PASS"
      BY <1>1, <3>1 DEF EvaluationStands, SoundReport
    <3>4. reports'[i] = report /\ i \in DOMAIN reports'
      BY <1>5
    <3> QED
      BY <1>7, <3>2, <3>3, <3>4 DEF BaselineIsEarned, PointerTo
  <2> QED
    BY <2>1, <2>2
<1> QED
  BY <1>8, <1>9, <1>10 DEF GateInv

LEMMA GrantKeepsInv ==
  ASSUME GateInv, NEW i \in DOMAIN reports, Grant(i)
  PROVE  GateInv'
<1> USE GateAssumption
<1> DEFINE plan == reports[i].plan
           exception == [revision |-> plan.candidate, baseline |-> plan.baseline,
                         version |-> plan.version, grantedAt |-> now]
<1>1. /\ exceptions' = exceptions \cup {exception}
      /\ UNCHANGED <<now, version, batch, reports, recorded, pointer, planned>>
  BY DEF Grant
<1>2. exception \in Exceptions
  <2>1. plan \in Plans /\ plan.baseline \in Revisions
    BY DEF GateInv, Sound, SoundReport, Reports, Grant
  <2>2. now \in Nat
    BY DEF GateInv, GateTypeOK
  <2> QED
    BY <2>1, <2>2 DEF Exceptions, Plans
<1>3. granted' \in 0..MaxExceptions
  BY DEF GateInv, GateTypeOK, Grant
<1> HIDE DEF exception
<1>4. GateTypeOK' /\ Arranged'
  BY <1>1, <1>2, <1>3 DEF GateInv, GateTypeOK, Arranged
<1> QED
  BY <1>1, <1>4, LedgerStays DEF GateInv

LEMMA NextKeepsInv == GateInv /\ [Next]_vars => GateInv'
<1> SUFFICES ASSUME GateInv, [Next]_vars PROVE GateInv'
  OBVIOUS
<1> USE GateAssumption
<1>1. CASE LoseBatch
  BY <1>1, LedgerStays DEF LoseBatch, GateInv, GateTypeOK, Arranged
<1>2. CASE Tick
  <2>1. now' \in 0..MaxNow
    BY <1>2 DEF Tick, GateInv, GateTypeOK
  <2> QED
    BY <1>2, <2>1, LedgerStays DEF Tick, GateInv, GateTypeOK, Arranged
<1>3. CASE MoveVersion
  <2>1. version' \in 1..MaxVersion
    BY <1>3 DEF MoveVersion, GateInv, GateTypeOK
  <2> QED
    BY <1>3, <2>1, LedgerStays DEF MoveVersion, GateInv, GateTypeOK, Arranged
<1>4. ASSUME NEW e \in exceptions, EndException(e) PROVE GateInv'
  BY <1>4, LedgerStays DEF EndException, GateInv, GateTypeOK, Arranged
<1>5. CASE UNCHANGED vars
  BY <1>5, LedgerStays DEF vars, GateInv, GateTypeOK, Arranged
<1> QED
  BY <1>1, <1>2, <1>3, <1>4, <1>5, PlanKeepsInv, CompleteKeepsInv, ScoreKeepsInv, GrantKeepsInv
     DEF Next

-----------------------------------------------------------------------------
(* Every state is one of a gate whose reports keep what they measured, and     *)
(* whose exceptions all accept a shortfall that was measured.                 *)
THEOREM LedgersStaySound == Spec => []GateInv
  BY StartsInv, NextKeepsInv, PTL DEF Spec

(* The baseline is a revision that was seen to qualify, at the fixed budget,   *)
(* with every trial observed: however it was moved there (NextBaseline), and    *)
(* whatever a runner that was lost left unrecorded (Assembled).               *)
THEOREM BaselinesAreEarned == Spec => []BaselineIsEarned
<1>1. GateInv => BaselineIsEarned
  BY DEF GateInv
<1> QED
  BY <1>1, LedgersStaySound, PTL

LEMMA ScoreMovesByComparison ==
  ASSUME GateInv, NEW i \in DOMAIN reports, NEW rebase \in BOOLEAN, Score(i, rebase),
         pointer # NoPointer, pointer'.revision # pointer.revision, ~pointer'.chainBroken
  PROVE  /\ reports[i].plan = pointer'.plan
         /\ reports[i].plan.baseline = pointer.revision
         /\ reports[i].plan.version = pointer.version
         /\ OutcomeIsPass(reports[i])
<1> DEFINE report == reports[i]
           status == LineageStatus(reports, recorded, now)
           decision == PromotionDecision(report, pointer, exceptions, status, now)
           next == NextBaseline(pointer, report, decision, rebase)
<1>1. report \in Reports
  BY DEF GateInv, GateTypeOK
<1>2. pointer \in Pointers
  BY DEF GateInv, GateTypeOK
<1>3. pointer' = next
  BY DEF Score
<1>4. \/ next = pointer
      \/ next = PointerTo(report, "rebase")
      \/ decision = "promoted" /\ next = PointerTo(report, report.plan.kind)
  <2> HIDE DEF status, report
  <2> QED
    BY <1>1, <1>2, BaselineGoes
<1>5. decision = "promoted" /\ next = PointerTo(report, report.plan.kind)
  <2> HIDE DEF next
  <2>1. next # pointer
    BY <1>3
  <2>2. PointerTo(report, "rebase").chainBroken
    BY Zenon DEF PointerTo
  <2> QED
    BY <1>3, <1>4, <2>1, <2>2
<1>6. /\ EvaluationStands(report)
      /\ \/ report.plan.kind = "first-qualification" /\ pointer = NoPointer
         \/ report.plan.kind = "requalification" /\ report.plan.candidate = pointer.revision
         \/ /\ report.plan.kind = "promotion"
            /\ ~report.shortfall
            /\ pointer.revision = report.plan.baseline
            /\ pointer.version = report.plan.version
  <2> HIDE DEF status, report
  <2> QED
    BY <1>1, <1>5, PromotedReport
<1>7. pointer'.revision = report.plan.candidate /\ pointer'.plan = report.plan
  <2> HIDE DEF next
  <2> QED
    BY <1>3, <1>5 DEF PointerTo
<1> QED
  BY <1>6, <1>7 DEF EvaluationStands, OutcomeIsPass

(* Without breaking the chain, the baseline moves to another revision only by   *)
(* a comparison with the very baseline it replaces, under that one's own        *)
(* version, lost by no test and excused by no exception (DecideComparison),     *)
(* though another baseline may have stood when the comparison was planned.      *)
THEOREM BaselinesMoveByComparison == Spec => BaselineMovesByComparison
<1>1. GateInv /\ [Next]_vars =>
        [ pointer # NoPointer /\ pointer'.revision # pointer.revision /\ ~pointer'.chainBroken
          => \E i \in DOMAIN reports :
                 /\ reports[i].plan = pointer'.plan
                 /\ reports[i].plan.baseline = pointer.revision
                 /\ reports[i].plan.version = pointer.version
                 /\ OutcomeIsPass(reports[i]) ]_vars
  <2> SUFFICES ASSUME GateInv, [Next]_vars, pointer # NoPointer,
                      pointer'.revision # pointer.revision, ~pointer'.chainBroken
               PROVE  \E i \in DOMAIN reports :
                        /\ reports[i].plan = pointer'.plan
                        /\ reports[i].plan.baseline = pointer.revision
                        /\ reports[i].plan.version = pointer.version
                        /\ OutcomeIsPass(reports[i])
    OBVIOUS
  <2>1. PICK i \in DOMAIN reports, rebase \in BOOLEAN : Score(i, rebase)
    BY DEF Next, vars, Plan, Complete, LoseBatch, Tick, MoveVersion, Grant, EndException
  <2> QED
    BY <2>1, ScoreMovesByComparison
<1> QED
  BY <1>1, LedgersStaySound, PTL DEF Spec, BaselineMovesByComparison

-----------------------------------------------------------------------------
(* What a ledger is evidence of, read off one report after the other. *)

LEMMA LeastOf ==
  ASSUME NEW T, T \subseteq Nat, T # {}
  PROVE  \E x \in T : \A y \in T : x <= y
<1>1. PICK x \in T : \A y \in T : <<y, x>> \notin OpToRel(<, Nat)
  BY NatLessThanWellFounded, WFMin
<1>2. ASSUME NEW y \in T
      PROVE  x <= y
  <2>1. x \in Nat /\ y \in Nat /\ ~(y < x)
    BY <1>1 DEF OpToRel
  <2> QED
    BY <2>1
<1> QED
  BY <1>2

(* Induction over the naturals, for a set of them.                          *)
LEMMA Induction ==
  ASSUME NEW S, 0 \in S, \A n \in Nat : n \in S => n + 1 \in S
  PROVE  Nat \subseteq S
<1> SUFFICES ASSUME Nat \ S # {} PROVE FALSE
  OBVIOUS
<1>1. PICK x \in Nat \ S : \A y \in Nat \ S : x <= y
  BY LeastOf
<1>2. x - 1 \in Nat /\ ~(x - 1 \in Nat \ S)
  BY <1>1
<1>3. (x - 1) + 1 \in S
  BY <1>2
<1> QED
  BY <1>1, <1>2, <1>3

Ledger(rs, ds) == rs \in Seq(Reports) /\ DOMAIN ds = DOMAIN rs

(* What has been gathered after each report.                                *)
Gathers(f, n, rs, ds) ==
  /\ f \in [0 .. n -> Seq(Reports)]
  /\ f[0] = <<>>
  /\ \A k \in 1 .. n : f[k] = Weighed(f[k - 1], rs[k], ds[k])

LEMMA LedgerShape ==
  ASSUME NEW rs, NEW ds, Ledger(rs, ds)
  PROVE  /\ Len(rs) \in Nat /\ DOMAIN rs = 1 .. Len(rs)
         /\ \A k \in 1 .. Len(rs) : rs[k] \in Reports
  BY LenProperties, ElementOfSeq DEF Ledger

LEMMA WeighedType ==
  ASSUME NEW evidence \in Seq(Reports), NEW report \in Reports, NEW decision
  PROVE  Weighed(evidence, report, decision) \in Seq(Reports)
  BY AppendProperties DEF Weighed

LEMMA GathersOn ==
  ASSUME NEW rs, NEW ds, NEW n \in Nat, NEW f, Gathers(f, n, rs, ds), rs[n + 1] \in Reports
  PROVE  \E g : Gathers(g, n + 1, rs, ds)
<1> DEFINE next == Weighed(f[n], rs[n + 1], ds[n + 1])
           g == [k \in 0 .. n + 1 |-> IF k = n + 1 THEN next ELSE f[k]]
<1>1. f[n] \in Seq(Reports)
  BY DEF Gathers
<1>2. next \in Seq(Reports)
  BY <1>1, WeighedType
<1> HIDE DEF next
<1>3. g \in [0 .. n + 1 -> Seq(Reports)] /\ g[0] = <<>>
  BY <1>2 DEF Gathers
<1>4. ASSUME NEW k \in 1 .. n + 1
      PROVE  g[k] = Weighed(g[k - 1], rs[k], ds[k])
  <2>1. CASE k = n + 1
    <3>1. g[k] = next /\ g[k - 1] = f[n]
      BY <2>1
    <3> QED
      BY <2>1, <3>1 DEF next
  <2>2. CASE k # n + 1
    <3>1. k \in 1 .. n /\ g[k] = f[k] /\ g[k - 1] = f[k - 1]
      BY <2>2
    <3> QED
      BY <3>1 DEF Gathers
  <2> QED
    BY <2>1, <2>2
<1> QED
  BY <1>3, <1>4 DEF Gathers

(* The evidence is what was gathered last.                                  *)
LEMMA EvidenceIsGathered ==
  ASSUME NEW rs, NEW ds, Ledger(rs, ds)
  PROVE  \E f : Gathers(f, Len(rs), rs, ds) /\ Evidence(rs, ds) = f[Len(rs)]
<1> DEFINE S == {n \in Nat : n <= Len(rs) => \E f : Gathers(f, n, rs, ds)}
           G(f) == [k \in 0 .. Len(rs) |->
                      IF k = 0 THEN <<>> ELSE Weighed(f[k - 1], rs[k], ds[k])]
           upTo == CHOOSE f : f = G(f)
<1>1. Len(rs) \in Nat /\ \A k \in 1 .. Len(rs) : rs[k] \in Reports
  BY LedgerShape
<1>2. 0 \in S
  <2>1. <<>> \in Seq(Reports)
    BY EmptySeq
  <2>2. Gathers([k \in 0 .. 0 |-> <<>>], 0, rs, ds)
    BY <2>1 DEF Gathers
  <2> QED
    BY <2>2
<1>3. ASSUME NEW n \in Nat, n \in S
      PROVE  n + 1 \in S
  <2> SUFFICES ASSUME n + 1 <= Len(rs) PROVE \E g : Gathers(g, n + 1, rs, ds)
    OBVIOUS
  <2>1. PICK f : Gathers(f, n, rs, ds)
    BY <1>1, <1>3
  <2>2. rs[n + 1] \in Reports
    BY <1>1
  <2> QED
    BY <2>1, <2>2, GathersOn
<1> HIDE DEF S
<1>4. Len(rs) \in S
  BY <1>1, <1>2, <1>3, Induction
<1>5. PICK f : Gathers(f, Len(rs), rs, ds)
  BY <1>1, <1>4 DEF S
<1>6. f = G(f)
  BY <1>1, <1>5 DEF Gathers
<1>7. Evidence(rs, ds) = upTo[Len(rs)]
  BY Zenon DEF Evidence
<1>8. upTo = G(upTo)
  <2> HIDE DEF G
  <2> QED
    BY <1>6
<1> HIDE DEF upTo
<1> DEFINE T == {n \in Nat : n <= Len(rs) => upTo[n] = f[n]}
<1>9. 0 \in T
  BY <1>1, <1>5, <1>8 DEF Gathers
<1>10. ASSUME NEW n \in Nat, n \in T
       PROVE  n + 1 \in T
  <2> SUFFICES ASSUME n + 1 <= Len(rs) PROVE upTo[n + 1] = f[n + 1]
    OBVIOUS
  <2>1. n + 1 \in 1 .. Len(rs) /\ n + 1 \in 0 .. Len(rs) /\ (n + 1) - 1 = n /\ n + 1 # 0
    BY <1>1
  <2>2. upTo[n] = f[n]
    BY <1>1, <1>10
  <2>3. upTo[n + 1] = Weighed(upTo[n], rs[n + 1], ds[n + 1])
    BY <1>8, <2>1
  <2>4. f[n + 1] = Weighed(f[n], rs[n + 1], ds[n + 1])
    BY <1>5, <2>1 DEF Gathers
  <2> QED
    BY <2>2, <2>3, <2>4
<1> HIDE DEF T
<1>11. Len(rs) \in T
  BY <1>1, <1>9, <1>10, Induction
<1>12. upTo[Len(rs)] = f[Len(rs)]
  BY <1>1, <1>11 DEF T
<1> QED
  BY <1>5, <1>7, <1>12

-----------------------------------------------------------------------------
(* When a lineage is current. *)

Backed(evidence, when) ==
  /\ evidence # <<>>
  /\ Last(evidence).absolute = "PASS"
  /\ when - Last(evidence).completedAt <= RequalifyEvery

LEMMA CurrentIsBacked ==
  ASSUME NEW evidence \in Seq(Reports), NEW when \in Nat
  PROVE  Standing(evidence, when) = "current" <=> Backed(evidence, when)
<1>1. CASE evidence = <<>>
  BY <1>1 DEF Standing, Backed
<1>2. CASE evidence # <<>>
  <2> DEFINE latest == Last(evidence)
  <2>1. CASE latest.absolute = "FAIL"
    <3>1. Standing(evidence, when) = "failed"
      BY Zenon, <1>2, <2>1 DEF Standing, Passes
    <3> QED
      BY <2>1, <3>1 DEF Backed
  <2>2. CASE latest.absolute \notin {"FAIL", "PASS"}
    BY <1>2, <2>2 DEF Standing, Backed, Passes
  <2>3. CASE latest.absolute = "PASS"
    <3> DEFINE fresh == when - latest.completedAt <= RequalifyEvery
    <3>1. Standing(evidence, when) = IF fresh THEN "current" ELSE "stale"
      BY Zenon, <1>2, <2>3 DEF Standing, Passes
    <3>2. Backed(evidence, when) <=> fresh
      BY <1>2, <2>3 DEF Backed
    <3> HIDE DEF fresh
    <3> QED
      BY <3>1, <3>2
  <2> QED
    BY <2>1, <2>2, <2>3
<1> QED
  BY <1>1, <1>2

LEMMA LastIs ==
  ASSUME NEW evidence \in Seq(Reports), NEW report \in Reports
  PROVE  /\ Append(evidence, report) # <<>>
         /\ Last(Append(evidence, report)) = report
         /\ evidence # <<>> => Last(evidence) \in Reports
<1>1. /\ Append(evidence, report) \in Seq(Reports)
      /\ Len(Append(evidence, report)) = Len(evidence) + 1
      /\ Append(evidence, report)[Len(evidence) + 1] = report
      /\ Len(evidence) \in Nat
  BY AppendProperties, LenProperties
<1>2. evidence # <<>> => Len(evidence) \in 1 .. Len(evidence)
  BY <1>1, EmptySeq
<1>3. evidence # <<>> => evidence[Len(evidence)] \in Reports
  BY <1>2, ElementOfSeq
<1>4. Append(evidence, report) # <<>>
  BY <1>1, EmptySeq
<1> QED
  BY <1>1, <1>3, <1>4 DEF Last

(* Whatever keeps the second current keeps the first, which is no older.     *)
AsGood(one, other) ==
  other # <<>> /\ Last(other).absolute = "PASS" =>
    /\ one # <<>>
    /\ Last(one).absolute = "PASS"
    /\ Last(one).completedAt >= Last(other).completedAt

LEMMA AsGoodBacks ==
  ASSUME NEW one \in Seq(Reports), NEW other \in Seq(Reports), AsGood(one, other),
         NEW when \in Nat, Backed(other, when)
  PROVE  Backed(one, when)
<1>1. /\ one # <<>> /\ Last(one).absolute = "PASS"
      /\ Last(one).completedAt >= Last(other).completedAt
  BY DEF AsGood, Backed
<1>2. Last(one) \in Reports /\ Last(other) \in Reports
  <2>1. PICK report : report \in Reports
    <3>1. one # <<>>
      BY <1>1
    <3>2. Len(one) \in 1 .. Len(one)
      BY <3>1, LenProperties, EmptySeq
    <3> QED
      BY <3>2, ElementOfSeq
  <2> QED
    BY <1>1, <2>1, LastIs DEF Backed
<1>3. Last(one).completedAt \in Nat /\ Last(other).completedAt \in Nat
  BY <1>2 DEF Reports
<1> QED
  BY <1>1, <1>3, FreshnessAssumption DEF Backed

(* Reports are in the ledger in the order their batches completed.          *)
InOrder(rs) == \A i, k \in DOMAIN rs : i < k => rs[i].completedAt <= rs[k].completedAt

(* One more report, decided alike in both ledgers, or a promotion that the    *)
(* second ledger does not have: the first stays as good.                    *)
LEMMA WeighedAlike ==
  ASSUME NEW one \in Seq(Reports), NEW other \in Seq(Reports), AsGood(one, other),
         NEW report \in Reports, NEW d1, NEW d2,
         d1 = d2 \/ (report.plan.kind = "promotion" /\ d2 # "promoted"),
         other # <<>> => Last(other).completedAt <= report.completedAt
  PROVE  LET one2   == Weighed(one, report, d1)
             other2 == Weighed(other, report, d2)
         IN /\ AsGood(one2, other2)
            /\ other2 # <<>> => Last(other2).completedAt <= report.completedAt
<1> DEFINE one2   == Weighed(one, report, d1)
           other2 == Weighed(other, report, d2)
<1>1. report.completedAt \in Nat
  BY DEF Reports
<1>2. /\ Append(one, report) # <<>> /\ Last(Append(one, report)) = report
      /\ Append(other, report) # <<>> /\ Last(Append(other, report)) = report
  BY LastIs
<1>3. Counts(report, d2, other) => Counts(report, d1, one)
  <2> SUFFICES ASSUME Counts(report, d2, other) PROVE Counts(report, d1, one)
    OBVIOUS
  <2>1. CASE report.plan.kind = "promotion"
    <3>1. /\ d2 = "promoted" /\ OutcomeIsPass(report)
          /\ Standing(other, report.completedAt) = "current"
      BY <2>1 DEF Counts
    <3>2. Standing(one, report.completedAt) = "current"
      BY <1>1, <3>1, CurrentIsBacked, AsGoodBacks
    <3> QED
      BY <2>1, <3>1, <3>2 DEF Counts
  <2>2. CASE report.plan.kind # "promotion"
    BY <2>2 DEF Counts
  <2> QED
    BY <2>1, <2>2
<1>4. CASE Counts(report, d2, other)
  <2>1. one2 = Append(one, report) /\ other2 = Append(other, report)
    BY <1>3, <1>4 DEF Weighed
  <2> QED
    BY <1>1, <1>2, <2>1 DEF AsGood
<1>5. CASE ~Counts(report, d2, other) /\ ~Counts(report, d1, one)
  <2>1. one2 = one /\ other2 = other
    BY <1>5 DEF Weighed
  <2> QED
    BY <2>1
<1>6. CASE ~Counts(report, d2, other) /\ Counts(report, d1, one)
  <2>1. one2 = Append(one, report) /\ other2 = other
    BY <1>6 DEF Weighed
  <2>2. report.absolute = "PASS"
    <3>1. report.plan.kind = "promotion"
      BY <1>6 DEF Counts
    <3> QED
      BY <1>6, <3>1 DEF Counts, OutcomeIsPass
  <2> QED
    BY <1>2, <2>1, <2>2 DEF AsGood
<1> QED
  BY <1>4, <1>5, <1>6

(* A ledger that promoted nothing the other did not is current only where    *)
(* that one is.                                                            *)
LEMMA PromotingLessRestoresNothing ==
  ASSUME NEW rs, NEW d1, NEW d2, Ledger(rs, d1), Ledger(rs, d2), InOrder(rs), NEW when \in Nat,
         \A k \in DOMAIN rs : d1[k] = d2[k] \/ (rs[k].plan.kind = "promotion" /\ d2[k] # "promoted"),
         LineageStatus(rs, d2, when) = "current"
  PROVE  LineageStatus(rs, d1, when) = "current"
<1>1. /\ Len(rs) \in Nat /\ DOMAIN rs = 1 .. Len(rs)
      /\ \A k \in 1 .. Len(rs) : rs[k] \in Reports
  BY LedgerShape
<1>2. PICK f : Gathers(f, Len(rs), rs, d1) /\ Evidence(rs, d1) = f[Len(rs)]
  BY EvidenceIsGathered
<1>3. PICK g : Gathers(g, Len(rs), rs, d2) /\ Evidence(rs, d2) = g[Len(rs)]
  BY EvidenceIsGathered
<1> DEFINE Alike(n) == /\ AsGood(f[n], g[n])
                       /\ g[n] # <<>> => \A k \in n .. Len(rs) : k > 0 =>
                                           Last(g[n]).completedAt <= rs[k].completedAt
           S == {n \in Nat : n <= Len(rs) => Alike(n)}
<1>4. 0 \in S
  BY <1>2, <1>3 DEF Gathers, AsGood
<1>5. ASSUME NEW n \in Nat, n \in S
      PROVE  n + 1 \in S
  <2> SUFFICES ASSUME n + 1 <= Len(rs) PROVE Alike(n + 1)
    OBVIOUS
  <2>1. n + 1 \in 1 .. Len(rs) /\ (n + 1) - 1 = n /\ n \in 0 .. Len(rs)
    BY <1>1
  <2>2. Alike(n)
    BY <1>1, <1>5
  <2>3. /\ f[n] \in Seq(Reports) /\ g[n] \in Seq(Reports)
        /\ f[n + 1] = Weighed(f[n], rs[n + 1], d1[n + 1])
        /\ g[n + 1] = Weighed(g[n], rs[n + 1], d2[n + 1])
    BY <1>2, <1>3, <2>1 DEF Gathers
  <2>4. rs[n + 1] \in Reports
    BY <1>1, <2>1
  <2>5. g[n] # <<>> => Last(g[n]).completedAt <= rs[n + 1].completedAt
    BY <1>1, <2>1, <2>2
  <2>6. \/ d1[n + 1] = d2[n + 1]
        \/ rs[n + 1].plan.kind = "promotion" /\ d2[n + 1] # "promoted"
    BY <1>1, <2>1
  <2>7. /\ AsGood(f[n + 1], g[n + 1])
        /\ g[n + 1] # <<>> => Last(g[n + 1]).completedAt <= rs[n + 1].completedAt
    <3>1. AsGood(f[n], g[n])
      BY <2>2
    <3> HIDE DEF Alike
    <3> QED
      BY <2>3, <2>4, <2>5, <2>6, <3>1, WeighedAlike
  <2>8. ASSUME NEW k \in n + 1 .. Len(rs), g[n + 1] # <<>>
        PROVE  Last(g[n + 1]).completedAt <= rs[k].completedAt
    <3>1. k \in 1 .. Len(rs)
      BY <1>1
    <3>2. rs[n + 1].completedAt <= rs[k].completedAt
      <4>1. CASE k = n + 1
        BY <2>4, <4>1 DEF Reports
      <4>2. CASE k # n + 1
        BY <1>1, <2>1, <3>1, <4>2 DEF InOrder
      <4> QED
        BY <4>1, <4>2
    <3>3. rs[n + 1].completedAt \in Nat /\ rs[k].completedAt \in Nat
      BY <1>1, <2>1, <3>1 DEF Reports
    <3>4. Last(g[n + 1]).completedAt \in Nat
      <4>1. g[n + 1] \in Seq(Reports)
        BY <1>3, <2>1 DEF Gathers
      <4>2. Last(g[n + 1]) \in Reports
        BY <2>4, <2>8, <4>1, LastIs
      <4> QED
        BY <4>2 DEF Reports
    <3> QED
      BY <2>7, <2>8, <3>2, <3>3, <3>4
  <2> QED
    BY <2>7, <2>8
<1> HIDE DEF S
<1>6. Len(rs) \in S
  BY <1>1, <1>4, <1>5, Induction
<1>7. AsGood(f[Len(rs)], g[Len(rs)])
  BY <1>1, <1>6 DEF S
<1>8. f[Len(rs)] \in Seq(Reports) /\ g[Len(rs)] \in Seq(Reports)
  BY <1>1, <1>2, <1>3 DEF Gathers
<1> QED
  BY <1>2, <1>3, <1>7, <1>8, AsGoodBacks, CurrentIsBacked DEF LineageStatus

(* A report nobody scored is evidence of nothing.                           *)
LEMMA UnscoredIsNoEvidence ==
  ASSUME NEW rs, NEW ds, Ledger(rs, ds), NEW rs2, NEW ds2, Ledger(rs2, ds2),
         Len(rs2) = Len(rs) + 1, ds2[Len(rs) + 1] = Unrecorded,
         \A k \in DOMAIN rs : rs2[k] = rs[k] /\ ds2[k] = ds[k]
  PROVE  Evidence(rs2, ds2) = Evidence(rs, ds)
<1>1. Len(rs) \in Nat /\ DOMAIN rs = 1 .. Len(rs)
  BY LedgerShape
<1>2. PICK f : Gathers(f, Len(rs), rs, ds) /\ Evidence(rs, ds) = f[Len(rs)]
  BY EvidenceIsGathered
<1>3. PICK g : Gathers(g, Len(rs2), rs2, ds2) /\ Evidence(rs2, ds2) = g[Len(rs2)]
  BY EvidenceIsGathered
<1> DEFINE S == {n \in Nat : n <= Len(rs) => g[n] = f[n]}
<1>4. 0 \in S
  BY <1>2, <1>3 DEF Gathers
<1>5. ASSUME NEW n \in Nat, n \in S
      PROVE  n + 1 \in S
  <2> SUFFICES ASSUME n + 1 <= Len(rs) PROVE g[n + 1] = f[n + 1]
    OBVIOUS
  <2>1. n + 1 \in 1 .. Len(rs) /\ n + 1 \in 1 .. Len(rs2) /\ (n + 1) - 1 = n
    BY <1>1
  <2>2. g[n] = f[n]
    BY <1>1, <1>5
  <2>3. g[n + 1] = Weighed(g[n], rs2[n + 1], ds2[n + 1])
    BY <1>3, <2>1 DEF Gathers
  <2>4. f[n + 1] = Weighed(f[n], rs[n + 1], ds[n + 1])
    BY <1>2, <2>1 DEF Gathers
  <2> QED
    BY <1>1, <2>1, <2>2, <2>3, <2>4
<1> HIDE DEF S
<1>6. Len(rs) \in S
  BY <1>1, <1>4, <1>5, Induction
<1>7. g[Len(rs)] = f[Len(rs)]
  BY <1>1, <1>6 DEF S
<1>8. g[Len(rs) + 1] = Weighed(g[Len(rs)], rs2[Len(rs) + 1], Unrecorded)
  <2>1. Len(rs) + 1 \in 1 .. Len(rs2) /\ (Len(rs) + 1) - 1 = Len(rs)
    BY <1>1
  <2> QED
    BY <1>3, <2>1 DEF Gathers
<1>9. g[Len(rs) + 1] = g[Len(rs)]
  BY <1>8 DEF Weighed, Counts, Unrecorded
<1> QED
  BY <1>2, <1>3, <1>7, <1>9

(* Time makes nothing current.                                             *)
LEMMA TimeRestoresNothing ==
  ASSUME NEW rs, NEW ds, Ledger(rs, ds), NEW when \in Nat,
         LineageStatus(rs, ds, when + 1) = "current"
  PROVE  LineageStatus(rs, ds, when) = "current"
<1>1. PICK f : Gathers(f, Len(rs), rs, ds) /\ Evidence(rs, ds) = f[Len(rs)]
  BY EvidenceIsGathered
<1>2. Len(rs) \in Nat
  BY LedgerShape
<1>3. Evidence(rs, ds) \in Seq(Reports)
  BY <1>1, <1>2 DEF Gathers
<1>4. Backed(Evidence(rs, ds), when + 1)
  BY <1>3, CurrentIsBacked DEF LineageStatus
<1>5. Backed(Evidence(rs, ds), when)
  <2>1. Len(Evidence(rs, ds)) \in 1 .. Len(Evidence(rs, ds))
    BY <1>3, <1>4, LenProperties, EmptySeq DEF Backed
  <2>2. Last(Evidence(rs, ds)) \in Reports
    BY <1>3, <2>1, ElementOfSeq DEF Last
  <2>3. Last(Evidence(rs, ds)).completedAt \in Nat
    BY <2>2 DEF Reports
  <2> QED
    BY <1>4, <2>3, FreshnessAssumption DEF Backed
<1> QED
  BY <1>3, <1>5, CurrentIsBacked DEF LineageStatus

-----------------------------------------------------------------------------
(* Batches complete one after the other. *)

Timely ==
  /\ \A i \in DOMAIN reports : reports[i].completedAt <= now
  /\ InOrder(reports)

LEMMA TimelyStarts == Init => Timely
<1> SUFFICES ASSUME Init PROVE Timely
  OBVIOUS
<1>1. CASE reports = <<>>
  BY <1>1 DEF Timely, InOrder
<1>2. ASSUME NEW r \in Revisions, reports = <<Qualified(r)>>, now = RequalifyEvery
      PROVE  Timely
  <2>1. DOMAIN reports = {1} /\ reports[1] = Qualified(r)
    BY <1>2
  <2>2. reports[1].completedAt = 0
    BY <2>1 DEF Qualified
  <2> QED
    BY <1>2, <2>1, <2>2, FreshnessAssumption DEF Timely, InOrder
<1> QED
  BY <1>1, <1>2 DEF Init

LEMMA CompletedNow ==
  ASSUME NEW plan, NEW records, NEW when, NEW report \in ComposeReport(plan, records, when)
  PROVE  report.completedAt = when
<1>1. CASE ~BatchIsValid(Assembled(records))
  BY <1>1 DEF ComposeReport
<1>2. CASE BatchIsValid(Assembled(records))
  BY <1>2 DEF ComposeReport
<1> QED
  BY <1>1, <1>2

(* The ledger after a completion: one report more, which nobody scored.      *)
LEMMA Completion ==
  ASSUME GateInv, Complete
  PROVE  /\ Ledger(reports, recorded) /\ Ledger(reports', recorded')
         /\ Len(reports) \in Nat /\ DOMAIN reports = 1 .. Len(reports)
         /\ Len(reports') = Len(reports) + 1 /\ DOMAIN reports' = 1 .. Len(reports) + 1
         /\ recorded'[Len(reports) + 1] = Unrecorded
         /\ reports'[Len(reports) + 1].completedAt = now
         /\ \A k \in DOMAIN reports : reports'[k] = reports[k] /\ recorded'[k] = recorded[k]
         /\ now' = now
<1>1. PICK report \in UNION {ComposeReport(batch, rs, now) : rs \in Records(batch)} :
        reports' = Append(reports, report)
  BY DEF Complete
<1>2. report.completedAt = now /\ report \in Reports
  <2>1. PICK records \in Records(batch) : report \in ComposeReport(batch, records, now)
    OBVIOUS
  <2>2. PlanIsArranged(batch) /\ now \in Nat
    BY DEF GateInv, GateTypeOK, Arranged, Complete
  <2> QED
    BY <2>1, <2>2, CompletedNow, ComposedReportIsSound DEF SoundReport
<1>3. GateInv'
  BY CompleteKeepsInv
<1>4. /\ recorded \in Seq(Decisions \cup {Unrecorded})
      /\ Len(recorded) = Len(reports) /\ DOMAIN recorded = DOMAIN reports
      /\ reports \in Seq(Reports)
  BY RecordedIsSequence DEF GateInv, GateTypeOK
<1>5. Ledger(reports, recorded)
  BY <1>4 DEF Ledger
<1>6. Ledger(reports', recorded')
  BY <1>3 DEF Ledger, GateInv, GateTypeOK
<1>7. Len(reports) \in Nat /\ DOMAIN reports = 1 .. Len(reports)
  BY <1>5, LedgerShape
<1>8. recorded' = Append(recorded, Unrecorded) /\ now' = now
  BY DEF Complete
<1>9. /\ Len(reports') = Len(reports) + 1
      /\ DOMAIN reports' = 1 .. Len(reports) + 1
      /\ reports'[Len(reports) + 1] = report
      /\ \A k \in 1 .. Len(reports) : reports'[k] = reports[k]
  BY <1>1, <1>2, <1>4, <1>7
<1>10. /\ recorded'[Len(reports) + 1] = Unrecorded
       /\ \A k \in 1 .. Len(reports) : recorded'[k] = recorded[k]
  BY <1>4, <1>7, <1>8
<1> QED
  BY <1>2, <1>5, <1>6, <1>7, <1>8, <1>9, <1>10

LEMMA TimelyStep == GateInv /\ Timely /\ [Next]_vars => Timely'
<1> SUFFICES ASSUME GateInv, Timely, [Next]_vars PROVE Timely'
  OBVIOUS
<1>1. CASE UNCHANGED <<reports, now>>
  BY <1>1 DEF Timely, InOrder
<1>2. CASE Complete
  <2>1. \A k \in DOMAIN reports' : reports'[k].completedAt <= now
    <3>1. now \in Nat
      BY DEF GateInv, GateTypeOK
    <3> QED
      BY <1>2, <3>1, Completion DEF Timely
  <2>2. InOrder(reports')
    <3> SUFFICES ASSUME NEW i \in DOMAIN reports', NEW k \in DOMAIN reports', i < k
                 PROVE  reports'[i].completedAt <= reports'[k].completedAt
      BY DEF InOrder
    <3>1. i \in DOMAIN reports /\ reports'[i] = reports[i]
      BY <1>2, Completion
    <3>2. CASE k \in DOMAIN reports
      BY <1>2, <3>1, <3>2, Completion DEF Timely, InOrder
    <3>3. CASE k \notin DOMAIN reports
      <4>1. k = Len(reports) + 1
        BY <1>2, <3>3, Completion
      <4> QED
        BY <1>2, <3>1, <4>1, Completion DEF Timely
    <3> QED
      BY <3>2, <3>3
  <2> QED
    BY <1>2, <2>1, <2>2, Completion DEF Timely
<1>3. CASE Tick
  <2>1. reports' = reports /\ now' = now + 1 /\ now \in Nat
    BY <1>3 DEF Tick, GateInv, GateTypeOK
  <2>2. \A i \in DOMAIN reports : reports[i].completedAt \in Nat
    <3>1. \A i \in DOMAIN reports : reports[i] \in Reports
      BY DEF GateInv, Sound, SoundReport
    <3> QED
      BY <3>1 DEF Reports
  <2> QED
    BY <2>1, <2>2 DEF Timely, InOrder
<1> QED
  BY <1>1, <1>2, <1>3
     DEF Next, vars, Plan, LoseBatch, Score, MoveVersion, Grant, EndException

(* Reports lie in the ledger in the order their batches completed, none of    *)
(* them ahead of the clock (readLedger, lineageStatus).                      *)
THEOREM ReportsAreTimely == Spec => []Timely
<1> QED
  BY TimelyStarts, TimelyStep, LedgersStaySound, PTL DEF Spec

-----------------------------------------------------------------------------
(* What can restore a lineage. *)

Restored ==
  /\ LineageStatus(reports, recorded, now) # "current"
  /\ LineageStatus(reports, recorded, now)' = "current"

Qualifies ==
  \E i \in DOMAIN reports :
      /\ recorded[i] # recorded'[i]
      /\ reports[i].plan.kind # "promotion"

LEMMA ScoreRestores ==
  ASSUME GateInv, Timely, NEW i \in DOMAIN reports, NEW rebase \in BOOLEAN, Score(i, rebase),
         Restored
  PROVE  Qualifies
<1> DEFINE report == reports[i]
           status == LineageStatus(reports, recorded, now)
           decision == PromotionDecision(report, pointer, exceptions, status, now)
<1>1. /\ recorded' = [recorded EXCEPT ![i] = decision]
      /\ reports' = reports /\ now' = now
  BY DEF Score
<1>2. /\ Ledger(reports, recorded) /\ InOrder(reports) /\ now \in Nat
      /\ recorded \in [DOMAIN reports -> Decisions \cup {Unrecorded}]
  BY DEF Ledger, GateInv, GateTypeOK, Timely
<1>3. status # "current" /\ LineageStatus(reports, recorded', now) = "current"
  BY <1>1 DEF Restored
<1> HIDE DEF status
<1>4. report.plan.kind = "promotion" => decision # "promoted"
  <2> SUFFICES ASSUME report.plan.kind = "promotion" PROVE decision # "promoted"
    OBVIOUS
  <2>1. DecideComparison(report, pointer, exceptions, status, now) = "refused"
    BY <1>3 DEF DecideComparison
  <2> HIDE DEF report
  <2> QED
    BY <2>1 DEF PromotionDecision
<1> HIDE DEF decision
<1>5. DOMAIN recorded' = DOMAIN reports /\ recorded'[i] = decision
      /\ \A k \in DOMAIN reports : k # i => recorded'[k] = recorded[k]
  BY <1>1, <1>2
<1>6. ~Qualifies => \A k \in DOMAIN reports :
        \/ recorded[k] = recorded'[k]
        \/ reports[k].plan.kind = "promotion" /\ recorded'[k] # "promoted"
  BY <1>4, <1>5 DEF Qualifies
<1>7. Ledger(reports, recorded')
  BY <1>2, <1>5 DEF Ledger
<1>8. ~Qualifies => LineageStatus(reports, recorded, now) = "current"
  BY <1>2, <1>3, <1>6, <1>7, PromotingLessRestoresNothing
<1> QED
  BY <1>8 DEF Restored

LEMMA StepRestores == GateInv /\ Timely /\ [Next]_vars => [Restored => Qualifies]_vars
<1> SUFFICES ASSUME GateInv, Timely, [Next]_vars, Restored PROVE Qualifies
  OBVIOUS
<1>1. Ledger(reports, recorded) /\ now \in Nat
  BY DEF Ledger, GateInv, GateTypeOK
<1>2. CASE UNCHANGED <<reports, recorded, now>>
  <2>1. LineageStatus(reports, recorded, now)' = LineageStatus(reports, recorded, now)
    BY <1>2
  <2> QED
    BY <2>1 DEF Restored
<1>3. CASE Complete
  <2>1. Evidence(reports', recorded') = Evidence(reports, recorded)
    BY <1>3, Completion, UnscoredIsNoEvidence
  <2>2. now' = now
    BY <1>3 DEF Complete
  <2> QED
    BY <2>1, <2>2 DEF Restored, LineageStatus
<1>4. CASE Tick
  <2>1. reports' = reports /\ recorded' = recorded /\ now' = now + 1
    BY <1>4 DEF Tick
  <2>2. LineageStatus(reports, recorded, now + 1) = "current"
    BY <2>1 DEF Restored
  <2> QED
    BY <1>1, <2>2, TimeRestoresNothing DEF Restored
<1>5. ASSUME NEW i \in DOMAIN reports, NEW rebase \in BOOLEAN, Score(i, rebase)
      PROVE  Qualifies
  BY <1>5, ScoreRestores
<1> QED
  BY <1>2, <1>3, <1>4, <1>5
     DEF Next, vars, Plan, LoseBatch, MoveVersion, Grant, EndException

(* A lineage that lapsed comes back only by a qualification that was scored:   *)
(* a comparison needs the lineage to be current already (promotionDecision),    *)
(* and however many of them are scored again, later than what they compared    *)
(* and in whatever order, they leave it no fresher than it was.              *)
THEOREM QualificationAloneRestores == Spec => OnlyQualificationRestores
<1> QED
  BY StepRestores, LedgersStaySound, ReportsAreTimely, PTL
     DEF Spec, OnlyQualificationRestores, Restored, Qualifies
=============================================================================
