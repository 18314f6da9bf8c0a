--------------------------------- MODULE Gate ---------------------------------
(***************************************************************************)
(* The qualification gate at work (tools/gate/qualify.mjs): evaluations are     *)
(* planned against the ledger as it is, run for hours on runners that may be    *)
(* lost, and scored against the ledger as it is by then, in whatever order      *)
(* their records are picked up and as often as somebody does, while time        *)
(* passes, the corpus moves and maintainers grant and end exceptions.          *)
(***************************************************************************)
EXTENDS GateLedger

CONSTANTS NamedBaselines  \* the revisions an operator names with --baseline

CONSTANTS MaxBatches, MaxNow, MaxVersion, MaxExceptions  \* bounds

ASSUME GateAssumption ==
  /\ NamedBaselines \subseteq Revisions
  /\ MaxBatches \in Nat /\ MaxNow \in Nat /\ MaxVersion \in Nat \ {0} /\ MaxExceptions \in Nat
  /\ RequalifyEvery <= MaxNow

VARIABLES
  now, version,   \* the clock, and the corpus and scoring version of the checkout
  batch,          \* the plan that runs; one evaluation of the lineage at a time
  reports,        \* what the completed batches' records assemble to
  recorded,       \* the decisions in the ledger, by report
  pointer,        \* the standing baseline
  exceptions,
  planned, granted  \* what the bounds count

vars == <<now, version, batch, reports, recorded, pointer, exceptions, planned, granted>>

NoPlan == [kind |-> "none"]

GateTypeOK ==
  /\ now \in 0..MaxNow /\ version \in 1..MaxVersion
  /\ batch \in Plans \cup {NoPlan}
  /\ reports \in Seq(Reports)
  /\ recorded \in [DOMAIN reports -> Decisions \cup {Unrecorded}]
  /\ pointer \in Pointers \cup {NoPointer}
  /\ exceptions \subseteq Exceptions
  /\ planned \in 0..MaxBatches /\ granted \in 0..MaxExceptions

(* The report of a revision that qualified at the beginning of time.           *)
Qualified(r) ==
  [plan |-> [kind |-> "first-qualification", candidate |-> r, baseline |-> NoRevision,
             version |-> 1, repetitions |-> PolicyRepetitions, startedAt |-> 0],
   completedAt |-> 0, observed |-> TRUE, valid |-> TRUE, absolute |-> "PASS",
   shortfall |-> FALSE]

(* A lineage nobody evaluated yet, or one whose baseline has stood for as long   *)
(* as its qualification lasts.                                                 *)
Init ==
  /\ \/ now = 0 /\ reports = <<>> /\ recorded = <<>> /\ pointer = NoPointer
     \/ \E r \in Revisions :
            /\ now = RequalifyEvery
            /\ reports = <<Qualified(r)>> /\ recorded = <<"promoted">>
            /\ pointer = PointerTo(Qualified(r), "first-qualification")
  /\ version = 1 /\ batch = NoPlan
  /\ exceptions = {} /\ planned = 0 /\ granted = 0

-----------------------------------------------------------------------------
(* resolveArms: a promotion is planned against the standing baseline or the    *)
(* commit --baseline names, and not at all while the baseline waits to be       *)
(* requalified; a requalification judges the standing baseline and no other.    *)
Arrange(kind, candidate, baseline) ==
  CASE kind = "promotion" ->
         /\ baseline # NoRevision
         /\ ~BaselineNeedsRequalification(pointer, version)
    [] kind = "requalification" ->
         /\ baseline = NoRevision
         /\ pointer # NoPointer /\ candidate = pointer.revision
    [] kind = "first-qualification" -> baseline = NoRevision

Plan(kind, candidate, baseline, repetitions) ==
  /\ batch = NoPlan /\ planned < MaxBatches
  /\ planned' = planned + 1
  /\ Arrange(kind, candidate, baseline)
  /\ batch' = [kind |-> kind, candidate |-> candidate, baseline |-> baseline,
               version |-> version, repetitions |-> repetitions, startedAt |-> now]
  /\ UNCHANGED <<now, version, reports, recorded, pointer, exceptions, granted>>

Complete ==
  /\ batch # NoPlan
  /\ \E report \in UNION {ComposeReport(batch, records, now) : records \in Records(batch)} :
         reports' = Append(reports, report)
  /\ recorded' = Append(recorded, Unrecorded)
  /\ batch' = NoPlan
  /\ UNCHANGED <<now, version, pointer, exceptions, planned, granted>>

(* No shard wrote a file: there is nothing to score.                          *)
LoseBatch ==
  /\ batch # NoPlan
  /\ batch' = NoPlan
  /\ UNCHANGED <<now, version, reports, recorded, pointer, exceptions, planned, granted>>

(* score --write-ledger.  Records of another version than the checkout's are   *)
(* refused.  The report is written whatever was decided, and then the pointer   *)
(* where it moved; the process may die between the two.                        *)
Score(i, rebase) ==
  LET report   == reports[i]
      decision == PromotionDecision(report, pointer, exceptions,
                                    LineageStatus(reports, recorded, now), now)
      next     == NextBaseline(pointer, report, decision, rebase)
  IN /\ report.plan.version = version
     /\ recorded' = [recorded EXCEPT ![i] = decision]
     /\ pointer' \in {pointer, next}
     /\ UNCHANGED <<now, version, batch, reports, exceptions, planned, granted>>

-----------------------------------------------------------------------------
Tick ==
  /\ now < MaxNow
  /\ now' = now + 1
  /\ UNCHANGED <<version, batch, reports, recorded, pointer, exceptions, planned, granted>>

MoveVersion ==
  /\ version < MaxVersion
  /\ version' = version + 1
  /\ UNCHANGED <<now, batch, reports, recorded, pointer, exceptions, planned, granted>>

(* A maintainer accepts the shortfall a report shows.                         *)
Grant(i) ==
  LET plan == reports[i].plan
  IN /\ granted < MaxExceptions
     /\ reports[i].shortfall
     /\ granted' = granted + 1
     /\ exceptions' = exceptions \cup {[revision |-> plan.candidate, baseline |-> plan.baseline,
                                        version |-> plan.version, grantedAt |-> now]}
     /\ UNCHANGED <<now, version, batch, reports, recorded, pointer, planned>>

(* Its review trigger fired, or a maintainer withdrew it.                     *)
EndException(e) ==
  /\ exceptions' = exceptions \ {e}
  /\ UNCHANGED <<now, version, batch, reports, recorded, pointer, planned, granted>>

Next ==
  \/ \E kind \in Kinds, candidate \in Revisions, repetitions \in Budgets,
        baseline \in NamedBaselines \cup {pointer.revision, NoRevision} :
            Plan(kind, candidate, baseline, repetitions)
  \/ Complete \/ LoseBatch
  \/ \E i \in DOMAIN reports, rebase \in BOOLEAN : Score(i, rebase)
  \/ Tick \/ MoveVersion
  \/ \E i \in DOMAIN reports : Grant(i)
  \/ \E e \in exceptions : EndException(e)

Spec == Init /\ [][Next]_vars

-----------------------------------------------------------------------------
(* The baseline is a revision that was seen to qualify: the ledger holds the    *)
(* report behind the pointer, of the fixed budget, with every trial of it       *)
(* observed and the floor cleared, however the pointer was moved and whatever    *)
(* runners were lost.                                                          *)
BaselineIsEarned ==
  pointer # NoPointer =>
    \E i \in DOMAIN reports :
        /\ reports[i].plan = pointer.plan /\ reports[i].completedAt = pointer.completedAt
        /\ recorded[i] # Unrecorded
        /\ reports[i].plan.candidate = pointer.revision
        /\ reports[i].observed /\ reports[i].absolute = "PASS"

(* The baseline moves to another revision, without the chain being recorded as  *)
(* broken, only for a comparison with the very baseline it replaces, under the   *)
(* version that one last qualified under, lost by no test and by no exception:    *)
(* although the comparison was planned when another baseline may have stood.    *)
BaselineMovesByComparison ==
  [][ pointer # NoPointer /\ pointer'.revision # pointer.revision /\ ~pointer'.chainBroken
      => \E i \in DOMAIN reports :
             /\ reports[i].plan = pointer'.plan
             /\ reports[i].plan.baseline = pointer.revision
             /\ reports[i].plan.version = pointer.version
             /\ OutcomeIsPass(reports[i]) ]_vars

(* A lineage that is not current comes back only by qualifying a revision on    *)
(* its own: no comparison restores it, however late or however often scored,    *)
(* and neither does time or an exception.                                      *)
OnlyQualificationRestores ==
  [][ (/\ LineageStatus(reports, recorded, now) # "current"
       /\ LineageStatus(reports, recorded, now)' = "current")
      => \E i \in DOMAIN reports :
             /\ recorded[i] # recorded'[i]
             /\ reports[i].plan.kind # "promotion" ]_vars
=============================================================================
