------------------------------- MODULE Ingress -------------------------------
(***************************************************************************)
(* How the deliveries GitHub sends about one pull request become its Runs  *)
(* (packages/control-plane/src/github, control-plane-workflow/src/ingress):*)
(* the webhook commits a ledger row and kicks a durable workflow; the      *)
(* workflow's first step takes the per-pull-request advisory lock, fetches *)
(* canonical state while it holds it, and commits the decision and the     *)
(* ledger settlement in one transaction; its later steps dispatch the      *)
(* lifecycle of the Run it created and wake those it ended.                *)
(*                                                                         *)
(* Deliveries arrive in any order, late, twice or never.  A step attempt   *)
(* may die before or after its transaction commits, and a transaction may  *)
(* outlive the attempt that opened it; `faults` counts those, up to        *)
(* MaxFaults.  A transaction reads what it decides from and commits later: *)
(* between the two nobody sees its writes, and only the rows it updated    *)
(* are locked.  The two partial unique indexes over `run` are left out:    *)
(* OneRun is the claim that the advisory lock makes them unreachable.      *)
(***************************************************************************)
EXTENDS Integers

CONSTANTS
  Deliveries,   \* ledger row ids; also bounds how many deliveries there are
  RunIds,       \* Run row ids
  Heads,        \* head shas
  MaxRetries,   \* RE_DRIVE.maxRetries: retries of processDelivery
  StepRetries,  \* retries the platform gives the other two steps
  MaxFaults,    \* bound: lost deliveries, dead attempts and dead sessions
  None

ASSUME IngressAssumption ==
  /\ MaxRetries \in Nat
  /\ StepRetries \in Nat
  /\ MaxFaults \in Nat
  /\ Deliveries # {} /\ Heads # {}
  /\ None \notin Deliveries \cup RunIds \cup Heads

VARIABLES
  pr,       \* the pull request, as GitHub has it
  row,      \* Deliveries -> the delivery and its ledger row
  work,     \* Deliveries -> the ingress workflow run of the row
  session,  \* Deliveries -> the transaction open under the advisory lock
  runs,     \* RunIds -> the Runs of the pull request
  decided,  \* history: the last canonical state a transaction decided from
  faults

vars == <<pr, row, work, session, runs, decided, faults>>

-----------------------------------------------------------------------------
(* intentOf and locate: what the envelope alone says.  `no_grant` is an    *)
(* acting delivery that names no Installation.                             *)
Kinds == {"review", "cancel", "inert", "no_grant"}
Acting == {"review", "cancel"}

LiveRuns == {r \in RunIds : runs[r].status = "live"}
Terminal == {"done", "discarded"}
RetryClasses == {"contended", "transient", "operator_attention"}
Dispositions == {"ineligible", "duplicate_head", "unchanged", "grant_gone", "inert"}

(* How an attempt ended, and the ledger columns that outcome sets. *)
Settled(state, class, why) ==
  [state |-> state, kind |-> None, retryClass |-> class, disposition |-> why]
Done == Settled("done", None, None)
Discarded(why) == Settled("discarded", None, why)
Received(class) == Settled("received", class, None)

(* The columns of ingress_delivery that its processing reads or writes, and *)
(* the deliveries that have no row, or none yet.                           *)
LedgerRows ==
  [state : {"none", "in_flight", "lost", "received"} \cup Terminal,
   kind : Kinds \cup {None},
   retryClass : RetryClasses \cup {None},
   disposition : Dispositions \cup {None}]

(* What a transaction is about to commit: the Runs it ended and as what,   *)
(* and the outcome of its delivery.                                        *)
Decision(ids, ended, outcome) == [ids |-> ids, ended |-> ended, outcome |-> outcome]
Decisions ==
  [ids : SUBSET RunIds, ended : {"superseded", "cancelled"},
   outcome : {Done} \cup {Discarded(why) : why \in Dispositions}]

(* Canonical state: `version` counts the changes, `ready` is open and not  *)
(* a draft.                                                                *)
Canonical == [version : Nat, head : Heads, ready : BOOLEAN]

Absent == Settled("none", None, None)
Idle == [pc |-> "idle", tries |-> 0, runId |-> None, ended |-> None]
Unborn == [status |-> "none", head |-> None, by |-> None, scheduled |-> FALSE]

WorkPoints == {"idle", "attempt", "waiting", "broken", "dispatch", "notify",
               "finished", "failed"}

WorkRuns ==
  [pc : WorkPoints, tries : Nat, runId : RunIds \cup {None}, ended : RunIds \cup {None}]
Transactions ==
  [obs : Canonical \cup {None}, attached : BOOLEAN, decision : Decisions \cup {None}]
ASSUME NoTransactionAssumption == None \notin Transactions

RunRows ==
  [status : {"none", "live", "superseded", "cancelled", "concluded"},
   head : Heads \cup {None}, by : Deliveries \cup {None}, scheduled : BOOLEAN]
LastDecided == [obs : Canonical, kind : Acting]

TypeOK ==
  /\ pr \in Canonical
  /\ row \in [Deliveries -> LedgerRows]
  /\ work \in [Deliveries -> WorkRuns]
  /\ session \in [Deliveries -> Transactions \cup {None}]
  /\ runs \in [RunIds -> RunRows]
  /\ decided \in LastDecided \cup {None}
  /\ faults \in 0..MaxFaults

(* The pull request has just been opened, and its `opened` is on its way. *)
Init ==
  /\ pr = [version |-> 0, head |-> CHOOSE head \in Heads : TRUE, ready |-> TRUE]
  /\ row = [[d \in Deliveries |-> Absent] EXCEPT
              ![CHOOSE d \in Deliveries : TRUE] =
                 [Absent EXCEPT !.state = "in_flight", !.kind = "review"]]
  /\ work = [d \in Deliveries |-> Idle]
  /\ session = [d \in Deliveries |-> None]
  /\ runs = [r \in RunIds |-> Unborn]
  /\ decided = None
  /\ faults = 0

Fault == faults < MaxFaults /\ faults' = faults + 1

(* Whether a step's answer reaches its workflow.  Losing it costs a fault. *)
Answered(answered) == IF answered THEN UNCHANGED faults ELSE Fault

-----------------------------------------------------------------------------
(* GitHub: the pull request changes, and each change emits a delivery.     *)

(* Ids say nothing but which is which, so the next one is as good as any:  *)
(* rows and Runs are taken in one fixed order.                             *)
Emit(d, kind) ==
  /\ row[d].state = "none"
  /\ d = CHOOSE x \in Deliveries : row[x].state = "none"
  /\ row' = [row EXCEPT ![d].state = "in_flight", ![d].kind = kind]

Push(d) ==
  /\ \E head \in Heads \ {pr.head} :
       pr' = [pr EXCEPT !.head = head, !.version = @ + 1]
  /\ Emit(d, "review")
  /\ UNCHANGED <<work, session, runs, decided, faults>>

(* Closed or converted to a draft; reopened or marked ready. *)
ChangeReadiness(d) ==
  /\ pr' = [pr EXCEPT !.ready = ~@, !.version = @ + 1]
  /\ Emit(d, IF pr.ready THEN "cancel" ELSE "review")
  /\ UNCHANGED <<work, session, runs, decided, faults>>

(* A delivery that asks for nothing, and one with no authority behind it. *)
Aside(d) ==
  /\ \E kind \in Kinds \ Acting : Emit(d, kind)
  /\ UNCHANGED <<pr, work, session, runs, decided, faults>>

(* A manual redelivery: a second row for what an earlier delivery said. *)
Redeliver(d) ==
  /\ \E earlier \in Deliveries :
       row[earlier].state # "none" /\ Emit(d, row[earlier].kind)
  /\ UNCHANGED <<pr, work, session, runs, decided, faults>>

(* Lost on the way, or not committed: GitHub sends nothing again.          *)
Lose(d) ==
  /\ row[d].state = "in_flight"
  /\ Fault
  /\ row' = [row EXCEPT ![d].state = "lost"]
  /\ UNCHANGED <<pr, work, session, runs, decided>>

-----------------------------------------------------------------------------
(* The webhook: commit the envelope, then kick, then acknowledge.  A kick  *)
(* that fails, or a commit whose own answer is lost (GitHub is told 503),  *)
(* leaves the row behind.  A body that is too long, unsigned or malformed  *)
(* never becomes a row: it is not among the deliveries.                    *)
Deliver(d, kicked) ==
  /\ row[d].state = "in_flight"
  /\ row' = [row EXCEPT ![d].state = "received"]
  /\ work' = IF kicked THEN [work EXCEPT ![d].pc = "attempt"] ELSE work
  /\ Answered(kicked)
  /\ UNCHANGED <<pr, session, runs, decided>>

-----------------------------------------------------------------------------
(* The steps of ingressDelivery, as the platform runs them. *)

Retried(w, limit) ==
  IF w.tries < limit THEN [w EXCEPT !.tries = @ + 1]
  ELSE [w EXCEPT !.pc = "failed"]

(* processDelivery is run again from the start, or its workflow fails. *)
AttemptAgain(w) == Retried([w EXCEPT !.pc = "attempt"], MaxRetries)

(* The step that follows one that answered. *)
Advance(w, runId, ended) ==
  [pc |-> IF runId # None THEN "dispatch" ELSE IF ended # None THEN "notify"
          ELSE "finished",
   tries |-> 0, runId |-> runId, ended |-> ended]

(* What a nonterminal outcome makes of the step: RetryableError or         *)
(* FatalError.                                                             *)
MutantNeverFatal(w, class) ==
  IF class = "operator_attention" THEN Advance(w, None, None) ELSE AttemptAgain(w)

Redrive(w, class) ==
  IF class = "operator_attention" THEN [w EXCEPT !.pc = "failed"]
  ELSE AttemptAgain(w)

(* What the attempt's answer does to its workflow run. *)
MutantContendedIsFinal(w, outcome, runId, ended) == Advance(w, runId, ended)

Concluded(w, outcome, runId, ended) ==
  IF outcome.state = "received" THEN Redrive(w, outcome.retryClass)
  ELSE Advance(w, runId, ended)

(* settleDelivery: only a `received` row is settled. *)
MutantSettleAnyway(x, outcome) == [outcome EXCEPT !.kind = x.kind]

SettleDelivery(x, outcome) ==
  IF x.state = "received" THEN [outcome EXCEPT !.kind = x.kind] ELSE x

-----------------------------------------------------------------------------
(* processDelivery without the lock: the envelope alone concludes it. *)

ConcludeFromEnvelope(d, answered) ==
  LET outcome == Discarded(IF row[d].kind = "inert" THEN "inert" ELSE "grant_gone")
  IN /\ work[d].pc = "attempt"
     /\ row[d].kind \notin Acting
     /\ row' = [row EXCEPT ![d] = SettleDelivery(@, outcome)]
     /\ work' = [work EXCEPT ![d] = IF answered THEN Concluded(@, outcome, None, None)
                                   ELSE AttemptAgain(@)]
     /\ Answered(answered)
     /\ UNCHANGED <<pr, session, runs, decided>>

(* pg_try_advisory_xact_lock: held until the transaction that took it ends. *)
MutantLockIsFree(s) == TRUE

LockIsFree(s) == \A d \in Deliveries : s[d] = None

Contend(d, answered) ==
  /\ work[d].pc = "attempt"
  /\ row[d].kind \in Acting
  /\ ~LockIsFree(session)
  /\ row' = [row EXCEPT ![d] = SettleDelivery(@, Received("contended"))]
  /\ work' = [work EXCEPT ![d] =
                IF answered THEN Concluded(@, Received("contended"), None, None)
                ELSE AttemptAgain(@)]
  /\ Answered(answered)
  /\ UNCHANGED <<pr, session, runs, decided>>

(* stillReceived, read under the lock. *)
MutantAlwaysReceived(x) == TRUE

StillReceived(x) == x.state = "received"

(* Already concluded: nothing to fetch, to write or to hand on. *)
AlreadyConcluded(d, answered) ==
  /\ work[d].pc = "attempt"
  /\ row[d].kind \in Acting
  /\ LockIsFree(session)
  /\ ~StillReceived(row[d])
  /\ work' = [work EXCEPT ![d] = IF answered THEN Advance(@, None, None)
                                ELSE AttemptAgain(@)]
  /\ Answered(answered)
  /\ UNCHANGED <<pr, row, session, runs, decided>>

Acquire(d) ==
  /\ work[d].pc = "attempt"
  /\ row[d].kind \in Acting
  /\ LockIsFree(session)
  /\ StillReceived(row[d])
  /\ session' = [session EXCEPT ![d] = [obs |-> None, attached |-> TRUE, decision |-> None]]
  /\ work' = [work EXCEPT ![d].pc = "waiting"]
  /\ UNCHANGED <<pr, row, runs, decided, faults>>

-----------------------------------------------------------------------------
(* The transaction of delivery d, which holds the lock.                    *)

(* How its end reaches the attempt that waits on it: the attempt concludes,*)
(* or dies with the answer, or sees the commit fail although it landed.    *)
Endings == {"answered", "attempt_died", "commit_unknown"}

Reach(d, outcome, runId, ended, ending) ==
  /\ Answered(ending = "answered" \/ ~session[d].attached)
  /\ work' =
       IF ~session[d].attached THEN work
       ELSE [work EXCEPT ![d] =
               CASE ending = "answered" -> Concluded(@, outcome, runId, ended)
                 [] ending = "attempt_died" -> AttemptAgain(@)
                 [] ending = "commit_unknown" -> [@ EXCEPT !.pc = "broken"]]

(* canonicalPullRequest, with the lock held. *)
Fetching(d) == session[d] # None /\ session[d].obs = None

Fetch(d) ==
  /\ Fetching(d)
  /\ session' = [session EXCEPT ![d].obs = pr]
  /\ UNCHANGED <<pr, row, work, runs, decided, faults>>

(* classify: what an answer that is not a 2xx concludes, of the token       *)
(* exchange and of the fetch alike.                                        *)
Refusals == [status : {401, 403, 404, 429, 500}, rateLimited : BOOLEAN]

Classify(answer) ==
  CASE answer.status = 404 -> Discarded("grant_gone")
    [] answer.status = 429 \/ answer.status >= 500 -> Received("transient")
    [] answer.status = 403 /\ answer.rateLimited -> Received("transient")
    [] OTHER -> Received("operator_attention")

(* A credential that cannot sign, a locator that is not owner/name or an   *)
(* answer of another shape; a request that did not complete.               *)
Unreadable == Received("operator_attention")
Incomplete == Received("transient")

FetchOutcomes == {Classify(answer) : answer \in Refusals} \cup {Unreadable, Incomplete}

(* Every answer that is not canonical state is settled as it is. *)
FetchFails(d, ending) ==
  /\ Fetching(d)
  /\ \E outcome \in FetchOutcomes :
       /\ row' = [row EXCEPT ![d] = SettleDelivery(@, outcome)]
       /\ Reach(d, outcome, None, None, ending)
  /\ session' = [session EXCEPT ![d] = None]
  /\ UNCHANGED <<pr, runs, decided>>

(* endLiveRun.  A live Run at the canonical head is not superseded. *)
MutantSupersedesNothing(obs) == {}

SupersededBy(obs) == {r \in LiveRuns : runs[r].head # obs.head}

End(ids, status) ==
  [r \in RunIds |-> IF r \in ids THEN [runs[r] EXCEPT !.status = status] ELSE runs[r]]

OneOf(ids) == IF ids = {} THEN None ELSE CHOOSE r \in ids : TRUE

(* runAtHead: any Run at all, whatever its status. *)
RunAtHead(head) == \E r \in RunIds : runs[r].status # "none" /\ runs[r].head = head

(* The rows an open transaction has updated: Postgres makes every other    *)
(* writer wait for its end.                                                *)
Decided(d) == session[d] # None /\ session[d].decision # None
Updated == UNION {session[d].decision.ids : d \in {x \in Deliveries : Decided(x)}}

(* settlePullRequest from the canonical state onward, and the settlement   *)
(* of its delivery: written, not yet committed.                            *)
Observed(d) == session[d] # None /\ session[d].obs # None /\ session[d].decision = None

Write(d, decision) ==
  /\ decision.ids \cap Updated = {}
  /\ session' = [session EXCEPT ![d].decision = decision]
  /\ UNCHANGED <<pr, row, work, runs, decided, faults>>

DecideIneligible(d) ==
  /\ Observed(d)
  /\ ~session[d].obs.ready
  /\ Write(d, Decision(LiveRuns, "cancelled", Discarded("ineligible")))

DecideUnchanged(d) ==
  /\ Observed(d)
  /\ session[d].obs.ready
  /\ row[d].kind = "cancel"
  /\ Write(d, Decision({}, "cancelled", Discarded("unchanged")))

DecideEligible(d) ==
  /\ Observed(d)
  /\ session[d].obs.ready
  /\ row[d].kind = "review"
  /\ Write(d, Decision(SupersededBy(session[d].obs), "superseded",
                       IF RunAtHead(session[d].obs.head)
                       THEN Discarded("duplicate_head") ELSE Done))

(* insertRun. *)
Insert(d) ==
  IF session[d].decision.outcome = Done
  THEN CHOOSE r \in RunIds : runs[r].status = "none" ELSE None

NewRun(d) ==
  [status |-> "live", head |-> session[d].obs.head, by |-> d, scheduled |-> FALSE]

(* The transaction commits: the Runs it ended, the Run it inserted and the *)
(* conclusion about its delivery become visible together.                  *)
Commit(d, ending) ==
  LET decision == session[d].decision
      runId == Insert(d)
  IN /\ Decided(d)
     /\ decision.outcome = Done => \E r \in RunIds : runs[r].status = "none"
     /\ row' = [row EXCEPT ![d] = SettleDelivery(@, decision.outcome)]
     /\ runs' = [r \in RunIds |-> IF r = runId THEN NewRun(d)
                                  ELSE End(decision.ids, decision.ended)[r]]
     /\ decided' = [obs |-> session[d].obs, kind |-> row[d].kind]
     /\ Reach(d, decision.outcome, runId, OneOf(decision.ids), ending)
     /\ session' = [session EXCEPT ![d] = None]
     /\ UNCHANGED pr

(* The transaction dies and rolls back: the connection went away, or the   *)
(* idle timeout killed it while the fetch was out.  One whose attempt is   *)
(* gone always ends, at no cost.                                           *)
SessionDies(d) ==
  /\ session[d] # None
  /\ Answered(~session[d].attached)
  /\ session' = [session EXCEPT ![d] = None]
  /\ work' = IF session[d].attached THEN [work EXCEPT ![d].pc = "broken"] ELSE work
  /\ UNCHANGED <<pr, row, runs, decided>>

(* outcomeForFailure: the SQLSTATEs that describe the attempt rather than   *)
(* the delivery are transient, and an error that carries none is not.      *)
TransientSqlStates == {"23505", "25P03", "08", "40", "53", "57"}
SqlStates == TransientSqlStates \cup {"other", "none"}

OutcomeForFailure(state) ==
  Received(IF state \in TransientSqlStates THEN "transient" ELSE "operator_attention")

FailureOutcomes == {OutcomeForFailure(state) : state \in SqlStates}

(* The catch: the failure is recorded in a transaction of its own, under a *)
(* class read off the error, then re-driven.                               *)
SettleBroken(d, answered) ==
  /\ work[d].pc = "broken"
  /\ \E outcome \in FailureOutcomes :
       /\ row' = [row EXCEPT ![d] = SettleDelivery(@, outcome)]
       /\ work' = [work EXCEPT ![d] = IF answered THEN Concluded(@, outcome, None, None)
                                     ELSE AttemptAgain(@)]
  /\ Answered(answered)
  /\ UNCHANGED <<pr, session, runs, decided>>

(* An attempt dies; the transaction it opened may still run to its end.    *)
AttemptDies(d) ==
  /\ work[d].pc \in {"attempt", "waiting", "broken"}
  /\ Fault
  /\ work' = [work EXCEPT ![d] = AttemptAgain(@)]
  /\ session' = IF work[d].pc = "waiting" THEN [session EXCEPT ![d].attached = FALSE]
                ELSE session
  /\ UNCHANGED <<pr, row, runs, decided>>

-----------------------------------------------------------------------------
(* dispatchLifecycle and notifyEnded, whose own races are RunLifecycle's.  *)
(* An attempt without an answer may have started a lifecycle or not.       *)

Dispatch(d, answered) ==
  /\ work[d].pc = "dispatch"
  /\ \E started \in BOOLEAN :
       /\ answered => started
       /\ runs' = [runs EXCEPT ![work[d].runId].scheduled = @ \/ started]
  /\ work' = [work EXCEPT ![d] = IF answered THEN Advance(@, None, @.ended)
                                ELSE Retried(@, StepRetries)]
  /\ Answered(answered)
  /\ UNCHANGED <<pr, row, session, decided>>

NotifyEnded(d, answered) ==
  /\ work[d].pc = "notify"
  /\ work' = [work EXCEPT ![d] = IF answered THEN Advance(@, None, None)
                                ELSE Retried(@, StepRetries)]
  /\ Answered(answered)
  /\ UNCHANGED <<pr, row, session, runs, decided>>

(* Any writer outside ingress ends a live Run: Acceptance, a deadline, a   *)
(* lost execution.                                                         *)
RunEnds(r) ==
  /\ r \in LiveRuns \ Updated
  /\ runs' = [runs EXCEPT ![r].status = "concluded"]
  /\ UNCHANGED <<pr, row, work, session, decided, faults>>

-----------------------------------------------------------------------------
WorkStep(d) ==
  \/ Acquire(d)
  \/ \E answered \in BOOLEAN :
       \/ ConcludeFromEnvelope(d, answered)
       \/ Contend(d, answered)
       \/ AlreadyConcluded(d, answered)
       \/ SettleBroken(d, answered)
       \/ Dispatch(d, answered)
       \/ NotifyEnded(d, answered)

SessionStep(d) ==
  \/ Fetch(d)
  \/ DecideIneligible(d) \/ DecideUnchanged(d) \/ DecideEligible(d)
  \/ SessionDies(d)
  \/ \E ending \in Endings : FetchFails(d, ending) \/ Commit(d, ending)

Next ==
  \/ \E d \in Deliveries :
       \/ Push(d) \/ ChangeReadiness(d) \/ Aside(d) \/ Redeliver(d) \/ Lose(d)
       \/ \E kicked \in BOOLEAN : Deliver(d, kicked)
       \/ WorkStep(d) \/ SessionStep(d) \/ AttemptDies(d)
  \/ \E r \in RunIds : RunEnds(r)

Spec == Init /\ [][Next]_vars

(* The platform runs the steps it owes, Postgres ends every transaction    *)
(* one way or the other, and a delivery that is not lost arrives.          *)
Fairness ==
  \A d \in Deliveries :
    /\ WF_vars(WorkStep(d)) /\ WF_vars(SessionStep(d))
    /\ WF_vars(\E kicked \in BOOLEAN : Deliver(d, kicked))

FairSpec == Spec /\ Fairness

-----------------------------------------------------------------------------
(* Safety. *)

(* What the two partial unique indexes over `run` back up: at most one     *)
(* live Run for the pull request, and at most one Run, in any status, for  *)
(* each head.  No decision ever gets far enough to meet them.              *)
OneRun ==
  \A r, s \in RunIds :
    (r # s /\ runs[r].status # "none" /\ runs[s].status # "none") =>
      /\ runs[r].head # runs[s].head
      /\ ~(runs[r].status = "live" /\ runs[s].status = "live")

(* The last committed decision stands: the live Run, if there is one, is   *)
(* the one it allows, and an eligible review has a Run at the head it saw. *)
LastDecisionStands ==
  decided # None =>
    /\ LiveRuns # {} => decided.obs.ready
    /\ decided.obs.ready /\ decided.kind = "review" =>
         /\ RunAtHead(decided.obs.head)
         /\ \A r \in LiveRuns : runs[r].head = decided.obs.head

(* A ledger row is `done` exactly where one Run exists on its account: the *)
(* Run and the conclusion about its delivery are a single fact, however    *)
(* often the delivery was driven (processing.ts).                          *)
DoneIsItsRun ==
  \A d \in Deliveries :
    LET mine == {r \in RunIds : runs[r].by = d}
    IN /\ row[d].state = "done" <=> mine # {}
       /\ \A r, s \in mine : r = s

(* A workflow run that finishes leaves no row behind it that still asks    *)
(* for a re-drive: nothing but a failed run, or none, may strand one.      *)
FinishedIsConcluded ==
  \A d \in Deliveries : work[d].pc = "finished" => row[d].state \in Terminal

(* `done` and `discarded` are terminal, whichever attempt settles last     *)
(* (settleDelivery).                                                       *)
ConcludedRowsStay ==
  [][\A d \in Deliveries : row[d].state \in Terminal => row'[d] = row[d]]_vars

(* A decision never commits from canonical state older than the one the    *)
(* decision before it saw: the fetch happens inside the lock, so a slow    *)
(* answer cannot overwrite a newer one (settlePullRequest).                *)
DecisionsFollowGitHub ==
  [][decided # None => decided'.obs.version >= decided.obs.version]_vars

-----------------------------------------------------------------------------
(* Liveness. *)

(* The Runs agree with the pull request as it is now. *)
Agrees ==
  /\ pr.ready => RunAtHead(pr.head)
  /\ \A r \in LiveRuns : pr.ready /\ runs[r].head = pr.head

(* Somebody outside must act, and GitHub's delivery log, the workflow run  *)
(* or the ledger row says so: a delivery was lost or never kicked, its     *)
(* workflow failed, or the grant is gone.                                  *)
NeedsAttention ==
  \E d \in Deliveries :
    \/ row[d].state = "lost"
    \/ row[d].state = "received" /\ work[d].pc \in {"idle", "failed"}
    \/ row[d].disposition = "grant_gone"

(* Once GitHub stops changing the pull request, whatever the order of its  *)
(* deliveries and whoever contended, the Runs come to agree with it for    *)
(* good, unless the ledger says why not.                                   *)
Converges == <>[](Agrees \/ NeedsAttention)

-----------------------------------------------------------------------------
(* What the source says of the program, and the program does not do. *)

(* control-plane-workflow/README.md: one durable run per Run.  A Run that  *)
(* ingress created is handed to a lifecycle, or its workflow run failed.   *)
EveryRunIsScheduled ==
  \A r \in RunIds :
    (runs[r].status = "live") ~>
      (runs[r].scheduled \/ runs[r].status # "live"
         \/ \E d \in Deliveries : work[d].pc = "failed")
=============================================================================
