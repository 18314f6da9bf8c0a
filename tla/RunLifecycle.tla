---------------------------- MODULE RunLifecycle ----------------------------
(***************************************************************************)
(* One Run and everything that races over its row: the ingress step that   *)
(* starts and records its durable lifecycle, the lifecycles themselves,    *)
(* hosted dispatch and its pass, self-hosted Workers, the ingress decision *)
(* that ends a live Run and the notification that follows it, and time.    *)
(*                                                                         *)
(* Steps of a durable workflow run at least once: an attempt may take its  *)
(* effect and die before its answer is recorded, and the platform then     *)
(* runs it again.  `faults` counts such losses, bounded by MaxFaults; a    *)
(* step that fails StepAttempts times fails its workflow run.  Code that   *)
(* is not a workflow (hosted dispatch, a Worker) dies by never moving      *)
(* again: it gets no fairness.                                             *)
(***************************************************************************)
EXTENDS RunRow

CONSTANTS
  RecordGraceWakes,  \* RECORD_GRACE_WAKES
  StepAttempts,      \* attempts the platform gives a step before failing its run
  MaxFaults,         \* bound: lost or failed step attempts in a behaviour
  MaxClock           \* bound: the last tick of the clock

ASSUME BoundsAssumption ==
  /\ RecordGraceWakes \in Nat
  /\ StepAttempts \in Nat \ {0}
  /\ MaxFaults \in Nat
  /\ MaxClock \in Nat

VARIABLES
  run,       \* the row
  now,       \* the clock every process reads
  dispatcher,\* the ingress workflow's dispatchLifecycle step
  life,      \* Lifecycles -> the durable lifecycle runs
  claimant,  \* Executions -> the claim attempts and what became of them
  pass,      \* HostedExecutions -> the durable pass each dispatch started
  notice,    \* the ingress workflow's notifyEnded step
  faults     \* step attempts lost or failed so far

vars == <<run, now, dispatcher, life, claimant, pass, notice, faults>>

-----------------------------------------------------------------------------
(* Process states. *)

LifecycleSteps ==
  {"read", "reread", "record_self", "close_unclaimed", "read_pass",
   "close_execution", "cancel_pass"}
LifecyclePoints == LifecycleSteps \cup
  {"none", "boot", "sleep", "grace", "lost_race", "ended", "failed", "cancelled"}
Gone == {"ended", "failed", "cancelled"}

OutcomeKinds == {"unscheduled", "worker_lost", "ended", "claimed", "orphaned"}

(* What runLifecycle returned.  The last three fields are worker_lost's. *)
Outcomes == [kind : OutcomeKinds,
             lostFrom : ResultEligibleStatuses \cup {None},
             observation : WatchdogObservations \cup {None},
             cancelledPass : HostedExecutions \cup {None}]

Returned(kind) == [kind |-> kind, lostFrom |-> None, observation |-> None,
                   cancelledPass |-> None]

(* A lifecycle: where its body is, the hook it created, the deadline it    *)
(* sleeps toward, the pass id and observation it carries from its last     *)
(* read, the grace it has spent, the attempts of its current step, and     *)
(* what it returned.                                                       *)
Body == [pc : LifecyclePoints,
         hook : {"none", "open", "resolved", "spent"},
         until : Nat \cup {None},
         snapPass : HostedExecutions \cup {None},
         seen : WatchdogObservations \cup {None},
         wakes : 0..RecordGraceWakes,
         tries : 0..StepAttempts,
         outcome : Outcomes \cup {None}]

NotStarted == [pc |-> "none", hook |-> "none", until |-> None, snapPass |-> None,
               seen |-> None, wakes |-> 0, tries |-> 0, outcome |-> None]

DispatcherPoints == {"start", "record", "arbitrate", "cancel", "done", "failed"}
ClaimantPoints == {"idle", "claiming", "granted", "started", "dispatched",
                   "unrecorded", "not_claimed"}
PassStatuses == {"none", "running", "completed", "failed", "cancelled"}
PassOutcomes == {"accepted", "rejected", "no_result", "lost"}

ASSUME NoOutcomeAssumption == None \notin PassOutcomes

TypeOK ==
  /\ run \in RunRows
  /\ now \in 0..MaxClock
  /\ dispatcher \in [pc : DispatcherPoints, mine : Lifecycles \cup {None},
                     tries : 0..StepAttempts]
  /\ life \in [Lifecycles -> Body]
  /\ claimant \in [Executions -> [pc : ClaimantPoints, at : Nat \cup {None}]]
  /\ pass \in [HostedExecutions ->
                 [status : PassStatuses, inFlight : BOOLEAN,
                  outcome : PassOutcomes \cup {None}, tries : 0..StepAttempts]]
  /\ notice \in {"none", "pending"}
  /\ faults \in 0..MaxFaults

Init ==
  /\ run \in {InsertRun(p, 0) : p \in Placements}
  /\ now = 0
  /\ dispatcher = [pc |-> "start", mine |-> None, tries |-> 0]
  /\ life = [l \in Lifecycles |-> NotStarted]
  /\ claimant = [e \in Executions |-> [pc |-> "idle", at |-> None]]
  /\ pass = [e \in HostedExecutions |->
               [status |-> "none", inFlight |-> FALSE, outcome |-> None, tries |-> 0]]
  /\ notice = "none"
  /\ faults = 0

Tick ==
  /\ now < MaxClock
  /\ now' = now + 1
  /\ UNCHANGED <<run, dispatcher, life, claimant, pass, notice, faults>>

(* Whether a step's answer reaches its workflow.  Losing it costs a fault. *)
Answered(answered) ==
  /\ answered \/ faults < MaxFaults
  /\ faults' = IF answered THEN faults ELSE faults + 1

-----------------------------------------------------------------------------
(* dispatchLifecycle: start, then record, then arbitrate on a lost record. *)

DispatchStart ==
  /\ dispatcher.pc = "start"
  /\ \E l \in Lifecycles :
       /\ life[l].pc = "none"
       /\ life' = [life EXCEPT ![l].pc = "boot"]
       /\ dispatcher' = [dispatcher EXCEPT !.pc = "record", !.mine = l]
  /\ UNCHANGED <<run, now, claimant, pass, notice, faults>>

DispatchRecord ==
  LET won == RecordLifecycleMatches(run)
  IN /\ dispatcher.pc = "record"
     /\ run' = IF won THEN RecordLifecycle(run, dispatcher.mine) ELSE run
     /\ dispatcher' = [dispatcher EXCEPT !.pc = IF won THEN "done" ELSE "arbitrate"]
     /\ UNCHANGED <<now, life, claimant, pass, notice, faults>>

(* concludeDispatch: what the dispatch does about the run it started. *)
MutantCancelOnLostRecord(mine, recorded) == "cancel"

ConcludeDispatch(mine, recorded) == IF recorded = mine THEN "done" ELSE "cancel"

DispatchArbitrate ==
  /\ dispatcher.pc = "arbitrate"
  /\ dispatcher' = [dispatcher EXCEPT
                      !.pc = ConcludeDispatch(dispatcher.mine, run.workflowRunId)]
  /\ UNCHANGED <<run, now, life, claimant, pass, notice, faults>>

DispatchCancel ==
  /\ dispatcher.pc = "cancel"
  /\ life' = [life EXCEPT
       ![dispatcher.mine] = IF @.pc \in Gone THEN @
                            ELSE [NotStarted EXCEPT !.pc = "cancelled"]]
  /\ dispatcher' = [dispatcher EXCEPT !.pc = "done"]
  /\ UNCHANGED <<run, now, claimant, pass, notice, faults>>

(* An attempt of the step dies anywhere, and the next starts over.  What   *)
(* it started and wrote stays.  `done` here is an answer that was lost.    *)
DispatchAttemptLost ==
  /\ dispatcher.pc # "failed"
  /\ faults < MaxFaults
  /\ faults' = faults + 1
  /\ dispatcher' =
       [pc |-> IF dispatcher.tries + 1 = StepAttempts THEN "failed" ELSE "start",
        mine |-> None, tries |-> dispatcher.tries + 1]
  /\ UNCHANGED <<run, now, life, claimant, pass, notice>>

-----------------------------------------------------------------------------
(* runLifecycle. *)

(* The workflow body reaches createHook before its first read. *)
LifecycleBoot(l) ==
  /\ life[l].pc = "boot"
  /\ life' = [life EXCEPT ![l].pc = "read", ![l].hook = "open"]
  /\ UNCHANGED <<run, now, dispatcher, claimant, pass, notice, faults>>

(* The body returns, and disposes of its hook. *)
Return(outcome) == [NotStarted EXCEPT !.pc = "ended", !.outcome = outcome]

(* The body moves on, its step answered. *)
Proceed(b, pc) == [b EXCEPT !.pc = pc, !.tries = 0]

(* readRun: the deadline that bounds the Run now, and whether it passed. *)
ActiveWindow(r) ==
  IF r.status = "queued" THEN r.claimableUntil ELSE r.executionExpiresAt

MutantPassedEarly(r, at) == ActiveWindow(r) <= at + 1

WindowPassed(r, at) == ActiveWindow(r) <= at

(* Past the deadline with no lifecycle recorded: wait out the grace, then  *)
(* record oneself.                                                         *)
MutantOrphanOnAbsence(b) == Return(Returned("orphaned"))

Unrecorded(b) ==
  IF b.wakes < RecordGraceWakes
  THEN [Proceed(b, "grace") EXCEPT !.wakes = b.wakes + 1]
  ELSE Proceed(b, "record_self")

(* Past the deadline with this lifecycle recorded: close the window that   *)
(* is open, with what the recorded pass says if there is one.              *)
CloseWindow(b, r) ==
  CASE r.status = "queued" -> Proceed(b, "close_unclaimed")
    [] r.status # "queued" /\ r.hostedWorkflowRunId = None ->
         [Proceed(b, "close_execution") EXCEPT !.seen = "deadline_elapsed"]
    [] OTHER ->
         [Proceed(b, "read_pass") EXCEPT !.snapPass = r.hostedWorkflowRunId]

(* One wake: what the body does with the row it has just read. *)
Wake(l, b, r, at) ==
  CASE r.workflowRunId \notin {None, l} -> Return(Returned("orphaned"))
    [] r.workflowRunId \in {None, l} /\ r.status \notin LiveStatuses ->
         Return(Returned("ended"))
    [] r.workflowRunId \in {None, l} /\ r.status \in LiveStatuses ->
         IF ActiveWindow(r) = None THEN Return(Returned("claimed"))
         ELSE IF ~WindowPassed(r, at)
              THEN [Proceed(b, "sleep") EXCEPT !.until = ActiveWindow(r)]
              ELSE IF r.workflowRunId = None THEN Unrecorded(b)
                   ELSE CloseWindow(b, r)

ReadRun(l) ==
  /\ life[l].pc \in {"read", "reread"}
  /\ life' = [life EXCEPT ![l] =
                Wake(l, [@ EXCEPT !.snapPass = None, !.seen = None], run, now)]
  /\ UNCHANGED <<run, now, dispatcher, claimant, pass, notice, faults>>

(* The race between the deadline and the hook; a hook resolves once. *)
WakeAtDeadline(l) ==
  /\ life[l].pc = "sleep"
  /\ life[l].until <= now
  /\ life' = [life EXCEPT ![l].pc = "read", ![l].until = None]
  /\ UNCHANGED <<run, now, dispatcher, claimant, pass, notice, faults>>

WakeNotified(l) ==
  /\ life[l].pc = "sleep"
  /\ life[l].hook = "resolved"
  /\ life' = [life EXCEPT ![l].pc = "read", ![l].until = None, ![l].hook = "spent"]
  /\ UNCHANGED <<run, now, dispatcher, claimant, pass, notice, faults>>

(* sleep(RECORD_GRACE_MS), and sleep(LOST_RACE_MS) after a write that      *)
(* matched nothing: both shorter than a tick.                              *)
WakeFromGrace(l) ==
  /\ life[l].pc = "grace"
  /\ life' = [life EXCEPT ![l].pc = "read"]
  /\ UNCHANGED <<run, now, dispatcher, claimant, pass, notice, faults>>

WakeFromLostRace(l) ==
  /\ life[l].pc = "lost_race"
  /\ life' = [life EXCEPT ![l].pc = "reread"]
  /\ UNCHANGED <<run, now, dispatcher, claimant, pass, notice, faults>>

(* A step attempt whose answer is lost: run again, or the run fails. *)
Retried(b) ==
  IF b.tries + 1 = StepAttempts THEN [NotStarted EXCEPT !.pc = "failed"]
  ELSE [b EXCEPT !.tries = b.tries + 1]

RecordSelf(l, answered) ==
  LET won == RecordLifecycleMatches(run)
  IN /\ life[l].pc = "record_self"
     /\ Answered(answered)
     /\ run' = IF won THEN RecordLifecycle(run, l) ELSE run
     /\ life' = [life EXCEPT ![l] =
                   IF ~answered THEN Retried(@)
                   ELSE Proceed(@, IF won THEN "read" ELSE "lost_race")]
     /\ UNCHANGED <<now, dispatcher, claimant, pass, notice>>

CloseUnclaimedWindow(l, answered) ==
  LET won == ExpireUnclaimedMatches(run, l)
  IN /\ life[l].pc = "close_unclaimed"
     /\ Answered(answered)
     /\ run' = IF won THEN ExpireUnclaimed(run) ELSE run
     /\ life' = [life EXCEPT ![l] =
                   IF ~answered THEN Retried(@)
                   ELSE IF won THEN Return(Returned("unscheduled"))
                   ELSE Proceed(@, "lost_race")]
     /\ UNCHANGED <<now, dispatcher, claimant, pass, notice>>

(* observationFor, over the status the World reports; None is "unreadable". *)
ObservationFor(status) ==
  CASE status = "running" -> "deadline_elapsed"
    [] status = "completed" -> "workflow_terminal_without_result"
    [] status = "failed" -> "workflow_failed"
    [] status = "cancelled" -> "workflow_cancelled"
    [] OTHER -> "workflow_state_unavailable"

ReadPassDisposition(l) ==
  /\ life[l].pc = "read_pass"
  /\ \E status \in {pass[life[l].snapPass].status, None} :
       life' = [life EXCEPT ![l] =
                  [Proceed(@, "close_execution") EXCEPT !.seen = ObservationFor(status)]]
  /\ UNCHANGED <<run, now, dispatcher, claimant, pass, notice, faults>>

LostOutcome(b, lostFrom) ==
  [kind |-> "worker_lost", lostFrom |-> lostFrom, observation |-> b.seen,
   cancelledPass |-> b.snapPass]

(* What the body does with the transition's answer: a transition that won  *)
(* is followed by the cancel of the pass the lifecycle read, if any.       *)
MutantCancelRegardless(b, won, lostFrom) ==
  IF b.snapPass # None
  THEN [Proceed(b, "cancel_pass") EXCEPT !.outcome = LostOutcome(b, lostFrom)]
  ELSE IF won THEN Return(LostOutcome(b, lostFrom)) ELSE Proceed(b, "lost_race")

AfterClosing(b, won, lostFrom) ==
  IF ~won THEN Proceed(b, "lost_race")
  ELSE IF b.snapPass = None THEN Return(LostOutcome(b, lostFrom))
  ELSE [Proceed(b, "cancel_pass") EXCEPT !.outcome = LostOutcome(b, lostFrom)]

(* closeExecutionWindow, on the watchdog's evidence. *)
WatchdogMatches(r, l, at) ==
  ResultEligibleWindow(r) /\ DeadlineEvidence(r, l, at)

CloseExecutionWindow(l, answered) ==
  LET won == WatchdogMatches(run, l, now)
      b == life[l]
  IN /\ b.pc = "close_execution"
     /\ Answered(answered)
     /\ run' = IF won THEN TerminateLost(run, "hosted_watchdog", b.seen) ELSE run
     /\ life' = [life EXCEPT ![l] =
                   IF answered THEN AfterClosing(b, won, run.status) ELSE Retried(b)]
     /\ UNCHANGED <<now, dispatcher, claimant, pass, notice>>

(* cancelPass: best effort.  A failure is swallowed, so the step answers.  *)
CancelPass(l, reached) ==
  LET p == life[l].snapPass
  IN /\ life[l].pc = "cancel_pass"
     /\ pass' = IF reached /\ pass[p].status = "running"
                THEN [pass EXCEPT ![p].status = "cancelled"] ELSE pass
     /\ life' = [life EXCEPT ![l] = Return(@.outcome)]
     /\ UNCHANGED <<run, now, dispatcher, claimant, notice, faults>>

(* A step attempt that took no effect: the control plane or the platform   *)
(* was unreachable.                                                        *)
LifecycleStepFails(l) ==
  /\ life[l].pc \in LifecycleSteps
  /\ faults < MaxFaults
  /\ faults' = faults + 1
  /\ life' = [life EXCEPT ![l] = Retried(@)]
  /\ UNCHANGED <<run, now, dispatcher, claimant, pass, notice>>

-----------------------------------------------------------------------------
(* Claims, by hosted dispatch or by a Worker.  The clock is read before    *)
(* the statement runs.                                                     *)

ClaimBegin(e) ==
  /\ claimant[e].pc = "idle"
  /\ claimant' = [claimant EXCEPT ![e] = [pc |-> "claiming", at |-> now]]
  /\ UNCHANGED <<run, now, dispatcher, life, pass, notice, faults>>

ClaimRun(e) ==
  /\ claimant[e].pc = "claiming"
  /\ \E installed \in BOOLEAN :
       LET won == ClaimMatches(run, e, claimant[e].at, installed)
       IN /\ run' = IF won THEN Claim(run, e, claimant[e].at) ELSE run
          /\ claimant' = [claimant EXCEPT ![e] =
                            [pc |-> IF won THEN "granted" ELSE "not_claimed",
                             at |-> None]]
  /\ UNCHANGED <<now, dispatcher, life, pass, notice, faults>>

(* dispatchHostedRun past its claim: start the pass, then record it. *)
StartPass(e) ==
  /\ claimant[e].pc = "granted"
  /\ pass' = [pass EXCEPT ![e].status = "running", ![e].inFlight = TRUE]
  /\ claimant' = [claimant EXCEPT ![e].pc = "started"]
  /\ UNCHANGED <<run, now, dispatcher, life, notice, faults>>

DispatchMarkExecuting(e) ==
  LET won == MarkExecutingMatches(run, e)
  IN /\ claimant[e].pc = "started"
     /\ run' = IF won THEN MarkExecuting(run, e) ELSE run
     /\ claimant' = [claimant EXCEPT ![e].pc =
                       IF won THEN "dispatched" ELSE "unrecorded"]
     /\ UNCHANGED <<now, dispatcher, life, pass, notice, faults>>

-----------------------------------------------------------------------------
(* The pass: one step, executeHostedPass.  Each attempt of it runs Worker  *)
(* core again and reaches the control plane at most once.  Cancelling the  *)
(* pass does not stop an attempt in flight.                                *)

(* The attempt's answer arrives, or is lost and the step is run again.     *)
PassAfter(p, outcome, answered) ==
  IF answered
  THEN [p EXCEPT !.inFlight = FALSE, !.outcome = outcome,
                 !.status = IF p.status = "running" THEN "completed" ELSE p.status]
  ELSE IF p.tries + 1 = StepAttempts \/ p.status = "cancelled"
  THEN [p EXCEPT !.inFlight = FALSE, !.tries = p.tries + 1,
                 !.status = IF p.status = "running" THEN "failed" ELSE p.status]
  ELSE [p EXCEPT !.tries = p.tries + 1]

PassStepEnds(e, outcome, answered) ==
  /\ Answered(answered)
  /\ pass' = [pass EXCEPT ![e] = PassAfter(@, outcome, answered)]

(* A Result was produced and submitted: accepted, or rejected. *)
PassSubmits(e, permitted, answered) ==
  LET won == AcceptMatches(run, e, permitted)
  IN /\ pass[e].inFlight
     /\ \E runStatus \in AcceptedStatuses :
          run' = IF won THEN Accept(run, runStatus) ELSE run
     /\ PassStepEnds(e, IF won THEN "accepted" ELSE "rejected", answered)
     /\ UNCHANGED <<now, dispatcher, life, claimant, notice>>

(* Worker core threw, and hosted_prompt reports it with the token. *)
MutantPromptExecutingOnly(r, e) == r.status = "executing" /\ ExecutionEvidence(r, e)

PromptMatches(r, e) == ResultEligibleWindow(r) /\ ExecutionEvidence(r, e)

PassThrows(e, answered) ==
  LET won == PromptMatches(run, e)
  IN /\ pass[e].inFlight
     /\ run' = IF won THEN TerminateLost(run, "hosted_prompt", "uncaught_throw") ELSE run
     /\ PassStepEnds(e, "lost", answered)
     /\ UNCHANGED <<now, dispatcher, life, claimant, notice>>

(* A Refusal or a structured Failure: returned, and nothing is written. *)
PassReturnsNoResult(e, answered) ==
  /\ pass[e].inFlight
  /\ PassStepEnds(e, "no_result", answered)
  /\ UNCHANGED <<run, now, dispatcher, life, claimant, notice>>

(* A port threw: the control plane could not be reached. *)
PassPortFails(e) ==
  /\ pass[e].inFlight
  /\ PassStepEnds(e, None, FALSE)
  /\ UNCHANGED <<run, now, dispatcher, life, claimant, notice>>

(* A self-hosted Worker submits, and may submit again. *)
WorkerSubmits(e, permitted) ==
  LET won == AcceptMatches(run, e, permitted)
  IN /\ claimant[e].pc = "granted"
     /\ \E runStatus \in AcceptedStatuses :
          run' = IF won THEN Accept(run, runStatus) ELSE run
     /\ UNCHANGED <<now, dispatcher, life, claimant, pass, notice, faults>>

-----------------------------------------------------------------------------
(* Ingress ends the live Run, then a step of its workflow wakes the        *)
(* lifecycle the row names; a hook that is not open takes nothing.         *)

EndLiveRun(ending) ==
  /\ EndLiveMatches(run)
  /\ run' = EndLive(run, ending)
  /\ notice' = "pending"
  /\ UNCHANGED <<now, dispatcher, life, claimant, pass, faults>>

NotifyLifecycle(answered) ==
  LET l == run.workflowRunId
  IN /\ notice = "pending"
     /\ Answered(answered)
     /\ life' = IF l # None /\ life[l].hook = "open"
                THEN [life EXCEPT ![l].hook = "resolved"] ELSE life
     /\ notice' = IF answered THEN "none" ELSE "pending"
     /\ UNCHANGED <<run, now, dispatcher, claimant, pass>>

-----------------------------------------------------------------------------
LifecycleStep(l) ==
  \/ LifecycleBoot(l)
  \/ ReadRun(l)
  \/ WakeAtDeadline(l)
  \/ WakeNotified(l)
  \/ WakeFromGrace(l)
  \/ WakeFromLostRace(l)
  \/ \E answered \in BOOLEAN :
       \/ RecordSelf(l, answered)
       \/ CloseUnclaimedWindow(l, answered)
       \/ CloseExecutionWindow(l, answered)
       \/ CancelPass(l, answered)
  \/ ReadPassDisposition(l)

Dispatch ==
  DispatchStart \/ DispatchRecord \/ DispatchArbitrate \/ DispatchCancel

PassStep(e) ==
  \E answered \in BOOLEAN :
    \/ \E permitted \in BOOLEAN : PassSubmits(e, permitted, answered)
    \/ PassThrows(e, answered)
    \/ PassReturnsNoResult(e, answered)

Next ==
  \/ Tick
  \/ Dispatch
  \/ DispatchAttemptLost
  \/ \E l \in Lifecycles : LifecycleStep(l) \/ LifecycleStepFails(l)
  \/ \E e \in Executions : ClaimBegin(e) \/ ClaimRun(e)
  \/ \E e \in HostedExecutions :
       StartPass(e) \/ DispatchMarkExecuting(e) \/ PassStep(e) \/ PassPortFails(e)
  \/ \E e \in WorkerExecutions, permitted \in BOOLEAN : WorkerSubmits(e, permitted)
  \/ \E ending \in IngressEndings : EndLiveRun(ending)
  \/ \E answered \in BOOLEAN : NotifyLifecycle(answered)

Spec == Init /\ [][Next]_vars

(* Time passes, and the platform keeps running the steps of a lifecycle    *)
(* that has started.  Nothing else is promised: a dispatch, a pass, a      *)
(* Worker and a notification may all stop for good.                        *)
Fairness == WF_vars(Tick) /\ \A l \in Lifecycles : WF_vars(LifecycleStep(l))

FairSpec == Spec /\ Fairness

-----------------------------------------------------------------------------
(* Safety. *)

(* The lifecycle the row names has started and was never cancelled by the  *)
(* dispatch that started it, even though a lifecycle may record itself     *)
(* behind that dispatch's back (concludeDispatch).                         *)
RecordedLifecycleIsKept ==
  run.workflowRunId # None => life[run.workflowRunId].pc \notin {"none", "cancelled"}

(* What a lifecycle returned is true of the row for ever after: the        *)
(* windows are closed by the recorded lifecycle alone, it reports the loss *)
(* the row carries, an orphan names somebody else, and no lifecycle meets  *)
(* a claimed Run without a deadline (the LifecycleOutcome union).          *)
ReturnsAreTrue ==
  \A l \in Lifecycles :
    LET o == life[l].outcome
    IN o # None =>
         CASE o.kind = "unscheduled" ->
                run.status = "unscheduled" /\ run.workflowRunId = l
           [] o.kind = "worker_lost" ->
                /\ run.workflowRunId = l
                /\ run.failure = [detector |-> "hosted_watchdog",
                                  observation |-> o.observation,
                                  lostFrom |-> o.lostFrom]
           [] o.kind = "ended" -> run.status \in TerminalStatuses
           [] o.kind = "orphaned" -> run.workflowRunId \notin {None, l}
           [] OTHER -> FALSE

(* `unscheduled` means never dispatched, and every status past the claim   *)
(* window has an execution behind it: a claim racing the claim deadline    *)
(* gets the Run or gets nothing (expireUnclaimed, claimRun).               *)
UnscheduledMeansNeverClaimed ==
  /\ run.status \in {"queued", "unscheduled"} => run.token = None
  /\ run.status \in ResultEligibleStatuses \cup AcceptedStatuses \cup {"failed"} =>
       run.token # None /\ run.executionExpiresAt # None

(* No window is closed before its deadline, although expireUnclaimed       *)
(* carries no clock and trusts a read made two steps earlier.              *)
DeadlinesAreNotEarly ==
  /\ run.status = "unscheduled" => now >= run.claimableUntil
  /\ run.failure # None /\ run.failure.detector = "hosted_watchdog" =>
       now >= run.executionExpiresAt

(* Terminalize first: a pass is cancelled only where it is the pass the    *)
(* Run records and the watchdog has already ended the Run over it.         *)
CancelFollowsTheTransition ==
  \A e \in HostedExecutions :
    pass[e].status = "cancelled" =>
      /\ run.status = "failed"
      /\ run.hostedWorkflowRunId = e
      /\ run.failure.detector = "hosted_watchdog"

(* The loss detail agrees with the row: lostFrom is the side of the window *)
(* the Run really left, so `executing` exactly where a pass is recorded,   *)
(* and a recorded pass is the token holder's (terminateLostExecution,      *)
(* markExecuting).                                                         *)
LossNamesItsSide ==
  /\ run.status = "failed" <=> run.failure # None
  /\ run.failure # None =>
       (run.failure.lostFrom = "executing" <=> run.hostedWorkflowRunId # None)
  /\ run.hostedWorkflowRunId # None => run.hostedWorkflowRunId = run.token

(* What a pass concluded is true of the row: `accepted` is its own         *)
(* Result, and a pass reported lost leaves no Run waiting on it, whichever *)
(* side of markExecuting it threw on (runHostedPlacement).                 *)
PassConclusionsAreTrue ==
  \A e \in HostedExecutions :
    /\ pass[e].outcome = "accepted" => run.accepted /\ run.token = e
    /\ pass[e].outcome = "lost" => run.status \in TerminalStatuses

(* A terminal Run never changes again, except that a late record may still *)
(* name its lifecycle: no late Result, watchdog, prompt detector, mark or  *)
(* claim revives or rewrites it.                                           *)
TerminalIsFinal ==
  [][run.status \in TerminalStatuses =>
       run' = [run EXCEPT !.workflowRunId = run'.workflowRunId]]_vars

(* The three ids that say who owns a Run are written once: the token, the  *)
(* lifecycle and the pass.                                                 *)
OwnersAreWrittenOnce ==
  [][/\ run.token # None => run'.token = run.token
     /\ run.workflowRunId # None => run'.workflowRunId = run.workflowRunId
     /\ run.hostedWorkflowRunId # None =>
          run'.hostedWorkflowRunId = run.hostedWorkflowRunId]_vars

(* The abstract contract, over the row alone. *)
Contract == INSTANCE RunContract WITH
  status <- run.status,
  holder <- run.token,
  scheduler <- run.workflowRunId,
  deadline <- IF run.token = None THEN run.claimableUntil ELSE run.executionExpiresAt,
  cause <- IF run.failure = None THEN None ELSE run.failure.detector,
  clock <- now

(* Whatever the processes do, the row follows the contract. *)
ImplementsContract == Contract!ContractSpec

-----------------------------------------------------------------------------
(* Liveness. *)

(* One started lifecycle is enough: the Run reaches a terminal status,     *)
(* whether or not the dispatch that started it ever recorded it, and       *)
(* whatever dispatches, claimants and passes stop doing (runLifecycle).    *)
StartedLifecycleEndsTheRun ==
  (\E l \in Lifecycles : life[l].pc # "none") ~> (run.status \in TerminalStatuses)

(* No durable lifecycle sleeps or loops for ever. *)
LifecyclesReturn ==
  \A l \in Lifecycles : (life[l].pc = "boot") ~> (life[l].pc \in Gone)

=============================================================================
