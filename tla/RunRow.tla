------------------------------- MODULE RunRow -------------------------------
(***************************************************************************)
(* The `run` row and the conditional statements over it                    *)
(* (packages/control-plane/src/run/lifecycle.ts, worker/claim.ts,          *)
(* worker/acceptance.ts, github/run-creation.ts).                          *)
(*                                                                         *)
(* Every writer in the control plane is one `UPDATE run SET .. WHERE ..    *)
(* RETURNING`.  Each is two operators here: XMatches, its WHERE, and X,    *)
(* the row it writes.  A statement that matches nothing leaves the row as  *)
(* it was and answers FALSE.  Nothing in this module is a process: who     *)
(* issues the statements, and when, is RunLifecycle.                       *)
(*                                                                         *)
(* The execution token is represented by the claim attempt that minted it, *)
(* and `sha256(token)` by the token: a claim attempt mints a fresh one.    *)
(***************************************************************************)
EXTENDS Integers

CONSTANTS
  Lifecycles,        \* ids of the durable lifecycle runs `start()` may return
  HostedExecutions,  \* hosted dispatch attempts; each has a token and a pass
  WorkerExecutions,  \* claims by self-hosted Workers; each has a token
  ClaimableFor,      \* profile.claimableForMs, in ticks
  LivenessFor,       \* config.livenessForMs, in ticks
  None               \* SQL NULL

Executions == HostedExecutions \cup WorkerExecutions

ASSUME IdsAssumption ==
  /\ None \notin Lifecycles \cup Executions
  /\ None \notin Int
  /\ HostedExecutions \cap WorkerExecutions = {}

ASSUME WindowsAssumption ==
  /\ ClaimableFor \in Nat \ {0}
  /\ LivenessFor \in Nat \ {0}

-----------------------------------------------------------------------------
(* The state machine's vocabulary (db/schema-values.ts). *)

LiveStatuses == {"queued", "claimed", "executing"}
ResultEligibleStatuses == {"claimed", "executing"}
AcceptedStatuses == {"completed", "incomplete"}
IngressEndings == {"superseded", "cancelled"}
TerminalStatuses == AcceptedStatuses \cup IngressEndings \cup {"failed", "unscheduled"}
Statuses == LiveStatuses \cup TerminalStatuses

Placements == {"hosted", "self_hosted"}
Detectors == {"hosted_prompt", "hosted_watchdog"}
WatchdogObservations ==
  {"deadline_elapsed", "workflow_terminal_without_result", "workflow_failed",
   "workflow_cancelled", "workflow_state_unavailable"}
Observations == WatchdogObservations \cup {"uncaught_throw"}

Losses == [detector : Detectors, observation : Observations,
           lostFrom : ResultEligibleStatuses]

ASSUME NullAssumption == None \notin Losses

(* The columns the lifecycle of a Run reads or writes.  `accepted` is      *)
(* `accepted_at IS NOT NULL`; `failure` is `failure_detail`, present       *)
(* exactly where `failure_reason` is its one member, worker_lost.          *)
RunRows ==
  [status : Statuses,
   placement : Placements,
   claimableUntil : Nat,
   executionExpiresAt : Nat \cup {None},
   token : Executions \cup {None},
   workflowRunId : Lifecycles \cup {None},
   hostedWorkflowRunId : HostedExecutions \cup {None},
   accepted : BOOLEAN,
   failure : Losses \cup {None}]

(* insertRun: the row ingress writes at creation time `now`. *)
InsertRun(placement, now) ==
  [status |-> "queued",
   placement |-> placement,
   claimableUntil |-> now + ClaimableFor,
   executionExpiresAt |-> None,
   token |-> None,
   workflowRunId |-> None,
   hostedWorkflowRunId |-> None,
   accepted |-> FALSE,
   failure |-> None]

(* The placement a claimant of each kind has. *)
PlacementOf(e) == IF e \in HostedExecutions THEN "hosted" ELSE "self_hosted"

-----------------------------------------------------------------------------
(* Acceptance's eligibility window, defined once and shared. *)

ResultEligibleWindow(r) == r.status \in ResultEligibleStatuses /\ ~r.accepted

-----------------------------------------------------------------------------
(* claimRun, for the attempt e whose clock read `at`.  `installed` is      *)
(* whether the Run's Repository records a live Installation.               *)

ClaimMatches(r, e, at, installed) ==
  /\ r.status = "queued"
  /\ r.claimableUntil > at
  /\ r.placement = PlacementOf(e)
  /\ installed

Claim(r, e, at) ==
  [r EXCEPT !.status = "claimed", !.token = e,
            !.executionExpiresAt = at + LivenessFor]

(* recordLifecycle: the first writer of workflow_run_id wins.  No status   *)
(* guard, so it may land on a Run that already ended.                      *)
MutantRecordQueuedOnly(r) == r.status = "queued" /\ r.workflowRunId = None
MutantRecordOver(r) == r.status \in LiveStatuses

RecordLifecycleMatches(r) == r.workflowRunId = None
RecordLifecycle(r, l) == [r EXCEPT !.workflowRunId = l]

(* markExecuting, presenting the token of execution e and its pass. *)
MutantMarkAnyClaimed(r, e) == r.token = e /\ ~r.accepted

MarkExecutingMatches(r, e) ==
  /\ ResultEligibleWindow(r)
  /\ r.status = "claimed"
  /\ r.token = e

MarkExecuting(r, e) ==
  [r EXCEPT !.status = "executing", !.hostedWorkflowRunId = e]

(* expireUnclaimed: the recorded lifecycle closes the claim window.  The   *)
(* statement carries no clock: that the deadline passed is its caller's    *)
(* reading.                                                                *)
MutantExpireAnyLive(r, l) == r.status \in LiveStatuses /\ r.workflowRunId = l

ExpireUnclaimedMatches(r, l) ==
  /\ r.status = "queued"
  /\ r.workflowRunId = l

ExpireUnclaimed(r) == [r EXCEPT !.status = "unscheduled"]

-----------------------------------------------------------------------------
(* terminateLostExecution: one statement, two kinds of evidence. *)

DeadlineEvidence(r, l, at) ==
  /\ r.executionExpiresAt # None
  /\ r.executionExpiresAt <= at
  /\ r.workflowRunId = l

ExecutionEvidence(r, e) == r.token = e

TerminateLost(r, detector, observation) ==
  [r EXCEPT !.status = "failed",
            !.failure = [detector |-> detector, observation |-> observation,
                         lostFrom |-> r.status]]

(* acceptResult, presenting the token of execution e.  `permitted` is      *)
(* whether the payload carries no Patch, or the Run's Autonomy is `fix`.   *)
MutantAcceptByToken(r, e, permitted) == r.token = e /\ permitted

AcceptMatches(r, e, permitted) ==
  /\ ResultEligibleWindow(r)
  /\ r.token = e
  /\ permitted

Accept(r, runStatus) == [r EXCEPT !.status = runStatus, !.accepted = TRUE]

(* endLiveRun, as the ingress critical section reaches it. *)
MutantEndAny(r) == r.status \notin IngressEndings

EndLiveMatches(r) == r.status \in LiveStatuses
EndLive(r, ending) == [r EXCEPT !.status = ending]
=============================================================================
