---------------------------- MODULE RunContract -----------------------------
(***************************************************************************)
(* What the control plane promises about one Run, without the processes    *)
(* that race over its row (ADR 0007's machine, ADR 0014's recorded         *)
(* lifecycle, ADR 0015's window): it is granted at most once and on time,  *)
(* it is ended at most once, only its own deadline or its own execution's  *)
(* crash loses it, and a deadline acts only through a recorded lifecycle.  *)
(* RunLifecycle implements this module.                                    *)
(***************************************************************************)
EXTENDS Integers

CONSTANTS Executions, Lifecycles, LivenessFor, None

VARIABLES
  status,     \* where the Run is
  holder,     \* the execution it was granted to
  scheduler,  \* the lifecycle it records
  deadline,   \* when the window it is in closes
  cause,      \* which detector lost it
  clock

contractVars == <<status, holder, scheduler, deadline, cause, clock>>

Granted == {"claimed", "executing"}
Overdue == scheduler # None /\ deadline <= clock

ContractInit ==
  /\ status = "queued"
  /\ holder = None
  /\ scheduler = None
  /\ deadline \in Nat
  /\ cause = None
  /\ clock = 0

(* First writer wins, and late is not refused. *)
Schedule ==
  /\ scheduler = None
  /\ scheduler' \in Lifecycles
  /\ UNCHANGED <<status, holder, deadline, cause, clock>>

(* One grant, timed from inside the claim window it closes. *)
Grant ==
  /\ status = "queued" /\ status' = "claimed"
  /\ holder' \in Executions
  /\ deadline' \in Nat /\ deadline' < deadline + LivenessFor
  /\ UNCHANGED <<scheduler, cause, clock>>

Begin ==
  /\ status = "claimed" /\ status' = "executing"
  /\ UNCHANGED <<holder, scheduler, deadline, cause, clock>>

Accept ==
  /\ status \in Granted /\ status' \in {"completed", "incomplete"}
  /\ UNCHANGED <<holder, scheduler, deadline, cause, clock>>

Lose ==
  /\ status \in Granted /\ status' = "failed"
  /\ \/ cause' = "hosted_watchdog" /\ Overdue
     \/ cause' = "hosted_prompt"
  /\ UNCHANGED <<holder, scheduler, deadline, clock>>

Lapse ==
  /\ status = "queued" /\ status' = "unscheduled"
  /\ Overdue
  /\ UNCHANGED <<holder, scheduler, deadline, cause, clock>>

Withdraw ==
  /\ status \in Granted \cup {"queued"} /\ status' \in {"superseded", "cancelled"}
  /\ UNCHANGED <<holder, scheduler, deadline, cause, clock>>

Elapse ==
  /\ clock' = clock + 1
  /\ UNCHANGED <<status, holder, scheduler, deadline, cause>>

ContractNext ==
  Schedule \/ Grant \/ Begin \/ Accept \/ Lose \/ Lapse \/ Withdraw \/ Elapse

ContractSpec == ContractInit /\ [][ContractNext]_contractVars
=============================================================================
