------------------------- MODULE RunLifecycleProofs -------------------------
(***************************************************************************)
(* What RunLifecycle guarantees for every number of lifecycles, dispatch   *)
(* attempts and Workers, every window, and every bound on faults and time. *)
(*                                                                         *)
(* The argument goes through the row.  Next has some thirty actions, but   *)
(* only eight conditional statements write the Run, so the proof first     *)
(* reduces a step to the statement it issues (RowStatement) and then       *)
(* reasons about eight statements: for the row's own invariant, for the    *)
(* two action properties, and for the refinement of RunContract.           *)
(***************************************************************************)
EXTENDS RunLifecycle, TLAPS

-----------------------------------------------------------------------------
(* Types, strengthened until they are inductive: a step that may still be  *)
(* retried has attempts left, the watchdog closes a window only once it    *)
(* knows what it observed, and a claim in flight has read its clock.       *)

SoundBodies ==
  {b \in Body : /\ b.tries < StepAttempts
                /\ b.pc = "close_execution" => b.seen \in WatchdogObservations}

ClaimAttempts ==
  {c \in [pc : ClaimantPoints, at : Nat \cup {None}] :
     c.pc = "claiming" => c.at \in Nat}

Passes ==
  {p \in [status : PassStatuses, inFlight : BOOLEAN,
          outcome : PassOutcomes \cup {None}, tries : 0..StepAttempts] :
     p.inFlight => p.tries < StepAttempts}

DispatchAttempts ==
  {d \in [pc : DispatcherPoints, mine : Lifecycles \cup {None},
          tries : 0..StepAttempts] :
     /\ d.pc # "failed" => d.tries < StepAttempts
     /\ d.pc \in {"record", "arbitrate", "cancel"} => d.mine \in Lifecycles}

(* A pass that was not started yet has spent no attempt. *)
PassFollowsClaim ==
  \A e \in HostedExecutions :
    claimant[e].pc \in {"idle", "claiming", "granted"} =>
      pass[e].tries = 0 /\ ~pass[e].inFlight

TypeInv ==
  /\ run \in RunRows
  /\ now \in 0..MaxClock
  /\ dispatcher \in DispatchAttempts
  /\ life \in [Lifecycles -> SoundBodies]
  /\ claimant \in [Executions -> ClaimAttempts]
  /\ pass \in [HostedExecutions -> Passes]
  /\ PassFollowsClaim
  /\ notice \in {"none", "pending"}
  /\ faults \in 0..MaxFaults

LEMMA TypeInvImpliesTypeOK == TypeInv => TypeOK
  BY DEF TypeInv, TypeOK, SoundBodies, ClaimAttempts, Passes, DispatchAttempts

(* The rows each statement writes are rows. *)
LEMMA RowTypes ==
  ASSUME NEW r \in RunRows
  PROVE  /\ \A l \in Lifecycles : RecordLifecycle(r, l) \in RunRows
         /\ \A e \in HostedExecutions : MarkExecuting(r, e) \in RunRows
         /\ \A e \in Executions, at \in Nat : Claim(r, e, at) \in RunRows
         /\ ExpireUnclaimed(r) \in RunRows
         /\ \A d \in Detectors, o \in Observations :
              ResultEligibleWindow(r) => TerminateLost(r, d, o) \in RunRows
         /\ \A s \in AcceptedStatuses : Accept(r, s) \in RunRows
         /\ \A s \in IngressEndings : EndLive(r, s) \in RunRows
<1> USE DEF RunRows, Statuses, LiveStatuses, TerminalStatuses, AcceptedStatuses,
            IngressEndings
<1>1. \A l \in Lifecycles : RecordLifecycle(r, l) \in RunRows
  BY DEF RecordLifecycle
<1>2. \A e \in HostedExecutions : MarkExecuting(r, e) \in RunRows
  BY DEF MarkExecuting, Executions
<1>3. ASSUME NEW e \in Executions, NEW at \in Nat PROVE Claim(r, e, at) \in RunRows
  <2>1. at + LivenessFor \in Nat
    BY WindowsAssumption
  <2> QED BY <2>1 DEF Claim
<1>4. ExpireUnclaimed(r) \in RunRows
  BY DEF ExpireUnclaimed
<1>5. \A d \in Detectors, o \in Observations :
        ResultEligibleWindow(r) => TerminateLost(r, d, o) \in RunRows
  BY DEF TerminateLost, ResultEligibleWindow, Losses
<1>6. \A s \in AcceptedStatuses : Accept(r, s) \in RunRows
  BY DEF Accept
<1>7. \A s \in IngressEndings : EndLive(r, s) \in RunRows
  BY DEF EndLive
<1> QED BY <1>1, <1>2, <1>3, <1>4, <1>5, <1>6, <1>7

(* The bodies the operators of the loop build are sound. *)
LEMMA NotStartedSound ==
  ASSUME NEW pc \in LifecyclePoints \ {"close_execution"}
  PROVE  [NotStarted EXCEPT !.pc = pc] \in SoundBodies
<1>1. /\ 0 \in 0..StepAttempts /\ 0 < StepAttempts
      /\ 0 \in 0..RecordGraceWakes
  BY BoundsAssumption
<1>2. [NotStarted EXCEPT !.pc = pc] \in Body
  BY <1>1 DEF NotStarted, Body
<1> QED BY <1>1, <1>2 DEF NotStarted, SoundBodies

LEMMA ReturnSound ==
  ASSUME NEW o \in Outcomes \cup {None}
  PROVE  Return(o) \in SoundBodies
<1>1. /\ 0 \in 0..StepAttempts /\ 0 < StepAttempts
      /\ 0 \in 0..RecordGraceWakes
  BY BoundsAssumption
<1>2. Return(o) \in Body
  BY <1>1 DEF Return, NotStarted, Body, LifecyclePoints
<1> QED BY <1>1, <1>2 DEF Return, NotStarted, SoundBodies

LEMMA ReturnedIsOutcome == \A k \in OutcomeKinds : Returned(k) \in Outcomes
  BY DEF Returned, Outcomes

LEMMA ProceedSound ==
  ASSUME NEW b \in Body, NEW pc \in LifecyclePoints \ {"close_execution"}
  PROVE  Proceed(b, pc) \in SoundBodies /\ Proceed(b, pc).pc = pc
<1>1. 0 \in 0..StepAttempts /\ 0 < StepAttempts
  BY BoundsAssumption
<1>2. Proceed(b, pc) \in Body
  BY <1>1 DEF Proceed, Body
<1> QED BY <1>1, <1>2 DEF Proceed, SoundBodies, Body

LEMMA CloseExecutionSound ==
  ASSUME NEW b \in Body, NEW o \in WatchdogObservations
  PROVE  [Proceed(b, "close_execution") EXCEPT !.seen = o] \in SoundBodies
<1>1. 0 \in 0..StepAttempts /\ 0 < StepAttempts
  BY BoundsAssumption
<1>2. "close_execution" \in LifecyclePoints
  BY DEF LifecyclePoints, LifecycleSteps
<1>3. /\ Proceed(b, "close_execution") \in Body
      /\ Proceed(b, "close_execution").tries = 0
  BY <1>1, <1>2 DEF Proceed, Body
<1>4. [Proceed(b, "close_execution") EXCEPT !.seen = o] \in Body
  BY <1>3 DEF Body
<1> QED BY <1>1, <1>3, <1>4 DEF SoundBodies, Body

LEMMA RetriedSound ==
  ASSUME NEW b \in SoundBodies
  PROVE  /\ Retried(b) \in SoundBodies
         /\ Retried(b).pc \in {"failed", b.pc}
<1>1. CASE b.tries + 1 = StepAttempts
  BY <1>1, NotStartedSound
  DEF Retried, LifecyclePoints, NotStarted
<1>2. CASE b.tries + 1 # StepAttempts
  BY <1>2, BoundsAssumption DEF Retried, SoundBodies, Body
<1> QED BY <1>1, <1>2

(* One wake leaves a sound body, and one that goes on to close the claim   *)
(* window has read a queued Run whose claim deadline has passed.           *)
LEMMA WakeSound ==
  ASSUME NEW l \in Lifecycles, NEW b \in SoundBodies, NEW r \in RunRows,
         NEW at \in Nat
  PROVE  /\ Wake(l, b, r, at) \in SoundBodies
         /\ Wake(l, b, r, at).pc \notin {"none", "cancelled"}
         /\ Wake(l, b, r, at).pc = "close_unclaimed" => r.claimableUntil <= at
<1> DEFINE W == Wake(l, b, r, at)
           Good(w) == /\ w \in SoundBodies
                      /\ w.pc \notin {"none", "cancelled"}
                      /\ w.pc = "close_unclaimed" => r.claimableUntil <= at
<1>1. b \in Body
  BY DEF SoundBodies
<1>2. ASSUME NEW k \in OutcomeKinds PROVE Good(Return(Returned(k)))
  BY ReturnedIsOutcome, ReturnSound DEF Return, NotStarted
<1>3. ActiveWindow(r) # None => Good([Proceed(b, "sleep") EXCEPT !.until = ActiveWindow(r)])
  <2>1. Proceed(b, "sleep") \in SoundBodies /\ Proceed(b, "sleep").pc = "sleep"
    BY <1>1, ProceedSound DEF LifecyclePoints
  <2>2. ActiveWindow(r) \in Nat \cup {None}
    BY DEF ActiveWindow, RunRows
  <2> QED BY <2>1, <2>2 DEF SoundBodies, Body
<1>4. Good(Unrecorded(b))
  <2>1. CASE b.wakes < RecordGraceWakes
    <3>1. Proceed(b, "grace") \in SoundBodies /\ Proceed(b, "grace").pc = "grace"
      BY <1>1, ProceedSound DEF LifecyclePoints
    <3>2. b.wakes + 1 \in 0..RecordGraceWakes
      BY <1>1, <2>1, BoundsAssumption DEF Body
    <3> QED BY <2>1, <3>1, <3>2 DEF Unrecorded, SoundBodies, Body
  <2>2. CASE ~(b.wakes < RecordGraceWakes)
    <3>1. /\ Proceed(b, "record_self") \in SoundBodies
          /\ Proceed(b, "record_self").pc = "record_self"
      BY <1>1, ProceedSound DEF LifecyclePoints, LifecycleSteps
    <3> QED BY <2>2, <3>1 DEF Unrecorded
  <2> QED BY <2>1, <2>2
<1>5. WindowPassed(r, at) => Good(CloseWindow(b, r))
  <2> SUFFICES ASSUME WindowPassed(r, at) PROVE Good(CloseWindow(b, r))
    OBVIOUS
  <2>1. CASE r.status = "queued"
    <3>1. r.claimableUntil <= at
      BY <2>1 DEF WindowPassed, ActiveWindow
    <3>2. /\ Proceed(b, "close_unclaimed") \in SoundBodies
          /\ Proceed(b, "close_unclaimed").pc = "close_unclaimed"
      BY <1>1, ProceedSound DEF LifecyclePoints, LifecycleSteps
    <3> QED BY <2>1, <3>1, <3>2 DEF CloseWindow
  <2>2. CASE r.status # "queued" /\ r.hostedWorkflowRunId = None
    <3>1. [Proceed(b, "close_execution") EXCEPT !.seen = "deadline_elapsed"] \in SoundBodies
      BY <1>1, CloseExecutionSound DEF WatchdogObservations
    <3>2. [Proceed(b, "close_execution") EXCEPT !.seen = "deadline_elapsed"].pc
            = "close_execution"
      BY <1>1 DEF Proceed, Body
    <3> QED BY <2>2, <3>1, <3>2 DEF CloseWindow
  <2>3. CASE r.status # "queued" /\ r.hostedWorkflowRunId # None
    <3>1. Proceed(b, "read_pass") \in SoundBodies /\ Proceed(b, "read_pass").pc = "read_pass"
      BY <1>1, ProceedSound DEF LifecyclePoints, LifecycleSteps
    <3>2. Good([Proceed(b, "read_pass") EXCEPT !.snapPass = r.hostedWorkflowRunId])
      BY <3>1 DEF SoundBodies, Body, RunRows
    <3> QED BY <2>3, <3>2 DEF CloseWindow
  <2> QED BY <2>1, <2>2, <2>3
<1>6. CASE r.workflowRunId \notin {None, l}
  <2>1. W = Return(Returned("orphaned"))
    BY <1>6 DEF Wake
  <2> QED BY <1>2, <2>1 DEF OutcomeKinds
<1>7. CASE r.workflowRunId \in {None, l} /\ r.status \notin LiveStatuses
  <2>1. W = Return(Returned("ended"))
    BY <1>7 DEF Wake
  <2> QED BY <1>2, <2>1 DEF OutcomeKinds
<1>8. CASE r.workflowRunId \in {None, l} /\ r.status \in LiveStatuses
  <2>1. W = IF ActiveWindow(r) = None THEN Return(Returned("claimed"))
            ELSE IF ~WindowPassed(r, at)
                 THEN [Proceed(b, "sleep") EXCEPT !.until = ActiveWindow(r)]
                 ELSE IF r.workflowRunId = None THEN Unrecorded(b)
                      ELSE CloseWindow(b, r)
    BY <1>8 DEF Wake
  <2>2. Good(Return(Returned("claimed")))
    BY <1>2 DEF OutcomeKinds
  <2> QED BY <1>3, <1>4, <1>5, <2>1, <2>2
<1> QED BY <1>6, <1>7, <1>8

-----------------------------------------------------------------------------
(* What one step does to a lifecycle and to the row. *)

(* A step of lifecycle l, seen from outside: it was started, it was not    *)
(* cancelled, and if it is about to close the claim window then the        *)
(* deadline has passed.                                                    *)
PassesKept ==
  /\ pass' \in [HostedExecutions -> Passes]
  /\ \A e \in HostedExecutions :
       pass'[e].tries = pass[e].tries /\ pass'[e].inFlight = pass[e].inFlight

Moves(l) ==
  /\ life[l].pc \notin {"none", "cancelled"}
  /\ \E b \in SoundBodies :
       /\ life' = [life EXCEPT ![l] = b]
       /\ b.pc \notin {"none", "cancelled"}
       /\ b.pc = "close_unclaimed" =>
            life[l].pc = "close_unclaimed" \/ run.claimableUntil <= now
  /\ UNCHANGED <<now, dispatcher, claimant, notice>>
  /\ PassesKept
  /\ faults' \in 0..MaxFaults

LEMMA LostAnswer ==
  ASSUME TypeInv, NEW answered \in BOOLEAN, Answered(answered)
  PROVE  faults' \in 0..MaxFaults
  BY BoundsAssumption DEF TypeInv, Answered

LEMMA LifecycleMoves ==
  ASSUME TypeInv, NEW l \in Lifecycles, LifecycleStep(l) \/ LifecycleStepFails(l)
  PROVE  Moves(l)
<1> USE DEF TypeInv
<1>1. /\ life[l] \in SoundBodies /\ life[l] \in Body
      /\ life[l].tries < StepAttempts
  BY DEF SoundBodies
<1>2. ASSUME NEW b \in SoundBodies, life' = [life EXCEPT ![l] = b],
             life[l].pc \notin {"none", "cancelled"},
             b.pc \notin {"none", "cancelled"},
             b.pc = "close_unclaimed" =>
               life[l].pc = "close_unclaimed" \/ run.claimableUntil <= now,
             UNCHANGED <<now, dispatcher, claimant, notice>>,
             UNCHANGED pass \/ PassesKept,
             faults' \in 0..MaxFaults
      PROVE  Moves(l)
  BY <1>2 DEF Moves, PassesKept
<1>3. CASE LifecycleBoot(l)
  <2> DEFINE b == [life[l] EXCEPT !.pc = "read", !.hook = "open"]
  <2>1. b \in SoundBodies /\ b.pc = "read"
    BY <1>1 DEF SoundBodies, Body, LifecyclePoints, LifecycleSteps
  <2>2. life' = [life EXCEPT ![l] = b]
    BY <1>3 DEF LifecycleBoot
  <2> QED BY <1>2, <1>3, <2>1, <2>2 DEF LifecycleBoot
<1>4. CASE ReadRun(l)
  <2> DEFINE c == [life[l] EXCEPT !.snapPass = None, !.seen = None]
             b == Wake(l, c, run, now)
  <2>1. c \in SoundBodies
    BY <1>1, <1>4 DEF ReadRun, SoundBodies, Body
  <2>2. now \in Nat
    BY BoundsAssumption
  <2>3. /\ b \in SoundBodies
        /\ b.pc \notin {"none", "cancelled"}
        /\ b.pc = "close_unclaimed" => run.claimableUntil <= now
    BY <2>1, <2>2, WakeSound
  <2>4. life' = [life EXCEPT ![l] = b]
    BY <1>4 DEF ReadRun
  <2> HIDE DEF b
  <2> QED BY <1>2, <1>4, <2>3, <2>4 DEF ReadRun
<1>5. CASE WakeAtDeadline(l)
  <2> DEFINE b == [life[l] EXCEPT !.pc = "read", !.until = None]
  <2>1. b \in SoundBodies /\ b.pc = "read"
    BY <1>1 DEF SoundBodies, Body, LifecyclePoints, LifecycleSteps
  <2>2. life' = [life EXCEPT ![l] = b]
    BY <1>5 DEF WakeAtDeadline
  <2> QED BY <1>2, <1>5, <2>1, <2>2 DEF WakeAtDeadline
<1>6. CASE WakeNotified(l)
  <2> DEFINE b == [life[l] EXCEPT !.pc = "read", !.until = None, !.hook = "spent"]
  <2>1. b \in SoundBodies /\ b.pc = "read"
    BY <1>1 DEF SoundBodies, Body, LifecyclePoints, LifecycleSteps
  <2>2. life' = [life EXCEPT ![l] = b]
    BY <1>6 DEF WakeNotified
  <2> QED BY <1>2, <1>6, <2>1, <2>2 DEF WakeNotified
<1>7. CASE WakeFromGrace(l)
  <2> DEFINE b == [life[l] EXCEPT !.pc = "read"]
  <2>1. b \in SoundBodies /\ b.pc = "read"
    BY <1>1 DEF SoundBodies, Body, LifecyclePoints, LifecycleSteps
  <2>2. life' = [life EXCEPT ![l] = b]
    BY <1>7 DEF WakeFromGrace
  <2> QED BY <1>2, <1>7, <2>1, <2>2 DEF WakeFromGrace
<1>8. CASE WakeFromLostRace(l)
  <2> DEFINE b == [life[l] EXCEPT !.pc = "reread"]
  <2>1. b \in SoundBodies /\ b.pc = "reread"
    BY <1>1 DEF SoundBodies, Body, LifecyclePoints, LifecycleSteps
  <2>2. life' = [life EXCEPT ![l] = b]
    BY <1>8 DEF WakeFromLostRace
  <2> QED BY <1>2, <1>8, <2>1, <2>2 DEF WakeFromLostRace
<1>9. ASSUME NEW answered \in BOOLEAN, RecordSelf(l, answered) PROVE Moves(l)
  <2> DEFINE won == RecordLifecycleMatches(run)
             b == IF ~answered THEN Retried(life[l])
                  ELSE Proceed(life[l], IF won THEN "read" ELSE "lost_race")
  <2>1. b \in SoundBodies /\ b.pc \in {"failed", life[l].pc, "read", "lost_race"}
    BY <1>1, RetriedSound, ProceedSound DEF LifecyclePoints, LifecycleSteps
  <2>2. life' = [life EXCEPT ![l] = b] /\ life[l].pc = "record_self"
    BY <1>9 DEF RecordSelf
  <2>3. faults' \in 0..MaxFaults
    BY <1>9, LostAnswer DEF RecordSelf
  <2> HIDE DEF b
  <2> QED BY <1>2, <1>9, <2>1, <2>2, <2>3 DEF RecordSelf
<1>10. ASSUME NEW answered \in BOOLEAN, CloseUnclaimedWindow(l, answered)
       PROVE  Moves(l)
  <2> DEFINE won == ExpireUnclaimedMatches(run, l)
             b == IF ~answered THEN Retried(life[l])
                  ELSE IF won THEN Return(Returned("unscheduled"))
                  ELSE Proceed(life[l], "lost_race")
  <2>1. Return(Returned("unscheduled")) \in SoundBodies
    BY ReturnedIsOutcome, ReturnSound DEF OutcomeKinds
  <2>2. Return(Returned("unscheduled")).pc = "ended"
    BY DEF Return, NotStarted
  <2>3. b \in SoundBodies /\ b.pc \in {"failed", life[l].pc, "ended", "lost_race"}
    BY <1>1, <2>1, <2>2, RetriedSound, ProceedSound
    DEF LifecyclePoints, LifecycleSteps
  <2>4. life' = [life EXCEPT ![l] = b] /\ life[l].pc = "close_unclaimed"
    BY <1>10 DEF CloseUnclaimedWindow
  <2>5. faults' \in 0..MaxFaults
    BY <1>10, LostAnswer DEF CloseUnclaimedWindow
  <2> HIDE DEF b
  <2> QED BY <1>2, <1>10, <2>3, <2>4, <2>5 DEF CloseUnclaimedWindow
<1>11. ASSUME NEW answered \in BOOLEAN, CloseExecutionWindow(l, answered)
       PROVE  Moves(l)
  <2> DEFINE won == WatchdogMatches(run, l, now)
             o == LostOutcome(life[l], run.status)
             b == IF answered THEN AfterClosing(life[l], won, run.status)
                  ELSE Retried(life[l])
  <2>1. life' = [life EXCEPT ![l] = b] /\ life[l].pc = "close_execution"
    BY <1>11 DEF CloseExecutionWindow
  <2>2. life[l].seen \in WatchdogObservations /\ life[l].snapPass \in HostedExecutions \cup {None}
    BY <1>1, <2>1 DEF SoundBodies, Body
  <2>3. won => o \in Outcomes
    BY <2>2 DEF WatchdogMatches, ResultEligibleWindow, LostOutcome, Outcomes,
                OutcomeKinds
  <2>4. Proceed(life[l], "lost_race") \in SoundBodies /\ Proceed(life[l], "lost_race").pc = "lost_race"
    BY <1>1, ProceedSound DEF LifecyclePoints
  <2>5. won => Return(o) \in SoundBodies /\ Return(o).pc = "ended"
    BY <2>3, ReturnSound DEF Return, NotStarted
  <2>6. won => /\ [Proceed(life[l], "cancel_pass") EXCEPT !.outcome = o] \in SoundBodies
               /\ [Proceed(life[l], "cancel_pass") EXCEPT !.outcome = o].pc = "cancel_pass"
    <3>1. Proceed(life[l], "cancel_pass") \in SoundBodies /\ Proceed(life[l], "cancel_pass").pc = "cancel_pass"
      BY <1>1, ProceedSound DEF LifecyclePoints, LifecycleSteps
    <3> HIDE DEF o
    <3> QED BY <2>3, <3>1 DEF SoundBodies, Body
  <2>7. AfterClosing(life[l], won, run.status) =
          IF ~won THEN Proceed(life[l], "lost_race")
          ELSE IF life[l].snapPass = None THEN Return(o)
          ELSE [Proceed(life[l], "cancel_pass") EXCEPT !.outcome = o]
    BY DEF AfterClosing
  <2> HIDE DEF o, won
  <2>8. b \in SoundBodies /\ b.pc \in {"failed", life[l].pc, "ended", "lost_race", "cancel_pass"}
    BY <1>1, <2>4, <2>5, <2>6, <2>7, RetriedSound
  <2>9. faults' \in 0..MaxFaults
    BY <1>11, LostAnswer DEF CloseExecutionWindow
  <2> HIDE DEF b
  <2> QED BY <1>2, <1>11, <2>1, <2>8, <2>9 DEF CloseExecutionWindow
<1>12. ASSUME NEW reached \in BOOLEAN, CancelPass(l, reached) PROVE Moves(l)
  <2> DEFINE b == Return(life[l].outcome)
             p == life[l].snapPass
  <2>1. b \in SoundBodies /\ b.pc = "ended"
    BY <1>1, ReturnSound DEF Return, NotStarted, SoundBodies, Body
  <2>2. PassesKept
    <3>1. ASSUME NEW e \in HostedExecutions
          PROVE  LET q == [pass[e] EXCEPT !.status = "cancelled"]
                 IN q \in Passes /\ q.tries = pass[e].tries /\ q.inFlight = pass[e].inFlight
      BY DEF Passes, PassStatuses
    <3>2. CASE pass' = pass
      BY <3>2 DEF PassesKept
    <3>3. CASE pass' = [pass EXCEPT ![p].status = "cancelled"]
      BY <3>1, <3>3 DEF PassesKept
    <3> QED BY <1>12, <3>2, <3>3 DEF CancelPass
  <2>3. life' = [life EXCEPT ![l] = b] /\ life[l].pc = "cancel_pass"
    BY <1>12 DEF CancelPass
  <2> HIDE DEF b
  <2> QED BY <1>2, <1>12, <2>1, <2>2, <2>3 DEF CancelPass
<1>13. CASE ReadPassDisposition(l)
  <2>1. PICK status \in {pass[life[l].snapPass].status, None} :
          life' = [life EXCEPT ![l] =
                     [Proceed(@, "close_execution") EXCEPT !.seen = ObservationFor(status)]]
    BY <1>13 DEF ReadPassDisposition
  <2> DEFINE b == [Proceed(life[l], "close_execution") EXCEPT
                     !.seen = ObservationFor(status)]
  <2>2. ObservationFor(status) \in WatchdogObservations
    BY DEF ObservationFor, WatchdogObservations
  <2>3. b \in SoundBodies
    BY <1>1, <2>2, CloseExecutionSound
  <2>4. b.pc = "close_execution"
    BY <1>1 DEF Proceed, Body
  <2>5. life' = [life EXCEPT ![l] = b]
    BY <2>1
  <2> HIDE DEF b
  <2> QED BY <1>2, <1>13, <2>3, <2>4, <2>5 DEF ReadPassDisposition
<1>14. CASE LifecycleStepFails(l)
  <2> DEFINE b == Retried(life[l])
  <2>1. b \in SoundBodies /\ b.pc \in {"failed", life[l].pc}
    BY <1>1, RetriedSound
  <2>2. life' = [life EXCEPT ![l] = b] /\ life[l].pc \in LifecycleSteps
    BY <1>14 DEF LifecycleStepFails
  <2>3. faults' \in 0..MaxFaults
    BY <1>14, BoundsAssumption DEF LifecycleStepFails
  <2> HIDE DEF b
  <2> QED BY <1>2, <1>14, <2>1, <2>2, <2>3 DEF LifecycleStepFails, LifecycleSteps
<1> QED
  BY <1>3, <1>4, <1>5, <1>6, <1>7, <1>8, <1>9, <1>10, <1>11, <1>12, <1>13, <1>14
  DEF LifecycleStep

(* A lifecycle about to close the claim window has seen its deadline pass. *)
DeadlineWasRead ==
  \A l \in Lifecycles : life[l].pc = "close_unclaimed" => run.claimableUntil <= now

(* The statements that write the row, with what their callers know. *)
RowStatement ==
  \/ \E l \in Lifecycles :
       RecordLifecycleMatches(run) /\ run' = RecordLifecycle(run, l)
  \/ \E l \in Lifecycles :
       /\ ExpireUnclaimedMatches(run, l) /\ run.claimableUntil <= now
       /\ run' = ExpireUnclaimed(run)
  \/ \E l \in Lifecycles, o \in WatchdogObservations :
       /\ WatchdogMatches(run, l, now)
       /\ run' = TerminateLost(run, "hosted_watchdog", o)
  \/ \E e \in Executions, at \in Nat, installed \in BOOLEAN :
       ClaimMatches(run, e, at, installed) /\ run' = Claim(run, e, at)
  \/ \E e \in HostedExecutions :
       MarkExecutingMatches(run, e) /\ run' = MarkExecuting(run, e)
  \/ \E e \in Executions, permitted \in BOOLEAN, s \in AcceptedStatuses :
       AcceptMatches(run, e, permitted) /\ run' = Accept(run, s)
  \/ \E e \in HostedExecutions :
       PromptMatches(run, e) /\ run' = TerminateLost(run, "hosted_prompt", "uncaught_throw")
  \/ \E s \in IngressEndings : EndLiveMatches(run) /\ run' = EndLive(run, s)

(* Every step either lets time pass or issues at most one statement. *)
LEMMA StepsOfTheRow ==
  ASSUME TypeInv, DeadlineWasRead, [Next]_vars
  PROVE  \/ now' = now + 1 /\ UNCHANGED run
         \/ UNCHANGED now /\ (RowStatement \/ UNCHANGED run)
<1> DEFINE Goal == \/ now' = now + 1 /\ UNCHANGED run
                   \/ UNCHANGED now /\ (RowStatement \/ UNCHANGED run)
<1>1. CASE Tick
  BY <1>1 DEF Tick
<1>2. CASE Dispatch
  <2>1. CASE DispatchRecord
    <3>1. dispatcher.mine \in Lifecycles
      BY <2>1 DEF TypeInv, DispatchAttempts, DispatchRecord
    <3> QED BY <2>1, <3>1 DEF DispatchRecord, RowStatement
  <2> QED BY <1>2, <2>1 DEF Dispatch, DispatchStart, DispatchArbitrate, DispatchCancel
<1>3. CASE DispatchAttemptLost
  BY <1>3 DEF DispatchAttemptLost
<1>4. ASSUME NEW l \in Lifecycles, LifecycleStep(l) \/ LifecycleStepFails(l)
      PROVE  Goal
  <2>1. ASSUME NEW answered \in BOOLEAN, RecordSelf(l, answered) PROVE Goal
    BY <2>1 DEF RecordSelf, RowStatement
  <2>2. ASSUME NEW answered \in BOOLEAN, CloseUnclaimedWindow(l, answered) PROVE Goal
    BY <2>2 DEF CloseUnclaimedWindow, RowStatement, DeadlineWasRead
  <2>3. ASSUME NEW answered \in BOOLEAN, CloseExecutionWindow(l, answered) PROVE Goal
    <3>1. life[l].seen \in WatchdogObservations
      BY <2>3 DEF CloseExecutionWindow, TypeInv, SoundBodies
    <3> QED BY <2>3, <3>1 DEF CloseExecutionWindow, RowStatement
  <2> QED
    BY <1>4, <2>1, <2>2, <2>3
    DEF LifecycleStep, LifecycleStepFails, LifecycleBoot, ReadRun, WakeAtDeadline,
        WakeNotified, WakeFromGrace, WakeFromLostRace, CancelPass, ReadPassDisposition
<1>5. ASSUME NEW e \in Executions, ClaimBegin(e) PROVE Goal
  BY <1>5 DEF ClaimBegin
<1>6. ASSUME NEW e \in Executions, ClaimRun(e) PROVE Goal
  <2>1. claimant[e].at \in Nat
    BY <1>6 DEF ClaimRun, TypeInv, ClaimAttempts
  <2> QED BY <1>6, <2>1 DEF ClaimRun, RowStatement
<1>7. ASSUME NEW e \in HostedExecutions,
             StartPass(e) \/ DispatchMarkExecuting(e) \/ PassPortFails(e)
      PROVE  Goal
  BY <1>7 DEF StartPass, DispatchMarkExecuting, PassPortFails, RowStatement
<1>8. ASSUME NEW e \in HostedExecutions, PassStep(e) PROVE Goal
  <2>1. ASSUME NEW answered \in BOOLEAN, NEW permitted \in BOOLEAN,
               PassSubmits(e, permitted, answered)
        PROVE  Goal
    BY <2>1 DEF PassSubmits, RowStatement, Executions
  <2> QED BY <1>8, <2>1 DEF PassStep, PassThrows, PassReturnsNoResult, RowStatement
<1>9. ASSUME NEW e \in WorkerExecutions, NEW permitted \in BOOLEAN,
             WorkerSubmits(e, permitted)
      PROVE  Goal
  BY <1>9 DEF WorkerSubmits, RowStatement, Executions
<1>10. ASSUME NEW ending \in IngressEndings, EndLiveRun(ending) PROVE Goal
  BY <1>10 DEF EndLiveRun, RowStatement
<1>11. ASSUME NEW answered \in BOOLEAN, NotifyLifecycle(answered) PROVE Goal
  BY <1>11 DEF NotifyLifecycle
<1>12. CASE UNCHANGED vars
  BY <1>12 DEF vars
<1> QED
  BY <1>1, <1>2, <1>3, <1>4, <1>5, <1>6, <1>7, <1>8, <1>9, <1>10, <1>11, <1>12
  DEF Next

(* No statement leaves a row that is not one. *)
LEMMA StatementsKeepRows ==
  ASSUME run \in RunRows, RowStatement
  PROVE  run' \in RunRows
<1>1. "hosted_watchdog" \in Detectors /\ "hosted_prompt" \in Detectors
  BY DEF Detectors
<1>2. WatchdogObservations \subseteq Observations /\ "uncaught_throw" \in Observations
  BY DEF Observations
<1> QED BY <1>1, <1>2, RowTypes DEF RowStatement, WatchdogMatches, PromptMatches

-----------------------------------------------------------------------------
(* The inductive invariant. *)

(* The row agrees with itself: the columns a claim writes are there exactly*)
(* past the claim window, a pass is recorded exactly while or after the    *)
(* Run executes, and the loss detail is there exactly where the Run failed.*)
RowInv ==
  /\ run.status \in {"queued", "unscheduled"} => run.token = None
  /\ run.status \in ResultEligibleStatuses \cup AcceptedStatuses \cup {"failed"} =>
       run.token # None
  /\ run.token # None <=> run.executionExpiresAt # None
  /\ run.status \in {"queued", "claimed", "unscheduled"} =>
       run.hostedWorkflowRunId = None
  /\ run.status = "executing" => run.hostedWorkflowRunId # None
  /\ run.hostedWorkflowRunId # None => run.hostedWorkflowRunId = run.token
  /\ run.accepted => run.status \in AcceptedStatuses
  /\ run.status = "failed" <=> run.failure # None
  /\ run.failure # None =>
       (run.failure.lostFrom = "executing" <=> run.hostedWorkflowRunId # None)

(* A lifecycle is cancelled only once the Run names another, and the one   *)
(* it names was started.                                                   *)
Recorded ==
  /\ dispatcher.pc \in {"record", "arbitrate", "cancel"} =>
       life[dispatcher.mine].pc # "none"
  /\ dispatcher.pc = "arbitrate" => run.workflowRunId # None
  /\ dispatcher.pc = "cancel" => run.workflowRunId \notin {None, dispatcher.mine}
  /\ \A l \in Lifecycles :
       life[l].pc = "cancelled" => run.workflowRunId \notin {None, l}
  /\ run.workflowRunId # None => life[run.workflowRunId].pc # "none"

Inv == TypeInv /\ RowInv /\ DeadlineWasRead /\ Recorded /\ DeadlinesAreNotEarly

(* A row statement keeps the row in agreement with itself. *)
LEMMA StatementsKeepRowInv ==
  ASSUME run \in RunRows, RowInv, RowStatement
  PROVE  RowInv'
<1> USE DEF RowInv, RunRows
<1>1. ASSUME NEW l \in Lifecycles, run' = RecordLifecycle(run, l) PROVE RowInv'
  BY <1>1 DEF RecordLifecycle
<1>2. ASSUME NEW l \in Lifecycles, ExpireUnclaimedMatches(run, l),
             run' = ExpireUnclaimed(run)
      PROVE  RowInv'
  BY <1>2
  DEF ExpireUnclaimedMatches, ExpireUnclaimed, ResultEligibleStatuses, AcceptedStatuses
<1>3. ASSUME NEW d \in Detectors, NEW o \in Observations, ResultEligibleWindow(run),
             run' = TerminateLost(run, d, o)
      PROVE  RowInv'
  <2>1. [detector |-> d, observation |-> o, lostFrom |-> run.status] \in Losses
    BY <1>3 DEF Losses, ResultEligibleWindow
  <2> QED
    BY <1>3, <2>1, NullAssumption
    DEF TerminateLost, ResultEligibleWindow, ResultEligibleStatuses, AcceptedStatuses
<1>4. ASSUME NEW e \in Executions, NEW at \in Nat, NEW installed \in BOOLEAN,
             ClaimMatches(run, e, at, installed), run' = Claim(run, e, at)
      PROVE  RowInv'
  <2>1. e # None /\ at + LivenessFor # None
    BY IdsAssumption, WindowsAssumption
  <2> QED
    BY <1>4, <2>1 DEF ClaimMatches, Claim, AcceptedStatuses
<1>5. ASSUME NEW e \in HostedExecutions, MarkExecutingMatches(run, e),
             run' = MarkExecuting(run, e)
      PROVE  RowInv'
  <2>1. e # None
    BY IdsAssumption DEF Executions
  <2> QED
    BY <1>5, <2>1
    DEF MarkExecutingMatches, MarkExecuting, ResultEligibleWindow,
        ResultEligibleStatuses, AcceptedStatuses
<1>6. ASSUME NEW s \in AcceptedStatuses, ResultEligibleWindow(run), run' = Accept(run, s)
      PROVE  RowInv'
  BY <1>6 DEF Accept, ResultEligibleWindow, ResultEligibleStatuses, AcceptedStatuses
<1>7. ASSUME NEW s \in IngressEndings, EndLiveMatches(run), run' = EndLive(run, s)
      PROVE  RowInv'
  BY <1>7
  DEF EndLive, EndLiveMatches, IngressEndings, LiveStatuses, ResultEligibleStatuses,
      AcceptedStatuses
<1>8. /\ "hosted_watchdog" \in Detectors /\ "hosted_prompt" \in Detectors
      /\ WatchdogObservations \subseteq Observations /\ "uncaught_throw" \in Observations
  BY DEF Detectors, Observations
<1> QED
  BY <1>1, <1>2, <1>3, <1>4, <1>5, <1>6, <1>7, <1>8
  DEF RowStatement, WatchdogMatches, PromptMatches, AcceptMatches

(* What a statement leaves alone: the claim deadline always, and each      *)
(* owner once it is written.                                               *)
LEMMA StatementsKeepOwners ==
  ASSUME run \in RunRows, RowInv, RowStatement
  PROVE  /\ run'.claimableUntil = run.claimableUntil
         /\ run.token # None => run'.token = run.token
         /\ run.workflowRunId # None => run'.workflowRunId = run.workflowRunId
         /\ run.hostedWorkflowRunId # None =>
              run'.hostedWorkflowRunId = run.hostedWorkflowRunId
  BY DEF RowInv, RunRows, RowStatement, RecordLifecycleMatches, RecordLifecycle,
         ExpireUnclaimed, TerminateLost, ClaimMatches, Claim, MarkExecutingMatches,
         MarkExecuting, Accept, EndLive

(* A terminal row takes no statement but a late record. *)
LEMMA StatementsLeaveTerminal ==
  ASSUME run \in RunRows, RowInv, RowStatement, run.status \in TerminalStatuses
  PROVE  run' = [run EXCEPT !.workflowRunId = run'.workflowRunId]
<1>1. PICK l \in Lifecycles : run' = RecordLifecycle(run, l)
  BY DEF RowStatement, TerminalStatuses, AcceptedStatuses, IngressEndings,
         ExpireUnclaimedMatches, WatchdogMatches, ClaimMatches, MarkExecutingMatches,
         AcceptMatches, PromptMatches, EndLiveMatches, LiveStatuses,
         ResultEligibleWindow, ResultEligibleStatuses
<1> QED BY <1>1 DEF RecordLifecycle, RunRows

(* A window is closed by its deadline, read by the caller or by the        *)
(* statement itself.                                                       *)
LEMMA StatementsAreNotEarly ==
  ASSUME run \in RunRows, RowInv, RowStatement, DeadlinesAreNotEarly, UNCHANGED now
  PROVE  DeadlinesAreNotEarly'
<1> USE DEF DeadlinesAreNotEarly, RunRows
<1>1. ASSUME NEW l \in Lifecycles, run' = RecordLifecycle(run, l)
      PROVE  DeadlinesAreNotEarly'
  BY <1>1 DEF RecordLifecycle
<1>2. ASSUME NEW l \in Lifecycles, ExpireUnclaimedMatches(run, l),
             run.claimableUntil <= now, run' = ExpireUnclaimed(run)
      PROVE  DeadlinesAreNotEarly'
  BY <1>2 DEF ExpireUnclaimedMatches, ExpireUnclaimed, RowInv
<1>3. ASSUME NEW l \in Lifecycles, NEW o \in WatchdogObservations,
             WatchdogMatches(run, l, now),
             run' = TerminateLost(run, "hosted_watchdog", o)
      PROVE  DeadlinesAreNotEarly'
  BY <1>3 DEF WatchdogMatches, DeadlineEvidence, TerminateLost
<1>4. ASSUME NEW e \in HostedExecutions,
             run' = TerminateLost(run, "hosted_prompt", "uncaught_throw")
      PROVE  DeadlinesAreNotEarly'
  BY <1>4 DEF TerminateLost
<1>5. ASSUME NEW e \in Executions, NEW at \in Nat, NEW installed \in BOOLEAN,
             ClaimMatches(run, e, at, installed), run' = Claim(run, e, at)
      PROVE  DeadlinesAreNotEarly'
  BY <1>5 DEF ClaimMatches, Claim, RowInv
<1>6. ASSUME NEW e \in HostedExecutions, run' = MarkExecuting(run, e)
      PROVE  DeadlinesAreNotEarly'
  BY <1>6 DEF MarkExecuting
<1>7. ASSUME NEW s \in AcceptedStatuses, run' = Accept(run, s)
      PROVE  DeadlinesAreNotEarly'
  BY <1>7 DEF Accept, AcceptedStatuses
<1>8. ASSUME NEW s \in IngressEndings, run' = EndLive(run, s)
      PROVE  DeadlinesAreNotEarly'
  BY <1>8 DEF EndLive, IngressEndings
<1> QED BY <1>1, <1>2, <1>3, <1>4, <1>5, <1>6, <1>7, <1>8 DEF RowStatement

-----------------------------------------------------------------------------
(* Init and every step keep the invariant. *)

LEMMA InitInv == Init => Inv
<1> SUFFICES ASSUME Init PROVE Inv
  OBVIOUS
<1>1. 0 \in 0..StepAttempts /\ 0 < StepAttempts /\ 0 \in 0..MaxClock /\ 0 \in 0..MaxFaults
  BY BoundsAssumption
<1>2. PICK p \in Placements : run = InsertRun(p, 0)
  BY DEF Init
<1>3. run \in RunRows
  <2>1. 0 + ClaimableFor \in Nat
    BY WindowsAssumption
  <2> QED BY <1>2, <2>1 DEF InsertRun, RunRows, Statuses, LiveStatuses
<1>4. dispatcher \in DispatchAttempts
  BY <1>1 DEF Init, DispatchAttempts, DispatcherPoints
<1>5. life \in [Lifecycles -> SoundBodies]
  <2>1. [NotStarted EXCEPT !.pc = "none"] = NotStarted
    BY DEF NotStarted
  <2>2. NotStarted \in SoundBodies
    BY <2>1, NotStartedSound DEF LifecyclePoints
  <2> QED BY <2>2 DEF Init
<1>6. claimant \in [Executions -> ClaimAttempts]
  BY DEF Init, ClaimAttempts, ClaimantPoints
<1>7. pass \in [HostedExecutions -> Passes]
  BY <1>1 DEF Init, Passes, PassStatuses
<1>8. TypeInv
  BY <1>1, <1>3, <1>4, <1>5, <1>6, <1>7 DEF Init, TypeInv, PassFollowsClaim
<1>9. RowInv
  BY <1>2 DEF RowInv, InsertRun, ResultEligibleStatuses, AcceptedStatuses
<1>10. DeadlineWasRead /\ Recorded
  BY <1>2 DEF Init, DeadlineWasRead, Recorded, NotStarted, InsertRun
<1>11. DeadlinesAreNotEarly
  BY <1>2 DEF DeadlinesAreNotEarly, InsertRun
<1> QED BY <1>8, <1>9, <1>10, <1>11 DEF Inv

(* What a step of the pass leaves of its pass. *)
LEMMA PassStepTypes ==
  ASSUME TypeInv, NEW e \in HostedExecutions, pass[e].inFlight,
         NEW outcome \in PassOutcomes \cup {None}, NEW answered \in BOOLEAN,
         PassStepEnds(e, outcome, answered)
  PROVE  /\ pass' \in [HostedExecutions -> Passes]
         /\ \A x \in HostedExecutions : x # e => pass'[x] = pass[x]
         /\ faults' \in 0..MaxFaults
<1> DEFINE p == pass[e]
<1>1. p \in Passes /\ p.tries < StepAttempts
  BY DEF TypeInv, Passes
<1>2. p.tries + 1 \in 0..StepAttempts
  BY <1>1, BoundsAssumption DEF Passes
<1>3. p.tries + 1 # StepAttempts => p.tries + 1 < StepAttempts
  BY <1>1, BoundsAssumption DEF Passes
<1>4. PassAfter(p, outcome, answered) \in Passes
  BY <1>1, <1>2, <1>3 DEF PassAfter, Passes, PassStatuses
<1> QED BY <1>4, LostAnswer DEF PassStepEnds, TypeInv

LEMMA TypeInvStep ==
  ASSUME TypeInv, DeadlineWasRead, [Next]_vars
  PROVE  TypeInv'
<1> USE DEF TypeInv
<1>1. run' \in RunRows
  BY StepsOfTheRow, StatementsKeepRows
<1>2. CASE Tick
  BY <1>1, <1>2, BoundsAssumption DEF Tick, PassFollowsClaim
<1>3. CASE DispatchStart
  <2>1. PICK l \in Lifecycles :
          /\ life' = [life EXCEPT ![l].pc = "boot"]
          /\ dispatcher' = [dispatcher EXCEPT !.pc = "record", !.mine = l]
    BY <1>3 DEF DispatchStart
  <2>2. [life[l] EXCEPT !.pc = "boot"] \in SoundBodies
    BY DEF SoundBodies, Body, LifecyclePoints
  <2>3. dispatcher' \in DispatchAttempts
    BY <1>3, <2>1 DEF DispatchStart, DispatchAttempts, DispatcherPoints
  <2> QED BY <1>1, <1>3, <2>1, <2>2, <2>3 DEF DispatchStart, PassFollowsClaim
<1>4. CASE DispatchRecord
  BY <1>1, <1>4 DEF DispatchRecord, DispatchAttempts, DispatcherPoints, PassFollowsClaim
<1>5. CASE DispatchArbitrate
  BY <1>1, <1>5
  DEF DispatchArbitrate, ConcludeDispatch, DispatchAttempts, DispatcherPoints, PassFollowsClaim
<1>6. CASE DispatchCancel
  <2>1. [NotStarted EXCEPT !.pc = "cancelled"] \in SoundBodies
    BY NotStartedSound DEF LifecyclePoints
  <2>2. dispatcher' \in DispatchAttempts
    BY <1>6 DEF DispatchCancel, DispatchAttempts, DispatcherPoints
  <2>3. life' \in [Lifecycles -> SoundBodies]
    BY <1>6, <2>1 DEF DispatchCancel
  <2> QED BY <1>1, <1>6, <2>2, <2>3 DEF DispatchCancel, PassFollowsClaim
<1>7. CASE DispatchAttemptLost
  <2>1. dispatcher.tries < StepAttempts
    BY <1>7 DEF DispatchAttemptLost, DispatchAttempts
  <2>2. /\ dispatcher.tries + 1 \in 0..StepAttempts
        /\ dispatcher.tries + 1 # StepAttempts => dispatcher.tries + 1 < StepAttempts
    BY <2>1, BoundsAssumption DEF DispatchAttempts
  <2>3. dispatcher' \in DispatchAttempts
    BY <1>7, <2>2 DEF DispatchAttemptLost, DispatchAttempts, DispatcherPoints
  <2>4. faults' \in 0..MaxFaults
    BY <1>7, BoundsAssumption DEF DispatchAttemptLost
  <2> QED BY <1>1, <1>7, <2>3, <2>4 DEF DispatchAttemptLost, PassFollowsClaim
<1>8. ASSUME NEW l \in Lifecycles, LifecycleStep(l) \/ LifecycleStepFails(l)
      PROVE  TypeInv'
  BY <1>1, <1>8, LifecycleMoves DEF Moves, PassesKept, PassFollowsClaim
<1>9. ASSUME NEW e \in Executions, ClaimBegin(e) PROVE TypeInv'
  <2>1. [pc |-> "claiming", at |-> now] \in ClaimAttempts
    BY BoundsAssumption DEF ClaimAttempts, ClaimantPoints
  <2>2. PassFollowsClaim'
    BY <1>9 DEF ClaimBegin, PassFollowsClaim, Executions
  <2> QED BY <1>1, <1>9, <2>1, <2>2 DEF ClaimBegin
<1>10. ASSUME NEW e \in Executions, ClaimRun(e) PROVE TypeInv'
  <2>1. \A pc \in {"granted", "not_claimed"} : [pc |-> pc, at |-> None] \in ClaimAttempts
    BY DEF ClaimAttempts, ClaimantPoints
  <2>2. claimant' \in [Executions -> ClaimAttempts]
    BY <1>10, <2>1 DEF ClaimRun
  <2>3. PassFollowsClaim'
    BY <1>10 DEF ClaimRun, PassFollowsClaim, Executions
  <2> QED BY <1>1, <1>10, <2>2, <2>3 DEF ClaimRun
<1>11. ASSUME NEW e \in HostedExecutions, StartPass(e) PROVE TypeInv'
  <2>1. e \in Executions
    BY DEF Executions
  <2>2. [claimant[e] EXCEPT !.pc = "started"] \in ClaimAttempts
    BY <2>1 DEF ClaimAttempts, ClaimantPoints
  <2>3. claimant' \in [Executions -> ClaimAttempts]
    BY <1>11, <2>2 DEF StartPass
  <2>4. pass[e].tries < StepAttempts
    BY <1>11, BoundsAssumption DEF StartPass, PassFollowsClaim
  <2>5. [pass[e] EXCEPT !.status = "running", !.inFlight = TRUE] \in Passes
    BY <2>4 DEF Passes, PassStatuses
  <2>6. pass' \in [HostedExecutions -> Passes]
    BY <1>11, <2>5 DEF StartPass
  <2>7. PassFollowsClaim'
    BY <1>11, <2>1 DEF StartPass, PassFollowsClaim, Executions
  <2> QED BY <1>1, <1>11, <2>3, <2>6, <2>7 DEF StartPass
<1>12. ASSUME NEW e \in HostedExecutions, DispatchMarkExecuting(e) PROVE TypeInv'
  <2>1. e \in Executions
    BY DEF Executions
  <2>2. \A pc \in {"dispatched", "unrecorded"} :
          [claimant[e] EXCEPT !.pc = pc] \in ClaimAttempts
    BY <2>1 DEF ClaimAttempts, ClaimantPoints
  <2>3. claimant' \in [Executions -> ClaimAttempts]
    BY <1>12, <2>2 DEF DispatchMarkExecuting
  <2>4. PassFollowsClaim'
    BY <1>12, <2>1 DEF DispatchMarkExecuting, PassFollowsClaim, Executions
  <2> QED BY <1>1, <1>12, <2>3, <2>4 DEF DispatchMarkExecuting
<1>13. ASSUME NEW e \in HostedExecutions, pass[e].inFlight,
              NEW outcome \in PassOutcomes \cup {None}, NEW answered \in BOOLEAN,
              PassStepEnds(e, outcome, answered),
              UNCHANGED <<now, dispatcher, life, claimant, notice>>
       PROVE  TypeInv'
  <2>1. /\ pass' \in [HostedExecutions -> Passes]
        /\ \A x \in HostedExecutions : x # e => pass'[x] = pass[x]
        /\ faults' \in 0..MaxFaults
    BY <1>13, PassStepTypes
  <2>2. PassFollowsClaim'
    BY <1>13, <2>1 DEF PassFollowsClaim
  <2> QED BY <1>1, <1>13, <2>1, <2>2
<1>14. ASSUME NEW e \in HostedExecutions, PassStep(e) \/ PassPortFails(e)
       PROVE  TypeInv'
  <2>1. {"accepted", "rejected", "no_result", "lost"} \subseteq PassOutcomes
    BY DEF PassOutcomes
  <2>2. ASSUME NEW answered \in BOOLEAN, NEW permitted \in BOOLEAN,
               PassSubmits(e, permitted, answered)
        PROVE  TypeInv'
    BY <1>13, <2>1, <2>2 DEF PassSubmits
  <2>3. ASSUME NEW answered \in BOOLEAN, PassThrows(e, answered) PROVE TypeInv'
    BY <1>13, <2>1, <2>3 DEF PassThrows
  <2>4. ASSUME NEW answered \in BOOLEAN, PassReturnsNoResult(e, answered)
        PROVE  TypeInv'
    BY <1>13, <2>1, <2>4 DEF PassReturnsNoResult
  <2>5. CASE PassPortFails(e)
    BY <1>13, <2>5 DEF PassPortFails
  <2> QED BY <1>14, <2>2, <2>3, <2>4, <2>5 DEF PassStep
<1>15. ASSUME NEW e \in WorkerExecutions, NEW permitted \in BOOLEAN,
              WorkerSubmits(e, permitted)
       PROVE  TypeInv'
  BY <1>1, <1>15 DEF WorkerSubmits, PassFollowsClaim
<1>16. ASSUME NEW ending \in IngressEndings, EndLiveRun(ending) PROVE TypeInv'
  BY <1>1, <1>16 DEF EndLiveRun, PassFollowsClaim
<1>17. ASSUME NEW answered \in BOOLEAN, NotifyLifecycle(answered) PROVE TypeInv'
  <2>1. ASSUME NEW l \in Lifecycles
        PROVE  [life[l] EXCEPT !.hook = "resolved"] \in SoundBodies
    BY DEF SoundBodies, Body
  <2>2. life' \in [Lifecycles -> SoundBodies]
    BY <1>17, <2>1 DEF NotifyLifecycle
  <2>3. faults' \in 0..MaxFaults
    BY <1>17, LostAnswer DEF NotifyLifecycle
  <2> QED BY <1>1, <1>17, <2>2, <2>3 DEF NotifyLifecycle, PassFollowsClaim
<1>18. CASE UNCHANGED vars
  BY <1>18 DEF vars, PassFollowsClaim
<1> QED
  BY <1>2, <1>3, <1>4, <1>5, <1>6, <1>7, <1>8, <1>9, <1>10, <1>11, <1>12, <1>14,
     <1>15, <1>16, <1>17, <1>18
  DEF Next, Dispatch

(* Every step other than the dispatcher's own moves one lifecycle, which   *)
(* records at most itself, or wakes one, or leaves them all alone.         *)
Wakes ==
  /\ UNCHANGED dispatcher
  /\ run'.workflowRunId = run.workflowRunId
  /\ \/ UNCHANGED life
     \/ \E l \in Lifecycles : life' = [life EXCEPT ![l].hook = "resolved"]

LEMMA OtherSteps ==
  ASSUME TypeInv, [Next]_vars, ~Dispatch, ~DispatchAttemptLost
  PROVE  \/ \E l \in Lifecycles :
              Moves(l) /\ run'.workflowRunId \in {run.workflowRunId, l}
         \/ Wakes
<1>0. run \in RunRows
  BY DEF TypeInv
<1>1. ASSUME NEW l \in Lifecycles, LifecycleStep(l) \/ LifecycleStepFails(l)
      PROVE  Moves(l) /\ run'.workflowRunId \in {run.workflowRunId, l}
  <2>1. ASSUME NEW answered \in BOOLEAN,
               \/ RecordSelf(l, answered)
               \/ CloseUnclaimedWindow(l, answered)
               \/ CloseExecutionWindow(l, answered)
        PROVE  run'.workflowRunId \in {run.workflowRunId, l}
    BY <1>0, <2>1
    DEF RunRows, RecordSelf, CloseUnclaimedWindow, CloseExecutionWindow,
        RecordLifecycle, ExpireUnclaimed, TerminateLost
  <2> QED
    BY <1>1, <2>1, LifecycleMoves
    DEF LifecycleStep, LifecycleStepFails, LifecycleBoot, ReadRun, WakeAtDeadline,
        WakeNotified, WakeFromGrace, WakeFromLostRace, CancelPass, ReadPassDisposition
<1>2. ASSUME NEW answered \in BOOLEAN, NotifyLifecycle(answered) PROVE Wakes
  BY <1>0, <1>2 DEF NotifyLifecycle, RunRows, Wakes
<1>3. ASSUME NEW e \in HostedExecutions,
             StartPass(e) \/ DispatchMarkExecuting(e) \/ PassPortFails(e)
      PROVE  Wakes
  BY <1>0, <1>3
  DEF StartPass, DispatchMarkExecuting, PassPortFails, MarkExecuting, RunRows, Wakes
<1>4. ASSUME NEW e \in HostedExecutions, PassStep(e) PROVE Wakes
  BY <1>0, <1>4
  DEF PassStep, PassSubmits, PassThrows, PassReturnsNoResult, Accept, TerminateLost,
      RunRows, Wakes
<1>5. ASSUME NEW e \in Executions, ClaimBegin(e) \/ ClaimRun(e) PROVE Wakes
  BY <1>0, <1>5 DEF ClaimBegin, ClaimRun, Claim, RunRows, Wakes
<1>6. ASSUME NEW e \in WorkerExecutions, NEW permitted \in BOOLEAN,
             WorkerSubmits(e, permitted)
      PROVE  Wakes
  BY <1>0, <1>6 DEF WorkerSubmits, Accept, RunRows, Wakes
<1>7. ASSUME NEW ending \in IngressEndings, EndLiveRun(ending) PROVE Wakes
  BY <1>0, <1>7 DEF EndLiveRun, EndLive, RunRows, Wakes
<1>8. CASE Tick \/ UNCHANGED vars
  BY <1>8 DEF Tick, vars, Wakes
<1> QED BY <1>1, <1>2, <1>3, <1>4, <1>5, <1>6, <1>7, <1>8 DEF Next

LEMMA RecordedStep ==
  ASSUME TypeInv, RowInv, DeadlineWasRead, Recorded, [Next]_vars
  PROVE  Recorded'
<1> USE DEF TypeInv, Recorded
<1>1. /\ run \in RunRows /\ run.workflowRunId \in Lifecycles \cup {None}
      /\ None \notin Lifecycles
  BY IdsAssumption DEF RunRows
<1>2. run.workflowRunId # None => run'.workflowRunId = run.workflowRunId
  BY <1>1, StepsOfTheRow, StatementsKeepOwners
<1>3. CASE DispatchStart
  BY <1>1, <1>3 DEF DispatchStart, SoundBodies, Body, DispatchAttempts
<1>4. CASE DispatchRecord
  <2>1. /\ dispatcher.mine \in Lifecycles
        /\ dispatcher'.mine = dispatcher.mine
        /\ dispatcher'.pc \in {"done", "arbitrate"}
        /\ UNCHANGED life
    BY <1>4 DEF DispatchRecord, DispatchAttempts
  <2>2. CASE RecordLifecycleMatches(run)
    <3>1. run.workflowRunId = None /\ dispatcher'.pc = "done"
      BY <1>4, <2>2 DEF DispatchRecord, RecordLifecycleMatches, DispatchAttempts
    <3>2. run'.workflowRunId = dispatcher.mine
      BY <1>1, <1>4, <2>2 DEF DispatchRecord, RecordLifecycle, RunRows
    <3>3. life[dispatcher.mine].pc \notin {"none", "cancelled"}
      BY <1>4, <2>1, <3>1 DEF DispatchRecord
    <3> QED BY <1>1, <2>1, <3>1, <3>2, <3>3
  <2>3. CASE ~RecordLifecycleMatches(run)
    BY <1>1, <1>2, <1>4, <2>1, <2>3 DEF DispatchRecord, RecordLifecycleMatches
  <2> QED BY <2>2, <2>3
<1>5. CASE DispatchArbitrate
  BY <1>1, <1>5 DEF DispatchArbitrate, ConcludeDispatch, DispatchAttempts
<1>6. CASE DispatchCancel
  <2>1. /\ dispatcher.mine \in Lifecycles
        /\ dispatcher'.pc = "done"
        /\ UNCHANGED run
        /\ run.workflowRunId \notin {None, dispatcher.mine}
    BY <1>6 DEF DispatchCancel, DispatchAttempts
  <2>2. /\ \A l \in Lifecycles : l # dispatcher.mine => life'[l] = life[l]
    BY <1>6, <2>1 DEF DispatchCancel
  <2> QED BY <1>1, <2>1, <2>2
<1>7. CASE DispatchAttemptLost
  BY <1>1, <1>7 DEF DispatchAttemptLost
<1>8. ASSUME NEW l \in Lifecycles, Moves(l),
             run'.workflowRunId \in {run.workflowRunId, l}
      PROVE  Recorded'
  <2>1. PICK b \in SoundBodies :
          life' = [life EXCEPT ![l] = b] /\ b.pc \notin {"none", "cancelled"}
    BY <1>8 DEF Moves
  <2>2. UNCHANGED dispatcher /\ life[l].pc \notin {"none", "cancelled"}
    BY <1>8 DEF Moves
  <2>3. \A m \in Lifecycles :
          /\ life'[m].pc = "none" <=> life[m].pc = "none"
          /\ life'[m].pc = "cancelled" <=> life[m].pc = "cancelled"
    BY <2>1, <2>2
  <2> QED BY <1>1, <1>2, <1>8, <2>2, <2>3 DEF DispatchAttempts
<1>9. CASE Wakes
  <2>1. \A m \in Lifecycles : life'[m].pc = life[m].pc
    BY <1>9 DEF Wakes, SoundBodies, Body
  <2> QED BY <1>1, <1>9, <2>1 DEF Wakes, DispatchAttempts
<1> QED
  BY <1>3, <1>4, <1>5, <1>6, <1>7, <1>8, <1>9, OtherSteps DEF Dispatch

LEMMA DeadlineWasReadStep ==
  ASSUME TypeInv, RowInv, DeadlineWasRead, [Next]_vars
  PROVE  DeadlineWasRead'
<1> USE DEF TypeInv, DeadlineWasRead
<1>1. run'.claimableUntil = run.claimableUntil /\ now' \in {now, now + 1}
  BY StepsOfTheRow, StatementsKeepOwners
<1>2. run.claimableUntil \in Nat /\ now \in Nat
  BY BoundsAssumption DEF RunRows
<1>3. run.claimableUntil <= now => run'.claimableUntil <= now'
  BY <1>1, <1>2
<1>4. CASE DispatchStart
  BY <1>3, <1>4 DEF DispatchStart, SoundBodies, Body
<1>5. CASE DispatchCancel
  BY <1>3, <1>5 DEF DispatchCancel, NotStarted, DispatchAttempts
<1>6. CASE DispatchRecord \/ DispatchArbitrate \/ DispatchAttemptLost
  BY <1>3, <1>6 DEF DispatchRecord, DispatchArbitrate, DispatchAttemptLost
<1>7. ASSUME NEW l \in Lifecycles, Moves(l) PROVE DeadlineWasRead'
  BY <1>3, <1>7 DEF Moves
<1>8. CASE Wakes
  BY <1>3, <1>8 DEF Wakes, SoundBodies, Body
<1> QED BY <1>4, <1>5, <1>6, <1>7, <1>8, OtherSteps DEF Dispatch

LEMMA InvStep == Inv /\ [Next]_vars => Inv'
<1> SUFFICES ASSUME Inv, [Next]_vars PROVE Inv'
  OBVIOUS
<1> USE DEF Inv
<1>1. TypeInv' /\ DeadlineWasRead' /\ Recorded'
  BY TypeInvStep, DeadlineWasReadStep, RecordedStep
<1>2. run \in RunRows /\ now \in Nat
  BY BoundsAssumption DEF TypeInv
<1>3. CASE UNCHANGED now /\ RowStatement
  BY <1>1, <1>2, <1>3, StatementsKeepRowInv, StatementsAreNotEarly
<1>4. CASE UNCHANGED run /\ now' \in {now, now + 1}
  <2>1. RowInv'
    BY <1>4 DEF RowInv
  <2>2. DeadlinesAreNotEarly'
    <3>1. \A t \in Nat : now >= t => now' >= t
      BY <1>2, <1>4
    <3>2. run.executionExpiresAt \in Nat \cup {None} /\ run.claimableUntil \in Nat
      BY <1>2 DEF RunRows
    <3>3. run.status = "failed" => run.executionExpiresAt \in Nat
      BY <3>2 DEF RowInv
    <3> QED BY <1>4, <3>1, <3>2, <3>3 DEF DeadlinesAreNotEarly, RowInv
  <2> QED BY <1>1, <2>1, <2>2
<1> QED BY <1>1, <1>3, <1>4, StepsOfTheRow

-----------------------------------------------------------------------------
(* The theorems. *)

(* The invariant holds of every behaviour of the processes. *)
THEOREM Invariance == Spec => []Inv
<1>1. Init => Inv
  BY InitInv
<1>2. Inv /\ [Next]_vars => Inv'
  BY InvStep
<1> QED BY <1>1, <1>2, PTL DEF Spec

(* Every value of the row, the lifecycles, the claims and the passes has   *)
(* its type: no step is ever attempted more often than the platform        *)
(* allows, and no loss is recorded from a status outside the window.       *)
THEOREM TypeCorrect == Spec => []TypeOK
<1>1. Inv => TypeOK
  BY TypeInvImpliesTypeOK DEF Inv
<1> QED BY <1>1, Invariance, PTL

(* expireUnclaimed and claimRun: `unscheduled` means never claimed, and    *)
(* every status past the claim window has an execution and its deadline.   *)
THEOREM UnscheduledIsNeverClaimed == Spec => []UnscheduledMeansNeverClaimed
<1>1. Inv => UnscheduledMeansNeverClaimed
  BY DEF Inv, RowInv, UnscheduledMeansNeverClaimed
<1> QED BY <1>1, Invariance, PTL

(* terminateLostExecution and markExecuting: the loss detail names the     *)
(* side of the window the Run left, and a recorded pass is its holder's.   *)
THEOREM LossesNameTheirSide == Spec => []LossNamesItsSide
<1>1. Inv => LossNamesItsSide
  BY DEF Inv, RowInv, LossNamesItsSide
<1> QED BY <1>1, Invariance, PTL

(* expireUnclaimed carries no clock, and still no window of any Run is     *)
(* closed before its deadline.                                             *)
THEOREM NoWindowClosesEarly == Spec => []DeadlinesAreNotEarly
<1>1. Inv => DeadlinesAreNotEarly
  BY DEF Inv
<1> QED BY <1>1, Invariance, PTL

(* concludeDispatch never cancels the lifecycle the Run names, whoever     *)
(* recorded it and however often the dispatch step was run.                *)
THEOREM RecordedIsKept == Spec => []RecordedLifecycleIsKept
<1>1. Inv => RecordedLifecycleIsKept
  BY DEF Inv, TypeInv, RunRows, Recorded, RecordedLifecycleIsKept
<1> QED BY <1>1, Invariance, PTL

(* No statement rewrites a terminal Run: at most a late record names its   *)
(* lifecycle.                                                              *)
THEOREM TerminalIsFinalAlways == Spec => TerminalIsFinal
<1>1. Inv /\ [Next]_vars =>
        [run.status \in TerminalStatuses =>
           run' = [run EXCEPT !.workflowRunId = run'.workflowRunId]]_vars
  <2> SUFFICES ASSUME Inv, [Next]_vars, run.status \in TerminalStatuses
               PROVE  run' = [run EXCEPT !.workflowRunId = run'.workflowRunId]
    OBVIOUS
  <2>1. CASE RowStatement
    BY <2>1, StatementsLeaveTerminal DEF Inv, TypeInv
  <2>2. CASE UNCHANGED run
    BY <2>2 DEF Inv, TypeInv, RunRows
  <2> QED BY <2>1, <2>2, StepsOfTheRow DEF Inv
<1> QED BY <1>1, Invariance, PTL DEF Spec, TerminalIsFinal

(* The token, the lifecycle and the pass of a Run are each written once.   *)
THEOREM OwnersAreFinal == Spec => OwnersAreWrittenOnce
<1>1. Inv /\ [Next]_vars =>
        [/\ run.token # None => run'.token = run.token
         /\ run.workflowRunId # None => run'.workflowRunId = run.workflowRunId
         /\ run.hostedWorkflowRunId # None =>
              run'.hostedWorkflowRunId = run.hostedWorkflowRunId]_vars
  BY StepsOfTheRow, StatementsKeepOwners DEF Inv, TypeInv
<1> QED BY <1>1, Invariance, PTL DEF Spec, OwnersAreWrittenOnce

-----------------------------------------------------------------------------
(* Refinement. *)

(* Each statement over the row is one action of the contract. *)
LEMMA StatementsFollowContract ==
  ASSUME run \in RunRows, now \in Nat, RowInv, RowInv', RowStatement, UNCHANGED now
  PROVE  Contract!ContractNext
<1> USE DEF RunRows
<1>1. ASSUME NEW l \in Lifecycles, RecordLifecycleMatches(run),
             run' = RecordLifecycle(run, l)
      PROVE  Contract!Schedule
  BY <1>1 DEF RecordLifecycleMatches, RecordLifecycle, Contract!Schedule
<1>2. ASSUME NEW l \in Lifecycles, ExpireUnclaimedMatches(run, l),
             run.claimableUntil <= now, run' = ExpireUnclaimed(run)
      PROVE  Contract!Lapse
  BY <1>2, IdsAssumption
  DEF ExpireUnclaimedMatches, ExpireUnclaimed, RowInv, Contract!Lapse, Contract!Overdue
<1>3. ASSUME NEW l \in Lifecycles, NEW o \in WatchdogObservations,
             WatchdogMatches(run, l, now),
             run' = TerminateLost(run, "hosted_watchdog", o)
      PROVE  Contract!Lose
  <2>1. run'.failure # None /\ run'.failure.detector = "hosted_watchdog"
    BY <1>3 DEF TerminateLost, RowInv
  <2>2. run.token # None /\ run.workflowRunId # None
    BY <1>3, IdsAssumption DEF WatchdogMatches, DeadlineEvidence, RowInv
  <2> QED
    BY <1>3, <2>1, <2>2
    DEF WatchdogMatches, DeadlineEvidence, TerminateLost, ResultEligibleWindow,
        ResultEligibleStatuses, Contract!Lose, Contract!Overdue, Contract!Granted
<1>4. ASSUME NEW e \in HostedExecutions, PromptMatches(run, e),
             run' = TerminateLost(run, "hosted_prompt", "uncaught_throw")
      PROVE  Contract!Lose
  <2>1. run'.failure # None /\ run'.failure.detector = "hosted_prompt"
    BY <1>4 DEF TerminateLost, RowInv
  <2> QED
    BY <1>4, <2>1
    DEF PromptMatches, TerminateLost, ResultEligibleWindow, ResultEligibleStatuses,
        Contract!Lose, Contract!Granted
<1>5. ASSUME NEW e \in Executions, NEW at \in Nat, NEW installed \in BOOLEAN,
             ClaimMatches(run, e, at, installed), run' = Claim(run, e, at)
      PROVE  Contract!Grant
  <2>1. /\ at + LivenessFor \in Nat
        /\ at + LivenessFor < run.claimableUntil + LivenessFor
    BY <1>5, WindowsAssumption DEF ClaimMatches
  <2>2. run.token = None /\ e # None
    BY <1>5, IdsAssumption DEF ClaimMatches, RowInv
  <2>3. /\ run'.status = "claimed" /\ run'.token = e
        /\ run'.executionExpiresAt = at + LivenessFor
        /\ run'.workflowRunId = run.workflowRunId
        /\ run'.failure = run.failure
    BY <1>5 DEF Claim
  <2> QED BY <1>5, <2>1, <2>2, <2>3 DEF ClaimMatches, Contract!Grant
<1>6. ASSUME NEW e \in HostedExecutions, MarkExecutingMatches(run, e),
             run' = MarkExecuting(run, e)
      PROVE  Contract!Begin
  BY <1>6 DEF MarkExecutingMatches, MarkExecuting, Contract!Begin
<1>7. ASSUME NEW s \in AcceptedStatuses, ResultEligibleWindow(run), run' = Accept(run, s)
      PROVE  Contract!Accept
  BY <1>7
  DEF Accept, AcceptedStatuses, ResultEligibleWindow, ResultEligibleStatuses,
      Contract!Accept, Contract!Granted
<1>8. ASSUME NEW s \in IngressEndings, EndLiveMatches(run), run' = EndLive(run, s)
      PROVE  Contract!Withdraw
  BY <1>8
  DEF EndLive, EndLiveMatches, LiveStatuses, IngressEndings, Contract!Withdraw,
      Contract!Granted
<1> QED
  BY <1>1, <1>2, <1>3, <1>4, <1>5, <1>6, <1>7, <1>8
  DEF RowStatement, AcceptMatches, Contract!ContractNext

(* Whatever the processes do, the row does what RunContract allows: one    *)
(* grant, timed inside the claim window; one end; a deadline acts only     *)
(* through a recorded lifecycle and only once it has passed.               *)
THEOREM RowImplementsContract == Spec => ImplementsContract
<1>1. Init => Contract!ContractInit
  BY WindowsAssumption DEF Init, InsertRun, Contract!ContractInit
<1>2. Inv /\ Inv' /\ [Next]_vars => [Contract!ContractNext]_(Contract!contractVars)
  <2> SUFFICES ASSUME Inv, Inv', [Next]_vars
               PROVE  Contract!ContractNext \/ UNCHANGED Contract!contractVars
    OBVIOUS
  <2>1. run \in RunRows /\ now \in Nat
    BY BoundsAssumption DEF Inv, TypeInv
  <2>2. CASE now' = now + 1 /\ UNCHANGED run
    BY <2>2 DEF Contract!ContractNext, Contract!Elapse
  <2>3. CASE UNCHANGED now /\ RowStatement
    BY <2>1, <2>3, StatementsFollowContract DEF Inv
  <2>4. CASE UNCHANGED <<now, run>>
    BY <2>4 DEF Contract!contractVars
  <2> QED BY <2>2, <2>3, <2>4, StepsOfTheRow DEF Inv
<1> QED
  BY <1>1, <1>2, Invariance, PTL
  DEF Spec, ImplementsContract, Contract!ContractSpec

-----------------------------------------------------------------------------
(***************************************************************************)
(* What the processes of RunLifecycle report is true of the row, for every *)
(* number of them: what a lifecycle returned, which pass it cancelled, and *)
(* what a pass concluded.                                                  *)
(*                                                                         *)
(* A report is made in one step and must stay true for ever, while other   *)
(* processes go on writing.  It does because it is about columns that are  *)
(* written once, or about a terminal row (RowStaysTrue); what is left to   *)
(* prove is that it was true when it was made, which rests on what the     *)
(* process carried there: the pass id of its last read, its token.         *)
(***************************************************************************)

(* The invariant. *)

(* The watchdog has ended the Run of row r. *)
Watchdogged(r) ==
  r.status = "failed" /\ r.failure # None /\ r.failure.detector = "hosted_watchdog"

(* Outcome o of lifecycle l is true of row r. *)
TrueOf(l, o, r) ==
  /\ o.kind # "claimed"
  /\ o.kind = "unscheduled" => r.status = "unscheduled" /\ r.workflowRunId = l
  /\ o.kind = "worker_lost" =>
       /\ r.status = "failed" /\ r.workflowRunId = l
       /\ r.failure = [detector |-> "hosted_watchdog", observation |-> o.observation,
                       lostFrom |-> o.lostFrom]
  /\ o.kind = "ended" => r.status \in TerminalStatuses
  /\ o.kind = "orphaned" => r.workflowRunId \notin {None, l}

(* Body b of lifecycle l tells the truth about row r, in what it returned, *)
(* in the pass it carries, and in being about to cancel it.                *)
Truthful(l, b, r) ==
  /\ b.outcome # None => TrueOf(l, b.outcome, r)
  /\ b.snapPass # None => r.hostedWorkflowRunId = b.snapPass
  /\ b.pc = "cancel_pass" => b.snapPass # None /\ Watchdogged(r)

LivesAreTruthful == \A l \in Lifecycles : Truthful(l, life[l], run)

CancelledPasses ==
  \A e \in HostedExecutions :
    pass[e].status = "cancelled" => Watchdogged(run) /\ run.hostedWorkflowRunId = e

(* Who was granted the Run holds it: the token is never taken back. *)
GrantsHold ==
  /\ \A e \in Executions :
       claimant[e].pc \in {"granted", "started"} => run.token = e
  /\ \A e \in HostedExecutions : pass[e].inFlight => run.token = e

TruthInv ==
  /\ Inv
  /\ LivesAreTruthful
  /\ CancelledPasses
  /\ GrantsHold
  /\ PassConclusionsAreTrue

-----------------------------------------------------------------------------
(* What is true of the row stays true. *)

LEMMA RowStaysTrue ==
  ASSUME Inv, [Next]_vars
  PROVE  /\ run \in RunRows /\ run' \in RunRows
         /\ run.token # None => run'.token = run.token
         /\ run.workflowRunId # None => run'.workflowRunId = run.workflowRunId
         /\ run.hostedWorkflowRunId # None =>
              run'.hostedWorkflowRunId = run.hostedWorkflowRunId
         /\ run.status \in TerminalStatuses =>
              /\ run'.status = run.status
              /\ run'.failure = run.failure
              /\ run'.accepted = run.accepted
<1>1. run \in RunRows
  BY DEF Inv, TypeInv
<1>2. CASE RowStatement
  <2>1. run' \in RunRows
    BY <1>1, <1>2, StatementsKeepRows
  <2>2. run.status \in TerminalStatuses =>
          run' = [run EXCEPT !.workflowRunId = run'.workflowRunId]
    BY <1>1, <1>2, StatementsLeaveTerminal DEF Inv
  <2>3. run.status \in TerminalStatuses =>
          /\ run'.status = run.status
          /\ run'.failure = run.failure
          /\ run'.accepted = run.accepted
    BY <1>1, <2>2 DEF RunRows
  <2> QED BY <1>1, <1>2, <2>1, <2>3, StatementsKeepOwners DEF Inv
<1>3. CASE UNCHANGED run
  BY <1>1, <1>3
<1> QED BY <1>2, <1>3, StepsOfTheRow DEF Inv

LEMMA TruthStays ==
  ASSUME Inv, [Next]_vars, NEW l \in Lifecycles, NEW b \in Body, Truthful(l, b, run)
  PROVE  Truthful(l, b, run')
<1>1. ASSUME b.outcome # None PROVE TrueOf(l, b.outcome, run')
  BY <1>1, RowStaysTrue, IdsAssumption
  DEF Truthful, TrueOf, TerminalStatuses, RunRows
<1>2. Watchdogged(run) => Watchdogged(run')
  BY RowStaysTrue DEF Watchdogged, TerminalStatuses
<1> QED BY <1>1, <1>2, RowStaysTrue DEF Truthful

(* The operators the loop is built from keep a body truthful. *)
LEMMA ProceedTruthful ==
  ASSUME NEW l \in Lifecycles, NEW b \in Body, NEW r, Truthful(l, b, r),
         NEW pc \in LifecyclePoints \ {"cancel_pass"}
  PROVE  Truthful(l, Proceed(b, pc), r)
  BY DEF Truthful, Proceed, Body

LEMMA RetriedTruthful ==
  ASSUME NEW l \in Lifecycles, NEW b \in Body, NEW r, Truthful(l, b, r)
  PROVE  Truthful(l, Retried(b), r)
  BY DEF Truthful, Retried, NotStarted, Body

LEMMA ReturnTruthful ==
  ASSUME NEW l \in Lifecycles, NEW o, NEW r, o # None => TrueOf(l, o, r)
  PROVE  Truthful(l, Return(o), r)
  BY DEF Truthful, Return, NotStarted

(* A wake never meets a claimed Run without a deadline, and what it        *)
(* returns or carries on is true of the row it read.                       *)
LEMMA WakeTruthful ==
  ASSUME NEW l \in Lifecycles, NEW b \in Body, Truthful(l, b, run), b.snapPass = None,
         run \in RunRows, RowInv
  PROVE  Truthful(l, Wake(l, b, run, now), run)
<1>1. CASE run.workflowRunId \notin {None, l}
  <2>1. TrueOf(l, Returned("orphaned"), run)
    BY <1>1 DEF TrueOf, Returned
  <2>2. Wake(l, b, run, now) = Return(Returned("orphaned"))
    BY <1>1 DEF Wake
  <2> QED BY <2>1, <2>2, ReturnTruthful
<1>2. CASE run.workflowRunId \in {None, l} /\ run.status \notin LiveStatuses
  <2>1. TrueOf(l, Returned("ended"), run)
    BY <1>2 DEF TrueOf, Returned, RunRows, Statuses
  <2>2. Wake(l, b, run, now) = Return(Returned("ended"))
    BY <1>2 DEF Wake
  <2> QED BY <2>1, <2>2, ReturnTruthful
<1>3. CASE run.workflowRunId \in {None, l} /\ run.status \in LiveStatuses
  <2>1. ActiveWindow(run) # None
    BY <1>3, IdsAssumption
    DEF ActiveWindow, RowInv, RunRows, LiveStatuses, ResultEligibleStatuses
  <2>2. Wake(l, b, run, now) =
          IF ~WindowPassed(run, now)
          THEN [Proceed(b, "sleep") EXCEPT !.until = ActiveWindow(run)]
          ELSE IF run.workflowRunId = None THEN Unrecorded(b) ELSE CloseWindow(b, run)
    BY <1>3, <2>1 DEF Wake
  <2>3. Truthful(l, [Proceed(b, "sleep") EXCEPT !.until = ActiveWindow(run)], run)
    BY DEF Truthful, Proceed, Body
  <2>4. Truthful(l, Unrecorded(b), run)
    BY DEF Truthful, Unrecorded, Proceed, Body
  <2>5. Truthful(l, CloseWindow(b, run), run)
    <3>1. CASE run.status = "queued"
      <4>1. CloseWindow(b, run) = Proceed(b, "close_unclaimed")
        BY <3>1 DEF CloseWindow
      <4> QED BY <4>1, ProceedTruthful DEF LifecyclePoints, LifecycleSteps
    <3>2. CASE run.status # "queued" /\ run.hostedWorkflowRunId = None
      <4>1. CloseWindow(b, run) =
              [Proceed(b, "close_execution") EXCEPT !.seen = "deadline_elapsed"]
        BY <3>2 DEF CloseWindow
      <4> QED BY <4>1 DEF Truthful, Proceed, Body
    <3>3. CASE run.status # "queued" /\ run.hostedWorkflowRunId # None
      <4>1. CloseWindow(b, run) =
              [Proceed(b, "read_pass") EXCEPT !.snapPass = run.hostedWorkflowRunId]
        BY <3>3 DEF CloseWindow
      <4> QED BY <4>1 DEF Truthful, Proceed, Body
    <3> QED BY <3>1, <3>2, <3>3
  <2> QED BY <2>2, <2>3, <2>4, <2>5
<1> QED BY <1>1, <1>2, <1>3

-----------------------------------------------------------------------------
(* The steps. *)

(* A body that moves without touching what it tells stays truthful. *)
LEMMA SilentTruthful ==
  ASSUME NEW l \in Lifecycles, NEW b, NEW c, NEW r, Truthful(l, b, r),
         c.outcome = b.outcome, c.snapPass = b.snapPass,
         c.pc = "cancel_pass" => b.pc = "cancel_pass"
  PROVE  Truthful(l, c, r)
  BY DEF Truthful

(* One step of lifecycle l leaves it truthful, and the others alone. *)
LEMMA LifecycleTruth ==
  ASSUME Inv, LivesAreTruthful, [Next]_vars, NEW l \in Lifecycles,
         LifecycleStep(l) \/ LifecycleStepFails(l)
  PROVE  /\ \A m \in Lifecycles : m # l => life'[m] = life[m]
         /\ Truthful(l, life'[l], run')
<1> DEFINE b == life[l]
<1>1. /\ life \in [Lifecycles -> SoundBodies] /\ b \in SoundBodies /\ b \in Body
      /\ run \in RunRows
  BY DEF Inv, TypeInv, SoundBodies
<1>2. Truthful(l, b, run) /\ Truthful(l, b, run')
  BY <1>1, TruthStays DEF LivesAreTruthful
<1>3. ASSUME NEW c, life' = [life EXCEPT ![l] = c], Truthful(l, c, run')
      PROVE  /\ \A m \in Lifecycles : m # l => life'[m] = life[m]
             /\ Truthful(l, life'[l], run')
  BY <1>1, <1>3
<1>4. CASE \/ LifecycleBoot(l) \/ WakeAtDeadline(l) \/ WakeNotified(l)
           \/ WakeFromGrace(l) \/ WakeFromLostRace(l)
  <2>1. /\ life'[l].outcome = b.outcome /\ life'[l].snapPass = b.snapPass
        /\ life'[l].pc # "cancel_pass"
        /\ \A m \in Lifecycles : m # l => life'[m] = life[m]
    BY <1>1, <1>4
    DEF LifecycleBoot, WakeAtDeadline, WakeNotified, WakeFromGrace, WakeFromLostRace, Body
  <2> QED BY <1>2, <2>1, SilentTruthful
<1>5. CASE ReadRun(l)
  <2> DEFINE c == [b EXCEPT !.snapPass = None, !.seen = None]
  <2>1. c \in Body /\ c.snapPass = None /\ Truthful(l, c, run)
    BY <1>1, <1>2, <1>5 DEF ReadRun, Truthful, Body
  <2>2. life' = [life EXCEPT ![l] = Wake(l, c, run, now)] /\ run' = run
    BY <1>5 DEF ReadRun
  <2>3. Truthful(l, Wake(l, c, run, now), run')
    BY <1>1, <2>1, <2>2, WakeTruthful DEF Inv
  <2> QED BY <1>3, <2>2, <2>3
<1>6. ASSUME NEW answered \in BOOLEAN, RecordSelf(l, answered)
      PROVE  \E c : life' = [life EXCEPT ![l] = c] /\ Truthful(l, c, run')
  <2> DEFINE won == RecordLifecycleMatches(run)
  <2>1. CASE ~answered
    BY <1>1, <1>2, <1>6, <2>1, RetriedTruthful DEF RecordSelf
  <2>2. CASE answered
    <3> DEFINE pc == IF won THEN "read" ELSE "lost_race"
    <3>1. pc \in LifecyclePoints \ {"cancel_pass"}
      BY DEF LifecyclePoints, LifecycleSteps
    <3>2. life' = [life EXCEPT ![l] = Proceed(b, pc)]
      BY <1>6, <2>2 DEF RecordSelf
    <3>3. Truthful(l, Proceed(b, pc), run')
      BY <1>1, <1>2, <3>1, ProceedTruthful
    <3> QED BY <3>2, <3>3
  <2> QED BY <2>1, <2>2
<1>7. ASSUME NEW answered \in BOOLEAN, CloseUnclaimedWindow(l, answered)
      PROVE  \E c : life' = [life EXCEPT ![l] = c] /\ Truthful(l, c, run')
  <2> DEFINE won == ExpireUnclaimedMatches(run, l)
  <2>1. CASE ~answered
    BY <1>1, <1>2, <1>7, <2>1, RetriedTruthful DEF CloseUnclaimedWindow
  <2>2. CASE answered /\ won
    <3>1. TrueOf(l, Returned("unscheduled"), run')
      BY <1>1, <1>7, <2>2
      DEF CloseUnclaimedWindow, ExpireUnclaimedMatches, ExpireUnclaimed, RunRows,
          TrueOf, Returned
    <3>2. life' = [life EXCEPT ![l] = Return(Returned("unscheduled"))]
      BY <1>7, <2>2 DEF CloseUnclaimedWindow
    <3> QED BY <3>1, <3>2, ReturnTruthful
  <2>3. CASE answered /\ ~won
    <3>1. "lost_race" \in LifecyclePoints \ {"cancel_pass"}
      BY DEF LifecyclePoints
    <3>2. life' = [life EXCEPT ![l] = Proceed(b, "lost_race")]
      BY <1>7, <2>3 DEF CloseUnclaimedWindow
    <3> QED BY <1>1, <1>2, <3>1, <3>2, ProceedTruthful
  <2> QED BY <2>1, <2>2, <2>3
<1>8. ASSUME NEW answered \in BOOLEAN, CloseExecutionWindow(l, answered)
      PROVE  \E c : life' = [life EXCEPT ![l] = c] /\ Truthful(l, c, run')
  <2> DEFINE won == WatchdogMatches(run, l, now)
             o == LostOutcome(b, run.status)
  <2>1. CASE ~answered
    BY <1>1, <1>2, <1>8, <2>1, RetriedTruthful DEF CloseExecutionWindow
  <2>2. CASE answered /\ won
    <3>1. life' = [life EXCEPT ![l] = AfterClosing(b, TRUE, run.status)]
      BY <1>8, <2>2 DEF CloseExecutionWindow
    <3>2. run' = TerminateLost(run, "hosted_watchdog", b.seen)
      BY <1>8, <2>2 DEF CloseExecutionWindow
    <3>3. /\ b.seen \in WatchdogObservations /\ run.status \in ResultEligibleStatuses
          /\ run.workflowRunId = l
      BY <1>1, <1>8, <2>2
      DEF CloseExecutionWindow, SoundBodies, WatchdogMatches, ResultEligibleWindow,
          DeadlineEvidence
    <3>4. run'.failure # None
      <4>1. [detector |-> "hosted_watchdog", observation |-> b.seen,
             lostFrom |-> run.status] \in Losses
        BY <3>3 DEF Losses, Detectors, Observations
      <4> QED BY <1>1, <3>2, <4>1, NullAssumption DEF TerminateLost, RunRows
    <3>5. TrueOf(l, o, run') /\ Watchdogged(run')
      BY <1>1, <3>2, <3>3, <3>4
      DEF TrueOf, LostOutcome, TerminateLost, RunRows, Watchdogged
    <3>6. CASE b.snapPass = None
      BY <3>1, <3>5, <3>6, ReturnTruthful DEF AfterClosing
    <3>7. CASE b.snapPass # None
      <4> DEFINE c == [Proceed(b, "cancel_pass") EXCEPT !.outcome = o]
      <4>1. c.outcome = o /\ c.snapPass = b.snapPass
        BY <1>1 DEF Proceed, Body
      <4>2. Truthful(l, c, run')
        BY <1>2, <3>5, <3>7, <4>1 DEF Truthful
      <4> QED BY <3>1, <3>7, <4>2 DEF AfterClosing
    <3> QED BY <3>6, <3>7
  <2>3. CASE answered /\ ~won
    <3>1. "lost_race" \in LifecyclePoints \ {"cancel_pass"}
      BY DEF LifecyclePoints
    <3>2. life' = [life EXCEPT ![l] = Proceed(b, "lost_race")]
      BY <1>8, <2>3 DEF CloseExecutionWindow, AfterClosing
    <3> QED BY <1>1, <1>2, <3>1, <3>2, ProceedTruthful
  <2> QED BY <2>1, <2>2, <2>3
<1>9. ASSUME NEW answered \in BOOLEAN, CancelPass(l, answered)
      PROVE  \E c : life' = [life EXCEPT ![l] = c] /\ Truthful(l, c, run')
  <2>1. life' = [life EXCEPT ![l] = Return(b.outcome)]
    BY <1>9 DEF CancelPass
  <2>2. Truthful(l, Return(b.outcome), run')
    BY <1>2, ReturnTruthful DEF Truthful
  <2> QED BY <2>1, <2>2
<1>10. CASE ReadPassDisposition(l)
  <2>1. /\ life'[l].outcome = b.outcome /\ life'[l].snapPass = b.snapPass
        /\ life'[l].pc # "cancel_pass"
        /\ \A m \in Lifecycles : m # l => life'[m] = life[m]
    BY <1>1, <1>10 DEF ReadPassDisposition, Proceed, Body
  <2> QED BY <1>2, <2>1, SilentTruthful
<1>11. CASE LifecycleStepFails(l)
  BY <1>1, <1>2, <1>3, <1>11, RetriedTruthful DEF LifecycleStepFails
<1> QED
  BY <1>3, <1>4, <1>5, <1>6, <1>7, <1>8, <1>9, <1>10, <1>11 DEF LifecycleStep

(* What a step may do to the passes and to the claims. *)
PassesMove ==
  \/ UNCHANGED pass
  \/ \E l \in Lifecycles, reached \in BOOLEAN : CancelPass(l, reached)
  \/ \E e \in HostedExecutions : StartPass(e) \/ PassStep(e) \/ PassPortFails(e)

LEMMA StepsOfThePasses == [Next]_vars => PassesMove
  BY DEF Next, vars, PassesMove, Tick, Dispatch, DispatchStart, DispatchRecord,
         DispatchArbitrate, DispatchCancel, DispatchAttemptLost, LifecycleStep,
         LifecycleStepFails, LifecycleBoot, ReadRun, WakeAtDeadline, WakeNotified,
         WakeFromGrace, WakeFromLostRace, RecordSelf, CloseUnclaimedWindow,
         CloseExecutionWindow, ReadPassDisposition, ClaimBegin, ClaimRun,
         DispatchMarkExecuting, WorkerSubmits, EndLiveRun, NotifyLifecycle

LEMMA StepsOfTheClaims ==
  ASSUME [Next]_vars
  PROVE  \/ UNCHANGED claimant
         \/ \E e \in Executions : ClaimBegin(e) \/ ClaimRun(e)
         \/ \E e \in HostedExecutions : StartPass(e) \/ DispatchMarkExecuting(e)
  BY DEF Next, vars, Tick, Dispatch, DispatchStart, DispatchRecord,
         DispatchArbitrate, DispatchCancel, DispatchAttemptLost, LifecycleStep,
         LifecycleStepFails, LifecycleBoot, ReadRun, WakeAtDeadline, WakeNotified,
         WakeFromGrace, WakeFromLostRace, RecordSelf, CloseUnclaimedWindow,
         CloseExecutionWindow, ReadPassDisposition, CancelPass, PassStep, PassSubmits,
         PassThrows, PassReturnsNoResult, PassPortFails, WorkerSubmits, EndLiveRun,
         NotifyLifecycle

LEMMA LivesStep ==
  ASSUME Inv, LivesAreTruthful, [Next]_vars
  PROVE  LivesAreTruthful'
<1>1. /\ life \in [Lifecycles -> SoundBodies]
      /\ \A m \in Lifecycles : life[m] \in Body /\ Truthful(m, life[m], run')
  BY TruthStays DEF Inv, TypeInv, SoundBodies, LivesAreTruthful
<1>2. ASSUME NEW l \in Lifecycles, LifecycleStep(l) \/ LifecycleStepFails(l)
      PROVE  LivesAreTruthful'
  BY <1>1, <1>2, LifecycleTruth DEF LivesAreTruthful
<1>3. CASE DispatchStart
  <2>1. PICK l \in Lifecycles : life' = [life EXCEPT ![l].pc = "boot"]
    BY <1>3 DEF DispatchStart
  <2>2. ASSUME NEW m \in Lifecycles PROVE Truthful(m, life'[m], run')
    <3>1. /\ life'[m].outcome = life[m].outcome
          /\ life'[m].snapPass = life[m].snapPass
          /\ life'[m].pc \in {"boot", life[m].pc}
      BY <1>1, <2>1 DEF Body
    <3> QED BY <1>1, <3>1, SilentTruthful
  <2> QED BY <2>2 DEF LivesAreTruthful
<1>4. CASE DispatchCancel
  <2>1. PICK l \in Lifecycles :
          \/ UNCHANGED life
          \/ life' = [life EXCEPT ![l] = [NotStarted EXCEPT !.pc = "cancelled"]]
    BY <1>1, <1>4 DEF DispatchCancel, Inv, TypeInv, DispatchAttempts
  <2>2. Truthful(l, [NotStarted EXCEPT !.pc = "cancelled"], run')
    BY DEF NotStarted, Truthful
  <2> QED BY <1>1, <2>1, <2>2 DEF LivesAreTruthful
<1>5. ASSUME NEW answered \in BOOLEAN, NotifyLifecycle(answered)
      PROVE  LivesAreTruthful'
  <2>1. PICK l : UNCHANGED life \/ life' = [life EXCEPT ![l].hook = "resolved"]
    BY <1>5 DEF NotifyLifecycle
  <2>2. ASSUME NEW m \in Lifecycles PROVE Truthful(m, life'[m], run')
    <3>1. /\ life'[m].outcome = life[m].outcome
          /\ life'[m].snapPass = life[m].snapPass
          /\ life'[m].pc = life[m].pc
      BY <1>1, <2>1 DEF Body
    <3> QED BY <1>1, <3>1, SilentTruthful
  <2> QED BY <2>2 DEF LivesAreTruthful
<1>6. CASE UNCHANGED life
  BY <1>1, <1>6 DEF LivesAreTruthful
<1> QED
  BY <1>2, <1>3, <1>4, <1>5, <1>6
  DEF Next, vars, Tick, Dispatch, DispatchRecord, DispatchArbitrate,
      DispatchAttemptLost, ClaimBegin, ClaimRun, StartPass, DispatchMarkExecuting,
      PassStep, PassSubmits, PassThrows, PassReturnsNoResult, PassPortFails,
      WorkerSubmits, EndLiveRun

(* Only the lifecycle that closed the window cancels, and what it cancels  *)
(* is the pass its read named.                                             *)
LEMMA CancelledStep ==
  ASSUME Inv, LivesAreTruthful, CancelledPasses, [Next]_vars
  PROVE  CancelledPasses'
<1>1. /\ pass \in [HostedExecutions -> Passes]
      /\ \A e \in HostedExecutions : e # None
  BY IdsAssumption DEF Inv, TypeInv, Executions
<1>2. /\ Watchdogged(run) => Watchdogged(run')
      /\ run.hostedWorkflowRunId # None =>
           run'.hostedWorkflowRunId = run.hostedWorkflowRunId
  BY RowStaysTrue DEF Watchdogged, TerminalStatuses
<1>3. ASSUME NEW e \in HostedExecutions, pass'[e].status = "cancelled",
             pass[e].status # "cancelled"
      PROVE  Watchdogged(run') /\ run'.hostedWorkflowRunId = e
  <2>1. ASSUME NEW x \in HostedExecutions, NEW outcome, NEW answered,
               PassStepEnds(x, outcome, answered)
        PROVE  FALSE
    <3>1. PassAfter(pass[x], outcome, answered).status = "cancelled" =>
            pass[x].status = "cancelled"
      BY <1>1 DEF PassAfter, Passes
    <3> QED BY <1>1, <1>3, <2>1, <3>1 DEF PassStepEnds
  <2>2. ASSUME NEW x \in HostedExecutions, StartPass(x) PROVE FALSE
    BY <1>1, <1>3, <2>2 DEF StartPass, Passes
  <2>3. PICK l \in Lifecycles, reached \in BOOLEAN : CancelPass(l, reached)
    BY <1>3, <2>1, <2>2, StepsOfThePasses
    DEF PassesMove, PassStep, PassSubmits, PassThrows, PassReturnsNoResult, PassPortFails
  <2>4. life[l].snapPass = e
    BY <1>1, <1>3, <2>3 DEF CancelPass, Passes
  <2>5. Watchdogged(run) /\ run.hostedWorkflowRunId = e
    BY <1>1, <2>3, <2>4 DEF CancelPass, LivesAreTruthful, Truthful
  <2> QED BY <1>1, <1>2, <2>5
<1> QED BY <1>1, <1>2, <1>3 DEF CancelledPasses

LEMMA GrantsStep ==
  ASSUME Inv, GrantsHold, [Next]_vars
  PROVE  GrantsHold'
<1>1. /\ run \in RunRows
      /\ claimant \in [Executions -> ClaimAttempts]
      /\ pass \in [HostedExecutions -> Passes]
      /\ HostedExecutions \subseteq Executions
      /\ \A e \in Executions : e # None
  BY IdsAssumption DEF Inv, TypeInv, Executions
<1>2. \A e \in Executions : run.token = e => run'.token = e
  BY <1>1, RowStaysTrue
<1>3. ASSUME NEW e \in Executions, claimant'[e].pc \in {"granted", "started"},
             claimant[e].pc \notin {"granted", "started"}
      PROVE  run'.token = e
  <2>1. PICK x \in Executions : ClaimBegin(x) \/ ClaimRun(x)
    BY <1>1, <1>3, StepsOfTheClaims DEF StartPass, DispatchMarkExecuting, ClaimAttempts
  <2>2. ClaimRun(x) /\ x = e
    BY <1>1, <1>3, <2>1 DEF ClaimBegin, ClaimRun
  <2>3. run' = Claim(run, e, claimant[e].at)
    BY <1>1, <1>3, <2>2 DEF ClaimRun
  <2> QED BY <1>1, <2>3 DEF Claim, RunRows
<1>4. ASSUME NEW e \in HostedExecutions, pass'[e].inFlight, ~pass[e].inFlight
      PROVE  run.token = e
  <2>1. ASSUME NEW x \in HostedExecutions, NEW outcome, NEW answered,
               PassStepEnds(x, outcome, answered), pass[x].inFlight
        PROVE  FALSE
    BY <1>1, <1>4, <2>1 DEF PassStepEnds
  <2>2. ASSUME NEW l \in Lifecycles, NEW reached \in BOOLEAN, CancelPass(l, reached)
        PROVE  FALSE
    BY <1>1, <1>4, <2>2 DEF CancelPass, Passes
  <2>3. PICK x \in HostedExecutions : StartPass(x)
    BY <1>4, <2>1, <2>2, StepsOfThePasses
    DEF PassesMove, PassStep, PassSubmits, PassThrows, PassReturnsNoResult, PassPortFails
  <2>4. x = e
    BY <1>1, <1>4, <2>3 DEF StartPass, Passes
  <2> QED BY <1>1, <2>3, <2>4 DEF StartPass, GrantsHold
<1> QED BY <1>1, <1>2, <1>3, <1>4 DEF GrantsHold

(* A pass concludes what its statement found.  A throw that lost finds the *)
(* Run already ended: the pass holds the token, so no claim is pending.    *)
LEMMA ConclusionsStep ==
  ASSUME Inv, GrantsHold, PassConclusionsAreTrue, [Next]_vars
  PROVE  PassConclusionsAreTrue'
<1>1. /\ run \in RunRows /\ run' \in RunRows
      /\ pass \in [HostedExecutions -> Passes]
      /\ \A e \in HostedExecutions : e \in Executions /\ e # None
  BY RowStaysTrue, IdsAssumption DEF Inv, TypeInv, Executions
<1>2. /\ run.accepted => run'.accepted
      /\ \A e \in HostedExecutions : run.token = e => run'.token = e
      /\ run.status \in TerminalStatuses => run'.status \in TerminalStatuses
  BY <1>1, RowStaysTrue DEF Inv, RowInv, TerminalStatuses
<1> DEFINE Concluded(e) ==
      /\ pass'[e].outcome = "accepted" => run'.accepted /\ run'.token = e
      /\ pass'[e].outcome = "lost" => run'.status \in TerminalStatuses
<1>3. ASSUME NEW e \in HostedExecutions, pass'[e].outcome = pass[e].outcome
      PROVE  Concluded(e)
  BY <1>2, <1>3 DEF PassConclusionsAreTrue
<1>4. ASSUME NEW e \in HostedExecutions, NEW answered \in BOOLEAN, NEW outcome,
             PassStepEnds(e, outcome, answered)
      PROVE  /\ \A x \in HostedExecutions : x # e => pass'[x].outcome = pass[x].outcome
             /\ pass'[e].outcome \in {pass[e].outcome, outcome}
  <2>1. PassAfter(pass[e], outcome, answered).outcome \in {pass[e].outcome, outcome}
    BY <1>1 DEF PassAfter, Passes
  <2> QED BY <1>1, <1>4, <2>1 DEF PassStepEnds
<1>5. ASSUME NEW e \in HostedExecutions, NEW permitted \in BOOLEAN,
             NEW answered \in BOOLEAN, PassSubmits(e, permitted, answered)
      PROVE  \A x \in HostedExecutions : Concluded(x)
  <2> DEFINE won == AcceptMatches(run, e, permitted)
  <2>1. PassStepEnds(e, IF won THEN "accepted" ELSE "rejected", answered)
    BY <1>5 DEF PassSubmits
  <2>2. won => run'.accepted /\ run'.token = e
    BY <1>1, <1>5 DEF PassSubmits, AcceptMatches, Accept, RunRows
  <2>3. \/ pass'[e].outcome = pass[e].outcome
        \/ won /\ pass'[e].outcome = "accepted"
        \/ pass'[e].outcome = "rejected"
    BY <1>4, <2>1
  <2> HIDE DEF won
  <2>4. Concluded(e)
    BY <1>3, <2>2, <2>3
  <2> QED BY <1>3, <1>4, <2>1, <2>4
<1>6. ASSUME NEW e \in HostedExecutions, NEW answered \in BOOLEAN,
             PassThrows(e, answered)
      PROVE  \A x \in HostedExecutions : Concluded(x)
  <2>1. run'.status \in TerminalStatuses
    <3>1. run.token = e
      BY <1>6 DEF PassThrows, GrantsHold
    <3>2. CASE PromptMatches(run, e)
      <4>1. run'.status = "failed"
        BY <1>1, <1>6, <3>2 DEF PassThrows, TerminateLost, RunRows
      <4> QED BY <4>1 DEF TerminalStatuses
    <3>3. CASE ~PromptMatches(run, e)
      <4>1. run.status \in TerminalStatuses
        BY <1>1, <3>1, <3>3
        DEF PromptMatches, ExecutionEvidence, ResultEligibleWindow, Inv, RowInv, RunRows,
            Statuses, LiveStatuses, ResultEligibleStatuses, TerminalStatuses
      <4> QED BY <1>2, <4>1
    <3> QED BY <3>2, <3>3
  <2>2. PassStepEnds(e, "lost", answered)
    BY <1>6 DEF PassThrows
  <2>3. Concluded(e)
    BY <1>3, <1>4, <2>1, <2>2
  <2> QED BY <1>3, <1>4, <2>2, <2>3
<1>7. ASSUME NEW e \in HostedExecutions,
             PassPortFails(e) \/ (\E answered \in BOOLEAN : PassReturnsNoResult(e, answered))
      PROVE  \A x \in HostedExecutions : Concluded(x)
  <2>1. PICK answered \in BOOLEAN, outcome \in {None, "no_result"} :
          PassStepEnds(e, outcome, answered) /\ (outcome = None => ~answered)
    BY <1>7, NoOutcomeAssumption DEF PassPortFails, PassReturnsNoResult, PassOutcomes
  <2>2. outcome = None => pass'[e].outcome = pass[e].outcome
    BY <1>1, <2>1 DEF PassStepEnds, PassAfter, Passes
  <2>3. pass'[e].outcome \in {pass[e].outcome, "no_result"}
    BY <1>4, <2>1, <2>2
  <2> QED BY <1>3, <1>4, <2>1, <2>3
<1>8. ASSUME NEW e \in HostedExecutions, StartPass(e)
      PROVE  \A x \in HostedExecutions : Concluded(x)
  <2>1. \A x \in HostedExecutions : pass'[x].outcome = pass[x].outcome
    BY <1>1, <1>8 DEF StartPass, Passes
  <2> QED BY <1>3, <2>1
<1>9. ASSUME NEW l \in Lifecycles, NEW reached \in BOOLEAN, CancelPass(l, reached)
      PROVE  \A x \in HostedExecutions : Concluded(x)
  <2>1. \A x \in HostedExecutions : pass'[x].outcome = pass[x].outcome
    BY <1>1, <1>9 DEF CancelPass, Passes
  <2> QED BY <1>3, <2>1
<1>10. \A x \in HostedExecutions : Concluded(x)
  BY <1>3, <1>5, <1>6, <1>7, <1>8, <1>9, StepsOfThePasses DEF PassesMove, PassStep
<1> QED BY <1>10 DEF PassConclusionsAreTrue

-----------------------------------------------------------------------------
(* The theorems. *)

LEMMA InitTruth == Init => LivesAreTruthful /\ CancelledPasses /\ GrantsHold
                            /\ PassConclusionsAreTrue
<1> SUFFICES ASSUME Init
             PROVE  LivesAreTruthful /\ CancelledPasses /\ GrantsHold
                    /\ PassConclusionsAreTrue
  OBVIOUS
<1>1. LivesAreTruthful
  BY DEF Init, NotStarted, LivesAreTruthful, Truthful
<1>2. CancelledPasses /\ GrantsHold
  BY DEF Init, CancelledPasses, GrantsHold, Executions
<1>3. PassConclusionsAreTrue
  BY NoOutcomeAssumption DEF Init, PassOutcomes, PassConclusionsAreTrue
<1> QED BY <1>1, <1>2, <1>3

(* The invariant holds for ever, on top of the one of RunLifecycleProofs.  *)
THEOREM Truth == Spec => []TruthInv
<1>1. Init => TruthInv
  BY InitInv, InitTruth DEF TruthInv
<1>2. TruthInv /\ [Next]_vars => TruthInv'
  BY InvStep, LivesStep, CancelledStep, GrantsStep, ConclusionsStep DEF TruthInv
<1> QED BY <1>1, <1>2, PTL DEF Spec

(* LifecycleOutcome: what runLifecycle returned stays true of the row, and *)
(* no lifecycle ever meets a claimed Run without a deadline.               *)
THEOREM ReturnsStayTrue == Spec => []ReturnsAreTrue
<1>1. TruthInv => ReturnsAreTrue
  <2> SUFFICES ASSUME TruthInv, NEW l \in Lifecycles, life[l].outcome # None
               PROVE  LET o == life[l].outcome
                      IN CASE o.kind = "unscheduled" ->
                                run.status = "unscheduled" /\ run.workflowRunId = l
                           [] o.kind = "worker_lost" ->
                                /\ run.workflowRunId = l
                                /\ run.failure = [detector |-> "hosted_watchdog",
                                                  observation |-> o.observation,
                                                  lostFrom |-> o.lostFrom]
                           [] o.kind = "ended" -> run.status \in TerminalStatuses
                           [] o.kind = "orphaned" -> run.workflowRunId \notin {None, l}
                           [] OTHER -> FALSE
    BY DEF ReturnsAreTrue
  <2> DEFINE o == life[l].outcome
  <2>1. TrueOf(l, o, run)
    BY DEF TruthInv, LivesAreTruthful, Truthful
  <2>2. o.kind \in OutcomeKinds
    BY DEF TruthInv, Inv, TypeInv, SoundBodies, Body, Outcomes
  <2> HIDE DEF o
  <2> QED BY <2>1, <2>2 DEF TrueOf, OutcomeKinds, o
<1> QED BY <1>1, Truth, PTL

(* Terminalize first: a pass is cancelled only where the Run records it    *)
(* and the watchdog has already ended that Run.                            *)
THEOREM CancelIsSecond == Spec => []CancelFollowsTheTransition
<1>1. TruthInv => CancelFollowsTheTransition
  BY DEF TruthInv, CancelledPasses, Watchdogged, CancelFollowsTheTransition
<1> QED BY <1>1, Truth, PTL

(* runHostedPlacement: `accepted` is the pass's own Result, and `lost`     *)
(* leaves no Run waiting on the pass.                                      *)
THEOREM ConclusionsStayTrue == Spec => []PassConclusionsAreTrue
<1>1. TruthInv => PassConclusionsAreTrue
  BY DEF TruthInv
<1> QED BY <1>1, Truth, PTL
=============================================================================
