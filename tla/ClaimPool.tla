------------------------------ MODULE ClaimPool ------------------------------
(***************************************************************************)
(* The Runs of one Owner and the requests that compete for them              *)
(* (packages/control-plane/src/worker): claims by self-hosted Workers, which  *)
(* poll for the oldest claimable Run or name one, hosted dispatches, and      *)
(* submissions of Results.  The statements over a row are those of RunRow;    *)
(* this module is about the transactions they run in: READ COMMITTED, row     *)
(* locks held to the end, a statement that waits and re-evaluates, a          *)
(* subquery that skips locked rows, a commit whose acknowledgement is lost.   *)
(*                                                                            *)
(* A claim attempt is its token, as in RunRow.  A Run is its rank in          *)
(* created_at order.                                                          *)
(***************************************************************************)
EXTENDS RunRow, FiniteSets

CONSTANTS
  Submissions,  \* requests that submit a Result
  Workers,      \* self-hosted Workers
  Runs,         \* the Runs, numbered in created_at order
  FixRuns,      \* the Runs whose Autonomy is `fix`
  UnknownRun,   \* an id that names no Run of this Owner, or is no id at all
  MaxRequests,  \* bound: how many of the requests are made
  MaxClock, MaxFaults, MaxChanges  \* bounds: ticks, broken sessions, writes from outside

Claims   == Executions
Requests == Claims \cup Submissions

ASSUME PoolAssumption ==
  /\ Runs \subseteq Nat /\ FixRuns \subseteq Runs /\ UnknownRun \notin Runs
  /\ None \notin Runs \cup {UnknownRun} \cup Workers
  /\ Submissions \cap Claims = {}
  /\ MaxRequests \in Nat /\ MaxClock \in Nat /\ MaxFaults \in Nat /\ MaxChanges \in Nat

VARIABLES
  row,        \* the committed `run` rows
  findings,   \* per Run: the submissions whose Findings are committed
  installed,  \* the Runs whose Repository records a live Installation
  tx,         \* per request: its parameters, where it is, what it answered
  unacked,    \* the requests whose commit was never acknowledged
  now, faults, changes

vars == <<row, findings, installed, tx, unacked, now, faults, changes>>

ClaimRefusals == {"unknown_run", "already_claimed", "not_claimable", "claim_window_closed",
                  "placement_mismatch", "installation_unavailable"}

Rejections == {"unknown_run", "not_eligible", "execution_mismatch", "malformed"}

Answers == {"none", "turned_away", "unavailable", "granted", "no_run_available", "accepted"}
             \cup ClaimRefusals \cup Rejections

(* "contact" waits for the Worker's row, "update" for the Run's.  From       *)
(* "claimed", "absorbed" and "probed" on a transaction holds the Run's row.   *)
Places == {"idle", "contact", "update", "unmatched", "claimed", "rendered",
           "absorbed", "inserted", "probed", "closing", "done"}

HoldsRow     == {"claimed", "rendered", "absorbed", "inserted", "probed"}
HoldsContact == {"update", "unmatched", "claimed", "rendered", "closing"}

Transactions ==
  [at : Places, worker : Workers \cup {None}, run : Runs \cup {UnknownRun, None},
   poll : BOOLEAN, clock : 0..MaxClock, token : Claims \cup {None},
   patch : BOOLEAN, found : BOOLEAN, answer : Answers]

TypeOK ==
  /\ row \in [Runs -> RunRows]
  /\ findings \in [Runs -> SUBSET Submissions]
  /\ installed \subseteq Runs
  /\ tx \in [Requests -> Transactions]
  /\ unacked \subseteq Requests
  /\ now \in 0..MaxClock /\ faults \in 0..MaxFaults /\ changes \in 0..MaxChanges

Init ==
  /\ \E placement \in [Runs -> Placements] :
         row = [r \in Runs |-> InsertRun(placement[r], 0)]
  /\ findings = [r \in Runs |-> {}]
  /\ installed = Runs
  /\ tx = [q \in Requests |-> [at |-> "idle", worker |-> None, run |-> None, poll |-> FALSE,
                               clock |-> 0, token |-> None, patch |-> FALSE,
                               found |-> FALSE, answer |-> "none"]]
  /\ unacked = {} /\ now = 0 /\ faults = 0 /\ changes = 0

Locked(r)  == \E q \in Requests : tx[q].run = r /\ tx[q].at \in HoldsRow
Engaged(w) == \E q \in Claims : tx[q].worker = w /\ tx[q].at \in HoldsContact

Moves(q, at)    == tx' = [tx EXCEPT ![q].at = at]

(* The answer is out.  What it was about is kept only where it wrote.         *)
Closed == [at |-> "done", worker |-> None, run |-> None, poll |-> FALSE, clock |-> 0,
           token |-> None, patch |-> FALSE, found |-> FALSE, answer |-> "none"]

Ends(q, answer) == tx' = [tx EXCEPT ![q] = [Closed EXCEPT !.answer = answer]]
SameRows == UNCHANGED <<row, findings, installed, unacked, now, faults, changes>>

-----------------------------------------------------------------------------
Arrives(q) ==
  /\ tx[q].at = "idle"
  /\ Cardinality({p \in Requests : tx[p].at # "idle"}) < MaxRequests

(* readWorkerRequest: the cap, transaction one, the schema and the version,   *)
(* in that order; a request that fails one of them is answered there, and     *)
(* reaches no Run.                                                            *)
ReadWorkerRequest(q, request) ==
  tx' \in {[tx EXCEPT ![q].at = "done", ![q].answer = "turned_away"],
           [tx EXCEPT ![q] = request]}

(* Then, or for a dispatch at once, claimRun: it reads its clock once, before *)
(* any statement.                                                             *)
ReceiveClaim(q) ==
  /\ Arrives(q) /\ q \in WorkerExecutions
  /\ \E w \in Workers, r \in Runs \cup {UnknownRun, None} :
         ReadWorkerRequest(q, [tx[q] EXCEPT !.at = "contact", !.worker = w, !.run = r,
                                            !.poll = (r = None), !.clock = now])
  /\ SameRows

(* dispatchHostedRun claims the Run it was given; no endpoint, no Worker.     *)
DispatchClaim(q) ==
  /\ Arrives(q) /\ q \in HostedExecutions
  /\ \E r \in Runs : tx' = [tx EXCEPT ![q].at = "update", ![q].run = r, ![q].clock = now]
  /\ SameRows

(* last_seen_at: the Worker's row is written, and locked, before the Run's.   *)
Contact(q) ==
  /\ tx[q].at = "contact" /\ ~Engaged(tx[q].worker)
  /\ IF tx[q].run = UnknownRun
     THEN tx' = [tx EXCEPT ![q].at = "closing", ![q].answer = "unknown_run"]
     ELSE Moves(q, "update")
  /\ SameRows

MutantMatchesLive(q, r) ==
  row[r].status \in LiveStatuses /\ row[r].placement = PlacementOf(q) /\ r \in installed

Matches(q, r) == ClaimMatches(row[r], q, tx[q].clock, r \in installed)

(* The UPDATE of a poll: its subquery takes the oldest claimable row that     *)
(* nobody has locked, and zero rows are the absence of work.                  *)
MutantPollUnlocked(q) ==
  /\ tx[q].at = "update" /\ tx[q].poll
  /\ LET claimable == {r \in Runs : Matches(q, r)}
     IN IF claimable # {}
        THEN tx' = [tx EXCEPT ![q].at = "claimed",
                              ![q].run = CHOOSE r \in claimable : \A s \in claimable : r <= s]
        ELSE tx' = [tx EXCEPT ![q].at = "closing", ![q].answer = "no_run_available"]
  /\ SameRows

PollUpdate(q) ==
  /\ tx[q].at = "update" /\ tx[q].poll
  /\ LET claimable == {r \in Runs : Matches(q, r) /\ ~Locked(r)}
     IN IF claimable # {}
        THEN tx' = [tx EXCEPT ![q].at = "claimed",
                              ![q].run = CHOOSE r \in claimable : \A s \in claimable : r <= s]
        ELSE tx' = [tx EXCEPT ![q].at = "closing", ![q].answer = "no_run_available"]
  /\ SameRows

(* The UPDATE of a named Run: a row that matches and is locked is waited for  *)
(* and evaluated again; one that does not match is not.                       *)
NamedUpdate(q) ==
  /\ tx[q].at = "update" /\ ~tx[q].poll /\ q \in Claims
  /\ \/ Matches(q, tx[q].run) /\ ~Locked(tx[q].run) /\ Moves(q, "claimed")
     \/ ~Matches(q, tx[q].run) /\ Moves(q, "unmatched")
  /\ SameRows

(* nameRefusal: a second statement, with a snapshot of its own and no lock.   *)
ClaimRefusal(r, q) ==
  IF row[r].status \in ResultEligibleStatuses THEN "already_claimed"
  ELSE IF row[r].status # "queued" THEN "not_claimable"
  ELSE IF row[r].claimableUntil <= tx[q].clock THEN "claim_window_closed"
  ELSE IF row[r].placement # PlacementOf(q) THEN "placement_mismatch"
  ELSE IF r \notin installed THEN "installation_unavailable"
  ELSE "not_claimable"

NameClaimRefusal(q) ==
  /\ tx[q].at = "unmatched" /\ q \in Claims
  /\ tx' = [tx EXCEPT ![q].at = "closing", ![q].answer = ClaimRefusal(tx[q].run, q)]
  /\ SameRows

(* What the end of a transaction leaves of its row: nothing of it is visible  *)
(* to anyone before, and nothing of it remains after a throw.                 *)
RollsBack(q) == Ends(q, "unavailable") /\ UNCHANGED <<row, findings>>

(* runSpecOf reads the grant again; without one it throws, and the throw      *)
(* takes the claim with it.                                                   *)
MutantRenderCaught(q) ==
  /\ tx[q].at = "claimed"
  /\ \/ tx[q].run \in installed /\ Moves(q, "rendered") /\ UNCHANGED <<row, findings>>
     \/ /\ tx[q].run \notin installed
        /\ Ends(q, "unavailable")
        /\ row' = [row EXCEPT ![tx[q].run] = Claim(@, q, tx[q].clock)]
        /\ UNCHANGED findings
  /\ UNCHANGED <<installed, unacked, now, faults, changes>>

RenderSpec(q) ==
  /\ tx[q].at = "claimed"
  /\ \/ tx[q].run \in installed /\ Moves(q, "rendered") /\ UNCHANGED <<row, findings>>
     \/ tx[q].run \notin installed /\ RollsBack(q)
  /\ UNCHANGED <<installed, unacked, now, faults, changes>>

-----------------------------------------------------------------------------
(* A submission carries the token of a grant its sender was given, for any    *)
(* Run, and comes through the endpoint or from a hosted pass.                 *)
Presentable == {e \in Claims : tx[e].at = "done" /\ tx[e].answer = "granted"}

ReceiveSubmission(q) ==
  /\ Arrives(q) /\ q \in Submissions
  /\ \E r \in Runs \cup {UnknownRun}, e \in Presentable, patch \in BOOLEAN, found \in BOOLEAN :
         /\ patch => found
         /\ LET request == [tx[q] EXCEPT !.at = "update", !.run = r, !.token = e,
                                         !.patch = patch, !.found = found]
            IN IF e \in HostedExecutions THEN tx' = [tx EXCEPT ![q] = request]
               ELSE ReadWorkerRequest(q, request)
  /\ SameRows

Permitted(q) == ~tx[q].patch \/ tx[q].run \in FixRuns

(* acceptResult's UPDATE, which waits only for a row that matches.            *)
AcceptUpdate(q) ==
  /\ tx[q].at = "update" /\ q \in Submissions
  /\ LET matched == /\ tx[q].run \in Runs
                    /\ AcceptMatches(row[tx[q].run], tx[q].token, Permitted(q))
     IN \/ matched /\ ~Locked(tx[q].run) /\ Moves(q, "absorbed")
        \/ ~matched /\ Moves(q, "unmatched")
  /\ SameRows

(* nameRefusal of acceptance.ts, in its order: the Run's own state first,     *)
(* then the token, then the payload.                                          *)
Rejection(r, token, patched) ==
  IF ~ResultEligibleWindow(row[r]) THEN "not_eligible"
  ELSE IF row[r].token # token THEN "execution_mismatch"
  ELSE IF patched /\ r \notin FixRuns THEN "malformed"
  ELSE "not_eligible"

(* The probe locks the row it reads, until the transaction is over.           *)
MutantProbeUnlocked(q) ==
  /\ tx[q].at = "unmatched" /\ q \in Submissions
  /\ tx' = [tx EXCEPT ![q].at = "closing",
                      ![q].answer = IF tx[q].run = UnknownRun THEN "unknown_run"
                                    ELSE Rejection(tx[q].run, tx[q].token, tx[q].patch)]
  /\ SameRows

ProbeRejection(q) ==
  /\ tx[q].at = "unmatched" /\ q \in Submissions
  /\ \/ tx[q].run = UnknownRun
        /\ tx' = [tx EXCEPT ![q].at = "closing", ![q].answer = "unknown_run"]
     \/ /\ tx[q].run \in Runs /\ ~Locked(tx[q].run)
        /\ tx' = [tx EXCEPT ![q].at = "probed",
                            ![q].answer = Rejection(tx[q].run, tx[q].token, tx[q].patch)]
  /\ SameRows

(* The Findings are inserted in the transaction that ends the Run.            *)
MutantInsertApart(q) ==
  /\ tx[q].at = "absorbed"
  /\ Moves(q, "inserted")
  /\ findings' = [findings EXCEPT ![tx[q].run] = @ \cup {q}]
  /\ UNCHANGED <<row, installed, unacked, now, faults, changes>>

InsertFindings(q) ==
  /\ tx[q].at = "absorbed"
  /\ Moves(q, "inserted")
  /\ SameRows

-----------------------------------------------------------------------------
(* COMMIT.  The writes of the transaction become visible together; that they  *)
(* did may never be heard of, and then the request is answered as if they     *)
(* had not.                                                                   *)
Written(q) ==
  CASE tx[q].at = "rendered" ->
         /\ row' = [row EXCEPT ![tx[q].run] = Claim(@, q, tx[q].clock)]
         /\ UNCHANGED findings
    [] tx[q].at = "inserted" ->
         /\ \E status \in AcceptedStatuses :
                row' = [row EXCEPT ![tx[q].run] = Accept(@, status)]
         /\ findings' = [findings EXCEPT ![tx[q].run] = IF tx[q].found THEN @ \cup {q} ELSE @]
    [] OTHER -> UNCHANGED <<row, findings>>

Answer(q) ==
  CASE tx[q].at = "rendered" -> "granted"
    [] tx[q].at = "inserted" -> "accepted"
    [] OTHER -> tx[q].answer

Commit(q) ==
  /\ tx[q].at \in {"rendered", "inserted", "probed", "closing"}
  /\ Written(q)
  /\ \/ /\ tx' = [tx EXCEPT ![q] =
                    [Closed EXCEPT !.answer = Answer(q), !.found = tx[q].found,
                         !.run = IF tx[q].at \in {"rendered", "inserted"} THEN tx[q].run
                                 ELSE None]]
        /\ UNCHANGED <<unacked, faults>>
     \/ /\ faults < MaxFaults
        /\ faults' = faults + 1
        /\ unacked' = unacked \cup {q}
        /\ Ends(q, "unavailable")
  /\ UNCHANGED <<installed, now, changes>>

(* The session dies, a statement throws, or the spec does not parse.          *)
TransactionFails(q) ==
  /\ tx[q].at \in {"contact", "update", "unmatched", "claimed", "absorbed", "inserted",
                   "probed", "closing"}
  /\ faults < MaxFaults
  /\ faults' = faults + 1
  /\ RollsBack(q)
  /\ UNCHANGED <<installed, unacked, now, changes>>

(* A hosted dispatch that holds the grant marks its pass.                     *)
MarkPass(e) ==
  /\ tx[e].at = "done" /\ tx[e].answer = "granted" /\ e \in HostedExecutions
  /\ MarkExecutingMatches(row[tx[e].run], e) /\ ~Locked(tx[e].run)
  /\ row' = [row EXCEPT ![tx[e].run] = MarkExecuting(@, e)]
  /\ UNCHANGED <<findings, installed, tx, unacked, now, faults, changes>>

(* Ingress and the lifecycles, which end a Run from outside.                  *)
EndRun(r) ==
  /\ EndLiveMatches(row[r]) /\ ~Locked(r)
  /\ changes < MaxChanges
  /\ changes' = changes + 1
  /\ row' = [row EXCEPT ![r] = EndLive(@, "superseded")]
  /\ UNCHANGED <<findings, installed, tx, unacked, now, faults>>

ChangeInstallation(r) ==
  /\ changes < MaxChanges
  /\ changes' = changes + 1
  /\ installed' = IF r \in installed THEN installed \ {r} ELSE installed \cup {r}
  /\ UNCHANGED <<row, findings, tx, unacked, now, faults>>

Tick ==
  /\ now < MaxClock
  /\ now' = now + 1
  /\ UNCHANGED <<row, findings, installed, tx, unacked, faults, changes>>

Serve(q) ==
  \/ Contact(q) \/ PollUpdate(q) \/ NamedUpdate(q) \/ NameClaimRefusal(q)
  \/ RenderSpec(q) \/ AcceptUpdate(q) \/ ProbeRejection(q) \/ InsertFindings(q) \/ Commit(q)

Next ==
  \/ Tick
  \/ \E r \in Runs : EndRun(r) \/ ChangeInstallation(r)
  \/ \E q \in Requests :
         \/ ReceiveClaim(q) \/ DispatchClaim(q) \/ ReceiveSubmission(q)
         \/ Serve(q) \/ TransactionFails(q) \/ MarkPass(q)

Spec == Init /\ [][Next]_vars

-----------------------------------------------------------------------------
(* A Run is owned by a request that was told so, or whose commit was never    *)
(* acknowledged: an answer that denies the claim (a refusal, no work, a        *)
(* failure) is given only by a transaction that left the Run alone, and no     *)
(* second grant replaces the first.                                           *)
GrantsAreHeld ==
  /\ \A r \in Runs :
         LET holder == row[r].token
         IN holder \in Claims \ unacked =>
                tx[holder].answer = "granted" /\ tx[holder].run = r
  /\ \A e \in Claims : tx[e].answer = "granted" => row[tx[e].run].token = e

(* The name of a rejection is true of the row for as long as the transaction  *)
(* that gives it is open: a Run that ends meanwhile waits.                    *)
RejectionHolds ==
  \A q \in Submissions :
      tx[q].at \in {"probed", "closing"} /\ tx[q].run \in Runs =>
          LET r        == tx[q].run
              eligible == ResultEligibleWindow(row[r])
          IN CASE tx[q].answer = "not_eligible"       -> ~eligible
               [] tx[q].answer = "execution_mismatch" -> eligible /\ row[r].token # tx[q].token
               [] tx[q].answer = "malformed"          -> eligible /\ row[r].token = tx[q].token
                                                           /\ ~Permitted(q)

(* A Run carries Findings only from the one submission it accepted, and from  *)
(* that one whenever it had any.                                              *)
FindingsAreTheAccepted ==
  \A r \in Runs :
      /\ Cardinality(findings[r]) <= 1
      /\ findings[r] # {} => row[r].accepted
      /\ \A q \in Submissions :
             tx[q].answer = "accepted" /\ tx[q].run = r =>
                 findings[r] = (IF tx[q].found THEN {q} ELSE {})

(* What a transaction found of its row is so until it ends: a row that was    *)
(* claimable is not granted, ended or closed under a claim whose spec is      *)
(* being rendered, nor a row whose Result was awaited under a submission      *)
(* whose Findings are being inserted, whoever polls, claims, submits, marks a *)
(* pass or ends the Run meanwhile.  Only the Installation may go: it is read  *)
(* again (runSpecOf).                                                         *)
DecisionsStand ==
  \A q \in Requests :
      LET r == tx[q].run
      IN /\ tx[q].at \in {"claimed", "rendered"} =>
              ClaimMatches(row[r], q, tx[q].clock, TRUE)
         /\ tx[q].at \in {"absorbed", "inserted"} =>
              AcceptMatches(row[r], tx[q].token, Permitted(q))

(* Each Run of the pool keeps the contract of a single Run.                   *)
Contract(r) == INSTANCE RunContract WITH
  status    <- row[r].status,
  holder    <- row[r].token,
  scheduler <- row[r].workflowRunId,
  deadline  <- IF row[r].token = None THEN row[r].claimableUntil ELSE row[r].executionExpiresAt,
  cause     <- IF row[r].failure = None THEN None ELSE row[r].failure.detector,
  clock     <- now

EveryRunKeepsItsContract ==
  /\ \A r \in Runs : Contract(r)!ContractInit
  /\ [][\A r \in Runs : [Contract(r)!ContractNext]_(Contract(r)!contractVars)]_vars
=============================================================================
