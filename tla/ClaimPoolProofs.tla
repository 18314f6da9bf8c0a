-------------------------- MODULE ClaimPoolProofs ---------------------------
(***************************************************************************)
(* Who holds a Run, what a rejection means and whose Findings a Run has,     *)
(* for any number of Runs, claims, submissions and Workers, and whatever is  *)
(* lost, ended or revoked between two statements of a transaction.           *)
(*                                                                         *)
(* A transaction writes at its commit what its statement found several steps *)
(* before.  The row lock is what carries the finding there (Holds): nobody   *)
(* else has the row (Exclusive), so nobody makes it untrue.                  *)
(***************************************************************************)
EXTENDS ClaimPool, FiniteSetTheorems, WellFoundedInduction, TLAPS

(* What a row and its Findings say of each other. *)
SoundRow(x, f) ==
  /\ x.status = "queued" => x.token = None
  /\ x.accepted => x.status \in AcceptedStatuses
  /\ ~x.accepted => f = {}
  /\ f = {} \/ \E q \in Submissions : f = {q}

(* Which request can be where, and which Run it can be about there. *)
Placed(q, t) ==
  /\ t.poll => q \in Claims
  /\ t.at \in {"contact", "claimed", "rendered"} => q \in Claims
  /\ t.at \in {"absorbed", "inserted", "probed"} => q \in Submissions
  /\ t.at \in HoldsRow => t.run \in Runs
  /\ t.at = "contact" /\ ~t.poll => t.run \in Runs \cup {UnknownRun}
  /\ t.at \in {"update", "unmatched"} /\ ~t.poll =>
       IF q \in Claims THEN t.run \in Runs ELSE t.run \in Runs \cup {UnknownRun}
  /\ t.at = "closing" /\ q \in Submissions => t.run = UnknownRun

(* What q found of the row it holds is still so. *)
Holds(q, t) ==
  /\ t.at \in {"claimed", "rendered"} => ClaimMatches(row[t.run], q, t.clock, TRUE)
  /\ t.at \in {"absorbed", "inserted"} =>
       AcceptMatches(row[t.run], t.token, ~t.patch \/ t.run \in FixRuns)
  /\ t.at = "probed" =>
       /\ t.answer = "not_eligible" => ~ResultEligibleWindow(row[t.run])
       /\ t.answer = "execution_mismatch" =>
            ResultEligibleWindow(row[t.run]) /\ row[t.run].token # t.token
       /\ t.answer = "malformed" =>
            /\ ResultEligibleWindow(row[t.run]) /\ row[t.run].token = t.token
            /\ t.patch /\ t.run \notin FixRuns
       /\ t.answer \in {"not_eligible", "execution_mismatch", "malformed"}

(* What a request was told is so, and it owns nothing before it ends. *)
Told(q, t) ==
  /\ t.answer = "granted" =>
       t.at = "done" /\ q \in Claims /\ t.run \in Runs /\ row[t.run].token = q
  /\ t.answer = "accepted" =>
       /\ t.at = "done" /\ t.run \in Runs /\ row[t.run].accepted
       /\ findings[t.run] = IF t.found THEN {q} ELSE {}
  /\ q \in Claims /\ t.at # "done" => \A r \in Runs : row[r].token # q

(* A submission carries a token that is no longer being minted, so one that   *)
(* the row did not match cannot come to match it.                           *)
Presents(q, t) ==
  q \in Submissions /\ t.at \in {"update", "unmatched"} =>
    /\ t.token \in Claims /\ tx[t.token].at = "done"
    /\ t.at = "unmatched" /\ t.run \in Runs =>
         ~AcceptMatches(row[t.run], t.token, ~t.patch \/ t.run \in FixRuns)

Exclusive ==
  \A p, q \in Requests :
    /\ tx[p].at \in HoldsRow /\ tx[q].at \in HoldsRow
    /\ tx[p].run = tx[q].run
    => p = q

SoundRows     == \A r \in Runs : SoundRow(row[r], findings[r])
SoundRequests ==
  \A q \in Requests :
    Placed(q, tx[q]) /\ Holds(q, tx[q]) /\ Told(q, tx[q]) /\ Presents(q, tx[q])

Owned ==
  \A r \in Runs :
    LET holder == row[r].token
    IN holder \in Claims \ unacked => tx[holder].answer = "granted" /\ tx[holder].run = r

PoolInv == TypeOK /\ Exclusive /\ SoundRows /\ SoundRequests /\ Owned

-----------------------------------------------------------------------------
(* The rows the statements write are rows. *)
LEMMA PoolRowTypes ==
  ASSUME NEW x \in RunRows
  PROVE  /\ \A e \in Executions, at \in Nat : Claim(x, e, at) \in RunRows
         /\ \A e \in HostedExecutions : MarkExecuting(x, e) \in RunRows
         /\ \A s \in AcceptedStatuses : Accept(x, s) \in RunRows
         /\ \A s \in IngressEndings : EndLive(x, s) \in RunRows
<1> USE DEF RunRows, Statuses, LiveStatuses, TerminalStatuses, AcceptedStatuses, IngressEndings
<1>1. ASSUME NEW e \in Executions, NEW at \in Nat PROVE Claim(x, e, at) \in RunRows
  <2>1. at + LivenessFor \in Nat
    BY WindowsAssumption
  <2> QED
    BY <2>1 DEF Claim
<1>2. \A e \in HostedExecutions : MarkExecuting(x, e) \in RunRows
  BY DEF MarkExecuting
<1>3. \A s \in AcceptedStatuses : Accept(x, s) \in RunRows
  BY DEF Accept
<1>4. \A s \in IngressEndings : EndLive(x, s) \in RunRows
  BY DEF EndLive
<1> QED
  BY <1>1, <1>2, <1>3, <1>4

(* A request that moves without writing disturbs nobody, as long as it takes *)
(* only a row that is free and knows what it says of that row.               *)
LEMMA RequestMoves ==
  ASSUME PoolInv, NEW q \in Requests, NEW t \in Transactions,
         tx' = [tx EXCEPT ![q] = t], UNCHANGED <<row, findings, installed, now, changes>>,
         unacked \subseteq unacked', unacked' \subseteq Requests, faults' \in 0..MaxFaults,
         tx[q].at # "done", t.answer \notin {"granted", "accepted"},
         Placed(q, t), Holds(q, t), Presents(q, t),
         t.at \in HoldsRow =>
           ~Locked(t.run) \/ (tx[q].at \in HoldsRow /\ tx[q].run = t.run)
  PROVE  PoolInv'
<1>1. TypeOK'
  BY DEF PoolInv, TypeOK
<1>2. tx'[q] = t /\ \A p \in Requests \ {q} : tx'[p] = tx[p]
  BY DEF PoolInv, TypeOK
<1>3. Exclusive'
  <2> SUFFICES ASSUME NEW p \in Requests \ {q}, t.at \in HoldsRow, tx[p].at \in HoldsRow,
                      tx[p].run = t.run
               PROVE  FALSE
    BY <1>2 DEF Exclusive, PoolInv
  <2>1. Locked(t.run)
    BY DEF Locked
  <2> QED
    BY <2>1 DEF PoolInv, Exclusive
<1>4. SoundRows'
  BY DEF PoolInv, SoundRows
<1>5. SoundRequests'
  <2>1. /\ Told(q, tx[q])
        /\ \A p \in Requests \ {q} :
             Placed(p, tx[p]) /\ Holds(p, tx[p]) /\ Told(p, tx[p]) /\ Presents(p, tx[p])
    BY DEF PoolInv, SoundRequests
  <2>2. \A p, s : Holds(p, s) => Holds(p, s)'
    BY DEF Holds
  <2>3. \A p, s : Told(p, s) => Told(p, s)'
    BY DEF Told
  <2>4. Told(q, t)'
    BY <2>1 DEF Told
  <2>5. \A p, s : Presents(p, s) => Presents(p, s)'
    BY <1>2 DEF Presents, Requests
  <2> QED
    BY <1>2, <2>1, <2>2, <2>3, <2>4, <2>5 DEF SoundRequests
<1>6. Owned'
  <2>1. Told(q, tx[q])
    BY DEF PoolInv, SoundRequests
  <2>2. tx[q].answer # "granted"
    BY <2>1 DEF Told
  <2> QED
    BY <1>2, <2>2 DEF PoolInv, Owned, Requests
<1> QED
  BY <1>1, <1>3, <1>4, <1>5, <1>6 DEF PoolInv

-----------------------------------------------------------------------------
(* The steps of a request up to its commit. *)
LEMMA Known ==
  ASSUME PoolInv, NEW q \in Requests
  PROVE  /\ tx[q] \in Transactions
         /\ Placed(q, tx[q]) /\ Holds(q, tx[q]) /\ Told(q, tx[q]) /\ Presents(q, tx[q])
         /\ \A t : tx' = [tx EXCEPT ![q] = t] => tx'[q] = t
  BY DEF PoolInv, TypeOK, SoundRequests

LEMMA ClosedIsHarmless ==
  ASSUME NEW q \in Requests, NEW answer \in Answers
  PROVE  /\ [Closed EXCEPT !.answer = answer] \in Transactions
         /\ [Closed EXCEPT !.answer = answer].at = "done"
         /\ [Closed EXCEPT !.answer = answer].answer = answer
         /\ Placed(q, [Closed EXCEPT !.answer = answer])
         /\ Holds(q, [Closed EXCEPT !.answer = answer])
         /\ Presents(q, [Closed EXCEPT !.answer = answer])
<1>1. 0 \in 0..MaxClock
  BY PoolAssumption
<1> QED
  BY <1>1 DEF Closed, Transactions, Places, Placed, Holds, HoldsRow, Presents

LEMMA ClosedTypes ==
  ASSUME NEW answer \in Answers, NEW found \in BOOLEAN, NEW r \in Runs \cup {UnknownRun, None}
  PROVE  [Closed EXCEPT !.answer = answer, !.found = found, !.run = r] \in Transactions
<1>1. Closed \in Transactions
  <2>1. 0 \in 0..MaxClock
    BY PoolAssumption
  <2> QED
    BY <2>1 DEF Closed, Transactions, Places, Answers
<1>2. \A t \in Transactions : [t EXCEPT !.answer = answer, !.found = found, !.run = r] \in Transactions
  BY DEF Transactions
<1> QED
  BY <1>1, <1>2

LEMMA ArrivalKeeps ==
  ASSUME PoolInv, NEW q \in Requests,
         ReceiveClaim(q) \/ DispatchClaim(q) \/ ReceiveSubmission(q)
  PROVE  PoolInv'
<1>1. tx[q].at = "idle" /\ tx[q] \in Transactions /\ Told(q, tx[q]) /\ tx[q].answer \in Answers
  BY Known DEF ReceiveClaim, DispatchClaim, ReceiveSubmission, Arrives, Transactions
<1>2. UNCHANGED <<row, findings, installed, now, changes, unacked, faults>>
  BY DEF ReceiveClaim, DispatchClaim, ReceiveSubmission, SameRows
<1>3. unacked' \subseteq Requests /\ faults' \in 0..MaxFaults /\ now \in 0..MaxClock
  BY <1>2 DEF PoolInv, TypeOK
<1>4. tx[q].answer \notin {"granted", "accepted"}
  BY <1>1 DEF Told
<1>5. ASSUME NEW t \in Transactions, tx' = [tx EXCEPT ![q] = t], t.at \notin HoldsRow,
             t.answer \notin {"granted", "accepted"}, Placed(q, t), Presents(q, t)
      PROVE  PoolInv'
  BY <1>1, <1>2, <1>3, <1>5, RequestMoves DEF Holds, HoldsRow
<1>6. CASE tx' = [tx EXCEPT ![q].at = "done", ![q].answer = "turned_away"]
  <2> DEFINE t == [tx[q] EXCEPT !.at = "done", !.answer = "turned_away"]
  <2>1. t \in Transactions /\ tx' = [tx EXCEPT ![q] = t]
    BY <1>1, <1>6 DEF Transactions, Places, Answers
  <2>2. /\ Placed(q, t) /\ Presents(q, t)
        /\ t.at \notin HoldsRow /\ t.answer \notin {"granted", "accepted"}
    BY <1>1, Known DEF Placed, Transactions, HoldsRow, Presents
  <2> QED
    BY <1>5, <2>1, <2>2
<1>7. CASE ReceiveClaim(q)
  <2>1. q \in WorkerExecutions /\ q \in Claims /\ q \notin Submissions
    BY <1>7, PoolAssumption DEF ReceiveClaim, Executions, Claims
  <2>2. PICK w \in Workers, r \in Runs \cup {UnknownRun, None} :
           ReadWorkerRequest(q, [tx[q] EXCEPT !.at = "contact", !.worker = w, !.run = r,
                                              !.poll = (r = None), !.clock = now])
    BY <1>7 DEF ReceiveClaim
  <2> DEFINE t == [tx[q] EXCEPT !.at = "contact", !.worker = w, !.run = r,
                                !.poll = (r = None), !.clock = now]
  <2>3. t \in Transactions
    BY <1>1, <1>3 DEF Transactions, Places
  <2>4. Placed(q, t) /\ Presents(q, t) /\ t.at \notin HoldsRow /\ t.answer = tx[q].answer
    BY <1>1, <2>1 DEF Placed, Transactions, HoldsRow, Presents
  <2> QED
    BY <1>4, <1>5, <1>6, <2>2, <2>3, <2>4 DEF ReadWorkerRequest
<1>8. CASE DispatchClaim(q)
  <2>1. q \in Claims /\ q \notin Submissions
    BY <1>8, PoolAssumption DEF DispatchClaim, Executions, Claims
  <2>2. PICK r \in Runs :
           tx' = [tx EXCEPT ![q].at = "update", ![q].run = r, ![q].clock = now]
    BY <1>8 DEF DispatchClaim
  <2> DEFINE t == [tx[q] EXCEPT !.at = "update", !.run = r, !.clock = now]
  <2>3. t \in Transactions /\ tx' = [tx EXCEPT ![q] = t]
    BY <1>1, <1>3, <2>2 DEF Transactions, Places
  <2>4. Placed(q, t) /\ Presents(q, t) /\ t.at \notin HoldsRow /\ t.answer = tx[q].answer
    BY <1>1, <2>1, <2>2, Known DEF Placed, Transactions, HoldsRow, Presents
  <2> QED
    BY <1>4, <1>5, <2>3, <2>4
<1>9. CASE ReceiveSubmission(q)
  <2>1. q \in Submissions /\ q \notin Claims
    BY <1>9, PoolAssumption DEF ReceiveSubmission
  <2>2. PICK r \in Runs \cup {UnknownRun}, e \in Presentable, patch \in BOOLEAN,
             found \in BOOLEAN :
           LET t == [tx[q] EXCEPT !.at = "update", !.run = r, !.token = e,
                                  !.patch = patch, !.found = found]
           IN tx' = [tx EXCEPT ![q] = t] \/ ReadWorkerRequest(q, t)
    BY <1>9 DEF ReceiveSubmission
  <2>5. e \in Claims /\ tx[e].at = "done"
    BY DEF Presentable
  <2> DEFINE t == [tx[q] EXCEPT !.at = "update", !.run = r, !.token = e,
                                !.patch = patch, !.found = found]
  <2>3. t \in Transactions
    BY <1>1, <2>5, PoolAssumption DEF Transactions, Places
  <2>4. Placed(q, t) /\ Presents(q, t) /\ t.at \notin HoldsRow /\ t.answer = tx[q].answer
    BY <1>1, <2>1, <2>5, Known DEF Placed, Transactions, HoldsRow, Presents
  <2> QED
    BY <1>4, <1>5, <1>6, <2>2, <2>3, <2>4 DEF ReadWorkerRequest
<1> QED
  BY <1>7, <1>8, <1>9

(* A step that leaves the row and everything else alone. *)
LEMMA StepMoves ==
  ASSUME PoolInv, NEW q \in Requests, NEW t \in Transactions, tx' = [tx EXCEPT ![q] = t],
         SameRows, tx[q].at # "done", t.answer \notin {"granted", "accepted"},
         Placed(q, t), Holds(q, t), Presents(q, t),
         t.at \in HoldsRow =>
           ~Locked(t.run) \/ (tx[q].at \in HoldsRow /\ tx[q].run = t.run)
  PROVE  PoolInv'
<1>1. UNCHANGED <<row, findings, installed, now, changes>>
  BY DEF SameRows
<1>2. unacked \subseteq unacked' /\ unacked' \subseteq Requests /\ faults' \in 0..MaxFaults
  BY DEF SameRows, PoolInv, TypeOK
<1> QED
  BY <1>1, <1>2, RequestMoves

LEMMA StatementKeeps ==
  ASSUME PoolInv, NEW q \in Requests, Contact(q) \/ NamedUpdate(q) \/ NameClaimRefusal(q)
  PROVE  PoolInv'
<1>1. tx[q] \in Transactions /\ Placed(q, tx[q]) /\ Told(q, tx[q]) /\ tx[q].answer \in Answers
  BY Known DEF Transactions
<1>2. SameRows /\ tx[q].at \in {"contact", "update", "unmatched"}
  BY DEF Contact, NamedUpdate, NameClaimRefusal
<1>3. tx[q].answer \notin {"granted", "accepted"}
  BY <1>1, <1>2 DEF Told
<1>4. q \in Claims /\ q \notin Submissions
  BY <1>1, PoolAssumption DEF Contact, NamedUpdate, NameClaimRefusal, Placed
<1>5. CASE Contact(q)
  <2>1. CASE tx[q].run = UnknownRun
    <3> DEFINE t == [tx[q] EXCEPT !.at = "closing", !.answer = "unknown_run"]
    <3>1. t \in Transactions /\ tx' = [tx EXCEPT ![q] = t]
      BY <1>1, <1>5, <2>1 DEF Contact, Transactions, Places, Answers, ClaimRefusals
    <3>2. Placed(q, t) /\ Holds(q, t) /\ Presents(q, t) /\ t.at \notin HoldsRow
      BY <1>1, <1>4 DEF Placed, Transactions, HoldsRow, Presents, Holds
    <3>3. t.answer \notin {"granted", "accepted"}
      BY <1>1 DEF Transactions
    <3> QED
      BY <1>2, <3>1, <3>2, <3>3, StepMoves
  <2>2. CASE tx[q].run # UnknownRun
    <3> DEFINE t == [tx[q] EXCEPT !.at = "update"]
    <3>1. t \in Transactions /\ tx' = [tx EXCEPT ![q] = t]
      BY <1>1, <1>5, <2>2 DEF Contact, Moves, Transactions, Places
    <3>2. Placed(q, t) /\ Holds(q, t) /\ Presents(q, t) /\ t.at \notin HoldsRow
      BY <1>1, <1>4, <1>5, <2>2 DEF Placed, Transactions, HoldsRow, Presents, Holds, Contact
    <3>3. t.answer = tx[q].answer
      BY <1>1 DEF Transactions
    <3> QED
      BY <1>2, <1>3, <3>1, <3>2, <3>3, StepMoves
  <2> QED
    BY <2>1, <2>2
<1>6. CASE NamedUpdate(q) /\ tx' = [tx EXCEPT ![q].at = "claimed"]
                          /\ Matches(q, tx[q].run) /\ ~Locked(tx[q].run)
  <2> DEFINE t == [tx[q] EXCEPT !.at = "claimed"]
  <2>1. t \in Transactions /\ tx' = [tx EXCEPT ![q] = t]
    BY <1>1, <1>6 DEF Transactions, Places
  <2>2. t.run = tx[q].run /\ t.clock = tx[q].clock /\ t.answer = tx[q].answer /\ t.at = "claimed"
    BY <1>1 DEF Transactions
  <2>3. t.run \in Runs
    BY <1>1, <1>4, <1>6, <2>2 DEF Placed, NamedUpdate
  <2>4. Placed(q, t) /\ Holds(q, t) /\ Presents(q, t)
    BY <1>1, <1>4, <1>6, <2>2, <2>3 DEF Placed, Transactions, HoldsRow, Presents, Holds, Matches, ClaimMatches
  <2> QED
    BY <1>2, <1>3, <1>6, <2>1, <2>2, <2>4, StepMoves
<1>7. CASE NamedUpdate(q) /\ tx' = [tx EXCEPT ![q].at = "unmatched"]
  <2> DEFINE t == [tx[q] EXCEPT !.at = "unmatched"]
  <2>1. t \in Transactions /\ tx' = [tx EXCEPT ![q] = t]
    BY <1>1, <1>7 DEF Transactions, Places
  <2>2. Placed(q, t) /\ Holds(q, t) /\ Presents(q, t) /\ t.at \notin HoldsRow /\ t.answer = tx[q].answer
    BY <1>1, <1>4, <1>7 DEF Placed, Transactions, HoldsRow, Presents, Holds, NamedUpdate
  <2> QED
    BY <1>2, <1>3, <2>1, <2>2, StepMoves
<1>8. CASE NameClaimRefusal(q)
  <2> DEFINE t == [tx[q] EXCEPT !.at = "closing", !.answer = ClaimRefusal(tx[q].run, q)]
  <2>1. ClaimRefusal(tx[q].run, q) \in ClaimRefusals
    BY DEF ClaimRefusal, ClaimRefusals
  <2>2. t \in Transactions /\ tx' = [tx EXCEPT ![q] = t]
    BY <1>1, <1>8, <2>1 DEF NameClaimRefusal, Transactions, Places, Answers
  <2>3. Placed(q, t) /\ Holds(q, t) /\ Presents(q, t) /\ t.at \notin HoldsRow
    BY <1>1, <1>4 DEF Placed, Transactions, HoldsRow, Presents, Holds
  <2>4. t.answer \notin {"granted", "accepted"}
    BY <1>1, <2>1 DEF Transactions, ClaimRefusals
  <2> QED
    BY <1>2, <2>2, <2>3, <2>4, StepMoves
<1> QED
  BY <1>5, <1>6, <1>7, <1>8 DEF NamedUpdate, Moves

(* Runs are numbered, so of any Runs there is an oldest. *)
LEMMA OldestRun ==
  ASSUME NEW S, S \subseteq Runs, S # {}
  PROVE  LET oldest == CHOOSE r \in S : \A s \in S : r <= s
         IN oldest \in S /\ \A s \in S : oldest <= s
<1>1. S \subseteq Nat
  BY PoolAssumption
<1>2. PICK r \in S : \A s \in S : <<s, r>> \notin OpToRel(<, Nat)
  BY <1>1, NatLessThanWellFounded, WFMin
<1>3. \A s \in S : r <= s
  <2> TAKE s \in S
  <2>1. s \in Nat /\ r \in Nat /\ ~(s < r)
    BY <1>1, <1>2 DEF OpToRel
  <2> QED
    BY <2>1
<1> QED
  BY <1>3

LEMMA PollKeeps ==
  ASSUME PoolInv, NEW q \in Requests, PollUpdate(q)
  PROVE  PoolInv'
<1> DEFINE claimable == {r \in Runs : Matches(q, r) /\ ~Locked(r)}
           oldest == CHOOSE r \in claimable : \A s \in claimable : r <= s
<1>1. tx[q] \in Transactions /\ Placed(q, tx[q]) /\ Told(q, tx[q]) /\ tx[q].answer \in Answers
  BY Known DEF Transactions
<1>2. SameRows /\ tx[q].at = "update" /\ tx[q].poll
  BY DEF PollUpdate
<1>3. tx[q].answer \notin {"granted", "accepted"}
  BY <1>1, <1>2 DEF Told
<1>4. q \in Claims /\ q \notin Submissions
  BY <1>1, <1>2, PoolAssumption DEF Placed
<1>5. CASE claimable # {}
  <2>1. PICK r \in claimable : r = oldest
    BY <1>5, OldestRun
  <2>2. tx' = [tx EXCEPT ![q].at = "claimed", ![q].run = r]
    BY <1>5, <2>1 DEF PollUpdate
  <2>3. PICK t : t = [tx[q] EXCEPT !.at = "claimed", !.run = r]
    OBVIOUS
  <2>4. t \in Transactions /\ tx' = [tx EXCEPT ![q] = t]
    BY <1>1, <2>2, <2>3 DEF Transactions, Places
  <2>5. /\ t.run = r /\ t.clock = tx[q].clock /\ t.answer = tx[q].answer
        /\ t.at = "claimed" /\ t.poll
    BY <1>1, <1>2, <2>3 DEF Transactions
  <2>6. Placed(q, t) /\ Holds(q, t) /\ Presents(q, t) /\ ~Locked(t.run)
    BY <1>4, <2>5 DEF Placed, HoldsRow, Presents, Holds, Matches, ClaimMatches
  <2>7. tx[q].at # "done" /\ t.answer \notin {"granted", "accepted"} /\ SameRows
    BY <1>2, <1>3, <2>5
  <2> QED
    BY <2>4, <2>6, <2>7, StepMoves
<1>6. CASE claimable = {}
  <2> DEFINE t == [tx[q] EXCEPT !.at = "closing", !.answer = "no_run_available"]
  <2>1. tx' = [tx EXCEPT ![q] = t]
    BY <1>6 DEF PollUpdate
  <2>2. t \in Transactions
    BY <1>1 DEF Transactions, Places, Answers
  <2>3. Placed(q, t) /\ Holds(q, t) /\ Presents(q, t) /\ t.at \notin HoldsRow
    BY <1>1, <1>4 DEF Placed, Transactions, HoldsRow, Presents, Holds
  <2>4. t.answer \notin {"granted", "accepted"}
    BY <1>1 DEF Transactions
  <2> QED
    BY <1>2, <2>1, <2>2, <2>3, <2>4, StepMoves
<1> QED
  BY <1>5, <1>6

LEMMA SubmissionKeeps ==
  ASSUME PoolInv, NEW q \in Requests, AcceptUpdate(q) \/ ProbeRejection(q) \/ InsertFindings(q)
  PROVE  PoolInv'
<1>1. /\ tx[q] \in Transactions /\ tx[q].answer \in Answers
      /\ Placed(q, tx[q]) /\ Holds(q, tx[q]) /\ Told(q, tx[q]) /\ Presents(q, tx[q])
  BY Known DEF Transactions
<1>2. SameRows /\ tx[q].at \in {"update", "unmatched", "absorbed"}
  BY DEF AcceptUpdate, ProbeRejection, InsertFindings
<1>3. tx[q].answer \notin {"granted", "accepted"}
  BY <1>1, <1>2 DEF Told
<1>4. q \in Submissions /\ q \notin Claims /\ ~tx[q].poll
  BY <1>1, PoolAssumption DEF AcceptUpdate, ProbeRejection, InsertFindings, Placed
<1>5. ASSUME NEW at \in {"absorbed", "unmatched", "inserted"}, Moves(q, at),
             NEW t, t = [tx[q] EXCEPT !.at = at],
             Placed(q, t), Holds(q, t), Presents(q, t),
             t.at \in HoldsRow => ~Locked(t.run) \/ tx[q].at \in HoldsRow
      PROVE  PoolInv'
  <2>1. t \in Transactions /\ tx' = [tx EXCEPT ![q] = t]
    BY <1>1, <1>5 DEF Transactions, Places, Moves
  <2>2. t.run = tx[q].run /\ t.answer = tx[q].answer
    BY <1>1, <1>5 DEF Transactions
  <2> QED
    BY <1>2, <1>3, <1>5, <2>1, <2>2, StepMoves
<1>6. CASE /\ AcceptUpdate(q) /\ tx[q].run \in Runs
           /\ AcceptMatches(row[tx[q].run], tx[q].token, Permitted(q))
           /\ ~Locked(tx[q].run) /\ Moves(q, "absorbed")
  <2>1. PICK t : t = [tx[q] EXCEPT !.at = "absorbed"]
    OBVIOUS
  <2>2. /\ t.run = tx[q].run /\ t.at = "absorbed" /\ t.poll = tx[q].poll
        /\ t.token = tx[q].token /\ t.patch = tx[q].patch
    BY <1>1, <2>1 DEF Transactions
  <2>3. Placed(q, t) /\ Holds(q, t) /\ Presents(q, t)
    BY <1>4, <1>6, <2>2 DEF Placed, HoldsRow, Holds, Permitted, Presents
  <2> QED
    BY <1>5, <1>6, <2>1, <2>2, <2>3
<1>7. CASE /\ AcceptUpdate(q) /\ Moves(q, "unmatched")
           /\ ~(/\ tx[q].run \in Runs
                /\ AcceptMatches(row[tx[q].run], tx[q].token, Permitted(q)))
  <2>1. PICK t : t = [tx[q] EXCEPT !.at = "unmatched"]
    OBVIOUS
  <2>2. /\ t.run = tx[q].run /\ t.at = "unmatched" /\ t.poll = tx[q].poll
        /\ t.token = tx[q].token /\ t.patch = tx[q].patch
    BY <1>1, <2>1 DEF Transactions
  <2>3. tx[q].at = "update"
    BY <1>7 DEF AcceptUpdate
  <2>4. Placed(q, t) /\ Holds(q, t) /\ t.at \notin HoldsRow
    BY <1>1, <1>4, <2>2, <2>3 DEF Placed, HoldsRow, Holds
  <2>5. Presents(q, t)
    BY <1>1, <1>4, <1>7, <2>2, <2>3 DEF Presents, Permitted
  <2> QED
    BY <1>5, <1>7, <2>1, <2>4, <2>5
<1>8. CASE InsertFindings(q)
  <2>1. PICK t : t = [tx[q] EXCEPT !.at = "inserted"]
    OBVIOUS
  <2>2. /\ t.run = tx[q].run /\ t.at = "inserted" /\ t.poll = tx[q].poll
        /\ t.token = tx[q].token /\ t.patch = tx[q].patch
    BY <1>1, <2>1 DEF Transactions
  <2>3. Moves(q, "inserted") /\ tx[q].at = "absorbed"
    BY <1>8 DEF InsertFindings
  <2>4. Placed(q, t) /\ Holds(q, t) /\ Presents(q, t)
    BY <1>1, <1>4, <2>2, <2>3 DEF Placed, HoldsRow, Holds, Presents
  <2>5. tx[q].at \in HoldsRow
    BY <2>3 DEF HoldsRow
  <2> QED
    BY <1>5, <2>1, <2>3, <2>4, <2>5
<1>9. CASE ProbeRejection(q) /\ tx[q].run = UnknownRun
  <2>1. tx' = [tx EXCEPT ![q].at = "closing", ![q].answer = "unknown_run"]
    BY <1>9, PoolAssumption DEF ProbeRejection
  <2>2. PICK t : t = [tx[q] EXCEPT !.at = "closing", !.answer = "unknown_run"]
    OBVIOUS
  <2>3. tx' = [tx EXCEPT ![q] = t]
    BY <2>1, <2>2
  <2>4. t \in Transactions
    BY <1>1, <2>2 DEF Transactions, Places, Answers, Rejections
  <2>5. t.at = "closing" /\ t.run = UnknownRun /\ t.poll = tx[q].poll /\ t.answer = "unknown_run"
    BY <1>1, <1>9, <2>2 DEF Transactions
  <2>6. Placed(q, t) /\ Holds(q, t) /\ Presents(q, t) /\ t.at \notin HoldsRow
    BY <1>1, <1>4, <2>5 DEF Placed, HoldsRow, Holds, Presents
  <2> QED
    BY <1>2, <2>3, <2>4, <2>5, <2>6, StepMoves
<1>10. CASE ProbeRejection(q) /\ tx[q].run # UnknownRun
  <2> DEFINE answer == Rejection(tx[q].run, tx[q].token, tx[q].patch)
  <2>1. PICK t : t = [tx[q] EXCEPT !.at = "probed", !.answer = answer]
    OBVIOUS
  <2>2. /\ tx[q].run \in Runs /\ ~Locked(tx[q].run) /\ tx[q].at = "unmatched"
        /\ tx' = [tx EXCEPT ![q] = t]
    BY <1>1, <1>10, <2>1 DEF ProbeRejection
  <2>3. answer \in {"not_eligible", "execution_mismatch", "malformed"}
    BY DEF Rejection
  <2>4. t \in Transactions
    BY <1>1, <2>1, <2>3 DEF Transactions, Places, Answers, Rejections
  <2>5. /\ t.at = "probed" /\ t.run = tx[q].run /\ t.poll = tx[q].poll /\ t.answer = answer
        /\ t.token = tx[q].token /\ t.patch = tx[q].patch
    BY <1>1, <2>1 DEF Transactions
  <2>6. Placed(q, t) /\ Presents(q, t)
    BY <1>1, <1>4, <2>2, <2>5 DEF Placed, HoldsRow, Presents
  <2>7. ~AcceptMatches(row[t.run], t.token, ~t.patch \/ t.run \notin Runs \/ t.run \in FixRuns)
    BY <1>1, <1>4, <2>2, <2>5 DEF Presents, AcceptMatches
  <2>8. Holds(q, t)
    BY <2>2, <2>3, <2>5, <2>7 DEF Holds, Rejection, AcceptMatches
  <2> QED
    BY <1>2, <2>2, <2>3, <2>4, <2>5, <2>6, <2>8, StepMoves
<1> QED
  BY <1>6, <1>7, <1>8, <1>9, <1>10 DEF AcceptUpdate

-----------------------------------------------------------------------------
(* The ends of a request. *)

(* A transaction that ends without a write leaves nothing but its answer. *)
LEMMA NoWriteKeeps ==
  ASSUME PoolInv, NEW q \in Requests, NEW t, UNCHANGED <<row, findings, installed, now, changes>>,
         tx' = [tx EXCEPT ![q] = t], unacked \subseteq unacked', unacked' \subseteq Requests,
         faults' \in 0..MaxFaults, tx[q].at # "done", t \in Transactions, t.at = "done",
         t.answer \notin {"granted", "accepted"}, ~t.poll
  PROVE  PoolInv'
<1>1. t.at \notin HoldsRow
  BY DEF HoldsRow
<1>2. Placed(q, t) /\ Holds(q, t) /\ Presents(q, t)
  BY <1>1 DEF Placed, Holds, Presents
<1> QED
  BY <1>1, <1>2, RequestMoves

LEMMA RollbackKeeps ==
  ASSUME PoolInv, NEW q \in Requests, RollsBack(q), tx[q].at # "done",
         UNCHANGED <<installed, now, changes>>, unacked \subseteq unacked',
         unacked' \subseteq Requests, faults' \in 0..MaxFaults
  PROVE  PoolInv'
<1>1. PICK t : t = [Closed EXCEPT !.answer = "unavailable"]
  OBVIOUS
<1>2. t \in Transactions /\ t.at = "done" /\ t.answer = "unavailable" /\ ~t.poll
  BY <1>1, ClosedIsHarmless DEF Closed, Answers
<1> QED
  BY <1>1, <1>2, NoWriteKeeps DEF RollsBack, Ends

LEMMA Bounds ==
  ASSUME PoolInv
  PROVE  /\ unacked \subseteq Requests /\ faults \in 0..MaxFaults
         /\ faults < MaxFaults => faults + 1 \in 0..MaxFaults
  BY PoolAssumption DEF PoolInv, TypeOK

LEMMA RenderKeeps ==
  ASSUME PoolInv, NEW q \in Requests, RenderSpec(q)
  PROVE  PoolInv'
<1>1. /\ tx[q] \in Transactions /\ tx[q].answer \in Answers
      /\ Placed(q, tx[q]) /\ Holds(q, tx[q]) /\ Told(q, tx[q]) /\ Presents(q, tx[q])
  BY Known DEF Transactions
<1>2. tx[q].at = "claimed" /\ UNCHANGED <<installed, unacked, now, faults, changes>>
  BY DEF RenderSpec
<1>3. CASE Moves(q, "rendered") /\ UNCHANGED <<row, findings>>
  <2>1. PICK t : t = [tx[q] EXCEPT !.at = "rendered"]
    OBVIOUS
  <2>2. t \in Transactions /\ tx' = [tx EXCEPT ![q] = t]
    BY <1>1, <1>3, <2>1 DEF Transactions, Places, Moves
  <2>3. /\ t.at = "rendered" /\ t.run = tx[q].run /\ t.poll = tx[q].poll
        /\ t.clock = tx[q].clock /\ t.answer = tx[q].answer
    BY <1>1, <2>1 DEF Transactions
  <2>4. Placed(q, t) /\ Holds(q, t) /\ Presents(q, t)
    BY <1>1, <1>2, <2>3, PoolAssumption DEF Placed, HoldsRow, Holds, Presents
  <2>5. t.answer \notin {"granted", "accepted"} /\ tx[q].at # "done"
    BY <1>1, <1>2, <2>3 DEF Told
  <2>6. SameRows /\ tx[q].at \in HoldsRow
    BY <1>2, <1>3 DEF SameRows, HoldsRow
  <2> QED
    BY <2>2, <2>3, <2>4, <2>5, <2>6, StepMoves
<1>4. CASE RollsBack(q)
  BY <1>2, <1>4, Bounds, RollbackKeeps
<1> QED
  BY <1>3, <1>4 DEF RenderSpec

LEMMA FailureKeeps ==
  ASSUME PoolInv, NEW q \in Requests, TransactionFails(q)
  PROVE  PoolInv'
  BY Bounds, RollbackKeeps DEF TransactionFails

(* A request that commits what it wrote to the row r it holds: x becomes the  *)
(* row, f its Findings.  Nobody else knew anything of that row.               *)
LEMMA WriterCommits ==
  ASSUME PoolInv, NEW q \in Requests, NEW t \in Transactions, NEW r \in Runs, NEW x \in RunRows,
         NEW f \in SUBSET Submissions,
         tx[q].at \in HoldsRow, tx[q].run = r, ~row[r].accepted,
         row' = [row EXCEPT ![r] = x], findings' = [findings EXCEPT ![r] = f],
         tx' = [tx EXCEPT ![q] = t], UNCHANGED <<installed, now, changes>>,
         unacked \subseteq unacked', unacked' \subseteq Requests, faults' \in 0..MaxFaults,
         SoundRow(x, f), t.at = "done", ~t.poll,
         Told(q, t)',
         \/ row[r].token = None /\ x.token = q
         \/ x.token = row[r].token /\ ~ResultEligibleWindow(x),
         x.token = q /\ q \in Claims \ unacked' => t.answer = "granted" /\ t.run = r
  PROVE  PoolInv'
<1>1. TypeOK'
  BY DEF PoolInv, TypeOK
<1>2. /\ tx'[q] = t /\ \A p \in Requests \ {q} : tx'[p] = tx[p]
      /\ row'[r] = x /\ \A s \in Runs \ {r} : row'[s] = row[s]
      /\ findings'[r] = f /\ \A s \in Runs \ {r} : findings'[s] = findings[s]
  BY DEF PoolInv, TypeOK
<1>3. t.at \notin HoldsRow /\ tx[q].at # "done"
  BY DEF HoldsRow
<1>4. Exclusive'
  BY <1>2, <1>3 DEF PoolInv, Exclusive
<1>5. SoundRows'
  BY <1>2 DEF PoolInv, SoundRows
<1>6. ASSUME NEW p \in Requests \ {q}
      PROVE  Placed(p, tx[p]) /\ Holds(p, tx[p])' /\ Told(p, tx[p])' /\ Presents(p, tx[p])'
  <2>1. /\ Placed(p, tx[p]) /\ Holds(p, tx[p]) /\ Told(p, tx[p]) /\ Presents(p, tx[p])
        /\ tx[p] \in Transactions
    BY Known
  <2>2. Holds(p, tx[p])'
    <3>1. tx[p].at \in HoldsRow => tx[p].run \in Runs \ {r}
      BY <2>1 DEF Placed, PoolInv, Exclusive
    <3> QED
      BY <1>2, <2>1, <3>1 DEF Holds, HoldsRow
  <2>3. Told(p, tx[p])'
    <3>1. tx[p].answer = "accepted" => tx[p].run # r
      BY <2>1 DEF Told
    <3>2. p \in Claims => None # p
      BY IdsAssumption DEF Claims, Executions
    <3>3. tx[p].answer = "granted" => row'[tx[p].run].token = p
      BY <1>2, <2>1, <3>2 DEF Told
    <3>4. p \in Claims /\ tx[p].at # "done" => \A s \in Runs : row'[s].token # p
      BY <1>2, <2>1 DEF Told
    <3> QED
      BY <1>2, <2>1, <3>1, <3>3, <3>4 DEF Told
  <2>4. Presents(p, tx[p])'
    <3> SUFFICES ASSUME p \in Submissions, tx[p].at \in {"update", "unmatched"}
                 PROVE  /\ tx[p].token \in Claims /\ tx'[tx[p].token].at = "done"
                        /\ tx[p].at = "unmatched" /\ tx[p].run \in Runs =>
                             ~AcceptMatches(row'[tx[p].run], tx[p].token,
                                            ~tx[p].patch \/ tx[p].run \in FixRuns)
      BY DEF Presents
    <3>1. tx[p].token \in Claims /\ tx[tx[p].token].at = "done" /\ tx[p].token # q
      BY <1>3, <2>1 DEF Presents
    <3>2. tx'[tx[p].token].at = "done"
      BY <1>2, <3>1 DEF Requests
    <3>3. ASSUME tx[p].at = "unmatched", tx[p].run = r
          PROVE  ~AcceptMatches(x, tx[p].token, ~tx[p].patch \/ r \in FixRuns)
      BY <3>1, <3>3 DEF AcceptMatches
    <3> QED
      BY <1>2, <2>1, <3>1, <3>2, <3>3 DEF Presents
  <2> QED
    BY <2>1, <2>2, <2>3, <2>4
<1>7. Placed(q, t) /\ Holds(q, t)' /\ Presents(q, t)'
  BY <1>3 DEF Placed, Holds, Presents, HoldsRow
<1>8. SoundRequests'
  BY <1>2, <1>6, <1>7 DEF SoundRequests, Placed
<1>9. Owned'
  <2> SUFFICES ASSUME NEW s \in Runs, row'[s].token \in Claims \ unacked'
               PROVE  tx'[row'[s].token].answer = "granted" /\ tx'[row'[s].token].run = s
    BY DEF Owned
  <2> DEFINE holder == row'[s].token
  <2>1. CASE holder = q
    <3>1. \A u \in Runs : row[u].token # q
      BY <1>3, <2>1, Known DEF Told
    <3>2. s = r
      BY <1>2, <2>1, <3>1
    <3> QED
      BY <1>2, <2>1, <3>2
  <2>2. CASE holder # q
    <3>1. holder = row[s].token
      BY <1>2, <2>2
    <3> QED
      BY <1>2, <2>2, <3>1 DEF PoolInv, Owned, Requests
  <2> QED
    BY <2>1, <2>2
<1> QED
  BY <1>1, <1>4, <1>5, <1>8, <1>9 DEF PoolInv

LEMMA GrantCommits ==
  ASSUME PoolInv, NEW q \in Requests, Commit(q), tx[q].at = "rendered"
  PROVE  PoolInv'
<1> DEFINE r == tx[q].run
           x == Claim(row[r], q, tx[q].clock)
<1>1. /\ tx[q] \in Transactions /\ tx[q].clock \in Nat
      /\ Placed(q, tx[q]) /\ Holds(q, tx[q]) /\ Told(q, tx[q])
  BY Known, PoolAssumption DEF Transactions
<1>2. /\ q \in Claims /\ q \in Executions /\ q # None /\ q \notin Submissions
      /\ r \in Runs /\ row[r].status = "queued" /\ row[r] \in RunRows
      /\ SoundRow(row[r], findings[r]) /\ findings[r] \in SUBSET Submissions
  BY <1>1, PoolAssumption, IdsAssumption
  DEF Placed, Holds, ClaimMatches, HoldsRow, Claims, PoolInv, SoundRows, TypeOK, Executions
<1>3. ~row[r].accepted /\ row[r].token = None /\ findings[r] = {}
  BY <1>2 DEF SoundRow, AcceptedStatuses
<1>4. x \in RunRows /\ x.token = q /\ SoundRow(x, {})
  <2>1. x \in RunRows
    BY <1>1, <1>2, PoolRowTypes
  <2>2. x.token = q /\ x.status = "claimed" /\ x.accepted = row[r].accepted
    BY <1>2 DEF Claim, RunRows
  <2> QED
    BY <1>3, <2>1, <2>2 DEF SoundRow
<1>5. row' = [row EXCEPT ![r] = x] /\ findings' = [findings EXCEPT ![r] = {}]
  <2>1. row' = [row EXCEPT ![r] = x] /\ findings' = findings
    BY DEF Commit, Written
  <2>2. findings = [findings EXCEPT ![r] = {}]
    BY <1>2, <1>3 DEF PoolInv, TypeOK
  <2> QED
    BY <2>1, <2>2
<1> HIDE DEF x
<1>6. UNCHANGED <<installed, now, changes>> /\ tx[q].at \in HoldsRow
  BY DEF Commit, HoldsRow
<1>7. row'[r].token = q
  BY <1>2, <1>4, <1>5 DEF PoolInv, TypeOK
<1>8. CASE /\ tx' = [tx EXCEPT ![q] = [Closed EXCEPT !.answer = Answer(q), !.found = tx[q].found,
                                                    !.run = r]]
           /\ UNCHANGED <<unacked, faults>>
  <2>1. PICK t : t = [Closed EXCEPT !.answer = "granted", !.found = tx[q].found, !.run = r]
    OBVIOUS
  <2>2. /\ t.at = "done" /\ ~t.poll /\ t.answer = "granted" /\ t.run = r
    BY <2>1 DEF Closed
  <2>3. t \in Transactions
    BY <1>1, <1>2, <2>1, ClosedTypes DEF Transactions, Answers
  <2>4. tx' = [tx EXCEPT ![q] = t]
    BY <1>8, <2>1 DEF Answer
  <2>5. Told(q, t)'
    BY <1>2, <1>7, <2>2 DEF Told
  <2>6. unacked \subseteq unacked' /\ unacked' \subseteq Requests /\ faults' \in 0..MaxFaults
    BY <1>8, Bounds
  <2> QED
    BY <1>2, <1>3, <1>4, <1>5, <1>6, <2>2, <2>3, <2>4, <2>5, <2>6, WriterCommits
<1>9. CASE /\ faults < MaxFaults /\ faults' = faults + 1
           /\ unacked' = unacked \cup {q} /\ Ends(q, "unavailable")
  <2>1. PICK t : t = [Closed EXCEPT !.answer = "unavailable"]
    OBVIOUS
  <2>2. t.at = "done" /\ ~t.poll /\ t.answer = "unavailable" /\ t \in Transactions
    BY <2>1, ClosedIsHarmless DEF Closed, Answers
  <2>3. tx' = [tx EXCEPT ![q] = t]
    BY <1>9, <2>1 DEF Ends
  <2>4. Told(q, t)'
    BY <2>2 DEF Told
  <2>5. unacked \subseteq unacked' /\ unacked' \subseteq Requests /\ faults' \in 0..MaxFaults
        /\ q \in unacked'
    BY <1>9, Bounds
  <2> QED
    BY <1>2, <1>3, <1>4, <1>5, <1>6, <2>2, <2>3, <2>4, <2>5, WriterCommits
<1> QED
  BY <1>8, <1>9 DEF Commit

LEMMA AcceptanceCommits ==
  ASSUME PoolInv, NEW q \in Requests, Commit(q), tx[q].at = "inserted"
  PROVE  PoolInv'
<1> DEFINE r == tx[q].run
           f == IF tx[q].found THEN {q} ELSE {}
<1>1. tx[q] \in Transactions /\ Placed(q, tx[q]) /\ Holds(q, tx[q]) /\ Told(q, tx[q])
  BY Known
<1>2. /\ q \in Submissions /\ q \notin Claims
      /\ r \in Runs /\ ResultEligibleWindow(row[r]) /\ row[r] \in RunRows
      /\ SoundRow(row[r], findings[r])
  <2>1. q \in Submissions /\ q \notin Claims /\ r \in Runs /\ ResultEligibleWindow(row[r])
    BY <1>1, PoolAssumption DEF Placed, Holds, AcceptMatches, HoldsRow
  <2> QED
    BY <2>1 DEF PoolInv, SoundRows, TypeOK
<1>3. ~row[r].accepted /\ findings[r] = {} /\ f \in SUBSET Submissions
  BY <1>2 DEF SoundRow, ResultEligibleWindow
<1>4. PICK status \in AcceptedStatuses :
         /\ row' = [row EXCEPT ![r] = Accept(row[r], status)]
         /\ findings' = [findings EXCEPT ![r] = IF tx[q].found THEN findings[r] \cup {q}
                                                ELSE findings[r]]
  BY DEF Commit, Written
<1>5. findings' = [findings EXCEPT ![r] = f]
  BY <1>3, <1>4
<1> DEFINE x == Accept(row[r], status)
<1>6. /\ x \in RunRows /\ x.token = row[r].token /\ x.accepted /\ x.status \in AcceptedStatuses
      /\ ~ResultEligibleWindow(x) /\ SoundRow(x, f)
  <2>1. x \in RunRows
    BY <1>2, PoolRowTypes
  <2>2. x.token = row[r].token /\ x.accepted /\ x.status = status
    BY <1>2 DEF Accept, RunRows
  <2> QED
    BY <1>2, <2>1, <2>2 DEF SoundRow, ResultEligibleWindow, AcceptedStatuses
<1>7. row' = [row EXCEPT ![r] = x]
  BY <1>4
<1> HIDE DEF x
<1>8. UNCHANGED <<installed, now, changes>> /\ tx[q].at \in HoldsRow
  BY DEF Commit, HoldsRow
<1>9. row'[r].accepted /\ findings'[r] = f
  BY <1>2, <1>5, <1>6, <1>7 DEF PoolInv, TypeOK
<1>10. CASE /\ tx' = [tx EXCEPT ![q] = [Closed EXCEPT !.answer = Answer(q), !.found = tx[q].found,
                                                     !.run = r]]
            /\ UNCHANGED <<unacked, faults>>
  <2>1. PICK t : t = [Closed EXCEPT !.answer = "accepted", !.found = tx[q].found, !.run = r]
    OBVIOUS
  <2>2. t.at = "done" /\ ~t.poll /\ t.answer = "accepted" /\ t.run = r /\ t.found = tx[q].found
    BY <2>1 DEF Closed
  <2>3. t \in Transactions
    BY <1>1, <1>2, <2>1, ClosedTypes DEF Transactions, Answers
  <2>4. tx' = [tx EXCEPT ![q] = t]
    BY <1>10, <2>1 DEF Answer
  <2>5. Told(q, t)'
    BY <1>2, <1>9, <2>2 DEF Told
  <2>6. unacked \subseteq unacked' /\ unacked' \subseteq Requests /\ faults' \in 0..MaxFaults
    BY <1>10, Bounds
  <2> QED
    BY <1>2, <1>3, <1>5, <1>6, <1>7, <1>8, <2>2, <2>3, <2>4, <2>5, <2>6, WriterCommits
<1>11. CASE /\ faults < MaxFaults /\ faults' = faults + 1
            /\ unacked' = unacked \cup {q} /\ Ends(q, "unavailable")
  <2>1. PICK t : t = [Closed EXCEPT !.answer = "unavailable"]
    OBVIOUS
  <2>2. t.at = "done" /\ ~t.poll /\ t.answer = "unavailable" /\ t \in Transactions
    BY <2>1, ClosedIsHarmless DEF Closed, Answers
  <2>3. tx' = [tx EXCEPT ![q] = t]
    BY <1>11, <2>1 DEF Ends
  <2>4. Told(q, t)'
    BY <2>2 DEF Told
  <2>5. unacked \subseteq unacked' /\ unacked' \subseteq Requests /\ faults' \in 0..MaxFaults
    BY <1>11, Bounds
  <2> QED
    BY <1>2, <1>3, <1>5, <1>6, <1>7, <1>8, <2>2, <2>3, <2>4, <2>5, WriterCommits
<1> QED
  BY <1>10, <1>11 DEF Commit

LEMMA AnswerCommits ==
  ASSUME PoolInv, NEW q \in Requests, Commit(q), tx[q].at \in {"probed", "closing"}
  PROVE  PoolInv'
<1>1. tx[q] \in Transactions /\ Told(q, tx[q])
  BY Known
<1>2. UNCHANGED <<row, findings, installed, now, changes>>
  BY DEF Commit, Written
<1>3. tx[q].answer \in Answers \ {"granted", "accepted"} /\ tx[q].at # "done"
  BY <1>1 DEF Told, Transactions
<1>4. CASE /\ tx' = [tx EXCEPT ![q] = [Closed EXCEPT !.answer = Answer(q), !.found = tx[q].found,
                                                    !.run = None]]
           /\ UNCHANGED <<unacked, faults>>
  <2>1. PICK t : t = [Closed EXCEPT !.answer = tx[q].answer, !.found = tx[q].found, !.run = None]
    OBVIOUS
  <2>2. t.at = "done" /\ ~t.poll /\ t.answer = tx[q].answer
    BY <2>1 DEF Closed
  <2>3. t \in Transactions
    BY <1>1, <1>3, <2>1, ClosedTypes DEF Transactions
  <2>4. tx' = [tx EXCEPT ![q] = t]
    BY <1>4, <2>1 DEF Answer
  <2> QED
    BY <1>2, <1>3, <1>4, <2>2, <2>3, <2>4, Bounds, NoWriteKeeps
<1>5. CASE /\ faults < MaxFaults /\ faults' = faults + 1
           /\ unacked' = unacked \cup {q} /\ Ends(q, "unavailable")
  <2>1. RollsBack(q)
    BY <1>2, <1>5 DEF RollsBack
  <2> QED
    BY <1>2, <1>3, <1>5, <2>1, Bounds, RollbackKeeps
<1> QED
  BY <1>4, <1>5 DEF Commit

LEMMA CommitKeeps == ASSUME PoolInv, NEW q \in Requests, Commit(q) PROVE PoolInv'
  BY GrantCommits, AcceptanceCommits, AnswerCommits DEF Commit

-----------------------------------------------------------------------------
(* The other writers, who wait for whoever holds the row. *)
LEMMA OutsiderWrites ==
  ASSUME PoolInv, NEW r \in Runs, NEW x \in RunRows, ~Locked(r),
         row' = [row EXCEPT ![r] = x],
         UNCHANGED <<findings, installed, tx, unacked, now, faults>>, changes' \in 0..MaxChanges,
         x.token = row[r].token, x.accepted = row[r].accepted,
         ResultEligibleWindow(x) => ResultEligibleWindow(row[r]),
         SoundRow(x, findings[r])
  PROVE  PoolInv'
<1>1. TypeOK'
  BY DEF PoolInv, TypeOK
<1>2. row'[r] = x /\ \A s \in Runs \ {r} : row'[s] = row[s]
  BY DEF PoolInv, TypeOK
<1>3. \A s \in Runs : row'[s].token = row[s].token /\ row'[s].accepted = row[s].accepted
  BY <1>2
<1>4. Exclusive' /\ SoundRows' /\ Owned'
  BY <1>2, <1>3 DEF PoolInv, Exclusive, SoundRows, Owned
<1>5. ASSUME NEW q \in Requests
      PROVE  Placed(q, tx[q]) /\ Holds(q, tx[q])' /\ Told(q, tx[q])' /\ Presents(q, tx[q])'
  <2>1. Placed(q, tx[q]) /\ Holds(q, tx[q]) /\ Told(q, tx[q]) /\ Presents(q, tx[q])
    BY Known
  <2>2. tx[q].at \in HoldsRow => tx[q].run \in Runs \ {r}
    BY <2>1 DEF Placed, Locked
  <2>3. Holds(q, tx[q])'
    BY <1>2, <2>1, <2>2 DEF Holds, HoldsRow
  <2>4. Told(q, tx[q])'
    BY <1>3, <2>1 DEF Told
  <2>5. Presents(q, tx[q])'
    BY <1>2, <2>1 DEF Presents, AcceptMatches
  <2> QED
    BY <2>1, <2>3, <2>4, <2>5
<1>6. SoundRequests'
  BY <1>5 DEF SoundRequests, Placed
<1> QED
  BY <1>1, <1>4, <1>6 DEF PoolInv

LEMMA MarkPassKeeps == ASSUME PoolInv, NEW e \in Requests, MarkPass(e) PROVE PoolInv'
<1> DEFINE r == tx[e].run
           x == MarkExecuting(row[r], e)
<1>1. /\ r \in Runs /\ row[r].token = e /\ e \in HostedExecutions /\ ~Locked(r)
      /\ ResultEligibleWindow(row[r]) /\ row' = [row EXCEPT ![r] = x]
  BY Known DEF MarkPass, Told, MarkExecutingMatches
<1>2. row[r] \in RunRows /\ SoundRow(row[r], findings[r])
  BY <1>1 DEF PoolInv, TypeOK, SoundRows
<1>3. x \in RunRows
  BY <1>1, <1>2, PoolRowTypes
<1>4. x.token = row[r].token /\ x.accepted = row[r].accepted /\ x.status = "executing"
  BY <1>2 DEF MarkExecuting, RunRows
<1> HIDE DEF x
<1>5. SoundRow(x, findings[r])
  BY <1>1, <1>2, <1>4 DEF SoundRow, ResultEligibleWindow
<1>6. UNCHANGED <<findings, installed, tx, unacked, now, faults>> /\ changes' \in 0..MaxChanges
  BY DEF MarkPass, PoolInv, TypeOK
<1> QED
  BY <1>1, <1>3, <1>4, <1>5, <1>6, OutsiderWrites

LEMMA EndRunKeeps == ASSUME PoolInv, NEW r \in Runs, EndRun(r) PROVE PoolInv'
<1> DEFINE x == EndLive(row[r], "superseded")
<1>1. row[r].status \in LiveStatuses /\ ~Locked(r) /\ row' = [row EXCEPT ![r] = x]
  BY DEF EndRun, EndLiveMatches
<1>2. row[r] \in RunRows /\ SoundRow(row[r], findings[r])
  BY DEF PoolInv, TypeOK, SoundRows
<1>3. x \in RunRows
  BY <1>2, PoolRowTypes DEF IngressEndings
<1>4. x.token = row[r].token /\ x.accepted = row[r].accepted /\ x.status = "superseded"
  BY <1>2 DEF EndLive, RunRows
<1> HIDE DEF x
<1>5. SoundRow(x, findings[r])
  BY <1>1, <1>2, <1>4 DEF SoundRow, LiveStatuses, AcceptedStatuses
<1>6. UNCHANGED <<findings, installed, tx, unacked, now, faults>> /\ changes' \in 0..MaxChanges
  BY PoolAssumption DEF EndRun, PoolInv, TypeOK
<1>7. ~ResultEligibleWindow(x)
  BY <1>4 DEF ResultEligibleWindow, ResultEligibleStatuses
<1> QED
  BY <1>1, <1>3, <1>4, <1>5, <1>6, <1>7, OutsiderWrites

LEMMA BystandersKeep ==
  ASSUME PoolInv, UNCHANGED <<row, findings, tx, unacked>>, TypeOK'
  PROVE  PoolInv'
<1>1. Exclusive' /\ SoundRows' /\ Owned'
  BY DEF PoolInv, Exclusive, SoundRows, Owned
<1>2. \A q \in Requests : Holds(q, tx[q])'
  BY DEF PoolInv, SoundRequests, Holds
<1>3. \A q \in Requests : Placed(q, tx[q])' /\ Told(q, tx[q])' /\ Presents(q, tx[q])'
  BY DEF PoolInv, SoundRequests, Placed, Told, Presents
<1> QED
  BY <1>1, <1>2, <1>3 DEF PoolInv, SoundRequests

LEMMA PoolStarts == Init => PoolInv
<1> SUFFICES ASSUME Init PROVE PoolInv
  OBVIOUS
<1>1. PICK placement \in [Runs -> Placements] : row = [r \in Runs |-> InsertRun(placement[r], 0)]
  BY DEF Init
<1>2. ASSUME NEW r \in Runs
      PROVE  /\ row[r] \in RunRows /\ row[r].token = None
             /\ row[r].status = "queued" /\ ~row[r].accepted
  <2>1. 0 + ClaimableFor \in Nat
    BY WindowsAssumption
  <2> QED
    BY <1>1, <2>1 DEF InsertRun, RunRows, Statuses, LiveStatuses
<1>3. \A q \in Requests : /\ tx[q].at = "idle" /\ tx[q].answer = "none" /\ ~tx[q].poll
                          /\ tx[q] \in Transactions
  BY PoolAssumption DEF Init, Transactions, Places, Answers
<1>4. TypeOK
  <2>1. row \in [Runs -> RunRows]
    BY <1>1, <1>2
  <2>2. findings \in [Runs -> SUBSET Submissions] /\ installed \subseteq Runs
    BY DEF Init
  <2>3. tx \in [Requests -> Transactions]
    BY <1>3 DEF Init
  <2>4. 0 \in 0..MaxClock /\ 0 \in 0..MaxFaults /\ 0 \in 0..MaxChanges
    BY PoolAssumption
  <2> QED
    BY <2>1, <2>2, <2>3, <2>4 DEF Init, TypeOK
<1>5. None \notin Claims
  BY IdsAssumption DEF Claims, Executions
<1>6. Exclusive
  BY <1>3 DEF Exclusive, HoldsRow
<1>7. SoundRows /\ Owned
  BY <1>2, <1>5 DEF Init, SoundRows, SoundRow, Owned
<1>8. SoundRequests
  BY <1>2, <1>3, <1>5 DEF SoundRequests, Placed, Holds, Told, Presents, HoldsRow
<1> QED
  BY <1>4, <1>6, <1>7, <1>8 DEF PoolInv

LEMMA PoolNext == PoolInv /\ [Next]_vars => PoolInv'
<1> SUFFICES ASSUME PoolInv, [Next]_vars PROVE PoolInv'
  OBVIOUS
<1>1. CASE Tick
  <2>1. TypeOK'
    BY <1>1, PoolAssumption DEF Tick, PoolInv, TypeOK
  <2> QED
    BY <1>1, <2>1, BystandersKeep DEF Tick
<1>2. ASSUME NEW r \in Runs, ChangeInstallation(r) PROVE PoolInv'
  <2>1. TypeOK'
    BY <1>2, PoolAssumption DEF ChangeInstallation, PoolInv, TypeOK
  <2> QED
    BY <1>2, <2>1, BystandersKeep DEF ChangeInstallation
<1>3. ASSUME NEW q \in Requests, Serve(q) PROVE PoolInv'
  BY <1>3, StatementKeeps, PollKeeps, SubmissionKeeps, RenderKeeps, CommitKeeps DEF Serve
<1>4. CASE UNCHANGED vars
  <2>1. TypeOK'
    BY <1>4 DEF vars, PoolInv, TypeOK
  <2> QED
    BY <1>4, <2>1, BystandersKeep DEF vars
<1> QED
  BY <1>1, <1>2, <1>3, <1>4, EndRunKeeps, ArrivalKeeps, FailureKeeps, MarkPassKeeps DEF Next

(* The pool keeps to its types, and what a transaction found of the row it     *)
(* locked is still so when it commits.                                        *)
THEOREM PoolIsSound == Spec => []PoolInv
  BY PoolStarts, PoolNext, PTL DEF Spec

-----------------------------------------------------------------------------
(* A Run belongs to the one request that was told so, or whose commit nobody   *)
(* acknowledged, for any number of claims that compete for any number of Runs. *)
THEOREM GrantsStayHeld == Spec => []GrantsAreHeld
<1>1. PoolInv => GrantsAreHeld
  BY DEF PoolInv, SoundRequests, Told, Owned, GrantsAreHeld, Requests
<1> QED
  BY <1>1, PoolIsSound, PTL

(* The name of a rejection is true of its Run until its transaction is over.   *)
THEOREM RejectionsHold == Spec => []RejectionHolds
<1>1. PoolInv => RejectionHolds
  <2> SUFFICES ASSUME PoolInv, NEW q \in Submissions, tx[q].at \in {"probed", "closing"},
                      tx[q].run \in Runs
               PROVE  LET r        == tx[q].run
                          eligible == ResultEligibleWindow(row[r])
                      IN CASE tx[q].answer = "not_eligible"       -> ~eligible
                           [] tx[q].answer = "execution_mismatch" ->
                                eligible /\ row[r].token # tx[q].token
                           [] tx[q].answer = "malformed"          ->
                                /\ eligible /\ row[r].token = tx[q].token
                                /\ ~Permitted(q)
    BY DEF RejectionHolds
  <2>1. q \in Requests
    BY DEF Requests
  <2>2. tx[q].at = "probed" /\ Holds(q, tx[q])
    BY <2>1, Known, PoolAssumption DEF Placed
  <2>3. CASE tx[q].answer = "not_eligible"
    BY <2>2, <2>3 DEF Holds
  <2>4. CASE tx[q].answer = "execution_mismatch"
    BY <2>2, <2>4 DEF Holds
  <2>5. CASE tx[q].answer = "malformed"
    BY <2>2, <2>5 DEF Holds, Permitted
  <2> QED
    BY <2>2, <2>3, <2>4, <2>5 DEF Holds
<1> QED
  BY <1>1, PoolIsSound, PTL

(* A Run carries the Findings of the one Result it accepted, and no others.    *)
THEOREM FindingsStayTheAccepted == Spec => []FindingsAreTheAccepted
<1>1. PoolInv => FindingsAreTheAccepted
  <2> SUFFICES ASSUME PoolInv, NEW r \in Runs
               PROVE  /\ Cardinality(findings[r]) <= 1
                      /\ findings[r] # {} => row[r].accepted
                      /\ \A q \in Submissions :
                           tx[q].answer = "accepted" /\ tx[q].run = r =>
                             findings[r] = (IF tx[q].found THEN {q} ELSE {})
    BY DEF FindingsAreTheAccepted
  <2>1. SoundRow(row[r], findings[r])
    BY DEF PoolInv, SoundRows
  <2>2. Cardinality(findings[r]) <= 1
    <3>1. Cardinality({}) = 0
      BY FS_EmptySet
    <3>2. \A q \in Submissions : Cardinality({q}) = 1
      BY FS_Singleton
    <3> QED
      BY <2>1, <3>1, <3>2 DEF SoundRow
  <2>3. \A q \in Submissions : Told(q, tx[q])
    BY Known DEF Requests
  <2> QED
    BY <2>1, <2>2, <2>3 DEF SoundRow, Told
<1> QED
  BY <1>1, PoolIsSound, PTL

(* What a claim or a submission found of its row is so until it ends, for any *)
(* number of them, and whoever ends the Run, marks it or revokes its          *)
(* Installation meanwhile.                                                    *)
THEOREM DecisionsStandToTheEnd == Spec => []DecisionsStand
<1>1. PoolInv => DecisionsStand
  <2> SUFFICES ASSUME PoolInv, NEW q \in Requests
               PROVE  /\ tx[q].at \in {"claimed", "rendered"} =>
                           ClaimMatches(row[tx[q].run], q, tx[q].clock, TRUE)
                      /\ tx[q].at \in {"absorbed", "inserted"} =>
                           AcceptMatches(row[tx[q].run], tx[q].token, Permitted(q))
    BY DEF DecisionsStand
  <2>1. Holds(q, tx[q])
    BY Known
  <2> QED
    BY <2>1 DEF Holds, Permitted
<1> QED
  BY <1>1, PoolIsSound, PTL

-----------------------------------------------------------------------------
(* What a step of the pool does to one Run. *)
RowStep(r) ==
  \/ UNCHANGED <<row, now>>
  \/ UNCHANGED row /\ now' = now + 1
  \/ /\ UNCHANGED now
     /\ \/ row'[r] = row[r]
        \/ \E e \in Claims, at \in Nat :
             /\ row[r].status = "queued" /\ row[r].claimableUntil > at
             /\ row'[r] = Claim(row[r], e, at)
        \/ \E e \in HostedExecutions :
             row[r].status = "claimed" /\ row'[r] = MarkExecuting(row[r], e)
        \/ \E status \in AcceptedStatuses :
             ResultEligibleWindow(row[r]) /\ row'[r] = Accept(row[r], status)
        \/ EndLiveMatches(row[r]) /\ row'[r] = EndLive(row[r], "superseded")

LEMMA StepsOfARun ==
  ASSUME PoolInv, [Next]_vars, NEW r \in Runs
  PROVE  RowStep(r)
<1>1. CASE UNCHANGED <<row, now>>
  BY <1>1 DEF RowStep
<1>2. CASE Tick
  BY <1>2 DEF Tick, RowStep
<1>3. ASSUME NEW s \in Runs, EndRun(s) PROVE RowStep(r)
  BY <1>3 DEF EndRun, RowStep, PoolInv, TypeOK
<1>4. ASSUME NEW e \in Requests, MarkPass(e) PROVE RowStep(r)
  BY <1>4 DEF MarkPass, MarkExecutingMatches, RowStep, PoolInv, TypeOK
<1>5. ASSUME NEW q \in Requests, Commit(q) PROVE RowStep(r)
  <2>1. UNCHANGED now
    BY <1>5 DEF Commit
  <2>2. Placed(q, tx[q]) /\ Holds(q, tx[q]) /\ tx[q].clock \in Nat
    BY Known, PoolAssumption DEF Transactions
  <2>3. CASE tx[q].at = "rendered"
    <3>1. row' = [row EXCEPT ![tx[q].run] = Claim(row[tx[q].run], q, tx[q].clock)]
      BY <1>5, <2>3 DEF Commit, Written
    <3>2. q \in Claims /\ row[tx[q].run].status = "queued"
          /\ row[tx[q].run].claimableUntil > tx[q].clock
      BY <2>2, <2>3 DEF Placed, Holds, ClaimMatches
    <3>3. row'[r] = row[r] \/ (r = tx[q].run /\ row'[r] = Claim(row[r], q, tx[q].clock))
      BY <3>1 DEF PoolInv, TypeOK
    <3> QED
      BY <2>1, <2>2, <3>2, <3>3 DEF RowStep
  <2>4. CASE tx[q].at = "inserted"
    <3>1. PICK status \in AcceptedStatuses :
             row' = [row EXCEPT ![tx[q].run] = Accept(row[tx[q].run], status)]
      BY <1>5, <2>4 DEF Commit, Written
    <3>2. ResultEligibleWindow(row[tx[q].run])
      BY <2>2, <2>4 DEF Holds, AcceptMatches
    <3>3. row'[r] = row[r] \/ (r = tx[q].run /\ row'[r] = Accept(row[r], status))
      BY <3>1 DEF PoolInv, TypeOK
    <3> QED
      BY <2>1, <3>2, <3>3 DEF RowStep
  <2>5. CASE tx[q].at \in {"probed", "closing"}
    BY <1>5, <2>1, <2>5 DEF Commit, Written, RowStep
  <2> QED
    BY <1>5, <2>3, <2>4, <2>5 DEF Commit
<1>6. ASSUME NEW q \in Requests, ReceiveClaim(q) \/ DispatchClaim(q) \/ ReceiveSubmission(q)
      PROVE  UNCHANGED <<row, now>>
  BY <1>6 DEF ReceiveClaim, DispatchClaim, ReceiveSubmission, SameRows
<1>7. ASSUME NEW q \in Requests, Serve(q), ~Commit(q)
      PROVE  UNCHANGED <<row, now>>
  BY <1>7
  DEF Serve, Contact, PollUpdate, NamedUpdate, NameClaimRefusal, RenderSpec, AcceptUpdate,
      ProbeRejection, InsertFindings, SameRows, RollsBack
<1>8. ASSUME NEW q \in Requests, TransactionFails(q)
      PROVE  UNCHANGED <<row, now>>
  BY <1>8 DEF TransactionFails, RollsBack
<1>9. ASSUME NEW s \in Runs, ChangeInstallation(s)
      PROVE  UNCHANGED <<row, now>>
  BY <1>9 DEF ChangeInstallation
<1> QED
  BY <1>1, <1>2, <1>3, <1>4, <1>5, <1>6, <1>7, <1>8, <1>9 DEF Next, vars

LEMMA RowKeepsItsContract ==
  ASSUME PoolInv, NEW r \in Runs, RowStep(r)
  PROVE  [Contract(r)!ContractNext]_(Contract(r)!contractVars)
<1>1. row[r] \in RunRows /\ now \in Nat /\ SoundRow(row[r], findings[r])
  BY PoolAssumption DEF PoolInv, TypeOK, SoundRows
<1>2. CASE UNCHANGED <<row, now>>
  BY <1>2 DEF Contract!contractVars
<1>3. CASE UNCHANGED row /\ now' = now + 1
  BY <1>3 DEF Contract!ContractNext, Contract!Elapse
<1>4. CASE UNCHANGED now /\ row'[r] = row[r]
  BY <1>4 DEF Contract!contractVars
<1>5. ASSUME UNCHANGED now, NEW e \in Claims, NEW at \in Nat, row[r].status = "queued",
             row[r].claimableUntil > at, row'[r] = Claim(row[r], e, at)
      PROVE  Contract(r)!Grant
  <2>1. /\ at + LivenessFor \in Nat
        /\ at + LivenessFor < row[r].claimableUntil + LivenessFor
    BY <1>1, <1>5, WindowsAssumption DEF RunRows
  <2>2. row[r].token = None /\ e # None /\ e \in Executions
    BY <1>1, <1>5, IdsAssumption DEF SoundRow, Claims
  <2>3. /\ row'[r].status = "claimed" /\ row'[r].token = e
        /\ row'[r].executionExpiresAt = at + LivenessFor
        /\ row'[r].workflowRunId = row[r].workflowRunId
        /\ row'[r].failure = row[r].failure
    BY <1>1, <1>5 DEF Claim, RunRows
  <2> QED
    BY <1>5, <2>1, <2>2, <2>3 DEF Contract!Grant
<1>6. ASSUME UNCHANGED now, NEW e \in HostedExecutions, row[r].status = "claimed",
             row'[r] = MarkExecuting(row[r], e)
      PROVE  Contract(r)!Begin
  BY <1>1, <1>6 DEF MarkExecuting, RunRows, Contract!Begin
<1>7. ASSUME UNCHANGED now, NEW status \in AcceptedStatuses, ResultEligibleWindow(row[r]),
             row'[r] = Accept(row[r], status)
      PROVE  Contract(r)!Accept
  BY <1>1, <1>7
  DEF Accept, AcceptedStatuses, ResultEligibleWindow, ResultEligibleStatuses, RunRows,
      Contract!Accept, Contract!Granted
<1>8. ASSUME UNCHANGED now, EndLiveMatches(row[r]), row'[r] = EndLive(row[r], "superseded")
      PROVE  Contract(r)!Withdraw
  BY <1>1, <1>8
  DEF EndLive, EndLiveMatches, LiveStatuses, RunRows, Contract!Withdraw, Contract!Granted
<1> QED
  BY <1>2, <1>3, <1>4, <1>5, <1>6, <1>7, <1>8 DEF RowStep, Contract!ContractNext

(* Each of the Runs that compete for their claimants does what RunContract     *)
(* allows: one grant, timed inside the claim window, and one end.             *)
THEOREM PoolKeepsTheContract == Spec => EveryRunKeepsItsContract
<1>1. Init => \A r \in Runs : Contract(r)!ContractInit
  <2> SUFFICES ASSUME Init, NEW r \in Runs PROVE Contract(r)!ContractInit
    OBVIOUS
  <2>1. PICK placement \in [Runs -> Placements] :
           row = [s \in Runs |-> InsertRun(placement[s], 0)]
    BY DEF Init
  <2>2. 0 + ClaimableFor \in Nat /\ now = 0
    BY WindowsAssumption DEF Init
  <2> QED
    BY <2>1, <2>2 DEF InsertRun, Contract!ContractInit
<1>2. PoolInv /\ [Next]_vars =>
        [\A r \in Runs : [Contract(r)!ContractNext]_(Contract(r)!contractVars)]_vars
  BY StepsOfARun, RowKeepsItsContract
<1> QED
  BY <1>1, <1>2, PoolIsSound, PTL DEF Spec, EveryRunKeepsItsContract
=============================================================================
