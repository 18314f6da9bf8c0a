---------------------------- MODULE IngressProofs ----------------------------
(***************************************************************************)
(* What the ledger, the Runs and the decisions of one pull request keep to *)
(* for any number of deliveries, Runs, heads, retries and faults.          *)
(*                                                                         *)
(* A decision is read at one step and committed at a later one.  The       *)
(* advisory lock makes what was read still true then: no second            *)
(* transaction decides in between (OneHolder), and the only writers left,  *)
(* those that end a live Run from outside, wait for the rows the decision  *)
(* updated (SoundDecision).                                                *)
(***************************************************************************)
EXTENDS Ingress, TLAPS

OneHolder == \A d, e \in Deliveries : session[d] # None /\ session[e] # None => d = e

(* The lock holder's delivery is still to be concluded, and nobody but the *)
(* attempt that waits on the transaction is in its own waiting step.       *)
Holding ==
  \A d \in Deliveries :
    /\ session[d] # None => row[d].state = "received" /\ row[d].kind \in Acting
    /\ session[d] # None /\ session[d].obs = None => session[d].decision = None
    /\ work[d].pc = "waiting" => session[d] # None /\ session[d].attached

Born == \A r \in RunIds : runs[r].status = "none" <=> runs[r].by = None

InOrder ==
  /\ decided # None => decided.obs.version <= pr.version
  /\ \A d \in Deliveries :
       session[d] # None /\ session[d].obs # None =>
         /\ session[d].obs.version <= pr.version
         /\ decided # None => decided.obs.version <= session[d].obs.version

(* What a transaction read before it wrote is still so. *)
Sound(obs, kind, decision) ==
  /\ obs \in Canonical
  /\ decision.ids \subseteq LiveRuns
  /\ ~obs.ready => decision.ids = LiveRuns /\ decision.outcome # Done
  /\ obs.ready /\ kind = "cancel" => decision.outcome # Done
  /\ obs.ready /\ kind = "review" =>
       /\ \A r \in LiveRuns \ decision.ids : runs[r].head = obs.head
       /\ decision.outcome # Done <=> RunAtHead(obs.head)

SoundDecision ==
  \A d \in Deliveries :
    Decided(d) => Sound(session[d].obs, row[d].kind, session[d].decision)

(* A workflow run exists only for a committed row, and is past its first   *)
(* step only once the row is concluded.                                    *)
Behind ==
  \A d \in Deliveries :
    /\ work[d].pc # "idle" => row[d].state \in {"received"} \cup Terminal
    /\ work[d].pc \in {"dispatch", "notify", "finished"} => row[d].state \in Terminal

IngressInv ==
  /\ TypeOK /\ OneHolder /\ Holding /\ Born /\ InOrder /\ SoundDecision /\ Behind
  /\ OneRun /\ LastDecisionStands /\ DoneIsItsRun

Outcomes ==
  {Done} \cup {Discarded(why) : why \in Dispositions}
    \cup {Received(class) : class \in RetryClasses}

-----------------------------------------------------------------------------
(* The ledger: what one settlement does to a row.                          *)
LEMMA OutcomeFields ==
  ASSUME NEW outcome \in Outcomes
  PROVE  /\ outcome.state \in {"received"} \cup Terminal
         /\ outcome.retryClass \in RetryClasses \cup {None}
         /\ outcome.disposition \in Dispositions \cup {None}
         /\ DOMAIN outcome = {"state", "kind", "retryClass", "disposition"}
         /\ outcome.state = "done" <=> outcome = Done
<1>1. CASE outcome = Done
  BY <1>1 DEF Done, Settled, Terminal
<1>2. CASE \E why \in Dispositions : outcome = Discarded(why)
  BY <1>2 DEF Done, Discarded, Settled, Terminal
<1>3. CASE \E class \in RetryClasses : outcome = Received(class)
  BY <1>3 DEF Done, Received, Settled, Terminal
<1> QED
  BY <1>1, <1>2, <1>3 DEF Outcomes

LEMMA SettleARow ==
  ASSUME NEW x \in LedgerRows, NEW outcome \in Outcomes
  PROVE  /\ SettleDelivery(x, outcome) \in LedgerRows
         /\ SettleDelivery(x, outcome).kind = x.kind
         /\ x.state # "received" => SettleDelivery(x, outcome) = x
         /\ x.state = "received" => SettleDelivery(x, outcome).state = outcome.state
<1>1. CASE x.state = "received"
  <2> DEFINE y == [outcome EXCEPT !.kind = x.kind]
  <2>1. SettleDelivery(x, outcome) = y
    BY <1>1 DEF SettleDelivery
  <2>2. /\ outcome.state \in {"received"} \cup Terminal
        /\ outcome.retryClass \in RetryClasses \cup {None}
        /\ outcome.disposition \in Dispositions \cup {None}
    BY OutcomeFields
  <2>3. outcome = [state |-> outcome.state, kind |-> None,
                   retryClass |-> outcome.retryClass, disposition |-> outcome.disposition]
    BY DEF Outcomes, Done, Discarded, Received, Settled
  <2>4. y = [state |-> outcome.state, kind |-> x.kind,
             retryClass |-> outcome.retryClass, disposition |-> outcome.disposition]
    BY <2>3
  <2>5. x.kind \in Kinds \cup {None}
    BY DEF LedgerRows
  <2> QED
    BY <1>1, <2>1, <2>2, <2>4, <2>5 DEF LedgerRows
<1>2. CASE x.state # "received"
  BY <1>2 DEF SettleDelivery
<1> QED
  BY <1>1, <1>2

LEMMA SettleRows ==
  ASSUME row \in [Deliveries -> LedgerRows], NEW d \in Deliveries, NEW outcome \in Outcomes,
         row' = [row EXCEPT ![d] = SettleDelivery(@, outcome)]
  PROVE  /\ row' \in [Deliveries -> LedgerRows]
         /\ \A x \in Deliveries \ {d} : row'[x] = row[x]
         /\ \A x \in Deliveries : row'[x].kind = row[x].kind
         /\ \A x \in Deliveries : row[x].state # "received" => row'[x] = row[x]
         /\ row[d].state = "received" => row'[d].state = outcome.state
<1>1. row'[d] = SettleDelivery(row[d], outcome)
  OBVIOUS
<1>2. row[d] \in LedgerRows
  OBVIOUS
<1> QED
  BY <1>1, <1>2, SettleARow

(* A new delivery takes a row that nothing has happened to. *)
LEMMA EmitRows ==
  ASSUME row \in [Deliveries -> LedgerRows], NEW d \in Deliveries, NEW kind \in Kinds \cup {None}, Emit(d, kind)
  PROVE  /\ row' \in [Deliveries -> LedgerRows]
         /\ \A x \in Deliveries \ {d} : row'[x] = row[x]
         /\ row[d].state = "none" /\ row'[d].state = "in_flight"
  BY DEF Emit, LedgerRows

LEMMA RowStates ==
  ASSUME row \in [Deliveries -> LedgerRows], NEW d \in Deliveries,
         NEW state \in {"lost", "received"}, row' = [row EXCEPT ![d].state = state]
  PROVE  /\ row' \in [Deliveries -> LedgerRows]
         /\ \A x \in Deliveries \ {d} : row'[x] = row[x]
         /\ \A x \in Deliveries : row'[x].kind = row[x].kind
         /\ row'[d].state = state
  BY DEF LedgerRows

-----------------------------------------------------------------------------
(* The workflow: what one answer does to it.                               *)
LEMMA WorkSteps ==
  ASSUME NEW w \in WorkRuns, NEW limit \in Nat, NEW runId \in RunIds \cup {None},
         NEW ended \in RunIds \cup {None}
  PROVE  /\ Retried(w, limit) \in WorkRuns
         /\ Retried(w, limit).pc \in {w.pc, "failed"}
         /\ AttemptAgain(w) \in WorkRuns
         /\ AttemptAgain(w).pc \in {"attempt", "failed"}
         /\ Advance(w, runId, ended) \in WorkRuns
         /\ Advance(w, runId, ended).pc \in {"dispatch", "notify", "finished"}
<1>1. \A v \in WorkRuns, n \in Nat : Retried(v, n) \in WorkRuns /\ Retried(v, n).pc \in {v.pc, "failed"}
  BY DEF Retried, WorkRuns, WorkPoints
<1>2. [w EXCEPT !.pc = "attempt"] \in WorkRuns /\ [w EXCEPT !.pc = "attempt"].pc = "attempt"
  BY DEF WorkRuns, WorkPoints
<1>3. AttemptAgain(w) \in WorkRuns /\ AttemptAgain(w).pc \in {"attempt", "failed"}
  BY <1>1, <1>2, IngressAssumption DEF AttemptAgain
<1>4. Advance(w, runId, ended) \in WorkRuns /\ Advance(w, runId, ended).pc \in {"dispatch", "notify", "finished"}
  BY DEF Advance, WorkRuns, WorkPoints
<1> QED
  BY <1>1, <1>3, <1>4

LEMMA ConcludedWork ==
  ASSUME NEW w \in WorkRuns, NEW outcome \in Outcomes, NEW runId \in RunIds \cup {None},
         NEW ended \in RunIds \cup {None}
  PROVE  /\ Concluded(w, outcome, runId, ended) \in WorkRuns
         /\ Concluded(w, outcome, runId, ended).pc
              \in IF outcome.state = "received" THEN {"attempt", "failed"}
                  ELSE {"dispatch", "notify", "finished"}
<1>1. [w EXCEPT !.pc = "failed"] \in WorkRuns /\ [w EXCEPT !.pc = "failed"].pc = "failed"
  BY DEF WorkRuns, WorkPoints
<1>2. CASE outcome.state = "received"
  <2>1. Concluded(w, outcome, runId, ended) = Redrive(w, outcome.retryClass)
    BY <1>2 DEF Concluded
  <2>2. Redrive(w, outcome.retryClass) \in {[w EXCEPT !.pc = "failed"], AttemptAgain(w)}
    BY DEF Redrive
  <2>3. AttemptAgain(w) \in WorkRuns /\ AttemptAgain(w).pc \in {"attempt", "failed"}
    BY WorkSteps, IngressAssumption
  <2> QED
    BY <1>1, <1>2, <2>1, <2>2, <2>3
<1>3. CASE outcome.state # "received"
  <2>1. Concluded(w, outcome, runId, ended) = Advance(w, runId, ended)
    BY <1>3 DEF Concluded
  <2>2. Advance(w, runId, ended) \in WorkRuns
        /\ Advance(w, runId, ended).pc \in {"dispatch", "notify", "finished"}
    BY WorkSteps, IngressAssumption
  <2> QED
    BY <1>3, <2>1, <2>2
<1> QED
  BY <1>2, <1>3

-----------------------------------------------------------------------------
(* Steps that leave every transaction, Run and decision alone.             *)

(* A delivery arrives, is lost or is committed; the pull request may have  *)
(* changed.                                                                *)
LEMMA ArrivalKeeps ==
  ASSUME IngressInv, NEW d \in Deliveries,
         pr' \in Canonical, pr'.version >= pr.version,
         row' \in [Deliveries -> LedgerRows], \A x \in Deliveries \ {d} : row'[x] = row[x],
         row[d].state \in {"none", "in_flight"},
         row'[d].state \in {"in_flight", "lost", "received"},
         work' \in [Deliveries -> WorkRuns], \A x \in Deliveries \ {d} : work'[x] = work[x],
         work'[d].pc = work[d].pc \/ (work'[d].pc = "attempt" /\ row'[d].state = "received"),
         faults' \in 0..MaxFaults, UNCHANGED <<session, runs, decided>>
  PROVE  IngressInv'
<1>1. work[d].pc = "idle" /\ session[d] = None
  BY DEF IngressInv, Behind, Holding, Terminal
<1>2. TypeOK'
  BY DEF IngressInv, TypeOK
<1>3. OneHolder' /\ Born' /\ OneRun'
  BY DEF IngressInv, OneHolder, Born, OneRun
<1>4. Holding'
  BY <1>1 DEF IngressInv, Holding
<1>5. Behind'
  BY <1>1 DEF IngressInv, Behind
<1>6. InOrder'
  <2>1. decided # None => decided \in LastDecided
    BY DEF IngressInv, TypeOK
  <2>2. ASSUME NEW x \in Deliveries, session[x] # None, session[x].obs # None
        PROVE  session[x].obs \in Canonical
    BY <2>2 DEF IngressInv, TypeOK, Transactions
  <2>3. pr \in Canonical /\ pr.version \in Nat /\ pr'.version \in Nat
    BY DEF IngressInv, TypeOK, Canonical
  <2>4. decided' # None => decided'.obs.version <= pr'.version
    BY <2>1, <2>3 DEF IngressInv, InOrder, LastDecided, Canonical
  <2>5. ASSUME NEW x \in Deliveries, session'[x] # None, session'[x].obs # None
        PROVE  /\ session'[x].obs.version <= pr'.version
               /\ decided' # None => decided'.obs.version <= session'[x].obs.version
    BY <2>2, <2>3, <2>5 DEF IngressInv, InOrder, Canonical
  <2> QED
    BY <2>4, <2>5 DEF InOrder
<1>7. SoundDecision'
  <2>1. LiveRuns' = LiveRuns
    BY DEF LiveRuns
  <2>2. ASSUME NEW x \in Deliveries, Decided(x)'
        PROVE  Sound(session[x].obs, row[x].kind, session[x].decision)' 
    <3>1. Decided(x) /\ x # d
      BY <1>1, <2>2 DEF Decided
    <3>2. Sound(session[x].obs, row[x].kind, session[x].decision)
      BY <3>1 DEF IngressInv, SoundDecision
    <3> QED
      BY <2>1, <3>1, <3>2 DEF Sound, RunAtHead
  <2> QED
    BY <2>2 DEF SoundDecision
<1>8. LastDecisionStands'
  BY DEF IngressInv, LastDecisionStands, RunAtHead, LiveRuns
<1>9. DoneIsItsRun'
  <2>1. \A x \in Deliveries : row'[x].state = "done" <=> row[x].state = "done"
    OBVIOUS
  <2> QED
    BY <2>1 DEF IngressInv, DoneIsItsRun
<1> QED
  BY <1>2, <1>3, <1>4, <1>5, <1>6, <1>7, <1>8, <1>9 DEF IngressInv

(* An attempt ends without having held the lock. *)
LEMMA AttemptKeeps ==
  ASSUME IngressInv, NEW d \in Deliveries,
         row' \in [Deliveries -> LedgerRows], \A x \in Deliveries \ {d} : row'[x] = row[x],
         \A x \in Deliveries : row'[x].kind = row[x].kind,
         row[d].state # "received" => row'[d] = row[d],
         row[d].state = "received" =>
           row'[d].state \in IF row[d].kind \in Acting THEN {"received"}
                             ELSE {"received", "discarded"},
         work' \in [Deliveries -> WorkRuns], \A x \in Deliveries \ {d} : work'[x] = work[x],
         work[d].pc \in {"attempt", "broken", "dispatch", "notify"},
         work'[d].pc \in {work[d].pc, "attempt", "failed"}
           \/ (work'[d].pc \in {"dispatch", "notify", "finished"} /\ row'[d].state \in Terminal),
         faults' \in 0..MaxFaults, UNCHANGED <<pr, session, runs, decided>>
  PROVE  IngressInv'
<1>1. TypeOK'
  BY DEF IngressInv, TypeOK
<1>2. OneHolder' /\ Born' /\ OneRun' /\ InOrder'
  BY DEF IngressInv, OneHolder, Born, OneRun, InOrder
<1>3. work'[d].pc # "waiting"
  OBVIOUS
<1>4. Holding'
  BY <1>3 DEF IngressInv, Holding
<1>5. Behind'
  BY DEF IngressInv, Behind, Terminal
<1>6. SoundDecision'
  BY DEF IngressInv, SoundDecision, Sound, Decided, LiveRuns, RunAtHead
<1>7. LastDecisionStands'
  BY DEF IngressInv, LastDecisionStands, RunAtHead, LiveRuns
<1>8. DoneIsItsRun'
  <2>1. \A x \in Deliveries : row'[x].state = "done" <=> row[x].state = "done"
    OBVIOUS
  <2> QED
    BY <2>1 DEF IngressInv, DoneIsItsRun
<1> QED
  BY <1>1, <1>2, <1>4, <1>5, <1>6, <1>7, <1>8 DEF IngressInv

-----------------------------------------------------------------------------
(* Steps of the transaction that leave the Runs alone.                     *)

(* The lock is taken: no other transaction is open. *)
LEMMA AcquireKeeps ==
  ASSUME IngressInv, NEW d \in Deliveries, Acquire(d)
  PROVE  IngressInv'
<1> DEFINE opened == [obs |-> None, attached |-> TRUE, decision |-> None]
<1>1. /\ \A x \in Deliveries : session[x] = None
      /\ row[d].kind \in Acting /\ row[d].state = "received" /\ work[d].pc = "attempt"
      /\ session' = [session EXCEPT ![d] = opened]
      /\ work' = [work EXCEPT ![d].pc = "waiting"]
      /\ UNCHANGED <<pr, row, runs, decided, faults>>
  BY DEF Acquire, LockIsFree, StillReceived
<1>2. opened \in Transactions /\ opened.attached
  BY DEF Transactions
<1>3. session' \in [Deliveries -> Transactions \cup {None}] /\ session'[d] = opened
      /\ \A x \in Deliveries \ {d} : session'[x] = None
  BY <1>1, <1>2 DEF IngressInv, TypeOK
<1>4. work' \in [Deliveries -> WorkRuns] /\ work'[d].pc = "waiting"
      /\ \A x \in Deliveries \ {d} : work'[x] = work[x]
  BY <1>1 DEF IngressInv, TypeOK, WorkRuns, WorkPoints
<1>5. TypeOK'
  BY <1>1, <1>3, <1>4 DEF IngressInv, TypeOK
<1>6. OneHolder' /\ Born' /\ OneRun' /\ DoneIsItsRun'
  BY <1>1, <1>3 DEF IngressInv, OneHolder, Born, OneRun, DoneIsItsRun
<1>7. Holding'
  BY <1>1, <1>2, <1>3, <1>4, NoTransactionAssumption DEF IngressInv, Holding
<1>8. InOrder'
  BY <1>1, <1>3 DEF IngressInv, InOrder
<1>9. SoundDecision'
  BY <1>3 DEF SoundDecision, Decided
<1>10. Behind'
  BY <1>1, <1>4 DEF IngressInv, Behind
<1>11. LastDecisionStands'
  BY <1>1 DEF IngressInv, LastDecisionStands, RunAtHead, LiveRuns
<1> QED
  BY <1>5, <1>6, <1>7, <1>8, <1>9, <1>10, <1>11 DEF IngressInv

(* The holder learns or writes something that it does not commit yet. *)
LEMMA HolderKeeps ==
  ASSUME IngressInv, NEW d \in Deliveries, NEW s \in Transactions, session[d] # None,
         session' = [session EXCEPT ![d] = s], s.attached = session[d].attached,
         s.obs # None => /\ s.obs.version <= pr.version
                         /\ decided # None => decided.obs.version <= s.obs.version,
         s.obs = None => s.decision = None, s.decision # None => Sound(s.obs, row[d].kind, s.decision),
         UNCHANGED <<pr, row, work, runs, decided, faults>>
  PROVE  IngressInv'
<1>1. session' \in [Deliveries -> Transactions \cup {None}] /\ session'[d] = s
      /\ \A x \in Deliveries \ {d} : session'[x] = None /\ session[x] = None
  BY DEF IngressInv, TypeOK, OneHolder
<1>2. TypeOK'
  BY <1>1 DEF IngressInv, TypeOK
<1>3. OneHolder' /\ Born' /\ OneRun' /\ DoneIsItsRun' /\ Behind'
  BY <1>1 DEF IngressInv, OneHolder, Born, OneRun, DoneIsItsRun, Behind
<1>4. Holding'
  BY <1>1, NoTransactionAssumption DEF IngressInv, Holding
<1>5. InOrder'
  BY <1>1 DEF IngressInv, InOrder
<1>6. SoundDecision'
  BY <1>1 DEF SoundDecision, Decided, Sound, LiveRuns, RunAtHead
<1>7. LastDecisionStands'
  BY DEF IngressInv, LastDecisionStands, RunAtHead, LiveRuns
<1> QED
  BY <1>2, <1>3, <1>4, <1>5, <1>6, <1>7 DEF IngressInv

LEMMA FetchKeeps ==
  ASSUME IngressInv, NEW d \in Deliveries, Fetch(d)
  PROVE  IngressInv'
<1> DEFINE s == [session[d] EXCEPT !.obs = pr]
<1>1. session[d] # None /\ session[d].obs = None /\ session' = [session EXCEPT ![d] = s]
  BY DEF Fetch, Fetching
<1>2. session[d] \in Transactions /\ pr \in Canonical
  BY <1>1 DEF IngressInv, TypeOK
<1>3. s \in Transactions /\ s.obs = pr /\ s.attached = session[d].attached
      /\ s.decision = session[d].decision
  BY <1>2 DEF Transactions
<1>4. decided # None => decided.obs.version <= pr.version
  BY DEF IngressInv, InOrder
<1>5. pr.version <= pr.version
  BY <1>2 DEF Canonical
<1>6. s.decision = None
  BY <1>1, <1>3 DEF IngressInv, Holding
<1> QED
  BY <1>1, <1>3, <1>4, <1>5, <1>6, HolderKeeps DEF Fetch

(* A decision reads the Runs and writes no Run it does not read. *)
LEMMA DecisionSound ==
  ASSUME TypeOK, NEW obs \in Canonical, NEW kind \in Acting, NEW decision,
         \/ ~obs.ready /\ decision = Decision(LiveRuns, "cancelled", Discarded("ineligible"))
         \/ obs.ready /\ kind = "cancel" /\ decision = Decision({}, "cancelled", Discarded("unchanged"))
         \/ /\ obs.ready /\ kind = "review"
            /\ decision = Decision(SupersededBy(obs), "superseded",
                            IF RunAtHead(obs.head) THEN Discarded("duplicate_head") ELSE Done)
  PROVE  decision \in Decisions /\ Sound(obs, kind, decision)
<1>1. \A why \in Dispositions : Discarded(why) # Done
  BY DEF Discarded, Done, Settled
<1>2. LiveRuns \subseteq RunIds /\ SupersededBy(obs) \subseteq LiveRuns
      /\ \A r \in LiveRuns \ SupersededBy(obs) : runs[r].head = obs.head
  BY DEF LiveRuns, SupersededBy
<1>3. {"ineligible", "unchanged", "duplicate_head"} \subseteq Dispositions
  BY DEF Dispositions
<1>4. \A ids \in SUBSET RunIds, ended \in {"superseded", "cancelled"},
         outcome \in {Done} \cup {Discarded(why) : why \in Dispositions} :
        /\ Decision(ids, ended, outcome) \in Decisions
        /\ Decision(ids, ended, outcome).ids = ids
        /\ Decision(ids, ended, outcome).outcome = outcome
  BY DEF Decision, Decisions
<1>5. CASE ~obs.ready
  <2>1. decision = Decision(LiveRuns, "cancelled", Discarded("ineligible"))
    BY <1>5
  <2>2. decision \in Decisions /\ decision.ids = LiveRuns /\ decision.outcome # Done
    BY <1>1, <1>2, <1>3, <1>4, <2>1
  <2> QED
    BY <1>5, <2>2 DEF Sound
<1>6. CASE obs.ready /\ kind = "cancel"
  <2>1. decision = Decision({}, "cancelled", Discarded("unchanged"))
    BY <1>6
  <2>2. decision \in Decisions /\ decision.ids = {} /\ decision.outcome # Done
    BY <1>1, <1>3, <1>4, <2>1
  <2> QED
    BY <1>6, <2>2 DEF Sound
<1>7. CASE obs.ready /\ kind = "review"
  <2> DEFINE outcome == IF RunAtHead(obs.head) THEN Discarded("duplicate_head") ELSE Done
  <2>1. decision = Decision(SupersededBy(obs), "superseded", outcome)
    BY <1>7
  <2>2. outcome \in {Done} \cup {Discarded(why) : why \in Dispositions}
        /\ (outcome # Done <=> RunAtHead(obs.head))
    BY <1>1, <1>3
  <2>3. decision \in Decisions /\ decision.ids = SupersededBy(obs) /\ decision.outcome = outcome
    <3> HIDE DEF outcome
    <3>1. SupersededBy(obs) \in SUBSET RunIds /\ "superseded" \in {"superseded", "cancelled"}
      BY <1>2
    <3> QED
      BY <1>4, <2>1, <2>2, <3>1
  <2> QED
    BY <1>2, <1>7, <2>2, <2>3 DEF Sound
<1> QED
  BY <1>5, <1>6, <1>7 DEF Canonical, Acting

LEMMA DecideKeeps ==
  ASSUME IngressInv, NEW d \in Deliveries,
         DecideIneligible(d) \/ DecideUnchanged(d) \/ DecideEligible(d)
  PROVE  IngressInv'
<1>1. Observed(d)
  BY DEF DecideIneligible, DecideUnchanged, DecideEligible
<1>2. session[d] \in Transactions /\ session[d].obs \in Canonical /\ session[d] # None
      /\ session[d].obs # None /\ row[d].kind \in Acting
  BY <1>1 DEF IngressInv, TypeOK, Observed, Transactions, Holding
<1>3. PICK decision :
        /\ Write(d, decision)
        /\ decision \in Decisions /\ Sound(session[d].obs, row[d].kind, decision)
  BY <1>2, DecisionSound DEF DecideIneligible, DecideUnchanged, DecideEligible, IngressInv
<1> DEFINE s == [session[d] EXCEPT !.decision = decision]
<1>4. s \in Transactions /\ s.obs = session[d].obs /\ s.attached = session[d].attached
      /\ s.decision = decision
  BY <1>2, <1>3 DEF Transactions
<1>5. session' = [session EXCEPT ![d] = s] /\ UNCHANGED <<pr, row, work, runs, decided, faults>>
  BY <1>3 DEF Write
<1>6. s.obs.version <= pr.version /\ (decided # None => decided.obs.version <= s.obs.version)
  BY <1>2, <1>4 DEF IngressInv, InOrder
<1> QED
  BY <1>2, <1>3, <1>4, <1>5, <1>6, HolderKeeps

(* How the end of a transaction reaches its attempt. *)
LEMMA ReachesItsAttempt ==
  ASSUME IngressInv, NEW d \in Deliveries, session[d] # None, NEW outcome \in Outcomes,
         NEW runId \in RunIds \cup {None}, NEW ended \in RunIds \cup {None},
         NEW ending \in Endings, Reach(d, outcome, runId, ended, ending)
  PROVE  /\ faults' \in 0..MaxFaults
         /\ work' \in [Deliveries -> WorkRuns]
         /\ \A x \in Deliveries \ {d} : work'[x] = work[x]
         /\ work'[d].pc # "waiting"
         /\ work'[d].pc = work[d].pc \/ work'[d].pc \in {"attempt", "failed", "broken"}
              \/ (work'[d].pc \in {"dispatch", "notify", "finished"} /\ outcome.state # "received")
<1>1. faults' \in 0..MaxFaults
  BY IngressAssumption DEF Reach, Answered, Fault, IngressInv, TypeOK
<1>2. work \in [Deliveries -> WorkRuns] /\ work[d] \in WorkRuns
  BY DEF IngressInv, TypeOK
<1>3. CASE ~session[d].attached
  <2>1. work' = work
    BY <1>3 DEF Reach
  <2>2. work[d].pc # "waiting"
    BY <1>3 DEF IngressInv, Holding
  <2> QED
    BY <1>1, <1>2, <2>1, <2>2
<1>4. CASE session[d].attached
  <2> DEFINE w == CASE ending = "answered" -> Concluded(work[d], outcome, runId, ended)
                    [] ending = "attempt_died" -> AttemptAgain(work[d])
                    [] ending = "commit_unknown" -> [work[d] EXCEPT !.pc = "broken"]
  <2>1. work' = [work EXCEPT ![d] = w]
    BY <1>2, <1>4 DEF Reach
  <2>2. w \in WorkRuns /\ w.pc \in {"attempt", "failed", "broken"}
                                     \cup (IF outcome.state = "received" THEN {}
                                           ELSE {"dispatch", "notify", "finished"})
    <3>1. CASE ending = "answered"
      <4>1. w = Concluded(work[d], outcome, runId, ended)
        BY <3>1
      <4>2. Concluded(work[d], outcome, runId, ended) \in WorkRuns
            /\ Concluded(work[d], outcome, runId, ended).pc
                 \in IF outcome.state = "received" THEN {"attempt", "failed"}
                     ELSE {"dispatch", "notify", "finished"}
        BY <1>2, ConcludedWork
      <4> HIDE DEF w
      <4> QED
        BY <4>1, <4>2
    <3>2. CASE ending = "attempt_died"
      <4>1. w = AttemptAgain(work[d])
        BY <3>2
      <4>2. AttemptAgain(work[d]) \in WorkRuns /\ AttemptAgain(work[d]).pc \in {"attempt", "failed"}
        BY <1>2, WorkSteps, IngressAssumption
      <4> HIDE DEF w
      <4> QED
        BY <4>1, <4>2
    <3>3. CASE ending = "commit_unknown"
      <4>1. w = [work[d] EXCEPT !.pc = "broken"]
        BY <3>3
      <4>2. w \in WorkRuns /\ w.pc = "broken"
        BY <1>2, <4>1 DEF WorkRuns, WorkPoints
      <4> HIDE DEF w
      <4> QED
        BY <4>2
    <3> QED
      BY <3>1, <3>2, <3>3 DEF Endings
  <2> HIDE DEF w
  <2> QED
    BY <1>1, <1>2, <2>1, <2>2
<1> QED
  BY <1>3, <1>4

(* A transaction ends without having touched the Runs. *)
LEMMA CloseKeeps ==
  ASSUME IngressInv, NEW d \in Deliveries, session[d] # None,
         session' = [session EXCEPT ![d] = None],
         row' \in [Deliveries -> LedgerRows], \A x \in Deliveries \ {d} : row'[x] = row[x],
         \A x \in Deliveries : row'[x].kind = row[x].kind,
         row'[d].state \in {"received", "discarded"},
         work' \in [Deliveries -> WorkRuns], \A x \in Deliveries \ {d} : work'[x] = work[x],
         work'[d].pc # "waiting",
         work'[d].pc = work[d].pc \/ work'[d].pc \in {"attempt", "failed", "broken"}
           \/ (work'[d].pc \in {"dispatch", "notify", "finished"} /\ row'[d].state # "received"),
         faults' \in 0..MaxFaults, UNCHANGED <<pr, runs, decided>>
  PROVE  IngressInv'
<1>1. row[d].state = "received"
  BY DEF IngressInv, Holding
<1>2. \A x \in Deliveries : session'[x] = None
  BY DEF IngressInv, OneHolder, TypeOK
<1>3. TypeOK'
  BY <1>2 DEF IngressInv, TypeOK
<1>4. OneHolder' /\ Born' /\ OneRun' /\ InOrder' /\ SoundDecision'
  BY <1>2 DEF IngressInv, OneHolder, Born, OneRun, InOrder, SoundDecision, Decided
<1>5. Holding'
  <2>2. ASSUME NEW x \in Deliveries, work'[x].pc = "waiting"
        PROVE  session'[x] # None /\ session'[x].attached
    <3>1. x # d /\ work[x].pc = "waiting"
      BY <2>2
    <3>2. session[x] # None /\ session[x].attached
      BY <3>1 DEF IngressInv, Holding
    <3> QED
      BY <3>1, <3>2 DEF IngressInv, TypeOK
  <2> QED
    BY <1>2, <2>2 DEF Holding
<1>6. Behind'
  BY <1>1 DEF IngressInv, Behind, Terminal
<1>7. LastDecisionStands'
  BY DEF IngressInv, LastDecisionStands, RunAtHead, LiveRuns
<1>8. DoneIsItsRun'
  <2>1. \A x \in Deliveries : row'[x].state = "done" <=> row[x].state = "done"
    BY <1>1
  <2> QED
    BY <2>1 DEF IngressInv, DoneIsItsRun
<1> QED
  BY <1>3, <1>4, <1>5, <1>6, <1>7, <1>8 DEF IngressInv

LEMMA AttemptDiesKeeps ==
  ASSUME IngressInv, NEW d \in Deliveries, AttemptDies(d)
  PROVE  IngressInv'
<1>1. work[d] \in WorkRuns /\ work[d].pc \in {"attempt", "waiting", "broken"}
  BY DEF IngressInv, TypeOK, AttemptDies
<1>2. AttemptAgain(work[d]) \in WorkRuns /\ AttemptAgain(work[d]).pc \in {"attempt", "failed"}
  BY <1>1, WorkSteps, IngressAssumption
<1>3. work' = [work EXCEPT ![d] = AttemptAgain(work[d])] /\ UNCHANGED <<pr, row, runs, decided>>
  BY DEF AttemptDies, IngressInv, TypeOK
<1>4. work' \in [Deliveries -> WorkRuns] /\ work'[d].pc \in {"attempt", "failed"}
      /\ \A x \in Deliveries \ {d} : work'[x] = work[x]
  BY <1>2, <1>3 DEF IngressInv, TypeOK
<1>5. faults' \in 0..MaxFaults
  BY IngressAssumption DEF AttemptDies, Fault, IngressInv, TypeOK
<1>6. row[d].state \in {"received"} \cup Terminal
  BY <1>1 DEF IngressInv, Behind
<1>7. /\ session' \in [Deliveries -> Transactions \cup {None}]
      /\ \A x \in Deliveries \ {d} : session'[x] = session[x]
      /\ session'[d] # None => session[d] # None
      /\ session'[d] # None => /\ session'[d].obs = session[d].obs
                               /\ session'[d].decision = session[d].decision
  <2>1. CASE work[d].pc = "waiting"
    <3> DEFINE s == [session[d] EXCEPT !.attached = FALSE]
    <3>1. session[d] \in Transactions /\ session[d] # None
      BY <2>1 DEF IngressInv, Holding, TypeOK
    <3>2. session' = [session EXCEPT ![d] = s]
      BY <2>1 DEF AttemptDies, IngressInv, TypeOK
    <3>3. s \in Transactions /\ s.obs = session[d].obs /\ s.decision = session[d].decision
      BY <3>1 DEF Transactions
    <3> QED
      BY <3>1, <3>2, <3>3 DEF IngressInv, TypeOK
  <2>2. CASE work[d].pc # "waiting"
    BY <2>2 DEF AttemptDies, IngressInv, TypeOK
  <2> QED
    BY <2>1, <2>2
<1>8. TypeOK'
  BY <1>3, <1>4, <1>5, <1>7 DEF IngressInv, TypeOK
<1>9. OneHolder' /\ Born' /\ OneRun' /\ DoneIsItsRun'
  BY <1>3, <1>7 DEF IngressInv, OneHolder, Born, OneRun, DoneIsItsRun
<1>10. Holding'
  BY <1>3, <1>4, <1>7 DEF IngressInv, Holding
<1>11. InOrder'
  BY <1>3, <1>7 DEF IngressInv, InOrder
<1>12. SoundDecision'
  BY <1>3, <1>7 DEF IngressInv, SoundDecision, Decided, Sound, LiveRuns, RunAtHead
<1>13. Behind'
  BY <1>3, <1>4, <1>6 DEF IngressInv, Behind
<1>14. LastDecisionStands'
  BY <1>3 DEF IngressInv, LastDecisionStands, RunAtHead, LiveRuns
<1> QED
  BY <1>8, <1>9, <1>10, <1>11, <1>12, <1>13, <1>14 DEF IngressInv

-----------------------------------------------------------------------------
(* The commit, and the other writers of the Runs.                          *)
LEMMA DispatchKeeps ==
  ASSUME IngressInv, NEW d \in Deliveries, NEW answered \in BOOLEAN, Dispatch(d, answered)
  PROVE  IngressInv'
<1>1. work[d] \in WorkRuns /\ work[d].pc = "dispatch"
  BY DEF IngressInv, TypeOK, Dispatch
<1> DEFINE w == IF answered THEN Advance(work[d], None, work[d].ended)
                ELSE Retried(work[d], StepRetries)
<1>2. work[d].ended \in RunIds \cup {None}
  BY <1>1 DEF WorkRuns
<1>3. w \in WorkRuns /\ w.pc \in {"dispatch", "notify", "finished", "failed"}
  <2>1. Advance(work[d], None, work[d].ended) \in WorkRuns
        /\ Advance(work[d], None, work[d].ended).pc \in {"dispatch", "notify", "finished"}
    BY <1>1, <1>2, WorkSteps, IngressAssumption
  <2>2. Retried(work[d], StepRetries) \in WorkRuns
        /\ Retried(work[d], StepRetries).pc \in {"dispatch", "failed"}
    BY <1>1, WorkSteps, IngressAssumption
  <2> QED
    BY <2>1, <2>2
<1>4. work' = [work EXCEPT ![d] = w] /\ UNCHANGED <<pr, row, session, decided>>
  BY DEF Dispatch, IngressInv, TypeOK
<1> HIDE DEF w
<1>5. work' \in [Deliveries -> WorkRuns] /\ work'[d] = w
      /\ \A x \in Deliveries \ {d} : work'[x] = work[x]
  BY <1>3, <1>4 DEF IngressInv, TypeOK
<1>6. faults' \in 0..MaxFaults
  BY IngressAssumption DEF Dispatch, Answered, Fault, IngressInv, TypeOK
<1>7. /\ runs' \in [RunIds -> RunRows]
      /\ \A r \in RunIds : /\ runs'[r].status = runs[r].status
                           /\ runs'[r].head = runs[r].head /\ runs'[r].by = runs[r].by
  <2>1. PICK started \in BOOLEAN :
           runs' = [runs EXCEPT ![work[d].runId].scheduled = @ \/ started]
    BY DEF Dispatch
  <2> DEFINE scheduled == runs[work[d].runId].scheduled \/ started
  <2>2. scheduled \in BOOLEAN
    OBVIOUS
  <2>3. runs' = [runs EXCEPT ![work[d].runId].scheduled = scheduled]
    BY <2>1, Zenon
  <2> HIDE DEF scheduled
  <2> QED
    BY <2>2, <2>3 DEF IngressInv, TypeOK, RunRows
<1>8. LiveRuns' = LiveRuns
  BY <1>7 DEF LiveRuns
<1>9. TypeOK'
  BY <1>4, <1>5, <1>6, <1>7 DEF IngressInv, TypeOK
<1>10. OneHolder' /\ Born' /\ OneRun' /\ InOrder'
  BY <1>4, <1>7 DEF IngressInv, OneHolder, Born, OneRun, InOrder
<1>11. Holding'
  BY <1>3, <1>4, <1>5 DEF IngressInv, Holding
<1>12. SoundDecision'
  <2>1. ASSUME NEW x \in Deliveries, Decided(x)
        PROVE  Sound(session[x].obs, row[x].kind, session[x].decision)'
    <3>1. Sound(session[x].obs, row[x].kind, session[x].decision)
      BY <2>1 DEF IngressInv, SoundDecision
    <3>2. RunAtHead(session[x].obs.head)' <=> RunAtHead(session[x].obs.head)
      BY <1>4, <1>7 DEF RunAtHead
    <3> QED
      BY <1>4, <1>7, <1>8, <3>1, <3>2 DEF Sound, LiveRuns
  <2> QED
    BY <1>4, <2>1 DEF SoundDecision, Decided
<1>13. Behind'
  BY <1>1, <1>3, <1>4, <1>5 DEF IngressInv, Behind
<1>14. LastDecisionStands'
  <2>1. RunAtHead(decided.obs.head)' <=> RunAtHead(decided.obs.head)
    BY <1>4, <1>7 DEF RunAtHead
  <2> QED
    BY <1>4, <1>7, <1>8, <2>1 DEF IngressInv, LastDecisionStands, LiveRuns
<1>15. DoneIsItsRun'
  BY <1>4, <1>7 DEF IngressInv, DoneIsItsRun
<1> QED
  BY <1>9, <1>10, <1>11, <1>12, <1>13, <1>14, <1>15 DEF IngressInv

(* Somebody else ends a live Run that no open decision has updated. *)
LEMMA RunEndsKeeps ==
  ASSUME IngressInv, NEW r \in RunIds, RunEnds(r)
  PROVE  IngressInv'
<1>1. /\ runs[r].status = "live" /\ r \notin Updated
      /\ UNCHANGED <<pr, row, work, session, decided, faults>>
  BY DEF RunEnds, LiveRuns
<1>2. /\ runs' \in [RunIds -> RunRows]
      /\ \A s \in RunIds : runs'[s].head = runs[s].head /\ runs'[s].by = runs[s].by
      /\ \A s \in RunIds \ {r} : runs'[s].status = runs[s].status
      /\ runs'[r].status = "concluded"
  BY DEF RunEnds, IngressInv, TypeOK, RunRows
<1>3. LiveRuns' = LiveRuns \ {r} /\ LiveRuns \subseteq RunIds
  BY <1>2 DEF LiveRuns
<1>4. \A s \in RunIds : runs'[s].status = "none" <=> runs[s].status = "none"
  BY <1>1, <1>2
<1>5. TypeOK'
  BY <1>1, <1>2 DEF IngressInv, TypeOK
<1>6. OneHolder' /\ Holding' /\ InOrder' /\ Behind'
  BY <1>1 DEF IngressInv, OneHolder, Holding, InOrder, Behind
<1>7. Born'
  BY <1>2, <1>4 DEF IngressInv, Born
<1>8. OneRun'
  BY <1>2, <1>4 DEF IngressInv, OneRun
<1>9. SoundDecision'
  <2>1. ASSUME NEW d \in Deliveries, Decided(d)
        PROVE  Sound(session[d].obs, row[d].kind, session[d].decision)'
    <3>1. Sound(session[d].obs, row[d].kind, session[d].decision)
      BY <2>1 DEF IngressInv, SoundDecision
    <3>2. r \notin session[d].decision.ids
      BY <1>1, <2>1 DEF Updated
    <3>3. r \in LiveRuns
      BY <1>1 DEF LiveRuns
    <3>4. RunAtHead(session[d].obs.head)' <=> RunAtHead(session[d].obs.head)
      BY <1>1, <1>2, <1>4 DEF RunAtHead
    <3>5. session[d].decision.ids = LiveRuns => FALSE
      BY <3>2, <3>3
    <3> QED
      BY <1>1, <1>2, <1>3, <3>1, <3>2, <3>4, <3>5 DEF Sound
  <2> QED
    BY <1>1, <2>1 DEF SoundDecision, Decided
<1>10. LastDecisionStands'
  <2>1. RunAtHead(decided.obs.head)' <=> RunAtHead(decided.obs.head)
    BY <1>1, <1>2, <1>4 DEF RunAtHead
  <2> QED
    BY <1>1, <1>2, <1>3, <2>1 DEF IngressInv, LastDecisionStands
<1>11. DoneIsItsRun'
  BY <1>1, <1>2 DEF IngressInv, DoneIsItsRun
<1> QED
  BY <1>5, <1>6, <1>7, <1>8, <1>9, <1>10, <1>11 DEF IngressInv

(* The commit: what was decided is still true, so the Run it inserts is    *)
(* the only one at its head and, with those it ended, the only live one.   *)
LEMMA CommitRuns ==
  ASSUME IngressInv, NEW d \in Deliveries, NEW ending \in Endings, Commit(d, ending)
  PROVE  /\ runs' \in [RunIds -> RunRows]
         /\ \A r \in RunIds : runs[r].status # "none" =>
              /\ runs'[r].head = runs[r].head /\ runs'[r].by = runs[r].by
              /\ runs'[r].status = "live" => r \in LiveRuns \ session[d].decision.ids
         /\ \A r \in RunIds : runs[r].status = "none" /\ r # Insert(d) => runs'[r] = runs[r]
         /\ \A r \in RunIds : runs'[r].status = "none" =>
              runs[r].status = "none" /\ r # Insert(d)
         /\ Insert(d) \in RunIds =>
              /\ session[d].decision.outcome = Done
              /\ runs[Insert(d)].status = "none" /\ runs'[Insert(d)] = NewRun(d)
         /\ session[d].decision.outcome = Done => Insert(d) \in RunIds
         /\ session[d].decision.outcome # Done => Insert(d) = None
<1> DEFINE decision == session[d].decision
           runId == Insert(d)
           ended == End(decision.ids, decision.ended)
<1>1. Decided(d) /\ Sound(session[d].obs, row[d].kind, decision)
  BY DEF Commit, IngressInv, SoundDecision
<1>2. session[d] \in Transactions /\ decision \in Decisions /\ session[d].obs \in Canonical
  BY <1>1 DEF IngressInv, TypeOK, Decided, Transactions, Sound
<1>3. decision.outcome = Done => runId \in RunIds /\ runs[runId].status = "none"
  BY DEF Commit, Insert
<1>4. decision.outcome # Done => runId = None /\ runId \notin RunIds
  BY IngressAssumption DEF Insert
<1>5. NewRun(d) \in RunRows /\ NewRun(d).status = "live"
  BY <1>2 DEF NewRun, RunRows, Canonical
<1>6. decision.ids \subseteq LiveRuns /\ decision.ended \in {"superseded", "cancelled"}
  BY <1>1, <1>2 DEF Sound, Decisions
<1>7. \A r \in RunIds : /\ r \in decision.ids => ended[r] = [runs[r] EXCEPT !.status = decision.ended]
                        /\ r \notin decision.ids => ended[r] = runs[r]
  BY DEF End
<1>8. \A r \in RunIds : /\ ended[r] \in RunRows
                        /\ ended[r].head = runs[r].head /\ ended[r].by = runs[r].by
                        /\ r \in decision.ids => ended[r].status = decision.ended
  <2>1. ASSUME NEW r \in RunIds, NEW x, x = [runs[r] EXCEPT !.status = decision.ended]
        PROVE  /\ x \in RunRows /\ x.status = decision.ended
               /\ x.head = runs[r].head /\ x.by = runs[r].by
    <3> HIDE DEF decision
    <3> QED
      BY <1>6, <2>1 DEF IngressInv, TypeOK, RunRows
  <2>2. \A r \in RunIds : runs[r] \in RunRows
    BY DEF IngressInv, TypeOK
  <2>3. ASSUME NEW r \in RunIds, r \in decision.ids
        PROVE  /\ ended[r] \in RunRows /\ ended[r].status = decision.ended
               /\ ended[r].head = runs[r].head /\ ended[r].by = runs[r].by
    <3>1. ended[r] = [runs[r] EXCEPT !.status = decision.ended]
      BY <1>7, <2>3
    <3> HIDE DEF ended, decision
    <3> QED
      BY <1>6, <2>1, <3>1
  <2>4. ASSUME NEW r \in RunIds, r \notin decision.ids
        PROVE  ended[r] \in RunRows /\ ended[r].head = runs[r].head /\ ended[r].by = runs[r].by
    <3>1. ended[r] = runs[r]
      BY <1>7, <2>4
    <3> HIDE DEF ended, decision
    <3> QED
      BY <2>2, <3>1
  <2> HIDE DEF ended, decision
  <2> QED
    BY <2>3, <2>4
<1>9. runs' = [r \in RunIds |-> IF r = runId THEN NewRun(d) ELSE ended[r]]
  BY DEF Commit
<1>10. \A r \in decision.ids : runs[r].status = "live"
  BY <1>6 DEF LiveRuns
<1> HIDE DEF runId, ended
<1>11. runs' \in [RunIds -> RunRows]
  BY <1>5, <1>8, <1>9
<1>12. ASSUME NEW r \in RunIds, runs[r].status # "none"
       PROVE  /\ runs'[r].head = runs[r].head /\ runs'[r].by = runs[r].by
              /\ runs'[r].status = "live" => r \in LiveRuns \ decision.ids
              /\ runs'[r].status # "none"
  <2>1. runs'[r] = ended[r]
    BY <1>3, <1>4, <1>9, <1>12
  <2> QED
    BY <1>6, <1>7, <1>8, <1>12, <2>1 DEF LiveRuns
<1>13. ASSUME NEW r \in RunIds, runs[r].status = "none", r # runId
       PROVE  runs'[r] = runs[r]
  BY <1>7, <1>9, <1>10, <1>13
<1>14. runId \in RunIds => runs'[runId] = NewRun(d) /\ runs'[runId].status # "none"
  BY <1>5, <1>9
<1>15. runId \in RunIds => decision.outcome = Done
  BY <1>4
<1> QED
  BY <1>3, <1>4, <1>11, <1>12, <1>13, <1>14, <1>15 DEF runId

LEMMA CommitKeeps ==
  ASSUME IngressInv, NEW d \in Deliveries, NEW ending \in Endings, Commit(d, ending)
  PROVE  IngressInv'
<1> DEFINE obs == session[d].obs
           decision == session[d].decision
           runId == Insert(d)
<1>1. Decided(d) /\ Sound(obs, row[d].kind, decision) /\ session[d] # None
  BY DEF Commit, IngressInv, SoundDecision, Decided
<1>2. session[d] \in Transactions /\ decision \in Decisions /\ obs \in Canonical
      /\ row[d].kind \in Acting /\ row[d].state = "received" /\ obs # None
  BY <1>1 DEF IngressInv, TypeOK, Decided, Transactions, Sound, Holding
<1>3. decision.outcome \in Outcomes /\ decision.outcome.state \in Terminal
      /\ (decision.outcome.state = "done" <=> decision.outcome = Done)
  BY <1>2, OutcomeFields DEF Decisions, Outcomes, Done, Discarded, Settled, Terminal
<1>4. OneOf(decision.ids) \in RunIds \cup {None}
  BY <1>2 DEF OneOf, Decisions
<1>5. runId \in RunIds \cup {None}
  BY CommitRuns
<1>6. /\ faults' \in 0..MaxFaults
      /\ work' \in [Deliveries -> WorkRuns]
      /\ \A x \in Deliveries \ {d} : work'[x] = work[x]
      /\ work'[d].pc # "waiting"
      /\ work'[d].pc = work[d].pc \/ work'[d].pc \in {"attempt", "failed", "broken"}
           \/ (work'[d].pc \in {"dispatch", "notify", "finished"} /\ decision.outcome.state # "received")
  <2>1. Reach(d, decision.outcome, runId, OneOf(decision.ids), ending)
    BY DEF Commit
  <2> HIDE DEF decision, runId
  <2> QED
    BY <1>1, <1>3, <1>4, <1>5, <2>1, ReachesItsAttempt
<1>7. /\ row' = [row EXCEPT ![d] = SettleDelivery(@, decision.outcome)]
      /\ decided' = [obs |-> obs, kind |-> row[d].kind]
      /\ session' = [session EXCEPT ![d] = None] /\ UNCHANGED pr
  BY DEF Commit
<1>8. /\ row' \in [Deliveries -> LedgerRows]
      /\ \A x \in Deliveries \ {d} : row'[x] = row[x]
      /\ \A x \in Deliveries : row'[x].kind = row[x].kind
      /\ row'[d].state = decision.outcome.state
  BY <1>2, <1>3, <1>7, SettleRows DEF IngressInv, TypeOK
<1>9. \A x \in Deliveries : session'[x] = None
  BY <1>1, <1>7 DEF IngressInv, OneHolder, TypeOK
<1>10. decided' \in LastDecided /\ decided'.obs = obs /\ decided'.kind = row[d].kind
  BY <1>2, <1>7 DEF LastDecided
<1>11. /\ \A r \in RunIds : runs[r].status # "none" =>
              /\ runs'[r].head = runs[r].head /\ runs'[r].by = runs[r].by
              /\ runs'[r].status = "live" => r \in LiveRuns \ decision.ids
       /\ \A r \in RunIds : runs[r].status = "none" /\ r # runId => runs'[r] = runs[r]
       /\ \A r \in RunIds : runs'[r].status = "none" => runs[r].status = "none" /\ r # runId
       /\ runId \in RunIds => /\ decision.outcome = Done
                              /\ runs[runId].status = "none" /\ runs'[runId] = NewRun(d)
       /\ decision.outcome = Done => runId \in RunIds
       /\ decision.outcome # Done => runId \notin RunIds
  BY CommitRuns, IngressAssumption
<1>12. NewRun(d).status = "live" /\ NewRun(d).head = obs.head /\ NewRun(d).by = d /\ d # None
  BY IngressAssumption DEF NewRun
<1>13. TypeOK'
  BY <1>6, <1>7, <1>8, <1>9, <1>10, <1>2, CommitRuns DEF IngressInv, TypeOK
<1>14. OneHolder' /\ SoundDecision'
  BY <1>9 DEF OneHolder, SoundDecision, Decided
<1>15. Holding'
  <2>1. ASSUME NEW x \in Deliveries, work'[x].pc = "waiting" PROVE FALSE
    BY <1>1, <1>6, <2>1 DEF IngressInv, Holding, OneHolder
  <2> QED
    BY <1>9, <2>1 DEF Holding
<1>16. InOrder'
  BY <1>1, <1>2, <1>7, <1>9, <1>10 DEF IngressInv, InOrder
<1>17. Behind'
  BY <1>2, <1>3, <1>6, <1>8 DEF IngressInv, Behind, Terminal
<1>18. Born'
  <2>1. ASSUME NEW r \in RunIds, r = runId PROVE runs'[r].status # "none" /\ runs'[r].by # None
    BY <1>11, <1>12, <2>1
  <2>2. ASSUME NEW r \in RunIds, r # runId, runs[r].status # "none"
        PROVE  runs'[r].status # "none" /\ runs'[r].by # None
    BY <1>11, <2>2 DEF IngressInv, Born
  <2>3. ASSUME NEW r \in RunIds, r # runId, runs[r].status = "none"
        PROVE  runs'[r].status = "none" /\ runs'[r].by = None
    BY <1>11, <2>3 DEF IngressInv, Born
  <2> QED
    BY <2>1, <2>2, <2>3 DEF Born
<1>19. runId \in RunIds =>
         /\ obs.ready /\ row[d].kind = "review"
         /\ \A r \in RunIds : runs[r].status # "none" => runs[r].head # obs.head
         /\ \A r \in RunIds \ {runId} : runs'[r].status # "live"
  <2>1. SUFFICES ASSUME runId \in RunIds
                 PROVE  /\ obs.ready /\ row[d].kind = "review"
                        /\ \A r \in RunIds : runs[r].status # "none" => runs[r].head # obs.head
                        /\ \A r \in RunIds \ {runId} : runs'[r].status # "live"
    OBVIOUS
  <2>2. decision.outcome = Done
    BY <1>11, <2>1
  <2>3. obs.ready /\ row[d].kind = "review" /\ ~RunAtHead(obs.head)
    BY <1>1, <1>2, <2>2 DEF Sound, Acting, Canonical
  <2>4. \A r \in RunIds : runs[r].status # "none" => runs[r].head # obs.head
    BY <2>3 DEF RunAtHead
  <2>5. \A r \in LiveRuns \ decision.ids : runs[r].head = obs.head
    BY <1>1, <2>3 DEF Sound
  <2>6. LiveRuns \ decision.ids = {}
    BY <2>4, <2>5 DEF LiveRuns
  <2>7. ASSUME NEW r \in RunIds \ {runId} PROVE runs'[r].status # "live"
    BY <1>11, <2>6, <2>7
  <2> QED
    BY <2>3, <2>4, <2>7
<1>20. OneRun'
  <2>1. ASSUME NEW r \in RunIds, NEW s \in RunIds, r # s,
               runs'[r].status # "none", runs'[s].status # "none"
        PROVE  /\ runs'[r].head # runs'[s].head
               /\ ~(runs'[r].status = "live" /\ runs'[s].status = "live")
    <3>1. CASE r # runId /\ s # runId
      <4>1. runs[r].status # "none" /\ runs[s].status # "none"
        BY <1>11, <2>1, <3>1
      <4>2. runs[r].head # runs[s].head
            /\ ~(runs[r].status = "live" /\ runs[s].status = "live")
        BY <2>1, <4>1 DEF IngressInv, OneRun
      <4> QED
        BY <1>11, <4>1, <4>2 DEF LiveRuns
    <3>2. CASE r = runId
      <4>1. s # runId /\ runs[s].status # "none"
        BY <1>11, <2>1, <3>2
      <4> QED
        BY <1>11, <1>12, <1>19, <3>2, <4>1
    <3>3. CASE s = runId
      <4>1. r # runId /\ runs[r].status # "none"
        BY <1>11, <2>1, <3>3
      <4> QED
        BY <1>11, <1>12, <1>19, <3>3, <4>1
    <3> QED
      BY <3>1, <3>2, <3>3
  <2> QED
    BY <2>1 DEF OneRun
<1>21. LastDecisionStands'
  <2>1. ASSUME ~obs.ready, NEW r \in RunIds PROVE runs'[r].status # "live"
    <3>1. decision.ids = LiveRuns /\ runId \notin RunIds
      BY <1>1, <1>11, <2>1 DEF Sound
    <3> QED
      BY <1>11, <2>1, <3>1
  <2>2. ASSUME obs.ready, row[d].kind = "review"
        PROVE  \E r \in RunIds : runs'[r].status # "none" /\ runs'[r].head = obs.head
    <3>1. CASE runId \in RunIds
      <4>1. runs'[runId].status # "none" /\ runs'[runId].head = obs.head
        BY <1>11, <1>12, <3>1
      <4> QED
        BY <3>1, <4>1
    <3>2. CASE runId \notin RunIds
      <4>1. RunAtHead(obs.head)
        BY <1>1, <1>11, <2>2, <3>2 DEF Sound
      <4>2. PICK r \in RunIds : runs[r].status # "none" /\ runs[r].head = obs.head
        BY <4>1 DEF RunAtHead
      <4>3. runs'[r].status # "none" /\ runs'[r].head = obs.head
        BY <1>11, <4>2
      <4> QED
        BY <4>3
    <3> QED
      BY <3>1, <3>2
  <2>3. ASSUME obs.ready, row[d].kind = "review", NEW r \in RunIds, runs'[r].status = "live"
        PROVE  runs'[r].head = obs.head
    <3>1. CASE r = runId
      BY <1>11, <1>12, <3>1
    <3>2. CASE r # runId
      <4>1. runs[r].status # "none" /\ r \in LiveRuns \ decision.ids
        BY <1>11, <2>3, <3>2
      <4> QED
        BY <1>1, <1>11, <2>3, <4>1 DEF Sound
    <3> QED
      BY <3>1, <3>2
  <2> QED
    BY <1>10, <2>1, <2>2, <2>3 DEF LastDecisionStands, LiveRuns, RunAtHead
<1>22. DoneIsItsRun'
  <2>1. ASSUME NEW r \in RunIds PROVE runs[r].by # d
    BY <1>2, <2>1 DEF IngressInv, DoneIsItsRun
  <2>2. ASSUME NEW r \in RunIds, NEW x \in Deliveries \ {d}
        PROVE  runs'[r].by = x <=> runs[r].by = x
    <3>1. CASE r = runId
      BY <1>11, <1>12, <3>1, IngressAssumption DEF IngressInv, Born
    <3>2. CASE r # runId
      BY <1>11, <3>2
    <3> QED
      BY <3>1, <3>2
  <2>3. ASSUME NEW r \in RunIds PROVE runs'[r].by = d <=> r = runId
    <3>1. CASE r = runId
      BY <1>11, <1>12, <3>1
    <3>2. CASE r # runId
      BY <1>11, <2>1, <3>2
    <3> QED
      BY <3>1, <3>2
  <2>4. row'[d].state = "done" <=> runId \in RunIds
    BY <1>3, <1>8, <1>11
  <2>5. ASSUME NEW x \in Deliveries \ {d}
        PROVE  LET mine == {r \in RunIds : runs'[r].by = x}
               IN (row'[x].state = "done" <=> mine # {}) /\ \A r, s \in mine : r = s
    BY <1>8, <2>2 DEF IngressInv, DoneIsItsRun
  <2>6. LET mine == {r \in RunIds : runs'[r].by = d}
        IN (row'[d].state = "done" <=> mine # {}) /\ \A r, s \in mine : r = s
    BY <2>3, <2>4
  <2> QED
    BY <2>5, <2>6 DEF DoneIsItsRun
<1> QED
  BY <1>13, <1>14, <1>15, <1>16, <1>17, <1>18, <1>20, <1>21, <1>22 DEF IngressInv

-----------------------------------------------------------------------------
(* The steps that settle without the lock, or close without a decision.    *)
LEMMA WorkStepKeeps ==
  ASSUME IngressInv, NEW d \in Deliveries, NEW answered \in BOOLEAN,
         \/ ConcludeFromEnvelope(d, answered) \/ Contend(d, answered)
         \/ AlreadyConcluded(d, answered) \/ SettleBroken(d, answered)
         \/ NotifyEnded(d, answered)
  PROVE  IngressInv'
<1>1. work[d] \in WorkRuns /\ row[d] \in LedgerRows /\ row \in [Deliveries -> LedgerRows]
      /\ work \in [Deliveries -> WorkRuns]
  BY DEF IngressInv, TypeOK
<1>2. faults' \in 0..MaxFaults /\ UNCHANGED <<pr, session, runs, decided>>
  BY IngressAssumption
     DEF ConcludeFromEnvelope, Contend, AlreadyConcluded, SettleBroken, NotifyEnded,
         Answered, Fault, IngressInv, TypeOK
<1>3. work[d].pc # "idle" => row[d].state \in {"received"} \cup Terminal
  BY DEF IngressInv, Behind
<1>4. ASSUME NEW outcome \in Outcomes, work[d].pc \in {"attempt", "broken"}, outcome # Done,
             row[d].kind \in Acting => outcome.state = "received",
             row' = [row EXCEPT ![d] = SettleDelivery(@, outcome)],
             work' = [work EXCEPT ![d] = IF answered THEN Concluded(@, outcome, None, None)
                                         ELSE AttemptAgain(@)]
      PROVE  IngressInv'
  <2>1. /\ row' \in [Deliveries -> LedgerRows]
        /\ \A x \in Deliveries \ {d} : row'[x] = row[x]
        /\ \A x \in Deliveries : row'[x].kind = row[x].kind
        /\ row[d].state # "received" => row'[d] = row[d]
        /\ row[d].state = "received" => row'[d].state = outcome.state
    BY <1>1, <1>4, SettleRows
  <2>2. outcome.state \in {"received", "discarded"}
    BY <1>4, OutcomeFields DEF Terminal
  <2> DEFINE w == IF answered THEN Concluded(work[d], outcome, None, None)
                  ELSE AttemptAgain(work[d])
  <2>3. w \in WorkRuns
        /\ w.pc \in {"attempt", "failed"}
             \cup (IF outcome.state = "received" THEN {} ELSE {"dispatch", "notify", "finished"})
    <3>1. /\ Concluded(work[d], outcome, None, None) \in WorkRuns
          /\ Concluded(work[d], outcome, None, None).pc
               \in IF outcome.state = "received" THEN {"attempt", "failed"}
                   ELSE {"dispatch", "notify", "finished"}
      BY <1>1, ConcludedWork
    <3>2. AttemptAgain(work[d]) \in WorkRuns /\ AttemptAgain(work[d]).pc \in {"attempt", "failed"}
      BY <1>1, WorkSteps, IngressAssumption
    <3> QED
      BY <3>1, <3>2
  <2>4. work' = [work EXCEPT ![d] = w]
    BY <1>1, <1>4
  <2> HIDE DEF w
  <2>5. work' \in [Deliveries -> WorkRuns] /\ work'[d] = w
        /\ \A x \in Deliveries \ {d} : work'[x] = work[x]
    BY <1>1, <2>3, <2>4
  <2>6. work'[d].pc \in {"dispatch", "notify", "finished"} => row'[d].state \in Terminal
    BY <1>3, <1>4, <2>1, <2>2, <2>3, <2>5 DEF Terminal
  <2> QED
    BY <1>2, <1>4, <2>1, <2>2, <2>3, <2>5, <2>6, AttemptKeeps
<1>5. ASSUME UNCHANGED row, row[d].state # "received", work[d].pc \in {"attempt", "notify"},
             NEW w \in WorkRuns, w.pc \in {work[d].pc, "attempt", "failed", "dispatch", "notify", "finished"},
             work' = [work EXCEPT ![d] = w]
      PROVE  IngressInv'
  <2>1. row[d].state \in Terminal
    BY <1>3, <1>5
  <2>2. work' \in [Deliveries -> WorkRuns] /\ work'[d] = w
        /\ \A x \in Deliveries \ {d} : work'[x] = work[x]
    BY <1>1, <1>5
  <2> QED
    BY <1>1, <1>2, <1>5, <2>1, <2>2, AttemptKeeps
<1>6. /\ \A why \in Dispositions : Discarded(why) \in Outcomes \ {Done}
      /\ \A class \in RetryClasses : /\ Received(class) \in Outcomes \ {Done}
                                     /\ Received(class).state = "received"
  BY DEF Outcomes, Discarded, Received, Done, Settled
<1>7. CASE ConcludeFromEnvelope(d, answered)
  <2>1. PICK why \in {"inert", "grant_gone"} :
          /\ row' = [row EXCEPT ![d] = SettleDelivery(@, Discarded(why))]
          /\ work' = [work EXCEPT ![d] = IF answered THEN Concluded(@, Discarded(why), None, None)
                                         ELSE AttemptAgain(@)]
    BY <1>7 DEF ConcludeFromEnvelope
  <2>2. why \in Dispositions /\ work[d].pc = "attempt" /\ row[d].kind \notin Acting
    BY <1>7 DEF ConcludeFromEnvelope, Dispositions
  <2> QED
    BY <1>4, <1>6, <2>1, <2>2
<1>8. CASE Contend(d, answered)
  BY <1>4, <1>6, <1>8 DEF Contend, RetryClasses
<1>9. CASE SettleBroken(d, answered)
  <2>1. PICK state \in SqlStates :
          /\ row' = [row EXCEPT ![d] = SettleDelivery(@, OutcomeForFailure(state))]
          /\ work' = [work EXCEPT ![d] = IF answered
                                         THEN Concluded(@, OutcomeForFailure(state), None, None)
                                         ELSE AttemptAgain(@)]
    BY <1>9 DEF SettleBroken, FailureOutcomes
  <2>2. PICK class \in RetryClasses : OutcomeForFailure(state) = Received(class)
    BY DEF OutcomeForFailure, RetryClasses
  <2>3. work[d].pc = "broken"
    BY <1>9 DEF SettleBroken
  <2> QED
    BY <1>4, <1>6, <2>1, <2>2, <2>3
<1>10. CASE AlreadyConcluded(d, answered)
  <2> DEFINE w == IF answered THEN Advance(work[d], None, None) ELSE AttemptAgain(work[d])
  <2>1. w \in WorkRuns /\ w.pc \in {"attempt", "failed", "dispatch", "notify", "finished"}
    <3>1. Advance(work[d], None, None) \in WorkRuns
          /\ Advance(work[d], None, None).pc \in {"dispatch", "notify", "finished"}
      BY <1>1, WorkSteps, IngressAssumption
    <3>2. AttemptAgain(work[d]) \in WorkRuns /\ AttemptAgain(work[d]).pc \in {"attempt", "failed"}
      BY <1>1, WorkSteps, IngressAssumption
    <3> QED
      BY <3>1, <3>2
  <2>2. work' = [work EXCEPT ![d] = w]
    BY <1>1, <1>10 DEF AlreadyConcluded
  <2>3. UNCHANGED row /\ row[d].state # "received" /\ work[d].pc = "attempt"
    BY <1>10 DEF AlreadyConcluded, StillReceived
  <2> HIDE DEF w
  <2> QED
    BY <1>5, <2>1, <2>2, <2>3
<1>11. CASE NotifyEnded(d, answered)
  <2> DEFINE w == IF answered THEN Advance(work[d], None, None) ELSE Retried(work[d], StepRetries)
  <2>1. w \in WorkRuns /\ w.pc \in {work[d].pc, "failed", "dispatch", "notify", "finished"}
    <3>1. Advance(work[d], None, None) \in WorkRuns
          /\ Advance(work[d], None, None).pc \in {"dispatch", "notify", "finished"}
      BY <1>1, WorkSteps, IngressAssumption
    <3>2. Retried(work[d], StepRetries) \in WorkRuns
          /\ Retried(work[d], StepRetries).pc \in {work[d].pc, "failed"}
      BY <1>1, WorkSteps, IngressAssumption
    <3> QED
      BY <3>1, <3>2
  <2>2. work' = [work EXCEPT ![d] = w] /\ UNCHANGED row /\ work[d].pc = "notify"
    BY <1>1, <1>11 DEF NotifyEnded
  <2>3. row[d].state # "received"
    BY <2>2 DEF IngressInv, Behind, Terminal
  <2> HIDE DEF w
  <2> QED
    BY <1>5, <2>1, <2>2, <2>3
<1> QED
  BY <1>7, <1>8, <1>9, <1>10, <1>11

LEMMA FetchFailsKeeps ==
  ASSUME IngressInv, NEW d \in Deliveries, NEW ending \in Endings, FetchFails(d, ending)
  PROVE  IngressInv'
<1>1. session[d] # None /\ row[d].state = "received" /\ row \in [Deliveries -> LedgerRows]
  BY DEF FetchFails, Fetching, IngressInv, Holding, TypeOK
<1>2. PICK outcome \in {Classify(answer) : answer \in Refusals} \cup {Unreadable, Incomplete} :
        /\ row' = [row EXCEPT ![d] = SettleDelivery(@, outcome)]
        /\ Reach(d, outcome, None, None, ending)
  BY DEF FetchFails, FetchOutcomes
<1>3. outcome \in {Discarded("grant_gone"), Received("transient"), Received("operator_attention")}
  <2>1. ASSUME NEW answer \in Refusals
        PROVE  Classify(answer) \in
                 {Discarded("grant_gone"), Received("transient"), Received("operator_attention")}
    <3>1. answer.status \in {401, 403, 404, 429, 500}
      BY DEF Refusals
    <3> QED
      BY <3>1 DEF Classify
  <2> QED
    BY <1>2, <2>1 DEF Unreadable, Incomplete
<1>4. outcome \in Outcomes /\ outcome.state \in {"received", "discarded"}
  BY <1>3 DEF Outcomes, Discarded, Received, Settled, Dispositions, RetryClasses
<1>5. /\ row' \in [Deliveries -> LedgerRows]
      /\ \A x \in Deliveries \ {d} : row'[x] = row[x]
      /\ \A x \in Deliveries : row'[x].kind = row[x].kind
      /\ row'[d].state = outcome.state
  BY <1>1, <1>2, <1>4, SettleRows
<1>6. /\ faults' \in 0..MaxFaults
      /\ work' \in [Deliveries -> WorkRuns]
      /\ \A x \in Deliveries \ {d} : work'[x] = work[x]
      /\ work'[d].pc # "waiting"
      /\ work'[d].pc = work[d].pc \/ work'[d].pc \in {"attempt", "failed", "broken"}
           \/ (work'[d].pc \in {"dispatch", "notify", "finished"} /\ outcome.state # "received")
  BY <1>1, <1>2, <1>4, ReachesItsAttempt
<1>7. session' = [session EXCEPT ![d] = None] /\ UNCHANGED <<pr, runs, decided>>
  BY DEF FetchFails
<1> QED
  BY <1>1, <1>4, <1>5, <1>6, <1>7, CloseKeeps

LEMMA SessionDiesKeeps ==
  ASSUME IngressInv, NEW d \in Deliveries, SessionDies(d)
  PROVE  IngressInv'
<1>1. session[d] # None /\ row[d].state = "received" /\ row \in [Deliveries -> LedgerRows]
      /\ session' = [session EXCEPT ![d] = None] /\ UNCHANGED <<pr, row, runs, decided>>
  BY DEF SessionDies, IngressInv, Holding, TypeOK
<1>2. faults' \in 0..MaxFaults
  BY IngressAssumption DEF SessionDies, Answered, Fault, IngressInv, TypeOK
<1>3. /\ work' \in [Deliveries -> WorkRuns] /\ \A x \in Deliveries \ {d} : work'[x] = work[x]
      /\ work'[d].pc # "waiting" /\ work'[d].pc \in {work[d].pc, "broken"}
  <2>1. CASE session[d].attached
    BY <2>1 DEF SessionDies, IngressInv, TypeOK, WorkRuns, WorkPoints
  <2>2. CASE ~session[d].attached
    BY <2>2 DEF SessionDies, IngressInv, TypeOK, Holding
  <2> QED
    BY <2>1, <2>2
<1> QED
  BY <1>1, <1>2, <1>3, CloseKeeps

LEMMA ArrivalStepKeeps ==
  ASSUME IngressInv, NEW d \in Deliveries,
         \/ Push(d) \/ ChangeReadiness(d) \/ Aside(d) \/ Redeliver(d) \/ Lose(d)
         \/ \E kicked \in BOOLEAN : Deliver(d, kicked)
  PROVE  IngressInv'
<1>1. pr \in Canonical /\ row \in [Deliveries -> LedgerRows] /\ work \in [Deliveries -> WorkRuns]
      /\ faults \in 0..MaxFaults /\ row[d] \in LedgerRows
  BY DEF IngressInv, TypeOK
<1>2. ASSUME NEW kind \in Kinds \cup {None}, Emit(d, kind), pr' \in Canonical, pr'.version >= pr.version,
             UNCHANGED <<work, session, runs, decided, faults>>
      PROVE  IngressInv'
  <2>1. /\ row' \in [Deliveries -> LedgerRows]
        /\ \A x \in Deliveries \ {d} : row'[x] = row[x]
        /\ row[d].state = "none" /\ row'[d].state = "in_flight"
    BY <1>1, <1>2, EmitRows
  <2> QED
    BY <1>1, <1>2, <2>1, ArrivalKeeps
<1>3. pr.version >= pr.version /\ pr.version + 1 >= pr.version /\ pr.version + 1 \in Nat
  BY <1>1 DEF Canonical
<1>4. CASE Push(d)
  <2>1. PICK head \in Heads : pr' = [pr EXCEPT !.head = head, !.version = @ + 1]
    BY <1>4 DEF Push
  <2>2. pr' \in Canonical /\ pr'.version = pr.version + 1
    BY <1>1, <1>3, <2>1 DEF Canonical
  <2> QED
    BY <1>2, <1>3, <1>4, <2>2 DEF Push, Kinds
<1>5. CASE ChangeReadiness(d)
  <2>1. pr' = [pr EXCEPT !.ready = ~@, !.version = @ + 1]
    BY <1>5 DEF ChangeReadiness
  <2>2. pr' \in Canonical /\ pr'.version = pr.version + 1
    BY <1>1, <1>3, <2>1 DEF Canonical
  <2> QED
    BY <1>2, <1>3, <1>5, <2>2 DEF ChangeReadiness, Kinds
<1>6. CASE Aside(d)
  BY <1>1, <1>2, <1>3, <1>6 DEF Aside
<1>7. CASE Redeliver(d)
  <2>1. PICK earlier \in Deliveries : row[earlier].state # "none" /\ Emit(d, row[earlier].kind)
    BY <1>7 DEF Redeliver
  <2>2. row[earlier].kind \in Kinds \cup {None}
    BY <1>1 DEF LedgerRows
  <2> QED
    BY <1>1, <1>2, <1>3, <1>7, <2>1, <2>2 DEF Redeliver
<1>8. CASE Lose(d)
  <2>1. row[d].state = "in_flight" /\ row' = [row EXCEPT ![d].state = "lost"]
        /\ UNCHANGED <<pr, work, session, runs, decided>>
    BY <1>8 DEF Lose
  <2>2. faults' \in 0..MaxFaults
    BY <1>1, <1>8, IngressAssumption DEF Lose, Fault
  <2>3. /\ row' \in [Deliveries -> LedgerRows]
        /\ \A x \in Deliveries \ {d} : row'[x] = row[x] /\ row'[d].state = "lost"
    BY <1>1, <2>1, RowStates
  <2>4. row'[d].state = "lost"
    BY <1>1, <2>1, RowStates
  <2> QED
    BY <1>1, <1>3, <2>1, <2>2, <2>3, <2>4, ArrivalKeeps
<1>9. ASSUME NEW kicked \in BOOLEAN, Deliver(d, kicked) PROVE IngressInv'
  <2>1. row[d].state = "in_flight" /\ row' = [row EXCEPT ![d].state = "received"]
        /\ UNCHANGED <<pr, session, runs, decided>>
    BY <1>9 DEF Deliver
  <2>2. faults' \in 0..MaxFaults
    BY <1>1, <1>9, IngressAssumption DEF Deliver, Answered, Fault
  <2>3. /\ row' \in [Deliveries -> LedgerRows]
        /\ \A x \in Deliveries \ {d} : row'[x] = row[x]
    BY <1>1, <2>1, RowStates
  <2>4. row'[d].state = "received"
    BY <1>1, <2>1, RowStates
  <2>5. /\ work' \in [Deliveries -> WorkRuns] /\ \A x \in Deliveries \ {d} : work'[x] = work[x]
        /\ work'[d].pc = work[d].pc \/ work'[d].pc = "attempt"
    BY <1>1, <1>9 DEF Deliver, WorkRuns, WorkPoints
  <2> QED
    BY <1>1, <1>3, <2>1, <2>2, <2>3, <2>4, <2>5, ArrivalKeeps
<1> QED
  BY <1>4, <1>5, <1>6, <1>7, <1>8, <1>9

-----------------------------------------------------------------------------
LEMMA InitHolds == Init => IngressInv
<1>1. SUFFICES ASSUME Init PROVE IngressInv
  OBVIOUS
<1>2. (CHOOSE head \in Heads : TRUE) \in Heads
  BY IngressAssumption
<1>3. pr \in Canonical
  BY <1>1, <1>2 DEF Init, Canonical
<1>4. row \in [Deliveries -> LedgerRows] /\ \A d \in Deliveries : row[d].state \in {"none", "in_flight"}
  BY <1>1 DEF Init, Absent, Settled, LedgerRows, Kinds
<1>5. work \in [Deliveries -> WorkRuns] /\ \A d \in Deliveries : work[d].pc = "idle"
  BY <1>1 DEF Init, Idle, WorkRuns, WorkPoints
<1>6. runs \in [RunIds -> RunRows] /\ \A r \in RunIds : runs[r].status = "none" /\ runs[r].by = None
  BY <1>1 DEF Init, Unborn, RunRows
<1>7. session \in [Deliveries -> Transactions \cup {None}] /\ \A d \in Deliveries : session[d] = None
  BY <1>1 DEF Init
<1>8. decided = None /\ faults \in 0..MaxFaults
  BY <1>1, IngressAssumption DEF Init
<1>9. TypeOK
  BY <1>3, <1>4, <1>5, <1>6, <1>7, <1>8 DEF TypeOK
<1>10. OneHolder /\ Holding /\ InOrder /\ SoundDecision /\ Behind
  BY <1>5, <1>7, <1>8 DEF OneHolder, Holding, InOrder, SoundDecision, Decided, Behind
<1>11. Born /\ OneRun /\ LastDecisionStands
  BY <1>6, <1>8 DEF Born, OneRun, LastDecisionStands
<1>12. DoneIsItsRun
  BY <1>4, <1>6, IngressAssumption DEF DoneIsItsRun
<1> QED
  BY <1>9, <1>10, <1>11, <1>12 DEF IngressInv

LEMMA NextKeeps == IngressInv /\ [Next]_vars => IngressInv'
<1> SUFFICES ASSUME IngressInv, [Next]_vars PROVE IngressInv'
  OBVIOUS
<1>1. ASSUME NEW d \in Deliveries,
             \/ Push(d) \/ ChangeReadiness(d) \/ Aside(d) \/ Redeliver(d) \/ Lose(d)
             \/ \E kicked \in BOOLEAN : Deliver(d, kicked)
      PROVE  IngressInv'
  BY <1>1, ArrivalStepKeeps
<1>2. ASSUME NEW d \in Deliveries, WorkStep(d) PROVE IngressInv'
  BY <1>2, AcquireKeeps, WorkStepKeeps, DispatchKeeps DEF WorkStep
<1>3. ASSUME NEW d \in Deliveries, SessionStep(d) PROVE IngressInv'
  BY <1>3, FetchKeeps, DecideKeeps, SessionDiesKeeps, FetchFailsKeeps, CommitKeeps DEF SessionStep
<1>4. ASSUME NEW d \in Deliveries, AttemptDies(d) PROVE IngressInv'
  BY <1>4, AttemptDiesKeeps
<1>5. ASSUME NEW r \in RunIds, RunEnds(r) PROVE IngressInv'
  BY <1>5, RunEndsKeeps
<1>6. CASE UNCHANGED vars
  BY <1>6 DEF vars, IngressInv, TypeOK, OneHolder, Holding, Born, InOrder, SoundDecision, Sound,
              Decided, Behind, OneRun, LastDecisionStands, DoneIsItsRun, LiveRuns, RunAtHead
<1> QED
  BY <1>1, <1>2, <1>3, <1>4, <1>5, <1>6 DEF Next

(* The ledger, the Runs and the open decision agree at every moment: the    *)
(* lock and the row locks keep true what a transaction has read.           *)
THEOREM IngressIsSound == Spec => []IngressInv
<1> QED
  BY InitHolds, NextKeeps, PTL DEF Spec

(* At most one live Run, and at most one Run for each head: no decision    *)
(* gets far enough to meet the two unique indexes over `run`.              *)
THEOREM OneRunAtATime == Spec => []OneRun
<1>1. IngressInv => OneRun
  BY DEF IngressInv
<1> QED
  BY <1>1, IngressIsSound, PTL

(* The Runs are those the last committed decision allows. *)
THEOREM DecisionsStand == Spec => []LastDecisionStands
<1>1. IngressInv => LastDecisionStands
  BY DEF IngressInv
<1> QED
  BY <1>1, IngressIsSound, PTL

(* A row is `done` exactly where one Run exists on its account. *)
THEOREM DoneMeansItsRun == Spec => []DoneIsItsRun
<1>1. IngressInv => DoneIsItsRun
  BY DEF IngressInv
<1> QED
  BY <1>1, IngressIsSound, PTL

(* A workflow run that finishes has concluded its row. *)
THEOREM FinishedMeansConcluded == Spec => []FinishedIsConcluded
<1>1. IngressInv => FinishedIsConcluded
  BY DEF IngressInv, Behind, FinishedIsConcluded
<1> QED
  BY <1>1, IngressIsSound, PTL

-----------------------------------------------------------------------------
LEMMA ConcludedStay ==
  ASSUME TypeOK, [Next]_vars, NEW d \in Deliveries, row[d].state \in Terminal
  PROVE  row'[d] = row[d]
<1> USE DEF TypeOK
<1>1. ASSUME NEW x \in Deliveries, NEW outcome, row' = [row EXCEPT ![x] = SettleDelivery(@, outcome)]
      PROVE  row'[d] = row[d]
  BY <1>1 DEF SettleDelivery, Terminal
<1>2. ASSUME NEW x \in Deliveries,
             \/ Push(x) \/ ChangeReadiness(x) \/ Aside(x) \/ Redeliver(x) \/ Lose(x)
             \/ \E kicked \in BOOLEAN : Deliver(x, kicked)
      PROVE  row'[d] = row[d]
  BY <1>2 DEF Push, ChangeReadiness, Aside, Redeliver, Lose, Deliver, Emit, Terminal
<1>3. ASSUME NEW x \in Deliveries, NEW answered \in BOOLEAN,
             \/ ConcludeFromEnvelope(x, answered) \/ Contend(x, answered) \/ SettleBroken(x, answered)
      PROVE  row'[d] = row[d]
  BY <1>1, <1>3 DEF ConcludeFromEnvelope, Contend, SettleBroken
<1>4. ASSUME NEW x \in Deliveries, NEW ending \in Endings, FetchFails(x, ending) \/ Commit(x, ending)
      PROVE  row'[d] = row[d]
  BY <1>1, <1>4 DEF FetchFails, Commit
<1>5. ASSUME NEW x \in Deliveries, NEW answered \in BOOLEAN,
             \/ Acquire(x) \/ AlreadyConcluded(x, answered) \/ Dispatch(x, answered)
             \/ NotifyEnded(x, answered) \/ Fetch(x) \/ SessionDies(x) \/ AttemptDies(x)
             \/ DecideIneligible(x) \/ DecideUnchanged(x) \/ DecideEligible(x)
      PROVE  row'[d] = row[d]
  BY <1>5 DEF Acquire, AlreadyConcluded, Dispatch, NotifyEnded, Fetch, SessionDies, AttemptDies,
              DecideIneligible, DecideUnchanged, DecideEligible, Write
<1>6. ASSUME NEW r \in RunIds, RunEnds(r) PROVE row'[d] = row[d]
  BY <1>6 DEF RunEnds
<1>7. CASE UNCHANGED vars
  BY <1>7 DEF vars
<1>8. ASSUME NEW x \in Deliveries, WorkStep(x) \/ SessionStep(x) PROVE row'[d] = row[d]
  BY <1>3, <1>4, <1>5, <1>8 DEF WorkStep, SessionStep
<1> QED
  BY <1>2, <1>5, <1>6, <1>7, <1>8 DEF Next

LEMMA DecidedMoves ==
  ASSUME IngressInv, [Next]_vars
  PROVE  decided' = decided \/ \E d \in Deliveries : Decided(d) /\ decided'.obs = session[d].obs
<1>1. ASSUME NEW d \in Deliveries, NEW ending \in Endings, Commit(d, ending)
      PROVE  Decided(d) /\ decided'.obs = session[d].obs
  BY <1>1 DEF Commit
<1>2. ASSUME NEW d \in Deliveries,
             \/ Push(d) \/ ChangeReadiness(d) \/ Aside(d) \/ Redeliver(d) \/ Lose(d)
             \/ \E kicked \in BOOLEAN : Deliver(d, kicked)
             \/ WorkStep(d) \/ AttemptDies(d) \/ Fetch(d) \/ SessionDies(d)
             \/ DecideIneligible(d) \/ DecideUnchanged(d) \/ DecideEligible(d)
             \/ \E ending \in Endings : FetchFails(d, ending)
      PROVE  decided' = decided
  BY <1>2 DEF Push, ChangeReadiness, Aside, Redeliver, Lose, Deliver, WorkStep, AttemptDies,
              Acquire, ConcludeFromEnvelope, Contend, AlreadyConcluded, SettleBroken, Dispatch,
              NotifyEnded, Fetch, SessionDies, FetchFails, DecideIneligible, DecideUnchanged,
              DecideEligible, Write
<1>3. ASSUME NEW d \in Deliveries, SessionStep(d)
      PROVE  decided' = decided \/ (Decided(d) /\ decided'.obs = session[d].obs)
  BY <1>1, <1>2, <1>3 DEF SessionStep
<1>4. ASSUME NEW r \in RunIds, RunEnds(r) PROVE decided' = decided
  BY <1>4 DEF RunEnds
<1>5. CASE UNCHANGED vars
  BY <1>5 DEF vars
<1> QED
  BY <1>2, <1>3, <1>4, <1>5 DEF Next

(* A concluded delivery is never settled again, whichever attempt ends     *)
(* last.                                                                   *)
THEOREM ConcludedRowsAreFinal == Spec => ConcludedRowsStay
<1>1. IngressInv /\ [Next]_vars =>
        [\A d \in Deliveries : row[d].state \in Terminal => row'[d] = row[d]]_vars
  BY ConcludedStay DEF IngressInv
<1> QED
  BY <1>1, IngressIsSound, PTL DEF Spec, ConcludedRowsStay

(* No decision commits from canonical state older than the last one saw.   *)
THEOREM DecisionsNeverGoBack == Spec => DecisionsFollowGitHub
<1>1. IngressInv /\ [Next]_vars =>
        [decided # None => decided'.obs.version >= decided.obs.version]_vars
  <2> SUFFICES ASSUME IngressInv, [Next]_vars, decided # None
               PROVE  decided'.obs.version >= decided.obs.version
    OBVIOUS
  <2>1. decided.obs.version \in Nat
    BY DEF IngressInv, TypeOK, LastDecided, Canonical
  <2>2. CASE decided' = decided
    BY <2>1, <2>2
  <2>3. ASSUME NEW d \in Deliveries, Decided(d), decided'.obs = session[d].obs
        PROVE  decided'.obs.version >= decided.obs.version
    <3>1. session[d] # None /\ session[d].obs # None /\ session[d].obs \in Canonical
      BY <2>3 DEF Decided, IngressInv, Holding, SoundDecision, Sound
    <3>2. decided.obs.version <= session[d].obs.version
      BY <3>1 DEF IngressInv, InOrder
    <3> QED
      BY <2>1, <2>3, <3>1, <3>2 DEF Canonical
  <2> QED
    BY <2>2, <2>3, DecidedMoves
<1> QED
  BY <1>1, IngressIsSound, PTL DEF Spec, DecisionsFollowGitHub
=============================================================================
