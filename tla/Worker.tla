------------------------------- MODULE Worker -------------------------------
(***************************************************************************)
(* packages/worker-core and packages/adapters over packages/sandbox-         *)
(* container: executions of Worker core on one Worker process.  An execution *)
(* resolves capabilities, passes the gates, launches its Sandbox, protects    *)
(* the narrative, resolves again against the instance, and only then lets a   *)
(* Reviewer in; the Pass is the Codex Adapter's, step by step, or that of any *)
(* Adapter that keeps the port.                                               *)
(*                                                                            *)
(* A deadline abandons a resolution but does not stop it: `reading` and       *)
(* `inquiry` are calls that may still be running after their caller left.     *)
(* The other executions of the process are met through what they share with   *)
(* this one, the cache and the quarantine (Neighbour); Sandbox.tla shows the  *)
(* launches of several of them interleaved.                                   *)
(***************************************************************************)
EXTENDS Sandbox, Eligibility

CONSTANTS
    Inputs,            \* the Runs an execution may be given
    PortCapabilities,  \* what an Adapter other than Codex may resolve
    Calls,             \* the commands (with their exit) a Reviewer may run or claim
    MaxCalls           \* bound: calls observed, and claimed, per turn

Capabilities ==
    [exposure : Exposures \cup {"unresolved"}, supported : SUBSET Autonomies,
     boundary : BOOLEAN, reportsModel : BOOLEAN, fresh : BOOLEAN]

(* Worker core resolves the host's capability in every execution, and an      *)
(* Adapter may ask for both host resources.                                  *)
ASSUME WorkerAssumption ==
    /\ Callers = Execs /\ Setups = {"proxy", "port"}
    /\ PortCapabilities \subseteq Capabilities
    /\ MaxCalls \in Nat \ {0}

VARIABLES
    input,     \* per execution: the RunInput and the Adapter selected for it
    core,      \* per execution: where execute() is, the resolved capability, the answer
    inquiry,   \* per execution: its Adapter's call of capability({ sandbox })
    pass,      \* per execution: where the Pass is
    stopped    \* per execution: the caller's signal, and the Pass's own timeout

workerVars == <<sandboxVars, input, core, inquiry, pass, stopped>>

Codex(e)   == input[e].adapter = "codex"
Unresolved == [exposure |-> "unresolved", supported |-> {}, boundary |-> FALSE,
               reportsModel |-> FALSE, fresh |-> FALSE]

(* What the Codex Adapter resolves to: it enforces the boundary, and         *)
(* supports verify, exactly where a fresh probe established it.               *)
CodexCapability(e, established, fresh) ==
    [exposure     |-> IF input[e].route = "native" THEN "account" ELSE "none",
     supported    |-> IF established THEN {"verify"} ELSE {},
     boundary     |-> established,
     reportsModel |-> FALSE,
     fresh        |-> fresh]

MayResolve(e) ==
    IF Codex(e)
    THEN {CodexCapability(e, TRUE, TRUE), CodexCapability(e, FALSE, TRUE),
          CodexCapability(e, FALSE, FALSE)}
    ELSE PortCapabilities

RefusalReasons ==
    {"capability_unresolved", "capability_probe_stale",
     "instruction_boundary_unenforceable", "autonomy_unsupported",
     "exposure_above_maximum", "isolation_insufficient", "provenance_ineligible",
     "narrative_title_missing", "sandbox_refused", "narrative_not_protected"}

FailureReasons ==
    {"pass_failed", "result_invalid", "evidence_unsupported", "model_substituted",
     "sandbox_teardown_incomplete"}

CallSequences(n) == UNION {[1..k -> Calls] : k \in 0..n}

CorePlaces == {"idle", "resolveAdapter", "resolveHost", "gate", "launching",
               "materialize", "reresolve", "unwinding", "pass", "tearingDown", "done"}

PassPlaces == {"none", "capability", "preflight", "opening", "session", "endpoint", "turn",
               "closing", "foreign", "over"}

Cores == [at : CorePlaces, capability : Capabilities,
          isolation : {"unknown", "container", "container-rootless"},
          answer : {"none", "result"} \cup RefusalReasons \cup FailureReasons]

Passes == [at : PassPlaces, observed : CallSequences(2 * MaxCalls),
           claims : CallSequences(2 * MaxCalls), valid : BOOLEAN, repaired : BOOLEAN,
           model : {"pinned", "other"}, answer : {"none", "completed", "failed", "threw"}]

WorkerTypeOK ==
    /\ SandboxTypeOK
    /\ input \in [Execs -> Inputs]
    /\ core \in [Execs -> Cores]
    /\ \A e \in Execs : core[e].capability \in {Unresolved} \cup MayResolve(e)
    /\ inquiry \in [Execs -> {"none", "probe", "inspect", "established", "refuted"}]
    /\ pass \in [Execs -> Passes]
    /\ stopped \in [Execs -> [caller : BOOLEAN, timeout : BOOLEAN]]

WorkerInit ==
    /\ SandboxInit
    /\ input \in [Execs -> Inputs]
    /\ core = [e \in Execs |-> [at |-> "idle", capability |-> Unresolved,
                                isolation |-> "unknown", answer |-> "none"]]
    /\ inquiry = [e \in Execs |-> "none"]
    /\ pass = [e \in Execs |-> [at |-> "none", observed |-> <<>>, claims |-> <<>>,
                                valid |-> TRUE, model |-> "other", repaired |-> FALSE,
                                answer |-> "none"]]
    /\ stopped = [e \in Execs |-> [caller |-> FALSE, timeout |-> FALSE]]

At(e, place)   == core' = [core EXCEPT ![e].at = place]
Refuse(e, why) == core' = [core EXCEPT ![e].at = "done", ![e].answer = why]
Unwind(e, why) == core' = [core EXCEPT ![e].at = "unwinding", ![e].answer = why]

CallerStops(e) ==
    /\ core[e].at # "done" /\ ~stopped[e].caller
    /\ stopped' = [stopped EXCEPT ![e].caller = TRUE]
    /\ UNCHANGED <<sandboxVars, input, core, inquiry, pass>>

---------------------------------------------------------------------------
(* Resolution, before anything exists.                                       *)
Begin(e) ==
    /\ core[e].at = "idle"
    /\ IF input[e].harness # input[e].adapter \/ stopped[e].caller
       THEN Refuse(e, "capability_unresolved") ELSE At(e, "resolveAdapter")
    /\ UNCHANGED <<sandboxVars, input, inquiry, pass, stopped>>

(* The Adapter answers, and sandboxes.capability() is called.                *)
AdapterResolves(e) ==
    /\ core[e].at = "resolveAdapter"
    /\ \/ Refuse(e, "capability_unresolved") /\ UNCHANGED reading
       \/ /\ \E c \in MayResolve(e) :
                 core' = [core EXCEPT ![e].at = "resolveHost", ![e].capability = c]
          /\ AskCapability(e)
    /\ UNCHANGED <<host, drifts, cache, quarantined, box, daemon, access,
                   input, inquiry, pass, stopped>>

HostResolves(e) ==
    /\ core[e].at = "resolveHost" /\ reading[e].at \in {"known", "failed"}
    /\ IF reading[e].at = "failed"
       THEN Refuse(e, "capability_unresolved")
       ELSE core' = [core EXCEPT ![e].at = "gate",
                                 ![e].isolation = HostIsolation(reading[e].report)]
    /\ UNCHANGED <<sandboxVars, input, inquiry, pass, stopped>>

(* resolveWithinDeadline: 30 seconds, or the caller's signal.                *)
ResolutionAbandoned(e) ==
    /\ core[e].at \in {"resolveAdapter", "resolveHost"}
    /\ Refuse(e, "capability_unresolved")
    /\ UNCHANGED <<sandboxVars, input, inquiry, pass, stopped>>

(* The gates and the narrative, then the call of launch(), without an await. *)
Gate(e) ==
    /\ core[e].at = "gate"
    /\ LET refused == CheckDispatch(input[e], core[e].capability, core[e].isolation)
       IN \/ refused # "none" /\ Refuse(e, refused) /\ UNCHANGED sandboxVars
          \/ /\ refused = "none" /\ ~input[e].title
             /\ Refuse(e, "narrative_title_missing")
             /\ UNCHANGED sandboxVars
          \/ refused = "none" /\ input[e].title /\ At(e, "launching") /\ Launch(e)
    /\ UNCHANGED <<input, inquiry, pass, stopped>>

LaunchReturns(e) ==
    /\ core[e].at = "launching"
    /\ \/ box[e].at = "refused" /\ Refuse(e, "sandbox_refused")
       \/ box[e].at = "up" /\ At(e, "materialize")
    /\ UNCHANGED <<sandboxVars, input, inquiry, pass, stopped>>

(* materializeNarrative, and on success the call that resolves the           *)
(* capability again, for the instance.                                       *)
Materialize(e) ==
    /\ core[e].at = "materialize"
    /\ \/ /\ Unwind(e, "narrative_not_protected") /\ Teardown(e)
          /\ UNCHANGED inquiry
       \/ /\ stopped[e].caller
          /\ Unwind(e, "capability_unresolved") /\ Teardown(e)
          /\ UNCHANGED inquiry
       \/ /\ ~stopped[e].caller
          /\ At(e, "reresolve")
          /\ inquiry' = [inquiry EXCEPT ![e] = "probe"]
          /\ UNCHANGED sandboxVars
    /\ UNCHANGED <<input, pass, stopped>>

---------------------------------------------------------------------------
(* The Adapter's capability({ sandbox }): the probe, then the artifact check *)
(* inside the instance (checkCodexSandbox), whose commands start only while   *)
(* the Sandbox is open.                                                       *)
ProbeAnswers(e) ==
    /\ inquiry[e] = "probe"
    /\ \/ inquiry' = [inquiry EXCEPT ![e] = "refuted"] /\ UNCHANGED access
       \/ /\ Open(e)
          /\ inquiry' = [inquiry EXCEPT ![e] = "inspect"]
          /\ access' = [access EXCEPT ![e].held = @ \cup {"process"}]
    /\ UNCHANGED <<host, drifts, cache, quarantined, box, reading, daemon,
                   input, core, pass, stopped>>

InspectionAnswers(e) ==
    /\ inquiry[e] = "inspect"
    /\ inquiry' \in {[inquiry EXCEPT ![e] = found] :
                        found \in {"refuted"} \cup (IF Open(e) THEN {"established"} ELSE {})}
    /\ UNCHANGED <<sandboxVars, input, core, pass, stopped>>

(* Back in execute(): the gates once more, on the instance's Isolation, and  *)
(* on success the call of adapter.pass(), without an await in between.       *)
MutantAuthorizeOnTheHost(e) ==
    /\ core[e].at = "reresolve" /\ inquiry[e] \in {"established", "refuted"}
    /\ \E c \in MayResolve(e) :
           /\ Codex(e) => (c.boundary <=> inquiry[e] = "established")
           /\ CheckDispatch(input[e], c, core[e].isolation) = "none"
           /\ core' = [core EXCEPT ![e].at = "pass", ![e].capability = c]
    /\ pass' = [pass EXCEPT ![e].at = IF Codex(e) THEN "capability" ELSE "foreign"]
    /\ inquiry' = [inquiry EXCEPT ![e] = IF Codex(e) THEN "probe" ELSE "none"]
    /\ UNCHANGED <<sandboxVars, input, stopped>>

Authorize(e) ==
    /\ core[e].at = "reresolve" /\ inquiry[e] \in {"established", "refuted"}
    /\ \E c \in MayResolve(e) :
           /\ Codex(e) => (c.boundary <=> inquiry[e] = "established")
           /\ LET refused == CheckDispatch(input[e], c, HostIsolation(box[e].capability))
              IN IF refused = "none"
                 THEN /\ core' = [core EXCEPT ![e].at = "pass", ![e].capability = c]
                      /\ pass' = [pass EXCEPT ![e].at = IF Codex(e) THEN "capability"
                                                        ELSE "foreign"]
                      /\ inquiry' = [inquiry EXCEPT ![e] = IF Codex(e) THEN "probe" ELSE "none"]
                      /\ UNCHANGED sandboxVars
                 ELSE /\ core' = [core EXCEPT ![e].at = "unwinding", ![e].capability = c,
                                              ![e].answer = refused]
                      /\ inquiry' = [inquiry EXCEPT ![e] = "none"]
                      /\ Teardown(e)
                      /\ UNCHANGED pass
    /\ UNCHANGED <<input, stopped>>

(* The Adapter's call threw, or the deadline or the caller was first: the    *)
(* inquiry may go on inside the Sandbox while that is torn down.             *)
InstanceUnresolved(e) ==
    /\ core[e].at = "reresolve"
    /\ Unwind(e, "capability_unresolved") /\ Teardown(e)
    /\ inquiry' \in {inquiry, [inquiry EXCEPT ![e] = "none"]}
    /\ UNCHANGED <<input, pass, stopped>>

(* A Refusal after the launch says why it refused, whatever the teardown     *)
(* came to.                                                                  *)
Unwound(e) ==
    /\ core[e].at = "unwinding" /\ box[e].at \in {"gone", "unproven"}
    /\ At(e, "done")
    /\ UNCHANGED <<sandboxVars, input, inquiry, pass, stopped>>

---------------------------------------------------------------------------
(* The Codex Adapter's Pass.  Its signal is the caller's or its own timeout. *)
PassStep(e, at) == pass' = [pass EXCEPT ![e].at = at]
Closes(e, answer) == pass' = [pass EXCEPT ![e].at = "closing", ![e].answer = answer]
Over(e, answer)   == pass' = [pass EXCEPT ![e].at = "over", ![e].answer = answer]

Aborted(e) == stopped[e].caller \/ stopped[e].timeout

MutantNativeTimesOut(e) ==
    /\ pass[e].at \notin {"none", "capability", "foreign", "over"} /\ ~stopped[e].timeout
    /\ input[e].route = "native"
    /\ stopped' = [stopped EXCEPT ![e].timeout = TRUE]
    /\ UNCHANGED <<sandboxVars, input, core, inquiry, pass>>

PassTimesOut(e) ==
    /\ pass[e].at \notin {"none", "capability", "foreign", "over"} /\ ~stopped[e].timeout
    /\ stopped' = [stopped EXCEPT ![e].timeout = TRUE]
    /\ UNCHANGED <<sandboxVars, input, core, inquiry, pass>>

(* pass(): the capability once more, for the Pass itself.                    *)
CapabilityHeld(e) ==
    /\ pass[e].at = "capability" /\ inquiry[e] \in {"established", "refuted"}
    /\ \/ /\ Over(e, "threw")
          /\ inquiry' = [inquiry EXCEPT ![e] = "none"]
       \/ /\ inquiry[e] = "established" /\ ~Aborted(e)
          /\ PassStep(e, "preflight")
          /\ inquiry' = [inquiry EXCEPT ![e] = "inspect"]
       \/ /\ inquiry[e] = "established" /\ Aborted(e)
          /\ Closes(e, "failed")
          /\ inquiry' = [inquiry EXCEPT ![e] = "none"]
    /\ UNCHANGED <<sandboxVars, input, core, stopped>>

PreflightAnswers(e) ==
    /\ pass[e].at = "preflight" /\ inquiry[e] \in {"established", "refuted"}
    /\ IF inquiry[e] = "established"
       THEN PassStep(e, "opening") /\ Registers(e, "proxy")
       ELSE Closes(e, "failed") /\ UNCHANGED access
    /\ inquiry' = [inquiry EXCEPT ![e] = "none"]
    /\ UNCHANGED <<host, drifts, cache, quarantined, box, reading, daemon,
                   input, core, stopped>>

ProxyOpens(e) ==
    /\ pass[e].at = "opening" /\ access[e].opening = {}
    /\ IF "proxy" \in access[e].registered THEN PassStep(e, "session") ELSE Closes(e, "failed")
    /\ UNCHANGED <<sandboxVars, input, core, inquiry, stopped>>

(* A native session writes its credential and runs one process per turn; a   *)
(* brokered one exposes the bridge's port first and keeps a process.          *)
SessionStarts(e) ==
    /\ pass[e].at = "session"
    /\ \/ input[e].route = "native" /\ PassStep(e, "turn") /\ UNCHANGED access
       \/ input[e].route = "brokered" /\ PassStep(e, "endpoint") /\ Registers(e, "port")
       \/ Closes(e, "failed") /\ UNCHANGED access
    /\ UNCHANGED <<host, drifts, cache, quarantined, box, reading, daemon,
                   input, core, inquiry, stopped>>

EndpointOpens(e) ==
    /\ pass[e].at = "endpoint" /\ access[e].opening = {}
    /\ \/ /\ "port" \in access[e].registered
          /\ PassStep(e, "turn")
          /\ access' = [access EXCEPT ![e].held = @ \cup {"process"}]
       \/ Closes(e, "failed") /\ UNCHANGED access
    /\ UNCHANGED <<host, drifts, cache, quarantined, box, reading, daemon,
                   input, core, inquiry, stopped>>

(* checkConformance, which the Adapter is handed as `check` and Worker core  *)
(* asks again of what it is given back.                                      *)
Complaint(claims, observed, valid) ==
    IF ~CrossCheck(claims, observed, Calls) THEN "evidence_unsupported"
    ELSE IF ~valid THEN "result_invalid" ELSE "none"

MutantTurnRepairsUnchecked(e) ==
    /\ pass[e].at = "turn" /\ ~Aborted(e)
    /\ \E claims \in CallSequences(2 * MaxCalls), valid \in BOOLEAN :
          pass' = IF pass[e].repaired \/ Complaint(claims, pass[e].observed, valid) = "none"
                  THEN [pass EXCEPT ![e].at = "closing", ![e].answer = "completed",
                                    ![e].claims = claims, ![e].valid = valid]
                  ELSE [pass EXCEPT ![e].repaired = TRUE]
    /\ UNCHANGED <<sandboxVars, input, core, inquiry, stopped>>

(* One turn: the calls observed are added to those of the Pass, and a        *)
(* complaint, or an answer that does not parse, is repaired once.            *)
Turn(e) ==
    /\ pass[e].at = "turn" /\ ~Aborted(e)
    /\ \E seen \in CallSequences(MaxCalls), claims \in CallSequences(2 * MaxCalls),
          valid \in BOOLEAN :
          LET observed == pass[e].observed \o seen
              after    == [pass EXCEPT ![e].observed = observed]
          IN \/ /\ Complaint(claims, observed, valid) = "none"
                /\ pass' = [after EXCEPT ![e].at = "closing", ![e].answer = "completed",
                                         ![e].claims = claims, ![e].valid = valid]
             \/ /\ Complaint(claims, observed, valid) # "none"
                /\ pass' = IF pass[e].repaired
                           THEN [after EXCEPT ![e].at = "closing", ![e].answer = "failed"]
                           ELSE [after EXCEPT ![e].repaired = TRUE]
    /\ UNCHANGED <<sandboxVars, input, core, inquiry, stopped>>

(* The turn failed, threw, or was cut short by the signal.                   *)
TurnFails(e) ==
    /\ pass[e].at = "turn"
    /\ Closes(e, "failed")
    /\ UNCHANGED <<sandboxVars, input, core, inquiry, stopped>>

(* close(): a clean-up that fails takes the answer with it.                  *)
SessionCloses(e) ==
    /\ pass[e].at = "closing"
    /\ Over(e, pass[e].answer) \/ Over(e, "threw")
    /\ UNCHANGED <<sandboxVars, input, core, inquiry, stopped>>

---------------------------------------------------------------------------
(* The Pass of any other Adapter: it may take host resources and leave them, *)
(* and its bundle may be anything.                                            *)
ForeignOpens(e) ==
    /\ pass[e].at = "foreign" /\ Open(e)
    /\ access[e].opening = {} /\ "proxy" \notin access[e].registered
    /\ Registers(e, "proxy")
    /\ UNCHANGED <<host, drifts, cache, quarantined, box, reading, daemon,
                   input, core, inquiry, pass, stopped>>

ForeignAnswers(e) ==
    /\ pass[e].at = "foreign"
    /\ \E answer \in {"completed", "failed", "threw"}, model \in {"pinned", "other"},
          claims \in CallSequences(1), observed \in CallSequences(1), valid \in BOOLEAN :
          pass' = [pass EXCEPT ![e] = [at |-> "over", answer |-> answer, repaired |-> FALSE,
                                       claims |-> claims, observed |-> observed,
                                       valid |-> valid, model |-> model]]
    /\ UNCHANGED <<sandboxVars, input, core, inquiry, stopped>>

---------------------------------------------------------------------------
(* What Worker core makes of the Pass: a bundle is a Result only where it    *)
(* names the pinned Model, if the Adapter can tell, and conforms.             *)
Verdict(e) ==
    IF pass[e].answer \in {"failed", "threw"} THEN "pass_failed"
    ELSE IF core[e].capability.reportsModel /\ pass[e].model # "pinned"
    THEN "model_substituted"
    ELSE LET complaint == Complaint(pass[e].claims, pass[e].observed, pass[e].valid)
         IN IF complaint = "none" THEN "result" ELSE complaint

PassReturns(e) ==
    /\ core[e].at = "pass" /\ pass[e].at = "over"
    /\ core' = [core EXCEPT ![e].at = "tearingDown", ![e].answer = Verdict(e)]
    /\ Teardown(e)
    /\ UNCHANGED <<input, inquiry, pass, stopped>>

MutantTornDownAnyway(e) ==
    /\ core[e].at = "tearingDown" /\ box[e].at \in {"gone", "unproven"}
    /\ core' = [core EXCEPT ![e].at = "done"]
    /\ UNCHANGED <<sandboxVars, input, inquiry, pass, stopped>>

(* Fail closed: a teardown that proved nothing replaces whatever came of the *)
(* Pass, a Result included.                                                  *)
TornDown(e) ==
    /\ core[e].at = "tearingDown" /\ box[e].at \in {"gone", "unproven"}
    /\ core' = [core EXCEPT ![e].at = "done",
                            ![e].answer = IF box[e].at = "gone" THEN @
                                          ELSE "sandbox_teardown_incomplete"]
    /\ UNCHANGED <<sandboxVars, input, inquiry, pass, stopped>>

(* Another execution of the process established, evicted or quarantined.     *)
Neighbour ==
    /\ \/ cache' \in (Fingerprints \cup {Unknown}) \ {cache} /\ UNCHANGED quarantined
       \/ ~quarantined /\ quarantined' = TRUE /\ UNCHANGED cache
    /\ UNCHANGED <<host, drifts, box, reading, daemon, access,
                   input, core, inquiry, pass, stopped>>

Elsewhere == UNCHANGED <<input, core, inquiry, pass, stopped>>

PassProgress(e) ==
    \/ CapabilityHeld(e) \/ PreflightAnswers(e) \/ ProxyOpens(e) \/ SessionStarts(e)
    \/ EndpointOpens(e) \/ SessionCloses(e) \/ ForeignAnswers(e)

CoreProgress(e) ==
    \/ Begin(e) \/ AdapterResolves(e) \/ HostResolves(e)
    \/ ResolutionAbandoned(e) \/ Gate(e)
    \/ LaunchReturns(e) \/ Materialize(e) \/ Authorize(e) \/ InstanceUnresolved(e)
    \/ Unwound(e) \/ PassReturns(e) \/ TornDown(e)

(* The calls below: the daemon's answers and those of the Adapter's own      *)
(* commands.                                                                 *)
CallProgress(e) ==
    \/ (LaunchStep(e) \/ DestroyStep(e) \/ SetupStep(e)) /\ Elsewhere
    \/ ProbeAnswers(e) \/ InspectionAnswers(e)

WorkerNext ==
    \/ Neighbour
    \/ HostDrifts /\ Elsewhere
    \/ (\E e \in Execs : HostProxyAborts(e)) /\ Elsewhere
    \/ \E e \in Execs :
           \/ CallerStops(e) \/ PassTimesOut(e) \/ Turn(e) \/ TurnFails(e) \/ ForeignOpens(e)
           \/ CoreProgress(e) \/ CallProgress(e) \/ PassProgress(e)

WorkerSpec == WorkerInit /\ [][WorkerNext]_workerVars

(* Every call is answered: a command ends, a resolution has its 30 seconds,  *)
(* a Pass its timeout.  A turn has no deadline of its own: it ends because    *)
(* the Pass times out and the aborted signal cuts it short.                   *)
WorkerFairness ==
    \A e \in Execs :
        /\ WF_workerVars(CoreProgress(e))
        /\ WF_workerVars(CallProgress(e))
        /\ WF_workerVars(PassProgress(e))
        /\ WF_workerVars(PassTimesOut(e))
        /\ WF_workerVars(Aborted(e) /\ TurnFails(e))

FairWorkerSpec == WorkerSpec /\ WorkerFairness

---------------------------------------------------------------------------
Kind(answer) ==
    CASE answer \in RefusalReasons -> "refusal"
      [] answer \in FailureReasons -> "failure"
      [] answer \in {"none", "result"} -> answer

Contract == INSTANCE WorkerContract WITH
    authorized <- {e \in Execs : pass[e].at # "none"},
    answer     <- [e \in Execs |-> IF core[e].at = "done" THEN Kind(core[e].answer)
                                   ELSE "none"],
    standing   <- {e \in Execs : Exists(e) \/ access[e].held # {} \/ access[e].opening # {}},
    trusted    <- ~quarantined

(* An execution refuses only before the Reviewer is let in and fails, or     *)
(* yields a Result, only after; a Result means the Sandbox is gone; and an    *)
(* answer that leaves something behind leaves a quarantined runtime.          *)
ImplementsWorkerContract == Contract!ContractSpec

(* A Reviewer reads the Workspace only where the matrix permits this Run's   *)
(* Provenance on the Isolation of the instance it runs in and at the          *)
(* Exposure resolved for it, although the gates before the launch judged     *)
(* another report of the host.                                               *)
AuthorizedOnTheInstance ==
    \A e \in Execs :
        pass[e].at # "none" =>
            CheckDispatch(input[e], core[e].capability, HostIsolation(box[e].report)) = "none"

(* The Codex Adapter and Worker core never disagree on a bundle: what the    *)
(* Adapter let through its check, repaired or not, conforms.                 *)
AdapterAgreesWithCore ==
    \A e \in Execs :
        Codex(e) => core[e].answer \notin {"result_invalid", "evidence_unsupported",
                                           "model_substituted"}

(* Every execution is answered, although the caller may never abort and a    *)
(* turn may never end by itself.                                             *)
EveryExecutionAnswered == \A e \in Execs : <>(core[e].at = "done")
=============================================================================
