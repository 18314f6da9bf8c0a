---------------------------- MODULE WorkerProofs ----------------------------
(***************************************************************************)
(* What Worker core promises, for every number of executions, every Adapter  *)
(* that keeps the port and whatever the daemon, the callers and the Reviewers *)
(* do: the proofs of Worker's safety properties.                              *)
(*                                                                         *)
(* A step of an execution is a step of its Sandbox as well, and keeps what   *)
(* SandboxProofs shows of it.  What is added here ties the two together:      *)
(* where execute() is, where the Pass is, and where the Sandbox is then.      *)
(***************************************************************************)
EXTENDS Worker, SandboxProofs, SequenceTheorems

Outset  == {"idle", "resolveAdapter", "resolveHost", "gate"}
Ahead   == Outset \cup {"launching", "materialize", "reresolve", "pass"}
Ended == {"idle", "refused", "gone", "unproven"}

(* Where the Sandbox of an execution is, at each point of execute().         *)
Tied(c, b, d) ==
  /\ c.at \in Outset => b.at = "idle"
  /\ c.at = "launching" => ~b.leaving
  /\ c.at \in {"materialize", "reresolve", "pass"} => b.at = "up"
  /\ c.at \in {"unwinding", "tearingDown"} => b.leaving
  /\ c.at = "done" => b.at \in Ended
  /\ b.at = "up" => d.instance = "running"

(* Where the Pass is, and what can have been set up for it by then.          *)
Paced(c, p, a) ==
  /\ p.at # "none" <=> \/ c.at \in {"pass", "tearingDown"}
                       \/ c.at = "done" /\ c.answer \notin RefusalReasons
  /\ p.at \notin {"none", "over"} => c.at = "pass"
  /\ p.at \in {"none", "capability", "preflight"} => a.opening = {}
  /\ p.at \in {"closing", "over"} <=> p.answer # "none"

(* What the answer may be, and from when on.                                *)
Answers(c, b) ==
  /\ c.at \in Ahead => c.answer = "none"
  /\ c.at = "unwinding" => c.answer \in RefusalReasons
  /\ c.at = "tearingDown" => c.answer \in FailureReasons \cup {"result"}
  /\ c.at = "done" => c.answer # "none" /\ (c.answer = "result" => b.at = "gone")

(* A Codex bundle that was let through conforms, and one turn is repaired.    *)
Conforms(p) ==
  /\ p.at # "foreign"
  /\ p.at = "turn" => p.observed \in CallSequences(IF p.repaired THEN MaxCalls ELSE 0)
  /\ p.at \in {"none", "capability", "preflight", "opening", "session", "endpoint"} =>
       p.observed = <<>> /\ ~p.repaired
  /\ p.answer = "completed" => Complaint(p.claims, p.observed, p.valid) = "none"

Checked(e) ==
  /\ ~Codex(e) => pass[e].at \in {"none", "foreign", "over"}
  /\ Codex(e) =>
       /\ Conforms(pass[e])
       /\ core[e].answer \notin {"result_invalid", "evidence_unsupported",
                                  "model_substituted"}

Linked(e) ==
  /\ Tied(core[e], box[e], daemon[e])
  /\ Paced(core[e], pass[e], access[e])
  /\ Answers(core[e], box[e])
  /\ Checked(e)

Permitted(e) ==
  pass[e].at # "none" =>
    CheckDispatch(input[e], core[e].capability, HostIsolation(box[e].report)) = "none"

WorkerInv ==
  /\ WorkerTypeOK /\ LaunchesAreSound
  /\ \A e \in Execs : Linked(e) /\ Permitted(e)
-----------------------------------------------------------------------------
(* Which steps the Sandbox of an execution takes.  Beyond those of Sandbox    *)
(* itself a caller asks for the capability, or occupies an open Sandbox.      *)
Asks(e) ==
  AskCapability(e)
    /\ UNCHANGED <<host, drifts, cache, quarantined, box, daemon, access>>

Occupies(e) ==
  /\ Open(e)
  /\ \/ access' = [access EXCEPT ![e].held = @ \cup {"process"}]
     \/ \E resource \in Setups :
            (resource = "proxy" => access[e].opening = {}) /\ Registers(e, resource)
  /\ UNCHANGED <<host, drifts, cache, quarantined, box, reading, daemon>>

LEMMA AskingKeeps ==
  ASSUME SandboxInv, NEW e \in Execs, Asks(e)
  PROVE  SandboxInv'
<1> USE DEF SandboxInv
<1>1. SandboxTypeOK'
  <2>1. CASE e \in Callers
    BY <2>1, SandboxAssumption DEF SandboxTypeOK, Asks, AskCapability
  <2>2. CASE e \notin Callers
    <3>1. reading' = reading
      BY <2>2 DEF Asks, AskCapability, SandboxTypeOK
    <3> QED
      BY <3>1 DEF Asks, SandboxTypeOK
  <2> QED
    BY <2>1, <2>2
<1>2. LaunchesAreSound'
  BY DEF Asks, LaunchesAreSound
<1> QED
  BY <1>1, <1>2

LEMMA OccupyingKeeps ==
  ASSUME SandboxInv, NEW e \in Execs, Occupies(e)
  PROVE  SandboxInv'
<1> USE DEF SandboxInv
<1>1. /\ box \in [Execs -> Boxes] /\ box[e] \in Boxes /\ box[e].at = "up"
      /\ access \in [Execs -> Accesses] /\ access[e] \in Accesses
      /\ access[e].held \in SUBSET Held /\ access[e].opening \in SUBSET Setups
      /\ access[e].proxy \in ProxyStages
      /\ Sound(box[e], daemon[e], access[e], quarantined)
  BY TypeParts DEF LaunchesAreSound, Occupies, Open, Accesses, Held
<1>2. UNCHANGED <<host, drifts, cache, quarantined, box, reading, daemon>>
  BY DEF Occupies
<1>3. ASSUME access' \in [Execs -> Accesses]
      PROVE  SandboxTypeOK'
  BY <1>2, <1>3, Zenon DEF SandboxTypeOK, Boxes, Daemons, Accesses
<1> USE DEF Sound, SoundLaunch, SoundAccess, SoundEnd, Empty, Admitted, InUse, Writes
<1>4. CASE access' = [access EXCEPT ![e].held = @ \cup {"process"}]
  <2>1. access' \in [Execs -> Accesses]
    BY <1>1, <1>4, AccessHolds DEF Held
  <2>2. /\ access'[e] = [access[e] EXCEPT !.held = @ \cup {"process"}]
        /\ \A f \in Execs \ {e} : access'[f] = access[f]
    BY <1>1, <1>4
  <2>3. Writes(e) /\ Sound(box'[e], daemon'[e], access'[e], quarantined')
    BY <1>1, <1>2, <2>2 DEF Accesses
  <2> QED
    BY <1>3, <2>1, <2>3, WriterIsSound DEF SandboxInv
<1>5. ASSUME NEW resource \in Setups, resource = "proxy" => access[e].opening = {},
             Registers(e, resource)
      PROVE  SandboxInv'
  <2>1. access' \in [Execs -> Accesses]
    BY <1>1, <1>5, AccessOpens DEF Registers, ProxyStages
  <2>2. Writes(e) /\ Sound(box'[e], daemon'[e], access'[e], quarantined')
    BY <1>1, <1>2, <1>5 DEF Registers, Accesses
  <2> QED
    BY <1>3, <2>1, <2>2, WriterIsSound DEF SandboxInv
<1> QED
  BY <1>4, <1>5 DEF Occupies

(* Another execution of the process takes away nothing but trust.            *)
LEMMA NeighbourKeeps ==
  ASSUME SandboxInv, Neighbour
  PROVE  SandboxInv'
<1>1. SandboxTypeOK'
  BY DEF SandboxInv, SandboxTypeOK, Neighbour
<1>2. LaunchesAreSound'
  <2>1. /\ quarantined \in BOOLEAN /\ quarantined' \in BOOLEAN
        /\ quarantined => quarantined'
        /\ UNCHANGED <<box, daemon, access>>
    BY DEF SandboxInv, SandboxTypeOK, Neighbour
  <2> QED
    BY <2>1, OthersStaySound DEF SandboxInv, LaunchesAreSound
<1> QED
  BY <1>1, <1>2 DEF SandboxInv

(* How far a step of the daemon, or of a setup, takes a Sandbox: one that is  *)
(* up or has ended stays so, and none leaves by itself.                      *)
Advances(b, d, a, q, b2, d2, a2, q2) ==
  /\ b2.leaving = b.leaving
  /\ b.at \in Ended => b2 = b /\ d2 = d /\ a2.held = a.held /\ q2 = q
  /\ b.at = "up" => b2 = b /\ d2 = d
  /\ b.at # "up" /\ b2.at = "up" => d2.instance = "running"
  /\ b.leaving => b2.report = b.report
  /\ a2.opening \subseteq a.opening

Advance(e) ==
  /\ Writes(e)
  /\ Advances(box[e], daemon[e], access[e], quarantined,
              box'[e], daemon'[e], access'[e], quarantined')

LEMMA LaunchAdvances ==
  ASSUME SandboxInv, NEW e \in Execs, LaunchStep(e)
  PROVE  Advance(e)
<1>1. /\ box \in [Execs -> Boxes] /\ daemon \in [Execs -> Daemons]
      /\ box[e] \in Boxes /\ daemon[e] \in Daemons
      /\ Sound(box[e], daemon[e], access[e], quarantined)
  BY TypeParts DEF SandboxInv, LaunchesAreSound
<1> USE DEF Advance, Advances, Writes, Ended, Sound, SoundLaunch, Empty, Admitted
<1>2. CASE HostAnswers(e)
  BY <1>1, <1>2 DEF HostAnswers
<1>3. CASE HostEstablished(e)
  BY <1>1, <1>3 DEF HostEstablished
<1>4. CASE HostReportRead(e)
  BY <1>1, <1>4 DEF HostReportRead, Goes, Boxes
<1>5. CASE CheckCapability(e)
  BY <1>1, <1>5 DEF CheckCapability, Goes, Boxes
<1>6. CASE CreateVolume(e)
  BY <1>1, <1>6 DEF CreateVolume, Abandon, Goes, Boxes, Daemons
<1>7. CASE CreateInstance(e)
  BY <1>1, <1>7 DEF CreateInstance, Abandon, Goes, Boxes, Daemons
<1>8. CASE Attest(e)
  BY <1>1, <1>8 DEF Attest, Abandon, Goes, Boxes
<1>9. CASE StartInstance(e)
  BY <1>1, <1>9 DEF StartInstance, Abandon, Goes, Boxes, Daemons
<1> QED
  BY <1>2, <1>3, <1>4, <1>5, <1>6, <1>7, <1>8, <1>9 DEF LaunchStep

LEMMA DestroyAdvances ==
  ASSUME SandboxInv, NEW e \in Execs, DestroyStep(e)
  PROVE  Advance(e)
<1>1. /\ box \in [Execs -> Boxes] /\ daemon \in [Execs -> Daemons]
      /\ access \in [Execs -> Accesses]
      /\ box[e] \in Boxes /\ daemon[e] \in Daemons /\ access[e] \in Accesses
  BY TypeParts DEF SandboxInv
<1>2. ASSUME NEW residue, Settled(e, residue)
      PROVE  /\ \A f \in Execs \ {e} : box'[f] = box[f]
             /\ box'[e].leaving = box[e].leaving /\ box'[e].report = box[e].report
             /\ box'[e].at # "up" /\ (quarantined => quarantined')
  BY <1>1, <1>2 DEF Settled, Boxes
<1> USE DEF Advance, Advances, Writes, Ended
<1>3. CASE CloseAccess(e)
  <2>1. PICK kept \in SUBSET (access[e].held \ {"listener"}), failed \in BOOLEAN :
          /\ access' = [access EXCEPT
               ![e].held = kept \cup IF "proxy" \in access[e].registered THEN {}
                                     ELSE access[e].held \cap {"listener"},
               ![e].failed = failed]
          /\ quarantined' = (quarantined \/ failed)
          /\ box' = [box EXCEPT ![e].at = "rm"]
    BY <1>3 DEF CloseAccess, Closed
  <2> QED
    BY <1>1, <1>3, <2>1 DEF CloseAccess, Boxes, Accesses
<1>4. CASE RemoveInstance(e)
  BY <1>1, <1>2, <1>4 DEF RemoveInstance, Goes, Boxes, Daemons
<1>5. CASE RemoveVolume(e)
  BY <1>1, <1>2, <1>5 DEF RemoveVolume, Goes, Boxes, Daemons
<1>6. CASE ListInstances(e)
  BY <1>1, <1>2, <1>6 DEF ListInstances, Boxes
<1>7. CASE ListVolumes(e)
  <2>1. PICK residue : Settled(e, residue)
    BY <1>7 DEF ListVolumes
  <2> QED
    BY <1>1, <1>2, <1>7, <2>1 DEF ListVolumes
<1> QED
  BY <1>3, <1>4, <1>5, <1>6, <1>7 DEF DestroyStep

LEMMA SetupAdvances ==
  ASSUME SandboxInv, NEW e \in Execs, SetupStep(e) \/ HostProxyAborts(e)
  PROVE  Advance(e)
<1>1. /\ box \in [Execs -> Boxes] /\ access \in [Execs -> Accesses]
      /\ box[e] \in Boxes /\ access[e] \in Accesses
      /\ Sound(box[e], daemon[e], access[e], quarantined)
  BY TypeParts DEF SandboxInv, LaunchesAreSound
<1>2. UNCHANGED <<box, daemon, quarantined>>
  BY DEF SetupStep, HostProxyAborts
<1> USE DEF Advance, Advances, Writes, Ended, Sound, SoundAccess, InUse
<1>3. CASE PortListens(e)
  BY <1>1, <1>2, <1>3 DEF PortListens, Registered, Accesses
<1>4. CASE HostProxyListens(e)
  BY <1>1, <1>2, <1>4 DEF HostProxyListens, Open, Registered, Accesses
<1>5. CASE CertificateWritten(e)
  BY <1>1, <1>2, <1>5 DEF CertificateWritten, Open, Registered, Accesses
<1>6. CASE RelayReady(e)
  BY <1>1, <1>2, <1>6 DEF RelayReady, Registered, Accesses
<1>7. CASE RelayEnds(e)
  BY <1>1, <1>2, <1>7 DEF RelayEnds, Registered, Accesses
<1>8. CASE HostProxyAborts(e)
  BY <1>1, <1>2, <1>8 DEF HostProxyAborts, Accesses
<1> QED
  BY <1>3, <1>4, <1>5, <1>6, <1>7, <1>8 DEF SetupStep
-----------------------------------------------------------------------------
(* One execution at a time. *)

(* A step of e leaves the others, and what each was given, alone.            *)
Beside(e) ==
  /\ Writes(e) /\ input' = input
  /\ \A f \in Execs \ {e} : core'[f] = core[f] /\ pass'[f] = pass[f]

WorkerTypes ==
  /\ core \in [Execs -> Cores]
  /\ inquiry \in [Execs -> {"none", "probe", "inspect", "established", "refuted"}]
  /\ pass \in [Execs -> Passes]
  /\ stopped \in [Execs -> [caller : BOOLEAN, timeout : BOOLEAN]]

LEMMA ActorKeeps ==
  ASSUME WorkerInv, SandboxInv', NEW e \in Execs, Beside(e), WorkerTypes',
         core'[e].capability \in {Unresolved} \cup MayResolve(e),
         Linked(e)', Permitted(e)'
  PROVE  WorkerInv'
<1>1. \A f \in Execs : MayResolve(f)' = MayResolve(f) /\ Codex(f)' = Codex(f)
  BY DEF Beside, MayResolve, Codex, CodexCapability
<1>2. \A f \in Execs \ {e} :
        /\ core'[f] = core[f] /\ pass'[f] = pass[f] /\ input'[f] = input[f]
        /\ box'[f] = box[f] /\ daemon'[f] = daemon[f] /\ access'[f] = access[f]
  BY DEF Beside, Writes
<1>3. WorkerTypeOK'
  BY <1>1, <1>2 DEF WorkerInv, WorkerTypeOK, WorkerTypes, SandboxInv, Beside
<1>4. ASSUME NEW f \in Execs
      PROVE  Linked(f)' /\ Permitted(f)'
  <2>1. CASE f = e
    BY <2>1
  <2>2. CASE f # e
    <3>1. Linked(f) /\ Permitted(f)
      BY DEF WorkerInv
    <3> QED
      BY <1>1, <1>2, <2>2, <3>1 DEF Linked, Checked, Permitted
  <2> QED
    BY <2>1, <2>2
<1> QED
  BY <1>3, <1>4 DEF WorkerInv, SandboxInv

LEMMA AdvanceKeeps ==
  ASSUME WorkerInv, SandboxInv', NEW e \in Execs, Advance(e), Elsewhere
  PROVE  WorkerInv'
<1>1. /\ WorkerTypes' /\ Beside(e)
      /\ core'[e].capability \in {Unresolved} \cup MayResolve(e)
  BY DEF WorkerInv, WorkerTypeOK, WorkerTypes, Elsewhere, Beside, Advance
<1>2. /\ Tied(core[e], box[e], daemon[e])
      /\ Paced(core[e], pass[e], access[e])
      /\ Answers(core[e], box[e]) /\ Checked(e) /\ Permitted(e)
      /\ Advances(box[e], daemon[e], access[e], quarantined,
                  box'[e], daemon'[e], access'[e], quarantined')
      /\ UNCHANGED <<input, core, pass>>
  BY DEF WorkerInv, Linked, Advance, Elsewhere
<1>3. core[e].at \in CorePlaces
  BY DEF WorkerInv, WorkerTypeOK, Cores
<1>4. Tied(core[e], box'[e], daemon'[e])
  BY <1>2 DEF Tied, Advances, Ended, Outset
<1>5. Paced(core[e], pass[e], access'[e])
  BY <1>2 DEF Paced, Advances
<1>6. Answers(core[e], box'[e])
  BY <1>2 DEF Answers, Tied, Advances
<1>7. Linked(e)'
  BY <1>2, <1>4, <1>5, <1>6 DEF Linked, Checked, Codex
<1>8. pass[e].at # "none" => box[e].at = "up" \/ box[e].leaving \/ box[e].at \in Ended
  BY <1>2 DEF Tied, Paced
<1>9. Permitted(e)'
  BY <1>2, <1>8 DEF Permitted, Advances
<1> QED
  BY <1>1, <1>7, <1>9, ActorKeeps

(* A step of execute() or of the Pass that leaves the Sandbox alone.         *)
LEMMA SandboxRests ==
  ASSUME WorkerInv, UNCHANGED sandboxVars
  PROVE  SandboxInv' /\ \A e \in Execs : Writes(e)
  BY DEF WorkerInv, WorkerTypeOK, SandboxInv, sandboxVars, SandboxTypeOK, LaunchesAreSound, Writes

(* What is known of an execution before its step.                            *)
LEMMA Known ==
  ASSUME WorkerInv, NEW e \in Execs
  PROVE  /\ WorkerTypes /\ SandboxInv
         /\ core[e] \in Cores /\ core[e].at \in CorePlaces
         /\ core[e].capability \in {Unresolved} \cup MayResolve(e)
         /\ pass[e] \in Passes
         /\ Tied(core[e], box[e], daemon[e]) /\ Paced(core[e], pass[e], access[e])
         /\ Answers(core[e], box[e]) /\ Checked(e) /\ Permitted(e)
         /\ Sound(box[e], daemon[e], access[e], quarantined)
  BY DEF WorkerInv, WorkerTypeOK, WorkerTypes, SandboxInv, LaunchesAreSound, Linked, Cores

(* What a capability resolves to is one, and the gates name no reason of a    *)
(* later step.                                                              *)
LEMMA Resolved ==
  ASSUME NEW e \in Execs, NEW c \in MayResolve(e)
  PROVE  c \in Capabilities /\ (Codex(e) => ~c.reportsModel)
<1>1. \A established, fresh \in BOOLEAN :
        /\ CodexCapability(e, established, fresh) \in Capabilities
        /\ ~CodexCapability(e, established, fresh).reportsModel
  BY DEF CodexCapability, Capabilities, Exposures, Autonomies
<1> QED
  BY <1>1, WorkerAssumption DEF MayResolve

LEMMA GatesRefuse ==
  ASSUME NEW spec, NEW c \in Capabilities, NEW isolation
  PROVE  CheckDispatch(spec, c, isolation) \in RefusalReasons \cup {"none"}
  BY DEF CheckDispatch, Ineligible, RefusalReasons, Capabilities

LEMMA IsolationTypes ==
  ASSUME NEW fingerprint
  PROVE  HostIsolation(fingerprint) \in {"unknown", "container", "container-rootless"}
  BY DEF HostIsolation

(* execute(), up to the launch.                                              *)
LEMMA RefusalBefore ==
  ASSUME WorkerInv, NEW e \in Execs, core[e].at \in Outset, NEW why \in RefusalReasons,
         Refuse(e, why), SandboxInv', Writes(e), box' = box, daemon' = daemon, access' = access,
         UNCHANGED <<input, inquiry, pass, stopped>>
  PROVE  WorkerInv'
<1> USE Known
<1>1. WorkerTypes'
  BY DEF WorkerTypes, Refuse, Cores, CorePlaces
<1>2. /\ core'[e].at = "done" /\ core'[e].answer = why
      /\ core'[e].capability = core[e].capability
      /\ \A f \in Execs \ {e} : core'[f] = core[f]
  BY DEF WorkerTypes, Refuse, Cores
<1>3. Beside(e)
  BY <1>2 DEF Beside
<1>4. Linked(e)'
  <2>1. pass[e].at = "none" /\ box[e].at = "idle"
    BY DEF Paced, Tied, Outset
  <2>2. Tied(core'[e], box'[e], daemon'[e])
    BY <1>2, <2>1 DEF Tied, Outset, Ended
  <2>3. Paced(core'[e], pass'[e], access'[e])
    BY <1>2, <2>1 DEF Paced
  <2>4. Answers(core'[e], box'[e])
    BY <1>2 DEF Answers, Ahead, Outset, RefusalReasons
  <2>5. Checked(e)'
    BY <1>2 DEF Checked, Codex, RefusalReasons
  <2> QED
    BY <2>2, <2>3, <2>4, <2>5 DEF Linked
<1>5. Permitted(e)'
  BY DEF Permitted, Paced, Outset, Ahead
<1> QED
  BY <1>1, <1>2, <1>3, <1>4, <1>5, ActorKeeps

LEMMA BeginKeeps == ASSUME WorkerInv, NEW e \in Execs, Begin(e) PROVE WorkerInv'
<1>1. SandboxInv' /\ Writes(e) /\ box' = box /\ daemon' = daemon /\ access' = access
  BY SandboxRests DEF Begin, sandboxVars
<1>2. CASE Refuse(e, "capability_unresolved")
  BY <1>1, <1>2, RefusalBefore DEF Begin, Outset, RefusalReasons
<1>3. CASE At(e, "resolveAdapter")
  <2> USE Known
  <2>1. WorkerTypes'
    BY <1>3 DEF WorkerTypes, Begin, At, Cores, CorePlaces
  <2>2. /\ core'[e] = [core[e] EXCEPT !.at = "resolveAdapter"]
        /\ Beside(e)
    BY <1>1, <1>3 DEF WorkerTypes, Begin, At, Beside
  <2>3. Linked(e)'
    BY <1>1, <2>2
    DEF Begin, Linked, Tied, Paced, Answers, Checked, Codex, Outset, Ahead, Cores
  <2>4. Permitted(e)'
    BY DEF Permitted, Begin, Paced
  <2> QED
    BY <1>1, <2>1, <2>2, <2>3, <2>4, ActorKeeps DEF Cores
<1> QED
  BY <1>2, <1>3 DEF Begin

LEMMA AdapterResolvesKeeps == ASSUME WorkerInv, NEW e \in Execs, AdapterResolves(e) PROVE WorkerInv'
<1>1. UNCHANGED <<box, daemon, access, quarantined, input, inquiry, pass, stopped>> /\ Writes(e)
  BY DEF AdapterResolves, Writes
<1>2. CASE Refuse(e, "capability_unresolved") /\ UNCHANGED reading
  <2>1. UNCHANGED sandboxVars
    BY <1>2 DEF AdapterResolves, sandboxVars
  <2> QED
    BY <1>1, <1>2, <2>1, SandboxRests, RefusalBefore DEF AdapterResolves, Outset, RefusalReasons
<1>3. ASSUME NEW c \in MayResolve(e), AskCapability(e),
             core' = [core EXCEPT ![e].at = "resolveHost", ![e].capability = c]
      PROVE  WorkerInv'
  <2> USE Known
  <2>1. SandboxInv'
    BY <1>3, AskingKeeps DEF AdapterResolves, Asks
  <2>2. c \in Capabilities
    BY Resolved
  <2>3. WorkerTypes'
    BY <1>1, <1>3, <2>2 DEF WorkerTypes, Cores, CorePlaces
  <2>4. /\ core'[e].at = "resolveHost" /\ core'[e].capability = c
        /\ core'[e].answer = core[e].answer
        /\ Beside(e)
    BY <1>1, <1>3 DEF WorkerTypes, Beside, Cores
  <2>5. core[e].at = "resolveAdapter"
    BY DEF AdapterResolves
  <2>6. Linked(e)'
    BY <1>1, <2>4, <2>5
    DEF Linked, Tied, Paced, Answers, Checked, Codex, Outset, Ahead
  <2>7. Permitted(e)'
    BY <1>1, <2>5 DEF Permitted, Paced
  <2> QED
    BY <2>1, <2>3, <2>4, <2>6, <2>7, ActorKeeps
<1> QED
  BY <1>2, <1>3 DEF AdapterResolves

LEMMA HostResolvesKeeps == ASSUME WorkerInv, NEW e \in Execs, HostResolves(e) PROVE WorkerInv'
<1>1. /\ SandboxInv' /\ Writes(e) /\ UNCHANGED <<box, daemon, access>>
      /\ UNCHANGED <<input, inquiry, pass, stopped>> /\ core[e].at = "resolveHost"
  BY SandboxRests DEF HostResolves, sandboxVars
<1>2. CASE Refuse(e, "capability_unresolved")
  BY <1>1, <1>2, RefusalBefore DEF Outset, RefusalReasons
<1>3. ASSUME NEW isolation \in {"unknown", "container", "container-rootless"},
             core' = [core EXCEPT ![e].at = "gate", ![e].isolation = isolation]
      PROVE  WorkerInv'
  <2> USE Known
  <2>1. WorkerTypes'
    <3>1. "gate" \in CorePlaces
      BY DEF CorePlaces
    <3>2. core' \in [Execs -> Cores]
      BY <1>3, <3>1 DEF WorkerTypes, Cores
    <3> QED
      BY <1>1, <3>2 DEF WorkerTypes
  <2>2. /\ core'[e].at = "gate" /\ core'[e].capability = core[e].capability
        /\ core'[e].answer = core[e].answer
        /\ Beside(e)
    BY <1>1, <1>3 DEF WorkerTypes, Beside, Cores
  <2>3. Linked(e)'
    BY <1>1, <2>2 DEF Linked, Tied, Paced, Answers, Checked, Codex, Outset, Ahead
  <2>4. Permitted(e)'
    BY <1>1 DEF Permitted, Paced
  <2> QED
    BY <1>1, <2>1, <2>2, <2>3, <2>4, ActorKeeps
<1> QED
  BY <1>2, <1>3, IsolationTypes DEF HostResolves

LEMMA AbandonedKeeps == ASSUME WorkerInv, NEW e \in Execs, ResolutionAbandoned(e) PROVE WorkerInv'
<1>1. UNCHANGED sandboxVars
  BY DEF ResolutionAbandoned
<1> QED
  BY <1>1, SandboxRests, RefusalBefore
  DEF ResolutionAbandoned, Outset, RefusalReasons, sandboxVars

LEMMA GateKeeps == ASSUME WorkerInv, NEW e \in Execs, Gate(e) PROVE WorkerInv'
<1>0. core[e].at = "gate" /\ UNCHANGED <<input, inquiry, pass, stopped>>
  BY DEF Gate
<1>1. ASSUME NEW why \in RefusalReasons, Refuse(e, why), UNCHANGED sandboxVars
      PROVE  WorkerInv'
  BY <1>0, <1>1, SandboxRests, RefusalBefore DEF Outset, sandboxVars
<1>2. CASE At(e, "launching") /\ Launch(e)
  <2> USE Known
  <2>1. SandboxInv'
    BY <1>2, InvStep DEF SandboxNext
  <2>2. /\ UNCHANGED <<daemon, access, quarantined>>
        /\ box'[e].leaving = box[e].leaving /\ box'[e].at \in {"refused", "hostReport"}
        /\ \A f \in Execs \ {e} : box'[f] = box[f]
    BY <1>2, TypeParts DEF Launch, Goes, SandboxInv, Boxes
  <2>3. box[e].at = "idle"
    BY <1>2 DEF Launch
  <2>4. WorkerTypes'
    BY <1>0, <1>2 DEF WorkerTypes, At, Cores, CorePlaces
  <2>5. /\ core'[e].at = "launching" /\ core'[e].capability = core[e].capability
        /\ core'[e].answer = core[e].answer
        /\ Beside(e)
    BY <1>0, <1>2, <2>2 DEF WorkerTypes, Beside, Writes, At, Cores
  <2>6. Linked(e)'
    BY <1>0, <2>2, <2>3, <2>5
    DEF Linked, Tied, Paced, Answers, Checked, Codex, Outset, Ahead, Sound, SoundLaunch, Empty
  <2>7. Permitted(e)'
    BY <1>0 DEF Permitted, Paced
  <2> QED
    BY <2>1, <2>4, <2>5, <2>6, <2>7, ActorKeeps
<1>3. CheckDispatch(input[e], core[e].capability, core[e].isolation) \in RefusalReasons \cup {"none"}
  BY Known, GatesRefuse DEF Cores
<1>4. "narrative_title_missing" \in RefusalReasons
  BY DEF RefusalReasons
<1> QED
  BY <1>1, <1>2, <1>3, <1>4 DEF Gate

LEMMA LaunchReturnsKeeps == ASSUME WorkerInv, NEW e \in Execs, LaunchReturns(e) PROVE WorkerInv'
<1> USE Known
<1>1. /\ SandboxInv' /\ Writes(e) /\ UNCHANGED <<box, daemon, access>>
      /\ UNCHANGED <<input, inquiry, pass, stopped>> /\ core[e].at = "launching"
  BY SandboxRests DEF LaunchReturns, sandboxVars
<1>2. PICK at \in {"done", "materialize"}, why \in {"sandbox_refused", "none"} :
        /\ core' = [core EXCEPT ![e].at = at, ![e].answer = why]
        /\ at = "done" => box[e].at = "refused" /\ why = "sandbox_refused"
        /\ at = "materialize" => box[e].at = "up" /\ why = "none"
  <2>1. core[e].answer = "none" /\ core \in [Execs -> Cores]
    BY <1>1 DEF Answers, Ahead, WorkerTypes
  <2>2. CASE At(e, "materialize")
    <3>1. core' = [core EXCEPT ![e].at = "materialize", ![e].answer = "none"]
      BY <2>1, <2>2 DEF At, Cores
    <3> QED
      BY <2>2, <3>1 DEF LaunchReturns, At, Refuse, Cores
  <2> QED
    BY <2>1, <2>2 DEF LaunchReturns, Refuse
<1>3. WorkerTypes'
  <2>1. at \in CorePlaces /\ why \in {"none", "result"} \cup RefusalReasons \cup FailureReasons
    BY DEF CorePlaces, RefusalReasons
  <2> QED
    BY <1>1, <1>2, <2>1 DEF WorkerTypes, Cores
<1>4. /\ core'[e].at = at /\ core'[e].capability = core[e].capability
      /\ core'[e].answer = why
      /\ Beside(e)
  BY <1>1, <1>2 DEF WorkerTypes, Beside, Cores
<1>5. Linked(e)'
  BY <1>1, <1>2, <1>4
  DEF Linked, Tied, Paced, Answers, Checked, Codex, Outset, Ahead, Ended, RefusalReasons
<1>6. Permitted(e)'
  BY <1>1 DEF Permitted, Paced
<1> QED
  BY <1>1, <1>3, <1>4, <1>5, <1>6, ActorKeeps

(* execute(), around the instance.                                           *)
LEMMA TeardownKeeps ==
  ASSUME WorkerInv, NEW e \in Execs, Teardown(e)
  PROVE  /\ SandboxInv' /\ Writes(e) /\ UNCHANGED <<daemon, access, quarantined>>
         /\ box'[e].at = "closing" /\ box'[e].leaving /\ box'[e].report = box[e].report
<1>1. SandboxInv'
  BY Known, InvStep DEF SandboxNext
<1> QED
  BY <1>1, Known, TypeParts DEF Teardown, Writes, SandboxInv, Boxes

LEMMA UnwindKeeps ==
  ASSUME WorkerInv, NEW e \in Execs, core[e].at \in {"materialize", "reresolve"},
         NEW c \in {Unresolved} \cup MayResolve(e), c \in Capabilities,
         NEW why \in RefusalReasons,
         core' = [core EXCEPT ![e].at = "unwinding", ![e].capability = c, ![e].answer = why],
         inquiry' \in {inquiry, [inquiry EXCEPT ![e] = "none"]},
         Teardown(e), UNCHANGED <<input, pass, stopped>>
  PROVE  WorkerInv'
<1> USE Known
<1>1. /\ SandboxInv' /\ Writes(e) /\ UNCHANGED <<daemon, access, quarantined>>
      /\ box'[e].at = "closing" /\ box'[e].leaving
  BY TeardownKeeps
<1>2. WorkerTypes'
  <2>1. "unwinding" \in CorePlaces
    BY DEF CorePlaces
  <2>2. core \in [Execs -> Cores] /\ c \in Capabilities /\ why \in RefusalReasons
    BY DEF WorkerTypes
  <2> HIDE Known
  <2>3. PICK after : after = [core[e] EXCEPT !.at = "unwinding", !.capability = c, !.answer = why]
    OBVIOUS
  <2>4. after \in Cores
    BY <2>1, <2>2, <2>3 DEF Cores
  <2>5. core' = [core EXCEPT ![e] = after]
    BY <2>3
  <2>6. core' \in [Execs -> Cores]
    BY <2>2, <2>4, <2>5
  <2> QED
    BY <2>6, Known DEF WorkerTypes
<1>3. /\ core'[e].at = "unwinding" /\ core'[e].capability = c /\ core'[e].answer = why
      /\ Beside(e)
  BY <1>1 DEF WorkerTypes, Beside, Cores
<1>4. pass[e].at = "none"
  BY DEF Paced
<1>5. Tied(core'[e], box'[e], daemon'[e])
  BY <1>1, <1>3 DEF Tied, Outset
<1>6. Paced(core'[e], pass'[e], access'[e])
  BY <1>1, <1>3, <1>4 DEF Paced
<1>7. Answers(core'[e], box'[e])
  BY <1>3 DEF Answers, Ahead, Outset
<1>8. Checked(e)'
  BY <1>3 DEF Checked, Codex, RefusalReasons
<1>9. Permitted(e)'
  BY <1>4 DEF Permitted
<1> QED
  BY <1>1, <1>2, <1>3, <1>5, <1>6, <1>7, <1>8, <1>9, ActorKeeps DEF Linked

LEMMA UnwindIsUnwinding ==
  ASSUME WorkerInv, NEW e \in Execs, NEW why \in RefusalReasons, Unwind(e, why),
         core[e].at \in {"materialize", "reresolve"},
         inquiry' \in {inquiry, [inquiry EXCEPT ![e] = "none"]},
         Teardown(e), UNCHANGED <<input, pass, stopped>>
  PROVE  WorkerInv'
<1>1. PICK c \in {Unresolved} \cup MayResolve(e) :
        c \in Capabilities /\ c = core[e].capability
  BY Known DEF Cores
<1>2. core' = [core EXCEPT ![e].at = "unwinding", ![e].capability = c, ![e].answer = why]
  BY <1>1, Known DEF Unwind, WorkerTypes, Cores
<1> QED
  BY <1>1, <1>2, UnwindKeeps

LEMMA MaterializeKeeps == ASSUME WorkerInv, NEW e \in Execs, Materialize(e) PROVE WorkerInv'
<1>0. core[e].at = "materialize" /\ UNCHANGED <<input, pass, stopped>>
  BY DEF Materialize
<1>1. ASSUME NEW why \in RefusalReasons, Unwind(e, why), Teardown(e), UNCHANGED inquiry
      PROVE  WorkerInv'
  BY <1>0, <1>1, UnwindIsUnwinding
<1>2. CASE /\ At(e, "reresolve") /\ inquiry' = [inquiry EXCEPT ![e] = "probe"]
           /\ UNCHANGED sandboxVars
  <2> USE Known
  <2>1. SandboxInv' /\ Writes(e) /\ UNCHANGED <<box, daemon, access>>
    BY <1>2, SandboxRests DEF sandboxVars
  <2>2. WorkerTypes'
    BY <1>0, <1>2 DEF WorkerTypes, At, Cores, CorePlaces
  <2>3. /\ core'[e].at = "reresolve" /\ core'[e].capability = core[e].capability
        /\ core'[e].answer = core[e].answer
        /\ Beside(e)
    BY <1>0, <1>2, <2>1 DEF WorkerTypes, Beside, At, Cores
  <2>4. Linked(e)'
    BY <1>0, <2>1, <2>3 DEF Linked, Tied, Paced, Answers, Checked, Codex, Outset, Ahead
  <2>5. Permitted(e)'
    BY <1>0 DEF Permitted, Paced
  <2> QED
    BY <2>1, <2>2, <2>3, <2>4, <2>5, ActorKeeps
<1>3. {"narrative_not_protected", "capability_unresolved"} \subseteq RefusalReasons
  BY DEF RefusalReasons
<1> QED
  BY <1>1, <1>2, <1>3 DEF Materialize

LEMMA InstanceUnresolvedKeeps ==
  ASSUME WorkerInv, NEW e \in Execs, InstanceUnresolved(e)
  PROVE  WorkerInv'
BY UnwindIsUnwinding DEF InstanceUnresolved, RefusalReasons

(* The one step that lets a Reviewer in.                                     *)
LEMMA AuthorizeKeeps == ASSUME WorkerInv, NEW e \in Execs, Authorize(e) PROVE WorkerInv'
<1> USE Known
<1>0. core[e].at = "reresolve" /\ UNCHANGED <<input, stopped>>
  BY DEF Authorize
<1>1. PICK c \in MayResolve(e) :
        LET refused == CheckDispatch(input[e], c, HostIsolation(box[e].capability))
        IN IF refused = "none"
           THEN /\ core' = [core EXCEPT ![e].at = "pass", ![e].capability = c]
                /\ pass' = [pass EXCEPT ![e].at = IF Codex(e) THEN "capability" ELSE "foreign"]
                /\ inquiry' = [inquiry EXCEPT ![e] = IF Codex(e) THEN "probe" ELSE "none"]
                /\ UNCHANGED sandboxVars
           ELSE /\ core' = [core EXCEPT ![e].at = "unwinding", ![e].capability = c,
                                        ![e].answer = refused]
                /\ inquiry' = [inquiry EXCEPT ![e] = "none"]
                /\ Teardown(e)
                /\ UNCHANGED pass
  BY DEF Authorize
<1> DEFINE refused == CheckDispatch(input[e], c, HostIsolation(box[e].capability))
<1>2. c \in Capabilities
  BY Resolved
<1>3. refused \in RefusalReasons \cup {"none"}
  BY <1>2, GatesRefuse
<1>4. box[e].capability = box[e].report /\ box[e].at = "up"
  BY <1>0 DEF Tied, Sound, SoundLaunch
<1>5. CASE refused # "none"
  BY <1>0, <1>1, <1>2, <1>3, <1>5, UnwindKeeps
<1>6. CASE refused = "none"
  <2> DEFINE first == IF Codex(e) THEN "capability" ELSE "foreign"
  <2>1. /\ core' = [core EXCEPT ![e].at = "pass", ![e].capability = c]
        /\ pass' = [pass EXCEPT ![e].at = first]
        /\ inquiry' = [inquiry EXCEPT ![e] = IF Codex(e) THEN "probe" ELSE "none"]
        /\ UNCHANGED sandboxVars
    BY <1>1, <1>6
  <2>2. /\ first \in {"capability", "foreign"}
        /\ Codex(e) => first = "capability"
        /\ ~Codex(e) => first = "foreign"
    OBVIOUS
  <2> HIDE DEF first
  <2>3. SandboxInv' /\ Writes(e) /\ UNCHANGED <<box, daemon, access>>
    BY <2>1, SandboxRests DEF sandboxVars
  <2>4. core' \in [Execs -> Cores]
    BY <1>2, <2>1 DEF WorkerTypes, Cores, CorePlaces
  <2>5. pass' \in [Execs -> Passes]
    <3>1. first \in PassPlaces
      BY <2>2 DEF PassPlaces
    <3> QED
      BY <2>1, <3>1 DEF WorkerTypes, Passes
  <2>6. WorkerTypes'
    BY <1>0, <2>1, <2>4, <2>5 DEF WorkerTypes
  <2>7. /\ core'[e].at = "pass" /\ core'[e].capability = c
        /\ core'[e].answer = core[e].answer
        /\ Beside(e)
    BY <1>0, <2>1, <2>3 DEF WorkerTypes, Beside, Cores
  <2>8. pass'[e] = [pass[e] EXCEPT !.at = first]
    BY <2>1 DEF WorkerTypes
  <2>9. pass[e].at = "none" /\ access[e].opening = {}
    BY <1>0 DEF Paced
  <2>10. Tied(core'[e], box'[e], daemon'[e]) /\ Answers(core'[e], box'[e])
    BY <1>0, <1>4, <2>3, <2>7 DEF Tied, Answers, Outset, Ahead
  <2>11. Paced(core'[e], pass'[e], access'[e])
    BY <2>2, <2>3, <2>7, <2>8, <2>9 DEF Paced, Passes
  <2>12. Checked(e)'
    BY <1>0, <2>2, <2>7, <2>8, <2>9 DEF Checked, Conforms, Codex, Passes
  <2>13. Permitted(e)'
    BY <1>0, <1>4, <1>6, <2>3, <2>7 DEF Permitted
  <2> QED
    BY <2>3, <2>6, <2>7, <2>10, <2>11, <2>12, <2>13, ActorKeeps DEF Linked
<1> QED
  BY <1>5, <1>6

LEMMA UnwoundKeeps == ASSUME WorkerInv, NEW e \in Execs, Unwound(e) PROVE WorkerInv'
<1> USE Known
<1>1. /\ SandboxInv' /\ Writes(e) /\ UNCHANGED <<box, daemon, access>>
      /\ UNCHANGED <<input, inquiry, pass, stopped>> /\ core[e].at = "unwinding"
      /\ box[e].at \in {"gone", "unproven"}
  BY SandboxRests DEF Unwound, sandboxVars
<1>2. WorkerTypes'
  BY <1>1 DEF Unwound, WorkerTypes, At, Cores, CorePlaces
<1>3. /\ core'[e].at = "done" /\ core'[e].capability = core[e].capability
      /\ core'[e].answer = core[e].answer
      /\ Beside(e)
  BY <1>1 DEF Unwound, WorkerTypes, Beside, At, Cores
<1>4. pass[e].at = "none" /\ core[e].answer \in RefusalReasons
  BY <1>1 DEF Paced, Answers
<1>5. Tied(core'[e], box'[e], daemon'[e])
  BY <1>1, <1>3 DEF Tied, Outset, Ended
<1>6. Paced(core'[e], pass'[e], access'[e])
  BY <1>1, <1>3, <1>4 DEF Paced
<1>7. Answers(core'[e], box'[e])
  BY <1>3, <1>4 DEF Answers, Ahead, Outset, RefusalReasons
<1>8. Checked(e)'
  BY <1>1, <1>3 DEF Checked, Codex
<1>9. Permitted(e)'
  BY <1>1, <1>4 DEF Permitted
<1> QED
  BY <1>1, <1>2, <1>3, <1>5, <1>6, <1>7, <1>8, <1>9, ActorKeeps DEF Linked

(* execute(), after the Pass.                                                *)
LEMMA PassReturnsKeeps == ASSUME WorkerInv, NEW e \in Execs, PassReturns(e) PROVE WorkerInv'
<1> USE Known
<1>0. /\ core[e].at = "pass" /\ pass[e].at = "over" /\ Teardown(e)
      /\ UNCHANGED <<input, inquiry, pass, stopped>>
  BY DEF PassReturns
<1>1. PICK verdict : verdict = Verdict(e)
  OBVIOUS
<1>2. verdict \in {"pass_failed", "model_substituted", "evidence_unsupported",
                   "result_invalid", "result"}
  BY <1>1 DEF Verdict, Complaint
<1>3. Codex(e) => verdict \notin {"result_invalid", "evidence_unsupported",
                                  "model_substituted"}
  <2>1. Codex(e) => ~core[e].capability.reportsModel
    BY Resolved DEF Unresolved
  <2>2. pass[e].answer \in {"completed", "failed", "threw"}
    BY <1>0 DEF Passes, Paced
  <2> QED
    BY <1>1, <2>1, <2>2 DEF Verdict, Checked, Conforms
<1>4. verdict \in {"none", "result"} \cup RefusalReasons \cup FailureReasons
  BY <1>2 DEF FailureReasons
<1>5. core' = [core EXCEPT ![e].at = "tearingDown", ![e].answer = verdict]
  BY <1>1 DEF PassReturns
<1>6. /\ SandboxInv' /\ Writes(e) /\ UNCHANGED <<daemon, access, quarantined>>
      /\ box'[e].at = "closing" /\ box'[e].leaving /\ box'[e].report = box[e].report
  BY <1>0, TeardownKeeps
<1>7. core' \in [Execs -> Cores]
  BY <1>4, <1>5 DEF WorkerTypes, Cores, CorePlaces
<1>8. WorkerTypes'
  BY <1>0, <1>7 DEF WorkerTypes
<1>9. /\ core'[e].at = "tearingDown" /\ core'[e].capability = core[e].capability
      /\ core'[e].answer = verdict
      /\ Beside(e)
  BY <1>0, <1>5, <1>6 DEF WorkerTypes, Beside, Cores
<1>10. Tied(core'[e], box'[e], daemon'[e])
  BY <1>6, <1>9 DEF Tied, Outset
<1>11. Paced(core'[e], pass'[e], access'[e])
  BY <1>0, <1>6, <1>9 DEF Paced
<1>12. Answers(core'[e], box'[e])
  BY <1>2, <1>9 DEF Answers, Ahead, Outset, FailureReasons
<1>13. Checked(e)'
  BY <1>0, <1>3, <1>9 DEF Checked, Codex
<1>14. Permitted(e)'
  BY <1>0, <1>6, <1>9 DEF Permitted
<1> QED
  BY <1>6, <1>8, <1>9, <1>10, <1>11, <1>12, <1>13, <1>14, ActorKeeps DEF Linked

LEMMA TornDownKeeps == ASSUME WorkerInv, NEW e \in Execs, TornDown(e) PROVE WorkerInv'
<1> USE Known
<1>1. /\ SandboxInv' /\ Writes(e) /\ UNCHANGED <<box, daemon, access>>
      /\ UNCHANGED <<input, inquiry, pass, stopped>> /\ core[e].at = "tearingDown"
      /\ box[e].at \in {"gone", "unproven"}
  BY SandboxRests DEF TornDown, sandboxVars
<1>2. PICK answer \in {core[e].answer, "sandbox_teardown_incomplete"} :
        /\ core' = [core EXCEPT ![e].at = "done", ![e].answer = answer]
        /\ answer = "result" => box[e].at = "gone"
  BY DEF TornDown
<1>3. answer \in FailureReasons \cup {"result"}
  BY <1>1 DEF Answers, FailureReasons
<1>4. core' \in [Execs -> Cores]
  BY <1>2, <1>3 DEF WorkerTypes, Cores, CorePlaces
<1>5. WorkerTypes'
  BY <1>1, <1>4 DEF WorkerTypes
<1>6. /\ core'[e].at = "done" /\ core'[e].capability = core[e].capability
      /\ core'[e].answer = answer
      /\ Beside(e)
  BY <1>1, <1>2 DEF WorkerTypes, Beside, Cores
<1>7. pass[e].at = "over" /\ answer \notin RefusalReasons
  BY <1>1, <1>3 DEF Paced, FailureReasons, RefusalReasons
<1>8. Tied(core'[e], box'[e], daemon'[e])
  BY <1>1, <1>6 DEF Tied, Outset, Ended
<1>9. Paced(core'[e], pass'[e], access'[e])
  BY <1>1, <1>6, <1>7 DEF Paced
<1>10. Answers(core'[e], box'[e])
  BY <1>1, <1>2, <1>3, <1>6 DEF Answers, Ahead, Outset, FailureReasons
<1>11. Checked(e)'
  BY <1>1, <1>2, <1>6 DEF Checked, Codex
<1>12. Permitted(e)'
  BY <1>1, <1>6 DEF Permitted
<1> QED
  BY <1>1, <1>5, <1>6, <1>8, <1>9, <1>10, <1>11, <1>12, ActorKeeps DEF Linked

-----------------------------------------------------------------------------
(* The Pass. *)
LEMMA CallSequenceFacts ==
  ASSUME NEW n \in Nat
  PROVE  CallSequences(n) = {s \in Seq(Calls) : Len(s) <= n}
<1>1. ASSUME NEW s \in CallSequences(n)
      PROVE  s \in Seq(Calls) /\ Len(s) <= n
  <2>1. PICK k \in 0..n : s \in [1..k -> Calls]
    BY DEF CallSequences
  <2>2. k \in Nat /\ k <= n
    BY <2>1
  <2> QED
    BY <2>1, <2>2
<1>2. ASSUME NEW s \in Seq(Calls), Len(s) <= n
      PROVE  s \in CallSequences(n)
  <2>1. s \in [1..Len(s) -> Calls] /\ Len(s) \in 0..n
    BY <1>2, LenProperties
  <2> QED
    BY <2>1 DEF CallSequences
<1> QED
  BY <1>1, <1>2

LEMMA CallsAdd ==
  ASSUME NEW n \in Nat, NEW m \in Nat, NEW s \in CallSequences(n), NEW t \in CallSequences(m)
  PROVE  s \o t \in CallSequences(n + m)
<1>1. s \in Seq(Calls) /\ Len(s) <= n /\ t \in Seq(Calls) /\ Len(t) <= m
  BY CallSequenceFacts
<1>2. s \o t \in Seq(Calls) /\ Len(s \o t) = Len(s) + Len(t)
  BY <1>1, ConcatProperties
<1>3. Len(s \o t) <= n + m
  BY <1>1, <1>2
<1> QED
  BY <1>2, <1>3, n + m \in Nat, CallSequenceFacts

LEMMA CallsGrow ==
  ASSUME NEW n \in Nat, NEW m \in Nat, n <= m
  PROVE  CallSequences(n) \subseteq CallSequences(m)
<1>1. \A s \in Seq(Calls) : Len(s) <= n => Len(s) <= m
  OBVIOUS
<1> QED
  BY <1>1, CallSequenceFacts

LEMMA PassKeeps ==
  ASSUME WorkerInv, SandboxInv', NEW e \in Execs, core[e].at = "pass",
         NEW p \in Passes, pass' = [pass EXCEPT ![e] = p],
         p.at # "none", Codex(e) => Conforms(p),
         Codex(e) \/ p.at \in {"foreign", "over"},
         p.at \in {"capability", "preflight"} => access'[e].opening = {},
         p.at \in {"closing", "over"} <=> p.answer # "none",
         Writes(e), UNCHANGED <<box, daemon, input, core, stopped>>,
         inquiry' \in [Execs -> {"none", "probe", "inspect", "established", "refuted"}]
  PROVE  WorkerInv'
<1> USE Known
<1>1. WorkerTypes'
  BY DEF WorkerTypes
<1>2. Beside(e) /\ pass'[e] = p
  BY DEF Beside, WorkerTypes
<1>3. Paced(core'[e], pass'[e], access'[e])
  BY <1>2 DEF Paced
<1>4. Checked(e)'
  BY <1>2 DEF Checked, Codex
<1>5. Permitted(e)'
  BY DEF Permitted, Paced
<1> QED
  BY <1>1, <1>2, <1>3, <1>4, <1>5, ActorKeeps DEF Linked

(* A Pass that goes on, or ends, without a call of the Sandbox.              *)
LEMMA PassGoesOn ==
  ASSUME WorkerInv, SandboxInv', NEW e \in Execs, 
         pass[e].at \notin {"none", "closing", "over", "foreign"},
         NEW at \in PassPlaces, PassStep(e, at), at \notin {"none", "closing", "over"},
         Codex(e) => Conforms([pass[e] EXCEPT !.at = at]),
         at \in {"capability", "preflight"} => access'[e].opening = {},
         Writes(e), UNCHANGED <<box, daemon, input, core, stopped>>,
         inquiry' \in [Execs -> {"none", "probe", "inspect", "established", "refuted"}]
  PROVE  WorkerInv'
<1> USE Known
<1>1. PICK p : p = [pass[e] EXCEPT !.at = at]
  OBVIOUS
<1>2. p \in Passes /\ p.at = at /\ p.answer = pass[e].answer
  BY <1>1 DEF Passes
<1>3. pass' = [pass EXCEPT ![e] = p]
  BY <1>1 DEF PassStep
<1>4. core[e].at = "pass" /\ pass[e].answer = "none" /\ Codex(e)
  BY DEF Paced, Checked
<1> QED
  BY <1>1, <1>2, <1>3, <1>4, PassKeeps

LEMMA PassEnds ==
  ASSUME WorkerInv, SandboxInv', NEW e \in Execs, 
         pass[e].at \notin {"none", "over", "foreign"},
         NEW answer \in {"failed", "threw"}, Closes(e, answer) \/ Over(e, answer),
         Writes(e), UNCHANGED <<box, daemon, input, core, stopped>>,
         inquiry' \in [Execs -> {"none", "probe", "inspect", "established", "refuted"}]
  PROVE  WorkerInv'
<1> USE Known
<1>1. PICK at \in {"closing", "over"} :
        pass' = [pass EXCEPT ![e].at = at, ![e].answer = answer]
  BY DEF Closes, Over
<1>2. PICK p : p = [pass[e] EXCEPT !.at = at, !.answer = answer]
  OBVIOUS
<1>3. p \in Passes /\ p.at = at /\ p.answer = answer
  BY <1>2 DEF Passes, PassPlaces
<1>4. pass' = [pass EXCEPT ![e] = p]
  BY <1>1, <1>2
<1>5. core[e].at = "pass" /\ Codex(e)
  BY DEF Paced, Checked
<1>6. Conforms(p)
  BY <1>3 DEF Conforms
<1> QED
  BY <1>1, <1>3, <1>4, <1>5, <1>6, PassKeeps

LEMMA Occupied ==
  ASSUME WorkerInv, NEW e \in Execs, Occupies(e)
  PROVE  SandboxInv' /\ Writes(e) /\ UNCHANGED <<box, daemon>>
<1>1. access \in [Execs -> Accesses]
  BY Known, TypeParts DEF SandboxInv
<1> QED
  BY <1>1, Known, OccupyingKeeps DEF Occupies, Registers, Writes, Accesses

LEMMA CapabilityHeldKeeps == ASSUME WorkerInv, NEW e \in Execs, CapabilityHeld(e) PROVE WorkerInv'
<1> USE Known
<1>1. /\ SandboxInv' /\ Writes(e) /\ UNCHANGED <<box, daemon, access, input, core, stopped>>
      /\ pass[e].at = "capability"
  BY SandboxRests DEF CapabilityHeld, sandboxVars
<1>2. inquiry' \in [Execs -> {"none", "probe", "inspect", "established", "refuted"}]
  BY DEF CapabilityHeld, WorkerTypes
<1>3. CASE PassStep(e, "preflight")
  <2>1. Codex(e) => Conforms([pass[e] EXCEPT !.at = "preflight"])
    BY <1>1 DEF Checked, Conforms, Paced, Passes
  <2>2. access[e].opening = {}
    BY <1>1 DEF Paced
  <2>3. "preflight" \in PassPlaces
    BY DEF PassPlaces
  <2> QED
    BY <1>1, <1>2, <1>3, <2>1, <2>2, <2>3, PassGoesOn
<1>4. ASSUME NEW answer \in {"failed", "threw"}, Closes(e, answer) \/ Over(e, answer)
      PROVE  WorkerInv'
  BY <1>1, <1>2, <1>4, PassEnds
<1> QED
  BY <1>3, <1>4 DEF CapabilityHeld

LEMMA PreflightKeeps == ASSUME WorkerInv, NEW e \in Execs, PreflightAnswers(e) PROVE WorkerInv'
<1> USE Known
<1>1. /\ UNCHANGED <<host, drifts, cache, quarantined, box, reading, daemon, input, core, stopped>>
      /\ pass[e].at = "preflight" /\ access[e].opening = {} /\ Open(e)
  BY DEF PreflightAnswers, Paced, Tied, Open
<1>2. inquiry' \in [Execs -> {"none", "probe", "inspect", "established", "refuted"}]
  BY DEF PreflightAnswers, WorkerTypes
<1>3. CASE PassStep(e, "opening") /\ Registers(e, "proxy")
  <2>1. Occupies(e)
    BY <1>1, <1>3, WorkerAssumption DEF Occupies
  <2>2. Codex(e) => Conforms([pass[e] EXCEPT !.at = "opening"])
    BY <1>1 DEF Checked, Conforms, Paced, Passes
  <2>3. "opening" \in PassPlaces
    BY DEF PassPlaces
  <2> QED
    BY <1>1, <1>2, <1>3, <2>1, <2>2, <2>3, Occupied, PassGoesOn
<1>4. CASE Closes(e, "failed") /\ UNCHANGED access
  BY <1>1, <1>2, <1>4, SandboxRests, PassEnds DEF sandboxVars
<1> QED
  BY <1>3, <1>4 DEF PreflightAnswers

LEMMA ProxyOpensKeeps == ASSUME WorkerInv, NEW e \in Execs, ProxyOpens(e) PROVE WorkerInv'
<1> USE Known
<1>1. /\ SandboxInv' /\ Writes(e) /\ UNCHANGED <<box, daemon, access, input, core, stopped>>
      /\ pass[e].at = "opening"
  BY SandboxRests DEF ProxyOpens, sandboxVars
<1>2. inquiry' \in [Execs -> {"none", "probe", "inspect", "established", "refuted"}]
  BY DEF ProxyOpens, WorkerTypes
<1>3. CASE PassStep(e, "session")
  <2>1. Codex(e) => Conforms([pass[e] EXCEPT !.at = "session"])
    BY <1>1 DEF Checked, Conforms, Paced, Passes
  <2>2. "session" \in PassPlaces
    BY DEF PassPlaces
  <2> QED
    BY <1>1, <1>2, <1>3, <2>1, <2>2, PassGoesOn
<1>4. CASE Closes(e, "failed")
  BY <1>1, <1>2, <1>4, PassEnds
<1> QED
  BY <1>3, <1>4 DEF ProxyOpens

(* The session's first turn sees nothing of the Pass yet.                    *)
LEMMA FirstTurn ==
  ASSUME WorkerInv, NEW e \in Execs, pass[e].at \in {"session", "endpoint"}
  PROVE  Codex(e) => Conforms([pass[e] EXCEPT !.at = "turn"])
<1> SUFFICES ASSUME Codex(e) PROVE Conforms([pass[e] EXCEPT !.at = "turn"])
  OBVIOUS
<1>1. pass[e] \in Passes /\ pass[e].observed = <<>> /\ ~pass[e].repaired /\ pass[e].answer = "none"
  BY Known DEF Checked, Conforms, Paced
<1>2. <<>> \in CallSequences(0)
  <2>1. <<>> \in [1..0 -> Calls] /\ 0 \in 0..0
    OBVIOUS
  <2> QED
    BY <2>1 DEF CallSequences
<1> QED
  BY <1>1, <1>2 DEF Conforms, Passes

LEMMA SessionStartsKeeps == ASSUME WorkerInv, NEW e \in Execs, SessionStarts(e) PROVE WorkerInv'
<1> USE Known
<1>1. /\ UNCHANGED <<host, drifts, cache, quarantined, box, reading, daemon, input, core, stopped>>
      /\ pass[e].at = "session" /\ Open(e)
  BY DEF SessionStarts, Paced, Tied, Open
<1>2. inquiry' \in [Execs -> {"none", "probe", "inspect", "established", "refuted"}]
  BY DEF SessionStarts, WorkerTypes
<1>3. {"turn", "endpoint"} \subseteq PassPlaces
  BY DEF PassPlaces
<1>4. CASE PassStep(e, "turn") /\ UNCHANGED access
  BY <1>1, <1>2, <1>3, <1>4, SandboxRests, FirstTurn, PassGoesOn DEF sandboxVars
<1>5. CASE PassStep(e, "endpoint") /\ Registers(e, "port")
  <2>1. Occupies(e)
    BY <1>1, <1>5, WorkerAssumption DEF Occupies
  <2>2. Codex(e) => Conforms([pass[e] EXCEPT !.at = "endpoint"])
    BY <1>1 DEF Checked, Conforms, Paced, Passes
  <2> QED
    BY <1>1, <1>2, <1>3, <1>5, <2>1, <2>2, Occupied, PassGoesOn
<1>6. CASE Closes(e, "failed") /\ UNCHANGED access
  BY <1>1, <1>2, <1>6, SandboxRests, PassEnds DEF sandboxVars
<1> QED
  BY <1>4, <1>5, <1>6 DEF SessionStarts

LEMMA EndpointKeeps == ASSUME WorkerInv, NEW e \in Execs, EndpointOpens(e) PROVE WorkerInv'
<1> USE Known
<1>1. /\ UNCHANGED <<host, drifts, cache, quarantined, box, reading, daemon, input, core, stopped>>
      /\ pass[e].at = "endpoint" /\ Open(e)
  BY DEF EndpointOpens, Paced, Tied, Open
<1>2. inquiry' \in [Execs -> {"none", "probe", "inspect", "established", "refuted"}]
  BY DEF EndpointOpens, WorkerTypes
<1>3. CASE /\ PassStep(e, "turn")
           /\ access' = [access EXCEPT ![e].held = @ \cup {"process"}]
  <2>1. Occupies(e)
    BY <1>1, <1>3 DEF Occupies
  <2>2. "turn" \in PassPlaces
    BY DEF PassPlaces
  <2> QED
    BY <1>1, <1>2, <1>3, <2>1, <2>2, Occupied, FirstTurn, PassGoesOn
<1>4. CASE Closes(e, "failed") /\ UNCHANGED access
  BY <1>1, <1>2, <1>4, SandboxRests, PassEnds DEF sandboxVars
<1> QED
  BY <1>3, <1>4 DEF EndpointOpens

LEMMA TurnKeeps == ASSUME WorkerInv, NEW e \in Execs, Turn(e) PROVE WorkerInv'
<1> USE Known
<1>1. /\ SandboxInv' /\ Writes(e) /\ UNCHANGED <<box, daemon, access, input, core, stopped>>
      /\ UNCHANGED inquiry
      /\ pass[e].at = "turn" /\ core[e].at = "pass" /\ pass[e].answer = "none"
  BY SandboxRests DEF Turn, sandboxVars, Paced
<1>2. PICK seen \in CallSequences(MaxCalls), claims \in CallSequences(2 * MaxCalls),
           valid \in BOOLEAN :
        LET observed == pass[e].observed \o seen
            after    == [pass EXCEPT ![e].observed = observed]
        IN \/ /\ Complaint(claims, observed, valid) = "none"
              /\ pass' = [after EXCEPT ![e].at = "closing", ![e].answer = "completed",
                                       ![e].claims = claims, ![e].valid = valid]
           \/ /\ Complaint(claims, observed, valid) # "none"
              /\ pass' = IF pass[e].repaired
                         THEN [after EXCEPT ![e].at = "closing", ![e].answer = "failed"]
                         ELSE [after EXCEPT ![e].repaired = TRUE]
  BY DEF Turn
<1>3. PICK observed : observed = pass[e].observed \o seen
  OBVIOUS
<1>4. /\ observed \in CallSequences(2 * MaxCalls)
      /\ ~pass[e].repaired => observed \in CallSequences(MaxCalls)
  <2>1. MaxCalls \in Nat
    BY WorkerAssumption
  <2>2. CASE ~pass[e].repaired
    <3>1. pass[e].observed \in CallSequences(0)
      BY <1>1, <2>2 DEF Checked, Conforms
    <3>2. observed \in CallSequences(0 + MaxCalls)
      BY <1>3, <2>1, <3>1, CallsAdd
    <3> QED
      BY <2>1, <2>2, <3>2, CallsGrow
  <2>3. CASE pass[e].repaired
    <3>1. pass[e].observed \in CallSequences(MaxCalls)
      BY <1>1, <2>3 DEF Checked, Conforms
    <3>2. observed \in CallSequences(MaxCalls + MaxCalls)
      BY <1>3, <2>1, <3>1, CallsAdd
    <3> QED
      BY <2>1, <2>3, <3>2
  <2> QED
    BY <2>2, <2>3
<1>5. pass[e] \in Passes /\ pass \in [Execs -> Passes] /\ Codex(e)
  BY <1>1 DEF WorkerTypes, Checked
<1>6. CASE /\ Complaint(claims, observed, valid) = "none"
           /\ pass' = [pass EXCEPT ![e].observed = observed, ![e].at = "closing",
                                   ![e].answer = "completed", ![e].claims = claims,
                                   ![e].valid = valid]
  <2>1. PICK p : p = [pass[e] EXCEPT !.observed = observed, !.at = "closing",
                                     !.answer = "completed", !.claims = claims, !.valid = valid]
    OBVIOUS
  <2>2. p \in Passes
    BY <1>4, <1>5, <2>1 DEF Passes, PassPlaces
  <2>3. pass' = [pass EXCEPT ![e] = p]
    BY <1>5, <1>6, <2>1
  <2>4. /\ p.at = "closing" /\ p.answer = "completed" /\ p.observed = observed
        /\ p.claims = claims /\ p.valid = valid
    BY <1>5, <2>1 DEF Passes
  <2>5. Conforms(p)
    BY <1>6, <2>4 DEF Conforms
  <2> QED
    BY <1>1, <1>5, <2>2, <2>3, <2>4, <2>5, PassKeeps DEF WorkerTypes
<1>7. CASE pass' = [pass EXCEPT ![e].observed = observed, ![e].at = "closing",
                               ![e].answer = "failed"]
  <2>1. PICK p : p = [pass[e] EXCEPT !.observed = observed, !.at = "closing",
                                     !.answer = "failed"]
    OBVIOUS
  <2>2. p \in Passes
    BY <1>4, <1>5, <2>1 DEF Passes, PassPlaces
  <2>3. pass' = [pass EXCEPT ![e] = p]
    BY <1>5, <1>7, <2>1
  <2>4. p.at = "closing" /\ p.answer = "failed"
    BY <1>5, <2>1 DEF Passes
  <2>5. Conforms(p)
    BY <2>4 DEF Conforms
  <2> QED
    BY <1>1, <1>5, <2>2, <2>3, <2>4, <2>5, PassKeeps DEF WorkerTypes
<1>8. CASE /\ ~pass[e].repaired
           /\ pass' = [pass EXCEPT ![e].observed = observed, ![e].repaired = TRUE]
  <2>1. PICK p : p = [pass[e] EXCEPT !.observed = observed, !.repaired = TRUE]
    OBVIOUS
  <2>2. p \in Passes
    BY <1>4, <1>5, <2>1 DEF Passes
  <2>3. pass' = [pass EXCEPT ![e] = p]
    BY <1>5, <1>8, <2>1
  <2>4. p.at = "turn" /\ p.answer = "none" /\ p.observed = observed /\ p.repaired
    BY <1>1, <1>5, <2>1 DEF Passes
  <2>5. Conforms(p)
    BY <1>4, <1>8, <2>4 DEF Conforms
  <2> QED
    BY <1>1, <1>5, <2>2, <2>3, <2>4, <2>5, PassKeeps DEF WorkerTypes
<1> QED
  BY <1>2, <1>3, <1>5, <1>6, <1>7, <1>8

LEMMA TurnFailsKeeps == ASSUME WorkerInv, NEW e \in Execs, TurnFails(e) PROVE WorkerInv'
BY Known, SandboxRests, PassEnds DEF TurnFails, sandboxVars, WorkerTypes

LEMMA SessionClosesKeeps == ASSUME WorkerInv, NEW e \in Execs, SessionCloses(e) PROVE WorkerInv'
<1> USE Known
<1>1. /\ SandboxInv' /\ Writes(e) /\ UNCHANGED <<box, daemon, access, input, core, stopped>>
      /\ UNCHANGED inquiry
      /\ pass[e].at = "closing" /\ core[e].at = "pass"
      /\ pass[e] \in Passes /\ Codex(e) /\ Conforms(pass[e]) /\ pass[e].answer # "none"
  BY SandboxRests DEF SessionCloses, sandboxVars, Paced, Checked
<1>2. PICK answer \in {pass[e].answer, "threw"} : Over(e, answer)
  BY DEF SessionCloses
<1>3. PICK p : p = [pass[e] EXCEPT !.at = "over", !.answer = answer]
  OBVIOUS
<1>4. p \in Passes /\ p.at = "over" /\ p.answer = answer /\ p.claims = pass[e].claims
      /\ p.observed = pass[e].observed /\ p.valid = pass[e].valid
  BY <1>1, <1>3 DEF Passes, PassPlaces
<1>5. pass' = [pass EXCEPT ![e] = p]
  BY <1>2, <1>3 DEF Over
<1>6. Conforms(p)
  BY <1>1, <1>2, <1>4 DEF Conforms
<1>7. answer # "none"
  BY <1>1, <1>2
<1> QED
  BY <1>1, <1>4, <1>5, <1>6, <1>7, PassKeeps DEF WorkerTypes

LEMMA ForeignKeeps ==
  ASSUME WorkerInv, NEW e \in Execs, ForeignOpens(e) \/ ForeignAnswers(e)
  PROVE  WorkerInv'
<1> USE Known
<1>0. /\ pass[e].at = "foreign" /\ core[e].at = "pass" /\ ~Codex(e)
      /\ UNCHANGED <<input, core, inquiry, stopped>> /\ pass[e].answer = "none"
  BY DEF ForeignOpens, ForeignAnswers, Paced, Checked, Conforms
<1>1. CASE ForeignOpens(e)
  <2>1. Occupies(e)
    BY <1>1, WorkerAssumption DEF ForeignOpens, Occupies
  <2>2. PICK p : p = pass[e]
    OBVIOUS
  <2>3. pass' = [pass EXCEPT ![e] = p]
    BY <1>1, <2>2 DEF ForeignOpens, WorkerTypes
  <2> QED
    BY <1>0, <2>1, <2>2, <2>3, Occupied, PassKeeps DEF WorkerTypes
<1>2. CASE ForeignAnswers(e)
  <2>1. SandboxInv' /\ Writes(e) /\ UNCHANGED <<box, daemon>>
    BY <1>2, SandboxRests DEF ForeignAnswers, sandboxVars
  <2>2. PICK answer \in {"completed", "failed", "threw"}, model \in {"pinned", "other"},
             claims \in CallSequences(1), observed \in CallSequences(1), valid \in BOOLEAN :
          pass' = [pass EXCEPT ![e] = [at |-> "over", answer |-> answer, repaired |-> FALSE,
                                       claims |-> claims, observed |-> observed,
                                       valid |-> valid, model |-> model]]
    BY <1>2 DEF ForeignAnswers
  <2>3. PICK p : p = [at |-> "over", answer |-> answer, repaired |-> FALSE,
                      claims |-> claims, observed |-> observed, valid |-> valid,
                      model |-> model]
    OBVIOUS
  <2>4. CallSequences(1) \subseteq CallSequences(2 * MaxCalls)
    BY WorkerAssumption, CallsGrow
  <2>5. p \in Passes
    BY <2>3, <2>4 DEF Passes, PassPlaces
  <2> QED
    BY <1>0, <2>1, <2>2, <2>3, <2>5, PassKeeps DEF WorkerTypes
<1> QED
  BY <1>1, <1>2

-----------------------------------------------------------------------------
(* The steps that only answer a call, or stop one. *)
LEMMA BystanderKeeps ==
  ASSUME WorkerInv, SandboxInv', NEW e \in Execs, Writes(e), WorkerTypes',
         UNCHANGED <<box, daemon, input, core, pass>>,
         access'[e].opening = access[e].opening
  PROVE  WorkerInv'
<1> USE Known
<1>1. Beside(e)
  BY DEF Beside
<1>2. Linked(e)'
  BY DEF Linked, Paced, Checked, Codex
<1>3. Permitted(e)'
  BY DEF Permitted
<1> QED
  BY <1>1, <1>2, <1>3, ActorKeeps

LEMMA ProbeKeeps == ASSUME WorkerInv, NEW e \in Execs, ProbeAnswers(e) PROVE WorkerInv'
<1> USE Known
<1>1. WorkerTypes' /\ UNCHANGED <<box, daemon, input, core, pass>>
  BY DEF ProbeAnswers, WorkerTypes
<1>2. CASE UNCHANGED access
  <2>1. UNCHANGED sandboxVars
    BY <1>2 DEF ProbeAnswers, sandboxVars
  <2> QED
    BY <1>1, <1>2, <2>1, SandboxRests, BystanderKeeps
<1>3. CASE Open(e) /\ access' = [access EXCEPT ![e].held = @ \cup {"process"}]
  <2>1. Occupies(e)
    BY <1>3 DEF ProbeAnswers, Occupies
  <2>2. access'[e].opening = access[e].opening
    BY <1>3, TypeParts DEF SandboxInv, Accesses
  <2> QED
    BY <1>1, <2>1, <2>2, Occupied, BystanderKeeps
<1> QED
  BY <1>2, <1>3 DEF ProbeAnswers

LEMMA CallsKeep ==
  ASSUME WorkerInv, NEW e \in Execs, InspectionAnswers(e) \/ CallerStops(e) \/ PassTimesOut(e)
  PROVE  WorkerInv'
<1> USE Known
<1>1. /\ UNCHANGED sandboxVars /\ UNCHANGED <<box, daemon, access, input, core, pass>>
      /\ SandboxInv' /\ Writes(e)
  BY SandboxRests DEF InspectionAnswers, CallerStops, PassTimesOut, sandboxVars
<1>2. inquiry' \in [Execs -> {"none", "probe", "inspect", "established", "refuted"}]
  BY DEF InspectionAnswers, CallerStops, PassTimesOut, WorkerTypes
<1>3. stopped' \in [Execs -> [caller : BOOLEAN, timeout : BOOLEAN]]
  BY DEF InspectionAnswers, CallerStops, PassTimesOut, WorkerTypes
<1>4. WorkerTypes'
  BY <1>1, <1>2, <1>3 DEF WorkerTypes
<1> QED
  BY <1>1, <1>4, BystanderKeeps

(* A step in which no execution of this process takes part.                  *)
LEMMA OutsideKeeps ==
  ASSUME WorkerInv, SandboxInv',
         UNCHANGED <<box, daemon, access, input, core, inquiry, pass, stopped>>
  PROVE  WorkerInv'
<1>1. WorkerTypeOK'
  BY DEF WorkerInv, WorkerTypeOK, SandboxInv, MayResolve, Codex, CodexCapability
<1>2. \A e \in Execs : Linked(e)' /\ Permitted(e)'
  BY DEF WorkerInv, Linked, Checked, Permitted, Codex
<1> QED
  BY <1>1, <1>2 DEF WorkerInv, SandboxInv

LEMMA PassProgressKeeps ==
  ASSUME WorkerInv, NEW e \in Execs, PassProgress(e)
  PROVE  WorkerInv'
BY CapabilityHeldKeeps, PreflightKeeps, ProxyOpensKeeps, SessionStartsKeeps, EndpointKeeps,
   SessionClosesKeeps, ForeignKeeps DEF PassProgress

LEMMA CoreProgressKeeps ==
  ASSUME WorkerInv, NEW e \in Execs, CoreProgress(e)
  PROVE  WorkerInv'
BY BeginKeeps, AdapterResolvesKeeps, HostResolvesKeeps, AbandonedKeeps, GateKeeps,
   LaunchReturnsKeeps, MaterializeKeeps, AuthorizeKeeps, InstanceUnresolvedKeeps, UnwoundKeeps,
   PassReturnsKeeps, TornDownKeeps DEF CoreProgress

LEMMA CallProgressKeeps ==
  ASSUME WorkerInv, NEW e \in Execs, CallProgress(e)
  PROVE  WorkerInv'
<1>1. CASE (LaunchStep(e) \/ DestroyStep(e) \/ SetupStep(e)) /\ Elsewhere
  <2>1. SandboxInv'
    BY <1>1, Known, InvStep DEF SandboxNext
  <2>2. Advance(e)
    BY <1>1, Known, LaunchAdvances, DestroyAdvances, SetupAdvances
  <2> QED
    BY <1>1, <2>1, <2>2, AdvanceKeeps
<1> QED
  BY <1>1, ProbeKeeps, CallsKeep DEF CallProgress

LEMMA WorkerStarts == WorkerInit => WorkerInv
<1> SUFFICES ASSUME WorkerInit PROVE WorkerInv
  OBVIOUS
<1>1. SandboxTypeOK /\ LaunchesAreSound
  BY TypeInit, SoundInit DEF WorkerInit
<1>2. core \in [Execs -> Cores]
  <2>1. Unresolved \in Capabilities
    BY DEF Unresolved, Capabilities
  <2> QED
    BY <2>1 DEF WorkerInit, Cores, CorePlaces
<1>3. pass \in [Execs -> Passes]
  <2>1. <<>> \in CallSequences(2 * MaxCalls)
    <3>1. 0 \in 0..(2 * MaxCalls) /\ <<>> \in [1..0 -> Calls]
      BY WorkerAssumption
    <3> QED
      BY <3>1 DEF CallSequences
  <2> QED
    BY <2>1 DEF WorkerInit, Passes, PassPlaces
<1>4. WorkerTypeOK
  BY <1>1, <1>2, <1>3 DEF WorkerInit, WorkerTypeOK
<1>5. ASSUME NEW e \in Execs
      PROVE  Linked(e) /\ Permitted(e)
  BY DEF WorkerInit, SandboxInit, Linked, Tied, Paced, Answers, Checked, Conforms, Permitted,
         Outset, Ahead, Ended
<1> QED
  BY <1>1, <1>4, <1>5 DEF WorkerInv

LEMMA WorkerStep == WorkerInv /\ [WorkerNext]_workerVars => WorkerInv'
<1> SUFFICES ASSUME WorkerInv, [WorkerNext]_workerVars PROVE WorkerInv'
  OBVIOUS
<1>0. SandboxInv
  BY DEF WorkerInv, WorkerTypeOK, SandboxInv
<1>1. CASE Neighbour
  BY <1>0, <1>1, NeighbourKeeps, OutsideKeeps DEF Neighbour
<1>2. CASE HostDrifts /\ Elsewhere
  <2>1. SandboxInv'
    BY <1>0, <1>2, InvStep DEF SandboxNext
  <2> QED
    BY <1>2, <2>1, OutsideKeeps DEF HostDrifts, Elsewhere
<1>3. ASSUME NEW e \in Execs, HostProxyAborts(e), Elsewhere
      PROVE  WorkerInv'
  <2>1. SandboxInv'
    BY <1>0, <1>3, InvStep DEF SandboxNext
  <2> QED
    BY <1>0, <1>3, <2>1, SetupAdvances, AdvanceKeeps
<1>4. ASSUME NEW e \in Execs,
             \/ CallerStops(e) \/ PassTimesOut(e) \/ Turn(e) \/ TurnFails(e) \/ ForeignOpens(e)
             \/ CoreProgress(e) \/ CallProgress(e) \/ PassProgress(e)
      PROVE  WorkerInv'
  BY <1>4, CallsKeep, TurnKeeps, TurnFailsKeeps, ForeignKeeps, CoreProgressKeeps,
     CallProgressKeeps, PassProgressKeeps
<1>5. CASE UNCHANGED workerVars
  <2>1. UNCHANGED sandboxVars
    BY <1>5 DEF workerVars
  <2>2. SandboxInv'
    BY <2>1, SandboxRests
  <2> QED
    BY <1>5, <2>1, <2>2, OutsideKeeps DEF workerVars, sandboxVars
<1> QED
  BY <1>1, <1>2, <1>3, <1>4, <1>5 DEF WorkerNext

(* The invariant of every reachable state of a Worker process.               *)
THEOREM WorkerIsSound == WorkerSpec => []WorkerInv
<1> QED
  BY WorkerStarts, WorkerStep, PTL DEF WorkerSpec

(* No Reviewer reads a Workspace but where the matrix permits it on the host  *)
(* the instance runs on, whatever the cache came to say (run.ts).             *)
THEOREM ReviewersAreAuthorized == WorkerSpec => []AuthorizedOnTheInstance
<1>1. WorkerInv => AuthorizedOnTheInstance
  BY DEF WorkerInv, Permitted, AuthorizedOnTheInstance
<1> QED
  BY <1>1, WorkerIsSound, PTL

(* The Codex Adapter and Worker core agree on every bundle, repaired or not.  *)
THEOREM AdapterAndCoreAgree == WorkerSpec => []AdapterAgreesWithCore
<1>1. WorkerInv => AdapterAgreesWithCore
  BY DEF WorkerInv, Linked, Checked, AdapterAgreesWithCore
<1> QED
  BY <1>1, WorkerIsSound, PTL

(* What the provider promises holds under Worker core as well: a receipt is   *)
(* given for a Sandbox that is gone, and what is left has quarantined it.     *)
THEOREM WorkerReceiptsAreTrue ==
  WorkerSpec => [](ReceiptMeansGone /\ NothingSurvivesUnnoticed /\ RunsOnItsHost)
<1>1. WorkerInv => ReceiptMeansGone
  BY DEF WorkerInv, LaunchesAreSound, Sound, SoundAccess, SoundEnd, InUse,
         ReceiptMeansGone, Exists
<1>2. WorkerInv => NothingSurvivesUnnoticed
  BY TypeParts
  DEF WorkerInv, WorkerTypeOK, LaunchesAreSound, Sound, SoundAccess, SoundEnd, InUse,
      NothingSurvivesUnnoticed, Exists
<1>3. WorkerInv => RunsOnItsHost
  BY DEF WorkerInv, LaunchesAreSound, Sound, SoundLaunch, RunsOnItsHost
<1> QED
  BY <1>1, <1>2, <1>3, WorkerIsSound, PTL

-----------------------------------------------------------------------------
(* The contract.  A step of an execution stays on its side of the answer,     *)
(* gives the answer, lets the Reviewer in, or changes nothing the contract    *)
(* speaks of.                                                               *)
Rests(e) ==
  /\ daemon'[e] = daemon[e] /\ quarantined' = quarantined
  /\ access'[e].held = access[e].held /\ access'[e].opening = access[e].opening

Quiet(e) ==
  /\ core[e].at # "done" /\ core'[e].at # "done"
  /\ pass'[e].at = "none" <=> pass[e].at = "none"

Ends(e) ==
  /\ core[e].at # "done" /\ core'[e].at = "done"
  /\ UNCHANGED pass /\ Rests(e)

Enters(e) ==
  /\ core[e].at # "done" /\ core'[e].at = "pass" /\ pass'[e].at # "none" /\ Rests(e)

Still(e) == UNCHANGED <<core, pass>> /\ Rests(e)

Moves(e) == Beside(e) /\ (Quiet(e) \/ Ends(e) \/ Enters(e) \/ Still(e))

LEMMA ProviderMoves ==
  ASSUME WorkerInv, NEW e \in Execs, Advance(e), Elsewhere
  PROVE  Moves(e)
<1>1. Beside(e)
  BY DEF Elsewhere, Beside, Advance
<1>2. CASE core[e].at # "done"
  BY <1>1, <1>2 DEF Elsewhere, Moves, Quiet
<1>3. CASE core[e].at = "done"
  <2>1. /\ box[e].at \in Ended
        /\ Advances(box[e], daemon[e], access[e], quarantined,
                    box'[e], daemon'[e], access'[e], quarantined')
    BY <1>3, Known DEF Tied, Advance
  <2>2. access[e].opening = {}
    BY <2>1, Known DEF Ended, Sound, SoundAccess, InUse
  <2>3. Rests(e)
    BY <2>1, <2>2 DEF Advances, Rests
  <2> QED
    BY <1>1, <2>3 DEF Elsewhere, Moves, Still
<1> QED
  BY <1>2, <1>3

LEMMA CoreMoves == ASSUME WorkerInv, NEW e \in Execs, CoreProgress(e) PROVE Moves(e)
<1> USE Known
<1>0. /\ core \in [Execs -> Cores] /\ pass \in [Execs -> Passes]
      /\ pass[e].at # "none" => core[e].at \in {"pass", "tearingDown", "done"}
  BY DEF WorkerTypes, Paced
<1>1. ASSUME UNCHANGED sandboxVars
      PROVE  Writes(e) /\ Rests(e)
  BY <1>1, SandboxRests DEF Rests, sandboxVars
<1>2. ASSUME Teardown(e)
      PROVE  Writes(e)
  BY <1>2, TeardownKeeps
<1>3. ASSUME core[e].at # "done", Beside(e), NEW at \in CorePlaces \ {"done"},
             core'[e].at = at, UNCHANGED pass
      PROVE  Moves(e)
  BY <1>3 DEF Moves, Quiet
<1> USE DEF Beside, Moves, Ends, Refuse, At, Unwind, Cores
<1>4. CASE Begin(e)
  BY <1>0, <1>1, <1>4 DEF Begin, Quiet
<1>5. CASE AdapterResolves(e)
  <2>1. Writes(e) /\ Rests(e)
    BY <1>5 DEF AdapterResolves, Writes, Rests
  <2> QED
    BY <1>0, <1>5, <2>1 DEF AdapterResolves, Quiet
<1>6. CASE HostResolves(e)
  BY <1>0, <1>1, <1>6 DEF HostResolves, Quiet
<1>7. CASE ResolutionAbandoned(e)
  BY <1>0, <1>1, <1>7 DEF ResolutionAbandoned
<1>8. CASE Gate(e)
  <2>1. CASE At(e, "launching") /\ Launch(e)
    <3>1. Writes(e)
      BY <2>1, TypeParts DEF Launch, Goes, Writes, SandboxInv
    <3> QED
      BY <1>0, <1>8, <2>1, <3>1 DEF Gate, Quiet
  <2>2. ASSUME NEW why, Refuse(e, why), UNCHANGED sandboxVars
        PROVE  Moves(e)
    BY <1>0, <1>1, <1>8, <2>2 DEF Gate
  <2> QED
    BY <1>8, <2>1, <2>2 DEF Gate
<1>9. CASE LaunchReturns(e)
  BY <1>0, <1>1, <1>9 DEF LaunchReturns, Quiet
<1>10. CASE Materialize(e)
  BY <1>0, <1>1, <1>2, <1>10 DEF Materialize, Quiet
<1>11. CASE Authorize(e)
  <2>1. core[e].at = "reresolve" /\ input' = input
    BY <1>11 DEF Authorize
  <2>2. PICK c \in MayResolve(e) :
          LET refused == CheckDispatch(input[e], c, HostIsolation(box[e].capability))
          IN IF refused = "none"
             THEN /\ core' = [core EXCEPT ![e].at = "pass", ![e].capability = c]
                  /\ pass' = [pass EXCEPT ![e].at = IF Codex(e) THEN "capability"
                                                    ELSE "foreign"]
                  /\ UNCHANGED sandboxVars
             ELSE /\ core' = [core EXCEPT ![e].at = "unwinding", ![e].capability = c,
                                          ![e].answer = refused]
                  /\ Teardown(e) /\ UNCHANGED pass
    BY <1>11 DEF Authorize
  <2> DEFINE refused == CheckDispatch(input[e], c, HostIsolation(box[e].capability))
  <2> HIDE DEF refused
  <2>3. CASE refused = "none"
    <3>1. PICK first \in {"capability", "foreign"} :
            /\ core' = [core EXCEPT ![e].at = "pass", ![e].capability = c]
            /\ pass' = [pass EXCEPT ![e].at = first]
            /\ UNCHANGED sandboxVars
      BY <2>2, <2>3 DEF refused
    <3> QED
      BY <1>0, <1>1, <2>1, <3>1 DEF Enters, Passes
  <2>4. CASE refused # "none"
    <3>1. /\ core' = [core EXCEPT ![e].at = "unwinding", ![e].capability = c,
                                  ![e].answer = refused]
          /\ Teardown(e) /\ UNCHANGED pass
      BY <2>2, <2>4 DEF refused
    <3> QED
      BY <1>0, <1>2, <2>1, <3>1 DEF Quiet
  <2> QED
    BY <2>3, <2>4
<1>12. CASE InstanceUnresolved(e)
  BY <1>0, <1>2, <1>12 DEF InstanceUnresolved, Quiet
<1>13. CASE Unwound(e)
  BY <1>0, <1>1, <1>13 DEF Unwound
<1>14. CASE PassReturns(e)
  BY <1>0, <1>2, <1>14 DEF PassReturns, Quiet
<1>15. CASE TornDown(e)
  BY <1>0, <1>1, <1>15 DEF TornDown
<1> QED
  BY <1>4, <1>5, <1>6, <1>7, <1>8, <1>9, <1>10, <1>11, <1>12, <1>13, <1>14, <1>15
  DEF CoreProgress

LEMMA PassMoves ==
  ASSUME WorkerInv, WorkerInv', NEW e \in Execs,
         PassProgress(e) \/ Turn(e) \/ TurnFails(e) \/ ForeignOpens(e)
  PROVE  Moves(e)
<1> USE Known
<1>0. pass \in [Execs -> Passes]
  BY DEF WorkerTypes
<1>1. core[e].at = "pass" /\ pass[e].at # "none" /\ UNCHANGED <<core, input>>
  BY DEF PassProgress, CapabilityHeld, PreflightAnswers, ProxyOpens, SessionStarts,
         EndpointOpens, SessionCloses, ForeignAnswers, Turn, TurnFails, ForeignOpens, Paced
<1>2. Writes(e)
  <2>1. access \in [Execs -> Accesses] /\ UNCHANGED <<box, daemon, quarantined>>
    BY TypeParts
    DEF SandboxInv, PassProgress, CapabilityHeld, PreflightAnswers, ProxyOpens, SessionStarts,
        EndpointOpens, SessionCloses, ForeignAnswers, Turn, TurnFails, ForeignOpens, sandboxVars
  <2>2. \A f \in Execs \ {e} : access'[f] = access[f]
    BY <2>1
    DEF PassProgress, CapabilityHeld, PreflightAnswers, ProxyOpens, SessionStarts,
        EndpointOpens, SessionCloses, ForeignAnswers, Turn, TurnFails, ForeignOpens, sandboxVars,
        Registers
  <2> QED
    BY <2>1, <2>2 DEF Writes
<1>3. \A f \in Execs \ {e} : pass'[f] = pass[f]
  BY <1>0
  DEF PassProgress, CapabilityHeld, PreflightAnswers, ProxyOpens, SessionStarts,
      EndpointOpens, SessionCloses, ForeignAnswers, Turn, TurnFails, ForeignOpens,
      PassStep, Closes, Over
<1>4. pass'[e].at # "none"
  BY <1>1 DEF WorkerInv, Linked, Paced
<1> QED
  BY <1>1, <1>2, <1>3, <1>4 DEF Moves, Quiet, Beside

LEMMA CallMoves == ASSUME WorkerInv, NEW e \in Execs, CallProgress(e) PROVE Moves(e)
<1> USE Known
<1>1. CASE (LaunchStep(e) \/ DestroyStep(e) \/ SetupStep(e)) /\ Elsewhere
  BY <1>1, LaunchAdvances, DestroyAdvances, SetupAdvances, ProviderMoves
<1>2. CASE InspectionAnswers(e)
  BY <1>2, SandboxRests DEF InspectionAnswers, Moves, Still, Rests, Beside, sandboxVars
<1>3. CASE ProbeAnswers(e)
  <2>1. CASE UNCHANGED access
    <3>1. UNCHANGED sandboxVars
      BY <1>3, <2>1 DEF ProbeAnswers, sandboxVars
    <3> QED
      BY <1>3, <3>1, SandboxRests DEF ProbeAnswers, Moves, Still, Rests, Beside, sandboxVars
  <2>2. CASE Open(e) /\ access' = [access EXCEPT ![e].held = @ \cup {"process"}]
    <3>1. Occupies(e)
      BY <1>3, <2>2 DEF ProbeAnswers, Occupies
    <3>2. core[e].at # "done"
      BY <2>2 DEF Tied, Open, Ended
    <3> QED
      BY <1>3, <3>1, <3>2, Occupied DEF ProbeAnswers, Moves, Quiet, Beside
  <2> QED
    BY <1>3, <2>1, <2>2 DEF ProbeAnswers
<1> QED
  BY <1>1, <1>2, <1>3 DEF CallProgress

LEMMA StopMoves ==
  ASSUME WorkerInv, NEW e \in Execs, CallerStops(e) \/ PassTimesOut(e)
  PROVE  Moves(e)
BY SandboxRests DEF CallerStops, PassTimesOut, Moves, Still, Rests, Beside, sandboxVars

(* The contract's state, of one execution.                                   *)
Standing(e) == Exists(e) \/ access[e].held # {} \/ access[e].opening # {}
AnswerOf(e) == IF core[e].at = "done" THEN Kind(core[e].answer) ELSE "none"

LEMMA OthersAreUnmoved ==
  ASSUME WorkerInv, NEW e \in Execs, Beside(e)
  PROVE  \A f \in Execs \ {e} :
           /\ Standing(f)' = Standing(f) /\ AnswerOf(f)' = AnswerOf(f)
           /\ (pass[f].at # "none")' = (pass[f].at # "none")
BY DEF Beside, Writes, Standing, Exists, AnswerOf

LEMMA QuietProvisions ==
  ASSUME WorkerInv, WorkerInv', NEW e \in Execs, Beside(e), Quiet(e)
  PROVE  Contract!Provision(e)
<1>1. AnswerOf(e) = "none" /\ AnswerOf(e)' = "none"
  BY DEF Quiet, AnswerOf
<1>2. [f \in Execs |-> AnswerOf(f)]' = [f \in Execs |-> AnswerOf(f)]
  BY <1>1, OthersAreUnmoved
<1>3. {f \in Execs : pass[f].at # "none"}' = {f \in Execs : pass[f].at # "none"}
  BY OthersAreUnmoved DEF Quiet
<1>4. {f \in Execs : Standing(f)}' \in {{f \in Execs : Standing(f)} \cup {e},
                                       {f \in Execs : Standing(f)} \ {e}}
  BY OthersAreUnmoved
<1>5. (~quarantined)' \in {~quarantined, FALSE}
  BY DEF Beside, Writes
<1> QED
  BY <1>1, <1>2, <1>3, <1>4, <1>5 DEF Contract!Provision, AnswerOf, Standing

(* What has ended with something left of it has cost the runtime its trust.  *)
GoneOrDistrusted ==
  \A e \in Execs :
    core[e].at = "done" =>
      /\ Standing(e) => quarantined
      /\ core[e].answer = "result" => ~Standing(e)

LEMMA EndedIsGoneOrDistrusted == WorkerInv => GoneOrDistrusted
<1> SUFFICES ASSUME WorkerInv, NEW e \in Execs, core[e].at = "done"
             PROVE  /\ Standing(e) => quarantined
                    /\ core[e].answer = "result" => ~Standing(e)
  BY DEF GoneOrDistrusted
<1> USE Known
<1>1. box[e].at \in Ended /\ (core[e].answer = "result" => box[e].at = "gone")
  BY DEF Tied, Answers
<1>2. access[e].opening = {}
  BY <1>1 DEF Ended, Sound, SoundAccess, InUse
<1>3. access[e].held # {} => access[e].failed
  BY <1>1 DEF Ended, Sound, SoundAccess, InUse
<1>4. daemon[e] \in Daemons
  BY TypeParts DEF SandboxInv
<1> QED
  BY <1>1, <1>2, <1>3, <1>4
  DEF Ended, Sound, SoundEnd, SoundLaunch, Empty, Standing, Exists, Daemons

LEMMA EndingAnswers ==
  ASSUME WorkerInv, WorkerInv', NEW e \in Execs, Beside(e), Ends(e)
  PROVE  Contract!Answer(e)
<1> DEFINE authorized == {f \in Execs : pass[f].at # "none"}
           standing   == {f \in Execs : Standing(f)}
           answer     == [f \in Execs |-> AnswerOf(f)]
<1>1. /\ core[e].at # "done" /\ core'[e].at = "done" /\ pass' = pass
      /\ Standing(e)' = Standing(e) /\ quarantined' = quarantined
  BY DEF Ends, Rests, Standing, Exists
<1>2. authorized' = authorized /\ standing' = standing
  BY <1>1, OthersAreUnmoved
<1>3. answer[e] = "none" /\ answer' = [answer EXCEPT ![e] = AnswerOf(e)']
  BY <1>1, OthersAreUnmoved DEF AnswerOf
<1>4. (Standing(e) => quarantined) /\ (core'[e].answer = "result" => ~Standing(e))
  <2>1. (Standing(e) => quarantined)' /\ (core'[e].answer = "result" => ~Standing(e)')
    <3>1. GoneOrDistrusted'
      BY EndedIsGoneOrDistrusted, PTL
    <3> QED
      BY <1>1, <3>1 DEF GoneOrDistrusted
  <2> QED
    BY <1>1, <2>1
<1>5. /\ core'[e].answer \in {"result"} \cup RefusalReasons \cup FailureReasons
      /\ pass[e].at # "none" <=> core'[e].answer \notin RefusalReasons
  BY <1>1 DEF WorkerInv, WorkerTypeOK, Cores, Linked, Paced, Answers
<1>6. AnswerOf(e)' = Kind(core'[e].answer)
  BY <1>1 DEF AnswerOf
<1>7. CASE core'[e].answer \in RefusalReasons
  <2>1. AnswerOf(e)' = "refusal"
    BY <1>6, <1>7 DEF Kind, RefusalReasons, FailureReasons
  <2> QED
    BY <1>2, <1>3, <1>4, <1>5, <1>7, <2>1, <1>1 DEF Contract!Answer, AnswerOf, Standing
<1>8. CASE core'[e].answer \in FailureReasons
  <2>1. AnswerOf(e)' = "failure" /\ core'[e].answer \notin RefusalReasons
    BY <1>6, <1>8 DEF Kind, RefusalReasons, FailureReasons
  <2> QED
    BY <1>2, <1>3, <1>4, <1>5, <2>1, <1>1 DEF Contract!Answer, AnswerOf, Standing
<1>9. CASE core'[e].answer = "result"
  <2>1. AnswerOf(e)' = "result" /\ core'[e].answer \notin RefusalReasons
    BY <1>6, <1>9 DEF Kind, RefusalReasons, FailureReasons
  <2> QED
    BY <1>2, <1>3, <1>4, <1>5, <1>9, <2>1, <1>1 DEF Contract!Answer, AnswerOf, Standing
<1> QED
  BY <1>5, <1>7, <1>8, <1>9

LEMMA EnteringAuthorizes ==
  ASSUME WorkerInv, WorkerInv', NEW e \in Execs, Beside(e), Enters(e)
  PROVE  Contract!Authorize(e)
<1> DEFINE authorized == {f \in Execs : pass[f].at # "none"}
           standing   == {f \in Execs : Standing(f)}
           answer     == [f \in Execs |-> AnswerOf(f)]
<1>1. /\ AnswerOf(e) = "none" /\ AnswerOf(e)' = "none"
      /\ Standing(e)' = Standing(e) /\ quarantined' = quarantined
  BY DEF Enters, Rests, Standing, Exists, AnswerOf
<1>2. Standing(e)
  <2>1. daemon'[e].instance = "running"
    BY DEF Enters, WorkerInv, Linked, Tied
  <2> QED
    BY <2>1 DEF Enters, Rests, Standing, Exists
<1>3. authorized' = authorized \cup {e}
  BY OthersAreUnmoved DEF Enters
<1>4. standing' = standing /\ answer' = answer
  BY <1>1, OthersAreUnmoved
<1> QED
  BY <1>1, <1>2, <1>3, <1>4 DEF Contract!Authorize, AnswerOf, Standing

LEMMA StillStutters ==
  ASSUME WorkerInv, NEW e \in Execs, Beside(e), Still(e)
  PROVE  UNCHANGED Contract!contractVars
<1>1. \A f \in Execs :
        /\ Standing(f)' = Standing(f) /\ AnswerOf(f)' = AnswerOf(f)
        /\ (pass[f].at # "none")' = (pass[f].at # "none")
  BY OthersAreUnmoved DEF Still, Rests, Standing, Exists, AnswerOf
<1> QED
  BY <1>1 DEF Contract!contractVars, Still, Rests, Standing, AnswerOf

LEMMA MovesKeepContract ==
  ASSUME WorkerInv, WorkerInv', NEW e \in Execs, Moves(e)
  PROVE  [Contract!ContractNext]_Contract!contractVars
BY QuietProvisions, EndingAnswers, EnteringAuthorizes, StillStutters
DEF Moves, Contract!ContractNext

LEMMA WorkerKeepsContract ==
  ASSUME WorkerInv, WorkerInv', [WorkerNext]_workerVars
  PROVE  [Contract!ContractNext]_Contract!contractVars
<1>1. ASSUME UNCHANGED <<daemon, access, quarantined, core, pass>>
      PROVE  UNCHANGED Contract!contractVars
  BY <1>1 DEF Contract!contractVars, Exists
<1>2. CASE Neighbour
  <2>1. CASE UNCHANGED quarantined
    BY <1>1, <1>2, <2>1 DEF Neighbour
  <2>2. CASE quarantined' = TRUE
    <3>1. Contract!Distrust
      BY <1>2, <2>2 DEF Neighbour, Contract!Distrust, Exists
    <3> QED
      BY <3>1 DEF Contract!ContractNext
  <2> QED
    BY <1>2, <2>1, <2>2 DEF Neighbour
<1>3. CASE HostDrifts /\ Elsewhere
  BY <1>1, <1>3 DEF HostDrifts, Elsewhere
<1>4. ASSUME NEW e \in Execs, HostProxyAborts(e), Elsewhere
      PROVE  Moves(e)
  BY <1>4, Known, SetupAdvances, ProviderMoves
<1>5. ASSUME NEW e \in Execs,
             \/ CallerStops(e) \/ PassTimesOut(e) \/ Turn(e) \/ TurnFails(e) \/ ForeignOpens(e)
             \/ CoreProgress(e) \/ CallProgress(e) \/ PassProgress(e)
      PROVE  Moves(e)
  BY <1>5, CoreMoves, PassMoves, CallMoves, StopMoves
<1>6. CASE UNCHANGED workerVars
  BY <1>1, <1>6 DEF workerVars, sandboxVars
<1> QED
  BY <1>2, <1>3, <1>4, <1>5, <1>6, MovesKeepContract DEF WorkerNext

(* Whichever step throws, and whatever is abandoned on the way: a Refusal     *)
(* only before the Reviewer is let in, a Failure or a Result only after, a    *)
(* Result only when the Sandbox is gone, and nothing left on a runtime that   *)
(* is still trusted (execute() and teardown in run.ts).                      *)
THEOREM WorkerKeepsItsContract == WorkerSpec => ImplementsWorkerContract
<1>1. WorkerInit => Contract!ContractInit
  BY DEF WorkerInit, SandboxInit, Contract!ContractInit, Exists, Kind
<1>2. WorkerInv /\ WorkerInv' /\ [WorkerNext]_workerVars
        => [Contract!ContractNext]_Contract!contractVars
  BY WorkerKeepsContract
<1> QED
  BY <1>1, <1>2, WorkerIsSound, PTL
  DEF WorkerSpec, ImplementsWorkerContract, Contract!ContractSpec
=============================================================================
