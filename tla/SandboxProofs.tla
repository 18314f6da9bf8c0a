--------------------------- MODULE SandboxProofs ---------------------------
(***************************************************************************)
(* Nothing a launch makes survives unnoticed, for every number of launches,*)
(* whatever their daemon does: the proofs of Sandbox's safety properties.   *)
(*                                                                         *)
(* Each launch owns its names, its volume and its access, and shares with   *)
(* the others only the cache and the quarantine, which no step takes back.  *)
(* So the invariant is about one launch at a time (Sound), and a step of    *)
(* one leaves the others' part of it alone (OthersStaySound).               *)
(***************************************************************************)
EXTENDS Sandbox, TLAPS

Boxes == [at : Where, report : Fingerprints \cup {Unknown},
          capability : Fingerprints \cup {Unknown},
          leaving : BOOLEAN, instanceLeft : BOOLEAN]

Daemons == [volume : BOOLEAN, instance : {"none", "created", "running"}]

Accesses == [held : SUBSET {"listener", "relay", "process", "port"},
             registered : SUBSET Setups, opening : SUBSET Setups,
             proxy : ProxyStages, failed : BOOLEAN]

(* Before the first command that makes something, and until the launch has  *)
(* been admitted by the report it read.                                    *)
Empty    == {"idle", "hostReport", "hostReported", "volume"}
Admitted == {"volume", "create", "inspect", "start"}
InUse    == {"up", "closing"}

(* What holds of one launch: its box b, what the daemon has of it d, its     *)
(* host side a, and the quarantine q of the process.                        *)
SoundLaunch(b, d, a) ==
  /\ b.at \in Empty => ~d.volume /\ d.instance = "none"
  /\ b.at \in Empty \cup Admitted \cup {"up", "refused"} => ~b.leaving
  /\ b.at \in {"closing", "gone", "unproven"} => b.leaving
  /\ b.at \in Admitted => b.capability = b.report /\ CheckHost(b.report) = {}
  /\ d.instance = "running" => b.capability = b.report /\ CheckHost(b.report) = {}
  /\ b.at = "volumeLs" /\ ~b.instanceLeft => d.instance = "none"

SoundAccess(b, a) ==
  /\ ~b.leaving /\ b.at # "up" => a.held = {}
  /\ b.at \notin InUse => a.opening = {}
  /\ a.proxy # "none" => "proxy" \in a.opening
  /\ "listener" \in a.held => a.proxy \in {"writing", "relaying"} \/ "proxy" \in a.registered
  /\ b.at \notin InUse /\ a.held # {} => a.failed

SoundEnd(b, d, a, q) ==
  /\ a.failed => q
  /\ b.at = "refused" /\ (d.volume \/ d.instance # "none") => q
  /\ b.at = "unproven" => q
  /\ b.at = "gone" => ~d.volume /\ d.instance = "none" /\ ~a.failed

Sound(b, d, a, q) ==
  SoundLaunch(b, d, a) /\ SoundAccess(b, a) /\ SoundEnd(b, d, a, q)

LaunchesAreSound ==
  \A e \in Execs : Sound(box[e], daemon[e], access[e], quarantined)
-----------------------------------------------------------------------------
(* Types. *)

Held == {"listener", "relay", "process", "port"}

LEMMA TypeParts ==
  SandboxTypeOK <=>
    /\ host \in Fingerprints /\ drifts \in 0..MaxDrifts
    /\ cache \in Fingerprints \cup {Unknown}
    /\ quarantined \in BOOLEAN
    /\ box \in [Execs -> Boxes]
    /\ reading \in [Callers -> [at : {"none", "asked", "read", "known", "failed"},
                                 report : Fingerprints \cup {Unknown}]]
    /\ \A e \in Callers : reading[e].at \in {"read", "known"} => reading[e].report # Unknown
    /\ daemon \in [Execs -> Daemons]
    /\ access \in [Execs -> Accesses]
  BY Zenon DEF SandboxTypeOK, Boxes, Daemons, Accesses

(* A box with some of its fields written is a box, and so are the others.  *)
LEMMA BoxGoes ==
  ASSUME NEW e \in Execs, NEW at \in Where, box \in [Execs -> Boxes], Goes(e, at)
  PROVE  box' \in [Execs -> Boxes]
  BY DEF Boxes, Goes

LEMMA BoxReads ==
  ASSUME NEW e \in Execs, NEW report \in Fingerprints, NEW at \in Where,
         box \in [Execs -> Boxes],
         box' = [box EXCEPT ![e].at = at, ![e].report = report]
  PROVE  box' \in [Execs -> Boxes]
  BY DEF Boxes

LEMMA BoxEstablishes ==
  ASSUME NEW e \in Execs, NEW capability \in Fingerprints \cup {Unknown}, NEW at \in Where,
         box \in [Execs -> Boxes],
         box' = [box EXCEPT ![e].at = at, ![e].capability = capability]
  PROVE  box' \in [Execs -> Boxes]
  BY DEF Boxes

LEMMA BoxLeaves ==
  ASSUME NEW e \in Execs, NEW at \in Where, box \in [Execs -> Boxes],
         box' = [box EXCEPT ![e].at = at, ![e].leaving = TRUE]
  PROVE  box' \in [Execs -> Boxes]
  BY DEF Boxes

LEMMA BoxLists ==
  ASSUME NEW e \in Execs, NEW at \in Where, NEW left \in BOOLEAN, box \in [Execs -> Boxes],
         box' = [box EXCEPT ![e].at = at, ![e].instanceLeft = left]
  PROVE  box' \in [Execs -> Boxes]
  BY DEF Boxes

LEMMA DaemonKeepsType ==
  ASSUME NEW e \in Execs, daemon \in [Execs -> Daemons],
         \/ daemon' = [daemon EXCEPT ![e].volume = TRUE]
         \/ daemon' = [daemon EXCEPT ![e].volume = FALSE]
         \/ daemon' = [daemon EXCEPT ![e].instance = "none"]
         \/ daemon' = [daemon EXCEPT ![e].instance = "created"]
         \/ daemon' = [daemon EXCEPT ![e].instance = "running"]
         \/ daemon' = daemon
  PROVE  daemon' \in [Execs -> Daemons]
  BY DEF Daemons

(* How destroy ends, in whichever of its steps: typed.                      *)
LEMMA SettledTypes ==
  ASSUME NEW e \in Execs, NEW residue, box \in [Execs -> Boxes], quarantined \in BOOLEAN,
         Settled(e, residue)
  PROVE  box' \in [Execs -> Boxes] /\ quarantined' \in BOOLEAN
<1> DEFINE to == IF ~box[e].leaving THEN "refused"
                 ELSE IF residue # {} \/ access[e].failed THEN "unproven" ELSE "gone"
<1>1. to \in Where
  BY DEF Where
<1>2. box' = [box EXCEPT ![e].instanceLeft = FALSE, ![e].at = to]
  BY Zenon DEF Settled
<1> HIDE DEF to
<1>3. box' \in [Execs -> Boxes]
  BY <1>1, <1>2 DEF Boxes
<1>4. quarantined' \in BOOLEAN
  BY DEF Settled
<1> QED
  BY <1>3, <1>4

(* The host side of a launch that holds something else, that failed to      *)
(* close, or whose setup goes on or ends.                                  *)
LEMMA AccessHolds ==
  ASSUME NEW e \in Execs, access \in [Execs -> Accesses], NEW holds \in SUBSET Held,
         access' = [access EXCEPT ![e].held = holds]
  PROVE  access' \in [Execs -> Accesses]
  BY DEF Accesses, Held

LEMMA AccessCloses ==
  ASSUME NEW e \in Execs, access \in [Execs -> Accesses], NEW holds \in SUBSET Held,
         NEW failed \in BOOLEAN,
         access' = [access EXCEPT ![e].held = holds, ![e].failed = failed]
  PROVE  access' \in [Execs -> Accesses]
  BY DEF Accesses, Held

LEMMA AccessAdvances ==
  ASSUME NEW e \in Execs, access \in [Execs -> Accesses], NEW holds \in SUBSET Held,
         NEW stage \in ProxyStages,
         access' = [access EXCEPT ![e].proxy = stage, ![e].held = holds]
  PROVE  access' \in [Execs -> Accesses]
  BY DEF Accesses, Held

LEMMA AccessOpens ==
  ASSUME NEW e \in Execs, access \in [Execs -> Accesses], NEW opening \in SUBSET Setups,
         NEW stage \in ProxyStages,
         access' = [access EXCEPT ![e].opening = opening, ![e].proxy = stage]
  PROVE  access' \in [Execs -> Accesses]
  BY DEF Accesses

LEMMA RegisteredTypes ==
  ASSUME NEW e \in Execs, NEW resource \in Setups, NEW ok \in BOOLEAN,
         NEW holds \in SUBSET Held, access \in [Execs -> Accesses],
         Registered(e, resource, ok, holds)
  PROVE  access' \in [Execs -> Accesses]
<1> DEFINE opening == access[e].opening \ {resource}
           registered == access[e].registered \cup (IF ok THEN {resource} ELSE {})
           stage == IF resource = "proxy" THEN "none" ELSE access[e].proxy
<1>1. access[e] \in Accesses
  OBVIOUS
<1>2. /\ opening \in SUBSET Setups /\ registered \in SUBSET Setups
      /\ stage \in ProxyStages
  BY <1>1 DEF Accesses, ProxyStages
<1>3. access' = [access EXCEPT ![e].opening = opening, ![e].registered = registered,
                               ![e].proxy = stage, ![e].held = holds]
  BY Zenon DEF Registered
<1> DEFINE settled == [held |-> holds, registered |-> registered, opening |-> opening,
                       proxy |-> stage, failed |-> access[e].failed]
<1>4. settled \in Accesses
  BY <1>1, <1>2 DEF Accesses, Held
<1> HIDE DEF opening, registered, stage
<1>5. access'[e] = settled
  BY <1>1, <1>3 DEF Accesses
<1>6. access' = [access EXCEPT ![e] = access'[e]]
  BY <1>3
<1> QED
  BY <1>4, <1>5, <1>6

LEMMA LaunchTypes ==
  ASSUME SandboxTypeOK, NEW e \in Execs, Launch(e) \/ LaunchStep(e)
  PROVE  SandboxTypeOK'
<1> USE TypeParts
<1> SUFFICES /\ host' \in Fingerprints /\ drifts' \in 0..MaxDrifts
             /\ cache' \in Fingerprints \cup {Unknown} /\ quarantined' \in BOOLEAN
             /\ box' \in [Execs -> Boxes]
             /\ reading' \in [Callers -> [at : {"none", "asked", "read", "known", "failed"},
                                          report : Fingerprints \cup {Unknown}]]
             /\ \A c \in Callers : reading'[c].at \in {"read", "known"} =>
                                     reading'[c].report # Unknown
             /\ daemon' \in [Execs -> Daemons]
             /\ access' \in [Execs -> Accesses]
  BY Zenon DEF SandboxTypeOK, Boxes, Daemons, Accesses
<1>1. CASE Launch(e)
  <2>1. box' \in [Execs -> Boxes]
    BY <1>1, BoxGoes DEF Launch, Where
  <2> QED
    BY <1>1, <2>1 DEF Launch
<1>2. CASE e \in Callers /\ HostAnswers(e)
  BY <1>2, SandboxAssumption DEF HostAnswers
<1>3. CASE e \in Callers /\ HostEstablished(e)
  BY <1>3, SandboxAssumption DEF HostEstablished
<1>4. CASE HostReportRead(e)
  <2>1. box' \in [Execs -> Boxes]
    BY <1>4, BoxGoes, BoxReads DEF HostReportRead, Where
  <2> QED
    BY <1>4, <2>1 DEF HostReportRead
<1>5. CASE CheckCapability(e)
  <2>1. box[e] \in Boxes /\ box[e].report \in Fingerprints \cup {Unknown}
    BY DEF Boxes
  <2>2. Establish(box[e].report) \in Fingerprints \cup {Unknown}
    BY <2>1 DEF Establish
  <2>3. box' \in [Execs -> Boxes]
    BY <1>5, <2>2, BoxGoes, BoxEstablishes DEF CheckCapability, Where
  <2> QED
    BY <1>5, <2>2, <2>3 DEF CheckCapability
<1>6. CASE CreateVolume(e)
  <2>1. box' \in [Execs -> Boxes]
    BY <1>6, BoxGoes DEF CreateVolume, Abandon, Where
  <2> QED
    BY <1>6, <2>1, DaemonKeepsType DEF CreateVolume
<1>7. CASE CreateInstance(e)
  <2>1. box' \in [Execs -> Boxes]
    BY <1>7, BoxGoes DEF CreateInstance, Abandon, Where
  <2> QED
    BY <1>7, <2>1, DaemonKeepsType DEF CreateInstance
<1>8. CASE Attest(e)
  <2>1. box' \in [Execs -> Boxes]
    BY <1>8, BoxGoes DEF Attest, Abandon, Where
  <2> QED
    BY <1>8, <2>1 DEF Attest
<1>9. CASE StartInstance(e)
  <2>1. box' \in [Execs -> Boxes]
    BY <1>9, BoxGoes DEF StartInstance, Abandon, Where
  <2> QED
    BY <1>9, <2>1, DaemonKeepsType DEF StartInstance
<1> QED
  BY <1>1, <1>2, <1>3, <1>4, <1>5, <1>6, <1>7, <1>8, <1>9 DEF LaunchStep

LEMMA DestroyTypes ==
  ASSUME SandboxTypeOK, NEW e \in Execs, DestroyStep(e)
  PROVE  SandboxTypeOK'
<1> USE TypeParts
<1> SUFFICES /\ host' \in Fingerprints /\ drifts' \in 0..MaxDrifts
             /\ cache' \in Fingerprints \cup {Unknown} /\ quarantined' \in BOOLEAN
             /\ box' \in [Execs -> Boxes]
             /\ reading' = reading
             /\ daemon' \in [Execs -> Daemons]
             /\ access' \in [Execs -> Accesses]
  BY Zenon DEF SandboxTypeOK, Boxes, Daemons, Accesses
<1>1. CASE CloseAccess(e)
  <2>1. box' \in [Execs -> Boxes]
    BY <1>1, BoxGoes DEF CloseAccess, Closed, Goes, Where
  <2>2. access' \in [Execs -> Accesses]
    <3>1. PICK kept \in SUBSET (access[e].held \ {"listener"}), failed \in BOOLEAN :
            access' = [access EXCEPT
               ![e].held = kept \cup IF "proxy" \in access[e].registered THEN {}
                                     ELSE access[e].held \cap {"listener"},
               ![e].failed = failed]
      BY <1>1 DEF CloseAccess, Closed
    <3>2. access[e].held \in SUBSET Held
      BY DEF Accesses, Held
    <3> QED
      BY <3>1, <3>2, AccessCloses
  <2>3. quarantined' \in BOOLEAN
    BY <1>1 DEF CloseAccess, Closed
  <2> QED
    BY <1>1, <2>1, <2>2, <2>3 DEF CloseAccess
<1>2. CASE RemoveInstance(e)
  <2>1. box' \in [Execs -> Boxes] /\ quarantined' \in BOOLEAN
    BY <1>2, BoxGoes, SettledTypes DEF RemoveInstance, Where
  <2> QED
    BY <1>2, <2>1, DaemonKeepsType DEF RemoveInstance
<1>3. CASE RemoveVolume(e)
  <2>1. box' \in [Execs -> Boxes] /\ quarantined' \in BOOLEAN
    BY <1>3, BoxGoes, SettledTypes DEF RemoveVolume, Where
  <2> QED
    BY <1>3, <2>1, DaemonKeepsType DEF RemoveVolume
<1>4. CASE ListInstances(e)
  <2>1. box' \in [Execs -> Boxes] /\ quarantined' \in BOOLEAN
    BY <1>4, BoxLists, SettledTypes DEF ListInstances, Where
  <2> QED
    BY <1>4, <2>1 DEF ListInstances
<1>5. CASE ListVolumes(e)
  <2>1. box' \in [Execs -> Boxes] /\ quarantined' \in BOOLEAN
    BY <1>5, SettledTypes DEF ListVolumes
  <2> QED
    BY <1>5, <2>1 DEF ListVolumes
<1> QED
  BY <1>1, <1>2, <1>3, <1>4, <1>5 DEF DestroyStep

LEMMA AccessTypes ==
  ASSUME SandboxTypeOK, LaunchesAreSound, NEW e \in Execs,
         SetupStep(e) \/ HostProxyAborts(e) \/ Use(e)
  PROVE  SandboxTypeOK'
<1> USE TypeParts
<1>0. SUFFICES access' \in [Execs -> Accesses]
  <2>1. UNCHANGED <<host, drifts, cache, quarantined, box, reading, daemon>>
    BY DEF SetupStep, HostProxyAborts, Use
  <2> QED
    BY <2>1, Zenon DEF SandboxTypeOK, Boxes, Daemons, Accesses
<1>1. /\ access[e] \in Accesses
      /\ access[e].held \in SUBSET Held /\ access[e].opening \in SUBSET Setups
  BY DEF Accesses, Held
<1>2. access[e].proxy # "none" => "proxy" \in Setups
  BY <1>1 DEF LaunchesAreSound, Sound, SoundAccess
<1> HIDE TypeParts
<1>a. access \in [Execs -> Accesses]
  BY TypeParts
<1>3. CASE PortListens(e)
  <2>1. "port" \in Setups
    BY <1>1, <1>3 DEF PortListens
  <2>2. PICK ok \in BOOLEAN :
          Registered(e, "port", ok, access[e].held \cup (IF ok THEN {"port"} ELSE {}))
    BY <1>3 DEF PortListens
  <2> QED
    BY <1>a, <1>1, <2>1, <2>2, RegisteredTypes DEF Held
<1>4. CASE HostProxyListens(e)
  <2>1. "proxy" \in Setups
    BY <1>2, <1>4 DEF HostProxyListens
  <2>2. CASE Registered(e, "proxy", FALSE, access[e].held)
    BY <1>a, <1>1, <2>1, <2>2, RegisteredTypes
  <2>3. CASE access' = [access EXCEPT ![e].proxy = "writing", ![e].held = @ \cup {"listener"}]
    BY <1>a, <1>1, <2>3, AccessAdvances DEF Held, ProxyStages
  <2> QED
    BY <1>4, <2>2, <2>3 DEF HostProxyListens
<1>5. CASE CertificateWritten(e)
  <2>1. "proxy" \in Setups
    BY <1>2, <1>5 DEF CertificateWritten
  <2>2. CASE Registered(e, "proxy", FALSE, access[e].held \ {"listener"})
    BY <1>a, <1>1, <2>1, <2>2, RegisteredTypes
  <2>3. CASE access' = [access EXCEPT ![e].proxy = "relaying", ![e].held = @ \cup {"relay"}]
    BY <1>a, <1>1, <2>3, AccessAdvances DEF Held, ProxyStages
  <2> QED
    BY <1>5, <2>2, <2>3 DEF CertificateWritten
<1>6. CASE RelayReady(e)
  BY <1>a, <1>1, <1>2, <1>6, RegisteredTypes DEF RelayReady
<1>7. CASE RelayEnds(e)
  <2>1. PICK holds \in SUBSET Held :
          \/ access[e].proxy = "relaying" /\ Registered(e, "proxy", FALSE, holds)
          \/ access' = [access EXCEPT ![e].held = holds]
    BY <1>1, <1>7 DEF RelayEnds, Held
  <2>2. CASE access' = [access EXCEPT ![e].held = holds]
    BY <1>a, <2>2, AccessHolds
  <2> QED
    BY <1>a, <1>2, <2>1, <2>2, RegisteredTypes
<1>8. CASE HostProxyAborts(e)
  <2>1. access[e].held \ {"listener"} \in SUBSET Held
    BY <1>1
  <2> QED
    BY <1>a, <1>8, <2>1, AccessHolds DEF HostProxyAborts
<1>9. CASE Use(e)
  <2>1. CASE access' = [access EXCEPT ![e].held = @ \cup {"process"}]
    BY <1>a, <1>1, <2>1, AccessHolds DEF Held
  <2>2. CASE \E resource \in Setups \ (access[e].registered \cup access[e].opening) :
               Registers(e, resource)
    <3>1. PICK resource \in Setups : Registers(e, resource)
      BY <2>2
    <3>2. access[e].proxy \in ProxyStages
      BY <1>1 DEF Accesses
    <3> QED
      BY <1>a, <1>1, <3>1, <3>2, AccessOpens DEF Registers, ProxyStages
  <2> QED
    BY <1>9, <2>1, <2>2 DEF Use
<1> QED
  BY <1>3, <1>4, <1>5, <1>6, <1>7, <1>8, <1>9 DEF SetupStep

LEMMA CallerTypes ==
  ASSUME SandboxTypeOK, NEW e \in Execs, Resolve(e) \/ Teardown(e)
  PROVE  SandboxTypeOK'
<1>1. CASE Resolve(e)
  BY <1>1, SandboxAssumption DEF SandboxTypeOK, Resolve, AskCapability
<1>2. CASE Teardown(e)
  <2>1. box' \in [Execs -> Boxes]
    BY <1>2, TypeParts, BoxLeaves DEF Teardown, Where
  <2> QED
    BY <1>2, <2>1, TypeParts, Zenon DEF SandboxTypeOK, Boxes, Daemons, Accesses, Teardown
<1> QED
  BY <1>1, <1>2

LEMMA TypeInit == SandboxInit => SandboxTypeOK
<1> SUFFICES ASSUME SandboxInit PROVE SandboxTypeOK
  OBVIOUS
<1>1. box \in [Execs -> Boxes]
  BY DEF SandboxInit, Boxes, Where
<1>2. daemon \in [Execs -> Daemons]
  BY DEF SandboxInit, Daemons
<1>3. access \in [Execs -> Accesses]
  BY DEF SandboxInit, Accesses, ProxyStages
<1>4. /\ reading \in [Callers -> [at : {"none", "asked", "read", "known", "failed"},
                                  report : Fingerprints \cup {Unknown}]]
      /\ \A e \in Callers : reading[e].at \in {"read", "known"} => reading[e].report # Unknown
  BY DEF SandboxInit
<1>5. /\ host \in Fingerprints /\ drifts \in 0..MaxDrifts
      /\ cache \in Fingerprints \cup {Unknown} /\ quarantined \in BOOLEAN
  <2>1. host \in Fingerprints /\ drifts = 0 /\ cache = Unknown /\ quarantined = FALSE
    BY Zenon DEF SandboxInit
  <2>2. MaxDrifts \in Nat
    BY SandboxAssumption, Zenon
  <2>3. 0 \in 0..MaxDrifts
    BY <2>2
  <2> QED
    BY <2>1, <2>3
<1> QED
  BY <1>1, <1>2, <1>3, <1>4, <1>5, TypeParts, Zenon

-----------------------------------------------------------------------------
(* Soundness. *)

LEMMA SoundInit == SandboxInit => LaunchesAreSound
  BY DEF SandboxInit, LaunchesAreSound, Sound, SoundLaunch, SoundAccess, SoundEnd,
         Empty, Admitted, InUse

(* A step of another launch: it may quarantine, and changes nothing else.   *)
LEMMA OthersStaySound ==
  ASSUME NEW b, NEW d, NEW a, NEW q \in BOOLEAN, NEW q2 \in BOOLEAN, q => q2, Sound(b, d, a, q)
  PROVE  Sound(b, d, a, q2)
  BY DEF Sound, SoundEnd

(* What one step may do to the launches: it writes one of them, and takes    *)
(* back neither the quarantine nor, from another, anything.                 *)
Writes(e) ==
  /\ \A f \in Execs \ {e} :
       box'[f] = box[f] /\ daemon'[f] = daemon[f] /\ access'[f] = access[f]
  /\ quarantined => quarantined'

LEMMA WriterIsSound ==
  ASSUME SandboxTypeOK, SandboxTypeOK', LaunchesAreSound, NEW e \in Execs, Writes(e),
         Sound(box'[e], daemon'[e], access'[e], quarantined')
  PROVE  LaunchesAreSound'
<1> SUFFICES ASSUME NEW f \in Execs
             PROVE  Sound(box'[f], daemon'[f], access'[f], quarantined')
  BY DEF LaunchesAreSound
<1>1. CASE f = e
  BY <1>1
<1>2. CASE f # e
  <2>1. box'[f] = box[f] /\ daemon'[f] = daemon[f] /\ access'[f] = access[f]
    BY <1>2 DEF Writes
  <2>2. Sound(box[f], daemon[f], access[f], quarantined)
    BY DEF LaunchesAreSound
  <2>3. quarantined \in BOOLEAN /\ quarantined' \in BOOLEAN
    BY DEF SandboxTypeOK
  <2> QED
    BY <2>1, <2>2, <2>3, OthersStaySound DEF Writes
<1> QED
  BY <1>1, <1>2

(* A launch before it is up.                                               *)
LEMMA LaunchIsSound ==
  ASSUME SandboxTypeOK, SandboxTypeOK', LaunchesAreSound, NEW e \in Execs,
         Launch(e) \/ LaunchStep(e)
  PROVE  LaunchesAreSound'
<1> USE TypeParts
<1>0. /\ box \in [Execs -> Boxes] /\ daemon \in [Execs -> Daemons]
      /\ box[e] \in Boxes /\ daemon[e] \in Daemons
      /\ Sound(box[e], daemon[e], access[e], quarantined)
  BY DEF LaunchesAreSound
<1> HIDE TypeParts
<1> USE DEF Sound, SoundLaunch, SoundAccess, SoundEnd, Empty, Admitted, InUse
<1>1. CASE Launch(e)
  BY <1>0, <1>1, WriterIsSound DEF Launch, Goes, Writes, Boxes
<1>2. CASE e \in Callers /\ HostAnswers(e)
  BY <1>0, <1>2, WriterIsSound DEF HostAnswers, Writes
<1>3. CASE e \in Callers /\ HostEstablished(e)
  BY <1>0, <1>3, WriterIsSound DEF HostEstablished, Writes
<1>4. CASE HostReportRead(e)
  BY <1>0, <1>4, WriterIsSound DEF HostReportRead, Goes, Writes, Boxes
<1>5. CASE CheckCapability(e)
  BY <1>0, <1>5, WriterIsSound DEF CheckCapability, Goes, Writes, Boxes
<1>6. CASE CreateVolume(e)
  BY <1>0, <1>6, WriterIsSound DEF CreateVolume, Abandon, Goes, Writes, Boxes, Daemons
<1>7. CASE CreateInstance(e)
  BY <1>0, <1>7, WriterIsSound DEF CreateInstance, Abandon, Goes, Writes, Boxes, Daemons
<1>8. CASE Attest(e)
  BY <1>0, <1>8, WriterIsSound DEF Attest, Abandon, Goes, Writes, Boxes
<1>9. CASE StartInstance(e)
  BY <1>0, <1>9, WriterIsSound DEF StartInstance, Abandon, Goes, Writes, Boxes, Daemons
<1> QED
  BY <1>1, <1>2, <1>3, <1>4, <1>5, <1>6, <1>7, <1>8, <1>9 DEF LaunchStep

(* destroy(), after a failed launch or a teardown.                          *)
LEMMA SettledIsSound ==
  ASSUME SandboxTypeOK, LaunchesAreSound, NEW e \in Execs, NEW residue, Settled(e, residue),
         box[e].at \in {"rm", "volumeRm", "ps", "volumeLs"},
         access' = access,
         \A f \in Execs \ {e} : daemon'[f] = daemon[f],
         daemon'[e].instance # "running" \/ daemon'[e].instance = daemon[e].instance,
         daemon'[e].volume \/ daemon'[e].instance # "none" => residue # {}
  PROVE  /\ Writes(e)
         /\ Sound(box'[e], daemon'[e], access'[e], quarantined')
<1>0. /\ box \in [Execs -> Boxes] /\ box[e] \in Boxes
      /\ Sound(box[e], daemon[e], access[e], quarantined)
  BY TypeParts DEF LaunchesAreSound
<1>1. /\ \A f \in Execs \ {e} : box'[f] = box[f]
      /\ box'[e].instanceLeft = FALSE
      /\ box'[e].leaving = box[e].leaving
      /\ box'[e].report = box[e].report /\ box'[e].capability = box[e].capability
      /\ box'[e].at = IF ~box[e].leaving THEN "refused"
                      ELSE IF residue # {} \/ access[e].failed THEN "unproven" ELSE "gone"
  BY <1>0 DEF Settled, Boxes
<1>2. quarantined' = (quarantined \/ residue # {})
  BY DEF Settled
<1>3. Writes(e)
  BY <1>1, <1>2 DEF Writes
<1>4. SoundLaunch(box'[e], daemon'[e], access'[e])
  BY <1>0, <1>1 DEF Sound, SoundLaunch, Empty, Admitted
<1>5. SoundAccess(box'[e], access'[e])
  BY <1>0, <1>1 DEF Sound, SoundAccess, InUse
<1>6. SoundEnd(box'[e], daemon'[e], access'[e], quarantined')
  BY <1>0, <1>1, <1>2 DEF Sound, SoundEnd
<1> QED
  BY <1>3, <1>4, <1>5, <1>6 DEF Sound

LEMMA DestroyIsSound ==
  ASSUME SandboxTypeOK, SandboxTypeOK', LaunchesAreSound, NEW e \in Execs, DestroyStep(e)
  PROVE  LaunchesAreSound'
<1>0. /\ box \in [Execs -> Boxes] /\ box[e] \in Boxes
      /\ daemon \in [Execs -> Daemons] /\ daemon[e] \in Daemons
      /\ access \in [Execs -> Accesses] /\ access[e] \in Accesses
      /\ Sound(box[e], daemon[e], access[e], quarantined)
  BY TypeParts DEF LaunchesAreSound
<1>1. CASE CloseAccess(e)
  <2>1. PICK kept \in SUBSET (access[e].held \ {"listener"}), failed \in BOOLEAN :
          /\ kept # {} => failed
          /\ access' = [access EXCEPT
               ![e].held = kept \cup IF "proxy" \in access[e].registered THEN {}
                                     ELSE access[e].held \cap {"listener"},
               ![e].failed = failed]
          /\ quarantined' = (quarantined \/ failed)
          /\ box' = [box EXCEPT ![e].at = "rm"]
    BY <1>1 DEF CloseAccess, Closed
  <2>2. "proxy" \notin access[e].registered => access[e].held \cap {"listener"} = {}
    BY <1>0, <1>1 DEF CloseAccess, Sound, SoundAccess
  <2>3. /\ access'[e].held = kept /\ access'[e].failed = failed
        /\ access'[e].opening = {} /\ access'[e].proxy = access[e].proxy
        /\ access'[e].registered = access[e].registered
        /\ \A f \in Execs \ {e} : access'[f] = access[f]
    BY <1>0, <1>1, <2>1, <2>2 DEF CloseAccess, Accesses
  <2>4. /\ box'[e].at = "rm" /\ box'[e].leaving = box[e].leaving
        /\ box'[e].report = box[e].report /\ box'[e].capability = box[e].capability
        /\ \A f \in Execs \ {e} : box'[f] = box[f]
    BY <1>0, <2>1 DEF Boxes
  <2>5. daemon' = daemon /\ box[e].at = "closing"
    BY <1>1 DEF CloseAccess
  <2>6. Writes(e)
    BY <2>1, <2>3, <2>4, <2>5 DEF Writes
  <2>7. Sound(box'[e], daemon'[e], access'[e], quarantined')
    BY <1>0, <2>1, <2>3, <2>4, <2>5
    DEF Sound, SoundLaunch, SoundAccess, SoundEnd, Empty, Admitted, InUse
  <2> QED
    BY <2>6, <2>7, WriterIsSound
<1>2. CASE RemoveInstance(e)
  <2>1. CASE Settled(e, Presumed)
    <3>1. /\ \A f \in Execs \ {e} : daemon'[f] = daemon[f]
          /\ daemon'[e].instance # "running" \/ daemon'[e].instance = daemon[e].instance
      BY <1>0, <1>2 DEF RemoveInstance, Daemons
    <3>2. box[e].at = "rm" /\ access' = access
      BY <1>2 DEF RemoveInstance
    <3>3. Presumed # {}
      BY DEF Presumed
    <3> QED
      BY <2>1, <3>1, <3>2, <3>3, SettledIsSound, WriterIsSound
  <2>2. CASE Goes(e, "volumeRm") /\ UNCHANGED quarantined
    BY <1>0, <1>2, <2>2, WriterIsSound
    DEF RemoveInstance, Goes, Writes, Boxes, Daemons, Sound, SoundLaunch, SoundAccess,
        SoundEnd, Empty, Admitted, InUse
  <2> QED
    BY <1>2, <2>1, <2>2 DEF RemoveInstance
<1>3. CASE RemoveVolume(e)
  <2>1. CASE Settled(e, Presumed)
    <3>1. /\ \A f \in Execs \ {e} : daemon'[f] = daemon[f]
          /\ daemon'[e].instance # "running" \/ daemon'[e].instance = daemon[e].instance
      BY <1>0, <1>3 DEF RemoveVolume, Daemons
    <3>2. box[e].at = "volumeRm" /\ access' = access
      BY <1>3 DEF RemoveVolume
    <3>3. Presumed # {}
      BY DEF Presumed
    <3> QED
      BY <2>1, <3>1, <3>2, <3>3, SettledIsSound, WriterIsSound
  <2>2. CASE Goes(e, "ps") /\ UNCHANGED quarantined
    BY <1>0, <1>3, <2>2, WriterIsSound
    DEF RemoveVolume, Goes, Writes, Boxes, Daemons, Sound, SoundLaunch, SoundAccess,
        SoundEnd, Empty, Admitted, InUse
  <2> QED
    BY <1>3, <2>1, <2>2 DEF RemoveVolume
<1>4. CASE ListInstances(e)
  <2>1. CASE Settled(e, Presumed)
    BY <1>0, <1>4, <2>1, SettledIsSound, WriterIsSound DEF ListInstances, Presumed
  <2>2. CASE /\ box' = [box EXCEPT ![e].at = "volumeLs",
                                   ![e].instanceLeft = daemon[e].instance # "none"]
             /\ UNCHANGED quarantined
    BY <1>0, <1>4, <2>2, WriterIsSound
    DEF ListInstances, Writes, Boxes, Sound, SoundLaunch, SoundAccess,
        SoundEnd, Empty, Admitted, InUse
  <2> QED
    BY <1>4, <2>1, <2>2 DEF ListInstances
<1>5. CASE ListVolumes(e)
  <2> DEFINE found == (IF box[e].instanceLeft THEN {"instance"} ELSE {})
                        \cup (IF daemon[e].volume THEN {"workspace"} ELSE {})
  <2>1. PICK residue \in {found, Presumed} : Settled(e, residue)
    BY <1>5 DEF ListVolumes
  <2>2. daemon[e].volume \/ daemon[e].instance # "none" => residue # {}
    BY <1>0, <1>5, <2>1 DEF ListVolumes, Presumed, Sound, SoundLaunch, Boxes
  <2> QED
    BY <1>5, <2>1, <2>2, SettledIsSound, WriterIsSound DEF ListVolumes
<1> QED
  BY <1>1, <1>2, <1>3, <1>4, <1>5 DEF DestroyStep

(* The host side of a launch, and its caller.                              *)
LEMMA AccessIsSound ==
  ASSUME SandboxTypeOK, SandboxTypeOK', LaunchesAreSound, NEW e \in Execs,
         SetupStep(e) \/ HostProxyAborts(e) \/ Use(e) \/ Teardown(e)
  PROVE  LaunchesAreSound'
<1>0. /\ box \in [Execs -> Boxes] /\ box[e] \in Boxes
      /\ access \in [Execs -> Accesses] /\ access[e] \in Accesses
      /\ Sound(box[e], daemon[e], access[e], quarantined)
  BY TypeParts DEF LaunchesAreSound
<1> USE DEF Sound, SoundLaunch, SoundAccess, SoundEnd, Empty, Admitted, InUse, Writes
<1>1. CASE Teardown(e)
  BY <1>0, <1>1, WriterIsSound DEF Teardown, Boxes
<1>2. CASE HostProxyAborts(e)
  BY <1>0, <1>2, WriterIsSound DEF HostProxyAborts, Accesses
<1>3. CASE Use(e)
  <2>0. box[e].at = "up" /\ UNCHANGED <<box, daemon, quarantined>>
    BY <1>3 DEF Use, Open
  <2>1. CASE access' = [access EXCEPT ![e].held = @ \cup {"process"}]
    BY <1>0, <2>0, <2>1, WriterIsSound DEF Accesses
  <2>2. CASE \E resource \in Setups \ (access[e].registered \cup access[e].opening) :
               Registers(e, resource)
    <3>1. PICK resource \in Setups \ (access[e].registered \cup access[e].opening) :
            Registers(e, resource)
      BY <2>2
    <3> QED
      BY <1>0, <2>0, <3>1, WriterIsSound DEF Registers, Accesses
  <2> QED
    BY <1>3, <2>1, <2>2 DEF Use
<1>4. CASE SetupStep(e)
  <2>0. UNCHANGED <<box, daemon, quarantined>>
    BY <1>4 DEF SetupStep
  <2>1. CASE PortListens(e)
    BY <1>0, <2>0, <2>1, WriterIsSound DEF PortListens, Registered, Accesses
  <2>2. CASE HostProxyListens(e)
    BY <1>0, <2>0, <2>2, WriterIsSound DEF HostProxyListens, Open, Registered, Accesses
  <2>3. CASE CertificateWritten(e)
    BY <1>0, <2>0, <2>3, WriterIsSound DEF CertificateWritten, Open, Registered, Accesses
  <2>4. CASE RelayReady(e)
    BY <1>0, <2>0, <2>4, WriterIsSound DEF RelayReady, Registered, Accesses
  <2>5. CASE RelayEnds(e)
    BY <1>0, <2>0, <2>5, WriterIsSound DEF RelayEnds, Registered, Accesses
  <2> QED
    BY <1>4, <2>1, <2>2, <2>3, <2>4, <2>5 DEF SetupStep
<1> QED
  BY <1>1, <1>2, <1>3, <1>4

-----------------------------------------------------------------------------
(* The theorems. *)

SandboxInv == SandboxTypeOK /\ LaunchesAreSound

LEMMA InvStep ==
  ASSUME SandboxInv, [SandboxNext]_sandboxVars
  PROVE  SandboxInv'
<1> USE DEF SandboxInv
<1>1. CASE HostDrifts
  <2>1. SandboxTypeOK'
    BY <1>1, SandboxAssumption DEF SandboxTypeOK, HostDrifts
  <2> QED
    BY <1>1, <2>1 DEF HostDrifts, LaunchesAreSound
<1>2. ASSUME NEW e \in Execs, Resolve(e)
      PROVE  SandboxInv'
  <2>1. SandboxTypeOK'
    BY <1>2, CallerTypes
  <2> QED
    BY <1>2, <2>1 DEF Resolve, LaunchesAreSound
<1>3. ASSUME NEW e \in Execs, Launch(e) \/ LaunchStep(e)
      PROVE  SandboxInv'
  BY <1>3, LaunchTypes, LaunchIsSound
<1>4. ASSUME NEW e \in Execs, SetupStep(e) \/ HostProxyAborts(e) \/ Use(e)
      PROVE  SandboxInv'
  BY <1>4, AccessTypes, AccessIsSound
<1>5. ASSUME NEW e \in Execs, Teardown(e)
      PROVE  SandboxInv'
  BY <1>5, CallerTypes, AccessIsSound
<1>6. ASSUME NEW e \in Execs, DestroyStep(e)
      PROVE  SandboxInv'
  BY <1>6, DestroyTypes, DestroyIsSound
<1>7. CASE UNCHANGED sandboxVars
  BY <1>7 DEF sandboxVars, SandboxTypeOK, LaunchesAreSound
<1> QED
  BY <1>1, <1>2, <1>3, <1>4, <1>5, <1>6, <1>7 DEF SandboxNext

(* The invariant of every reachable state, with as many launches, callers    *)
(* and users as there may be and whatever daemons they meet.                *)
THEOREM LaunchesStaySound == SandboxSpec => []SandboxInv
<1>1. SandboxInit => SandboxInv
  BY TypeInit, SoundInit DEF SandboxInv
<1>2. SandboxInv /\ [SandboxNext]_sandboxVars => SandboxInv'
  BY InvStep
<1> QED
  BY <1>1, <1>2, PTL DEF SandboxSpec

(* Whatever step of a launch or a teardown failed on the way, and whoever    *)
(* else used the provider in the meantime: what is left behind has          *)
(* quarantined it (destroy and teardown in provider.ts).                    *)
THEOREM LeftoversQuarantine == SandboxSpec => []NothingSurvivesUnnoticed
<1>1. SandboxInv => NothingSurvivesUnnoticed
  BY TypeParts
  DEF SandboxInv, LaunchesAreSound, Sound, SoundAccess, SoundEnd, InUse,
      NothingSurvivesUnnoticed, Exists
<1> QED
  BY <1>1, LaunchesStaySound, PTL

(* A receipt is given for a Sandbox of which neither the daemon nor the host *)
(* holds anything (teardown in provider.ts, close in access.ts).            *)
THEOREM ReceiptsAreTrue == SandboxSpec => []ReceiptMeansGone
<1>1. SandboxInv => ReceiptMeansGone
  BY DEF SandboxInv, LaunchesAreSound, Sound, SoundAccess, SoundEnd, InUse,
         ReceiptMeansGone, Exists
<1> QED
  BY <1>1, LaunchesStaySound, PTL

(* No instance runs but on a host its own launch read and found enforcing,   *)
(* however the cache changed under it (launch in provider.ts).              *)
THEOREM InstancesRunOnTheirHost == SandboxSpec => []RunsOnItsHost
<1>1. SandboxInv => RunsOnItsHost
  BY DEF SandboxInv, LaunchesAreSound, Sound, SoundLaunch, RunsOnItsHost
<1> QED
  BY <1>1, LaunchesStaySound, PTL
=============================================================================
