------------------------------ MODULE Sandbox ------------------------------
(***************************************************************************)
(* packages/sandbox-container: one provider process, the capability cache   *)
(* and the quarantine its launches share, and the container daemon they     *)
(* drive.  Each launch is one member of Execs; it owns one volume and one   *)
(* instance under names nobody else uses.  Every await is the end of an     *)
(* action, so launches and teardowns interleave between any two runtime     *)
(* invocations.                                                             *)
(*                                                                          *)
(* An invocation may fail without its effect, or with it (the client is     *)
(* killed after the daemon acted).  An effect that arrives after its answer *)
(* is outside the model.                                                    *)
(***************************************************************************)
EXTENDS Naturals, FiniteSets

CONSTANTS
    Execs,         \* the executions of one Worker process
    Callers,       \* the executions that also ask for capability() itself
    Users,         \* the executions whose caller starts processes and setups
    Setups,        \* the host resources a caller may have set up: "proxy", "port"
    Fingerprints,  \* what a daemon report can fingerprint to
    Lacks,         \* the host properties a daemon of each fingerprint does not enforce
    Rootless,      \* the fingerprints of rootless daemons
    Unknown,       \* no capability in the cache, no report read yet
    MaxDrifts      \* bound: how often the daemon is reconfigured

ASSUME SandboxAssumption ==
    /\ Lacks \in [Fingerprints -> SUBSET {"seccomp-enabled", "cpu-limit", "memory-limit",
                                          "process-limit"}]
    /\ Rootless \subseteq Fingerprints
    /\ Unknown \notin Fingerprints
    /\ Callers \cup Users \subseteq Execs /\ Setups \subseteq {"proxy", "port"}
    /\ MaxDrifts \in Nat

VARIABLES
    host,         \* the daemon as it is now
    drifts,       \* how often it changed
    cache,        \* the HostCapability of the process-wide CapabilityCache
    quarantined,  \* the quarantine of the same cache
    box,          \* per launch: where it is, the report it read, the capability it uses
    reading,      \* per execution: its call of capability(), which reads the host
    daemon,       \* per launch: what the daemon holds under its names
    access        \* per launch: the host side of a Sandbox (SandboxAccess)

sandboxVars == <<host, drifts, cache, quarantined, box, reading, daemon, access>>

(* The daemon's report carries every fact the capability is made of, so a   *)
(* HostCapability is its fingerprint: outcomes and Isolation follow from it.*)
HostIsolation(fingerprint) ==
    IF fingerprint \in Rootless THEN "container-rootless" ELSE "container"

CheckHost(fingerprint) == Lacks[fingerprint]

(* The hard properties each check of a launch can find failed.              *)
RequestProperties ==
    {"no-host-bind-mount", "no-runtime-socket", "seccomp-enabled", "cpu-limit",
     "memory-limit", "process-limit", "ephemeral-workspace",
     "no-credential-in-brokered-sandbox"}

ArgumentProperties ==
    {"not-privileged", "no-added-capabilities", "seccomp-enabled",
     "own-network-namespace", "own-pid-namespace", "no-host-bind-mount",
     "no-runtime-socket", "cpu-limit", "memory-limit", "process-limit"}

InstanceProperties ==
    {"own-network-namespace", "own-pid-namespace", "own-mount-namespace",
     "not-privileged", "no-added-capabilities", "no-runtime-socket",
     "no-host-bind-mount", "seccomp-enabled", "cpu-limit", "memory-limit",
     "process-limit", "ephemeral-workspace"}

AtMostOne(properties) == {{}} \cup {{p} : p \in properties}

(* The checks of an Attestation that do not read the instance: the host     *)
(* must be the one the capability was established on, and it must have said *)
(* that it confines what runs on it.                                        *)
AttestHost(report, capability) ==
    (IF report = capability THEN {} ELSE {"host-fingerprint-unchanged"})
        \cup (CheckHost(capability) \cap {"seccomp-enabled"})

Where == {"idle", "hostReport", "hostReported", "volume", "create", "inspect", "start",
          "up", "closing", "rm", "volumeRm", "ps", "volumeLs",
          "refused", "gone", "unproven"}

(* Where openProxy is: the host's proxy is being made, its certificate is       *)
(* written into the Sandbox, the relay inside has not said that it listens.    *)
ProxyStages == {"none", "creating", "writing", "relaying"}

SandboxTypeOK ==
    /\ host \in Fingerprints /\ drifts \in 0..MaxDrifts
    /\ cache \in Fingerprints \cup {Unknown}
    /\ quarantined \in BOOLEAN
    /\ box \in [Execs -> [at : Where, report : Fingerprints \cup {Unknown},
                          capability : Fingerprints \cup {Unknown},
                          leaving : BOOLEAN, instanceLeft : BOOLEAN]]
    /\ reading \in [Callers -> [at : {"none", "asked", "read", "known", "failed"},
                                report : Fingerprints \cup {Unknown}]]
    /\ \A e \in Callers : reading[e].at \in {"read", "known"} => reading[e].report # Unknown
    /\ daemon \in [Execs -> [volume : BOOLEAN,
                             instance : {"none", "created", "running"}]]
    /\ access \in [Execs -> [held : SUBSET {"listener", "relay", "process", "port"},
                              registered : SUBSET Setups, opening : SUBSET Setups,
                              proxy : ProxyStages, failed : BOOLEAN]]

SandboxInit ==
    /\ host \in Fingerprints /\ drifts = 0
    /\ cache = Unknown /\ quarantined = FALSE
    /\ box = [e \in Execs |-> [at |-> "idle", report |-> Unknown, capability |-> Unknown,
                               leaving |-> FALSE, instanceLeft |-> FALSE]]
    /\ reading = [e \in Callers |-> [at |-> "none", report |-> Unknown]]
    /\ daemon = [e \in Execs |-> [volume |-> FALSE, instance |-> "none"]]
    /\ access = [e \in Execs |-> [held |-> {}, registered |-> {}, opening |-> {},
                                  proxy |-> "none", failed |-> FALSE]]

Goes(e, at) == box' = [box EXCEPT ![e].at = at]

(* The operator reconfigures or upgrades the daemon.                        *)
HostDrifts ==
    /\ drifts < MaxDrifts
    /\ host' \in Fingerprints \ {host}
    /\ drifts' = drifts + 1
    /\ UNCHANGED <<cache, quarantined, box, reading, daemon, access>>

(* What launch() goes by: the cached capability, or the one it establishes  *)
(* from its own report.                                                     *)
Establish(report) == IF cache = Unknown THEN report ELSE cache

(* capability(): the daemon is asked only where nothing is cached, and what *)
(* it said is written when the answer is back, whatever the cache holds by  *)
(* then and whether or not the caller is still waiting.                     *)
AskCapability(e) ==
    reading' = [reading EXCEPT ![e] = IF cache = Unknown
                                      THEN [at |-> "asked", report |-> Unknown]
                                      ELSE [at |-> "known", report |-> cache]]

HostAnswers(e) ==
    /\ reading[e].at = "asked"
    /\ \/ reading' = [reading EXCEPT ![e].at = "read", ![e].report = host]
       \/ reading' = [reading EXCEPT ![e].at = "failed"]
    /\ UNCHANGED <<host, drifts, cache, quarantined, box, daemon, access>>

HostEstablished(e) ==
    /\ reading[e].at = "read"
    /\ cache' = reading[e].report
    /\ reading' = [reading EXCEPT ![e].at = "known"]
    /\ UNCHANGED <<host, drifts, quarantined, box, daemon, access>>

---------------------------------------------------------------------------
(* launch(): the quarantine gate and the request check, before any          *)
(* invocation.                                                              *)
Launch(e) ==
    /\ box[e].at = "idle"
    /\ \E refused \in AtMostOne(RequestProperties) :
           Goes(e, IF quarantined \/ refused # {} THEN "refused" ELSE "hostReport")
    /\ UNCHANGED <<host, drifts, cache, quarantined, reading, daemon, access>>

HostReportRead(e) ==
    /\ box[e].at = "hostReport"
    /\ \/ box' = [box EXCEPT ![e].at = "hostReported", ![e].report = host]
       \/ Goes(e, "refused")
    /\ UNCHANGED <<host, drifts, cache, quarantined, reading, daemon, access>>

(* Back from the await: the cache as it is now, against the report as it    *)
(* was read.                                                                *)
MutantCheckCapabilityFresh(e) ==
    /\ box[e].at = "hostReported"
    /\ cache' = box[e].report
    /\ box' = [box EXCEPT ![e].at = "volume", ![e].capability = box[e].report]
    /\ UNCHANGED <<host, drifts, quarantined, reading, daemon, access>>

CheckCapability(e) ==
    /\ box[e].at = "hostReported"
    /\ LET capability == Establish(box[e].report)
           drifted    == box[e].report # capability
       IN \/ /\ CheckHost(capability) # {}
             /\ cache' = capability
             /\ Goes(e, "refused")
          \/ /\ CheckHost(capability) = {} /\ drifted
             /\ cache' = Unknown
             /\ Goes(e, "refused")
          \/ /\ CheckHost(capability) = {} /\ ~drifted
             /\ cache' = capability
             /\ \E failed \in AtMostOne(ArgumentProperties) :
                    box' = [box EXCEPT ![e].at = IF failed = {} THEN "volume" ELSE "refused",
                                       ![e].capability = capability]
    /\ UNCHANGED <<host, drifts, quarantined, reading, daemon, access>>

(* own(): a failure at any of its steps abandons what exists by then.       *)
Abandon(e) == Goes(e, "rm")

CreateVolume(e) ==
    /\ box[e].at = "volume"
    /\ \/ /\ daemon' = [daemon EXCEPT ![e].volume = TRUE]
          /\ Goes(e, "create") \/ Abandon(e)
       \/ Abandon(e) /\ UNCHANGED daemon
    /\ UNCHANGED <<host, drifts, cache, quarantined, reading, access>>

CreateInstance(e) ==
    /\ box[e].at = "create"
    /\ \/ /\ daemon' = [daemon EXCEPT ![e].instance = "created"]
          /\ Goes(e, "inspect") \/ Abandon(e)
       \/ Abandon(e) /\ UNCHANGED daemon
    /\ UNCHANGED <<host, drifts, cache, quarantined, reading, access>>

Attest(e) ==
    /\ box[e].at = "inspect"
    /\ \/ \E contradicted \in AtMostOne(InstanceProperties) :
              IF contradicted \cup AttestHost(box[e].report, box[e].capability) = {}
              THEN Goes(e, "start") ELSE Abandon(e)
       \/ Abandon(e)
    /\ UNCHANGED <<host, drifts, cache, quarantined, reading, daemon, access>>

StartInstance(e) ==
    /\ box[e].at = "start"
    /\ \/ /\ daemon' = [daemon EXCEPT ![e].instance = "running"]
          /\ Goes(e, "up") \/ Abandon(e)
       \/ Abandon(e) /\ UNCHANGED daemon
    /\ UNCHANGED <<host, drifts, cache, quarantined, reading, access>>

---------------------------------------------------------------------------
(* destroy(): release, whose exit codes are not read, then the re-list that *)
(* decides.  An unavailable runtime presumes everything is left.  What      *)
(* close() could not release fails a teardown that removed all the rest.    *)
MutantSettledSilently(e, residue) ==
    /\ quarantined' = (quarantined \/ (box[e].leaving /\ residue # {}))
    /\ box' = [box EXCEPT
           ![e].instanceLeft = FALSE,
           ![e].at = IF ~box[e].leaving THEN "refused"
                     ELSE IF residue # {} \/ access[e].failed THEN "unproven" ELSE "gone"]

Settled(e, residue) ==
    /\ quarantined' = (quarantined \/ residue # {})
    /\ box' = [box EXCEPT
           ![e].instanceLeft = FALSE,
           ![e].at = IF ~box[e].leaving THEN "refused"
                     ELSE IF residue # {} \/ access[e].failed THEN "unproven" ELSE "gone"]

Presumed == {"instance", "workspace"}

RemoveInstance(e) ==
    /\ box[e].at = "rm"
    /\ daemon' \in {daemon, [daemon EXCEPT ![e].instance = "none"]}
    /\ \/ Goes(e, "volumeRm") /\ UNCHANGED quarantined
       \/ Settled(e, Presumed)
    /\ UNCHANGED <<host, drifts, cache, reading, access>>

(* The daemon does not remove a volume an instance still mounts.            *)
RemoveVolume(e) ==
    /\ box[e].at = "volumeRm"
    /\ \/ UNCHANGED daemon
       \/ daemon[e].instance = "none" /\ daemon' = [daemon EXCEPT ![e].volume = FALSE]
    /\ \/ Goes(e, "ps") /\ UNCHANGED quarantined
       \/ Settled(e, Presumed)
    /\ UNCHANGED <<host, drifts, cache, reading, access>>

ListInstances(e) ==
    /\ box[e].at = "ps"
    /\ \/ /\ box' = [box EXCEPT ![e].at = "volumeLs",
                                ![e].instanceLeft = daemon[e].instance # "none"]
          /\ UNCHANGED quarantined
       \/ Settled(e, Presumed)
    /\ UNCHANGED <<host, drifts, cache, reading, daemon, access>>

ListVolumes(e) ==
    /\ box[e].at = "volumeLs"
    /\ \/ Settled(e, (IF box[e].instanceLeft THEN {"instance"} ELSE {})
                         \cup (IF daemon[e].volume THEN {"workspace"} ELSE {}))
       \/ Settled(e, Presumed)
    /\ UNCHANGED <<host, drifts, cache, reading, daemon, access>>

---------------------------------------------------------------------------
(* SandboxAccess: what the host holds for a Sandbox.  close() releases what  *)
(* start() spawned and what establish() registered; a setup that ends after   *)
(* close() was asked for is registered all the same, and its caller refused.   *)
Open(e) == box[e].at = "up"

Registers(e, resource) ==
    access' = [access EXCEPT ![e].opening = @ \cup {resource},
                             ![e].proxy = IF resource = "proxy" THEN "creating" ELSE @]

(* The access of e after a setup of `resource` ended, with what is then held. *)
Registered(e, resource, ok, holds) ==
    access' = [access EXCEPT ![e].opening = @ \ {resource},
                             ![e].registered = @ \cup (IF ok THEN {resource} ELSE {}),
                             ![e].proxy = IF resource = "proxy" THEN "none" ELSE @,
                             ![e].held = holds]

PortListens(e) ==
    /\ "port" \in access[e].opening
    /\ \E ok \in BOOLEAN :
           Registered(e, "port", ok, access[e].held \cup (IF ok THEN {"port"} ELSE {}))

(* createHostProxy: limits, rules, the ephemeral CA, and a server that         *)
(* listens.  Where close() was asked for in the meantime the certificate is     *)
(* not even written, and the server closed again.                             *)
MutantHostProxyListens(e) ==
    /\ access[e].proxy = "creating" /\ Open(e)
    /\ access' = [access EXCEPT ![e].proxy = "writing", ![e].held = @ \cup {"listener"}]

HostProxyListens(e) ==
    /\ access[e].proxy = "creating"
    /\ \/ Registered(e, "proxy", FALSE, access[e].held)
       \/ Open(e) /\ access' = [access EXCEPT ![e].proxy = "writing",
                                              ![e].held = @ \cup {"listener"}]

(* The certificate is written, and the relay started at once: a process like   *)
(* any other.                                                                *)
MutantCertificateWritten(e) ==
    /\ access[e].proxy = "writing"
    /\ \/ Registered(e, "proxy", FALSE, access[e].held)
       \/ Open(e) /\ access' = [access EXCEPT ![e].proxy = "relaying",
                                              ![e].held = @ \cup {"relay"}]

CertificateWritten(e) ==
    /\ access[e].proxy = "writing"
    /\ \/ Registered(e, "proxy", FALSE, access[e].held \ {"listener"})
       \/ Open(e) /\ access' = [access EXCEPT ![e].proxy = "relaying",
                                              ![e].held = @ \cup {"relay"}]

RelayReady(e) ==
    /\ access[e].proxy = "relaying"
    /\ Registered(e, "proxy", TRUE, access[e].held)

(* The relay ended, or what it wrote could not be read: the proxy closes       *)
(* itself, and what it could not kill stays with the processes of the Sandbox. *)
RelayEnds(e) ==
    /\ "relay" \in access[e].held
    /\ \E left \in SUBSET {"relay"} :
           LET holds == (access[e].held \ {"listener", "relay"}) \cup left
           IN IF access[e].proxy = "relaying" THEN Registered(e, "proxy", FALSE, holds)
              ELSE box[e].at \in {"up", "closing"} /\ access' = [access EXCEPT ![e].held = holds]

(* The signal of the Pass or that of close() aborts, and the server closes.    *)
HostProxyAborts(e) ==
    /\ "listener" \in access[e].held /\ box[e].at \in {"up", "closing"}
    /\ access' = [access EXCEPT ![e].held = @ \ {"listener"}]
    /\ UNCHANGED <<host, drifts, cache, quarantined, box, reading, daemon>>

SetupStep(e) ==
    /\ \/ PortListens(e) \/ HostProxyListens(e) \/ CertificateWritten(e)
       \/ RelayReady(e) \/ RelayEnds(e)
    /\ UNCHANGED <<host, drifts, cache, quarantined, box, reading, daemon>>

(* Sandbox.teardown(): close() is asked for at once, and nothing registers   *)
(* or starts from then on.                                                  *)
Teardown(e) ==
    /\ box[e].at = "up"
    /\ box' = [box EXCEPT ![e].at = "closing", ![e].leaving = TRUE]
    /\ UNCHANGED <<host, drifts, cache, quarantined, reading, daemon, access>>

(* close() waits for the registrations it found, closes what is registered    *)
(* and kills what was spawned.  Any of those may fail, also of what had ended *)
(* before; the server of a registered proxy is closed whatever became of its   *)
(* relay.  The removal runs whatever became of all that.                      *)
Closed(e) ==
    \E kept \in SUBSET (access[e].held \ {"listener"}), failed \in BOOLEAN :
        /\ kept # {} => failed
        /\ access' = [access EXCEPT
               ![e].held = kept \cup IF "proxy" \in access[e].registered THEN {}
                                     ELSE access[e].held \cap {"listener"},
               ![e].failed = failed]
        /\ quarantined' = (quarantined \/ failed)
        /\ box' = [box EXCEPT ![e].at = "rm"]

CloseAccess(e) ==
    /\ box[e].at = "closing" /\ access[e].opening = {}
    /\ Closed(e)
    /\ UNCHANGED <<host, drifts, cache, reading, daemon>>

LaunchStep(e) ==
    \/ e \in Callers /\ (HostAnswers(e) \/ HostEstablished(e))
    \/ HostReportRead(e) \/ CheckCapability(e) \/ CreateVolume(e) \/ CreateInstance(e)
    \/ Attest(e) \/ StartInstance(e)

DestroyStep(e) ==
    \/ CloseAccess(e) \/ RemoveInstance(e) \/ RemoveVolume(e)
    \/ ListInstances(e) \/ ListVolumes(e)

(* What a caller does with the provider and with an open Sandbox.           *)
Resolve(e) ==
    /\ e \in Callers /\ reading[e].at = "none"
    /\ AskCapability(e)
    /\ UNCHANGED <<host, drifts, cache, quarantined, box, daemon, access>>

Use(e) ==
    /\ e \in Users /\ Open(e)
    /\ \/ \E resource \in Setups \ (access[e].registered \cup access[e].opening) :
              Registers(e, resource)
       \/ access' = [access EXCEPT ![e].held = @ \cup {"process"}]
    /\ UNCHANGED <<host, drifts, cache, quarantined, box, reading, daemon>>

SandboxNext ==
    \/ HostDrifts
    \/ \E e \in Execs :
           \/ Resolve(e) \/ Launch(e) \/ Use(e) \/ Teardown(e)
           \/ LaunchStep(e) \/ SetupStep(e) \/ HostProxyAborts(e) \/ DestroyStep(e)

(* Every runtime invocation ends, and a setup that began ends: both have the *)
(* container CLI's exit behind them.  Nobody has to launch or tear down.     *)
SandboxFairness ==
    \A e \in Execs :
        WF_sandboxVars(LaunchStep(e) \/ SetupStep(e) \/ DestroyStep(e))

SandboxSpec == SandboxInit /\ [][SandboxNext]_sandboxVars /\ SandboxFairness

---------------------------------------------------------------------------
Exists(e) == daemon[e].volume \/ daemon[e].instance # "none"

(* Nothing survives unnoticed: once a launch was refused or a teardown has  *)
(* ended, whatever is left of the Sandbox, on the daemon or on the host,    *)
(* has quarantined the runtime, whichever step failed on the way.           *)
NothingSurvivesUnnoticed ==
    \A e \in Execs :
        box[e].at \in {"refused", "gone", "unproven"} /\ (Exists(e) \/ access[e].held # {})
            => quarantined

(* A teardown that returned its receipt left nothing: no instance, no       *)
(* volume, no process, proxy or port, and no setup still under way.         *)
ReceiptMeansGone ==
    \A e \in Execs :
        box[e].at = "gone" =>
            ~Exists(e) /\ access[e].held = {} /\ access[e].opening = {}

(* An instance runs only on the host its own launch read, and that host     *)
(* enforces the host properties: the cache another launch evicted or wrote  *)
(* in the meantime never stands in for the report.                          *)
RunsOnItsHost ==
    \A e \in Execs :
        daemon[e].instance = "running" =>
            /\ box[e].capability = box[e].report
            /\ CheckHost(box[e].report) = {}

(* A launch that began is answered, and a teardown that was asked for ends,  *)
(* also while a proxy or a port is still being set up.                       *)
EveryLaunchSettles ==
    \A e \in Execs :
        /\ box[e].at = "hostReport" ~> box[e].at \in {"up", "refused"}
        /\ box[e].at = "closing" ~> box[e].at \in {"gone", "unproven"}
=============================================================================
