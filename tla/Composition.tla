---------------------------- MODULE Composition ----------------------------
(***************************************************************************)
(* A process that composes its control plane on first use                     *)
(* (packages/control-plane-workflow/src/composition.ts, createControlPlane,   *)
(* createRuntimeDb), while operators run bootstrap() and migrate() against     *)
(* the database and somebody else changes it.                                 *)
(*                                                                            *)
(* An attempt is one promise of a composed control plane; `composed` is the    *)
(* memo.  The seven checks of an attempt run on connections of their own, so   *)
(* each reads the catalogue at a moment of its own.                            *)
(***************************************************************************)
EXTENDS Boundary

CONSTANTS
  Requests,    \* requests and steps that need the control plane
  Attempts,    \* compositions; one is reused once nobody waits for it
  Operators,   \* processes that run the bin's commands
  Environments,  \* what a process may find in its environment
  AddedFlags, AddedPolicies,  \* what somebody may add by hand
  NoAttempt,
  ContendedAttempts,  \* CONTENDED_ATTEMPTS
  MaxDrifts, MaxFaults, MaxContentions, MaxRestarts  \* bounds

ASSUME CompositionAssumption ==
  /\ NoAttempt \notin Attempts
  /\ Environments \subseteq {"usable", "unusable", "cleartextApi"}
  /\ AddedFlags \subseteq RoleFlags /\ AddedPolicies \subseteq Policies
  /\ ContendedAttempts \in Nat \ {0}
  /\ MaxDrifts \in Nat /\ MaxFaults \in Nat /\ MaxContentions \in Nat /\ MaxRestarts \in Nat

VARIABLES
  catalogue, command,           \* the database, and each operator's command
  env, composed, attempt, waits,  \* the process
  drifts, faults, contentions, restarts

process == <<env, composed, attempt, waits>>
bounded == <<drifts, faults, contentions, restarts>>
vars    == <<catalogue, command, process, bounded>>

NewAttempt  == [at |-> "none", pending |-> {}, pool |-> FALSE, undisturbed |-> TRUE]
IdleCommand == [at |-> "idle", attempt |-> 1, newest |-> 0]

CompositionTypeOK ==
  /\ catalogue \in Catalogues
  /\ command \in [Operators -> [at : {"idle", "provision", "apply", "grant"},
                                attempt : 1..ContendedAttempts, newest : 0..2]]
  /\ env \in Environments /\ composed \in Attempts \cup {NoAttempt}
  /\ attempt \in [Attempts -> [at : {"none", "checking", "draining", "rejected", "served"},
                               pending : SUBSET Checks, pool : BOOLEAN,
                               undisturbed : BOOLEAN]]
  /\ waits \in [Requests -> Attempts \cup {NoAttempt}]
  /\ drifts \in 0..MaxDrifts /\ faults \in 0..MaxFaults
  /\ contentions \in 0..MaxContentions /\ restarts \in 0..MaxRestarts

Init ==
  /\ catalogue = Empty
  /\ command = [o \in Operators |-> IdleCommand]
  /\ env \in Environments
  /\ composed = NoAttempt
  /\ attempt = [a \in Attempts |-> NewAttempt]
  /\ waits = [q \in Requests |-> NoAttempt]
  /\ drifts = 0 /\ faults = 0 /\ contentions = 0 /\ restarts = 0

-----------------------------------------------------------------------------
(* composed ??= compose().  What runs before the first await runs at once:     *)
(* the environment is parsed and validated, and only then a pool is opened.    *)
Begins(a) ==
  attempt' = [attempt EXCEPT ![a] =
      IF env = "unusable" THEN [NewAttempt EXCEPT !.at = "rejected"]
      ELSE [NewAttempt EXCEPT !.at = "checking", !.pending = Checks, !.pool = TRUE]]

Ask(q) ==
  /\ waits[q] = NoAttempt
  /\ \/ /\ composed # NoAttempt
        /\ waits' = [waits EXCEPT ![q] = composed]
        /\ UNCHANGED <<composed, attempt>>
     \/ /\ composed = NoAttempt
        /\ \E a \in Attempts :
               /\ attempt[a].at = "none"
               /\ Begins(a)
               /\ composed' = a
               /\ waits' = [waits EXCEPT ![q] = a]
  /\ UNCHANGED <<env, catalogue, command, bounded>>

(* Every check is asked and all are awaited, but the answers after a failed    *)
(* one change nothing: the attempt is lost with its first.  A check fails for   *)
(* what it reads, or because its connection does.                              *)
Check(a, check) ==
  /\ attempt[a].at = "checking" /\ check \in attempt[a].pending
  /\ attempt' = IF Passes(check, catalogue)
                THEN [attempt EXCEPT ![a].pending = @ \ {check}]
                ELSE [attempt EXCEPT ![a].at = "draining", ![a].pending = {}]
  /\ UNCHANGED <<env, composed, waits, catalogue, command, bounded>>

CheckThrows(a) ==
  /\ attempt[a].at = "checking" /\ attempt[a].pending # {}
  /\ faults < MaxFaults
  /\ faults' = faults + 1
  /\ attempt' = [attempt EXCEPT ![a].at = "draining", ![a].pending = {}]
  /\ UNCHANGED <<env, composed, waits, catalogue, command, drifts, contentions, restarts>>

(* All seven passed: the control plane is composed over the pool, which throws  *)
(* for a cleartext api root.                                                   *)
Conclude(a) ==
  /\ attempt[a].at = "checking" /\ attempt[a].pending = {}
  /\ attempt' = [attempt EXCEPT ![a].at = IF env = "cleartextApi" THEN "rejected" ELSE "served"]
  /\ UNCHANGED <<env, composed, waits, catalogue, command, bounded>>

(* assertTenantBoundary threw: the pool is ended, and then the rest is heard.  *)
Drain(a) ==
  /\ attempt[a].at = "draining"
  /\ attempt' = [attempt EXCEPT ![a].at = "rejected", ![a].pool = FALSE]
  /\ UNCHANGED <<env, composed, waits, catalogue, command, bounded>>

(* The answer reaches one that waits: nobody is left to name a rejected        *)
(* attempt after its last.                                                     *)
Forgotten(a, q) == \A p \in Requests \ {q} : waits[p] # a

MutantResume(q) ==
  LET a == waits[q]
  IN /\ a # NoAttempt /\ attempt[a].at \in {"rejected", "served"}
     /\ waits' = [waits EXCEPT ![q] = NoAttempt]
     /\ IF attempt[a].at = "served" THEN UNCHANGED <<composed, attempt>>
        ELSE /\ composed' = NoAttempt
             /\ attempt' = IF Forgotten(a, q) THEN [attempt EXCEPT ![a] = NewAttempt]
                           ELSE attempt
     /\ UNCHANGED <<env, catalogue, command, bounded>>

Resume(q) ==
  LET a == waits[q]
  IN /\ a # NoAttempt /\ attempt[a].at \in {"rejected", "served"}
     /\ waits' = [waits EXCEPT ![q] = NoAttempt]
     /\ IF attempt[a].at = "served" THEN UNCHANGED <<composed, attempt>>
        ELSE /\ composed' = IF composed = a THEN NoAttempt ELSE composed
             /\ attempt' = IF Forgotten(a, q) THEN [attempt EXCEPT ![a] = NewAttempt]
                           ELSE attempt
     /\ UNCHANGED <<env, catalogue, command, bounded>>

(* The process ends; its pools end with it, and another one starts.            *)
Restart ==
  /\ restarts < MaxRestarts
  /\ restarts' = restarts + 1
  /\ env' \in Environments
  /\ composed' = NoAttempt
  /\ attempt' = [a \in Attempts |-> NewAttempt]
  /\ waits' = [q \in Requests |-> NoAttempt]
  /\ UNCHANGED <<catalogue, command, drifts, faults, contentions>>

-----------------------------------------------------------------------------
Moves(o, at) == command' = [command EXCEPT ![o] = [@ EXCEPT !.at = at]]

StartBootstrap(o) ==
  /\ command[o].at = "idle"
  /\ Moves(o, "provision")
  /\ UNCHANGED <<catalogue, process, bounded>>

(* The transaction under the advisory lock, which serialises the bootstraps    *)
(* of one database.                                                            *)
Provision(o) ==
  /\ command[o].at = "provision"
  /\ catalogue' = Bootstrapped(catalogue)
  /\ command' = [command EXCEPT ![o] = IdleCommand]
  /\ UNCHANGED <<process, bounded>>

(* Another database's bootstrap wrote the cluster-wide role first: roll back   *)
(* and try again, a bounded number of times.                                   *)
ProvisionContended(o) ==
  /\ command[o].at = "provision"
  /\ contentions < MaxContentions
  /\ contentions' = contentions + 1
  /\ command' = IF command[o].attempt = ContendedAttempts
                THEN [command EXCEPT ![o] = IdleCommand]
                ELSE [command EXCEPT ![o].attempt = @ + 1]
  /\ UNCHANGED <<catalogue, process, drifts, faults, restarts>>

(* migrate() refuses without the role, and reads what was applied before the   *)
(* migrator's transaction begins.                                              *)
StartMigrate(o) ==
  /\ command[o].at = "idle" /\ catalogue.present
  /\ command' = [command EXCEPT ![o] = [@ EXCEPT !.at = "apply",
                                                 !.newest = Newest(catalogue)]]
  /\ UNCHANGED <<catalogue, process, bounded>>

ApplyMigrations(o) ==
  /\ command[o].at = "apply"
  /\ IF Applicable(catalogue, command[o].newest)
     THEN catalogue' = Migrated(catalogue, command[o].newest) /\ Moves(o, "grant")
     ELSE UNCHANGED catalogue /\ command' = [command EXCEPT ![o] = IdleCommand]
  /\ UNCHANGED <<process, bounded>>

ApplyGrants(o) ==
  /\ command[o].at = "grant"
  /\ catalogue' = Granted(catalogue)
  /\ command' = [command EXCEPT ![o] = IdleCommand]
  /\ UNCHANGED <<process, bounded>>

CommandDies(o) ==
  /\ command[o].at \in {"provision", "apply", "grant"}
  /\ faults < MaxFaults
  /\ faults' = faults + 1
  /\ command' = [command EXCEPT ![o] = IdleCommand]
  /\ UNCHANGED <<catalogue, process, drifts, contentions, restarts>>

(* Somebody with the rights to changes one thing by hand, or a newer build     *)
(* migrates.                                                                   *)
Drifted(c) ==
     {[c EXCEPT !.flags = @ \cup {flag}] : flag \in AddedFlags}
  \cup {[c EXCEPT !.members = @ \cup {role}] : role \in Roles}
  \cup {[c EXCEPT !.may = @ \cup {what}] : what \in {"CREATE", "TEMPORARY"}}
  \cup {[c EXCEPT !.owns = @ \cup {x}] : x \in c.tables \cup Neighbours}
  \cup {[c EXCEPT !.grants[x] = @ \cup {verb}] :
            x \in c.tables \cup Neighbours, verb \in {"SELECT", "UPDATE", "TRUNCATE"}}
  \cup {[c EXCEPT !.grants[t] = @ \ {verb}] : t \in c.tables, verb \in {"SELECT", "UPDATE"}}
  \cup {[c EXCEPT !.secured = @ \ {t}] : t \in Tenant}
  \cup {[c EXCEPT !.forced = @ \ {t}] : t \in Tenant}
  \cup {[c EXCEPT !.policies[t] = @ \cup {p}] : t \in c.tables, p \in AddedPolicies}
  \cup {[c EXCEPT !.policies[t] = {}] : t \in c.tables}
  \cup {[c EXCEPT !.edited = @ \cup {m}] : m \in c.ledger}
  \cup {[c EXCEPT !.ahead = TRUE], [c EXCEPT !.readsLedger = FALSE]}

Drift ==
  /\ drifts < MaxDrifts
  /\ drifts' = drifts + 1
  /\ catalogue.present
  /\ catalogue' \in Drifted(catalogue) \ {catalogue}
  /\ attempt' = [a \in Attempts |-> [attempt[a] EXCEPT !.undisturbed = (attempt[a].at = "none")]]
  /\ UNCHANGED <<env, composed, waits, command, faults, contentions, restarts>>

Compose(a) == Conclude(a) \/ Drain(a) \/ \E check \in Checks : Check(a, check)

Operate(o) == Provision(o) \/ ApplyMigrations(o) \/ ApplyGrants(o)

Next ==
  \/ \E q \in Requests : Ask(q) \/ Resume(q)
  \/ \E a \in Attempts : Compose(a) \/ CheckThrows(a)
  \/ \E o \in Operators :
         \/ StartBootstrap(o) \/ StartMigrate(o) \/ Operate(o)
         \/ ProvisionContended(o) \/ CommandDies(o)
  \/ Restart \/ Drift

Spec == Init /\ [][Next]_vars

(* Whoever asked resumes, a composition that began goes on, and a command ends *)
(* (the event loop and the database); requests keep coming, and an operator    *)
(* who sees a refused boot runs both commands again.                           *)
Fairness ==
  /\ \A q \in Requests : WF_vars(Ask(q)) /\ WF_vars(Resume(q))
  /\ \A a \in Attempts : WF_vars(Compose(a))
  /\ \A o \in Operators :
         WF_vars(Operate(o)) /\ SF_vars(StartBootstrap(o)) /\ SF_vars(StartMigrate(o))

FairSpec == Spec /\ Fairness

-----------------------------------------------------------------------------
(* A process that serves cannot reach another Owner's rows, unless somebody    *)
(* changed the database by hand after its checks began: the seven answers add   *)
(* up, although they were read at seven moments with bootstrap() and migrate()  *)
(* at work between them.                                                       *)
ServedIsBounded ==
  \A a \in Attempts :
      attempt[a].at = "served" /\ attempt[a].undisturbed => ~Exposes(catalogue)

(* A composition that came up is the one every later request gets; the          *)
(* rejection of an earlier one, however late it is heard, does not drop it.     *)
HealthyIsKept ==
  \A a \in Attempts : attempt[a].at = "served" => composed = a

(* What bootstrap() and migrate() do not repair: a relation the role owns or    *)
(* reaches, the tables and policies themselves, and the ledger.                 *)
Rerunnable(c) ==
  /\ c.owns = {}
  /\ \A x \in Neighbours : c.grants[x] \cap ReachingPrivileges = {}
  /\ c.tables # {} => /\ Tenant \subseteq c.secured
                      /\ \A t \in Tenant : c.policies[t] = {CanonicalPolicy}
                      /\ \A t \in NonTenant : c.policies[t] = {}
  /\ ForceRls \in c.ledger => Tenant \subseteq c.forced
  /\ c.edited = {} /\ ~c.ahead /\ ~c.shadowed

(* A refused boot is not for ever: where only what the two commands repair was  *)
(* wrong, running them again makes the same process serve.                      *)
RepairServes ==
  <>[](Rerunnable(catalogue) /\ env = "usable")
      => <>[](\E a \in Attempts : attempt[a].at = "served")

(* composition.ts counts a pool nothing will ever reach again as a leak.        *)
EveryPoolIsReachable ==
  \A a \in Attempts :
      attempt[a].pool => composed = a \/ attempt[a].at \in {"checking", "draining"}
=============================================================================
