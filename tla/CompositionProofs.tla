-------------------------- MODULE CompositionProofs --------------------------
(***************************************************************************)
(* What a served composition knows of its database, for every set of          *)
(* tables, neighbours, roles, requests, compositions and operators, and        *)
(* that it stays the one that serves.                                         *)
(*                                                                         *)
(* The seven checks of a boot are seven readings at seven moments.  Four of    *)
(* them answer for something that no statement of bootstrap() or migrate()     *)
(* takes back (Lasting), and those four already exclude every exposure.        *)
(***************************************************************************)
EXTENDS Composition, TLAPS

Lasting == {"runtime-role-is-not-privileged",
            "runtime-role-reaches-only-the-managed-tables",
            "tenant-tables-are-forced", "tenant-policies-are-exactly-canonical"}

LEMMA LastingPasses ==
  ASSUME NEW c
  PROVE  /\ Passes("runtime-role-is-not-privileged", c) <=> c.present /\ CheckRolePrivileges(c)
         /\ Passes("runtime-role-reaches-only-the-managed-tables", c)
              <=> c.present /\ CheckPrivilegeReach(c)
         /\ Passes("tenant-tables-are-forced", c) <=> c.present /\ CheckForced(c)
         /\ Passes("tenant-policies-are-exactly-canonical", c)
              <=> c.present /\ CheckPolicies(c)
  BY DEF Passes

(* No table of another Owner is reached, read or emptied where the role is     *)
(* plain, owns and holds nothing beside the managed tables, and each tenant     *)
(* table is forced under the canonical policy alone.                           *)
LEMMA FourChecksSuffice ==
  ASSUME NEW c, CheckRolePrivileges(c), CheckPrivilegeReach(c), CheckForced(c), CheckPolicies(c)
  PROVE  ~Exposes(c)
<1>1. c.flags \cap Elevation = {} /\ c.members = {}
  BY DEF CheckRolePrivileges
<1>2. ~(c.members \cap Elevated # {})
  BY <1>1
<1>3. ASSUME NEW t \in Tenant PROVE ~Holds(c, t, "TRUNCATE")
  BY DEF CheckPrivilegeReach, Managed, WithheldPrivileges
<1>4. ASSUME NEW t \in Tenant PROVE ~Unguarded(c, t)
  <2>1. t \in c.secured /\ t \notin c.owns
    BY DEF CheckForced, CheckPrivilegeReach
  <2>2. c.flags \cap {"SUPERUSER", "BYPASSRLS"} = {}
    BY <1>1 DEF Elevation
  <2>3. Applying(c, t) = {CanonicalPolicy}
    BY DEF CheckPolicies
  <2>4. ~PolicyLetsThrough(c, t)
    BY <2>3 DEF PolicyLetsThrough, CanonicalPolicy
  <2> QED
    BY <2>1, <2>2, <2>4 DEF Unguarded
<1>5. ASSUME NEW v \in Views \ c.owns, NEW verb \in ReachingPrivileges
      PROVE  ~Holds(c, v, verb)
  BY BoundaryAssumption DEF CheckPrivilegeReach
<1> QED
  BY <1>1, <1>2, <1>3, <1>4, <1>5 DEF Exposes

-----------------------------------------------------------------------------
(* The three statements.                                                    *)
LEMMA BootstrapLasts ==
  ASSUME NEW c \in Catalogues, NEW check \in Lasting, Passes(check, c)
  PROVE  Passes(check, Bootstrapped(c))
<1> DEFINE d == Bootstrapped(c)
<1>1. /\ d.present /\ d.flags = {} /\ d.members = {}
      /\ d.owns = c.owns /\ d.grants = c.grants /\ d.tables = c.tables
      /\ d.secured = c.secured /\ d.forced = c.forced /\ d.policies = c.policies
  BY DEF Bootstrapped, Catalogues
<1> HIDE DEF d
<1>2. CheckRolePrivileges(d)
  BY <1>1 DEF CheckRolePrivileges
<1>3. CheckPrivilegeReach(c) => CheckPrivilegeReach(d)
  BY <1>1 DEF CheckPrivilegeReach, Holds
<1>4. CheckForced(c) => CheckForced(d)
  BY <1>1 DEF CheckForced
<1>5. CheckPolicies(c) => CheckPolicies(d)
  <2>1. ASSUME NEW t PROVE Applying(d, t) = {p \in Applying(c, t) : p.to \in {"runtime", "public"}}
    BY <1>1 DEF Applying, Applies
  <2> QED
    BY <2>1 DEF CheckPolicies, CanonicalPolicy
<1> QED
  BY <1>1, <1>2, <1>3, <1>4, <1>5, LastingPasses DEF Lasting, d

LEMMA MigrationLasts ==
  ASSUME NEW c \in Catalogues, NEW newest, NEW check \in Lasting, Passes(check, c)
  PROVE  Passes(check, Migrated(c, newest))
<1> DEFINE d == Migrated(c, newest)
           created == CreateSchema \in Pending(newest)
<1>1. /\ d.present = c.present /\ d.flags = c.flags /\ d.members = c.members
      /\ d.owns = c.owns /\ d.grants = c.grants
      /\ d.tables = IF created THEN Managed ELSE c.tables
      /\ d.secured = IF created THEN Tenant ELSE c.secured
      /\ d.forced = IF ForceRls \in Pending(newest) THEN Tenant ELSE c.forced
      /\ d.policies = IF created
                      THEN [t \in Managed |-> IF t \in Tenant THEN {CanonicalPolicy} ELSE {}]
                      ELSE c.policies
  BY DEF Migrated, Catalogues
<1> HIDE DEF d, created
<1>2. CheckRolePrivileges(c) => CheckRolePrivileges(d)
  BY <1>1 DEF CheckRolePrivileges
<1>3. CheckPrivilegeReach(c) => CheckPrivilegeReach(d)
  BY <1>1 DEF CheckPrivilegeReach, Holds
<1>4. CheckForced(c) => CheckForced(d)
  BY <1>1 DEF CheckForced, Managed
<1>5. CheckPolicies(c) => CheckPolicies(d)
  <2>1. CASE ~created
    BY <1>1, <2>1 DEF CheckPolicies, Applying, Applies
  <2>2. CASE created
    <3>1. ASSUME NEW t \in Tenant PROVE Applying(d, t) = {CanonicalPolicy}
      BY <1>1, <2>2 DEF Applying, Applies, CanonicalPolicy, Managed
    <3>2. ASSUME NEW t \in NonTenant PROVE Applying(d, t) = {}
      BY <1>1, <2>2, BoundaryAssumption DEF Applying, Managed
    <3> QED
      BY <3>1, <3>2 DEF CheckPolicies
  <2> QED
    BY <2>1, <2>2
<1> QED
  BY <1>1, <1>2, <1>3, <1>4, <1>5, LastingPasses DEF Lasting, d

LEMMA GrantsLast ==
  ASSUME NEW c \in Catalogues, NEW check \in Lasting, Passes(check, c)
  PROVE  Passes(check, Granted(c))
<1> DEFINE d == Granted(c)
<1>1. /\ d.present = c.present /\ d.flags = c.flags /\ d.members = c.members
      /\ d.owns = c.owns /\ d.tables = c.tables
      /\ d.secured = c.secured /\ d.forced = c.forced /\ d.policies = c.policies
      /\ d.grants = [x \in Relations |->
             IF x \in Managed THEN (c.grants[x] \cup RuntimePrivileges) \ WithheldPrivileges
             ELSE c.grants[x]]
  BY DEF Granted, Catalogues
<1> HIDE DEF d
<1>2. CheckRolePrivileges(c) => CheckRolePrivileges(d)
  BY <1>1 DEF CheckRolePrivileges
<1>3. CheckPrivilegeReach(c) => CheckPrivilegeReach(d)
  <2> SUFFICES ASSUME CheckPrivilegeReach(c) PROVE CheckPrivilegeReach(d)
    OBVIOUS
  <2>1. ASSUME NEW t \in Managed, NEW verb \in WithheldPrivileges PROVE ~Holds(d, t, verb)
    BY <1>1 DEF CheckPrivilegeReach, Holds, Relations
  <2>2. ASSUME NEW x \in Neighbours \ d.owns, NEW verb \in ReachingPrivileges
        PROVE  ~Holds(d, x, verb)
    BY <1>1, BoundaryAssumption DEF CheckPrivilegeReach, Holds, Relations
  <2> QED
    BY <1>1, <2>1, <2>2 DEF CheckPrivilegeReach
<1>4. CheckForced(c) => CheckForced(d)
  BY <1>1 DEF CheckForced
<1>5. CheckPolicies(c) => CheckPolicies(d)
  BY <1>1 DEF CheckPolicies, Applying, Applies
<1> QED
  BY <1>1, <1>2, <1>3, <1>4, <1>5, LastingPasses DEF Lasting, d

(* Every statement, and every change by hand, leaves a catalogue.            *)
LEMMA CataloguesStay ==
  ASSUME NEW c \in Catalogues
  PROVE  /\ Bootstrapped(c) \in Catalogues /\ Granted(c) \in Catalogues
         /\ \A newest : Migrated(c, newest) \in Catalogues
         /\ Drifted(c) \subseteq Catalogues
<1>1. Bootstrapped(c) \in Catalogues
  BY DEF Bootstrapped, Catalogues
<1>2. Granted(c) \in Catalogues
  <2>1. [x \in Relations |->
           IF x \in Managed THEN (c.grants[x] \cup RuntimePrivileges) \ WithheldPrivileges
           ELSE c.grants[x]] \in [Relations -> SUBSET Privileges]
    BY DEF Catalogues, Privileges
  <2> QED
    BY <2>1 DEF Granted, Catalogues
<1>3. ASSUME NEW newest PROVE Migrated(c, newest) \in Catalogues
  <2>1. CanonicalPolicy \in Policies
    BY DEF CanonicalPolicy, Policies
  <2>2. [t \in Managed |-> IF t \in Tenant THEN {CanonicalPolicy} ELSE {}]
          \in [Managed -> SUBSET Policies]
    BY <2>1
  <2>3. Pending(newest) \subseteq Committed
    BY DEF Pending
  <2> QED
    BY <2>2, <2>3 DEF Migrated, Catalogues
<1>4. ASSUME NEW d \in Drifted(c) PROVE d \in Catalogues
  <2>1. CASE \E flag \in AddedFlags : d = [c EXCEPT !.flags = @ \cup {flag}]
    BY <2>1, CompositionAssumption DEF Catalogues
  <2>2. CASE \E role \in Roles : d = [c EXCEPT !.members = @ \cup {role}]
    BY <2>2 DEF Catalogues
  <2>3. CASE \E what \in {"CREATE", "TEMPORARY"} : d = [c EXCEPT !.may = @ \cup {what}]
    BY <2>3 DEF Catalogues
  <2>4. CASE \E x \in c.tables \cup Neighbours : d = [c EXCEPT !.owns = @ \cup {x}]
    BY <2>4 DEF Catalogues, Relations
  <2>5. CASE \E x \in c.tables \cup Neighbours, verb \in {"SELECT", "UPDATE", "TRUNCATE"} :
               d = [c EXCEPT !.grants[x] = @ \cup {verb}]
    <3>1. PICK x \in c.tables \cup Neighbours, verb \in {"SELECT", "UPDATE", "TRUNCATE"} :
            d = [c EXCEPT !.grants[x] = @ \cup {verb}]
      BY <2>5
    <3>2. verb \in Privileges
      BY DEF Privileges, RuntimePrivileges, WithheldPrivileges
    <3>3. [c.grants EXCEPT ![x] = @ \cup {verb}] \in [Relations -> SUBSET Privileges]
      BY <3>2 DEF Catalogues
    <3>4. d = [c EXCEPT !.grants = [c.grants EXCEPT ![x] = @ \cup {verb}]]
      BY <3>1
    <3> QED
      BY <3>3, <3>4 DEF Catalogues
  <2>6. CASE \E t \in c.tables, verb \in {"SELECT", "UPDATE"} :
               d = [c EXCEPT !.grants[t] = @ \ {verb}]
    <3>1. PICK t \in c.tables, verb \in {"SELECT", "UPDATE"} :
            d = [c EXCEPT !.grants[t] = @ \ {verb}]
      BY <2>6
    <3>2. [c.grants EXCEPT ![t] = @ \ {verb}] \in [Relations -> SUBSET Privileges]
      BY DEF Catalogues
    <3>3. d = [c EXCEPT !.grants = [c.grants EXCEPT ![t] = @ \ {verb}]]
      BY <3>1
    <3> QED
      BY <3>2, <3>3 DEF Catalogues
  <2>7. CASE \/ \E t \in Tenant : d = [c EXCEPT !.secured = @ \ {t}]
             \/ \E t \in Tenant : d = [c EXCEPT !.forced = @ \ {t}]
    BY <2>7 DEF Catalogues
  <2>8. CASE \E t \in c.tables, p \in AddedPolicies : d = [c EXCEPT !.policies[t] = @ \cup {p}]
    BY <2>8, CompositionAssumption DEF Catalogues
  <2>9. CASE \E t \in c.tables : d = [c EXCEPT !.policies[t] = {}]
    BY <2>9 DEF Catalogues
  <2>10. CASE \E m \in c.ledger : d = [c EXCEPT !.edited = @ \cup {m}]
    BY <2>10 DEF Catalogues
  <2>11. CASE d = [c EXCEPT !.ahead = TRUE] \/ d = [c EXCEPT !.readsLedger = FALSE]
    BY <2>11 DEF Catalogues
  <2> HIDE DEF Catalogues
  <2> QED
    BY <2>1, <2>2, <2>3, <2>4, <2>5, <2>6, <2>7, <2>8, <2>9, <2>10, <2>11 DEF Drifted
<1> QED
  BY <1>1, <1>2, <1>3, <1>4

LEMMA NewestIsCommitted == ASSUME NEW c \in Catalogues PROVE Newest(c) \in 0..2
<1>1. c.ledger \subseteq {1, 2}
  BY DEF Catalogues, Committed, CreateSchema, ForceRls
<1>2. c.ledger # {} => \E m \in c.ledger : \A n \in c.ledger : n <= m
  BY <1>1
<1> QED
  BY <1>1, <1>2 DEF Newest

-----------------------------------------------------------------------------
(* The invariant.  An attempt nobody disturbed has measured what it no longer   *)
(* waits for, and a memo names the one attempt that is not over.              *)
Measured ==
  \A a \in Attempts :
      attempt[a].at \in {"checking", "served"} /\ attempt[a].undisturbed =>
          \A check \in Lasting \ attempt[a].pending : Passes(check, catalogue)

Remembered ==
  \A a \in Attempts : attempt[a].at \in {"checking", "draining", "served"} => composed = a

AskedFirst == \A a \in Attempts : attempt[a].at = "served" => attempt[a].pending = {}

CompositionInv == CompositionTypeOK /\ AskedFirst /\ Measured /\ Remembered

LEMMA StartsInv == Init => CompositionInv
<1> SUFFICES ASSUME Init PROVE CompositionInv
  OBVIOUS
<1>1. Empty \in Catalogues
  BY DEF Empty, Catalogues
<1>2. NewAttempt \in [at : {"none", "checking", "draining", "rejected", "served"},
                      pending : SUBSET Checks, pool : BOOLEAN, undisturbed : BOOLEAN]
  BY DEF NewAttempt
<1>3. IdleCommand \in [at : {"idle", "provision", "apply", "grant"},
                       attempt : 1..ContendedAttempts, newest : 0..2]
  BY CompositionAssumption DEF IdleCommand
<1>4. /\ drifts \in 0..MaxDrifts /\ faults \in 0..MaxFaults
      /\ contentions \in 0..MaxContentions /\ restarts \in 0..MaxRestarts
  BY CompositionAssumption DEF Init
<1>5. CompositionTypeOK
  <2>1. catalogue \in Catalogues
    BY <1>1 DEF Init
  <2> QED
    BY <1>2, <1>3, <1>4, <2>1 DEF Init, CompositionTypeOK
<1>6. AskedFirst /\ Measured /\ Remembered
  BY DEF Init, NewAttempt, AskedFirst, Measured, Remembered
<1> QED
  BY <1>5, <1>6 DEF CompositionInv

-----------------------------------------------------------------------------
(* The process.  A step of it leaves the database alone.                     *)
LEMMA AttemptTypes ==
  ASSUME CompositionTypeOK, NEW a \in Attempts
  PROVE  attempt[a] \in [at : {"none", "checking", "draining", "rejected", "served"},
                         pending : SUBSET Checks, pool : BOOLEAN, undisturbed : BOOLEAN]
  BY DEF CompositionTypeOK

LEMMA AskKeepsInv ==
  ASSUME CompositionInv, NEW q \in Requests, Ask(q)
  PROVE  CompositionInv'
<1> USE DEF CompositionInv
<1>1. CASE composed # NoAttempt /\ waits' = [waits EXCEPT ![q] = composed]
           /\ UNCHANGED <<composed, attempt>>
  <2>1. UNCHANGED <<env, composed, attempt, catalogue, command, bounded>>
    BY <1>1 DEF Ask
  <2>2. CompositionTypeOK'
    BY <1>1, <2>1 DEF CompositionTypeOK, bounded
  <2> QED
    BY <2>1, <2>2 DEF AskedFirst, Measured, Remembered
<1>2. ASSUME NEW a \in Attempts, composed = NoAttempt, attempt[a].at = "none", Begins(a),
             composed' = a, waits' = [waits EXCEPT ![q] = a]
      PROVE  CompositionInv'
  <2> DEFINE begun == IF env = "unusable" THEN [NewAttempt EXCEPT !.at = "rejected"]
                      ELSE [NewAttempt EXCEPT !.at = "checking", !.pending = Checks,
                                              !.pool = TRUE]
  <2>1. attempt' = [attempt EXCEPT ![a] = begun]
    BY <1>2 DEF Begins
  <2>2. /\ begun \in [at : {"none", "checking", "draining", "rejected", "served"},
                      pending : SUBSET Checks, pool : BOOLEAN, undisturbed : BOOLEAN]
        /\ begun.at # "served" /\ (begun.at = "checking" => begun.pending = Checks)
    BY DEF NewAttempt
  <2> HIDE DEF begun
  <2>3. UNCHANGED <<env, catalogue, command, bounded>>
    BY DEF Ask
  <2>4. CompositionTypeOK'
    BY <1>2, <2>1, <2>2, <2>3 DEF CompositionTypeOK, bounded
  <2>5. /\ attempt'[a] = begun
        /\ \A b \in Attempts \ {a} : attempt'[b] = attempt[b]
    BY <2>1 DEF CompositionTypeOK
  <2>6. Lasting \ Checks = {}
    BY DEF Lasting, Checks
  <2>7. AskedFirst' /\ Measured'
    BY <2>2, <2>3, <2>5, <2>6 DEF AskedFirst, Measured
  <2>8. Remembered'
    BY <1>2, <2>5, CompositionAssumption DEF Remembered
  <2> QED
    BY <2>4, <2>7, <2>8
<1> QED
  BY <1>1, <1>2 DEF Ask

LEMMA CheckKeepsInv ==
  ASSUME CompositionInv, NEW a \in Attempts, NEW check \in Checks, Check(a, check)
  PROVE  CompositionInv'
<1> USE DEF CompositionInv
<1> DEFINE after == IF Passes(check, catalogue)
                    THEN [attempt[a] EXCEPT !.pending = @ \ {check}]
                    ELSE [attempt[a] EXCEPT !.at = "draining", !.pending = {}]
<1>1. attempt' = [attempt EXCEPT ![a] = after]
  <2>1. CASE Passes(check, catalogue)
    <3>1. attempt' = [attempt EXCEPT ![a] = [attempt[a] EXCEPT !.pending = @ \ {check}]]
      BY <2>1 DEF Check, CompositionTypeOK
    <3> QED
      BY <2>1, <3>1
  <2>2. CASE ~Passes(check, catalogue)
    <3>1. attempt' = [attempt EXCEPT ![a] = [attempt[a] EXCEPT !.at = "draining",
                                                               !.pending = {}]]
      BY <2>2 DEF Check, CompositionTypeOK
    <3> QED
      BY <2>2, <3>1
  <2> QED
    BY <2>1, <2>2
<1>2. /\ attempt[a].at = "checking"
      /\ UNCHANGED <<env, composed, waits, catalogue, command, bounded>>
  BY DEF Check
<1>3. /\ after \in [at : {"none", "checking", "draining", "rejected", "served"},
                    pending : SUBSET Checks, pool : BOOLEAN, undisturbed : BOOLEAN]
      /\ after.at \in {"checking", "draining"}
      /\ after.at = "checking" => /\ Passes(check, catalogue)
                                  /\ after.pending = attempt[a].pending \ {check}
                                  /\ after.undisturbed = attempt[a].undisturbed
  BY <1>2, AttemptTypes
<1> HIDE DEF after
<1>4. CompositionTypeOK'
  BY <1>1, <1>2, <1>3 DEF CompositionTypeOK, bounded
<1>5. /\ attempt'[a] = after
      /\ \A b \in Attempts \ {a} : attempt'[b] = attempt[b]
  BY <1>1 DEF CompositionTypeOK
<1>6. AskedFirst' /\ Remembered'
  BY <1>2, <1>3, <1>5 DEF AskedFirst, Remembered
<1>7. Measured'
  BY <1>2, <1>3, <1>5 DEF Measured
<1> QED
  BY <1>4, <1>6, <1>7

(* An attempt that moves on without measuring anything.                      *)
LEMMA MovesKeepInv ==
  ASSUME CompositionInv, NEW a \in Attempts, NEW after,
         after \in [at : {"none", "checking", "draining", "rejected", "served"},
                    pending : SUBSET Checks, pool : BOOLEAN, undisturbed : BOOLEAN],
         attempt' = [attempt EXCEPT ![a] = after],
         after.at # "checking",
         after.at = "draining" => attempt[a].at = "checking",
         after.at = "served" => /\ attempt[a].at = "checking" /\ attempt[a].pending = {}
                                /\ after.pending = {}
                                /\ after.undisturbed = attempt[a].undisturbed,
         UNCHANGED <<composed, catalogue>>
  PROVE  AskedFirst' /\ Measured' /\ Remembered'
<1>1. /\ attempt'[a] = after
      /\ \A b \in Attempts \ {a} : attempt'[b] = attempt[b]
  BY DEF CompositionInv, CompositionTypeOK
<1>2. AskedFirst' /\ Remembered'
  BY <1>1 DEF CompositionInv, AskedFirst, Remembered
<1>3. Measured'
  BY <1>1 DEF CompositionInv, Measured
<1> QED
  BY <1>2, <1>3

LEMMA AttemptMovesKeepInv ==
  ASSUME CompositionInv, NEW a \in Attempts, Conclude(a) \/ Drain(a) \/ CheckThrows(a)
  PROVE  CompositionInv'
<1> USE DEF CompositionInv
<1>1. attempt[a] \in [at : {"none", "checking", "draining", "rejected", "served"},
                      pending : SUBSET Checks, pool : BOOLEAN, undisturbed : BOOLEAN]
  BY AttemptTypes
<1>2. PICK after \in [at : {"none", "checking", "draining", "rejected", "served"},
                      pending : SUBSET Checks, pool : BOOLEAN, undisturbed : BOOLEAN] :
        /\ attempt' = [attempt EXCEPT ![a] = after]
        /\ after.at # "checking"
        /\ after.at = "draining" => attempt[a].at = "checking"
        /\ after.at = "served" => /\ attempt[a].at = "checking" /\ attempt[a].pending = {}
                                  /\ after.pending = {}
                                  /\ after.undisturbed = attempt[a].undisturbed
  <2>1. CASE Conclude(a)
    <3> DEFINE next == [attempt[a] EXCEPT !.at = IF env = "cleartextApi" THEN "rejected"
                                                 ELSE "served"]
    <3>1. attempt' = [attempt EXCEPT ![a] = next]
      BY <2>1 DEF Conclude, CompositionTypeOK
    <3>2. attempt[a].at = "checking" /\ attempt[a].pending = {}
      BY <2>1 DEF Conclude
    <3>3. /\ next \in [at : {"none", "checking", "draining", "rejected", "served"},
                       pending : SUBSET Checks, pool : BOOLEAN, undisturbed : BOOLEAN]
          /\ next.at \in {"rejected", "served"} /\ next.pending = {}
          /\ next.undisturbed = attempt[a].undisturbed
      BY <1>1, <3>2
    <3> QED
      BY <3>1, <3>2, <3>3
  <2>2. CASE Drain(a)
    <3> DEFINE next == [attempt[a] EXCEPT !.at = "rejected", !.pool = FALSE]
    <3>1. attempt' = [attempt EXCEPT ![a] = next]
      BY <2>2 DEF Drain, CompositionTypeOK
    <3>2. /\ next \in [at : {"none", "checking", "draining", "rejected", "served"},
                       pending : SUBSET Checks, pool : BOOLEAN, undisturbed : BOOLEAN]
          /\ next.at = "rejected"
      BY <1>1
    <3> QED
      BY <3>1, <3>2
  <2>3. CASE CheckThrows(a)
    <3> DEFINE next == [attempt[a] EXCEPT !.at = "draining", !.pending = {}]
    <3>1. attempt' = [attempt EXCEPT ![a] = next]
      BY <2>3 DEF CheckThrows, CompositionTypeOK
    <3>2. /\ next \in [at : {"none", "checking", "draining", "rejected", "served"},
                       pending : SUBSET Checks, pool : BOOLEAN, undisturbed : BOOLEAN]
          /\ next.at = "draining"
      BY <1>1
    <3>3. attempt[a].at = "checking"
      BY <2>3 DEF CheckThrows
    <3> QED
      BY <3>1, <3>2, <3>3
  <2> QED
    BY <2>1, <2>2, <2>3
<1>3. /\ UNCHANGED <<env, composed, waits, catalogue, command, drifts, contentions, restarts>>
      /\ faults' \in 0..MaxFaults
  BY DEF Conclude, Drain, CheckThrows, bounded, CompositionTypeOK
<1>4. CompositionTypeOK'
  BY <1>2, <1>3 DEF CompositionTypeOK
<1> QED
  BY <1>2, <1>3, <1>4, MovesKeepInv

LEMMA ResumeKeepsInv ==
  ASSUME CompositionInv, NEW q \in Requests, Resume(q)
  PROVE  CompositionInv'
<1> USE DEF CompositionInv
<1> DEFINE a == waits[q]
<1>1. /\ a \in Attempts /\ attempt[a].at \in {"rejected", "served"}
      /\ waits' = [waits EXCEPT ![q] = NoAttempt]
      /\ UNCHANGED <<env, catalogue, command, bounded>>
  BY DEF Resume, CompositionTypeOK
<1>2. NewAttempt \in [at : {"none", "checking", "draining", "rejected", "served"},
                      pending : SUBSET Checks, pool : BOOLEAN, undisturbed : BOOLEAN]
  BY DEF NewAttempt
<1>3. CASE UNCHANGED <<composed, attempt>>
  <2>1. CompositionTypeOK'
    BY <1>1, <1>3 DEF CompositionTypeOK, bounded
  <2> QED
    BY <1>1, <1>3, <2>1 DEF AskedFirst, Measured, Remembered
<1>4. CASE /\ attempt[a].at = "rejected"
           /\ composed' = IF composed = a THEN NoAttempt ELSE composed
           /\ attempt' = attempt \/ attempt' = [attempt EXCEPT ![a] = NewAttempt]
  <2> HIDE DEF a
  <2>1. CompositionTypeOK'
    BY <1>1, <1>2, <1>4 DEF CompositionTypeOK, bounded
  <2>2. /\ \A b \in Attempts \ {a} : attempt'[b] = attempt[b]
        /\ attempt'[a].at \in {"none", "rejected"}
    BY <1>1, <1>4 DEF CompositionTypeOK, NewAttempt
  <2>3. AskedFirst' /\ Measured'
    BY <1>1, <2>2 DEF AskedFirst, Measured
  <2>4. Remembered'
    BY <1>4, <2>2 DEF Remembered
  <2> QED
    BY <2>1, <2>3, <2>4
<1> QED
  <2>1. CASE attempt[a].at = "served"
    BY <1>3, <2>1 DEF Resume
  <2>2. CASE attempt[a].at = "rejected"
    BY <1>4, <2>2 DEF Resume
  <2> QED
    BY <1>1, <2>1, <2>2

LEMMA RestartKeepsInv == ASSUME CompositionInv, Restart PROVE CompositionInv'
<1>1. NewAttempt \in [at : {"none", "checking", "draining", "rejected", "served"},
                      pending : SUBSET Checks, pool : BOOLEAN, undisturbed : BOOLEAN]
  BY DEF NewAttempt
<1>2. restarts' \in 0..MaxRestarts
  BY CompositionAssumption DEF Restart, CompositionInv, CompositionTypeOK
<1>3. CompositionTypeOK'
  BY <1>1, <1>2 DEF Restart, CompositionInv, CompositionTypeOK
<1>4. \A a \in Attempts : attempt'[a].at = "none"
  BY DEF Restart, NewAttempt
<1> QED
  BY <1>3, <1>4 DEF CompositionInv, AskedFirst, Measured, Remembered

-----------------------------------------------------------------------------
(* The commands, and the hand.                                              *)

(* A step that leaves the process alone and every answer valid.              *)
LEMMA AnswersStay ==
  ASSUME CompositionInv, UNCHANGED <<composed, attempt>>,
         \A check \in Lasting : Passes(check, catalogue) => Passes(check, catalogue')
  PROVE  AskedFirst' /\ Measured' /\ Remembered'
  BY DEF CompositionInv, AskedFirst, Measured, Remembered

LEMMA CommandKeepsInv ==
  ASSUME CompositionInv, NEW o \in Operators,
         \/ StartBootstrap(o) \/ StartMigrate(o) \/ Operate(o)
         \/ ProvisionContended(o) \/ CommandDies(o)
  PROVE  CompositionInv'
<1> DEFINE Commands == [at : {"idle", "provision", "apply", "grant"},
                        attempt : 1..ContendedAttempts, newest : 0..2]
<1> USE CompositionAssumption DEF CompositionInv
<1>1. /\ catalogue \in Catalogues /\ command \in [Operators -> Commands]
      /\ command[o] \in Commands
  BY DEF CompositionTypeOK
<1>2. catalogue' \in Catalogues
  BY <1>1, CataloguesStay
     DEF StartBootstrap, StartMigrate, Operate, Provision, ApplyMigrations, ApplyGrants,
         ProvisionContended, CommandDies
<1>3. \A check \in Lasting : Passes(check, catalogue) => Passes(check, catalogue')
  BY <1>1, BootstrapLasts, MigrationLasts, GrantsLast
     DEF StartBootstrap, StartMigrate, Operate, Provision, ApplyMigrations, ApplyGrants,
         ProvisionContended, CommandDies
<1>4. PICK next \in Commands : command' = [command EXCEPT ![o] = next]
  <2>1. IdleCommand \in Commands
    BY DEF IdleCommand
  <2>2. \A at \in {"idle", "provision", "apply", "grant"} :
          Moves(o, at) => /\ [command[o] EXCEPT !.at = at] \in Commands
                          /\ command' = [command EXCEPT ![o] = [command[o] EXCEPT !.at = at]]
    BY <1>1 DEF Moves
  <2>3. CASE StartBootstrap(o)
    BY <2>2, <2>3 DEF StartBootstrap
  <2>4. CASE StartMigrate(o)
    <3>1. [command[o] EXCEPT !.at = "apply", !.newest = Newest(catalogue)] \in Commands
      BY <1>1, NewestIsCommitted
    <3> QED
      BY <2>4, <3>1 DEF StartMigrate
  <2>5. CASE Provision(o)
    BY <2>1, <2>5 DEF Provision
  <2>6. CASE ApplyMigrations(o)
    BY <2>1, <2>2, <2>6 DEF ApplyMigrations
  <2>7. CASE ApplyGrants(o)
    BY <2>1, <2>7 DEF ApplyGrants
  <2>8. CASE ProvisionContended(o)
    <3> DEFINE retry == [command[o] EXCEPT !.attempt = @ + 1]
    <3>1. command[o].attempt # ContendedAttempts => retry \in Commands
      BY <1>1
    <3>2. CASE command[o].attempt = ContendedAttempts
      BY <2>1, <2>8, <3>2 DEF ProvisionContended
    <3>3. CASE command[o].attempt # ContendedAttempts
      <4>1. command' = [command EXCEPT ![o] = retry]
        BY <1>1, <2>8, <3>3 DEF ProvisionContended
      <4> QED
        BY <3>1, <3>3, <4>1
    <3> QED
      BY <3>2, <3>3
  <2>9. CASE CommandDies(o)
    BY <2>1, <2>9 DEF CommandDies
  <2> QED
    BY <2>3, <2>4, <2>5, <2>6, <2>7, <2>8, <2>9 DEF Operate
<1>5. /\ UNCHANGED <<env, composed, attempt, waits, drifts, restarts>>
      /\ faults' \in 0..MaxFaults /\ contentions' \in 0..MaxContentions
  BY DEF StartBootstrap, StartMigrate, Operate, Provision, ApplyMigrations, ApplyGrants,
         ProvisionContended, CommandDies, process, bounded, CompositionTypeOK
<1>6. CompositionTypeOK'
  <2>1. command' \in [Operators -> Commands]
    BY <1>1, <1>4
  <2> QED
    BY <1>2, <1>5, <2>1 DEF CompositionTypeOK
<1> QED
  BY <1>3, <1>5, <1>6, AnswersStay

LEMMA DriftKeepsInv == ASSUME CompositionInv, Drift PROVE CompositionInv'
<1> USE CompositionAssumption DEF CompositionInv
<1>1. catalogue' \in Catalogues
  BY CataloguesStay DEF Drift, CompositionTypeOK
<1>2. \A a \in Attempts :
        /\ attempt'[a] \in [at : {"none", "checking", "draining", "rejected", "served"},
                            pending : SUBSET Checks, pool : BOOLEAN, undisturbed : BOOLEAN]
        /\ attempt'[a].at = attempt[a].at /\ attempt'[a].pending = attempt[a].pending
        /\ attempt'[a].undisturbed = (attempt[a].at = "none")
  BY AttemptTypes DEF Drift
<1>3. /\ UNCHANGED <<env, composed, waits, command, faults, contentions, restarts>>
      /\ drifts' \in 0..MaxDrifts
      /\ attempt' = [a \in Attempts |-> attempt'[a]]
  BY DEF Drift, CompositionTypeOK
<1>4. CompositionTypeOK'
  BY <1>1, <1>2, <1>3 DEF CompositionTypeOK
<1>5. AskedFirst' /\ Measured' /\ Remembered'
  BY <1>2, <1>3 DEF AskedFirst, Measured, Remembered
<1> QED
  BY <1>4, <1>5

LEMMA NextKeepsInv == CompositionInv /\ [Next]_vars => CompositionInv'
<1> SUFFICES ASSUME CompositionInv, [Next]_vars PROVE CompositionInv'
  OBVIOUS
<1>1. CASE UNCHANGED vars
  BY <1>1 DEF vars, process, bounded, CompositionInv, CompositionTypeOK, AskedFirst, Measured,
              Remembered
<1> QED
  BY <1>1, AskKeepsInv, ResumeKeepsInv, CheckKeepsInv, AttemptMovesKeepInv, RestartKeepsInv,
     CommandKeepsInv, DriftKeepsInv
     DEF Next, Compose

-----------------------------------------------------------------------------
(* Every catalogue, command, composition and wait keeps its type.            *)
THEOREM CompositionIsSound == Spec => []CompositionInv
  BY StartsInv, NextKeepsInv, PTL DEF Spec

(* A process that serves cannot reach another Owner's rows unless somebody      *)
(* changed the database by hand after its checks began (assertTenantBoundary),  *)
(* although bootstrap() and migrate() went on between them and after.          *)
THEOREM ServedStaysBounded == Spec => []ServedIsBounded
<1>1. CompositionInv => ServedIsBounded
  <2> SUFFICES ASSUME CompositionInv, NEW a \in Attempts,
                      attempt[a].at = "served", attempt[a].undisturbed
               PROVE  ~Exposes(catalogue)
    BY DEF ServedIsBounded
  <2>1. \A check \in Lasting : Passes(check, catalogue)
    BY DEF CompositionInv, AskedFirst, Measured
  <2>2. /\ CheckRolePrivileges(catalogue) /\ CheckPrivilegeReach(catalogue)
        /\ CheckForced(catalogue) /\ CheckPolicies(catalogue)
    BY <2>1, LastingPasses DEF Lasting
  <2> QED
    BY <2>2, FourChecksSuffice
<1> QED
  BY <1>1, CompositionIsSound, PTL

(* A composition that came up is the one every later request gets, whatever     *)
(* rejection of an earlier one is heard after it (createComposition's memo).    *)
THEOREM HealthyStaysKept == Spec => []HealthyIsKept
<1>1. CompositionInv => HealthyIsKept
  BY DEF CompositionInv, Remembered, HealthyIsKept
<1> QED
  BY <1>1, CompositionIsSound, PTL
=============================================================================
