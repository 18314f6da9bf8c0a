------------------------------ MODULE Boundary ------------------------------
(***************************************************************************)
(* The tenant boundary as a Postgres catalogue holds it, what reaches past    *)
(* it, the seven boot checks that measure it through the runtime connection   *)
(* (db/checks.ts), and the statements of bootstrap() and migrate() that put    *)
(* it there.  A catalogue is a record; every operator here is a pure           *)
(* function of one.                                                           *)
(*                                                                            *)
(* The committed migrations are two: the one that creates the tables with     *)
(* their policies, and the one that FORCEs the tenant tables.                 *)
(***************************************************************************)
EXTENDS Naturals, FiniteSets

CONSTANTS
  Tenant, NonTenant,  \* TENANT_TABLES and NON_TENANT_TABLES
  Neighbours,         \* other relations in `public`
  Views,              \* those of them that run as their owner, over a tenant table
  Roles,              \* roles the runtime role could be made a member of
  Elevated,           \* those of them that reach every Owner's rows
  Populated           \* the tenant tables that hold a row

Managed   == Tenant \cup NonTenant
Relations == Managed \cup Neighbours

ASSUME BoundaryAssumption ==
  /\ Tenant \cap NonTenant = {} /\ Managed \cap Neighbours = {}
  /\ Views \subseteq Neighbours /\ Elevated \subseteq Roles
  /\ Populated \subseteq Tenant
  /\ {"runtime", "public"} \cap Roles = {}

Elevation == {"SUPERUSER", "BYPASSRLS", "REPLICATION"}

(* What ROLE_FLAGS spells out in the negative.                                *)
RoleFlags == Elevation \cup {"CREATEDB", "CREATEROLE", "INHERIT"}

RuntimePrivileges  == {"SELECT", "INSERT", "UPDATE", "DELETE"}
WithheldPrivileges == {"TRUNCATE", "REFERENCES", "TRIGGER"}
ReachingPrivileges == {"SELECT", "INSERT", "UPDATE", "DELETE"}
Privileges         == RuntimePrivileges \cup WithheldPrivileges

(* "unread" is a predicate with a connective, which comparablePolicy refuses  *)
(* to compare; what it lets through is anybody's guess.                       *)
Policies == [permissive : BOOLEAN, to : {"runtime", "public"} \cup Roles,
             lets : {"own", "all", "unread"}]

CanonicalPolicy == [permissive |-> TRUE, to |-> "runtime", lets |-> "own"]

CreateSchema == 1
ForceRls     == 2
Committed    == {CreateSchema, ForceRls}

Catalogues ==
  [present : BOOLEAN,            \* the runtime role exists and may connect
   flags : SUBSET RoleFlags, members : SUBSET Roles,
   may : SUBSET {"CREATE", "TEMPORARY"},
   owns : SUBSET Relations,      \* what the runtime role owns in `public`
   grants : [Relations -> SUBSET Privileges],
   tables : SUBSET Managed, secured : SUBSET Tenant, forced : SUBSET Tenant,
   policies : [Managed -> SUBSET Policies],
   readsLedger : BOOLEAN,
   ledger : SUBSET Committed,    \* the committed migrations that were applied
   edited : SUBSET Committed,    \* applied from another text than the committed one
   ahead : BOOLEAN,              \* the ledger holds a migration of a newer build
   shadowed : BOOLEAN]           \* the ledger holds one of its rows twice

(* A new database, on a cluster that never heard of Reprove.                  *)
Empty ==
  [present |-> FALSE, flags |-> {}, members |-> {}, may |-> {"TEMPORARY"}, owns |-> {},
   grants |-> [x \in Relations |-> {}], tables |-> {}, secured |-> {}, forced |-> {},
   policies |-> [t \in Managed |-> {}], readsLedger |-> FALSE, ledger |-> {},
   edited |-> {}, ahead |-> FALSE, shadowed |-> FALSE]

-----------------------------------------------------------------------------
(* What Postgres does with a catalogue.  A policy applies to the roles it     *)
(* names and to their members.  Permissive policies are joined by OR,          *)
(* restrictive ones narrow what is left.  RLS is not consulted for a table     *)
(* it is not enabled on, for an owner of an unforced table, by an elevated     *)
(* role or by TRUNCATE; a view is consulted as its owner.                      *)
Applies(c, p) == p.to \in {"runtime", "public"} \cup c.members

Applying(c, t) == {p \in c.policies[t] : Applies(c, p)}

PolicyLetsThrough(c, t) ==
  /\ \E p \in Applying(c, t) : p.permissive /\ p.lets # "own"
  /\ \A p \in Applying(c, t) : ~p.permissive => p.lets # "own"

Unguarded(c, t) ==
  \/ t \notin c.secured
  \/ t \in c.owns /\ t \notin c.forced
  \/ c.flags \cap {"SUPERUSER", "BYPASSRLS"} # {}
  \/ PolicyLetsThrough(c, t)

Holds(c, x, privilege) ==
  privilege \in c.grants[x] \/ x \in c.owns \/ "SUPERUSER" \in c.flags

(* The runtime connection can come by a row of an Owner it has no context of, *)
(* or remove one.                                                             *)
Exposes(c) ==
  \/ c.flags \cap Elevation # {}
  \/ c.members \cap Elevated # {}
  \/ \E t \in Tenant :
         \/ Holds(c, t, "TRUNCATE")
         \/ (\E verb \in RuntimePrivileges : Holds(c, t, verb)) /\ Unguarded(c, t)
  \/ \E v \in Views \ c.owns : \E verb \in ReachingPrivileges : Holds(c, v, verb)

-----------------------------------------------------------------------------
(* The seven checks.  One that throws has failed.                             *)
CheckRolePrivileges(c) == c.flags \cap Elevation = {} /\ c.members = {}

CheckPrivilegeReach(c) ==
  /\ c.owns = {}
  /\ \A t \in Managed : \A verb \in WithheldPrivileges : ~Holds(c, t, verb)
  /\ \A x \in Neighbours \ c.owns : \A verb \in ReachingPrivileges : ~Holds(c, x, verb)

CheckClassification(c) == Managed \subseteq c.tables

CheckForced(c) == Tenant \subseteq c.tables \cap c.secured \cap c.forced

(* Set equality: every policy that applies can be compared, and is the one    *)
(* the schema declares.                                                       *)
MutantCheckPolicies(c) ==
  /\ \A t \in Tenant : CanonicalPolicy \in Applying(c, t)
  /\ \A t \in NonTenant : Applying(c, t) = {}

CheckPolicies(c) ==
  /\ \A t \in Tenant : Applying(c, t) = {CanonicalPolicy}
  /\ \A t \in NonTenant : Applying(c, t) = {}

CheckMigrations(c) ==
  /\ c.readsLedger
  /\ c.ledger = Committed /\ c.edited = {}
  /\ ~c.ahead /\ ~c.shadowed

CheckNoContextReadsEmpty(c) ==
  \A t \in Tenant :
      /\ t \in c.tables /\ Holds(c, t, "SELECT")
      /\ ~(t \in Populated /\ Unguarded(c, t))

Checks == {"runtime-role-is-not-privileged",
           "runtime-role-reaches-only-the-managed-tables",
           "every-managed-table-is-classified", "tenant-tables-are-forced",
           "tenant-policies-are-exactly-canonical",
           "migrations-match-the-committed-files", "no-owner-context-reads-empty"}

Passes(check, c) ==
  /\ c.present
  /\ CASE check = "runtime-role-is-not-privileged" -> CheckRolePrivileges(c)
       [] check = "runtime-role-reaches-only-the-managed-tables" -> CheckPrivilegeReach(c)
       [] check = "every-managed-table-is-classified" -> CheckClassification(c)
       [] check = "tenant-tables-are-forced" -> CheckForced(c)
       [] check = "tenant-policies-are-exactly-canonical" -> CheckPolicies(c)
       [] check = "migrations-match-the-committed-files" -> CheckMigrations(c)
       [] check = "no-owner-context-reads-empty" -> CheckNoContextReadsEmpty(c)

-----------------------------------------------------------------------------
(* The bootstrap transaction: provisionRole, revokeMemberships, what is        *)
(* taken from the role, and its reading of the ledger.  It grants nothing on   *)
(* a table.                                                                    *)
MutantBootstrapped(c) ==
  [c EXCEPT !.present = TRUE, !.flags = {}, !.may = {}, !.readsLedger = TRUE]

Bootstrapped(c) ==
  [c EXCEPT !.present = TRUE, !.flags = {}, !.members = {}, !.may = {},
            !.readsLedger = TRUE]

(* Drizzle's migrator, in one transaction: every committed migration that is   *)
(* newer than the newest it saw in the ledger before the transaction began.    *)
Newest(c) == IF c.ledger = {} THEN 0 ELSE CHOOSE m \in c.ledger : \A n \in c.ledger : n <= m

Pending(newest) == {m \in Committed : m > newest}

(* A table that exists cannot be created again, and takes everything with it;  *)
(* FORCE can be repeated, and then its row is in the ledger twice.             *)
Applicable(c, newest) == CreateSchema \in Pending(newest) => c.tables = {}

Migrated(c, newest) ==
  LET pending == Pending(newest)
      created == CreateSchema \in pending
  IN [c EXCEPT !.ledger = @ \cup pending,
               !.shadowed = @ \/ pending \cap c.ledger # {},
               !.tables = IF created THEN Managed ELSE @,
               !.secured = IF created THEN Tenant ELSE @,
               !.policies = IF created
                            THEN [t \in Managed |-> IF t \in Tenant THEN {CanonicalPolicy}
                                                    ELSE {}]
                            ELSE @,
               !.forced = IF ForceRls \in pending THEN Tenant ELSE @]

(* applyRuntimeGrants: the managed tables by name, and nothing else.           *)
Granted(c) ==
  [c EXCEPT !.grants = [x \in Relations |->
      IF x \in Managed THEN (@[x] \cup RuntimePrivileges) \ WithheldPrivileges ELSE @[x]]]
=============================================================================
