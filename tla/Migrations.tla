------------------------------ MODULE Migrations ------------------------------
(***************************************************************************)
(* The life of a migration: branches cut from main, their schema changed,  *)
(* migrations generated, written by hand, edited and rebased, verified and *)
(* merged, and a database that an operator migrates at any moment          *)
(* (packages/control-plane/src/db/force-generate.ts, migrate.ts,           *)
(* tools/verify-migrations.mjs and the boot check of checks.ts).           *)
(*                                                                         *)
(* External: drizzle-kit (what it generates from a schema change), git (a  *)
(* branch merges only onto the main it was last rebased on, since every    *)
(* migration appends at the same place of one file), Postgres (what a      *)
(* statement does to a table) and drizzle-orm's migrate, which reads the   *)
(* ledger before its transaction and takes no lock: two runs of it may     *)
(* overlap.  Nothing reaches main but by a verified merge.                 *)
(***************************************************************************)
EXTENDS MigrationHistory

CONSTANTS
  Branches,
  NoBranch,
  Migrators,    \* the processes that may run migrate
  HumanOps,     \* the operations of the statements that humans write
  MaxJournal,   \* bound: migrations of a journal
  MaxEdits,     \* bound: statements a human writes, adds or takes out
  MaxClock      \* bound: distinct readings of the clock

ASSUME MigrationsAssumption ==
  /\ MaxJournal \in Nat
  /\ MaxEdits \in Nat
  /\ MaxClock \in Nat \ {0}
  /\ IsFiniteSet(Tables)

VARIABLES
  main,      \* schema and journal of the main branch
  branch,    \* Branches -> the branch: where it was cut, schema and journal
  database,  \* its tables, and its ledger: a bag of the rows of applied migrations
  runs,      \* Migrators -> the run of migrate under way, and what it has read
  overlapped,\* history: a run committed while another was under way
  clock,
  edits

authored == <<main, branch, clock, edits>>
deployed == <<database, runs, overlapped>>
vars == <<authored, deployed>>

-----------------------------------------------------------------------------
NoTable == [exists |-> FALSE, enabled |-> FALSE, forced |-> FALSE, policies |-> {}]
Plain == [NoTable EXCEPT !.exists = TRUE]

NoRun == [journal |-> <<>>, newest |-> 0]

(* Row, of the ledger: the time of a migration, and the hash of its file.    *)
Row(m) == [when |-> m.when, sql |-> m.sql]

(* The first journal is merged and applied: it was merged unverified, since  *)
(* its baseline had none (checkJournal), and is about no table of Tables.   *)
Init ==
  /\ LET schema  == [t \in Tables |-> "absent"]
         initial == Migration(1, schema, FALSE, <<>>)
     IN /\ main = [schema |-> schema, journal |-> <<initial>>]
        /\ database = [tables |-> [t \in Tables |-> NoTable],
                       ledger |-> SetToBag({Row(initial)})]
  /\ branch = [b \in Branches |-> NoBranch]
  /\ runs = [o \in Migrators |-> NoRun]
  /\ overlapped = FALSE
  /\ clock = 2
  /\ edits = 0

(* Date.now: two readings may be the same.                                  *)
Now(when) == when \in {clock, clock + 1} \cap 1 .. MaxClock /\ clock' = when

-----------------------------------------------------------------------------
(* Authoring. *)

(* A branch is cut from main, and is about one change of the schema module: *)
(* a table added, dropped or reclassified; or about none.                   *)
Cut(b) ==
  /\ branch[b] = NoBranch
  /\ \E t \in Tables, class \in Classes :
       branch' = [branch EXCEPT ![b] =
                    [base |-> main, journal |-> main.journal,
                     schema |-> [main.schema EXCEPT ![t] = class]]]
  /\ UNCHANGED <<main, clock, edits, deployed>>

(* drizzle-kit generate: from the last snapshot to the schema.              *)
Generated(t, from, to) ==
  (IF from = "absent" THEN <<Stmt("create table", t)>> ELSE <<>>)
  \o (IF to = "tenant"
      THEN <<Stmt("enable", t), PolicyStmt("create policy", t, Canonical)>> ELSE <<>>)
  \o (IF from = "tenant" THEN <<PolicyStmt("drop policy", t, Canonical)>> ELSE <<>>)
  \o (IF from = "tenant" /\ to = "nonTenant" THEN <<Stmt("disable", t)>> ELSE <<>>)
  \o (IF to = "absent" THEN <<Stmt("drop table", t)>> ELSE <<>>)

LastSnapshot(journal) == Last(journal).snapshot

Appended(b, migration) ==
  /\ Len(branch[b].journal) < MaxJournal
  /\ branch' = [branch EXCEPT ![b].journal = Append(@, migration)]

Generate(b) ==
  /\ branch[b] # NoBranch
  /\ LET from == LastSnapshot(branch[b].journal)
         to   == branch[b].schema
         changed == {t \in Tables : from[t] # to[t]}
         sql == FlattenSeq([i \in 1 .. Cardinality(changed) |->
                  Generated(SetToSeq(changed)[i], from[SetToSeq(changed)[i]],
                            to[SetToSeq(changed)[i]])])
     IN /\ changed # {}
        /\ \E now \in 1 .. MaxClock :
             Now(now) /\ Appended(b, Migration(now, to, FALSE, sql))
  /\ UNCHANGED <<main, edits, deployed>>

(* emitForceMigration: the delta, in a file of its own, newer than the last *)
(* one whatever the clock says, with its parent's snapshot.                 *)
EmitForce(b) ==
  /\ branch[b] # NoBranch
  /\ LET journal == branch[b].journal
         delta   == ForceDelta(branch[b].schema, journal)
     IN /\ journal # <<>>
        /\ delta # <<>>
        /\ \E now \in 1 .. MaxClock :
             /\ Now(now)
             /\ Appended(b, Migration(Max({now, Last(journal).when + 1}),
                                      Last(journal).snapshot, TRUE, delta))
  /\ UNCHANGED <<main, edits, deployed>>

(* What a human may write: statements that are somebody else's to write, or *)
(* nobody's.                                                                *)
Strays ==
  {s \in UNION {{Stmt(op, t) : op \in Forcing \cup {"disable", "drop table", "unreadable"}}
                \cup {PolicyStmt("create policy", t, [name |-> "other", lets |-> "all"]),
                      PolicyStmt("alter policy", t, [Canonical EXCEPT !.lets = "all"]),
                      PolicyStmt("drop policy", t, Canonical)} : t \in Tables} :
     s.op \in HumanOps}

Edit == edits < MaxEdits /\ edits' = edits + 1

HandAuthor(b) ==
  /\ branch[b] # NoBranch
  /\ Edit
  /\ \E s \in Strays, now \in 1 .. MaxClock :
       /\ Now(now)
       /\ Appended(b, Migration(now, LastSnapshot(branch[b].journal), FALSE, <<s>>))
  /\ UNCHANGED <<main, deployed>>

(* A file of the folder is edited: a statement more, or one less.           *)
EditFile(b) ==
  /\ branch[b] # NoBranch
  /\ Edit
  /\ \E i \in DOMAIN branch[b].journal :
       \/ \E s \in Strays :
            branch' = [branch EXCEPT ![b].journal[i].sql = Append(@, s)]
       \/ \E k \in DOMAIN branch[b].journal[i].sql :
            branch' = [branch EXCEPT ![b].journal[i].sql = RemoveAt(@, k)]
  /\ UNCHANGED <<main, clock, deployed>>

(* git rebase: the branch's own migrations, as they are, after those of the *)
(* new main; its own schema changes over main's.                            *)
Rebase(b) ==
  /\ branch[b] # NoBranch
  /\ branch[b].base # main
  /\ LET cut == Len(branch[b].base.journal)
         own == SubSeq(branch[b].journal, cut + 1, Len(branch[b].journal))
         new == SubSeq(main.journal, cut + 1, Len(main.journal))
     IN /\ Len(main.journal) + Len(own) <= MaxJournal
        /\ branch' = [branch EXCEPT
             ![b].journal = SubSeq(@, 1, cut) \o new \o own,
             ![b].schema = [t \in Tables |->
                IF @[t] # branch[b].base.schema[t] THEN @[t] ELSE main.schema[t]],
             ![b].base = main]
  /\ UNCHANGED <<main, clock, edits, deployed>>

Merge(b) ==
  /\ branch[b] # NoBranch
  /\ branch[b].base = main
  /\ branch[b].journal # main.journal
  /\ Verified(main.journal, branch[b].schema, branch[b].journal)
  /\ main' = [schema |-> branch[b].schema, journal |-> branch[b].journal]
  /\ branch' = [branch EXCEPT ![b] = NoBranch]
  /\ UNCHANGED <<clock, edits, deployed>>

-----------------------------------------------------------------------------
(* Postgres: what one statement does to its table, or that it fails.        *)
Refused(table, s) ==
  \/ (s.op = "create table") = table.exists
  \/ s.op = "create policy" /\ Named(table.policies, s.policy.name) # {}
  \/ s.op \in {"alter policy", "drop policy"} /\ Named(table.policies, s.policy.name) = {}

Applied(table, s) ==
  LET others == table.policies \ Named(table.policies, s.policy.name)
  IN CASE s.op = "create table" -> Plain
       [] s.op = "drop table" -> NoTable
       [] s.op \in RowSecurity -> [table EXCEPT !.enabled = (s.op = "enable")]
       [] s.op \in Forcing -> [table EXCEPT !.forced = (s.op = "force")]
       [] s.op = "drop policy" -> [table EXCEPT !.policies = others]
       [] s.op \in Writing -> [table EXCEPT !.policies = others \cup {s.policy}]
       [] s.op = "unreadable" -> table

Run(state, s) ==
  IF ~state.ok \/ Refused(state.tables[s.table], s) THEN [state EXCEPT !.ok = FALSE]
  ELSE [state EXCEPT !.tables[s.table] = Applied(@, s)]

(* The newest created_at of the ledger, which is all migrate reads of it.   *)
NewestApplied(ledger) == Max({row.when : row \in BagToSet(ledger)} \cup {0})

(* migrate reads the files it ships with, those of main, and the newest row, *)
(* before its transaction and under no lock.  A run that finds nothing newer *)
(* changes nothing, and is left out.                                        *)
Newer(files, newest) == {i \in DOMAIN files : files[i].when > newest}

StartMigrate(o) ==
  /\ runs[o] = NoRun
  /\ LET newest == NewestApplied(database.ledger)
     IN /\ Newer(main.journal, newest) # {}
        /\ runs' = [runs EXCEPT ![o] = [journal |-> main.journal, newest |-> newest]]
  /\ UNCHANGED <<authored, database, overlapped>>

(* The transaction: every file newer than the row that was read, and a row   *)
(* for each.  A statement keeps its table locked to the end, so that two     *)
(* transactions have the effect of one after the other, as they commit.     *)
CommitMigrate(o) ==
  LET files  == runs[o].journal
      newer  == Newer(files, runs[o].newest)
      result == FoldLeft(Run, [tables |-> database.tables, ok |-> TRUE], Written(files, newer))
  IN /\ runs[o] # NoRun
     /\ result.ok
     /\ database' = [tables |-> result.tables,
                     ledger |-> database.ledger (+) SetToBag({Row(files[i]) : i \in newer})]
     /\ runs' = [runs EXCEPT ![o] = NoRun]
     /\ overlapped' = (overlapped \/ \E p \in Migrators \ {o} : runs[p] # NoRun)
     /\ UNCHANGED authored

(* A statement is refused, two transactions deadlock or the process dies:    *)
(* all of it is rolled back.                                                *)
AbortMigrate(o) ==
  /\ runs[o] # NoRun
  /\ runs' = [runs EXCEPT ![o] = NoRun]
  /\ UNCHANGED <<authored, database, overlapped>>

Next ==
  \/ \E o \in Migrators : StartMigrate(o) \/ CommitMigrate(o) \/ AbortMigrate(o)
  \/ \E b \in Branches :
       \/ Cut(b) \/ Generate(b) \/ EmitForce(b)
       \/ HandAuthor(b) \/ EditFile(b) \/ Rebase(b) \/ Merge(b)

Spec == Init /\ [][Next]_vars

-----------------------------------------------------------------------------
(* checkMigrations of the boot: what is pending, edited, ahead of the build, *)
(* or in the ledger more than once.                                         *)
Pending == {m \in Range(main.journal) :
              \A row \in BagToSet(database.ledger) : row.when # m.when}
Edited == {m \in Range(main.journal) :
             \E row \in BagToSet(database.ledger) : row.when = m.when /\ row.sql # m.sql}
Ahead == {row \in BagToSet(database.ledger) :
            \A m \in Range(main.journal) : m.when # row.when}
Duplicated == {row \in BagToSet(database.ledger) :
                 \/ database.ledger[row] > 1
                 \/ \E other \in BagToSet(database.ledger) :
                      other # row /\ other.when = row.when}

Accepted == Pending = {} /\ Edited = {} /\ Ahead = {} /\ Duplicated = {}

(* What a boot refuses in a ledger is not out of the reach of migrate: an    *)
(* applied migration is committed as it was applied, and one that is not     *)
(* applied is newer than all that are (verify-migrations.mjs).  A row that   *)
(* is there twice is, and it is there only if two runs once overlapped.     *)
NeverStranded ==
  /\ Edited = {}
  /\ Ahead = {}
  /\ \A m \in Pending : m.when > NewestApplied(database.ledger)
  /\ Duplicated # {} => overlapped

(* A database whose ledger the boot accepts has on each table the boundary  *)
(* its classification asks for, whatever humans put into the files, however *)
(* branches were rebased, whenever and in however many runs, overlapping or *)
(* not, it was migrated: the walk over the files agrees with what Postgres  *)
(* did (force.ts).  A table the history dropped is left out: the walk does  *)
(* not read DROP TABLE.                                                     *)
Dropped(t) ==
  \E i \in DOMAIN main.journal : Stmt("drop table", t) \in Range(main.journal[i].sql)

DeployedIsDeclared ==
  Accepted =>
    \A t \in Tables :
      LET table == database.tables[t]
      IN ~Dropped(t) =>
           /\ main.schema[t] = "tenant" =>
                table = [Plain EXCEPT !.enabled = TRUE, !.forced = TRUE,
                                      !.policies = {Canonical}]
           /\ main.schema[t] = "nonTenant" => table \in {NoTable, Plain}
=============================================================================
