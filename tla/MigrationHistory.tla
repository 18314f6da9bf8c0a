--------------------------- MODULE MigrationHistory ---------------------------
(***************************************************************************)
(* What a migration folder says, and what is asked of it before it is      *)
(* merged (packages/control-plane/src/db/force.ts, force-generate.ts and   *)
(* tools/verify-migrations.mjs).  A journal is a sequence of migrations;   *)
(* who wrote each one is read off its snapshot and its marker, its author  *)
(* decides what it may carry, and a walk of the whole journal says what    *)
(* boundary it leaves behind.                                              *)
(*                                                                         *)
(* SQL text is a sequence of statements, each about one table; a table's   *)
(* schema and its classification are one value, its class; a policy is its *)
(* name and whether it lets a tenant see its own rows or all.              *)
(***************************************************************************)
EXTENDS Integers, SequencesExt

CONSTANT Tables

Classes == {"absent", "tenant", "nonTenant"}

Canonical == [name |-> "tenant", lets |-> "own"]

Stmt(op, t) == [op |-> op, table |-> t]
PolicyStmt(op, t, policy) == [op |-> op, table |-> t, policy |-> policy]

RowSecurity == {"enable", "disable"}
Forcing == {"force", "no force"}
Writing == {"create policy", "alter policy"}

(* A migration: its journal timestamp, the schema its snapshot records, and *)
(* its file, which may begin with the generator's marker.                   *)
Migration(when, snapshot, marker, sql) ==
  [when |-> when, snapshot |-> snapshot, marker |-> marker, sql |-> sql]

-----------------------------------------------------------------------------
(* Attribution and grammar.                                                *)

(* kindOf: a snapshot that did not advance makes a custom migration, and    *)
(* the marker makes a custom one the generator's.                           *)
KindOf(journal, i) ==
  IF i = 1 \/ journal[i].snapshot # journal[i - 1].snapshot THEN "drizzle"
  ELSE IF journal[i].marker THEN "generator" ELSE "hand-authored"

Ops(sql) == {sql[i].op : i \in DOMAIN sql}

(* parseForceMigration: forcing statements and nothing else, at least one.  *)
Conforms(sql) == sql # <<>> /\ Ops(sql) \subseteq Forcing

Forbidden(kind) ==
  IF kind = "drizzle" THEN Forcing
  ELSE {"create table", "drop policy"} \cup RowSecurity \cup Forcing \cup Writing

GrammarHolds(journal) ==
  \A i \in DOMAIN journal :
    LET kind == KindOf(journal, i)
    IN IF kind = "generator" THEN Conforms(journal[i].sql)
       ELSE Ops(journal[i].sql) \cap Forbidden(kind) = {}

-----------------------------------------------------------------------------
(* The effective state.                                                    *)

(* The statements of the migrations at some places, in order.              *)
Written(journal, places) ==
  FlattenSeq([i \in DOMAIN journal |-> IF i \in places THEN journal[i].sql ELSE <<>>])

(* effectiveForceState reads the files that are the generator's and conform, *)
(* and the last operation on a table wins.                                  *)
MutantForceStep(t, forced, s) ==
  IF s.table = t THEN forced \/ s.op = "force" ELSE forced

ForceStep(t, forced, s) ==
  IF s.table = t THEN s.op = "force" ELSE forced

GeneratorFiles(journal) ==
  {i \in DOMAIN journal : KindOf(journal, i) = "generator" /\ Conforms(journal[i].sql)}

ForceState(journal, t) ==
  FoldLeft(LAMBDA forced, s : ForceStep(t, forced, s), FALSE,
           Written(journal, GeneratorFiles(journal)))

(* forceDelta: what the next generated migration would have to say.         *)
Misforced(schema, journal) ==
  {t \in Tables : /\ schema[t] # "absent"
                  /\ ForceState(journal, t) # (schema[t] = "tenant")}

ForceDelta(schema, journal) ==
  SetToSeq({Stmt(IF schema[t] = "tenant" THEN "force" ELSE "no force", t) :
              t \in Misforced(schema, journal)})

ForceHolds(schema, journal) == Misforced(schema, journal) = {}

(* One statement of effectiveBoundary's walk.  A policy altered before it is *)
(* created cannot be read, nor can a form nobody anticipated.               *)
Named(policies, name) == {p \in policies : p.name = name}

BoundaryStep(t, walk, s) ==
  LET others == walk.policies \ Named(walk.policies, s.policy.name)
  IN CASE s.table # t -> walk
       [] s.table = t /\ s.op \in RowSecurity -> [walk EXCEPT !.enabled = (s.op = "enable")]
       [] s.table = t /\ s.op = "drop policy" -> [walk EXCEPT !.policies = others]
       [] s.table = t /\ s.op \in Writing ->
            IF s.op = "alter policy" /\ others = walk.policies
            THEN [walk EXCEPT !.readable = FALSE]
            ELSE [walk EXCEPT !.policies = others \cup {s.policy}]
       [] s.table = t /\ s.op = "unreadable" -> [walk EXCEPT !.readable = FALSE]
       [] OTHER -> walk

NoBoundary == [policies |-> {}, enabled |-> FALSE, readable |-> TRUE]

(* effectiveBoundary reads every migration, whoever wrote it.               *)
EffectiveBoundary(journal, t) ==
  FoldLeft(LAMBDA walk, s : BoundaryStep(t, walk, s), NoBoundary,
           Written(journal, DOMAIN journal))

(* boundaryProblems: a statement the walk cannot read is a failure too.     *)
BoundaryHolds(schema, journal) ==
  \A t \in Tables :
    LET walk == EffectiveBoundary(journal, t)
    IN /\ walk.readable
       /\ schema[t] = "tenant" => walk.policies = {Canonical} /\ walk.enabled
       /\ schema[t] = "nonTenant" => walk.policies = {} /\ ~walk.enabled

-----------------------------------------------------------------------------
(* History is append-only (verify-migrations.mjs): every file of the        *)
(* baseline is as it was, and what is appended is newer than all before it. *)
(* A first journal has no baseline to be compared with, and passes; `before` *)
(* is never that of one.                                                    *)
MutantAppendsOnly(before, after) ==
  /\ IsPrefix(before, after)
  /\ \A i \in Len(before) + 1 .. Len(after) :
       \A j \in 1 .. i - 1 : after[j].when <= after[i].when

AppendsOnly(before, after) ==
  /\ IsPrefix(before, after)
  /\ \A i \in Len(before) + 1 .. Len(after) :
       \A j \in 1 .. i - 1 : after[j].when < after[i].when

(* What `pnpm verify` asks of a branch whose merge-base holds `before`.     *)
Verified(before, schema, journal) ==
  /\ AppendsOnly(before, journal)
  /\ GrammarHolds(journal)
  /\ ForceHolds(schema, journal)
  /\ BoundaryHolds(schema, journal)
=============================================================================
