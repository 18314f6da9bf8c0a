# Reprove, specified

TLA+ modules, TLC runs and TLAPS proofs for reprove: a control plane that turns
GitHub pull request deliveries into **Runs**, hands each Run to one execution and
makes sure that every Run ends exactly once; the Worker that carries an execution
out inside a container; the tenant boundary of the database under both; and the
gate that decides which revision of a harness may be used at all. Paths below are
relative to the repository's source: `cp/` stands for `packages/control-plane/src/`,
`wf/` for `packages/control-plane-workflow/src/`, `wh/` for
`packages/worker-hosted/src/`, `wc/` for `packages/worker-core/src/`, `sc/` for
`packages/sandbox-container/src/`, `ad/` for `packages/adapters/src/`.

- [1. The system](#1-the-system)
- [2. Modules and how they correspond to the code](#2-modules-and-how-they-correspond-to-the-code)
- [3. Runs, bounds, and what they show](#3-runs-bounds-and-what-they-show)
- [4. Fairness](#4-fairness)
- [5. Proofs](#5-proofs)
- [6. Where the code and its documents part](#6-where-the-code-and-its-documents-part)
- [7. What is left out, and why](#7-what-is-left-out-and-why)
- [8. Plan](#8-plan)

## 1. The system

| Component | State it keeps | Operations | Talks to |
| --- | --- | --- | --- |
| Webhook (`cp/github/webhook.ts`) | none | verify, commit the delivery, kick its workflow, acknowledge | ledger, ingress workflow |
| Ledger (`cp/github/ledger.ts`) | one row per delivery: `received`, `done`, `discarded`, a retry class or a disposition | record, settle (only from `received`) | – |
| Ingress workflow (`wf/ingress.ts`) | durable: the step it is on, its attempts | `processDelivery`, `dispatchLifecycle`, `notifyEnded` | critical section, lifecycle |
| Critical section (`cp/github/run-creation.ts`, `processing.ts`) | a per-pull-request advisory lock held by a transaction | fetch canonical state, supersede or cancel the live Run, create a Run, settle | GitHub client, run rows, ledger |
| Run row (`cp/run/lifecycle.ts`, `cp/worker/claim.ts`, `acceptance.ts`) | status, deadlines, token, recorded lifecycle and pass, failure detail | eight conditional `UPDATE`s | – |
| Durable lifecycle (`wf/lifecycle.ts`) | durable: where its loop is, its hook, the deadline it sleeps toward | read, sleep, record itself, close the claim window, close the execution window, cancel the pass | run row, pass |
| Hosted dispatch (`wh/dispatch.ts`) | none that survives it | claim, start a pass, mark executing | run row, pass |
| Hosted pass (`wf/pass.ts`, `wh/placement.ts`) | durable: status and outcome of the pass | run Worker core, submit the Result, report the loss | run row |
| Claim and Acceptance for Workers (`cp/worker/`) | transactions over the Runs, their Findings and the Worker's row | poll, claim a named Run, render its spec, accept a Result, name a refusal | run rows |
| Worker core (`wc/`) | one execution's progress | resolve capabilities, pass the gates, launch, protect the narrative, resolve again, authorize, run the Pass, tear down | sandbox, Adapter |
| Codex Adapter (`ad/codex`) | one Pass: its proxy, session, turns | establish the capability, preflight, run a turn, repair it once, clean up | sandbox, the model's command line |
| Container sandbox (`sc/`) | capability cache and quarantine of the process; per launch a volume, an instance, processes, ports and a proxy with its relay | fingerprint the host, launch, attest, set up, close, destroy | container runtime |
| Composition (`wf/composition.ts`, `cp/control-plane.ts`) | one memoised promise, a pool | compose, check, clear on failure | database |
| Database boundary (`cp/db`) | roles, grants, tables, policies, the migration ledger | bootstrap, migrate, seven boot checks | Postgres |
| Migration history (`cp/db/force.ts`, `tools/verify-migrations.mjs`) | journals of branches and of main | generate, force, hand-author, verify, merge | git, drizzle |
| Qualification gate (`tools/gate`) | a ledger of reports, a baseline pointer, exceptions | plan, run, assemble, score, record, rebase | runners |
| Observation, authentication, protocol schemas, applications | – | read-only projections, library configuration, declarations | – |

Nobody owns a Run. Ingress, a lifecycle, a dispatch, a pass, a Worker and a
notification all write or react to the same row without locks, each on behalf of
something it read earlier; the platform runs every durable step *at least* once;
GitHub delivers late, twice, out of order or never; and each process may stop for
good at any point. Below the Run, a launch drives a daemon that may act although
its client failed, and shares one cache with launches that evict it. Around it,
operators repair a database while processes boot on it, branches append to one
journal at the same time, and a batch of hours is scored against a ledger that has
moved on. What makes each part correct:

- **Run row.** A Run is granted at most once and ends exactly once; a terminal
  Run is never rewritten; a deadline ends a Run only when it has passed; the loss
  detail says where the Run really was.
- **Lifecycle.** One started lifecycle is enough for the Run to end; what it
  returns is true; the lifecycle a Run names is never cancelled; every
  lifecycle returns.
- **Pass.** It is cancelled only after the Run was ended over it; what it reports
  is true of the row.
- **Claims and Results.** A Run is held by the one request that was told so; what a
  transaction found of the row it wrote is so until it ends; a refusal's name is true
  while its transaction is open; Findings belong to the Result that was accepted.
- **Ingress.** One live Run per pull request and one Run per head, no matter the
  order of deliveries; no decision from older state overrides a newer one; a
  ledger row is `done` exactly where it made one Run; the Runs converge to the
  pull request.
- **Sandbox.** Nothing of a refused launch or an ended teardown survives
  unnoticed; an instance runs only on the host it was admitted to; every launch and
  every teardown ends.
- **Worker core and Adapter.** A refusal falls before a Reviewer is let in, a
  failure after; a Result means that the Sandbox is gone; the matrix is satisfied on
  the instance itself, not on an earlier report of its host.
- **Composition and boundary.** A process that serves cannot reach another Owner's
  rows, although its seven checks read at seven moments; a healthy composition is
  kept; a re-run repair makes the process serve.
- **Migrations.** Nothing that reaches main strands a database, and a fully migrated
  database has the boundary the classification declares.
- **Gate.** The baseline is a revision that was seen to qualify, it moves only by a
  comparison with the one it replaces, and a lapsed lineage returns only by
  qualification.

`PROJECT.json` lists the places where each of these can go wrong ("hazards").

## 2. Modules and how they correspond to the code

| Module | Models | Composes |
| --- | --- | --- |
| `RunRow` | the columns of a Run's lifecycle and every conditional statement over them, as a guard (`XMatches`, the `WHERE`) and an effect (`X`, the `SET`) | – |
| `RunContract` | what the control plane promises about one Run, without processes | – |
| `RunLifecycle` | all the processes that race over one Run | `RunRow`; implements `RunContract` |
| `ClaimPool` | claims and submissions as transactions over several Runs | `RunRow`; each Run implements `RunContract` |
| `Ingress` | deliveries of one pull request, ledger, critical section, ingress workflow | – |
| `Sandbox` | launches, setups and teardowns over one cache and one daemon | – |
| `Eligibility` | the dispatch gates and the Evidence cross-check, as operators | – |
| `Worker` | an execution of Worker core and its Pass | `Sandbox`, `Eligibility`; implements `WorkerContract` |
| `WorkerContract` | what Worker core promises of an execution | – |
| `Boundary` | a catalogue, what reaches past it, the seven checks, bootstrap and migrate, as operators | – |
| `Composition` | a process that composes, operators that repair, somebody who changes the database | `Boundary` |
| `MigrationHistory` | authorship, grammar, walk and append-only rule of a journal, as operators | – |
| `Migrations` | branches, merges and a database that is migrated at any moment | `MigrationHistory` |
| `GateEvaluation`, `GateLedger` | what a batch amounts to; what a ledger says of a lineage, as operators | – |
| `Gate` | batches planned, lost, scored and recorded while time and the corpus move | `GateLedger` |
| `RunLifecycleProofs`, `ClaimPoolProofs`, `IngressProofs`, `SandboxProofs`, `WorkerProofs`, `CompositionProofs`, `MigrationsProofs`, `GateProofs` | the theorems (section 5) | the module each names |
| `MC*` | model values, symmetry and instances for TLC | |

In all of them an `await` is a boundary between actions, a SQL statement or one
invocation of the runtime is one action with its guard evaluated in it, and a
conversion is modelled by what it distinguishes.

### RunRow and RunLifecycle

One Run is enough: no statement of the lifecycle reads another Run, and the
statements that do are in `Ingress` (superseding, the head check) and `ClaimPool`
(the poll). The variables:

| Variable | Code |
| --- | --- |
| `run` | the row: `status`, `placement`, `claimable_until`, `execution_expires_at`, `execution_token_hash`, `workflow_run_id`, `hosted_workflow_run_id`, `accepted_at`, `failure_reason`/`failure_detail` |
| `now` | the clock. A tick is longer than the 0.5 s and grace sleeps, which are steps without a tick |
| `dispatcher` | the ingress workflow's `dispatchLifecycle` step: start, record, arbitrate (`concludeDispatch`), cancel |
| `life[l]` | a `runLifecycle` workflow run: program point, hook, sleep target, the pass id and observation carried from the last read, grace spent, attempts of the current step, what it returned |
| `claimant[e]` | a claim attempt (`dispatchHostedRun`, or a Worker's) and the clock it read before its statement |
| `pass[e]` | the durable pass that dispatch `e` started |
| `notice` | the ingress workflow's `notifyEnded` step |
| `faults` | step answers lost or steps failed so far |

A token is represented by the attempt that minted it (a claim mints a fresh one,
and only its hash is stored), a pass id by the dispatch that started it. A durable
step that takes effect and loses its answer runs again (`answered = FALSE`), and
fails its workflow after `StepAttempts`. Two consequences that matter: the dispatch
step may start a second lifecycle for one Run, and a pass may submit its Result
twice. Dispatch and Workers are not workflows: they die by never moving again.
Cancelling a pass does not stop an attempt in flight (`inFlight`).

The claim reads its clock *before* its statement (`cp/worker/claim.ts:232`), so
`ClaimBegin` and `ClaimRun` are two actions; the watchdog's transition compares
its own clock inside one step, so it is one. `installed` and `permitted` are the
parts of a guard that are about data outside the row (the Repository's
Installation; a Patch under the Run's Autonomy), chosen freely.

The abstract Run of `RunContract` has six variables; `RunLifecycle` maps them as
`holder <- token`, `scheduler <- workflowRunId`, `deadline <-` the deadline of the
window the Run is in, `cause <-` the detector in the failure detail. Among other
things the contract says that a grant is timed *inside* the claim window it closes.

### ClaimPool

`row[r]` is the committed row of a Run, a Run being its rank in `created_at` order;
`tx[q]` a request's transaction: which Worker, which Run, the clock it read, where
it is and what it answered; `findings[r]` the submissions whose Findings are
committed; `installed` the live Installations; `unacked` the requests whose commit
was never acknowledged. A claim first touches its Worker's row (which a second claim
of the same Worker waits for), then issues one `UPDATE` whose subquery takes the
oldest matching row that is not locked (`PollUpdate`) or names a row and waits for it
(`NamedUpdate`); a claim that matched nothing names its refusal with a further
statement; one that matched renders the spec, which may throw and take the claim back.
A submission absorbs the Result, inserts its Findings, or probes under a row lock why
nothing matched. The row lock is held from the statement that wrote to the commit, so
`MarkPass` and the writers from outside (`EndRun`) wait. A commit may land without its
acknowledgement: the endpoint then answers 503 for a claim that stands.

### Ingress

| Variable | Code |
| --- | --- |
| `pr` | the pull request on GitHub; `version` counts its changes |
| `row[d]` | a delivery: on its way, lost, or its ledger row |
| `work[d]` | its `ingressDelivery` workflow run |
| `session[d]` | the transaction that holds the advisory lock: what it fetched, what it has written but not committed, and whether the attempt that opened it still waits on it |
| `runs[r]` | Runs of the pull request: status, head, the delivery that made it, whether a lifecycle was dispatched |
| `decided` | history: the last canonical state a transaction committed a decision from |

The lock is held from `Acquire` to the transaction's end, and the fetch happens
inside it, as in `settlePullRequest`. What a transaction reads and writes
(`DecideIneligible`, `DecideUnchanged`, `DecideEligible`) and its `Commit` are two
steps: in between nobody sees its Runs, and whoever ends a Run from outside waits
only for the rows it updated (`Updated`). Without the lock two transactions would
each find no Run at the head and each insert one; the two partial unique indexes over
`run`, which would stop the second, are deliberately **not** in the model: `OneRun`
claims that the lock makes them unreachable. A transaction may outlive its attempt
(`attached = FALSE`), may commit and lose its acknowledgement (`commit_unknown`,
after which the catch records a failure against a row that is already terminal), and
may be killed while the fetch is out. The failure path classifies what GitHub and
Postgres said (`Classify`, `OutcomeForFailure`).

### Sandbox

`host` is the daemon's configuration, `cache` and `quarantined` the process-wide
`CapabilityCache`; per launch `box` is where `launch()` or `destroy()` is and what it
has read, `daemon` what exists under its two names, `access` the host side of the open
Sandbox: setups registered and under way, the stage of `openProxy` (server,
certificate, relay), what is held. An invocation may fail with or without its effect
(the client is killed after the daemon acted). The daemon is reconfigured between any
two of them. A proxy's own process may abort, and its relay may not come up, while
`close()` already waits. Which property a check of the request, the argument vector or
the report finds failed is a free choice from that check's own list; that the reports
agree with the capability is not.

### Worker, Eligibility, WorkerContract

`core[e]` is where `execute()` is, the capability resolved last and the answer;
`inquiry[e]` the Adapter's `capability({ sandbox })` call, `reading[e]` that of the
host: a deadline abandons a resolution but does not stop it, so both may run on after
their caller left. `pass[e]` is the Pass of the Codex Adapter, with its proxy,
session, endpoint, turns, one repair and clean-up, or that of any Adapter that keeps
the port. `stopped[e]` holds the caller's abort and the Pass's own timeout. The gates
and the Evidence cross-check are `Eligibility`'s operators, taken at the line of
`run.ts` that calls them. Other executions of the process are met through the cache
and the quarantine (`Neighbour`).

`WorkerContract` is the abstract execution: one answer; a refusal only before the
Reviewer is let in, a failure or a Result only after; a Result only with nothing
standing; an answer that leaves something standing only on a runtime nobody trusts.

### Boundary and Composition

A catalogue is a record of what `checks.ts` reads: role flags, memberships,
privileges, ownership, row security, policies, the ledger. `Exposes` says what
Postgres lets past it; the seven checks and the statements of `bootstrap()` and
`migrate()` are operators over it. In `Composition` each check of an attempt reads at
its own moment, while operators run the two commands statement by statement
(contended, failing, dying in between) and somebody changes one thing by hand.
`composed` is the memo, `waits[q]` the attempt request `q` awaits. `undisturbed` is
history: nobody changed the database by hand since the attempt began.

### MigrationHistory and Migrations

A journal is a sequence of migrations with their journal time, the schema their
snapshot records, their marker and their statements. `KindOf`, `GrammarHolds`,
`ForceState`, `EffectiveBoundary`, `BoundaryHolds` and `AppendsOnly` follow `force.ts`; the
two walks are folds of one statement (`ForceStep`, `BoundaryStep`); `Verified` is
`verify-migrations.mjs`. In `Migrations` two branches change the classification of a
table, generate, emit FORCE migrations, hand-write, edit and rebase; `Merge` is guarded
by the verification against main. A run of migrate is two steps, because drizzle-orm
reads before its transaction and takes no lock: `StartMigrate(o)` reads the files and, of
the ledger, nothing but its newest timestamp; `CommitMigrate(o)` runs every file newer
than that and appends their rows; `AbortMigrate(o)` is a refused statement, a deadlock
or a crash. Two runs may overlap, and then idempotent files run twice, so the ledger is
a bag (`overlapped` is history: a run once committed while another was under way). `Accepted` is
`checkMigrations` of the boot with its four refusals: `Pending`, `Edited`, `Ahead`,
`Duplicated`. Nothing reaches main but by a verified merge; only the founding journal was
merged without one, and `Init` is the state after it was applied.

### GateEvaluation, GateLedger, Gate

`GateEvaluation` goes from what was seen of a trial to the report of a batch: retries,
lost shards, validity, the floor. `GateLedger` reads a ledger: evidence, standing,
whether a comparison may promote, where the pointer goes. `Gate` plans an evaluation
against the ledger as it is, completes it with any records, any of them lost, and
scores it against the ledger as it is by then, in any order, several times, possibly
dying between the report and the pointer.

## 3. Runs, bounds, and what they show

| Run | Instance | Shows |
| --- | --- | --- |
| `lifecycle_safety` | 2 lifecycles, 1 hosted dispatch and pass, 1 Worker, 1 fault, clock to 2, symmetric | the row implements `RunContract`; `RecordedLifecycleIsKept`, `ReturnsAreTrue`, `UnscheduledMeansNeverClaimed`, `DeadlinesAreNotEarly`, `CancelFollowsTheTransition`, `LossNamesItsSide`, `PassConclusionsAreTrue`, `TerminalIsFinal`, `OwnersAreWrittenOnce` |
| `lifecycle_live` | 2 lifecycles, 1 hosted dispatch and pass, 1 fault, an execution window of 2 ticks, fair | `StartedLifecycleEndsTheRun`, `LifecyclesReturn` |
| `ingress` | 3 deliveries, 3 Run ids, 2 heads, 1 workflow retry, 1 fault, fair | `OneRun`, `LastDecisionStands`, `DoneIsItsRun`, `FinishedIsConcluded`, `ConcludedRowsStay`, `DecisionsFollowGitHub`, `Converges` |
| `sandbox` | 2 launches, one of them with a caller that resolved the capability first, the other used with a proxy; 2 host configurations, 1 reconfiguration, fair | `NothingSurvivesUnnoticed`, `ReceiptMeansGone`, `RunsOnItsHost`, `EveryLaunchSettles` |
| `worker` | 1 execution with proxy and port, 1 reconfiguration, 1 call per turn, fair | Worker core implements `WorkerContract`; `AuthorizedOnTheInstance`, `AdapterAgreesWithCore`, `EveryExecutionAnswered` |
| `claim_pool` | 2 Runs, 2 hosted and 2 Worker claims by 2 Workers, 2 submissions, 3 requests in all, 1 fault, 1 change from outside, clock to 1, symmetric | `GrantsAreHeld`, `RejectionHolds`, `FindingsAreTheAccepted`, `DecisionsStand`; each Run implements `RunContract` |
| `composition` | 1 request, 1 attempt, 1 operator, 1 change by hand, 1 fault, 2 contentions, fair | `ServedIsBounded`, `RepairServes` |
| `composition_memo` | 2 requests, 2 attempts, 3 environments, 1 fault, 1 contention, 1 restart, symmetric | `HealthyIsKept` |
| `gate` | 2 revisions, 1 scenario, policy of 2 repetitions, budgets 1 and 2, 2 batches, clock and version to 2, 1 exception, symmetric | `BaselineIsEarned`, `BaselineMovesByComparison`, `OnlyQualificationRestores` |
| `migrations` | 2 branches, 2 runs of migrate at a time, 1 table, 4 migrations of which 1 founding, 1 edit, 3 clock readings, symmetric | `NeverStranded`, `DeployedIsDeclared` |
| `finding_leaked_pool`, `finding_unscheduled` | the smallest instance that shows it | section 6 |

**Lifecycle.** In `lifecycle_safety` both windows are one tick long and the clock has
three values: a claim can be made at 0, be late by one tick for the claim deadline, and
its own deadline can pass; a later tick adds no new order of a clock value and a
deadline. Two lifecycles
are what one retried dispatch step yields, and all the races between a dispatch, a
lifecycle that records itself and a second dispatch need two. One fault is one lost
answer at every place an answer can be lost; `StepAttempts = 2` makes it survivable by
one retry and, on the dispatcher, fatal when combined with the retry it causes.
`RecordGraceWakes` is 1 of the code's larger number: the loop's branch is taken and
exhausted.

`lifecycle_live` has the hosted dispatch: its claim, the pass it starts, `markExecuting`,
a loss, an accepted Result and one that is rejected as malformed all occur, so a lifecycle
reads and cancels a pass, and a Run whose Result was refused is left to its deadline.
It has no Worker. To a lifecycle, a Run a Worker claimed is one whose hosted pass was not
recorded: the same row, ended by the same transition and with no pass to cancel, and a
dispatch that dies before it records its pass is such a claimant. Both together do not finish in the time a
run has. The execution window is two ticks there, so that a lifecycle that slept toward
the claim deadline has to sleep again toward a later one.

**Ingress.** Three deliveries are the fewest in which a push back to an old head, or a
close and a reopen, arrive in every order with a redelivery; two heads are the fewest
with a change. `MaxRetries` is 1 of 5: a delivery's re-drives are used and exhausted.

**Sandbox and Worker.** Two launches are what one cache and one quarantine need: one
that reads an entry, one that evicts it. Two configurations of the host, of which one
lacks what the matrix asks for, and a single change between them put every report
before or after it. `Worker` has one execution, because what it shares with others is
exactly what `Neighbour` does to it, but its Pass has every resource the Adapter opens.

**Claims.** Two Runs are the fewest a poll can choose between, or skip. Three of
the six possible requests are made in a behaviour; any three: two claims and a
submission, or two submissions after a claim. `DecisionsStand` is broken as soon as one
of them does not wait for the row another has written.

**Composition.** One attempt and one operator give every interleaving of the seven
checks with a bootstrap and a migration, and of a hand change with both; what concerns
several attempts is only the memo, and has its own run.

**Gate.** A baseline that was replaced while it was being compared with needs no
third revision: a rebase replaces it in the meantime, so `NamedBaselines` is empty.
`RequalifyEvery` is one tick and the lineages start at that age, so that a lineage
lapses within the clock. Two repetitions with budgets 1 and 2 give a batch off the
policy as well as one on it. One scoring axis and one version stand for all, since
each is compared by itself. The model keeps the report a batch's records assemble to,
not the records: nothing reads them afterwards.

**Migrations.** One branch makes one change of the schema. Four migrations are the
founding one and three more on either side of a merge, which covers the creation of a
table, its FORCE migration, its reclassification and the removal of FORCE. The founding
journal is merged unverified (`verify-migrations.mjs:255-257` returns where the baseline
has none), so the model begins after it, and `Verified` always has a baseline. Three
clock readings are the fewest in which a branch that started earlier merges later with a
time between those of two others. Two runs of migrate are the fewest that overlap: one
reads the ledger, the other commits, the first applies what is already there. Humans
write six of the eight operations (`HumanOps`; the theorems hold for any): `disable` and
`drop policy` leave the walk where taking `enable` or `create policy` out of a file does. A run reads
the files and the newest row in one step. The files are those of its build, which may be
older; if no migration was applied in between, its effect is that of a run that read the
ledger before main moved, and otherwise it finds fewer newer files, or none.

Deadlock is not checked in any run: workflows, launches, executions, boots and batches
really end, bounded deliveries, faults and ticks run out, and the system rests.

## 4. Fairness

`RunLifecycle!Fairness`: time passes, and the platform goes on running the steps
of a lifecycle that has started (the documented contract of the workflow
platform). Nothing else is assumed. A claimant, a pass, the dispatch
step and the notification may stop anywhere for ever, and
`StartedLifecycleEndsTheRun` holds all the same: the lifecycle's own deadlines
are the backstop, as `wf/lifecycle.ts` intends. Losing answers is bounded by
`MaxFaults`, and `StepAttempts` exceeds it in that run: a platform that fails a
lifecycle's step for ever fails its workflow, and then nothing ends the Run.

`Ingress!Fairness`: the workflow's steps are run, Postgres ends every transaction
one way or another, and a delivery that was not lost arrives. Contention is not
fair: a delivery may lose the lock on each of its attempts and exhaust its
re-drives (five, two seconds apart, against a holder that may sit in its
transaction for fifteen). `Converges` does not claim otherwise; it says that in
each such case a row still `received` with a failed workflow run shows it.

`Sandbox!SandboxFairness`: every step of a launch, a setup or a teardown that can be
taken is taken. Each is an invocation of the runtime's client under its own time
limit, or waits for one, so each ends, with or without its effect. Nobody is obliged
to start a launch or to tear one down.

`Worker!WorkerFairness`: Worker core and the Adapter run on; a resolution of the
capability ends or meets its deadline of thirty seconds; the Pass meets its own
timeout. A turn of the model has no fairness whatever: it may hang, and
`EveryExecutionAnswered` then rests on `PassTimesOut` and on an aborted turn failing.

`Composition!Fairness`: requests keep coming, a composition goes on, and operators
who were told to run a command run it again until it has gone through. The last needs
strong fairness: starting a command is disabled while another runs, again and again.

`Gate`, `Migrations` and `ClaimPool` state no liveness: nothing obliges anybody to
qualify, to merge or to claim, and a Run nobody claims is ended by its lifecycle
(`lifecycle_live`).

## 5. Proofs

Eight modules hold theorems. All are for **any** value of the constants that satisfies
the named assumptions of the module they extend (`IdsAssumption`, `WindowsAssumption`,
`NullAssumption`, `BoundsAssumption` and `NoOutcomeAssumption` of the Run;
`PoolAssumption`;
`IngressAssumption` and `NoTransactionAssumption`; `SandboxAssumption`;
`WorkerAssumption`; `BoundaryAssumption` and `CompositionAssumption`;
`MigrationsAssumption`; `EvaluationAssumption`, `FreshnessAssumption` and
`GateAssumption`), all of them about sets being finite or
nonempty, numbers being numbers, and names being distinct.

| Theorem | States |
| --- | --- |
| `TypeCorrect` | `RunLifecycle`'s `Spec => []TypeOK` |
| `UnscheduledIsNeverClaimed`, `LossesNameTheirSide`, `NoWindowClosesEarly`, `RecordedIsKept` | `[]UnscheduledMeansNeverClaimed`, `[]LossNamesItsSide`, `[]DeadlinesAreNotEarly`, `[]RecordedLifecycleIsKept` |
| `TerminalIsFinalAlways`, `OwnersAreFinal` | `TerminalIsFinal`, `OwnersAreWrittenOnce` |
| `RowImplementsContract` | `ImplementsContract`, the refinement of `RunContract` |
| `ReturnsStayTrue`, `CancelIsSecond`, `ConclusionsStayTrue` | `[]ReturnsAreTrue`, `[]CancelFollowsTheTransition`, `[]PassConclusionsAreTrue` |
| `PoolIsSound` | `ClaimPool`'s inductive invariant, types included |
| `GrantsStayHeld`, `RejectionsHold`, `FindingsStayTheAccepted` | `[]GrantsAreHeld`, `[]RejectionHolds`, `[]FindingsAreTheAccepted` |
| `DecisionsStandToTheEnd` | `[]DecisionsStand` |
| `PoolKeepsTheContract` | `EveryRunKeepsItsContract`, the refinement of `RunContract` by every Run of the pool |
| `IngressIsSound` | `Ingress`'s inductive invariant, types included |
| `OneRunAtATime`, `DecisionsStand`, `DoneMeansItsRun`, `FinishedMeansConcluded` | `[]OneRun`, `[]LastDecisionStands`, `[]DoneIsItsRun`, `[]FinishedIsConcluded` |
| `ConcludedRowsAreFinal`, `DecisionsNeverGoBack` | `ConcludedRowsStay`, `DecisionsFollowGitHub` |
| `LaunchesStaySound` | `Sandbox`'s inductive invariant, types included |
| `LeftoversQuarantine`, `ReceiptsAreTrue`, `InstancesRunOnTheirHost` | `[]NothingSurvivesUnnoticed`, `[]ReceiptMeansGone`, `[]RunsOnItsHost` |
| `WorkerIsSound` | `Worker`'s inductive invariant, types included |
| `ReviewersAreAuthorized`, `AdapterAndCoreAgree` | `[]AuthorizedOnTheInstance`, `[]AdapterAgreesWithCore` |
| `WorkerReceiptsAreTrue` | the three promises of `Sandbox`, of `WorkerSpec` |
| `WorkerKeepsItsContract` | `ImplementsWorkerContract`, the refinement of `WorkerContract` |
| `CompositionIsSound` | `Composition`'s inductive invariant, types included |
| `ServedStaysBounded`, `HealthyStaysKept` | `[]ServedIsBounded`, `[]HealthyIsKept` |
| `HistoryIsSound`, `DeploymentIsSound` | `Migrations`' two inductive invariants, types included |
| `NothingIsStranded`, `WhatIsDeployedIsDeclared` | `[]NeverStranded`, `[]DeployedIsDeclared` |
| `HistoryIsAppendOnly`, `OneMigrateSuffices` | what a step leaves of main and of a ledger; what a run of `migrate()` that commits with the files of main leaves pending, edited or ahead: nothing |
| `LedgersStaySound` | `Gate`'s inductive invariant, types included |
| `BaselinesAreEarned`, `BaselinesMoveByComparison` | `[]BaselineIsEarned`, `BaselineMovesByComparison` |
| `ReportsAreTimely`, `QualificationAloneRestores` | the order of a ledger's reports; `OnlyQualificationRestores` |

### The Run (`RunLifecycleProofs`)

`Next` has some thirty actions and the row has eight writers. `StepsOfTheRow` shows
that every step either lets time pass or issues at most one of the eight statements
(`RowStatement`), so everything about the row is proved over eight cases. `Inv` is
the inductive invariant, and each of its parts is there because a theorem fails to be
inductive without it:

- `TypeInv` – types, and that a step which may be retried has attempts left, that
  the watchdog knows its observation before it writes it, and that a pass which
  was not started has spent nothing. Without these `TypeOK` is not inductive.
- `RowInv` – the row agrees with itself. `LossNamesItsSide` needs to know that a
  `claimed` Run records no pass and an `executing` one does; final owners need a
  `queued` Run to have no token.
- `DeadlineWasRead` – a lifecycle that is about to close the claim window has seen
  the deadline pass. `expireUnclaimed` has no clock of its own, so
  `DeadlinesAreNotEarly` rests on this: the claim deadline never moves, and time
  does not go back.
- `Recorded` – a cancelled lifecycle was cancelled only once the Run named
  another; with first-writer-wins that stays true, which is why a dispatch that
  lost its record may cancel what it started.

The lemmas about a single statement (`StatementsKeepRowInv`,
`StatementsKeepOwners`, `StatementsLeaveTerminal`, `StatementsAreNotEarly`,
`StatementsFollowContract`) carry the row; `WakeSound` and `LifecycleMoves` carry
the loop.

What a process *reports* is made in one step and has to stay true while others go on
writing. `RowStaysTrue` says why it does: a report is about columns that are written
once or about a terminal row. What is left is that a report is true when it is made,
and for that `TruthInv` adds to `Inv` what each process carries there:

- `LivesAreTruthful` – the pass id a lifecycle carries from its last read is the one
  the Run records, what it returned is true, and a lifecycle that is about to cancel
  a pass has already ended the Run over it. `CancelledPasses` follows from it at
  the one action that cancels.
- `GrantsHold` – whoever was granted the Run holds its token, and so does every pass
  with an attempt in flight. A prompt report that matched nothing is then about a
  terminal Run: with its token in place the Run cannot be waiting for a claim.

### Claims (`ClaimPoolProofs`)

A claim or an acceptance finds something of a row in one statement and commits it in a
later one. `Exclusive` is the row lock, and `Holds` what the finding says of a locked
row; it stays so because every other writer of that row waits. `SoundRow` and
`Placed` keep each Run in the contract's order. The rest ties requests to rows:
`Told` says which request was told it holds which Run, `Owned` that the token of a
Run was minted by one request, and `Presents` that a submission whose token matched
nothing presents one that is no longer being minted, so that it cannot come to
match while its rejection is on the way out.

`DecisionsStand` is what `Holds` says of the transactions that found something; it
is a fact about every later step of every other request, which is why it needs
`Exclusive`. The refinement is over rows, as in `RunLifecycleProofs`: `StepsOfARun` shows that a step of the pool is, for each
Run, a statement of `RunRow` or a stutter, and `RowKeepsItsContract` that each
statement is a step of the contract.

### Ingress (`IngressProofs`)

A decision is read at one step and committed at a later one, so what has to be
carried is that what was read is still so. `OneHolder` is the advisory lock;
`SoundDecision` says what an uncommitted decision knows of the committed Runs, and it
survives the one writer that takes no lock, whoever ends a live Run from outside,
because that writer waits for the rows the decision updated. `InOrder` puts the
canonical state of the decisions in order: a holder fetched inside the lock, after
the last commit. `Holding` ties a transaction to its delivery and its attempt,
`Born` a Run to its creator, `Behind` a workflow to its ledger row; without these
`OneRun`, `LastDecisionStands` and `DoneIsItsRun`, which complete the invariant, are
not inductive. `ConcludedStay` and `DecidedMoves` then give the two action properties.

### Sandbox (`SandboxProofs`)

Launches share only the cache and the quarantine, and no step takes the quarantine
back, so the invariant speaks of one launch at a time (`Sound`): what the daemon can
have of it at each point of `launch()` and `destroy()` (`SoundLaunch`), what the host
side can hold (`SoundAccess`), and what has quarantined the runtime (`SoundEnd`). A
step of one launch leaves the others sound (`OthersStaySound`). `RunsOnItsHost` is
in it because the capability a launch was admitted to is the one its own report of
the instance gave, whatever the cache has come to say since.

### Worker (`WorkerProofs`)

`WorkerSpec` interleaves Worker core, the Pass and the `Sandbox` they run in, and a
caller takes two steps `Sandbox` alone does not have: it asks for the capability while
the Sandbox is open, and it occupies the instance. `AskingKeeps` and its sibling show
that these keep `SandboxInv` too, so the provider's promises carry over
(`WorkerReceiptsAreTrue`). What is new is that three automata agree on where they are:

- `Tied` – `execute()` and the Sandbox: a running instance from materialization to the
  Pass, teardown after it, and no answer while anything of it still stands.
- `Paced` – the Pass has begun only where `execute()` waits for it, and holds nothing
  before its preflight has passed.
- `Answers` – a refusal comes before the Pass and a result only with a receipt that the
  instance is gone.
- `Checked` – a Codex bundle that was let through has passed the cross-check Worker core
  will make, so Worker core never refuses one (`AdapterAgreesWithCore`).
- `Permitted` – the dispatch matrix was asked about the capability of *this* instance,
  from the report it runs under. Between the first resolution and the second the
  host may change; the theorem rests on the report being the instance's own.

For the refinement each step is, for each execution, one of four `Moves`: nothing the
contract sees, the answer, the entry into the Pass, or a move of the Sandbox that its
teardown entitles it to. A move elsewhere is `Beside` it.

### Composition (`CompositionProofs`)

Seven answers read at seven moments do not add up by themselves. Four of the checks
(`Lasting`) answer for something no statement of `bootstrap()` or `migrate()` takes
back (`BootstrapLasts`, `MigrationLasts`, `GrantsLast`), and those four suffice
(`FourChecksSuffice`). `Measured` carries them through an attempt that nobody
disturbed, `AskedFirst` says that an attempt which serves has asked them all, and
`Remembered` that the memo names an attempt whose failure can only clear its own memo.

### Migrations (`MigrationsProofs`)

`HistoryInv` is about journals: every branch is a journal at least as long as its base,
main's times only grow, and a ledger holds the rows of migrations `1 .. k` of main *as
they are committed*, each once as long as no two runs overlapped (`OneByOne`). A run
under way read main and the newest row at some earlier length of each (`ReadAt`,
`RunsBehind`), so what it appends continues that history or repeats rows already in it.
With that `NeverStranded` is arithmetic, since a verified merge only appends and
drizzle's comparison with the newest timestamp then selects `j + 1 ..` for some
`j <= k`. `DeploymentInv` adds what the tables are: `Approved` says that main was
verified as it is, and `Deployed` that, unless a row is duplicated, the tables are one
fold of Postgres over migrations `1 .. k` from a fresh database, however many runs of
migrate it took. A run that applied a migration twice duplicated its row, so the boot's
fourth refusal is just what `Deployed` needs.

What remains is that the walk over the *text* agrees with the database. Both are folds,
of different steps over different selections of files, and the argument is

1. A fold is a trace (`IsTrace`): a function on `0 .. n`, each value made of the one before. A step
   becomes a function on pairs, so that the lemmas quantify over a set of pairs and not
   over an operator (`Induction` is over the naturals, by well-foundedness).
2. Folding the concatenation of the files is folding file by file (`FileByFile`), a
   later migrate goes on where the last one stopped (`FilesGoOn`), and a file without
   statements the step reads can be skipped (`FilesMayBeSkipped`).
3. The grammar lets no file but the generators' hold a FORCE statement, so skipping the
   others loses nothing, which is what lets `ForceState` read fewer files than Postgres runs.
4. `Agrees` relates the walk to the table statement by statement (`StepAgrees`) for a
   table no migration drops; `WalksAgree` carries it through the history.
5. `GrammarHolds`, `ForceHolds` and `BoundaryHolds` of the approved main then say what the tables are.

`ForceDelta` writes its statements through a finite set of tables made into a sequence, which is
why `MigrationsAssumption` asks `Tables` to be finite: the schema module is a list.

### Gate (`GateProofs`)

The pointer outlives the plan, the batch and the ledger it was planned against. What
nobody rewrites is the report, so the invariant is about reports: a valid report of
a batch of the policy's budget was observed whole (`SoundReport`, from
`ValidBatchIsObserved` and the count in `CandidateTrials`), and a batch that runs was
arranged as its kind demands (`Arranged`).

`OnlyQualificationRestores` compares a ledger with itself after one decision, and what a
report counts for depends on all before it. So the evidence is taken report by report
(`Gathers`), and two ledgers that differ in a promotion one of them lacks are walked side by
side: whatever keeps the poorer one current keeps the richer one current, with a last
result no older (`AsGood`, `PromotingLessRestoresNothing`). That last clause needs the reports to be in the
order of their completion (`Timely`), or a promotion taken back could uncover a newer
result. And the decision that is scored on a lineage that is not current promotes nothing.

### Model-checked only

Liveness is out of the prover's reach and stays with TLC: `StartedLifecycleEndsTheRun`,
`LifecyclesReturn`, `Converges`, `EveryLaunchSettles`, `EveryExecutionAnswered`,
`RepairServes`. Every invariant and every action property of a passing run is stated by a
theorem. `MCWorker` evaluates two facts about `Eligibility` over all inputs of its
instance (`CrossCheckCounts`, `MatrixIsMonotone`). `DeploymentInv` was checked by TLC on the
instance of `migrations`, and `GateInv` with `Timely` on one like that of `gate`, before
they were proved.

## 6. Where the code and its documents part

Two runs each check one statement the repository makes of itself and find a
behaviour of the code that contradicts it.

- `finding_leaked_pool`: `createControlPlane` opens its pool before it constructs the
  GitHub client, whose constructor throws for an API origin that is not https. Only the
  boot checks are inside the `catch` that ends the pool, and the failed memo is cleared,
  so each request opens one more pool that nothing can reach: the outcome
  `wf/composition.ts:94` says the memo is written to avoid.
- `finding_unscheduled`: a `processDelivery` attempt that dies after its transaction
  committed is retried, finds its row terminal, and reports no Run. The workflow
  finishes; the Run it created stays `queued` with no lifecycle, and its claim
  window is closed by nobody.

Smaller ones, met while modelling. The models follow the code; no run checks them.

- The claim and Result endpoints answer 503 with "nothing was claimed" and "the Run is
  unchanged" whenever the call threw, which includes a commit whose acknowledgement was
  lost (`unacked` in `ClaimPool`).
- `LifecycleOutcome.cancelledPass` is documented as null only where the Run recorded no
  pass. It is the pass of the last *read*, and `markExecuting` may land between that read
  and the transition.
- A rejected Result is documented to mean that the Run was already decided
  (`wh/placement.ts`). One refused as `malformed` leaves it to its deadline.
- Every lost write is documented to be followed by a read that returns
  (`wf/lifecycle.ts`). A claim that read its clock before the deadline can land after
  it, and the lifecycle that lost to it sleeps again; it does still return.
- ADR 0006 has any authenticated contact refresh a Worker's liveness; only a claim
  writes `lastSeenAt`, in the transaction that a broken claim takes back. A
  revoked Worker should get a structured response and stop; a revoked credential is
  answered like an unknown one.
- `bootstrap()` is documented to take away only what the boot checks refuse. It also
  takes `CREATEDB` and `CREATEROLE`, which no check looks at.
- Two overlapping `migrate()` calls that read the same newest row can both apply a
  migration of idempotent statements and append its row twice. The boot check then
  refuses the ledger, and no later `migrate()` mends it. `NeverStranded` says that this
  takes an overlap, and `Migrations` reaches it.
- `force.ts` follows FORCE over `ALTER TABLE`, and takes no notice of a table that is
  dropped and created again.
- ADR 0018 and `report.mjs` say that only evidence about the standing revision counts.
  `lineageStatus` takes any decisive requalification, so one that finishes after its
  baseline was replaced is evidence in the new baseline's lineage.
- Scoring a comparison that was already promoted a second time overwrites its recorded
  decision with a refusal, and a crash between the report and the pointer leaves a
  promotion no pointer follows (a later scoring repairs it).
- A rebase checks neither freshness nor lineage, so the new baseline stands as current
  on evidence measured for the old one.

## 7. What is left out, and why

- **Tenants.** Every model but `Boundary` has one Owner; row-level policies are assumed
  there and modelled here as what a catalogue lets past. A read that finds no Run
  (`unknown_run`) occurs only in `ClaimPool`.
- **Hosted placement that is not composed** (`not_composed`, an optional peer that
  does not resolve): nothing is written.
- **Data**: findings, usage, provenance, profiles, request parsing, signatures,
  identity upserts, the Repository scope cache (which no branch reads), and the
  cancellation reason.
- **Error classes.** `outcomeForFailure` reads SQLSTATEs; `SettleBroken` allows both
  classes it can produce.
- **A push back to the head of a superseded Run** yields `duplicate_head` and no
  review. That is the documented rule ("no carve-outs"), and `Agrees` counts
  any Run at the head as agreement.
- **Traffic through the proxy and a port**, and the limits on it: one is about bytes,
  and one about a relay whose limit of sixteen connections counts a connection that
  was closed inside until the host side notices.
- **An effect after its answer** in the sandbox: a daemon that acts on an invocation
  whose client was killed does so before the next invocation of that launch reads it.
- **SQL text and column privileges** in `Boundary` and `Migrations`. In `Boundary` a
  table is created, classified and forced, and never dropped. `Migrations` drops tables,
  and `DeployedIsDeclared` says nothing of one that was dropped, because the walk does
  not read `DROP TABLE`.
- **The founding merge**: the first journal is merged and applied when `Migrations`
  begins.
- **A probe that ages while it is checked**: a report of the host that is fresh when
  `codexCapability` resolves stays so until `checkCodexSandbox` has ended.
- **A relay that ends on its own** does so only while its Sandbox is open or closing, and
  a Pass opens the proxy at most once per Sandbox.
- **The surface issue and the probe cache** of `tools/`: listing and creating the
  issue is not atomic, and a measurement's age is read twice; neither reaches a
  baseline.
- **Not modelled**: observation (reads one snapshot), user authentication
  (configuration of a library), wire schemas (declarations), provenance, profiles and
  the App manifest (pure, no state), the applications and the command line, and the
  tools that only inspect the workspace's own packages.

## 8. Plan

Written, in this order: `RunRow`, `RunLifecycle`, `RunContract`, `Ingress`,
`RunLifecycleProofs`, `Sandbox`, `Eligibility`, `Worker`, `WorkerContract`, `ClaimPool`,
`Boundary`, `Composition`, `GateEvaluation`, `GateLedger`, `Gate`, `MigrationHistory`,
`Migrations`, and the proofs of `Sandbox`, `Gate`, `Composition`, `Ingress`, `ClaimPool`,
`Worker` and `Migrations`. Worth adding next, most important first:

1. Several pull requests over one pool of Runs: `Ingress` and `ClaimPool` composed.
2. `WorkerContract` and `RunContract` joined: what a Worker's answer does to the Run it
   claimed.
