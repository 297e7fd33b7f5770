# ASCodex coordination: a TLA+ model

ASCodex is a research campaign runner built on a vendored Codex agent. A Chief
thread decides, workers are spawned with signed briefs, a Monitor polls a
platform read-only, and a guard stands in front of every submission. What the
parts agree on is in one SQLite ledger (`solver-guard`). This directory models
that ledger and the processes around it, model-checks the models with TLC and
proves their safety properties and refinements with TLAPS.

Paths below are relative to `src/`; `guard` is
`codex/codex-rs/solver-guard/src/lib.rs`, `coordination` is
`codex/codex-rs/ascodex-coordination/src/`.

## 1. Inventory

| component | state it keeps | operations | talks to |
|---|---|---|---|
| event log (`guard` 5124–5203) | `coordination_events`: id, key, aggregate, version | optimistic, idempotent append | called inside every audited transaction |
| reconciliation (`coordination/reconciliation.rs`, `guard` 2471–2709, `bin/observation_admin.rs`, `scripts/ascodex_reconciliation*.py`) | snapshot row, item rows, penalty rows, manifests, wake files, scheduler state file | poll, convert, batch, reduce, commit, wake, save; manual replay | shares the campaign aggregate with the Chief; writes wake files |
| leases, cycles, bindings (`guard` 2742–4126, `coordination/research_cycle.rs`, `core/src/agent/control/spawn.rs`, `bin/stage_admin.rs`, `bin/lease_admin.rs`) | `actor_leases`, `research_cycle_issuances`, `stage_brief_issuances`, `thread_cycle_bindings` | provision/revoke lease; issue/supersede/revoke cycle; bind, resolve, revoke binding; spawn | Core asks it before a spawn, a resume, a submission |
| wake pipeline (`guard` 4648–5059, `bin/supervisor.rs`, `bin/wake_consumer.rs`, `bin/wake_admin.rs`) | `chief_wake_requests`, the wakes directory | list, record, ack, rename; admin ack | reads reconciliation's snapshot and items |
| submission broker, identity pool (`guard` 4213–4642, 5061–5116, 5375–5426, `core/src/tools/handlers/solver_guard.rs`, `bin/pool_admin.rs`) | `reservations`, `reservation_dimensions`, `attempts`, `identity_pool_entries` | provision/freeze/thaw/remove; resolve, admit, prepare, release, commit | resolves the thread's cycle binding |
| Coordinator (`coordination/lib.rs` 90–1160) | campaign state, agent states, event list, bound keys; all in memory, saved as one snapshot | campaign and agent transitions by role or by context, idempotent replay, snapshot, restore | nothing yet: only its own tests call it (its comments speak of Core and app-server) |
| recovery canary (`coordination/recovery_canary.rs`, `guard` 2216–2325 and 5645–5776, `bin/canary_runner.rs`, `core/src/agent/control/spawn.rs`, `app-server/.../thread_processor.rs`) | `recovery_canaries`, the ids of a solver-mode process | probe, record; process start; preflight, own check and gate of a resume | uses the event log; a resumed thread goes on to its cycle binding |
| observation (`guard` 2327–2466, `bin/observation_admin.rs`) | `platform_observations` | record, under a registered Monitor lease | appends to the campaign that reconciliation appends to |
| auto push, leaderboard, workspace ACL, contract, trace builder, scripts | see section 7 | | |

What is hard here is not any single function but the seams:

* Each process opens its own connection, and transactions are `BEGIN DEFERRED`.
  SQLite serialises writers and refuses one whose reads are out of date
  (`SQLITE_BUSY`), so **a transaction is one atomic step or nothing**. But many
  operations read with separate statements *before* their transaction, or end in
  a plain `INSERT`: those are sequences of steps, and everybody else may act in
  between.
* Version numbers travel through files and through other processes (the batch
  predicts the next version, the scheduler stores it, the wake carries it).
* Files and ledger are updated one after the other, with crashes in between.
* Retries reuse idempotency keys, which bind a whole row including its time.
* Rules are written twice: the Coordinator's role tables once for live events and
  once for replayed ones, the canary's checks once in the app-server and once in
  Core, each with a time of its own.

What makes each part correct: the log is gapless and without reuse; tables and log
agree; the snapshot is valid, the replay of its items, and never rolls back; one active
cycle, no brief or admission outlives its cycle; a wake is recorded only for an applied
fact, moved aside only when acknowledged, and eventually moved aside; reservations
respect budget, cadence and quota; a Coordinator snapshot can be restored, and a command
takes effect once; a process resumes threads under its own canary only. Where the code
falls short of one of these, the property says what it does ensure, and section 3 says
what is missing.

## 2. Modules

| module | models | instance / proofs |
|---|---|---|
| `CoordinationEvents` | the event table and the append; extended by all others | `CoordinationEvents_proofs` |
| `Reconciliation` | poll → item → reducer → transaction → wake → state file; observations and the Monitor's lease | `MCReconciliation`, `Reconciliation_proofs` |
| `CycleBinding` | leases, cycles, briefs, bindings, spawn, resolve | `MCCycleBinding`, `CycleBinding_proofs` |
| `WakePipeline` | wake files, record, ack, rename | `MCWakePipeline`, `WakePipeline_proofs` |
| `WakeDelivery` | what the wake pipeline promises a Chief (abstract) | implemented by `WakePipeline` |
| `Reservations` | identity pool, admission, reservation life cycle | `MCReservations`, `Reservations_proofs` |
| `Coordinator` | the campaign and agent state machines, their callers, snapshot and restore | `MCCoordinator`, `Coordinator_proofs` |
| `CampaignPromise` | what the Coordinator promises those who command it (abstract) | implemented by `Coordinator` |
| `RecoveryCanary` | canary runner, ledger row, process, the ways into Core and their checks | `MCRecoveryCanary`, `RecoveryCanary_proofs` |
| `Induction` | nothing of the program: induction over the natural numbers, for the proofs about replays | |

A table is a set of rows or a function to rows; a file directory likewise; a
process is a record with a program counter. Operators keep the code's names.

**CoordinationEvents.** An event has an id, a key, an aggregate, one abstract
body (type and payload) and a time. `Appends`, `Replays` and neither are the three
outcomes of `append_event_in_transaction`; a bound key replays only on an identical
row.

**Reconciliation.** One challenge and stream. A response is its hash; `Page` gives
the typed entries of a response. `ReconciliationFacts` is reduced to the fields
`validate` relates (raw and effective score, penalty basis, evidence, trace,
rescore). `ApplyOutcome` has the reducer's early returns in order, `Folded` is the
state it computes. `LoadAndReduce` is separate from `CommitApplied`, as in the
code. `NextExpected` is the version prediction of `reconcile-batch`.
`ReplayManifest` is an operator running the admin binary on a saved manifest.
`RecordObservation` is the operator's `record` command, whose transaction looks the
Monitor's lease up; `RevokeMonitorLease` is the lease's end. `ChiefDecides` is any
other append to the campaign. `Rebuilt` folds the item rows in version order; it is
the reference that `SnapshotIsReplay` compares the stored snapshot with. Scheduler and
admin binary are two writers, and nothing locks one out while the other is between its
load and its commit. `overtaken` is history: the versions of the items that were
recorded in between, which the commit's snapshot lacks. It is what the properties about
the snapshot have to except, no more.

**CycleBinding.** One campaign. `todo` lists the reads that a spawn, bind or
resolve has yet to make; every read is a step. `dead0` is a history field: what was
revoked when the call began. Records are complete and hashes match: `CycleValid`
keeps deadline, roles and the outcome/directive table.

**WakePipeline.** The order of file names is unrelated to the order of facts (a
wake id is a digest). `Offsets` says what version a wake file carries relative to
its fact: 0 is what the ledger demands, 1 is what the scheduler writes today
(finding 1 below). `wake_pipeline` allows both; `wake_crash` uses 0, so that it speaks
about the pipeline itself and not about finding 1 again.

**Reservations.** A submission reads its time, then the pool in two queries, then
reserves in one transaction and releases in another; `Executors` commit instead. The
ledger's own API has two entries without an identity: `Reserve` (`Ledger::reserve`)
passes time 0 and interval 0, so that its rows are stamped 0 and no cadence is checked;
`ReserveWithCadence` brings the clock and an interval. Both bring a budget of the
caller's own (`CallerBudgets`, `CallerIntervals`), and nothing ties it to the policy.
What such a row still does is count against everybody's budget and, until it ends, stop
every submission that has a quota. `barred` is a history field: the identity was barred
when the call began and ever since; `given` is another: the quotas an identity has had,
from the policy file or an operator, because the one a submission read may be out of
date. The gates on files, trace and model are a nondeterministic `Deny`. `Cost` counts
the dollars of a set of reservations, one by one: it is their sum, without a recursion.

**Coordinator.** One campaign. A call is what an agent has decided and with which
version, id and key; between `Decide` or `Retry` and the answer everybody else may
act. `Commits` and `Answered` are the two good outcomes, in the code's order of
checks; `Refuse` also stands for a lease outside its window. The live role tables
(`RolePermits`) and those of replay (`ReplayPermits`, with the labels that
`campaign_event_from_debug` knows) are two definitions, because they are two pieces
of code that must agree. An event is stored as text, `agent:{id}:{event}`, which
replay splits at the first colon, and a registration demands of an id only that it is
not empty: `Name` gives an id as its parts between colons, `AgentBody` writes the
label, `Reparsed` reads it back, and `Readable` is that both agree. `Orders` bounds which
agent events are decided on. `RoleEntry` says which operations are called by the
role-only entry: with `transition_campaign_with_context` no campaign gets past
Executing (finding 4), so the main run takes the role-only entry for campaign
events and the context-bound one for agent events. Versions are positions in the
event list. `by` is history: the record has the role only.

**RecoveryCanary.** Times are in units of 10 ms, so that the offsets which
`build_recovery_canary_trace` makes up are small integers. A trace keeps what
`RecoveryCanaryTrace::validate` relates: attempt, start, deadline, phases and
times. `Skews` is an operator's `--now-ms`. Ids come from command lines, so runner
and process choose them independently and may choose them again. A thread is a root
thread or the child of a V1 or V2 history (`Kinds`). It comes to Core's `Gate` from the
app-server's preflight, from Core's own load of a child (`OwnCheck`), or, reverted,
from nowhere. The gate looks a canary up for V1 children only and lets the others pass, as
`admit_resumed_v1_solver_thread_with_gate` does. `checked` is history: when a lookup
last passed for the thread. A ledger that cannot be opened, a missing variable, and what
follows the gate (binding, contract, brief) is `Refuse`, else `Rehydrate`.

## 3. Runs

Passing runs:

| run | instance | shows |
|---|---|---|
| `reconciliation` | scheduler and admin binary, 2 attempts, 4 pages, 3 polls, a Chief decision, observation or revocation, 1 crash | log, items, observations and penalties agree; the snapshot is valid, equals the replay of all items that no writer overtook, keeps their penalties, and never rolls back but for an overtaken item |
| `cycle_binding` | 1 Chief, 1 child, 2 cycles, work and abort decisions, 2 processes, 1 foreign event, clock 0..1 | briefs die with their cycle, bindings are genuine, what was revoked before a call is denied; replay of the log gives the one active cycle; supersession is legal |
| `wake_pipeline` | supervisor, consumer, 2 wakes, 3 facts, crash, admin ack, fair | rows and log agree; a recorded wake names an applied fact; consumed is acked; no failing file is skipped; a file is consumed unless disturbed; implements `WakeDelivery` |
| `reservations` | 2 identities with own owners, 2 submitters that release or commit, 3 reservations, budget 2, interval 2, any 3 ticks, pool events, callers' rows and crashes | budget, cadence and concurrency of submissions; a barred identity is denied; pool and log agree |
| `coordinator` | Chief, 2 Solvers, one with a colon in its id, Judge; new, ready and scored campaigns; 3 commands, 2 calls at once, 1 retry, save and restart | a snapshot restores exactly when all its events read back as written; a repeated event is answered; scores follow dispatches; agents speak for themselves; implements `CampaignPromise` |
| `recovery` | 2 runners, attempts 0, 1 and 2, 2 recoveries, 2 runtimes, 2 boots, wrong times, a root thread or a child | a resumed thread had a lookup of the process's own canary, a V1 child at the moment of its admission; row and event agree; a canary lives exactly its five minutes |

Runs that show the code disagreeing with its documents, comments or tests (the
findings in `PROJECT.json`, with quotes):

1. `reconciliation_wake` – the batch's version prediction is one too high
   (`observation_admin.rs:216`): two-item batches conflict and no wake file can be
   recorded.
2. `cycle_closure` – an approval may supersede any cycle; the guard tests the
   previous directive.
3. `wake_crash` – a retry after a crash presents a new time under the old key and
   fails for ever.
4. `coordinator_context` – the context-bound entry demands `Action::Decide`, which
   only the Chief has, before it asks which role may raise the event: the events of
   Solver, Monitor and JudgeAnalyst are refused to everybody.
5. `reconciliation_lease` – a reconciliation item is recorded after the Monitor's lease
   was revoked: `apply_platform_reconciliation_audited` validates the context file it is
   given and does not look the lease up, as the observation's transaction does.
6. `reconciliation_race` – the snapshot is read outside the transaction that replaces
   it, and replaced without a comparison. An item that the admin binary records between
   the scheduler's load and its commit is in the audit rows and not in the snapshot, for
   good: its key is bound, so a replay of its manifest is a no-op. The version check of
   the append would catch this, were the expected version not one ahead (finding 1).

Further behaviours of the code that these models reach:

* A reservation whose process dies between prepare and release stays reserved: no
  operation ends it. (`reservations` has such crashes; the limits hold around it.)
* Two calls of `Ledger::reserve` for one owner and challenge may follow each other at
  once: no cadence is asked for and both rows are stamped 0. `CadenceHolds` is about
  submissions.
* An agent whose id has a colon makes the snapshot unrestorable with its first event:
  the event is committed, saved and refused by `from_snapshot` (`coordination/lib.rs`
  652, 851, 916). `SnapshotRestores` says that nothing else does.
* A page that did not change, polled again, is refused by the reducer (the duplicate
  test compares the item with its cursor) and fails the cycle.
* A spawn may insert its binding after its cycle was revoked; `RevokedIsDenied` says
  that such a row never admits anything.
* A supersede between loading the brief and binding the child leaves a worker with the
  old cycle's brief, bound to the new cycle; `BindingIsGenuine` says that the brief is
  the same Chief's, for the same role, and never newer than the binding.
* A wake whose fact was overtaken before it was polled is never recordable, and every
  pass stops at it; this is a disturbance in `UndisturbedWakeConsumed`.
* A recovery gets one canary. `ascodex-deployment-plan.md:30` asks for an incremented
  attempt when a run is repeated, but `expected_version: 0` (`canary_runner.rs:97`), a key
  without the attempt and the primary key refuse every further one. After its five
  minutes only other ids help. `CanaryMatchesLog` does not depend on it.
* A root thread or a V2 child may be admitted after its canary expired, the lookup having
  been earlier; `thread/revert` starts a thread again without any preflight, and for
  these kinds without any lookup (`spawn.rs` 1564–1577).
* `recovery_canary.rs:99` reserves formal work to a trace that ends in `Active`;
  `record_recovery_canary` accepts only traces that end in `CanaryPassed`, and nothing
  persists the two phases after it. A mutant that demands `Active` admits nobody.
* A process restarted with the ids of its predecessor is admitted by its predecessor's
  canary, although `guard` 2307 says that "A canary from a prior process cannot be
  replayed to authorize the current runtime": the ledger knows ids, not processes, and
  so does `ResumedUnderOwnCanary`.
* An agent other than a Chief or Solver may not report its own crash, and nobody else
  may: only the Chief's `Abort` is left for it.

**Bounds.** Two of each actor suffices for the races, because every hazard listed is
between a pair of steps of two actors (or of one actor and a crash). Three polls give
*unverified, confirmed, penalised* and every repetition; the two-entry page gives a
batch that fails half-way. Interval 2 with clock 0..2 allows times behind, at and beyond
the cadence limit. Three reservations exceed the budget of 2. Ticks, pool events,
callers' rows and crashes share one bound (`MaxDisturbances`), so that a quota is out of
date in one behaviour and a time in another, and each beside a crash. Bounded counters
(`Max…` constants) sit in guards; where they end a behaviour the cfg says
`CHECK_DEADLOCK FALSE`. A campaign takes nine events to its score: the Coordinator
starts from three stored pasts (new, ready to submit, scored), so that three commands
reach every campaign state but `EvidenceReady`, which the stored pasts go through, and
the second round of a replan. The recovery run's time steps are a moment, exactly the
canary's window and one unit more; the skews put a runner's clock ahead so far that its
pass is observed just now (7) and just not yet (8). Symmetry is used only in safety runs
and only over sets that no operator orders or singles out.

**Fairness.** `WakePipeline!Fairness`: the supervisor loops for ever with a bounded
back-off, so listing and the steps of a pass are weakly fair; a one-shot consumer
that has started runs on; nobody has to start one, apply a fact or act as operator.
No other model has liveness properties. The temporal finding (3) is found under the
same fairness.

**Refinements.** `Coordinator` implements `CampaignPromise`: the fifteen campaign states
map to six stages, the event list to the set of commands that took effect and their
number, the saved snapshot to what is kept. Keys, versions, leases, retries and running
calls disappear. `effects` counts what `done` collects, so a command that took effect
twice is no step of the promise. `WakePipeline` implements `WakeDelivery`: file, row and
log of a wake map to one of five stages, the log also to the number of acknowledgements;
crashes, failed passes and racing processes are stuttering.

Each property of a passing run has a mutant, an operator next to the definition it
replaces ("Mutant: …"), under which TLC finds the property violated.

## 4. Proofs

Every invariant, action property and refinement of a passing run is also a theorem,
proved for all sets of processes, agents, identities, pages and so on and for all
bounds; only the one liveness property is not. The runs show the properties on
small instances; the theorems need no bound and no argument that two of each suffice.
Each inductive invariant was checked by TLC, on the instance of its run, before it was
proved.

**Assumptions.** The named `ASSUME`s of the models, which TLC evaluates in every run:
types of the constants; that `None` is none of the values it stands beside; that a page
names an attempt once (`PageAssumption`: the converter rejects others); that an item, an
observation and a Chief's decision are different payloads (`ObservedAssumption`); that
agents are registered once and stored events are about known agents (`BootAssumption`,
`PastsAssumption`). Two theorems have a hypothesis of their own:

* `Limited` (the policy has a pool, and every quota limits concurrency) for
  `ConcurrencyKept`: without a pool or a limit the code checks nothing.
* `"agent" \notin RoleEntry` for `SelfActionsOwn`: the rule is one of the context-bound
  entry; by the role-only entry a sibling may speak for an agent.

**The event log.** `CoordinationEvents_proofs`: an append at the current version keeps
the log numbered 1..n and free of reuse (`AppendNumbers`, `AppendUnique`), for any rows;
the appended row is the last.

**Reconciliation.** `TypeCorrect`, `LogIntact`, `RowsAudited`, `SnapshotStaysValid` rest
on `Inv == TypeInv /\ LedgerInv`. `TypeInv` adds to `TypeOK` what the program counter
says about the batch: the index is within it, and a writer that is about to commit
**holds a typed and valid snapshot**. `LedgerInv` is the numbered log, unique rows, the
correspondence of item and observation rows with events, and validity of the stored
snapshot. The writer's part makes it inductive: a commit stores a value computed
earlier, from a row that may have been replaced since, so validity must be carried by
the writer. None of this uses the predicted version, which is why it holds although the
prediction is wrong (finding 1). `SnapshotReplayed`, `PenaltyKept` and `NothingRolledBack`
hold for any number of writers as well. `SnapInv` adds `Pending`: what a writer is about
to store is the fold of its item into the snapshot *of the version it loaded*, which is
the replay of the rows up to that version without those overtaken by then. When it
commits, the rows in between become overtaken, exactly those. `FoldKeeps` gives
`NoRollback` for a commit that has no rows in between.

**Cycles and bindings.** `TypeCorrect`, `ActiveReplayed`, `SuccessorsLegal`,
`NoOrphans`, `BindingsGenuine`, `RevokedDenied`. A spawn makes seven reads before its
`INSERT`; `CallOK` says which facts a call carries at each step of its `todo`. They stay
true because an issued cycle is never replaced and only becomes revoked (`Grows`). That
a worker's binding is not older than its brief needs that the active cycle has the
latest version of all (`VersionsOK`), and that no two spawns have the same child
(`SpawnsApart`).

**Wake pipeline.** `TypeCorrect`, `RequestsAudited`, `RecordedNamesFact`,
`ConsumedAcked`, `NothingSkipped` and the refinement `Spec => ImplementsDelivery`. A pass
carries what it established from one transaction to the next, the fact it checked and
the acknowledgement it saw; `PassesOK` says that nobody can take that away. Each action
is then a step of `WakeDelivery` or a stutter, and an acknowledgement is counted once
because the log has one event per version.

**Reservations.** `TypeCorrect`, `BudgetKept`, `CadenceKept`, `ConcurrencyKept`,
`BarredDenied`, `PoolAudited`. The limits are checked in the
transaction that inserts, what a submission brings into it was read earlier;
`SubmissionsOK` says what of that is still true. Sums and counts need that there are
finitely many rows (`FiniteRows`) and that two submissions never hold one reservation
(`HeldApart`); concurrency, that a submission's quota is one its identity was given
(`GivenInv`). The ledger's other callers are in the model with any budget and
interval; `CadenceKept` and `BudgetKept` are about the rows that submissions wrote.

**Coordinator.** `TypeCorrect`, `Restorable`, `RetriesAnswered`, `ScoresFollow`,
`SelfActionsOwn` and the refinement `Spec => ImplementsPromise`. `Replay` is a recursive
function of the event list; `ReplayAppend` says that replaying one event more is one
more `replay_event`, `SameTables` that the two copies of the role tables agree, and
`ReadBack` which labels are read back as they were written, hence a committed event of a
readable label keeps the snapshot acceptable (`AcceptsGrows`). `ReplaySound` is an
induction over the list: an accepted log is legible, of the right types and in the order
of a round (`RoundOK`: plan, transport, dispatch, score, verdict, review, as far as the
campaign has come). The invariant keeps acceptance for legible logs only, so the order
of a round is carried on its own, through logs that no restart would accept. The
invariant about the callers is `CallOK`: a call is a command decided at the version its
id names, which its caller has not committed since, or a repetition of one that it has.
So a key that is in the log is there with the caller's own record, and a repetition
never commits again.

**Recovery canary.** `TypeCorrect`, `OwnCanary`, `CanariesAudited`, `LifetimeExact`. A
canary is validated again, with another clock, each time it is looked up;
`CanariesGenuine` says that a stored trace is the one its own row's attempt and time
build, so that the whole validation comes down to two comparisons with the reader's
clock. `CheckedOwn` and `GateChecked` carry what a lookup found to the admission, which
may be steps and a revert later.

**Induction.** `Induction` derives induction over the numbers from the library's
well-foundedness of `<`, for sets instead of predicates (the library's own induction
theorems take an operator, which the provers cannot instantiate). A recursive function
is used through its defining equation: by induction there is a function that satisfies
it, so the one chosen does, and two such functions agree on a common prefix
(`ReplayExists`, `ReplayAgree`; `RebuiltExists`, `RebuiltAgree`).

Model-checked only: `UndisturbedWakeConsumed`. It is a liveness property, and fairness and
`ENABLED` are out of the prover's reach.

## 5. Where the models abstract

Hash checks of stored JSON, identity columns that every query compares (session,
agent, campaign), SQL errors other than the modelled refusals, and payload text are
left out: a mismatch is an early return without effect. Floating-point scores and
costs are small integers. `SQLITE_BUSY` is a refused transaction. Ids that the code joins
out of several fields (of a canary's, a pool's or a wake's event) are tuples, so that
two of them are equal only when their fields are; the Coordinator's labels, which are
taken apart again, are not.

## 6. Plan

1. `detect_stuck`, `AutoPush` and `Policy::admit` as pure operators against reference
   definitions.
2. A composition of `Reconciliation` and `WakePipeline` in which the producer is the
   real scheduler, replacing `Offsets`.
3. Proofs: that the pure operators of (1) meet their references for every input, by
   `Induction`; for the composition of (2), that each component's theorems carry over.

## 7. Not modelled

* Leaderboard confirmation: one transaction, append and insert, of the shape of
  `RecordObservation` but on an aggregate of its own, with nothing else that reads or
  writes it.
* Auto push, `detect_stuck`: decisions without state and, today, without a caller.
* Of the Coordinator: `AttemptState`, messages, receipts and OODA records, which no
  operation of it uses.
* Stage brief, contract and workspace ACL validation, trace builder, policy parsing
  and signatures: predicates over files without state.
* Scripts other than reconciliation, the runtime launcher: I/O and packaging.
* Upstream Codex: vendored; only ASCodex's changes in its spawn path and tool handler
  are modelled.
