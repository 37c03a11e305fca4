# CodeFleet in TLA+

A verification project for CodeFleet (`src/src/`): TLA+ modules of the parts
that keep durable state, TLC configurations that check them on small instances,
and TLAPS proofs of the properties that matter most for every instance. Paths
below are relative to the repository's `src/` directory; `controller.mjs:148`
means `src/alpha/controller.mjs`, line 148.

- [1. The system](#1-the-system)
- [2. Modules](#2-modules)
- [3. Runs](#3-runs)
- [4. Fairness](#4-fairness)
- [5. Proofs](#5-proofs)
- [6. Findings](#6-findings)
- [7. What is left out](#7-what-is-left-out)
- [8. Plan](#8-plan)

Run from this directory: `tlc -workers 2 -config MCTaskRun.cfg MCTaskRun`,
`tlapm TaskRunProofs.tla`. The tables of section 1 name every part of the system; which
of them are modelled, and how completely, is in section 2 and, part by part, under
`components` in PROJECT.json. What is left out and what is next is in sections 7 and 8.

## 1. The system

CodeFleet drives AI coding agents under supervision. Two generations live in one
tree. The **alpha / product generation** (`*.mjs`) keeps everything in one
SQLite database: runs, workflows, product tasks, decisions. The **ledger
generation** (`*.ts`) keeps append-only JSONL ledgers and JSON artifacts under
`.codefleet/`. Both share the idea that a model's output is data and that state
changes only through a fenced, recorded decision.

### 1.1 Alpha and product generation

| component | state it keeps | operations | hard behaviour | what makes it correct |
| --- | --- | --- | --- | --- |
| Run store `alpha/store.mjs` | table `runs` (body, owner, leaseUntil, pid, control), events, artifacts | claim, heartbeat, save, release, control | two processes, clock changes, crashes, pid reuse, a clock read before waiting for the write lock | one writer at a time; an observed loss is final; an abandoned run can be claimed again |
| Run coordinator `alpha/controller.mjs` `execute` | in-memory `run`, saved to the row | recover, baseline, attempt loop, verify, deliver, catch | stale workers after every await, crash between reservation, call and settlement, transaction refused | budget and cost never understated; evidence bound to its candidate; completion final |
| Delivery `alpha/delivery.mjs` | GitHub branch and pull request | look up, create, reconcile | lost answers, foreign branches, deleted branches, cancellation in between | nothing sent without a durable intent; found again by content |
| Judge and evidence `alpha/judge.mjs`, `verification-*.mjs`, `evidence.mjs` | evidence artifacts | verdict, binding checks | evidence of another candidate | ACCEPT only for what was verified |
| Workflow coordinator `alpha/controller.mjs` `executeWorkflow`, `workflow/persistence.mjs`, `workflow/definition.mjs` | workflow body, `workflow_approvals`, `workflow_attempts` | approve, revoke, revise, reserve, launch, finish, reconcile | overlapping coordinators, children in flight at a takeover, revision between approvals | an attempt is never replayed; only verified children count; dependency order |
| Capability policy and collaboration `workflow/capability-policy.mjs`, `collaboration.mjs` | policy in the body; messages | hold back, delegate, send, receive | delegation outliving its owner | messages only from live roles |
| Operator ledger `hosts/operator.mjs`, `workflow-authorization.mjs`, `bootstrap-operator.mjs`, `operator-runtime.mjs` | requests, decisions, dispatches; challenges | request, decide, consume, execute | reservation and effect in two steps; expiry; revocation race | a grant is used at most once |
| Host exchange `hosts/exchange.mjs`, `planning.mjs` | requests and responses in tables | issue, submit, stage | duplicate or stale answers | an answer is used for the request it names |
| Product tasks `product/tasks.mjs`, `contract-revisions.mjs`, `workflow/bootstrap*.mjs` | `product_tasks` (revision CAS), filesets as runs | draft, review, prepare, approve, reject, propose files, materialize, verify, repair | CAS loss between awaits, files changed on disk, interrupted writes | a verification is stale as soon as its files change |
| Bootstrap reservations `product/reservations.mjs` | decisions, reservations | issue, revoke, reserve, start, commit, hand off | expiry in two clocks, crash between start and commit | one execution per decision, one per repository |
| Continuation, repair, recovery `product/continuation.mjs`, `repair.mjs`, `recovery.mjs` | nothing of their own | next step, bounded repair, projection | restart in the middle | repair budget of one |
| Intent `intent/*.mjs` | none | probe, draft, validate, compile | none (pure) | compiled contract within the reviewed scope |
| Providers, verifiers, workspace `providers/*`, `alpha/verifier.mjs`, `workspace.mjs` | none durable | propose, snapshot, verify | timeouts, cost reported late or never | seen only through their answers |
| CLIs, installation, IPC, reports | none | - | I/O | not modelled |

Interactions: the CLI and the hosts call `control`, `approveWorkflow`,
`reviseWorkflow`; coordinators call the store for every state change; a workflow
coordinator calls `execute` for each child with a `propose` callback that runs
the *coordinator's* guard; a child checks its parent's row in `cancelled()`.
Everything between two processes goes through rows of the same database.

### 1.2 Ledger generation

| component | state it keeps | operations | hard behaviour | what makes it correct |
| --- | --- | --- | --- | --- |
| Mutation engine `mutation.ts` | `locks/workspace.lock` | phases M0..M7, break lock | crash while the lock is held, lock broken while its holder runs | one mutation at a time; nothing durable before M4; repeats are no-ops |
| Task ledger `task-ledger.ts`, `task-events.ts`, `task-revision.ts` | `task-ledger.jsonl`, `revisions/NNNN.json` | approve, invalidate, replay | four writes per approval, task file edited meanwhile | an approval covers exactly what it named; succession is recorded |
| Objective ledger `ledger.ts` | `ledger.jsonl`, snapshot | create, attach, transition, reorder, import review, correct | read before the lock, replay of illegal orders | snapshot equals replay; VERIFIED only from an effective decision |
| Run pipeline `run.ts`, `review.ts`, `auto-review.ts`, `apply.ts`, `isolation.ts`, `export.ts` | run directories, run locks, worktrees | run, review, apply, discard | queue decision stale at start, crash between artifacts | a run needs an approval and a queue decision |
| Policies `command-policy.ts`, `path-policy.ts`, `risk.ts`, `required-gates.ts`, `agent-role.ts`, `redaction.ts` | none | decide | order of rules | denied beats allowed; merging only restricts |
| Agents, profile, prompt, config, yaml, cli | none | choose the adapter, resolve the profile | I/O and parsing | the adapter asked for is the one that runs, or nothing runs |

## 2. Modules

| module | models | extends / uses |
| --- | --- | --- |
| `FencedStore` | the promise of a run row to its coordinator: numbered grants, one in force, only it commits | - |
| `WorkerLease` | `alpha/store.mjs` with clocks, processes and pids | refines `FencedStore` |
| `TaskRun` | `execute`, `delivery.mjs`, the judge's verdicts | - |
| `OneShot` | the promise for everything that must not be done twice | - |
| `Workflow` | `executeWorkflow`, `workflow/persistence.mjs`, `workflow/definition.mjs`, child runs as their coordinator sees them | refines `OneShot` |
| `ProductTask` | `product/tasks.mjs`: planning, drafts, review, preparation, approval, rejection | - |
| `BootstrapTask` | filesets, materialization, verification, repair and contract revision of a new project | extends `ProductTask` |
| `LocalDecision` | `product/reservations.mjs` on top of both: decisions to execute a verification once | extends `BootstrapTask`, refines `OneShot` |
| `TaskLedger` | `mutation.ts`, `task-ledger.ts`, `task-events.ts`, `task-revision.ts` | - |
| `ItemQueue` | the promise of an Objective's queue | - |
| `ObjectiveReplay` | what a ledger says: `replayObjective` of `ledger.ts`, as operators | - |
| `ObjectiveLedger` | the commands of `ledger.ts` over the mutation engine, snapshots | extends `ObjectiveReplay`, refines `ItemQueue` |
| `RunEvidence` | the summary a run hands to its review | - |
| `RunPolicy` | roles, gates, risk, command and path policies, as operators | - |
| `RunPipeline` | `run.ts` with `isolation.ts`, `workspace-snapshot.ts`, agent selection | extends `RunPolicy`, `RunEvidence` |
| `RunDecision` | `review.ts`, `auto-review.ts`, import and correction in `ledger.ts`, `apply.ts` | extends `ObjectiveReplay`, `RunEvidence` |
| `WorkerLeaseProofs`, `TaskRunProofs`, `WorkflowProofs`, `LocalDecisionProofs`, `TaskLedgerProofs`, `ObjectiveLedgerProofs`, `RunPipelineProofs`, `RunDecisionProofs` | theorems about the module each is named for | that module, `TLAPS` |
| `MC*` | constants, definitions and symmetry for TLC | the module they check |

How they compose. `TaskRun` and `Workflow` rest on `FencedStore`, which `WorkerLease`
implements. `Workflow` and `LocalDecision` implement `OneShot`. `ProductTask`,
`BootstrapTask` and `LocalDecision` are one state machine in three layers: the row
of a task, the files made for it, the decisions about verifying them; only the
third has a `Spec`. In the ledger generation, `RunPipeline` reads approvals and
queues, which `TaskLedger` and `ObjectiveLedger` write, and produces the traces
`RunDecision` reviews: `GateIsEarned` says that every summary it writes is in the
`TraceSet` that `RunDecision` takes its instances from. `ObjectiveLedger` and
`RunDecision` share `ObjectiveReplay`, so a review counts in both as replay has it.

### 2.1 WorkerLease

State: the row's columns `owner`, `leaseUntil`, `pid`, `control` and the state in
its body; the wall `clock`; what each worker holds (`grant`, the `seen` clock
reading, `lost`). `claim()` runs in one transaction and is one action. A
heartbeat is two: `BeatRead` takes `Date.now()`, `BeatWrite` runs the UPDATE with
that reading, since the statement may wait five seconds for SQLite's write
lock. `save()` is three: the reading, the statement that invalidates an expired
lease (it commits by itself), and the transaction that writes the body. The body
is reduced to the states `control()` and `claim()` distinguish.

One detail of the code the model keeps: an expired lease met *inside* the save
transaction is refused but not invalidated (`store.mjs:118-120` throws, so the
transaction is rolled back). The refused worker may then commit if the clock is
set back. That is why `LostWorkerNeverCommits` speaks of losses a *heartbeat* has
observed.

### 2.2 TaskRun

State: the row (`body`, `control`, `owner`, `leaseLive`), per worker its program
counter, its in-memory `run`, the flags of `execute`; GitHub's `branch` and `pr`;
and history variables (`calls`, `priced`, `intents`, `late`) that only properties
read. The grain is the code's own: an action ends where another process can get
in, at an `await` or at a database access. Hence `guard()` and the `save()` after
it are separate actions. `Save` has three outcomes: committed, refused by the
fence, refused by SQLite; in each the in-memory `run` has changed already, as in
the code. `Catch` reads `control`; `Record` saves what it decided.

A lease here only runs out (`LeaseExpires`): `WorkerLeaseProofs` shows that a
grant once seen to be lost stays lost, so the clock need not be carried along.

### 2.3 Workflow

State: the workflow's row, its approvals and attempts, one row per child, and
per coordinator the in-memory copy, the batch still to be reserved and the batch
in flight. Children run in the coordinator's process: a crash ends them, a
takeover does not. `Reserve` is the transaction of `reserve()`, with every check
it repeats; `Reduce` is `finish()` for the next result in reservation order;
`Heartbeat` is the timer, including its effect on the children (`Halted`), which
stops at the first child that refuses a request.

`ReadyBatch` and `Admitted` are `readyBatch` and `admitted` of
`workflow/definition.mjs` and `controller.mjs`, written as folds.

### 2.4 FencedStore, OneShot and ItemQueue

`FencedStore` is what `TaskRun` and `Workflow` assume when they write
`Fenced(w)`. `OneShot` is a per-task automaton (unused, reserved, started,
succeeded or failed); it has no action that leads out of *started* except a
settlement, so an attempt whose outcome nobody learned stays there. `ItemQueue` is
the life of a task revision in an Objective: it enters once, moves along the table
one command at a time, a canceled one never comes back; nothing is promised once
the ledger can no longer be trusted.

### 2.5 TaskLedger

State: the ledger's events in file order (`events`), whether a line of it was cut
short (`readable`), the revision files (`stored`), the lock file, and per process
the phase it is in and what the command holds: the hashes taken before the lock,
the claimed revision, the next event to append (`stage`) and the sequence number
read for it. Phases M1 to M7 of `runMutation` are `Acquire`, `Precheck`,
`Idempotency`, `Claim` .. `StoreContract`, `Postcheck` and `Release`; M5 does
nothing for a task. An append is two steps, `ReadSeq` and `Write`, because
`appendTaskEvent` reads the file for its number and then appends. An approval
goes round that loop up to three times (created, approved, predecessor
superseded), with `StoreContract` after the first.

The task file and the profile are not variables. A person may edit either at any
time, so each read of them (the hash before the lock, the feasibility check, the
copy into the revision file, the guardrails in the last replay) yields any
content. A stored contract records separately the hash it names and the content
its bytes came from.

`Fail` and `Crash` may happen before every write and in the middle of one
(`Interrupted`: half a line, half a file). `BreakLock` is `codefleet lock break`;
a dead holder's lock may be broken freely, a live holder's costs a fault and sets
`overlap`. After that nothing restores exclusion: each command's M7 removes
whatever lock file is there. The properties that need the lock therefore start
with `~overlap`; the others hold without it.

Replay is written as sets over the ledger: `Latest`, `Effective` (at most one
approval) and `Chain` (`supersededChain`).

### 2.6 ObjectiveReplay and ObjectiveLedger

`ObjectiveReplay` is `replayObjective` as operators over the sequence of events:
whether the ledger is structurally complete, the queue with the stored state of
each entry (a recursive function over the events in the order of their numbers), the
findings about events that cannot be applied, and the decision in force after imports,
corrections and overturns. `RunDecision` uses the same operators.

`ObjectiveLedger` runs the commands (create, attach, block, unblock, skip, unskip,
cancel, reorder, import and correct a review) through the phases of the mutation
engine, with the lock of `TaskLedger`. What a command read before the lock (the
task ledger, for an attachment) is in its `cmd`. After the append comes the
rebuild phase M5, in two steps: `Replay` derives a snapshot, `RebuildSnapshot`
writes it; `objective rebuild` does the same without the lock. The snapshot is
named by the size of the ledger it was derived from, which is its content hash
here. `NewRevision` is another process approving a revision of the task, with or
without its succession.

### 2.7 RunPolicy, RunPipeline and RunEvidence

`RunPolicy` holds the pure decisions: the meet of modes, the narrowing of roles,
the merge of gates, glob and command matching, path violations, risk, and the
outcome of a verification. A segment is a sequence of symbols where a star
occurs, a path a sequence of segments; the two matchers are compared with what
their patterns mean, over every small input, by the two ASSUMEs of
`MCRunPipeline` (`SegmentsMatchAsMeant`, `PathsMatchAsMeant`).

`RunPipeline` is `executeRun`: lock, approval, queue, run directory, copy of the
contract, isolated tree, plan, agent, observation (diff, file list, delta, path
policy), verification, removal of the tree, summary, release. The task file is
read three times and the approval and the queue once each, at the places where the
code reads them; `EditTask`, `ChangeApproval` and `ChangeQueue` come in between.
An edit is a path and how git sees it (tracked, untracked, too large, a link,
staged, committed or ignored). Every git command, write and removal may fail, at
the cost of a trouble. `Throw` is the way out through `finally`, `Crash` leaves
lock, directory and tree behind. `RemoveTree` is called twice, before the summary and
in `finally`; the second call has a tree to remove only after a throw.

### 2.8 RunDecision

Takes one recorded run (a member of `TraceSet`) and the files around it: bundles
by number, the local decision, the ledger, the workspace. A review is four steps
(`Number`, `Bundle`, `Refer`, `WriteLocal`) without a lock, so two reviews may
take the same number and write the same files. Import, correction and application
are planned before the lock and checked again inside it. `GitApply` changes the
workspace, `Record` says so in the ledger; a crash may come between.

### 2.9 ProductTask, BootstrapTask and LocalDecision

A task is one row with a revision. Every command reads the row, works over several
awaits and updates the row only if the revision is still the one it read, so a
command here remembers the revision (`proc[p].rev`), the run the row named and its
own input. What it does to *runs* before its compare-and-swap is not undone when
the swap is refused: `RevokeRun` and `CancelRun` come before `CommitReject`,
`CreateRun` before `AttachRun`, `InsertFileset` before `RecordFileset`.

A fileset is a run that proposes bytes for files; the bytes are named by the
fileset's number, `Foreign` stands for what another program wrote. Materialization
claims the fileset under a lease, writes file by file behind a fence (`PutFile`),
saves the run, reads the latest row and settles it; a repair replaces what stands.
`EffectiveVer` is the verification the code *shows*, derived on every read from the
recorded result, the digests and the files on the disk.

A decision binds a revision, a contract and a tree. It is issued, reserved,
started and committed in transactions of their own; expiry is observed
(`late`) and recorded (`seen`) separately, because the observation must survive
the rollback of the transaction that made it and a clock that is set back.

Abstracted here: claiming a fileset, its first save and its preflight are one
step; a read and an update with no await between them are one step; a failed
run stands for an interrupted one too; `ReservationLapses` also stands for the
deadline and the cancellation of an execution. The worker that executes an approved workflow
is reduced to claim, attempt and end (`Workflow` has the rest).

## 3. Runs

| run | instance | what it shows |
| --- | --- | --- |
| `lease` | 2 workers in 2 processes, lease term 2, clock 0..4, one set-back, 2 claims, 2 commits | refinement of `FencedStore`; an abandoned row becomes claimable |
| `run` | 2 workers, 2 contents, 2 attempts, pull-request mode, 2 claims, 1 refused transaction | budget, cost, evidence binding, remote effects, finality |
| `run_ends` | 1 worker, both delivery modes, 2 claims | every execution reaches its `finally` block |
| `workflow_takeover` | 2 coordinators, 2 independent items, limit 2, cancellation | no replay, reservations before effects, only verified children count |
| `workflow_revisions` | 1 coordinator started twice, two revised plans (hybrid, sequential), a shared resource lock, a withheld item, a refused transaction, pause and cancel | dependency order under revision, completion final |
| `workflow_ends` | 1 coordinator, withheld items | the scheduling loop stops |
| `evidence_dropped` | 1 coordinator, pause; a violation | the finding of section 6 |
| `task_ledger` | 2 processes, 2 contents, 2 guardrail sets, up to 7 events, 2 faults | contracts before approvals, one approval per revision, numbering, confirmed contracts, succession, nothing carried forward |
| `objective_ledger` | 2 processes, 2 revisions, 2 reorders, 2 local reviews of one id with different bundles, `MaxEvents` 4, 1 fault | what was let through replays cleanly, relations move forward only, snapshots that disagree have a cause, refinement of `ItemQueue` |
| `run_decision` | 2 processes, 6 traces, 2 reviews, `MaxEvents` 6, 1 crash | VERIFIED is earned, a patch goes in on an acceptance in force, the workspace and the ledger agree, overturned decisions stay overturned |
| `run_pipeline` | 2 processes, 2 tasks, 4 profiles, 2 contracts, 2 agents' works, with and without `--agent`, 2 runs, 1 trouble | runs are separate, the approved contract runs, evidence and gates are honest, isolation holds |
| `product_task` | 2 processes, 1 file, 2 decisions, 2 attempts, revisions up to 10, 1 trouble | only the named run acts, a pass shown is about the bytes on the disk, decisions are one-shot and agree with their task |

Fencing, the finality of a loss and of a cancellation (`WorkerLease`), mutual
exclusion and unreadable ledgers left alone (`TaskLedger`) are not repeated by a run:
the theorems `Fencing`, `LossIsFinal`, `CancellationIsFinal`, `MutualExclusion` and
`CutShortStaysCut` establish `FencedOff`, `LostWorkerNeverCommits`, `CancelIsFinal`,
`OneHolder` and `UnreadableIsLeftAlone` for every instance. The type invariants are
in no run either: where a module has theorems they are proved or part of what is
proved, elsewhere they say what the state is.

**Bounds.** Two workers are enough for every race between an old and a new owner
of a row: a third owner meets only the latest fence, and the proofs in section 5
hold for any number. Two contents distinguish "the same proposal again" from "a
different one"; two attempts make a retry possible and the third refusal visible
(`AttemptNumbers` has one number more than the contract allows, so exceeding
the budget is representable). Two claims give one takeover or one restart; the
state after a restart is again a state with one owner. Lease term 2 and clock
0..4 leave room for renewal, expiry and expiry after a set-back. Two items give
the cases independent, dependent and conflicting. One refused transaction is
enough: a second one is met by the same catch block.

In the task ledger two processes give the overlap after a broken lock. A lock is
taken only while the events there, with three for every command inside, are fewer
than `MaxEvents` = 5: enough for an approval, an invalidation and a second
approval with its succession, for several interrupted approvals and a complete
one after them, and for a second command beside one whose lock was broken.
`MaxFaults` = 2 gives two of: a crash, a failed or cut write, a broken live lock,
each anywhere; two are needed for a command to meet, in the middle of its
approval, a ledger another one has cut short. Breaking the lock of a dead process
is not counted.

In the Objective's ledger, four events hold a creation, an attachment and a move
with its way back, or two attachments and a reorder, with commands of another
process pending on each; two revisions with and without a recorded succession
tell a relation that may move from one that may not. In `run_decision` six events
are the creation, the attachment, an import, its correction, an application and
a second import; the six traces are a run whose commands alone are unobserved, the
same with an uncaptured new file, with a failed diff, with cut evidence, with a path
violation, and without a satisfied gate in the workspace itself.

In `run_pipeline` two runs of one task or of two show every sharing of locks,
numbers and trees; the four profiles are a strict one, an open one with a role of its
own and risk rules, one whose isolation does not exist and a dry one; each of the two works
carries edits git sees differently, in and out of scope. One trouble means one
changed task file, approval or queue, or one failed call, crash or broken lock,
at any step: the properties are about what the code says after it, and a
second trouble is met by the code that the first one left in charge.

`product_task` lets commands of two processes overlap up to revision `Overlap`
(6 of a new project, 4 of an existing repository) and begin up to `Last` (8 and
4); after `Overlap` a command begins only when no other runs. Draft, review,
preparation, a fileset, its materialization and two decisions, or a decision, a
failure, a repair and a second decision, fit below that. 1.5 million distinct states at depth 58; the
workflow instances have 1.3 million each. Every bound is a constant named in its module.

**Symmetry** is used for workers, processes, contents, tasks and coordinators only
where no liveness property is checked and no definition orders them (`Items` are
ordered by `Order`, so they are never symmetric).

**Deadlock** is checked in every run but three. In these the instance really ends:
`run_decision` after the last review the bound allows, `run_pipeline` after the last
run of the day, `product_task` after the last revision; the commands that are
possible then change nothing. Elsewhere each system can always take a step: an
operator's request is still possible, a request may be repeated, a lease may run
out, and a command that finds no lock may be refused and start again.

## 4. Fairness

- `WorkerLease`: `WF(Tick)` only. Time passes; no worker, claim or operator is
  assumed to act. `AbandonedRunBecomesClaimable` follows although the pid of the
  dead worker may be in use again.
- `TaskRun`, `Workflow`: `WF(Proceed(w))`, for a workflow also
  `WF(ChildRuns(t))`. Every await in the code carries a timeout and ends with an
  answer or an exception, so an execution goes on until its process dies.
  `Proceed` contains neither `Fail` nor `CostUnknown` nor `Crash`: the loops are
  shown to end by their own conditions and not because something breaks.
  `ChildRuns` contains the failure of a child, since a child that is refused at
  its entry ends in no other way.
- The other modules state no fairness and no liveness: their commands are run by
  hand, are straight lines without a loop, and what is left half done waits for a
  person.

## 5. Proofs

Eight modules, fifty-six theorems worth knowing; every safety invariant, safety
action property and refinement that a passing run checks is among them. Assumptions: only
those declared as `ASSUME` in the modules, which TLC evaluates in every run. They say
that bounds are naturals, that the order of items names each once, that special values (`None`, the bytes of a foreign
program) are not members of the sets beside them (`NullAssumption`,
`PipelineAssumption`, `DecisionAssumption`, `ObjectiveAssumption`), that a plan has
graphs, that profiles and works are of the form the code reads, and that a local review
that may be imported was decided by an actor its gate allows, which `reviewRun`
ensures (`ObjectiveAssumption`).

| module | theorems |
| --- | --- |
| `WorkerLeaseProofs` | `TypeCorrect`, `Fencing`, `LossIsFinal`, `CancellationIsFinal`, `LeaseImplementsFence` |
| `TaskRunProofs` | `TypeCorrect`, `OnlyAcceptedIsDelivered`, `CompletionIsFinal`, `BudgetHolds`, `CostIsAccounted`, `LateEffectsAreBounded`, `OnlyDeclaredIsSent`, `IntentIsRemembered` |
| `WorkflowProofs` | `AttemptsAreOneShot`, `RunningWithinReserve`, `LaunchOrder`, `NothingUnverifiedCounts`, `CompletionIsFinal`, `SchedulerPicks`, `TypeCorrect`, `PicksAreReservable` |
| `LocalDecisionProofs` | `ExecutedByOne`, `ExpiredForGood`, `DecisionsAreOneShot`, `TypeCorrect`, `ShownIsCurrent`, `RecordsStayTogether`, `ApprovalBindsOneRun` |
| `TaskLedgerProofs` | `TypeCorrect`, `MutualExclusion`, `Contiguous`, `ApprovalsHaveContracts`, `ApprovedOnce`, `CutShortStaysCut`, `ApprovalsAreNotCarried`, `ReportedIsRecoverable`, `Succession` |
| `ObjectiveLedgerProofs` | `TypeCorrect`, `CleanReplay`, `RecordedSuccession`, `ExplainedDrift`, `PromisedQueue` |
| `RunPipelineProofs` | `RunsSeparate`, `ApprovedContracts`, `Isolation`, `HonestEvidence`, `EarnedGate`, `GatesOnlyTighten`, `ModeOnlyNarrows`, `NarrowerPermitsLess`, `OnlyPassSatisfies`, `RiskOnlyRises` |
| `RunDecisionProofs` | `ApplicationFollowsAcceptance`, `RecordedWorkspace`, `EarnedVerification`, `NewDecisionVerifies` |

`WorkerLeaseProofs`. `TypeCorrect` first. The inductive invariant of `Fencing`
adds that the owner is never newer than the number of claims and that two
workers never hold the same grant: without the second, a claim could hand a
stale worker its token back. `LossIsFinal` needs that a worker in `lost` is not
the holder of a live lease: the row it last saw carries a lease of 0 or another
owner. `CancellationIsFinal` is an action property of `control` and `claim`.
`LeaseImplementsFence` maps `holder` to the owner of a row whose lease is not 0
and shows a step or a stutter for each action, with the invariant above to show
that a renewal never changes the holder.

`TaskRunProofs`. The invariant is layered. `Fits` ties a worker's copy to its
program counter (at `calling` the attempt is reserved, at `completing` the
candidate is proven, ...). `OwnerInv` ties the copy of the *owner* to the row: it
is the row's body, or one unsaved step ahead of it; nothing is said of other
workers, because the fence refuses them. From the two follow `AcceptedOnly` and
`CompletedIsFinal` (no program counter that saves is reachable from a completed
body). `BudgetRespected` adds that calls under a number happen only while a
worker that reserved it stands before its call, and that no two workers ever
reserve the same number; `CostAccounted` adds that the costs in flight of all
workers are covered by answers that came. Three more layers rest on these:

- `LateInv`: a guard that refuses a worker refuses it until its next claim
  (`GuardIsFinal`), and the places cleared for an effect are reached only through
  a guard; so a late worker has at most the clearance it holds.
- `RemoteInv`: each worker inside a delivery has its accepted content among the
  recorded intents, and the branch it found or made is still that branch, because
  nobody deletes a branch that has no pull request yet; a pull request once seen
  stays. With it a completed run has the pull request of what it accepted.
- `IntentInv`: while no save was refused, the fenced-in worker of a row with an
  intent is inside the delivery and its own copy says so, so neither `Catch` nor
  `Record` can write the intent away.

`WorkflowProofs`. Every safety property of the workflow's passing runs, for any
number of coordinators, items and revisions. Four invariants, each resting on those
before it:

- `LaunchInv`: the types of the columns the proof reads; no two executions hold
  the same claim (`TokensDiffer`); where a child is fits its attempt and the
  number of its launches (`ChildFits`); the attempts of a batch carry the claim of its
  coordinator and none runs before the last is reserved (`BatchFits`).
  `AttemptMoves` lists what one step may do to attempts, and the refinement of
  `OneShot` follows.
- `StartedInv`: what is STARTED stays within the limit, is alone if it is the
  integration and shares no resource. It is the transaction of `reserve` that
  keeps it, since its checks count what any coordinator left behind.
  `RunningIsReserved` follows.
- `BodyInv`, `NeedsInv`: the row's body *and every copy of it in memory* name a
  revision of the plan, have READY items only from its graph, and call an item
  succeeded only over a verified child; with them `DependencyOrder`. It must be
  about every copy: a stale coordinator's copy is refused by the fence, but a
  takeover makes a new copy out of the row.
- `OwnerInv`, `RowInv`: the owner's copy extends the row (nothing is STARTED
  between batches; the owner of a completed row is done, unless the candidate was
  changed on disk), and a row with the integration attempted is integrable, a
  failed one committed nothing, a completed one has everything settled. With them
  `SuccessIsVerified` and `CompletedStays`.

The scheduler comes after these. `SchedulerPicks` says what `readyBatch` returns for any
graph and any states: distinct ready items, no more than the limit, no two of a hybrid
graph with a resource in common, and none left out that fits, so that nothing waits
without a reason. `ReadyBatch` is a fold over `Order`; `BatchSteps` unrolls it into the
sequence of its intermediate picks, over which `SetInduction` runs. It needs that an
item occurs once in `Order` (`definition.mjs` refuses a duplicate id), or a batch
could hold an item twice. With it `TypeCorrect` types the whole state, and
`PicksAreReservable` shows that the two checks agree: `reserve` checks each item again,
in a transaction that sees what other coordinators left, and refuses none that was
picked unless the lease, the operator's `run` or the approval is gone, or the integration
was attempted before. Its invariant `PickInv` says that what waits in `todo` is ready, is
in conflict with nothing of the batch and fits with it under the limit, and survives
because only the owner starts items. `PicksStand` is stated in the proof module and no
run lists it; TLC found it and `PickInv` to hold on the two workflow configurations
before they were proved.

`LocalDecisionProofs`. The invariant `OnceInv`: a process that stands before the
start or the commit of an execution executes a decision whose row is RESERVED or
STARTED, and no two processes execute the same one. `OneTurn` lists what one
step may do to the state of one decision, in all three layers; `ExpiryIsFinal` and
the refinement of `OneShot` follow for any number of processes, files, decisions
and bounds.

The rest of that module rests on a second invariant, of four parts that are
inductive only together:

- `TypeOK`: the rows have their types. It needs that a tree a verification ran
  against has no missing file (`Written`), which is why `Numbers` and `NullAssumption`
  keep `None` and `Foreign` apart from the bytes of a fileset.
- `TaskInv`: what each process still knows (`Knows`). About the runs it carries it
  knows facts that nobody can undo (`RunKnown`: the run exists, it is cancelled); about
  the row it knows something only as long as the row has the revision it read
  (`RowKnown`), since every update raises that number. From these: a workflow that is
  approved and not cancelled is the one the row names, and no approval that is on its
  way can approve another. `reviewTask` and `rejectTask` keep this because they revoke
  *and* cancel before they update the row, and the cancellation stays when the
  update is refused. `ApprovalBindsOneRun` follows: whoever attempts a workflow has
  just seen it approved, and whoever writes a file is behind a fence that has just seen
  the revision unchanged.
- `FilesInv`: a materialized source has digests of every file, so without drift the
  files on the disk are the recorded ones; `EffectiveVer` shows a pass only without
  drift and on the recorded tree. `ShownIsCurrent` follows. The pass that is *stored*
  may be about other bytes: the theorem is about what is shown.
- `RecordsInv`: every result was recorded together with an update of the task, so its
  revision is in the past; it is still what the task shows, or marked stale, or of an
  earlier contract, or followed by a later result. The last case needs that a decision
  which is committed has the revision the task has now (`Fenced`).

`TaskLedgerProofs`. `TypeInv` adds to the types that a command fits its phase
(`CommandFits`): from `read` to `postcheck` it has a revision, before that its
stage is its first one, and only a revision above 1 has a predecessor to
supersede. `MutualExclusion` is inductive by itself: nothing is live without the
lock file, so whoever creates the file exclusively is alone. `Contiguous` needs
it: the number a command read is still the next one when it writes, because
nobody else has appended. `ApprovalsHaveContracts` and `ApprovedOnce` use no lock
at all. A command that has created its revision's file and not yet appended the
approval *owns* the revision; owners have their contract stored, two owners never
have the same revision, and no approval names an owner's revision. Creating the
file exclusively preserves this, since every owner and every approval already has
a file. `LockInv` says that a command about to write has just read a readable
ledger, and that an approval is written only where none is in force (contiguous
numbers make replay order the file order, `FileOrder`): from it come
`CutShortStaysCut` and `ApprovalsAreNotCarried`. `KeptInv` says of every revision
in the ledger that it is settled (approved, with its succession), was given up on
the way or is being approved by a command whose progress is in `Progress`;
revision numbers never exceed the number of events, and `Succession` follows.

`ObjectiveLedgerProofs`. Replay is a recursive function over the ledger, and the first
half of the module is about it: `Queues` types what it derives after each event,
`ApplyDepends` shows that later events change nothing of it, and `Welcome` names what a
command's checks ask of the ledger so that appending its event leaves a ledger that
replays without a finding (`Orderly`). The second half is the engine. `LockInv` is
mutual exclusion as in `TaskLedgerProofs`; it makes what a command's checks found
(`Checked`) still true when it appends. `CleanReplay` is `Orderly` under `~overlap`.
`RecordedSuccession` uses no lock: the links an attachment has seen stay, since they
only grow. `SnapshotInv` says that a snapshot which is behind has somebody about to
replace it, unless a write failed or a rebuild without the lock came in between:
`ExplainedDrift`. `PromisedQueue` maps the stored states to `ItemQueue`.

`RunPipelineProofs`. Three layers. `SeparateInv`: two processes that run have
directories of their own, because `mkdir` without `recursive` creates exclusively, and the
lock of a task is its holder's unless it was broken: `RunsSeparate`. `PlanInv` follows
what was read through the steps that separate the readings of the task file (`Follows`:
as long as nobody edits it, loaded, approved, queued and copied are the same
revision) and the tree a run works in (`TreeFits`): `ApprovedContracts` and
`Isolation`. `EvidenceInv` carries along what the summary may leave out of the edits
and under which gap (`Honest`), and that the gate is what the attempts come to
(`Judged`): `HonestEvidence` and `EarnedGate`, the latter also saying that every
summary lies in the `TraceSet` that `RunDecision` starts from.

Five theorems of that module are about the operators of `RunPolicy`, for every argument,
and say in which direction a policy can only move. `GatesOnlyTighten`: one more source in a
merge takes away no gate, admits no further actor, drops no explicit act and gives back
no waiver ("only ever narrows", `required-gates.ts`). `ModeOnlyNarrows`: the mode of a run
that resolves lies under the project's, the role's and that of the Core role a custom
one narrows, so a run of a reviewing role neither edits nor executes.
`NarrowerPermitsLess`: whatever a request that passes `findCapabilityExpansions` allows, the
policy allows. Its hypotheses name what that comparison leaves out: it looks at lists as
sets, while an *empty* allowed list means no restriction, so a request that emptied
one would pass and permit more; today the request is a copy of the policy, and no run of
the program gets there. `OnlyPassSatisfies`: a required verification is satisfied
exactly by a non-empty plan whose commands all ran and all passed.
`RiskOnlyRises`: where the rules determine a level it is the highest of the matching
ones, and fewer rules never determine a higher one.

`RunDecisionProofs`. `LedgerInv` gives the ledger its shape (creation, attachment, then
reviews and applications) and says that each decision in it is earned, readable, and
either a first one or a correction of one that is there; `inForce` is what replay makes
of it. `Checked` carries the checks under the lock over to the append and to
`git apply`. `ApplicationFollowsAcceptance` and `RecordedWorkspace` follow from the
steps between `GitApply` and `Record`: the workspace has the patch when the
ledger says so, and the ledger says so unless a process died before recording it.
`NewDecisionVerifies` compares what replay has in force before and after one event:
an overturned decision stays overturned, so only an import of a new one can verify.

**Induction over data.** The library's induction theorems take an operator as a
parameter and cannot be used here. Where a recursive *function* is computed along the
naturals (`Queue`, `Keep`, the fold in `ReadyBatch`), the proofs use induction for a *set* of numbers
instead: `SetInduction` in `ObjectiveLedgerProofs`, `RunDecisionProofs` and `WorkflowProofs`, from
the well-foundedness of `<` on `Nat`. That is why `ObjectiveReplay` is written with
recursive functions over `0..Len(o)` and not with RECURSIVE operators.

**Where a definition had to change.** Four proof attempts failed for a good reason.
Several definitions chose by a CASE with overlapping guards, which TLA+ leaves open
while the code asks one question after the other (`EffectiveVer`, `OutcomeState`,
`ClaimFileset`, `GitDiff`, `PathPolicy`, both `Phase`s); TLC takes the first guard that
holds, so no run had noticed. They are ordered now. `RemoveTree` let a tree be
removed that was never created. `ObjectiveReplay` derived a queue from events of any
sort, and its constants had no types to reason from. `Order` could name an item twice, which
the code refuses and no run did.

**Only model-checked.** Liveness (`AbandonedRunBecomesClaimable`, the two
`ExecutionEnds`), which is out of the prover's reach. The ASSUMEs of `MCRunPipeline`
about glob matching, which compare the matchers with what their patterns mean over
small inputs; `RunPipelineProofs` uses of `MatchesAny` and `PathViolations` only what their
definitions say without unfolding the matchers. `TypeOK` of `TaskRun`, `Workflow`,
`TaskLedger`, `WorkerLease`, `ObjectiveLedger` and `LocalDecision` are theorems;
`RunDecision` and `RunPipeline` have theirs inside `TypeInv`.

## 6. Findings

**A completed workflow without evidence references** (run `evidence_dropped`).
The catch block of a hybrid workflow deletes the references but keeps
`finalRunId` (`controller.mjs:383`); a pause after the final verification therefore
leads to a COMPLETED workflow whose report throws 'Final evidence binding mismatch'
(`alpha/evidence.mjs:25`) and which cannot be exported.

Other places where the code and what is said of it differ, met while modelling and
not given a run of their own:

- A delivery intent is forgotten. `docs/runs/2026-09-30/alpha-reconciliation-fixes.md:19`
  says that work whose delivery intent is stored is kept in RECONCILING even when
  cancelled. `save()` sets `run.state = 'COMPLETED'` before its transaction; if
  SQLite refuses that transaction, the catch block (`controller.mjs:212`) no longer
  sees a delivery state and saves WAITING_HUMAN, PAUSED or CANCELLED.
  `IntentRemembered`, checked in `run`, is the promise with this exception named.
- A cancellation is overwritten. The same document, line 17: a cancellation is
  recorded as a terminal state. One that comes between a guard and the following
  save (`controller.mjs:148`) is recorded as CANCELLED and then overwritten, since
  `Store.save` looks at owner and lease only. The control column survives, so
  execution stops at the next guard.
- A succession is lost for good. `ledger.ts:783-784` tells a person whose relation
  cannot move to approve the newer revision, "which is what records it". The
  succession is written after the approval (`task-ledger.ts:483`); if that write
  fails, approving again is already applied and no later approval records the
  link. `SuccessionRecorded` is the promise with this exception named.
- A file that was only staged is in the list of changed files and not in the patch
  (`run.ts:1183-1186`); `EvidenceIsHonest` makes the exception.
- A path violation may be accepted by waiving the gap of a nested repository
  (`review.ts:582`).
- The task file is read three times (`run.ts:623`, `628`, `695`); an edit between
  them makes what is planned differ from what was approved. `moved` marks
  exactly this in `ApprovedContractRuns`.
- Risk is computed at LOW where a PATH or DIFF rule could not be matched yet,
  although the comment at `run.ts:721-723` reads otherwise.
- The request to the adapter records `config.agentAdapter` also when the command
  line chose another (`run.ts:955`).
- Edits that a verification command makes come after the diff and are in no
  evidence.
- A custom role may take the id of a core role with a wider base.
- `planApply` says that applying part of a change is worse than applying none of
  it; a `git apply` that dies half-way leaves part of it (`apply.ts:183-186`).
- Verification commands are matched by their base name but run as they are
  written.
- `SYSTEM_POLICY` can never accept a run: every run has the gap of the commands
  nobody observed. Every REJECTED local review is DEGRADED_RECORDED
  (`review.ts:629`), so `importLocalReview` refuses it.
- Two reviews at once may take the same number (`review.ts:739`).
- `apply` refuses on a reason that contains TRUNCATED or DIFF; an isolation that
  could not be had is not among the gaps of a summary.
- A crash between the insertion of a fileset and the update of its task leaves a
  run whose id the next attempt takes again; the insertion conflicts and the item
  is stuck (`product/tasks.mjs:433-446`), although `prepareTask`'s comment (line 143)
  reuses such a run. The same happens when a COMPLETED fileset's task is not updated
  (`534-545`).
- A proposal that supersedes a fileset while it is materialized yields a
  MATERIALIZED task that names an unapproved fileset, which may later be approved
  under a revised contract (`product/tasks.mjs:430`, `535-545`).
- A contract revision after two passing executions of one item, or during an
  interrupted repair, is refused with EVIDENCE_DEFECT
  (`product/reservations.mjs:244-251`).
- `product/tasks.mjs:239` says that historical results never become a pass under a
  different workflow hash; evidence without a reservation stays LOCAL_PASSED
  (`355-362`).
- `idle()` does not look at the control column, so a cancelled fileset can be
  approved.
- A crash between a ROLLBACK and the event of an expiry loses the observation
  (`product/reservations.mjs:33-35`).

Met on the way, and accepted by the documents or confined in effect:

- When the second of two reservations fails, the first stays STARTED with a
  child that never ran: the workflow needs a human and its attempt refuses the
  reservations of every other workflow in the state directory. Documented in
  `docs/product-completion/orchestration-guide.md:75`.
- A pause during a batch settles the running items as FAILED; they are BLOCKED
  for good.
- `finish()` checks the fence and not the operator's control, so a CANCELLED body
  may be overwritten once more; the catch block restores CANCELLED.
- When the task file is edited between its hash and the copy, the revision file
  holds bytes that do not match the hash it names. The approval stands; only M6
  reports it, and `readTaskRevision` refuses the file from then on.
- Feasibility is checked on the file as it is inside the lock, not on the content
  that was hashed before it.
- After a live holder's lock was broken, M7 of every overlapping command removes
  the lock of whoever holds it, so the overlap may go on.
- `attachTask` compares with the first other attached revision only
  (`ledger.ts:769`), so after revisions 1 and 3 a relation may move to 2.
- A workflow coordinator's `guard()` does not look at the owner; only heartbeats
  and fenced statements notice a takeover.

## 7. What is left out

Abstracted inside the modules: texts, paths, patches and hashes (a hash is the
value it names); the event log and the artifacts (write-once, content-addressed,
nothing is decided from their order); the time budget and the errors of services
(a nondeterministic `Fail`); the unreferenced Git objects a delivery creates
first; the order of approvals within one revision. The end of a workflow's time
budget acts on its children like a withdrawn approval and is represented by it.

In the ledgers: reasons, actors' names, timestamps and event ids; the snapshot of
objective relations in a revision file (marked as not authoritative); a final
line that is complete but for its newline. In the run pipeline: rule ids, redaction,
approved command categories, prompts and the launch of the agent's process. In the
product generation: contract reviews with their revocation and expiry, the
additional attempts a contract may grant, retained checkpoints of other items,
checkouts that exist already, signed decisions and decisions about the environment,
and a reviewed source that no longer matches when a task is prepared.

Not modelled yet: the operator ledger with protected authorization, the host
exchange, workflow collaboration (section 8).

Not modelled: command lines, installation, IPC, reports, prompts, YAML and JSON
parsing, container and Git plumbing: I/O whose state is not CodeFleet's own.

## 8. Plan

1. `OperatorLedger` with `WorkflowAuthorization` (`hosts/operator.mjs`,
   `workflow-authorization.mjs`): one-shot grants, again an instance of `OneShot`;
   consumption and effect in two transactions. Every public route to it is closed
   in this revision. Then `HostExchange` and the messages of `collaboration.mjs`.
2. Proofs: what the matchers of `RunPolicy` compute for paths and patterns of any length,
   which needs an induction over two indices at once.
3. In `BootstrapTask`: contract reviews and additional attempts; a second file and
   a dependent item, so that retained checkpoints appear.
