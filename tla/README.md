# Verification of the remote runner's controller

This directory holds TLA+ models of the controller of `remote-runner`
(`src/src/remote_runner/_internal/`), the TLC configurations that check them on
small instances, and theorems about them checked by TLAPS. Paths below are
relative to the repository, which lies in `src/`; `I/` stands for
`src/src/remote_runner/_internal/`, `C/` for `I/controller/`.

## The system

A *controller* host keeps all state in plain files: one queue entry and one
execution record per run, one lease file per physical machine. There is no
server process. Commands sent over ssh (`submit`, `status`, `stop`, ...) and one
*dispatcher* process per project, hosted in a tmux session, read and write these
files under `flock`s; a second session pulls finished outputs into an archive.
Workloads run on remote machines in tmux sessions of their own, created by a
bootstrap program sent over ssh.

| Component | State | Operations | Interacts through | What is hard | What makes it correct |
|---|---|---|---|---|---|
| Lease table, `C/registry.py` | `leases/<machine>.json`: owner, token, kind, expiry; drained machines | acquire, renew, release, list, drain | one scheduler lock shared by all projects | a dispatch lease survives its expiry; who may take it over | a machine whose workload is uncertain is not handed out |
| Dispatcher, `C/dispatcher.py` | its cycle; a thread per job of a batch; a heartbeat per thread | reconcile leases and jobs, plan, reserve, probe, mark, launch, commit | queue, execution records, leases, ssh | every step may be the last; several dispatchers; each lease may expire at any point | each run launched at most once, no machine overcommitted, nothing stuck |
| Launch and registration, `I/launch.py`, `I/registration.py` | execution record | register, launch | the run lock, ssh with timeouts | an unknown outcome is neither success nor failure | record and remote workload agree in the end |
| Remote bootstrap and supervisor, `I/launch_plan.py` | runtime directory, tmux session, status file | preflight, start, supervise, end | ssh standard output, the status file | goes on after the controller stopped listening | reports only what happened |
| Stop protocol, `I/stopping.py`, `C/service.py` | - | stop a queued run; stop an execution | run lock, queue lock, remote stopper | overtakes the bootstrap it wants to end | a run recorded as stopped does not run |
| Monitoring, `I/monitoring.py` | - | probe, bring the status into the record | ssh | the answer is older than the record | terminal records stay terminal |
| Queue control, `C/registry.py`, `I/queue_control.py` | order, priority, class, machines, revision, placement updates | submit, move, edit, reserve, extend, commit and release an update, transition | queue lock, revisions | an edit is many files; they are read without the lock; edits race dispatching | each edit has the effect asked for; a held job is held |
| Placement planning, `C/dispatcher.py`, `I/scheduling.py` | a snapshot | rank machines, place, backfill | the snapshot | lanes, exclusive runs, backfill, an old snapshot | never beyond capacity; nobody is delayed by backfill |
| Dispatcher lifecycle, `C/service.py`, `C/dispatcher.py` | tmux session | ensure, idle exit | `tmux has-session` | an idle exit or an activation racing a command | a queued job finds a live dispatcher |
| Run views and waiting, `C/run_view.py`, `I/run_readiness.py`, `I/waiting.py` | the views a request has read | view, wait, wait-runs | unlocked reads of three kinds of files; ssh requests that end and are repeated | torn reads; who keeps the workers alive | no false conflict; an answer is final; everybody gets one |
| Cleanup of stopped records, `C/service.py`, `I/cleanup.py` | queue entry, record | remove both | queue and run locks | two removals, one after the other | only runs that can no longer start are forgotten |
| Run and task purge, `C/run_purge.py`, `C/task_purge.py`, `C/purge_common.py`, `I/run_purge.py`, `I/task_purge.py` | tombstones, plans, staging directories, maintenance lease | begin, resume, stage, remove artifacts, worktree and events, complete | maintenance lease, locks, remote programs | death between any two steps; a remote program outlives its caller | resumable; what the plan says is done is done; gone for good |
| Output sync, `I/output_sync.py`, `I/output_sync_remote.py`, `C/output_sync_worker.py`, `C/output_prune.py`, `I/output_prune.py` | intents, receipts, stages, the worker's session | enqueue, transfer, verify, complete, prune, purge | files, the archive's lock, the maintenance lease | lost answers, repeated transfers, overlapping paths, pruning | nothing pruned before it is archived; all that is due is archived |
| Server retirement and drains, `I/server_retirement.py`, `I/output_sync_retirement.py`, `I/server_draining.py`, `C/service.py` | two configuration files, the archive's ssh alias and key, drains | drain, resume, assess, revoke, clean, replace | all projects' files, read without a lock; three hosts | jobs move while they are assessed; death half-way | nothing is left behind; the key does not outlive the alias |
| Decommissioned runs, `I/decommissioned_run.py` | - | inspect, close | leases, queue, probe | closing a run that lives | only runs of destroyed machines |
| Release gate, `C/release_gate.py`, `I/release.py` | `runner/current`, activation record | stage, activate | scheduler lock, leases, sessions | activation under a live dispatcher | no dispatch is interrupted |
| Machine identities, `I/machine_identity.py` | aliases and canonical machines | claim, merge | scheduler lock | two aliases of one machine | one lease file per machine |
| Server addition, `I/server_addition.py`, `I/pool_sync.py` | configuration, queue | add, extend queued jobs | placement updates | - | - |
| Derived validation, `I/derived_validation.py`, `I/derivation.py` | derived jobs | create once | queue lock | retries | idempotent |
| dev execution, submission, CLI, web | none of the controller's | - | - | - | - |

`PROJECT.json` lists each with its sources and what is modelled of it; the
hazards it lists, with the line where each bites, are what the properties are
for.

## Modules

| Module | Models | Checked by | Proved in |
|---|---|---|---|
| `Leases` | the lease table, used by `Dispatch` and `Purge` | their runs | with `Dispatch` |
| `Dispatch` | queue entries, records, remote workloads, dispatchers | `MCDispatch`: `projects`, `oneshot`, `live` | `DispatchProofs`, `FencingProofs` |
| `Lifecycle` | the dispatcher's session, the commands that call for it, activation | `commands` | `LifecycleProofs` |
| `Purge` | purge-run and purge-task beside submission and dispatch | `MCPurge`: `purge` | `PurgeProofs` |
| `OutputCustody` | what output synchronisation promises | refined by `OutputSync` | `OutputSyncProofs` |
| `OutputSync` | intents, worker, archive program, pruning, purge | `MCOutputSync`: `sync`, `archived` | `OutputSyncProofs` |
| `QueueLanes` | the queue as its users see it | refined by `Queue` | - |
| `Queue` | the files of the queue, editors, placement updates, the planning dispatcher | `MCQueue`: `order`, `hold` | `QueueProofs` |
| `Waiting` | views, waiting clients, the sessions they keep alive | `MCWaiting`: `waiting` | `WaitingProofs` |
| `Retirement` | the retirement of a server, drains, the closure of decommissioned runs | `MCRetirement`: `retire`, `destroyed` | `RetirementProofs` |

The modules meet at the files. Each models the files it is about at the grain of
the code, one action per operation under one lock, per single file read or
written without one, or per remote call, and the rest of the system as coarsely
as it can be seen through those files. `Dispatch` and `Purge` share the lease
table through `Leases`.

### How actions correspond to code

**Dispatch.** Between two actions other processes can run and a dispatcher can die.

- `Cycle(d)`: `dispatch_loop` and `dispatch_cycle`. `BeginCycle` takes the
  snapshot `list_owned_dispatch_leases`, `ReconcileLease` handles one lease of it,
  `FinishLeases`/`FinishJobs` go on, `Plan` chooses a batch, `ExitIdle` returns.
- `Recovery(d, r)`: `_reconcile_dispatching_jobs`. `PickDispatching` reads the
  job and looks for an execution record; `CommitFound` or, with no record,
  `RecoverBusy`, `RecoverRaises`, `RecoverFence` then `RecoverUnfence`, or
  `RecoverUnleased`; `RecoverQueue` puts the job back.
- `Reservation(d, r)`: `_reserve_planned_dispatch` (`Reserve`, `ProbeReserved`,
  falling back to the next machine) and the marking loop of `dispatch_batch`
  (`Mark`, `MarkRaises`).
- `Launch(d, r)`: `_launch_dispatching_job`, `registration.register`,
  `launch.launch`. `launching` is the pc of a thread inside `launch.launch`: it
  holds the run lock for as long as it is there (`RunLocked`).
- `Heartbeat(d, r)`: one turn of the `DispatchLeaseHeartbeat` thread. A failed
  renewal is remembered, as in the code, and ends the task at its next
  `assert_owned`.
- `Crash(d)`: all of the process's memory (`task`, `claims`) is lost, all files
  and remote workloads stay.
- `Submit`, `Edit`, `ReserveUpdate`, `ReleaseUpdate`, `StopQueued`,
  `StopExecution`, `Monitor`, `PurgeQueue`, `PurgeExecution`, `Drain`: the commands
  of operators, each with its guards. `RemoteStep(r)`: the bootstrap and the
  supervisor on the machine.
- `Wanted(d)`: what makes a status request call `ensure_dispatcher`
  (`C/service.py:689-701`): a job of the project is queued or being dispatched, or a
  record is still active after it was monitored. `StartWanted(d)` is such a start.

Wall-clock time is one bit per lease, `expired`, set by `Expire` and cleared by a
renewal; a token is a number that nobody remembers instead of 256 random bits;
`boots` is a history variable that counts the bootstraps sent. Which queued jobs
a plan takes is left open here - `Plan` may choose any assignment of queued jobs
to distinct eligible machines, because the capacities it is computed from are
stale when it is carried out; what must protect the machine is the probe under
the lease (`ProbeReserved`).

**Lifecycle.** `Monitor`, `CycleFails`, the `Batch...` actions, `Decide`, `Return`,
`Wake` are `dispatch_loop`: it ends only after a cycle that was idle and a
monitoring pass, before it, that saw nothing active; between `Decide` and
`Return` the process still exists, and so does its session. `Submit`,
`ReserveUpdate`, `EndUpdate`, `Poll` are commands; each touches the queue first and
then runs `ensure_dispatcher` in two steps, `Ask` (`has-session`) and
`NewSession`. `CheckLeases`, `StopWorkers`, `SwitchCurrent`, `ActivationFails` are
`activate_release`, under the scheduler lock from the first to the last. Of the
machines only what recovery meets is kept: `second`, the jobs with two leases, for
which it raises, and `closed`, those whose lease lies on a drained machine, for
which it is refused (`C/dispatcher.py:1332-1344`); either ends the cycle
(`BatchRaises`, `BatchBusy`).

**Purge.** `caller[c]` is one invocation: its place, the plan it holds in memory,
the run and lease in hand. `plan` is `plan.yaml`; `Persist` writes it, so that a
death before it loses the step it was to record. `BeginRun`, `BeginTask` and
`Resume` are the entries (`purge_run` under the lock of its run, `PurgeLocked`);
`Stage` renames one record, or finds that it has been; `CheckOverlap`, `Recheck`
are the two inventories against overlapping outputs; `NextArtifact` to
`ReleaseArtifact` and `LeaseForWorktree` to `ReleaseWorktree` are the remote
removals under a maintenance lease; `Lost` leaves a program without its caller
(`strays`), which `StrayRemoves` brings to its end at any later time. `Hindered(c)` is
what may go wrong with the machines: the archive refuses the removal, the
maintenance lease is held by another project, the remote program refuses
(`I/task_purge.py:64-140`); the invocation goes on to the next artifact or gives up,
and reports a failure.

**OutputSync.** `BeginRecord`/`EndRecord` are `update_current_state`, which writes the
intent before the record. The worker (`WorkerStep`) lists, invokes the archive
once per intent, completes in two steps (`CompleteIntent` writes the receipt,
`UnlinkIntent` removes the intent), prunes and decides whether to return.
`Exposed` is the set of runs whose output on the source nothing protects: it lies in
the output of another run, and either its own run has no record or that tree is being
deleted by a program that nobody waits for.
`TakeMine`, `Copy`, `Verify` are the program on the archive, under its lock;
`TakeStray` is one whose ssh connection is gone. `PruneStep(p)` is `prune-outputs`,
run by the worker or an operator; `PurgeStep(r)` the part of a purge that removes
outputs.

**Queue.** An entry is two files, `job` and `state`. `Update` computes the job files
an edit writes (`Changed`, `PutLast`, `Move`, `Swapped`, `Respaced`) and the
revisions it raises (`Bumped`); `WriteJob` and `WriteState` write them one by one
under the queue lock, in every run, and `EditTears` is a death among them. `List`,
`ReadJob`, `ReadState` are the dispatcher's reads, without the lock, two for each
entry. `history` says whose place the writing command has changed so far (`wrote`),
and which jobs were moved while the dispatcher listed, after it had read them, or by a
command that died among its writes (`mixed`): for these a revision does not vouch for
the row. `PlanNext` is `_plan_dispatch_batch`, which takes the first of a lane or, if
its machines have no room, protects them (`Protected`) and goes on to the next. `Mark`
compares the revision and dispatches by what was read. `Reserve`, `Extend`, `Commit`, `Release`,
`PreparationFails` are the placement updates of `queue_control.py`; their expiry is
an action.

**Waiting.** `ReadQueue`, `ReadExec`, `ReadSync` are the three reads of a view;
`Phase`, `Attention`, `Outcome` and `Readiness` translate `derive_run_view` and
`report_readiness`. `Status`, `Call`, `Answer`, `Repeat`, `AnswerLost` are the client of
`waiting.py`, whose requests are bounded in time and repeated. `Monitor`,
`BeginBatch`, `EndBatch`, `Ensure`, `Return` are the dispatcher's loop as far as it
decides to go on, `WorkerStep` the same of the worker. A probe of a status request
is applied later than it was made (`Probe`, `ApplyProbe`), and may not have reached
its machine. `RecoveryRefused` is the recovery of an interrupted dispatch that is
refused or raises, after which the cycle ends; `Unreached` is a monitoring pass that
does not reach the machine of a run.

**Retirement.** `retirer` is one invocation of `retire-server`: `Begin` loads both
configuration files, from which the replacements are derived
(`I/server_retirement.py:167-174`), `ReadBytes` reads them again for the later
comparison (191-192), `Drain` closes the machine, `Probe` tests it, `ListQueue`,
`ReadJob`, `ListRows`, `ReadRow`, `ReadPending` are the assessment of one project
after the other, one file per action, `InspectArchive`, `Revoke`, `CleanArchive`,
`CheckFiles`, `ReplaceRegistry`, `ReplaceProject` are what is done then. `InspectClosure`
and `ApplyClosure` are `close-decommissioned-run`. `ReadPlacement` (`job.yaml`, then
`state.yaml` with the action after it), `Acquire`, `Mark`, `Register`, `Launch` are the
dispatcher. An `Edit` between its two reads, or an editor that dies between its two
writes (`EditDies`), gives it an old placement with the current revision (`torn`,
`C/registry.py:1371-1373`). The assessment compares server names, and a project may know
the machine under another name than the one that is retired
(`references/configuration.md:265`): it does not see the runs of such a project
(`Aliased`, `Named(r)`). Its own reads of the two files of an entry are one action,
`ReadJob`: an old placement with a new status would only count a run that has already
left for elsewhere, or miss one that an edit has brought here, for which no lease is
granted any more on the drained machine.

## What the runs check

| Run | Instance | Properties | Distinct states |
|---|---|---|---|
| `projects` | Two projects compete for one machine through the shared lease table; one dispatcher may die and restart, an operator may stop and clean up a run. | `OutstandingIsFenced`, `NoOvercommit`, `EndedStaysEnded`, `BootstrapUnderLease` | 1,946,267 |
| `oneshot` | The dispatcher loop and a --once dispatcher of the same project work on one run, with leases expiring under them, drains and file operations failing. | `TypeOK`, `LaunchOnce`, `EndedStaysEnded` | 2,597,194 |
| `live` | One run, two machines, one of which is drained and opened again, two crashes, an edit: an interrupted dispatch is recovered or found launched, it resolves unless its recovery is held up, and the machine of an ended run is freed, although a dispatcher comes back only when a command finds something for it to do. | `RegisteredLeftQueue`, `FailedMeansInactive`, `DispatchingResolves`, `EndedRunsFreeMachines` | 526,842 |
| `commands` | Two jobs, a client that submits and edits, one that asks for the status now and then, a machine that is drained and opened, two deaths or failures: queued and interrupted jobs always get a dispatcher, and the activation of a release meets no dispatch. | `ActivationInterruptsNothing`, `QueuedIsLookedAt`, `InterruptedIsResolved` | 660,427 |
| `purge` | Two runs with overlapping outputs and a shared worktree are purged by two invocations of purge-run or one of purge-task, one of which may die or lose an answer, beside submissions and dispatches; machines and the archive may refuse what is asked of them. | `TypeOK`, `PurgedStaysGone`, `ProgressIsTrue`, `Resumable`, `PurgesComplete` | 185,022 |
| `sync` | Two runs, one writing its output into that of the other, are ended, archived, pruned, purged and cleaned up by several programs, one of which may die, hang or lose its answer: the refinement of OutputCustody, which says where nothing protects an output. | `TypeOK`, `ReceiptIsTrue`, `NothingIsLost` | 2,648,091 |
| `archived` | One run, two deaths or failures, the configuration paused and resumed, the record touched: every output that is due reaches the archive. | `ReceiptIsTrue`, `IntentIsArchived` | 695,936 |
| `order` | Three jobs in one lane with up to three moves, written file by file, a job that is put back, a command that dies among its writes, and a batch listed, planned and dispatched meanwhile (four of these together): the refinement of QueueLanes with ties and respacing, and backfill delays nobody. | `NobodyOvertaken`, `EditsAreExact` | 1,558,860 |
| `hold` | One job, two clients that edit it directly and through placement updates which expire, are interrupted and overtaken, a new server, and a dispatcher. | `TypeOK`, `UpdateHoldsJob` | 3,456,399 |
| `waiting` | A client waits for the end or for the archived output of a run while a dispatcher, which may be refused a recovery or not reach the machine, a status request, a stop and a clean-up work on its files. | `TypeOK`, `AnswerIsFinal`, `ReportedIsArchived`, `NoFalseConflict`, `TerminalWaitsEnd` | 971,755 |
| `retire` | A server is retired, twice if need be, while two projects, of which one knows the machine under another name, submit, edit, dispatch, monitor and archive runs, its machine goes down, somebody resumes it or edits a file or half of a job, and the command dies. | `TypeOK`, `NothingBehind`, `KeyIsRevoked`, `OnlyLateEditsLost` | 3,759,223 |
| `destroyed` | A machine is destroyed while the launch of a run has an unknown outcome: the dispatcher keeps the run's lease, and the closure of the run is refused for as long as it does. | `DestroyedRunsAreClosed` (violated) | 13,418 |

**Dispatch and its sessions**

- `LaunchOnce`: a bootstrap is sent at most once for a run. Duplicate launches
  are what revisions, `register`'s refusal of an existing record, the status read
  under the run lock and the recovery's look at the record together prevent.
- `RegisteredLeftQueue`: once there is an execution record the job is never
  queued again.
- `OutstandingIsFenced`: while a registered run may still come up unseen, its
  lease stays on its machine. This is the reason for durable dispatch leases.
- `NoOvercommit`: the workloads a machine has or may yet have fit its cores and
  the slots of each lane, although capacities are probed, not accounted.
- `FailedMeansInactive`, `EndedStaysEnded`: the order of the two writes of a
  failure; a late probe, stop or launch result does not revive an ended record.
- `BootstrapUnderLease`: at the moment of sending, the job is `dispatching` and
  its run owns the machine.
- `DispatchingResolves`: no interrupted dispatch stays `dispatching`, unless recovery in
  its project is held up again and again (`HeldUp`): by a job whose lease lies on a drained
  machine, or that has come to hold two leases. Once the machines are open it resolves.
- `EndedRunsFreeMachines`: no ended run keeps its machine leased, unless its project is
  `Forgotten` for good: its dispatcher died, a status request recorded the end, and
  nothing is left that would make a request start another one. `references/lifecycle.md:112`
  leaves such leases to "the owning dispatcher [...] when it next runs".
- `ActivationInterruptsNothing`: from the check of the leases to the switch of the
  release no dispatcher has a job in hand, not even one that a command starts
  meanwhile.
- `QueuedIsLookedAt`: through idle exits, deaths of dispatchers and commands, and
  activations, each queued job gets a dispatcher that runs a batch, again and again
  while it is queued, provided that somebody goes on asking for the status.
- `InterruptedIsResolved`: likewise an interrupted dispatch gets a dispatcher that
  resolves it, unless recovery is held up again and again (`HeldUp`, as above).

**Purge**

- `PurgedStaysGone`: behind a tombstone that says `purged` there is no queue entry,
  no record and no event, whoever repeats the submission and whenever.
- `ProgressIsTrue`: what a plan records as removed is not there, although remote
  programs may outlive their callers and paths overlap.
- `Resumable`: a record that a plan still has to stage is in the registry or in the
  staging directory, wherever invocations have died. The lock of the run is what
  makes it so (its mutant drops the lock).
- `PurgesComplete`: a purge that has begun is completed, unless machines or the archive
  hinder its invocations again and again (`Hindered`), a retained run's output has come
  to overlap, or a staged run was submitted again.

**Output synchronisation**

- `NothingIsLost`: `OutputSync` implements `OutputCustody`: an output is archived
  only from its source, leaves the source only when it is archived, and the last
  copy goes only after a request to delete it, or (`Swept`) from the source while
  nothing protects it there (`Exposed`; the two cases are described below). Every
  other output is safe from all programs that may run at the same time.
- `ReceiptIsTrue`: a receipt means a verified artifact and the outcome on record,
  through retries, stray transfers and records that ended otherwise than their
  intent says.
- `IntentIsArchived`: the intent of an ended run is carried out, as long as the
  configuration is on, the record agrees and there is an output.

**Queue**

- `EditsAreExact`: `Queue` implements `QueueLanes`: each edit moves one job by one
  place, to the front or to the end of another lane, and no other job changes its
  place - while positions are numbers that are swapped, respaced and reset. A job
  that passes another also passes those that share a position with it, and a command
  that dies may leave one lane in another order, but loses no job and touches no
  other lane.
- `NobodyOvertaken`: backfill never dispatches a job to a machine that one waiting
  before it in its lane could use. Revisions of the whole queue are raised by a
  move for this reason (its mutant raises one). Excepted are the jobs in
  `history.mixed`, whose own rows the revisions do not vouch for; every other pair
  is protected, whatever is written while the list is read.
- `UpdateHoldsJob`: while a placement update lasts, no dispatcher takes its job and
  nobody else changes where it may run.

**Waiting**

- `NoFalseConflict`: no view shows a conflict of authorities, or a dispatched job
  without a record, that is due to the order in which files are read.
- `AnswerIsFinal`: what a waiter was told stays true.
- `ReportedIsArchived`: a success reported as `reportable` is in the archive.
- `TerminalWaitsEnd`: who waits for the end of a run gets an answer, unless recoveries
  are refused or machines not reached again and again (`Hindered`): its own requests
  keep the dispatcher alive.

**Retirement**

- `NothingBehind`: although the assessment reads queue, records and intents one
  after the other and without a lock, nothing is taken away from a server with a
  run on it or on its way to it, or with output still to be archived - unless
  somebody resumes the server meanwhile. It rests on the drain, on the direction
  in which a run moves through the files and on the order of the reads. Two kinds of
  runs may be left behind and are excepted: those of a project that knows the machine
  under another name, and jobs that were edited between the two files a dispatcher
  reads of them (`torn`).
- `KeyIsRevoked`: the archive forgets a key only when the server no longer accepts
  it, or the operator allowed an unreachable server.
- `OnlyLateEditsLost`: another's edit of a configuration file is lost only if it
  falls between the loading of the file and the reading of the bytes that are
  compared later, or between the comparison of the files and their replacement.

### Bounds, and why they are enough

*Dispatch.* Two runs compete for a machine in every way two can, one of them taking
the whole machine (`projects`). Two machines are needed for alternatives in
planning (`live`), and two deaths there for a run with two leases; one of them is
drained and opened at any time, so that the recovery may be refused. `MaxCrashes`
bounds deaths; `MaxRevision` bounds edits and
`MaxPlanned` the revisions that are planned: with two dispatchers a job can be
marked and recovered without end. `Endings`, `Cleaned` and `Drainable` choose what
the environment may do, so that each run spends its states on its question.
Tokens are reused once nothing remembers them, so four are enough. No
configuration of `Dispatch` turns the deadlock check off. The others do, because
those systems really stop: when every job is over and nobody asks for anything.

*Lifecycle.* Two jobs are needed for a loop that is busy with one when the other
arrives, one editing client for commands that die half-way, a watcher for the
polling. Two faults let a dispatcher and the command that would have replaced it
die, or one job come to hold two leases; `Drainable` is the job whose machine may be
drained and opened, while the other's never is.

*Purge.* Two runs whose outputs lie in each other's tree, so that an artifact's
removal matters to the other. Two invocations of `purge-run` may meet at one run;
`purge-task` works alone: the code does not let the two kinds of purge exclude each
other, and what they do to each other is not claimed. Two submissions let a run
come back while it is purged; one fault is a death or a lost answer at any step.

*OutputSync.* `sync` has two runs, one nested in the other, for what programs do to
each other's paths; `archived` has one run, two faults and a configuration that is
paused and resumed, for liveness. `Dropped` and `Unanswered` are the runs whose record
may go early and those whose deletion may go on alone: both runs in `sync`, so that
the two cases in which an output is `Exposed` are among its states.

*Queue.* `order`: three jobs in one lane are the fewest in which a move passes one job
and leaves another; up to three moves, one dispatch that is interrupted and put back
and one command that dies make positions meet and be respaced. `MaxEvents` bounds
edits, reservations, recoveries, batches and tears together, to four: the states of
longer behaviours are too many for one run.
A batch lists at most `MaxListed` jobs, the fewest of which one can overtake the other;
a third may be submitted, and moved past them, while it is planned. `hold`: one job, two clients, every
placement edit. In both, edits are written and lists read file by file. A client looks
at a job only while an edit or a reservation is left, which bounds idle looking.
`Instant` keeps the submission times farther apart than edits reach, as the code's
nanoseconds do.

*Waiting.* One run and one waiter in both kinds of request, one fault, one other
client. Requests for several runs are modelled (`Requests` takes sequences), but their
instance is too large to check with faults: the safety properties are proved for
them.

*Retirement.* Two projects, so that one is assessed while jobs of the other move;
one of them archives its output, the other knows the machine under another name
(`Aliased`). One death and one change by another client, who resumes the server or edits
a file or a job; the theorems hold for any number.

### Fairness

`Dispatch`: weak fairness of each dispatcher's cycle while it runs, of each of its
threads, and of lease expiry. A dispatcher does not hang: every ssh command and lock
acquisition it performs has a timeout. One that is down is restarted only while it is
`Wanted`: `ensure_dispatcher` runs at a status request only if a job is queued or being
dispatched, or a record is still active once it was monitored (`C/service.py:689-701`);
clients are assumed to poll as long as there is such work. Nothing restarts a
dispatcher that has only leases left to release. Time passes. Nothing is assumed of
operators, of the remote machine or of the heartbeat thread, nor that a probe succeeds.

`Lifecycle` looks at that more closely: the loop, a command once begun and an
activation once begun go on, leases and placement updates expire, and watchers,
if there are any, keep asking. A watcher is a client in `wait` or `wait-runs`, or
one that repeats `status`.

`Purge`: an invocation that is not killed goes on, launches end, maintenance leases
expire, and an operator repeats an unfinished purge (strong fairness: another
purge may be in the way now and then). Nothing is assumed of what machines and the
archive refuse: `PurgesComplete` has it as an exception.

`OutputSync`: controller commands and archive programs end; the dispatcher loop and
status requests go on calling for a worker.

`Waiting`: sessions and requests go on, workloads end; strong fairness of `Answer`
only, because a repeated request passes the time at which it may be given up.
Nothing is assumed of who starts a session: that is what `TerminalWaitsEnd` shows.
Nor is it assumed that a recovery is granted or a machine reached, which the property
excepts.

`Retirement` (only for `destroyed`): the dispatcher goes on and the operator repeats
the closure. Faults are never assumed to happen, and are bounded in number.

## Where the code does not do what is said of it

- `destroyed` (`DestroyedRunsAreClosed`, a run that ends in the violation): a machine is
  destroyed while a launch there has an unknown outcome. The dispatcher keeps the
  lease for as long as the record is `registered`, `close-decommissioned-run` refuses
  while there is a lease, and so the documented way to close such a run
  (`references/configuration.md:247`) is closed. `references/lifecycle.md:88-95`
  documents that a run under a controller lease is refused; but no such lease ever
  ends here, since only a registered run that was seen or has ended gives it up
  (`C/dispatcher.py:1398-1417`), and the machine that could be asked is gone.

The following were seen in the models while they were built, each as a
counterexample of the formula given; they are not among the runs.

- *A stop during the preflight.* `exec[r] \in ExecTerminal => remote[r] \notin RemoteAlive`
  fails in `Dispatch`: the launch times out locally, its bootstrap is still in its
  checks; a stop finds no runtime directory (`I/stopping.py:145`), the record becomes
  `stopped`, then the workload starts. `references/lifecycle.md:121` says that
  terminal records mean that the workload has ended.
- *A file operation after the launch.* `exec[r] = "failed" => remote[r] # "running"` fails
  with `FaultyDisk`: an `OSError` of the launching thread after the bootstrap
  succeeded is taken for a refused launch (`C/dispatcher.py:1243`).
- *Two leases.* A death between acquiring and marking, and another after marking on
  another machine, leave a run two expired leases; the recovery asserts that there
  is one (`C/dispatcher.py:1333`) and raises in this and every later cycle.
- *Stopped while reserved.* A run stopped in the queue, whose dispatcher died with
  its reservation, keeps the machine leased: `_reconcile_owned_dispatch_leases`
  skips a run with a queue entry and no record. Likewise the lease of an
  interrupted dispatch on a drained machine cannot be taken over
  (`C/dispatcher.py:1343`), and each cycle ends as busy before it plans anything, until
  the machine is opened; without `HeldUp`, `DispatchingResolves` fails in `live`.
- *A lease with no dispatcher.* Without `Forgotten`, `EndedRunsFreeMachines` fails in
  `live`: the dispatcher dies after the launch, a status request records the end of the
  run, and no later request finds anything to start a dispatcher for; the machine
  stays leased to an ended run until its project has work again.
- *A submission beside a returning loop.* Without a watcher, `QueuedIsLookedAt` fails:
  `ensure_dispatcher` takes the session of a loop that is returning for a dispatcher
  that will see the job (`C/service.py:97`).
- *A client that waits for the output.* `Waits(w) ~> ~Waits(w)` fails in `Waiting` for
  `reportable`: the worker's session still exists when the dispatcher's loop, its last
  caller, asks for it (`C/output_sync_worker.py:44`) and returns; the intent then has
  nobody, and the waiting requests call for the dispatcher only.
- *A registered run without a runtime.* `wait` promises attention when an active
  record has no runtime; for a `registered` record the probe says so and nothing is
  noted (`I/monitoring.py:706` asks for `running`), so a waiter is not woken.
- *An old job with a new revision.* A job may be dispatched to a machine, or in a class,
  that its record no longer allows: `load_job` reads `job.yaml` before and `state.yaml`
  after the edit (`C/registry.py:1371`), and the comparison of revisions
  (`C/dispatcher.py:1623-1628`) passes. For the same reason it may overtake a job that was
  moved before it: without the exception for `history.mixed`, `NobodyOvertaken` fails in
  `order`. And it may be dispatched to a server that is being retired, although an edit
  has sent it there only while the assessment looked at other jobs: without the
  exception for `torn`, `NothingBehind` fails in `retire`.
- *Half of a move.* A command that dies among its writes leaves some jobs respaced or
  exchanged and others not, and no revision raised (`C/registry.py:1732-1765`): the lane is
  then in an order nobody asked for, and a dispatcher that has listed it before
  notices nothing (`Torn` in `QueueLanes`, and again `history.mixed`).
- *Ties.* Let a, b and c wait in a lane, I the position of a. Moving b to the front gives
  b = I, a = I+2, c = I+4; a is dispatched; moving c to the front respaces only what is
  still queued, c = I, b = I+2; the dispatcher dies and a comes back with I+2 as well.
  The order of a and b is now that of their submission, c, a, b. Moving a up swaps it
  with c, which then ties with b, was submitted after it, and lands behind both: one
  step up has moved c by two places (`C/registry.py:1698-1721`). A command that dies
  leaves such ties as well, and with these `EditsAreExact` fails in `order` if `alike` is
  taken out of `Exchange` in `QueueLanes`.
- *Another name for the server.* The assessment of a retirement compares the names that
  each project gives its servers (`C/service.py:1014`, `1030`, `1087`) with the one that is
  retired. Two aliases may name one machine (`references/configuration.md:265`), and the
  runs of a project that uses the other one are not found: without `Named`,
  `NothingBehind` fails in `retire`.
- *An early edit of the configuration.* The replacements are derived from what was loaded
  before the machine was validated and tested over ssh, the comparison at the end is
  with bytes read after that (`I/server_retirement.py:167-192`): an edit in between
  passes the comparison and is overwritten. Without this exception `OnlyLateEditsLost`
  fails in `retire`.
- *An intent whose record never ends.* The intent is written before the record
  (`I/execution_registry.py:770`). If the command dies in between, the next attempt to
  record the end usually makes a different intent - another time, revision or
  status -, writing it is refused as a conflict, and the record stays live.
- *Half retired.* If the project file cannot be replaced after the registry was
  (`I/server_retirement.py:459-473`), repeating the command fails at the unknown
  server.

Limits of what holds, found while checking. `RegisteredLeftQueue`,
`FailedMeansInactive`, `OutstandingIsFenced` and `BootstrapUnderLease` hold with
one dispatcher per project. With a `--once` process beside the loop they do not:
`assert_owned` and the registration after it are two operations, and a thread
delayed between them for longer than the lease's life can register a run whose
job the other dispatcher has already put back. `LaunchOnce` survives this, because
it rests on the record and the run lock; it needs only that records are not
cleaned up meanwhile, since cleanup leaves no tombstone.

`NothingIsLost` says `Swept` because of two cases, both among the states of `sync`, in
which it fails otherwise. The check for overlapping outputs looks at
records only (`C/output_prune.py`), so the output of a run whose record was cleaned
up before it was archived goes with the output it lies in when that is pruned. And
a deletion on the source machine that outlives its caller is not known to
anybody: a run that starts later and writes into the tree being deleted loses its
output with it.

## What is proved

Each theorem holds for every value of the constants that the named assumptions of
its module allow - any number of runs, machines, projects, clients, deaths and
faults - where the runs show a few of each.

`DispatchProofs` (from `DispatchAssumptions`, `TokensAreNumbers`, `NoLeaseAssumption`):

- `TypeCorrect`: `Spec => []TypeOK`, with a lemma per group of actions.
- `LaunchOnceHolds`: if `Cleaned = {}` then `Spec => []LaunchOnce`. `LaunchOnce`
  is not inductive: that nothing was sent before a thread sends must be known.
  `OneSender` says that only the thread that registered the run's record is
  between registering and sending, that no other is, and that nothing has been
  sent as long as it is there or there is no record. `register` needs the absence
  of a record and creates it, so a second sender cannot appear; cleanup would make
  room for one, hence the assumption.
- `EndedStays`: `Spec => EndedStaysEnded`, with or without cleanup. `OneLauncher`
  says that at most one thread is inside `launch.launch` for a run and that the
  record is `registered` while it is: every other writer of the record takes the
  run lock.

These proofs share one idea. Nearly all of the fifty actions neither write an
execution record, nor send a bootstrap, nor move a thread to one of three pcs;
`Quiet` says so, and one lemma per group shows it. The rest, `Loud`, is seven
kinds of step, described by what they change. Each invariant is then shown to
survive one quiet and seven loud steps.

`FencingProofs` (the same, and `OneDispatcherPerProject`: the dispatcher lock admits
one loop per project, and nobody runs `--once` beside it; without it the first four
of these fail, as said above):

- `RegisteredHasLeftQueue`, `OutstandingStaysFenced`, `FailedIsInactive` (with
  `~FaultyDisk`), `BootstrapIsUnderLease`, and `LaunchOnceDespiteCleanup`, which is
  `LaunchOnce` without the restriction on `Cleaned`.
- The inductive invariant is `FenceInv`. `RecordInv` relates the queue entry, the
  record, the workload and the lease of a run: without a record there was no
  bootstrap unless the entry is gone, and an unresolved bootstrap has a lease.
  `ThreadInv` says what the thread of a dispatcher relies on at each of its pcs: that
  it works for its project in its phase (`Placed`), that nobody else does and that
  the lease in its hand is the run's (`Planning`, `Working`), that the recovery has
  seen no record (`Recovering`), that a failing launch has left nothing (`FailsClean`).
  `OneRecovery` and `OwnClaims` are what a dispatcher relies on between its leases and
  its jobs.

- `NeverOvercommitted` (with `IsFiniteSet(Runs)`): `Spec => []NoOvercommit` for runs of
  any size and class and machines of any capacity. `CapacityInv` adds to `FenceInv`: on each machine the
  authorized runs fit together (`Packed`); a record says `running` only of a workload
  that was seen (`RunningIsUp`); and from the probe to the bootstrap a run that has
  been reserved still fits beside the others (`Room`). `Room` is stable because the
  lease is held all that time, so that nobody else is authorized there, while those
  that are can only end. The sum of the cores over a set of runs is a fold; that it
  grows by one summand with the set is shown by induction over a set of numbers.

`LifecycleProofs` (from `LifecycleAssumptions`):

- `LifecycleTypes`: `Spec => []TypeOK`.
- `ActivationSafe`: `Spec => []ActivationInterruptsNothing`. The inductive
  invariant `Inv` adds `InHand`: the job in hand, from its reservation to the
  release of its lease, holds a live lease. Without it the check of the leases
  would say nothing about the loop. Conversely, that the gate stays safe after the
  check needs that `BatchReserves` waits for the scheduler lock.

`PurgeProofs` (from `PurgeAssumptions`, `NoPlanAssumption` and those of `Leases`):

- `TypeCorrect`: `Spec => []TypeOK`. Inductive is `Typed`, which adds `Grounded`: an
  invocation under way belongs to the team, has a plan, has a run in hand at the
  steps that remove its output, and is at steps of its own kind of purge only.
- `PurgedGone`: `Spec => []PurgedStaysGone` if no team mixes `purge-run` and
  `purge-task`, the teams that `purge` checks too. The inductive invariant
  `PurgeInv` says of each run (`RunInv`): behind a tombstone it is `Calm`, so that no
  dispatcher touches it; a plan, on disk or in memory, lists every record that is
  still there and is right about the events (`Good`); an invocation past staging has
  staged everything, one past the events has removed them (`OnCourse`); at most one
  invocation is at work on the run, which is the run lock. Before the tombstone a
  run is protected by its failed record (`Settled`): `purge-task`, which takes no run
  lock, can take that away, and then the run can be submitted anew, be dispatched,
  fail, and leave a record behind the tombstone. TLC finds this with
  `Teams = {{p1, t1}}`; the code does not rule it out.
- `ProgressIsSound`: `Spec => []ProgressIsTrue`, for every set of teams. Inductive is
  `ProgressInv`: a plan exists, and an invocation is past its first step, only behind a
  tombstone, and an artifact is noted, or its program has answered, only when the
  output is `Gone`: not there, and behind a tombstone. `Gone` is stable because
  only a launch creates an output and no tombstone is withdrawn.
- `PlansResume`: `Spec => []Resumable` if a team has no `purge-task` or is a single one.
  `KeptInv` adds to the plan on disk the one each invocation remembers (`KeptBy`):
  both name only records that are in the registry or staged here, they are the same
  plan except between a step and its writing, and everything is staged before the
  staging directory is erased (`AllStaged`). That no other purge takes a record away
  (`Alone`) comes from `RunInv`: a plan of a run names records of that run only and
  one invocation at a time has it. Two invocations of `purge-task` have no such
  lock: with `Teams = {{t1, t2}}` TLC lets the slower one write its plan again after
  the faster one has erased the records, and that plan cannot be completed.

`QueueProofs` (from `QueueAssumptions`, where `NoPlace` is none of the places):

- `TypeCorrect`: `Spec => []TypeOK`, in a queue of any length. The inductive invariant is
  `IInv`. Its first part is about the files: a job under a placement update is
  queued or stopped (`FilesOK`), no job is submitted twice (`SubmittedOK`), and what
  the holder of the lock has still to write is about queued jobs and one revision on
  (`WritingOK`) - so a state that is written late undoes nothing.
- Its second part is about what the dispatcher remembers. A row is never newer than
  its record, and one whose revision still agrees with a queued record is under no
  placement update (`RowsOK`). If one such row is left, then class, priority and
  position of every job that still waits and is not in `history.mixed` are as they were
  listed (`OrderKnown`): `Bumped` raises every revision when it changes an order, and
  until the last of these is written the lock is held (`Orderly`; `Histories` says
  what the history variable holds). A plan leaves the machines alone that a job left
  out of it could use and that was listed before (`PlansOK`).
- `UpdateKeepsJob`: `Spec => UpdateHoldsJob`, with edits written and lists read file by
  file. An edit writes the placement of its own job only (`EditOf`), and `RowsOK`
  keeps the job from a dispatcher that has listed it before it was reserved.
- `NobodyIsOvertaken`: `Spec => NobodyOvertaken`, with edits written, commands dying and
  lists read file by file. Only `Mark` takes a job
  out of the queue (`OnlyMarksTake`), `OrderKnown` carries the order from the record to
  the row, and `PlansOK` says the rest.
- The order of a lane is defined by counting: the k-th of a line is the job that has
  k - 1 others before it. That there is one, and only one, is shown for any strict
  order on a finite set (`RanksGrow`, `RankTaken`); `QueuesAreOrdered` shows that
  priority, position and submission make one, `LinesInOrder` that a line holds each
  job once and in this order. The plan and the edits both rest on them.

`OutputSyncProofs` (from `SyncAssumptions`):

- `TypeCorrect`: `Spec => []TypeOK`.
- `ReceiptsAreTrue`: `Spec => []ReceiptIsTrue`. `ArchiveInv` adds the locks (`Locks`: no
  purge is in the archive while the worker completes), what the worker may rely on
  in the middle of its pass (`Pass`: the intent in hand is still pending, its record
  has ended as the intent says or is gone), the program on the archive, which copies
  only the output of a run that has ended (`Program`), the life of a workload
  (`Lived`) and that an artifact is final (`Archive`).
- `OutputSyncKeepsCustody`: `Spec => NothingIsLost`: every step of `OutputSync` is one of
  `OutputCustody` or leaves its variables alone, for any nesting of outputs and with
  records dropped and deletions going on alone anywhere. It needs
  `PruneInv`: under the maintenance lease the pruned run's output stays archived or
  condemned (`Kept`), and so do the outputs nested in it, if they have a record, from
  the check to the deletion (`Spared`): nothing new is registered while the lease is
  held.

`WaitingProofs` (from `WaitingAssumptions`):

- `TypeCorrect`, `AnswersAreFinal`, `ReportsAreArchived`, `NoConflictIsSeen`: `Spec => []`
  of `TypeOK`, `AnswerIsFinal`, `ReportedIsArchived` and `NoFalseConflict`, for any
  number of waiters and for requests for any number of runs.
- The argument has three parts. `RunInv` relates the files of a run, its thread and
  its workload: a job that is `dispatched` has a record, one that is `failed` a failed
  record or none, an ended record of an archived run has an intent. `Onward` says how
  the files of a run may change: terminal statuses, receipts and the absence of a
  record stay, until a cleanup removes the entry. `Knows` says what is therefore
  still true of the files after the queue entry was read (`KnowsQueue`), then the
  record (`KnowsExec`), then the output-sync files (`KnowsSync`): it is established by
  the reads in this order, and kept by every `Onward` step, whoever makes it. With
  the queue entry read last, a dispatched job could be seen without its record.

`RetirementProofs` (from the assumptions of `Retirement`):

- `TypeCorrect`: `Spec => []TypeOK`, including the typing of the lease by the run a
  dispatcher has in hand.
- `NothingLeftBehind`: `Spec => []NothingBehind`. The strengthening `ScanInv` says
  what is known of the files already read: of a run whose queue file was seen
  without it, that no dispatcher will take it here (`Quiet`; the machine is drained);
  of one whose record was read, that it has ended and its output is archived or
  waived (`Past`); of a project that is done, both and no pending intent (`Clear`);
  each for the runs that are `Named` and not `torn`. A dispatcher between its two reads
  must be followed too: an edit then makes the job `torn`, and without one its
  placement is still the one on file.
  Each part is stable because a run moves from the queue to the record to the
  intent and the assessment reads in that order.
- `KeyRevoked`: `Spec => []KeyIsRevoked`, from `LinksInv`, which follows the key and
  the alias through the steps between which the command may die.
- `LateEditsOnly`: `Spec => OnlyLateEditsLost`, from the invocation's memory of the
  edits it has loaded (`proposal`) and of those in the bytes it compares with.

## What is only model-checked

- Liveness (`DispatchingResolves`, `EndedRunsFreeMachines`, `QueuedIsLookedAt`,
  `InterruptedIsResolved`, `PurgesComplete`, `IntentIsArchived`, `TerminalWaitsEnd`):
  TLAPS cannot reason about fairness.
- `EditsAreExact`, for three jobs. Ties arise there from moves and from commands that die.
  The whole of *Ties* above, with an edit after the job is put back, takes five events.

## Not modelled

- *Machine identities and capacities.* The merge of aliases rewrites the keys of the
  lease table in one step under the scheduler lock; all modules name physical
  machines.
- *Derived jobs and validation.* The creation of a validator run is one idempotent
  submission; the run is then like any other.
- *dev.* A foreground transport between one client and one machine, without
  controller state.
- *Submission and source preparation, command line, configuration.* Git, rsync and
  parsing; they reach the controller through one call, which is in the models.
- *Web dashboard.* It reads, and writes only through commands that are modelled.
- *The staging of a release*, the contents of migrations, lease files of old schemas,
  the parsing of probe output, progress estimates and the ranking of machines: one
  client's work, or choices that the models leave open.

The two purges beside each other are within the models but not within what is
claimed or checked. That a request for several runs comes to its end is modelled,
but not checked.
