------------------------------ MODULE Dispatch ------------------------------
(***************************************************************************)
(* The controller's durable dispatch path: queue entries, dispatch leases, *)
(* execution records, the dispatcher processes that move a run from one to *)
(* the next, the remote bootstrap they send, and what operators do         *)
(* meanwhile (stop, drain, edit, purge).                                   *)
(*                                                                         *)
(* Every file operation is atomic under its own lock (queue lock, run      *)
(* lock, scheduler lock); a dispatcher holds none of them between two      *)
(* operations, so each operation is an action.  A dispatcher may die       *)
(* between any two of them.  Several dispatchers may serve one project     *)
(* (the tmux-hosted loop and `--once` processes).                          *)
(***************************************************************************)
EXTENDS Leases, FiniteSetsExt, Functions

CONSTANTS
  Runs,          \* run identities
  Dispatchers,   \* dispatcher processes
  Projects,
  ProjectOf,     \* run -> project
  Serves,        \* dispatcher -> project
  Eligible,      \* run -> machines its prepared servers live on
  Class,         \* run -> "standard" or "test"
  Cores,         \* run -> requested cores, 0 for the whole machine
  Configured,    \* machine -> configured cores
  Slots,         \* machine -> [standard: Nat, test: Nat]
  NoMachine,     \* "no machine chosen yet"
  OneShot,       \* the dispatcher processes started as `--once`
  FaultyDisk,    \* whether file operations may fail once a run is registered
  Endings,       \* bound: how a workload ends by itself
  Cleaned,       \* bound: runs whose records an operator cleans up
  Drainable,     \* bound: machines an operator drains
  MaxRevision,   \* bound: queue revision an edit may still raise
  MaxPlanned,    \* bound: highest queue revision that is still planned
  MaxCrashes     \* bound: dispatcher deaths explored

QueueStatuses == {"unborn", "queued", "dispatching", "dispatched", "failed", "stopped", "gone"}
QueueTerminal == {"dispatched", "failed", "stopped"}
ExecTerminal == {"succeeded", "failed", "stopped"}
ExecStatuses == {"none", "registered", "running"} \cup ExecTerminal

(***************************************************************************)
(* A run's traces on its machine: nothing; the bootstrap program checking  *)
(* (preflight), refused by a check (rejected), past the creation of the    *)
(* runtime directory but not yet reporting (starting), reporting itself    *)
(* running, never reporting (dead), or finished with a status.             *)
(***************************************************************************)
RemoteOutstanding == {"preflight", "starting"}
RemoteAlive == RemoteOutstanding \cup {"running"}
RemoteStates == {"absent", "rejected", "dead"} \cup RemoteAlive \cup ExecTerminal

Pcs == {"idle", "planned", "leased", "reserved", "marked", "prepared", "registered",
        "ready", "launching", "launched", "commit", "unknown", "unseen", "seen",
        "failing", "failexec", "failqueue", "release", "found", "norecord", "fenced",
        "recover"}
ReservePcs == {"planned", "leased"}
ReconcilePcs == {"found", "norecord", "fenced", "recover"}
HeartbeatPcs == {"prepared", "registered", "ready", "launching", "launched", "commit"}

Task == [pc: Pcs, machine: Machines \cup {NoMachine}, token: Tokens \cup {0},
         revision: Nat, others: SUBSET Machines, heartbeat: BOOLEAN]
Idle == [pc |-> "idle", machine |-> NoMachine, token |-> 0,
         revision |-> 0, others |-> {}, heartbeat |-> TRUE]

Phases == {"down", "sleep", "leases", "jobs", "plan", "batch", "idle"}
Claim == [machine: Machines, owner: Runs, token: Tokens]

ASSUME DispatchAssumptions ==
  /\ Owners = Runs
  /\ NoMachine \notin Machines
  /\ 0 \notin Tokens
  /\ ProjectOf \in [Runs -> Projects]
  /\ Serves \in [Dispatchers -> Projects]
  /\ Eligible \in [Runs -> SUBSET Machines]
  /\ Class \in [Runs -> {"standard", "test"}]
  /\ Cores \in [Runs -> Nat]
  /\ Configured \in [Machines -> Nat \ {0}]
  /\ Slots \in [Machines -> [standard: Nat, test: Nat]]
  /\ OneShot \in SUBSET Dispatchers
  /\ FaultyDisk \in BOOLEAN
  /\ Endings \in SUBSET {"succeeded", "failed"}
  /\ Cleaned \in SUBSET Runs
  /\ Drainable \in SUBSET Machines
  /\ MaxRevision \in Nat
  /\ MaxPlanned \in Nat
  /\ MaxCrashes \in Nat

VARIABLES
  queue,     \* run -> its queue entry: status, revision, placement update
  exec,      \* run -> status of its execution record
  site,      \* run -> machine named by its execution manifest
  remote,    \* run -> what its bootstrap has become on that machine
  boots,     \* run -> bootstrap programs sent so far (history)
  phase,     \* dispatcher -> where it is in its cycle
  claims,    \* dispatcher -> leases of its project still to reconcile
  task,      \* dispatcher -> run -> the thread working on that run
  crashes    \* dispatcher deaths so far

vars == <<lease, drained, queue, exec, site, remote, boots, phase, claims, task, crashes>>
records == <<queue, exec, site, remote, boots>>

TypeOK ==
  /\ LeaseTypeOK
  /\ queue \in [Runs -> [status: QueueStatuses, revision: Nat, update: BOOLEAN]]
  /\ exec \in [Runs -> ExecStatuses]
  /\ site \in [Runs -> Machines \cup {NoMachine}]
  /\ remote \in [Runs -> RemoteStates]
  /\ boots \in [Runs -> Nat]
  /\ phase \in [Dispatchers -> Phases]
  /\ claims \in [Dispatchers -> SUBSET Claim]
  /\ task \in [Dispatchers -> [Runs -> Task]]
  /\ crashes \in Nat

Init ==
  /\ LeaseInit
  /\ queue = [r \in Runs |-> [status |-> "unborn", revision |-> 0, update |-> FALSE]]
  /\ exec = [r \in Runs |-> "none"]
  /\ site = [r \in Runs |-> NoMachine]
  /\ remote = [r \in Runs |-> "absent"]
  /\ boots = [r \in Runs |-> 0]
  /\ phase = [d \in Dispatchers |-> "down"]
  /\ claims = [d \in Dispatchers |-> {}]
  /\ task = [d \in Dispatchers |-> [r \in Runs |-> Idle]]
  /\ crashes = 0

(***************************************************************************)
(* Helpers                                                                 *)
(***************************************************************************)
Mine(d) == {r \in Runs : ProjectOf[r] = Serves[d]}

\* Mutant of AuthorityGone: an expired lease never speaks for its owner.
AuthorityAlwaysGone == Runs

\* dispatch_lease_authority_gone: neither a queue entry nor an execution record.
AuthorityGone ==
  {r \in Runs : queue[r].status \in {"unborn", "gone"} /\ exec[r] = "none"}

\* The runs a capacity probe of machine m reports.
Visible(m) == {r \in Runs : site[r] = m /\ remote[r] = "running"}

Requested(r, m) == IF Cores[r] = 0 THEN Configured[m] ELSE Cores[r]

\* Mutant of HasCapacity: the cores the run itself asks for are not counted.
HasCapacityForOthers(r, m) ==
  /\ Cardinality({v \in Visible(m) : Class[v] = Class[r]}) < Slots[m][Class[r]]
  /\ MapThenSumSet(LAMBDA v : Requested(v, m), Visible(m)) <= Configured[m]

\* _has_workload_capacity: a free slot in the run's lane and enough unassigned cores.
HasCapacity(r, m) ==
  /\ Cardinality({v \in Visible(m) : Class[v] = Class[r]}) < Slots[m][Class[r]]
  /\ MapThenSumSet(LAMBDA v : Requested(v, m), Visible(m)) + Requested(r, m) <= Configured[m]

\* The run lock is held for as long as the bootstrap is being waited for.
RunLocked(r) == \E d \in Dispatchers : task[d][r].pc = "launching"

At(d, r, pc) == task[d][r].pc = pc

NoneAt(d, pcs) == \A r \in Runs : task[d][r].pc \notin pcs

Goto(d, r, pc) == task' = [task EXCEPT ![d][r].pc = pc]

Finish(d, r) == task' = [task EXCEPT ![d][r] = Idle]

\* Fresh owner token: one that no lease and no process remembers.
TokensInUse ==
  {lease[m].token : m \in {n \in Machines : lease[n] # NoLease}}
    \cup {task[d][r].token : d \in Dispatchers, r \in Runs}
    \cup UNION {{c.token : c \in claims[d]} : d \in Dispatchers}

Fresh(t) ==
  /\ t \in Tokens \ TokensInUse
  /\ \A u \in Tokens \ TokensInUse : t <= u

\* Compare-and-set of a queue entry: succeeds when its revision is the expected one.
Expected(r, revision) == queue[r].revision = revision

SetQueue(r, status) ==
  queue' = [queue EXCEPT ![r] =
              [@ EXCEPT !.status = status, !.revision = queue[r].revision + 1]]

\* Remove a run's placement update, or keep it, and raise its revision.
Touch(r, update) ==
  queue' = [queue EXCEPT ![r] =
              [@ EXCEPT !.update = update, !.revision = queue[r].revision + 1]]

\* DispatchLeaseHeartbeat.assert_owned: renew, unless a renewal has already failed.
StillOwns(d, r) ==
  /\ task[d][r].heartbeat
  /\ Holds(task[d][r].machine, r, task[d][r].token)

(***************************************************************************)
(* The cycle: sleep, reconcile leases, reconcile dispatching jobs, plan a  *)
(* batch, run it.                                                          *)
(***************************************************************************)
Enter(d, p) == phase' = [phase EXCEPT ![d] = p]

\* ensure_dispatcher creates the tmux session, or an operator runs `--once`.
Start(d) ==
  /\ phase[d] = "down"
  /\ Enter(d, "sleep")
  /\ UNCHANGED <<lease, drained, records, claims, task, crashes>>

\* A `--once` process ends after its only cycle.
ExitOneShot(d) ==
  /\ d \in OneShot
  /\ phase[d] = "sleep"
  /\ Enter(d, "down")
  /\ UNCHANGED <<lease, drained, records, claims, task, crashes>>

\* list_owned_dispatch_leases: the snapshot the lease reconciliation works on.
BeginCycle(d) ==
  /\ phase[d] = "sleep"
  /\ Enter(d, "leases")
  /\ claims' = [claims EXCEPT ![d] =
       {[machine |-> m, owner |-> lease[m].owner, token |-> lease[m].token] :
          m \in UNION {LeasesOf(r) : r \in Mine(d)}}]
  /\ UNCHANGED <<lease, drained, records, task, crashes>>

\* Mutant of Settled: only a running record releases the lease.
SettledWhenRunning(c) == exec[c.owner] = "running"

\* The remote workload can no longer be starting unseen: its record has left
\* "registered", or there is no record of the run at all and the lease expired.
Settled(c) ==
  \/ exec[c.owner] \notin {"none", "registered"}
  \/ /\ c.owner \in AuthorityGone
     /\ lease[c.machine] # NoLease
     /\ lease[c.machine].expired

\* _run_visible_on_server; the probe of a registered run may also fail.
SeenRunning(c) ==
  /\ exec[c.owner] = "registered"
  /\ queue[c.owner].status \notin {"unborn", "gone"}
  /\ c.owner \in Visible(c.machine)

ReconcileLease(d, c) ==
  /\ phase[d] = "leases"
  /\ c \in claims[d]
  /\ claims' = [claims EXCEPT ![d] = @ \ {c}]
  /\ \/ /\ Settled(c) \/ SeenRunning(c)
        /\ Release(c.machine, c.owner, c.token)
     \/ /\ ~Settled(c)
        /\ UNCHANGED lease
  /\ UNCHANGED <<drained, records, phase, task, crashes>>

FinishLeases(d) ==
  /\ phase[d] = "leases"
  /\ claims[d] = {}
  /\ Enter(d, "jobs")
  /\ UNCHANGED <<lease, drained, records, claims, task, crashes>>

(***************************************************************************)
(* _reconcile_dispatching_jobs: one interrupted job at a time.             *)
(***************************************************************************)
Dispatching(d) == {r \in Mine(d) : queue[r].status = "dispatching"}

\* Mutant of PickDispatching: the execution record is not looked for.
PickUnchecked(d, r) ==
  /\ phase[d] = "jobs"
  /\ NoneAt(d, ReconcilePcs)
  /\ r \in Dispatching(d)
  /\ task' = [task EXCEPT ![d][r] =
                [Idle EXCEPT !.pc = "norecord", !.revision = queue[r].revision]]
  /\ UNCHANGED <<lease, drained, records, phase, claims, crashes>>

\* Read the job's revision, then look for an execution record.
PickDispatching(d, r) ==
  /\ phase[d] = "jobs"
  /\ NoneAt(d, ReconcilePcs)
  /\ r \in Dispatching(d)
  /\ task' = [task EXCEPT ![d][r] =
                [Idle EXCEPT !.pc = IF exec[r] = "none" THEN "norecord" ELSE "found",
                             !.revision = queue[r].revision]]
  /\ UNCHANGED <<lease, drained, records, phase, claims, crashes>>

\* The interrupted dispatch had registered its execution: it was dispatched.
\* A revision conflict fails the cycle.
CommitFound(d, r) ==
  /\ At(d, r, "found")
  /\ \/ /\ Expected(r, task[d][r].revision)
        /\ SetQueue(r, "dispatched")
        /\ UNCHANGED phase
     \/ /\ ~Expected(r, task[d][r].revision)
        /\ Enter(d, "sleep")
        /\ UNCHANGED queue
  /\ Finish(d, r)
  /\ UNCHANGED <<lease, drained, exec, site, remote, boots, claims, crashes>>

\* A live lease, or one that cannot be fenced, ends the cycle as busy.
RecoverBusy(d, r) ==
  /\ At(d, r, "norecord")
  /\ \/ HasUnexpired(r)
     \/ \E m \in Machines :
          LeasesOf(r) = {m} /\ ~CanAcquire(m, r, "dispatch", AuthorityGone)
  /\ Finish(d, r)
  /\ Enter(d, "sleep")
  /\ UNCHANGED <<lease, drained, records, claims, crashes>>

\* "run ... owns multiple dispatch leases": the cycle fails.
RecoverRaises(d, r) ==
  /\ At(d, r, "norecord")
  /\ ~HasUnexpired(r)
  /\ Cardinality(LeasesOf(r)) > 1
  /\ Finish(d, r)
  /\ Enter(d, "sleep")
  /\ UNCHANGED <<lease, drained, records, claims, crashes>>

\* Take over the expired lease with a new token, so that the old owner loses it.
RecoverFence(d, r) ==
  /\ At(d, r, "norecord")
  /\ ~HasUnexpired(r)
  /\ \E m \in Machines, t \in Tokens :
       /\ LeasesOf(r) = {m}
       /\ Fresh(t)
       /\ Acquire(m, r, "dispatch", t, AuthorityGone)
       /\ task' = [task EXCEPT ![d][r] =
                     [@ EXCEPT !.pc = "fenced", !.machine = m, !.token = t]]
  /\ UNCHANGED <<drained, records, phase, claims, crashes>>

RecoverUnfence(d, r) ==
  /\ At(d, r, "fenced")
  /\ Release(task[d][r].machine, r, task[d][r].token)
  /\ task' = [task EXCEPT ![d][r] =
                [@ EXCEPT !.pc = "recover", !.machine = NoMachine, !.token = 0]]
  /\ UNCHANGED <<drained, records, phase, claims, crashes>>

RecoverUnleased(d, r) ==
  /\ At(d, r, "norecord")
  /\ LeasesOf(r) = {}
  /\ Goto(d, r, "recover")
  /\ UNCHANGED <<lease, drained, records, phase, claims, crashes>>

\* recover_dispatching_state; a revision conflict ends the cycle.
RecoverQueue(d, r) ==
  /\ At(d, r, "recover")
  /\ \/ /\ Expected(r, task[d][r].revision)
        /\ SetQueue(r, "queued")
        /\ UNCHANGED phase
     \/ /\ ~Expected(r, task[d][r].revision)
        /\ Enter(d, "sleep")
        /\ UNCHANGED queue
  /\ Finish(d, r)
  /\ UNCHANGED <<lease, drained, exec, site, remote, boots, claims, crashes>>

FinishJobs(d) ==
  /\ phase[d] = "jobs"
  /\ NoneAt(d, ReconcilePcs)
  /\ Dispatching(d) = {}
  /\ Enter(d, "plan")
  /\ UNCHANGED <<lease, drained, records, claims, task, crashes>>

(***************************************************************************)
(* Planning and reserving.  Which queued jobs go where depends on a        *)
(* snapshot of capacities that is stale by the time it is used: any plan   *)
(* that gives each job a machine of its own is possible.                   *)
(***************************************************************************)
Queued(d) == {r \in Mine(d) : queue[r].status = "queued" /\ queue[r].revision <= MaxPlanned}

Plans(d) ==
  UNION {{f \in [S -> Machines \ drained] :
            /\ \A r \in S : f[r] \in Eligible[r]
            /\ \A r, s \in S : f[r] = f[s] => r = s} : S \in SUBSET Queued(d)}

\* Jobs under an active placement update are not planned and do not keep the
\* loop from being idle; an update expires at any time.
AllUpdating(d) == \A r \in Queued(d) : queue[r].update

Plan(d) ==
  /\ phase[d] = "plan"
  /\ \E f \in Plans(d) :
       IF DOMAIN f = {}
       THEN /\ \/ d \notin OneShot /\ AllUpdating(d) /\ Enter(d, "idle")
               \/ (d \in OneShot \/ Queued(d) # {}) /\ Enter(d, "sleep")
            /\ UNCHANGED task
       ELSE /\ d \in OneShot => Cardinality(DOMAIN f) = 1
            /\ Enter(d, "batch")
            /\ task' = [task EXCEPT ![d] = [r \in Runs |->
                 IF r \in DOMAIN f
                 THEN [Idle EXCEPT !.pc = "planned", !.machine = f[r],
                                   !.revision = queue[r].revision,
                                   !.others = Eligible[r] \ (drained \cup Range(f))]
                 ELSE Idle]]
  /\ UNCHANGED <<lease, drained, records, claims, crashes>>

\* dispatch_loop returns when idle, unless monitoring saw an active run.
ExitIdle(d) ==
  /\ phase[d] = "idle"
  /\ Enter(d, "down")
  /\ UNCHANGED <<lease, drained, records, claims, task, crashes>>

StayIdle(d) ==
  /\ phase[d] = "idle"
  /\ \E r \in Mine(d) : exec[r] # "none"
  /\ Enter(d, "sleep")
  /\ UNCHANGED <<lease, drained, records, claims, task, crashes>>

\* The next alternative machine of _reserve_planned_dispatch, or give up.
NextCandidate(d, r) ==
  \/ task[d][r].others = {} /\ Finish(d, r)
  \/ \E m \in task[d][r].others :
       task' = [task EXCEPT ![d][r] =
                  [@ EXCEPT !.pc = "planned", !.machine = m, !.token = 0,
                            !.others = task[d][r].others \ {m}]]

Reserve(d, r) ==
  /\ At(d, r, "planned")
  /\ \/ \E t \in Tokens :
          /\ Fresh(t)
          /\ Acquire(task[d][r].machine, r, "dispatch", t, AuthorityGone)
          /\ task' = [task EXCEPT ![d][r] = [@ EXCEPT !.pc = "leased", !.token = t]]
     \/ /\ ~CanAcquire(task[d][r].machine, r, "dispatch", AuthorityGone)
        /\ NextCandidate(d, r)
        /\ UNCHANGED lease
  /\ UNCHANGED <<drained, records, phase, claims, crashes>>

\* Under the lease, probe the machine again: keep it, or release it when it
\* is full or cannot be probed.
ProbeReserved(d, r) ==
  /\ At(d, r, "leased")
  /\ \/ /\ HasCapacity(r, task[d][r].machine)
        /\ task' = [task EXCEPT ![d][r] = [@ EXCEPT !.pc = "reserved", !.others = {}]]
        /\ UNCHANGED lease
     \/ /\ Release(task[d][r].machine, r, task[d][r].token)
        /\ NextCandidate(d, r)
  /\ UNCHANGED <<drained, records, phase, claims, crashes>>

\* Once every job of the batch is reserved or given up: queued -> dispatching.
\* A job edited or stopped meanwhile is dropped with its lease.
Mark(d, r) ==
  /\ At(d, r, "reserved")
  /\ NoneAt(d, ReservePcs)
  /\ queue[r].status # "gone"
  /\ \/ /\ Expected(r, task[d][r].revision)
        /\ SetQueue(r, "dispatching")
        /\ task' = [task EXCEPT ![d][r] =
             [@ EXCEPT !.pc = "marked", !.revision = task[d][r].revision + 1]]
     \/ /\ ~Expected(r, task[d][r].revision)
        /\ Goto(d, r, "release")
        /\ UNCHANGED queue
  /\ UNCHANGED <<lease, drained, exec, site, remote, boots, phase, claims, crashes>>

\* The entry has been purged: the batch fails.  Leases of jobs not yet marked
\* are released; those already marked are left dispatching, to be recovered.
MarkRaises(d, r) ==
  /\ At(d, r, "reserved")
  /\ NoneAt(d, ReservePcs)
  /\ queue[r].status = "gone"
  /\ task' = [task EXCEPT ![d] = [s \in Runs |->
       CASE task[d][s].pc = "reserved" -> [task[d][s] EXCEPT !.pc = "release"]
         [] task[d][s].pc = "marked" -> Idle
         [] OTHER -> task[d][s]]]
  /\ UNCHANGED <<lease, drained, records, phase, claims, crashes>>

(***************************************************************************)
(* _launch_dispatching_job, one thread per job, under a lease heartbeat.   *)
(***************************************************************************)

\* DispatchLeaseHeartbeat.assert_owned, then go on to pc "next"; "lost" otherwise.
AssertOwned(d, r, next, lost) ==
  \/ /\ StillOwns(d, r)
     /\ Renew(task[d][r].machine, r, task[d][r].token)
     /\ Goto(d, r, next)
  \/ /\ ~StillOwns(d, r)
     /\ Goto(d, r, lost)
     /\ UNCHANGED lease

\* An I/O error of this thread's own (not one its heartbeat met) is taken for a
\* known failure, whatever has been launched by then.
DiskFails(d, r) == FaultyDisk /\ Goto(d, r, "failing")

\* The worktree is prepared between two assertions; preparing it may fail.
Prepare(d, r) ==
  /\ At(d, r, "marked")
  /\ NoneAt(d, ReservePcs \cup {"reserved"})
  /\ \/ AssertOwned(d, r, "prepared", "failqueue")
     \/ Goto(d, r, "failqueue") /\ UNCHANGED lease
  /\ UNCHANGED <<drained, records, phase, claims, crashes>>

\* Mutant of Register: an existing record is overwritten.
RegisterAgain(d, r) ==
  /\ At(d, r, "prepared")
  /\ exec' = [exec EXCEPT ![r] = "registered"]
  /\ site' = [site EXCEPT ![r] = task[d][r].machine]
  /\ Goto(d, r, "registered")
  /\ UNCHANGED <<lease, drained, queue, remote, boots, phase, claims, crashes>>

Register(d, r) ==
  /\ At(d, r, "prepared")
  /\ \/ /\ exec[r] = "none"
        /\ exec' = [exec EXCEPT ![r] = "registered"]
        /\ site' = [site EXCEPT ![r] = task[d][r].machine]
        /\ Goto(d, r, "registered")
     \/ /\ exec[r] # "none"
        /\ Goto(d, r, "failqueue")
        /\ UNCHANGED <<exec, site>>
  /\ UNCHANGED <<lease, drained, queue, remote, boots, phase, claims, crashes>>

AssertRegistered(d, r) ==
  /\ At(d, r, "registered")
  /\ \/ AssertOwned(d, r, "ready", "unknown")
     \/ DiskFails(d, r) /\ UNCHANGED lease
  /\ UNCHANGED <<drained, records, phase, claims, crashes>>

\* Mutant of StartBootstrap: the status is not read again under the run lock.
StartUnchecked(d, r) ==
  /\ At(d, r, "ready")
  /\ ~RunLocked(r)
  /\ remote' = [remote EXCEPT ![r] = "preflight"]
  /\ boots' = [boots EXCEPT ![r] = @ + 1]
  /\ Goto(d, r, "launching")
  /\ UNCHANGED <<lease, drained, queue, exec, site, phase, claims, crashes>>

\* launch.launch takes the run lock, requires "registered" and a valid plan,
\* and sends the bootstrap, which may never arrive.
StartBootstrap(d, r) ==
  /\ At(d, r, "ready")
  /\ ~RunLocked(r)
  /\ \/ /\ exec[r] = "registered"
        /\ \E now \in {"preflight", "absent"} : remote' = [remote EXCEPT ![r] = now]
        /\ boots' = [boots EXCEPT ![r] = @ + 1]
        /\ Goto(d, r, "launching")
     \/ /\ Goto(d, r, "failing")
        /\ UNCHANGED <<remote, boots>>
  /\ UNCHANGED <<lease, drained, queue, exec, site, phase, claims, crashes>>

\* A verified tmux-started result.
LaunchOk(d, r) ==
  /\ At(d, r, "launching")
  /\ remote[r] \in {"running"} \cup ExecTerminal
  /\ \/ exec' = [exec EXCEPT ![r] = "running"] /\ Goto(d, r, "launched")
     \/ DiskFails(d, r) /\ UNCHANGED exec
  /\ UNCHANGED <<lease, drained, queue, site, remote, boots, phase, claims, crashes>>

LaunchRejected(d, r) ==
  /\ At(d, r, "launching")
  /\ remote[r] = "rejected"
  /\ Goto(d, r, "failing")
  /\ UNCHANGED <<lease, drained, records, phase, claims, crashes>>

\* Timeout or transport failure, whatever the bootstrap is doing.
LaunchUnknown(d, r) ==
  /\ At(d, r, "launching")
  /\ Goto(d, r, "unknown")
  /\ UNCHANGED <<lease, drained, records, phase, claims, crashes>>

AssertLaunched(d, r) ==
  /\ At(d, r, "launched")
  /\ \/ AssertOwned(d, r, "commit", "unknown")
     \/ DiskFails(d, r) /\ UNCHANGED lease
  /\ UNCHANGED <<drained, records, phase, claims, crashes>>

\* _transition_after_launch: somebody else's "dispatched" is as good as ours.
Commit(d, r) ==
  /\ At(d, r, "commit")
  /\ \/ /\ Expected(r, task[d][r].revision)
        /\ SetQueue(r, "dispatched")
        /\ Goto(d, r, "release")
     \/ /\ ~Expected(r, task[d][r].revision)
        /\ Goto(d, r, IF queue[r].status = "dispatched" THEN "release" ELSE "unknown")
        /\ UNCHANGED queue
     \/ DiskFails(d, r) /\ UNCHANGED queue
  /\ UNCHANGED <<lease, drained, exec, site, remote, boots, phase, claims, crashes>>

\* Unknown outcome: renew if possible, then probe, which may fail.
Unknown(d, r) ==
  /\ At(d, r, "unknown")
  /\ IF StillOwns(d, r)
     THEN Renew(task[d][r].machine, r, task[d][r].token)
     ELSE UNCHANGED lease
  /\ \/ r \in Visible(task[d][r].machine) /\ Goto(d, r, "seen")
     \/ Goto(d, r, "unseen")
  /\ UNCHANGED <<drained, records, phase, claims, crashes>>

\* Mutant of CommitUnknown: the lease is released although nothing was seen.
CommitAndRelease(d, r) ==
  /\ task[d][r].pc \in {"seen", "unseen"}
  /\ IF Expected(r, task[d][r].revision)
     THEN SetQueue(r, "dispatched")
     ELSE UNCHANGED queue
  /\ Goto(d, r, "release")
  /\ UNCHANGED <<lease, drained, exec, site, remote, boots, phase, claims, crashes>>

\* The job counts as dispatched; its lease stays unless the run was seen.
CommitUnknown(d, r) ==
  /\ task[d][r].pc \in {"seen", "unseen"}
  /\ IF Expected(r, task[d][r].revision)
     THEN SetQueue(r, "dispatched")
     ELSE UNCHANGED queue
  /\ IF At(d, r, "seen") THEN Goto(d, r, "release") ELSE Finish(d, r)
  /\ UNCHANGED <<lease, drained, exec, site, remote, boots, phase, claims, crashes>>

\* Mutant of ReadFailing: only the queue entry is failed.
FailQueueOnly(d, r) ==
  /\ At(d, r, "failing")
  /\ Goto(d, r, "failqueue")
  /\ UNCHANGED <<lease, drained, records, phase, claims, crashes>>

\* _fail_registered_execution reads the record, then fails it at the revision
\* it read; a conflict leaves the queue entry as it is.
ReadFailing(d, r) ==
  /\ At(d, r, "failing")
  /\ Goto(d, r, IF exec[r] = "registered" THEN "failexec" ELSE "failqueue")
  /\ UNCHANGED <<lease, drained, records, phase, claims, crashes>>

FailExecution(d, r) ==
  /\ At(d, r, "failexec")
  /\ ~RunLocked(r)
  /\ \/ /\ exec[r] = "registered"
        /\ exec' = [exec EXCEPT ![r] = "failed"]
        /\ Goto(d, r, "failqueue")
     \/ /\ exec[r] # "registered"
        /\ Goto(d, r, "release")
        /\ UNCHANGED exec
  /\ UNCHANGED <<lease, drained, queue, site, remote, boots, phase, claims, crashes>>

FailQueue(d, r) ==
  /\ At(d, r, "failqueue")
  /\ IF Expected(r, task[d][r].revision)
     THEN SetQueue(r, "failed")
     ELSE UNCHANGED queue
  /\ Goto(d, r, "release")
  /\ UNCHANGED <<lease, drained, exec, site, remote, boots, phase, claims, crashes>>

ReleaseLease(d, r) ==
  /\ At(d, r, "release")
  /\ Release(task[d][r].machine, r, task[d][r].token)
  /\ Finish(d, r)
  /\ UNCHANGED <<drained, records, phase, claims, crashes>>

\* The heartbeat thread: one failed renewal is final for its task.
Heartbeat(d, r) ==
  /\ task[d][r].pc \in HeartbeatPcs
  /\ task[d][r].heartbeat
  /\ \/ /\ Renew(task[d][r].machine, r, task[d][r].token)
        /\ UNCHANGED task
     \/ /\ task' = [task EXCEPT ![d][r].heartbeat = FALSE]
        /\ UNCHANGED lease
  /\ UNCHANGED <<drained, records, phase, claims, crashes>>

FinishBatch(d) ==
  /\ phase[d] = "batch"
  /\ NoneAt(d, Pcs \ {"idle"})
  /\ Enter(d, "sleep")
  /\ UNCHANGED <<lease, drained, records, claims, task, crashes>>

Crash(d) ==
  /\ phase[d] # "down"
  /\ crashes < MaxCrashes
  /\ crashes' = crashes + 1
  /\ Enter(d, "down")
  /\ task' = [task EXCEPT ![d] = [r \in Runs |-> Idle]]
  /\ claims' = [claims EXCEPT ![d] = {}]
  /\ UNCHANGED <<lease, drained, records>>

(***************************************************************************)
(* The surroundings: operators, the remote machine, monitoring, time.      *)
(***************************************************************************)
Submit(r) ==
  /\ queue[r].status = "unborn"
  /\ queue' = [queue EXCEPT ![r].status = "queued"]
  /\ UNCHANGED <<lease, drained, exec, site, remote, boots, phase, claims, task, crashes>>

\* reserve_queued_job_update: a client announces a placement update.
ReserveUpdate(r) ==
  /\ queue[r].status = "queued"
  /\ queue[r].revision < MaxRevision
  /\ Touch(r, TRUE)
  /\ UNCHANGED <<lease, drained, exec, site, remote, boots, phase, claims, task, crashes>>

\* update_queued_job raises the revision of a queued job, of every queued job
\* when their order changes; the job edited under an update gives the update up.
Edit(r) ==
  /\ queue[r].status = "queued"
  /\ queue[r].revision < MaxRevision
  /\ \E kept \in {FALSE, queue[r].update} : Touch(r, kept)
  /\ UNCHANGED <<lease, drained, exec, site, remote, boots, phase, claims, task, crashes>>

\* release_queued_job_update does not look at the job's status: an update that
\* expired may be released, and the revision raised, while the job is dispatching.
ReleaseUpdate(r) ==
  /\ queue[r].status # "gone"
  /\ queue[r].update
  /\ Touch(r, FALSE)
  /\ UNCHANGED <<lease, drained, exec, site, remote, boots, phase, claims, task, crashes>>

StopQueued(r) ==
  /\ queue[r].status = "queued"
  /\ SetQueue(r, "stopped")
  /\ UNCHANGED <<lease, drained, exec, site, remote, boots, phase, claims, task, crashes>>

\* Mutant of StopOutcomes: the remote status is recorded as it is reported.
StopReported(r) == <<remote[r], remote[r]>>

\* What the remote stopper does to a run in each state, and what it reports.
\* Before the runtime directory exists it reports "not_started"; before the
\* tmux session exists it reports a stop, and the bootstrap goes on.
StopOutcomes(r) ==
  CASE remote[r] \in {"absent", "rejected", "preflight", "starting"} -> <<remote[r], "stopped">>
    [] remote[r] \in {"dead", "running"} -> <<"stopped", "stopped">>
    [] remote[r] \in ExecTerminal -> <<remote[r], remote[r]>>

StopExecution(r) ==
  /\ queue[r].status \notin {"queued", "dispatching"}
  /\ exec[r] \in {"registered", "running"}
  /\ ~RunLocked(r)
  /\ remote' = [remote EXCEPT ![r] = StopOutcomes(r)[1]]
  /\ exec' = [exec EXCEPT ![r] = StopOutcomes(r)[2]]
  /\ UNCHANGED <<lease, drained, queue, site, boots, phase, claims, task, crashes>>

\* Mutant of Monitor: the record is not read again after the probe.
MonitorStale(r) ==
  /\ ~RunLocked(r)
  /\ exec[r] # "none"
  /\ remote[r] \in {"running"} \cup ExecTerminal
  /\ exec' = [exec EXCEPT ![r] = remote[r]]
  /\ UNCHANGED <<lease, drained, queue, site, remote, boots, phase, claims, task, crashes>>

\* monitor_rows: the probed status becomes the record's.
Monitor(r) ==
  /\ exec[r] \in {"registered", "running"}
  /\ ~RunLocked(r)
  /\ \/ remote[r] \in ExecTerminal /\ exec' = [exec EXCEPT ![r] = remote[r]]
     \/ /\ remote[r] = "running"
        /\ exec[r] = "registered"
        /\ exec' = [exec EXCEPT ![r] = "running"]
  /\ UNCHANGED <<lease, drained, queue, site, remote, boots, phase, claims, task, crashes>>

RemoteStep(r) ==
  /\ \E next \in RemoteStates :
       /\ \/ remote[r] = "preflight" /\ next \in {"rejected", "starting"}
          \/ remote[r] = "starting" /\ next \in {"rejected", "running", "dead"}
          \/ remote[r] = "running" /\ next \in Endings \cup {"dead"}
       /\ remote' = [remote EXCEPT ![r] = next]
  /\ UNCHANGED <<lease, drained, queue, exec, site, boots, phase, claims, task, crashes>>

\* cleanup_records on a stopped run: first its queue entry, then its record.
Cleanable(r) ==
  /\ r \in Cleaned
  /\ \/ exec[r] = "none" /\ queue[r].status = "stopped"
     \/ exec[r] = "stopped" /\ remote[r] \in {"absent", "rejected", "preflight", "stopped"}

PurgeQueue(r) ==
  /\ Cleanable(r)
  /\ queue[r].status \in QueueTerminal
  /\ queue' = [queue EXCEPT ![r].status = "gone"]
  /\ UNCHANGED <<lease, drained, exec, site, remote, boots, phase, claims, task, crashes>>

PurgeExecution(r) ==
  /\ exec[r] = "stopped"
  /\ Cleanable(r)
  /\ queue[r].status = "gone"
  /\ ~RunLocked(r)
  /\ exec' = [exec EXCEPT ![r] = "none"]
  /\ UNCHANGED <<lease, drained, queue, site, remote, boots, phase, claims, task, crashes>>

ExpireLease(m) ==
  /\ Expire(m)
  /\ UNCHANGED <<drained, records, phase, claims, task, crashes>>

Drain(m) ==
  /\ m \in Drainable
  /\ \E closed \in BOOLEAN : SetDrained(m, closed)
  /\ UNCHANGED <<lease, records, phase, claims, task, crashes>>

(***************************************************************************)
(* Specification                                                           *)
(***************************************************************************)
Cycle(d) ==
  \/ Start(d) \/ BeginCycle(d) \/ FinishLeases(d) \/ FinishJobs(d) \/ FinishBatch(d)
  \/ Plan(d) \/ ExitIdle(d) \/ StayIdle(d)
  \/ \E c \in claims[d] : ReconcileLease(d, c)

Recovery(d, r) ==
  \/ PickDispatching(d, r) \/ CommitFound(d, r) \/ RecoverBusy(d, r) \/ RecoverRaises(d, r)
  \/ RecoverFence(d, r) \/ RecoverUnfence(d, r) \/ RecoverUnleased(d, r) \/ RecoverQueue(d, r)

Reservation(d, r) ==
  \/ Reserve(d, r) \/ ProbeReserved(d, r) \/ Mark(d, r) \/ MarkRaises(d, r)

Launch(d, r) ==
  \/ Prepare(d, r) \/ Register(d, r) \/ AssertRegistered(d, r) \/ StartBootstrap(d, r)
  \/ LaunchOk(d, r) \/ LaunchRejected(d, r) \/ LaunchUnknown(d, r) \/ AssertLaunched(d, r)
  \/ Commit(d, r) \/ Unknown(d, r) \/ CommitUnknown(d, r) \/ ReadFailing(d, r)
  \/ FailExecution(d, r) \/ FailQueue(d, r) \/ ReleaseLease(d, r)

Dispatcher(d) ==
  \/ Cycle(d)
  \/ \E r \in Runs : Recovery(d, r) \/ Reservation(d, r) \/ Launch(d, r)

Surroundings ==
  \/ \E r \in Runs : \/ Submit(r) \/ ReserveUpdate(r) \/ Edit(r) \/ ReleaseUpdate(r)
                     \/ StopQueued(r) \/ StopExecution(r)
                     \/ Monitor(r) \/ RemoteStep(r) \/ PurgeQueue(r) \/ PurgeExecution(r)
  \/ \E m \in Machines : ExpireLease(m) \/ Drain(m)
  \/ \E d \in Dispatchers : \/ Crash(d) \/ ExitOneShot(d)
                            \/ \E r \in Runs : Heartbeat(d, r)

Next == Surroundings \/ \E d \in Dispatchers : Dispatcher(d)

Spec == Init /\ [][Next]_vars

\* What makes a status request call ensure_dispatcher: a job of the project is
\* queued or being dispatched, or a record is still active once it was monitored.
Wanted(d) ==
  \E r \in Mine(d) : \/ queue[r].status \in {"queued", "dispatching"}
                      \/ exec[r] \in {"registered", "running"}

StartWanted(d) == d \notin OneShot /\ Wanted(d) /\ Start(d)

\* A dispatcher runs on: every command it waits for has a timeout.  Whether one is
\* started again is up to the requests made, which go on while there is work they
\* show (Wanted); nothing else restarts it.  Time passes: leases expire.
FairSpec ==
  /\ Spec
  /\ \A d \in Dispatchers :
       /\ WF_vars(phase[d] # "down" /\ Cycle(d))
       /\ WF_vars(StartWanted(d))
       /\ \A r \in Runs : WF_vars(Recovery(d, r) \/ Reservation(d, r) \/ Launch(d, r))
  /\ \A m \in Machines : WF_vars(ExpireLease(m))

(***************************************************************************)
(* Properties                                                              *)
(***************************************************************************)
Owns(r, m) == lease[m] # NoLease /\ lease[m].owner = r

\* No run's bootstrap is ever sent twice, whatever crashes, recoveries and
\* concurrent dispatchers do (launch.launch after recover_dispatching_state).
LaunchOnce == \A r \in Runs : boots[r] <= 1

\* A run that has an execution record is past its queue: recovery never puts
\* it back, so it cannot be dispatched a second time.
RegisteredLeftQueue ==
  \A r \in Runs : exec[r] # "none" => queue[r].status \notin {"unborn", "queued"}

\* While a registered run's bootstrap may still bring a workload up unseen,
\* the run holds the lease of its machine ("a crashed dispatch may have started
\* an unknown live workload").
OutstandingIsFenced ==
  \A r \in Runs :
    exec[r] = "registered" /\ remote[r] \in RemoteOutstanding => Owns(r, site[r])

Authorized(m) ==
  {r \in Runs : site[r] = m /\ exec[r] \in {"registered", "running"} /\ remote[r] \in RemoteAlive}

\* The workloads a machine has or may yet have never exceed its cores, nor
\* those of one class its slots: the lease bridges probing and starting.
NoOvercommit ==
  \A m \in Machines :
    /\ MapThenSumSet(LAMBDA r : Requested(r, m), Authorized(m)) <= Configured[m]
    /\ \A class \in {"standard", "test"} :
         Cardinality({r \in Authorized(m) : Class[r] = class}) <= Slots[m][class]

\* The queue says "failed" only of a run whose execution record is not active;
\* otherwise the views report an authority conflict (run_view._derive_phase).
FailedMeansInactive ==
  \A r \in Runs : queue[r].status = "failed" => exec[r] \notin {"registered", "running"}

\* A record that ends stays ended, and no bootstrap is sent for it.
EndedStaysEnded ==
  [][\A r \in Runs : exec[r] \in ExecTerminal =>
       exec'[r] \in {exec[r], "none"} /\ boots'[r] = boots[r]]_vars

\* A bootstrap is sent only for a job in dispatching whose run owns the lease
\* of the machine it is sent to.
BootstrapUnderLease ==
  [][\A r \in Runs : boots'[r] # boots[r] =>
       queue[r].status = "dispatching" /\ Owns(r, site[r])]_vars

\* The recovery of an interrupted dispatch is refused (the machine of its lease is
\* drained) or raises (its run owns two leases), and ends the cycle.
HeldUp(r) ==
  /\ queue[r].status = "dispatching"
  /\ LeasesOf(r) \cap drained # {} \/ Cardinality(LeasesOf(r)) > 1

\* An interrupted dispatch does not stay "dispatching" for ever, unless recovery in
\* its project is held up again and again: once the machines are open and no run
\* owns two leases, for good, the job is put back or found launched.
DispatchingResolves ==
  \A r \in Runs :
    \/ []<>(\E s \in Runs : ProjectOf[s] = ProjectOf[r] /\ HeldUp(s))
    \/ queue[r].status = "dispatching" ~> queue[r].status # "dispatching"

\* No dispatcher serves the run's project and no request starts one.
Forgotten(r) ==
  \A d \in Dispatchers : r \in Mine(d) => phase[d] = "down" /\ ~Wanted(d)

\* The machine of an ended run does not stay leased to it, unless its project is
\* forgotten for good: the dispatcher that launched the run died, a status request
\* recorded the end, and nobody submits to the project or runs a job of it again.
EndedRunsFreeMachines ==
  \A r \in Runs, m \in Machines :
    \/ <>[]Forgotten(r)
    \/ exec[r] \in ExecTerminal /\ Owns(r, m) ~> ~Owns(r, m)
=============================================================================
