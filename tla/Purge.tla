------------------------------- MODULE Purge -------------------------------
(***************************************************************************)
(* purge-run and purge-task: records, artifacts, worktree and events of    *)
(* ended runs are removed step by step, from a plan that says what has     *)
(* been done and that a later invocation resumes.  The runs share one      *)
(* machine and one worktree; the rest of the controller goes on submitting *)
(* and dispatching meanwhile.                                              *)
(***************************************************************************)
EXTENDS Leases

CONSTANTS
  Runs,         \* runs, all of one task
  Task,         \* the purge of that task; the purge of one run is named by the run
  RunPurgers,   \* invocations of purge-run
  Asked,        \* invocation of purge-run -> the runs an operator may ask it to purge
  TaskPurgers,  \* invocations of purge-task
  Teams,        \* sets of invocations that may work beside each other
  Overlaps,     \* run -> the other runs whose output paths overlap its own
  Machine,      \* the machine all runs are dispatched to
  NoRun,        \* "no run in hand"
  NoPlan,       \* "no plan.yaml"
  MaxFaults,    \* bound: deaths of invocations, lost remote answers
  MaxPrepared   \* bound: submissions begun, of new runs or again of the same

Callers == RunPurgers \cup TaskPurgers
Purges == Runs \cup {Task}

ASSUME PurgeAssumptions ==
  /\ Task \notin Runs /\ NoRun \notin Runs /\ Machine \in Machines
  /\ Purges \subseteq Owners
  /\ RunPurgers \cap TaskPurgers = {}
  /\ Asked \in [RunPurgers -> SUBSET Runs]
  /\ Teams \subseteq SUBSET Callers
  /\ Overlaps \in [Runs -> SUBSET Runs]
  /\ MaxFaults \in Nat /\ MaxPrepared \in Nat

VARIABLES
  team,       \* the invocations of this behaviour
  queue,      \* run -> status of its queue entry
  exec,       \* run -> status of its execution record
  tombstone,  \* run -> status of its tombstone
  plan,       \* purge -> content of its plan.yaml
  staged,     \* purge -> the records in its staging directory
  caller,     \* invocation -> where it is and what it remembers
  remote,     \* what lies on the machine: outputs, worktree
  strays,     \* remote purge programs that nobody waits for any more
  events,     \* runs with lines in the event log
  faults,
  prepared    \* submissions begun so far

records == <<queue, exec>>
vars == <<lease, drained, team, records, tombstone, plan, staged, caller, remote, strays, events, faults, prepared>>

QueueStatuses == {"absent", "prepared", "queued", "dispatching", "dispatched", "failed", "stopped"}
ExecStatuses == {"absent", "running", "succeeded", "failed", "stopped"}
QueueTerminal == {"dispatched", "failed", "stopped"}
ExecTerminal == {"succeeded", "failed", "stopped"}

InQueue(r) == queue[r] \notin {"absent", "prepared"}
Registered(r) == exec[r] # "absent"

\* A record of a run: its queue entry or its execution record.
Parts == Runs \X {"queue", "exec"}
QueuePart(r) == <<r, "queue">>
ExecPart(r) == <<r, "exec">>
PartsOf(R) == {QueuePart(r) : r \in {s \in R : InQueue(s)}} \cup {ExecPart(r) : r \in {s \in R : Registered(s)}}

Plan == [parts: SUBSET Parts, delete: BOOLEAN, staged: SUBSET Parts, sync: BOOLEAN,
         artifacts: SUBSET Runs, worktree: BOOLEAN, events: BOOLEAN]

ASSUME NoPlanAssumption == NoPlan \notin Plan

\* Mutant of FreshPlan: the progress of the events is left out.
PlanWithoutEvents(parts, delete) ==
  [parts |-> parts, delete |-> delete, staged |-> {}, sync |-> FALSE,
   artifacts |-> {}, worktree |-> FALSE]

FreshPlan(parts, delete) ==
  [parts |-> parts, delete |-> delete, staged |-> {}, sync |-> FALSE,
   artifacts |-> {}, worktree |-> FALSE, events |-> FALSE]

Pcs == {"idle", "tombstone", "stopping", "create", "stage", "overlap", "sync", "artifacts", "recheck",
        "remote", "release", "worktree", "lease", "remove", "unlease", "events", "erase", "complete",
        "clean", "persist"}

\* next: where "persist" leads; todo: records still to visit; done: whether the
\* remote program in hand answered; failed: whether anything went wrong;
\* shared: whether the inventory in hand shows another user of the worktree.
Caller == [pc: Pcs, next: Pcs, purge: Purges, plan: Plan \cup {NoPlan}, run: Runs \cup {NoRun},
           token: Tokens \cup {0}, todo: SUBSET Runs, done: BOOLEAN, failed: BOOLEAN, shared: BOOLEAN]
Idle == [pc |-> "idle", next |-> "idle", purge |-> Task, plan |-> NoPlan, run |-> NoRun,
         token |-> 0, todo |-> {}, done |-> FALSE, failed |-> FALSE, shared |-> FALSE]

TypeOK ==
  /\ LeaseTypeOK
  /\ team \in Teams
  /\ queue \in [Runs -> QueueStatuses]
  /\ exec \in [Runs -> ExecStatuses]
  /\ tombstone \in [Runs -> {"none", "purging", "purged"}]
  /\ plan \in [Purges -> Plan \cup {NoPlan}]
  /\ staged \in [Purges -> SUBSET Parts]
  /\ caller \in [Callers -> Caller]
  /\ remote \in [outputs: SUBSET Runs, worktree: BOOLEAN]
  /\ strays \in SUBSET (Runs \cup {NoRun})
  /\ events \in SUBSET Runs
  /\ faults \in Nat
  /\ prepared \in Nat

Init ==
  /\ LeaseInit
  /\ team \in Teams
  /\ queue = [r \in Runs |-> "absent"]
  /\ exec = [r \in Runs |-> "absent"]
  /\ tombstone = [r \in Runs |-> "none"]
  /\ plan = [p \in Purges |-> NoPlan]
  /\ staged = [p \in Purges |-> {}]
  /\ caller = [c \in Callers |-> Idle]
  /\ remote = [outputs |-> {}, worktree |-> FALSE]
  /\ strays = {}
  /\ events = {}
  /\ faults = 0
  /\ prepared = 0

(***************************************************************************)
(* The rest of the controller: submission and dispatching.                 *)
(***************************************************************************)

\* A client prepares the worktree before it submits.
Prepare(r) ==
  /\ queue[r] = "absent" /\ ~Registered(r)
  /\ prepared < MaxPrepared
  /\ prepared' = prepared + 1
  /\ queue' = [queue EXCEPT ![r] = "prepared"]
  /\ remote' = [remote EXCEPT !.worktree = TRUE]
  /\ UNCHANGED <<lease, drained, team, exec, tombstone, plan, staged, caller, strays, events, faults>>

\* Mutant of Submit: tombstones are not looked at.
SubmitPurged(r) ==
  /\ queue[r] = "prepared"
  /\ queue' = [queue EXCEPT ![r] = "queued"]
  /\ UNCHANGED <<lease, drained, team, exec, tombstone, plan, staged, caller, remote, strays, events, faults, prepared>>

Submit(r) ==
  /\ queue[r] = "prepared"
  /\ queue' = [queue EXCEPT ![r] = IF tombstone[r] = "none" THEN "queued" ELSE "absent"]
  /\ UNCHANGED <<lease, drained, team, exec, tombstone, plan, staged, caller, remote, strays, events, faults, prepared>>

TokensInUse == {lease[m].token : m \in {n \in Machines : lease[n] # NoLease}} \cup {caller[c].token : c \in Callers}
Fresh(t) == t \in Tokens \ TokensInUse /\ \A u \in Tokens \ TokensInUse : t <= u

\* Runs without queue entry and execution record: their dispatch leases are orphans.
AuthorityGone == {r \in Runs : ~InQueue(r) /\ ~Registered(r)}

Reserve(r) ==
  /\ queue[r] = "queued"
  /\ \E t \in Tokens : Fresh(t) /\ Acquire(Machine, r, "dispatch", t, AuthorityGone)
  /\ queue' = [queue EXCEPT ![r] = "dispatching"]
  /\ UNCHANGED <<drained, team, exec, tombstone, plan, staged, caller, remote, strays, events, faults, prepared>>

\* The outcome of a launch: the execution record and the queue entry, then the lease.
Launched(r, e, q) ==
  /\ queue[r] = "dispatching"
  /\ queue' = [queue EXCEPT ![r] = q]
  /\ exec' = [exec EXCEPT ![r] = e]
  /\ events' = IF e = "absent" THEN events ELSE events \cup {r}
  /\ lease' = [lease EXCEPT ![Machine] = NoLease]
  /\ UNCHANGED <<drained, team, tombstone, plan, staged, caller, strays, faults, prepared>>

\* The bootstrap needs the worktree and an output path that does not exist.
Launch(r) ==
  /\ tombstone[r] = "none" /\ ~Registered(r)
  /\ remote.worktree /\ r \notin remote.outputs
  /\ Launched(r, "running", "dispatched")
  /\ remote' = [remote EXCEPT !.outputs = @ \cup {r}]

\* Nothing is registered, or the record is failed before the queue entry is.
LaunchFails(r) ==
  /\ ~Registered(r)
  /\ \E e \in {"absent", "failed"} : Launched(r, e, "failed")
  /\ UNCHANGED remote

Finish(r) ==
  /\ exec[r] = "running"
  /\ \E e \in {"succeeded", "failed"} : exec' = [exec EXCEPT ![r] = e]
  /\ UNCHANGED <<lease, drained, team, queue, tombstone, plan, staged, caller, remote, strays, events, faults, prepared>>

(***************************************************************************)
(* Common to both purges.  Step(c, pc): invocation c of the team stands    *)
(* at pc; Go: it goes on with what it knows, Stop: it reports and ends.    *)
(***************************************************************************)
At(c, pc) == c \in team /\ caller[c].pc = pc
Go(c, new) == caller' = [caller EXCEPT ![c] = new]
GiveUp(c) == Go(c, Idle)

\* A step is remembered in the plan and, with the next operation, written to plan.yaml.
GoPersist(c, known, next) == Go(c, [caller[c] EXCEPT !.plan = known, !.pc = "persist", !.next = next])

Outside == <<team, remote, strays, events, faults, prepared>>

Persist(c) ==
  /\ At(c, "persist")
  /\ plan' = [plan EXCEPT ![caller[c].purge] = caller[c].plan]
  /\ Go(c, [caller[c] EXCEPT !.pc = caller[c].next])
  /\ UNCHANGED <<lease, drained, records, tombstone, staged, Outside>>

(***************************************************************************)
(* Inventories.                                                            *)
(***************************************************************************)
RunsOf(pl) == {q[1] : q \in pl.parts}
Executions(pl) == {r \in Runs : ExecPart(r) \in pl.parts}
Retained(pl) == {r \in Runs \ RunsOf(pl) : InQueue(r) \/ Registered(r)}

\* output_overlap_blockers: an output to be removed overlaps that of a retained run.
Overlapped(pl) == \E r \in Executions(pl) : Overlaps[r] \cap Retained(pl) # {}

\* The worktree may go when queue entry and record of a run agree on it and
\* no retained run needs it.
WorktreeCandidate(pl, shared) ==
  ~shared /\ \E r \in Runs : {QueuePart(r), ExecPart(r)} \subseteq pl.parts

\* Run by run, the queue entry before the execution record.
NextToStage(pl) ==
  LET todo == pl.parts \ pl.staged
      half == {q \in todo : q[2] = "exec" /\ QueuePart(q[1]) \in pl.staged}
  IN IF half # {} THEN half ELSE {q \in todo : q[2] = "queue" \/ QueuePart(q[1]) \notin pl.parts}

\* Where an invocation of p goes to stage what is left of pl.
ToStage(p, pl) ==
  IF NextToStage(pl) # {} THEN "stage"
  ELSE IF ~pl.delete THEN "events"
  ELSE IF p = Task THEN "sync" ELSE "overlap"

(***************************************************************************)
(* Begin, or resume from plan.yaml.                                        *)
(***************************************************************************)
Enter(c, p, pc, known) == Go(c, [Idle EXCEPT !.pc = pc, !.purge = p, !.plan = known])

\* Mutant of PurgeLocked: purge-run, like purge-task, takes no lock.
PurgeUnlocked(r) == FALSE

\* purge-run works under the lock of its run.
PurgeLocked(r) == \E c \in RunPurgers : caller[c].pc # "idle" /\ caller[c].purge = r

Failed(r) ==
  \/ exec[r] = "failed" /\ queue[r] \in {"absent", "dispatched", "failed"}
  \/ ~Registered(r) /\ queue[r] = "failed"

BeginRun(c, r) ==
  /\ c \in RunPurgers /\ r \in Asked[c] /\ At(c, "idle") /\ ~PurgeLocked(r)
  /\ tombstone[r] # "purged" /\ plan[r] = NoPlan
  /\ Failed(r)
  /\ \E delete \in BOOLEAN :
       LET pl == FreshPlan(PartsOf({r}), delete) IN
         /\ delete => ~Overlapped(pl)
         /\ Enter(c, r, "tombstone", pl)
  /\ UNCHANGED <<lease, drained, records, tombstone, plan, staged, Outside>>

CreateTombstone(c) ==
  /\ At(c, "tombstone")
  /\ tombstone' = [tombstone EXCEPT ![caller[c].purge] = IF @ = "none" THEN "purging" ELSE @]
  /\ Go(c, [caller[c] EXCEPT !.pc = "create"])
  /\ UNCHANGED <<lease, drained, records, plan, staged, Outside>>

\* A tombstone that says "purged" is final: what a death left behind is swept up.
Resume(c, p) ==
  /\ At(c, "idle")
  /\ IF p = Task THEN c \in TaskPurgers ELSE c \in RunPurgers /\ p \in Asked[c] /\ ~PurgeLocked(p)
  /\ plan[p] # NoPlan
  /\ IF p \in Runs /\ tombstone[p] = "purged"
       THEN /\ plan' = [plan EXCEPT ![p] = NoPlan]
            /\ staged' = [staged EXCEPT ![p] = {}]
            /\ UNCHANGED caller
       ELSE /\ p = Task => \A r \in Runs : queue[r] = "dispatched" => Registered(r)
            /\ Enter(c, p, IF p = Task THEN "overlap" ELSE ToStage(p, plan[p]), plan[p])
            /\ UNCHANGED <<plan, staged>>
  /\ UNCHANGED <<lease, drained, records, tombstone, Outside>>

BeginTask(c) ==
  /\ c \in TaskPurgers /\ At(c, "idle")
  /\ plan[Task] = NoPlan
  /\ PartsOf(Runs) # {}
  /\ \A r \in Runs : queue[r] = "dispatched" => Registered(r)
  /\ \E delete \in BOOLEAN :
       Go(c, [Idle EXCEPT !.pc = "stopping", !.plan = FreshPlan({}, delete),
                          !.todo = {r \in Runs : InQueue(r) \/ Registered(r)}])
  /\ UNCHANGED <<lease, drained, records, tombstone, plan, staged, Outside>>

\* _stop_task_records: a queued run leaves the queue, a live one is stopped, a
\* dispatching one is left alone.
StopRecord(c) ==
  /\ At(c, "stopping")
  /\ \E r \in caller[c].todo :
       /\ queue' = [queue EXCEPT ![r] = IF @ = "queued" THEN "stopped" ELSE @]
       /\ exec' = [exec EXCEPT ![r] = IF @ = "running" THEN "stopped" ELSE @]
       /\ Go(c, [caller[c] EXCEPT !.todo = @ \ {r}, !.failed = @ \/ queue[r] = "dispatching"])
  /\ UNCHANGED <<lease, drained, tombstone, plan, staged, Outside>>

AllEnded == \A r \in Runs :
  /\ queue[r] \in QueueTerminal \cup {"absent", "prepared"} /\ exec[r] # "running"
  /\ queue[r] = "dispatched" => Registered(r)

\* The records are frozen in the plan when a second inventory finds all of them ended.
Freeze(c) ==
  /\ At(c, "stopping") /\ caller[c].todo = {}
  /\ IF caller[c].failed \/ ~AllEnded
       THEN GiveUp(c)
       ELSE Go(c, [caller[c] EXCEPT !.pc = "create", !.plan.parts = PartsOf(Runs)])
  /\ UNCHANGED <<lease, drained, records, tombstone, plan, staged, Outside>>

CreatePlan(c) ==
  /\ At(c, "create")
  /\ plan' = [plan EXCEPT ![caller[c].purge] = caller[c].plan]
  /\ Go(c, [caller[c] EXCEPT !.pc = IF caller[c].purge = Task THEN "overlap" ELSE "stage"])
  /\ UNCHANGED <<lease, drained, records, tombstone, staged, Outside>>

(***************************************************************************)
(* Staging: records are renamed into the staging directory of the purge.   *)
(***************************************************************************)
InRegistry(q) == IF q[2] = "queue" THEN InQueue(q[1]) ELSE Registered(q[1])

Movable(p, q) ==
  /\ InRegistry(q) /\ q \notin staged[p]
  /\ IF p = Task
       THEN IF q[2] = "queue" THEN queue[q[1]] \in QueueTerminal ELSE exec[q[1]] \in ExecTerminal
       ELSE /\ tombstone[p] = "purging"
            /\ IF q[2] = "queue" THEN queue[p] \in {"dispatched", "failed"} ELSE exec[p] = "failed"

\* Mutant of AlreadyStaged: a record that is not in the registry is an error.
StagedIsMissing(p, q) == FALSE

\* An invocation died after the renaming and before it wrote the plan.
AlreadyStaged(p, q) == ~InRegistry(q) /\ q \in staged[p]

Stage(c) ==
  LET p == caller[c].purge
      pl == caller[c].plan
      Staged(q) == LET known == [pl EXCEPT !.staged = @ \cup {q}] IN GoPersist(c, known, ToStage(p, known))
  IN
  /\ At(c, "stage")
  /\ \E q \in NextToStage(pl) :
       \/ /\ Movable(p, q)
          /\ staged' = [staged EXCEPT ![p] = @ \cup {q}]
          /\ queue' = IF q[2] = "queue" THEN [queue EXCEPT ![q[1]] = "absent"] ELSE queue
          /\ exec' = IF q[2] = "exec" THEN [exec EXCEPT ![q[1]] = "absent"] ELSE exec
          /\ Staged(q)
       \/ /\ AlreadyStaged(p, q)
          /\ Staged(q)
          /\ UNCHANGED <<staged, records>>
       \/ /\ ~Movable(p, q) /\ ~AlreadyStaged(p, q)
          /\ GiveUp(c)
          /\ UNCHANGED <<staged, records>>
  /\ UNCHANGED <<lease, drained, tombstone, plan, Outside>>

\* purge-run looks for overlapping outputs after staging, purge-task before it;
\* purge-task keeps the inventory it used.
CheckOverlap(c) ==
  LET pl == caller[c].plan IN
  /\ At(c, "overlap")
  /\ IF pl.delete /\ Overlapped(pl)
       THEN GiveUp(c)
       ELSE IF caller[c].purge = Task
         THEN Go(c, [caller[c] EXCEPT !.pc = ToStage(Task, pl), !.shared = Retained(pl) # {}])
         ELSE Go(c, [caller[c] EXCEPT !.pc = "sync"])
  /\ UNCHANGED <<lease, drained, records, tombstone, plan, staged, Outside>>

(***************************************************************************)
(* Artifacts: run by run under a maintenance lease of the machine.         *)
(***************************************************************************)
PurgeSync(c) ==
  LET pl == caller[c].plan
      Visit(new) == [new EXCEPT !.todo = Executions(pl) \ pl.artifacts]
  IN
  /\ At(c, "sync")
  /\ IF pl.sync
       THEN Go(c, Visit([caller[c] EXCEPT !.pc = "artifacts"]))
       ELSE Go(c, Visit([caller[c] EXCEPT !.plan.sync = TRUE, !.pc = "persist", !.next = "artifacts"]))
  /\ UNCHANGED <<lease, drained, records, tombstone, plan, staged, Outside>>

AcquireMaintenance(c, new) ==
  \E t \in Tokens :
    /\ Fresh(t)
    /\ Acquire(Machine, caller[c].purge, "maintenance", t, AuthorityGone)
    /\ Go(c, [new EXCEPT !.token = t])

MaintenanceBusy(c) == ~CanAcquire(Machine, caller[c].purge, "maintenance", AuthorityGone)

\* The lease is given up whatever became of the remote program.
ReleaseMaintenance(c) == Release(Machine, caller[c].purge, caller[c].token)

NextArtifact(c) ==
  /\ At(c, "artifacts")
  /\ \E r \in caller[c].todo :
       LET rest == [caller[c] EXCEPT !.todo = @ \ {r}] IN
       \/ AcquireMaintenance(c, [rest EXCEPT !.pc = "recheck", !.run = r])
       \/ /\ MaintenanceBusy(c)
          /\ Go(c, [rest EXCEPT !.failed = TRUE])
          /\ UNCHANGED lease
  /\ UNCHANGED <<drained, records, tombstone, plan, staged, Outside>>

Recheck(c) ==
  /\ At(c, "recheck")
  /\ Go(c, IF Overlapped(caller[c].plan)
             THEN [caller[c] EXCEPT !.pc = "release", !.failed = TRUE]
             ELSE [caller[c] EXCEPT !.pc = "remote"])
  /\ UNCHANGED <<lease, drained, records, tombstone, plan, staged, Outside>>

\* What the remote purge program removes: everything under the output path.
Removes(r) == remote' = [remote EXCEPT !.outputs = @ \ ({r} \cup Overlaps[r])]

RemovesWorktree == remote' = [remote EXCEPT !.worktree = FALSE]

Removed(c) ==
  /\ At(c, "remote")
  /\ Removes(caller[c].run)
  /\ Go(c, [caller[c] EXCEPT !.pc = "release", !.done = TRUE])
  /\ UNCHANGED <<lease, drained, records, tombstone, plan, staged, team, strays, events, faults, prepared>>

\* No answer in time, or ssh fails: the program on the machine may go on.
Lost(c) ==
  /\ faults < MaxFaults
  /\ \/ At(c, "remote") /\ strays' = strays \cup {caller[c].run}
        /\ Go(c, [caller[c] EXCEPT !.pc = "release", !.failed = TRUE])
     \/ At(c, "remove") /\ strays' = strays \cup {NoRun}
        /\ Go(c, [caller[c] EXCEPT !.pc = "unlease", !.failed = TRUE])
  /\ faults' = faults + 1
  /\ UNCHANGED <<lease, drained, records, tombstone, plan, staged, team, remote, events, prepared>>

StrayRemoves ==
  /\ \E s \in strays :
       /\ IF s = NoRun THEN RemovesWorktree ELSE Removes(s)
       /\ strays' = strays \ {s}
  /\ UNCHANGED <<lease, drained, records, tombstone, plan, staged, caller, team, events, faults, prepared>>

\* Something outside the purge is in its way: the archive does not let the run's
\* outputs be cleared (PurgeSync); another project holds the machine (NextArtifact,
\* LeaseForWorktree); the program on the machine refuses, because a session or a
\* process of the run is alive, its status file is missing or says something else,
\* a path is not what it should be, or git does not let the worktree go (Removed,
\* RemoveWorktree).  Nothing is removed, and the invocation reports a failure.
Hindered(c) ==
  /\ \/ /\ At(c, "sync") /\ ~caller[c].plan.sync
        /\ GiveUp(c)
     \/ /\ At(c, "artifacts")
        /\ \E r \in caller[c].todo : Go(c, [caller[c] EXCEPT !.todo = @ \ {r}, !.failed = TRUE])
     \/ /\ At(c, "lease")
        /\ GiveUp(c)
     \/ /\ At(c, "remote")
        /\ Go(c, [caller[c] EXCEPT !.pc = "release", !.failed = TRUE])
     \/ /\ At(c, "remove")
        /\ Go(c, [caller[c] EXCEPT !.pc = "unlease", !.failed = TRUE])
  /\ UNCHANGED <<lease, drained, records, tombstone, plan, staged, Outside>>

\* Mutant of ReleaseArtifact: a remote program that did not answer counts as done.
ReleaseUnanswered(c) ==
  /\ At(c, "release")
  /\ ReleaseMaintenance(c)
  /\ Go(c, [caller[c] EXCEPT !.token = 0, !.run = NoRun, !.done = FALSE, !.failed = FALSE,
                             !.plan.artifacts = @ \cup {caller[c].run}, !.pc = "persist", !.next = "artifacts"])
  /\ UNCHANGED <<drained, records, tombstone, plan, staged, Outside>>

ReleaseArtifact(c) ==
  LET pl == caller[c].plan
      back == [caller[c] EXCEPT !.token = 0, !.run = NoRun, !.done = FALSE]
  IN
  /\ At(c, "release")
  /\ ReleaseMaintenance(c)
  /\ Go(c, IF caller[c].done
             THEN [back EXCEPT !.plan.artifacts = @ \cup {caller[c].run}, !.pc = "persist", !.next = "artifacts"]
             ELSE [back EXCEPT !.pc = "artifacts"])
  /\ UNCHANGED <<drained, records, tombstone, plan, staged, Outside>>

(***************************************************************************)
(* The worktree.  Whether another run needs it is read before the lease is *)
(* acquired: by purge-run here, by purge-task before staging.              *)
(***************************************************************************)
ArtifactsDone(c) ==
  LET pl == caller[c].plan
      shared == IF caller[c].purge = Task THEN caller[c].shared ELSE Retained(pl) # {}
  IN
  /\ At(c, "artifacts") /\ caller[c].todo = {}
  /\ IF caller[c].failed
       THEN GiveUp(c)
       ELSE Go(c, [caller[c] EXCEPT !.pc = IF WorktreeCandidate(pl, shared) /\ ~pl.worktree
                                             THEN "lease" ELSE "events"])
  /\ UNCHANGED <<lease, drained, records, tombstone, plan, staged, Outside>>

LeaseForWorktree(c) ==
  /\ At(c, "lease")
  /\ \/ AcquireMaintenance(c, [caller[c] EXCEPT !.pc = "remove"])
     \/ MaintenanceBusy(c) /\ GiveUp(c) /\ UNCHANGED lease
  /\ UNCHANGED <<drained, records, tombstone, plan, staged, Outside>>

RemoveWorktree(c) ==
  /\ At(c, "remove")
  /\ RemovesWorktree
  /\ GoPersist(c, [caller[c].plan EXCEPT !.worktree = TRUE], "unlease")
  /\ UNCHANGED <<lease, drained, records, tombstone, plan, staged, team, strays, events, faults, prepared>>

ReleaseWorktree(c) ==
  /\ At(c, "unlease")
  /\ ReleaseMaintenance(c)
  /\ IF caller[c].failed THEN GiveUp(c) ELSE Go(c, [caller[c] EXCEPT !.pc = "events", !.token = 0])
  /\ UNCHANGED <<drained, records, tombstone, plan, staged, Outside>>

(***************************************************************************)
(* The end: events, staged records, tombstone, plan.                       *)
(***************************************************************************)
CompactEvents(c) ==
  LET pl == caller[c].plan IN
  /\ At(c, "events")
  /\ events' = IF pl.events THEN events ELSE events \ RunsOf(pl)
  /\ GoPersist(c, [pl EXCEPT !.events = TRUE], "erase")
  /\ UNCHANGED <<lease, drained, records, tombstone, plan, staged, team, remote, strays, faults, prepared>>

Erase(c) ==
  /\ At(c, "erase")
  /\ staged' = [staged EXCEPT ![caller[c].purge] = {}]
  /\ Go(c, [caller[c] EXCEPT !.pc = IF caller[c].purge = Task THEN "clean" ELSE "complete"])
  /\ UNCHANGED <<lease, drained, records, tombstone, plan, Outside>>

CompleteTombstone(c) ==
  /\ At(c, "complete")
  /\ tombstone' = [tombstone EXCEPT ![caller[c].purge] = "purged"]
  /\ Go(c, [caller[c] EXCEPT !.pc = "clean"])
  /\ UNCHANGED <<lease, drained, records, plan, staged, Outside>>

\* The whole purge directory goes: the plan and whatever is staged beside it.
Clean(c) ==
  /\ At(c, "clean")
  /\ plan' = [plan EXCEPT ![caller[c].purge] = NoPlan]
  /\ staged' = [staged EXCEPT ![caller[c].purge] = {}]
  /\ GiveUp(c)
  /\ UNCHANGED <<lease, drained, records, tombstone, Outside>>

(***************************************************************************)
(* Deaths, and time: 600 seconds outlast the ssh timeout of the remote     *)
(* program, so only the lease of an invocation that died expires.          *)
(***************************************************************************)
Dies(c) ==
  /\ caller[c].pc # "idle"
  /\ faults < MaxFaults
  /\ faults' = faults + 1
  /\ strays' = strays \cup {s \in {caller[c].run} : At(c, "remote")} \cup {s \in {NoRun} : At(c, "remove")}
  /\ GiveUp(c)
  /\ UNCHANGED <<lease, drained, records, tombstone, plan, staged, team, remote, events, prepared>>

ExpireMaintenance ==
  /\ lease[Machine] # NoLease
  /\ lease[Machine].kind = "maintenance"
  /\ \A c \in Callers : caller[c].token # lease[Machine].token
  /\ Expire(Machine)
  /\ UNCHANGED <<drained, records, tombstone, plan, staged, caller, Outside>>

(***************************************************************************)
(* Specification                                                           *)
(***************************************************************************)
Step(c) ==
  \/ CreateTombstone(c) \/ StopRecord(c) \/ Freeze(c) \/ CreatePlan(c) \/ Persist(c)
  \/ Stage(c) \/ CheckOverlap(c) \/ PurgeSync(c)
  \/ NextArtifact(c) \/ Recheck(c) \/ Removed(c) \/ ReleaseArtifact(c)
  \/ ArtifactsDone(c) \/ LeaseForWorktree(c) \/ RemoveWorktree(c) \/ ReleaseWorktree(c)
  \/ CompactEvents(c) \/ Erase(c) \/ CompleteTombstone(c) \/ Clean(c)

Resumes(p) == \E c \in Callers : Resume(c, p)
Launches(r) == Launch(r) \/ LaunchFails(r)

Next ==
  \/ \E r \in Runs : Prepare(r) \/ Submit(r) \/ Reserve(r) \/ Launches(r) \/ Finish(r)
  \/ \E c \in Callers :
       Step(c) \/ BeginTask(c) \/ Hindered(c) \/ Lost(c) \/ Dies(c) \/ \E r \in Runs : BeginRun(c, r)
  \/ \E p \in Purges : Resumes(p)
  \/ StrayRemoves \/ ExpireMaintenance

Spec == Init /\ [][Next]_vars

\* An invocation runs on until it ends or dies, launches end, leases expire, and
\* the operator invokes each unfinished purge again and again: strongly fair only
\* because Callers bounds how many invocations there are at a time.
FairSpec ==
  /\ Spec
  /\ \A c \in Callers : WF_vars(Step(c))
  /\ \A p \in Purges : SF_vars(Resumes(p))
  /\ \A r \in Runs : WF_vars(Launches(r))
  /\ WF_vars(ExpireMaintenance)

(***************************************************************************)
(* Properties                                                              *)
(***************************************************************************)

\* A purged run is gone for good: no queue entry, no execution record, no event,
\* whatever client repeats its submission.
PurgedStaysGone ==
  \A r \in Runs : tombstone[r] = "purged" => ~InQueue(r) /\ ~Registered(r) /\ r \notin events

\* What plan.yaml says of a failed run's artifacts is true: once they are recorded
\* as removed they do not exist, and the tombstone keeps them from coming back.
ProgressIsTrue ==
  \A r \in Runs : plan[r] # NoPlan /\ r \in plan[r].artifacts => r \notin remote.outputs

\* A plan can be resumed: each record it still has to stage is in the registry or
\* already in the staging directory of this purge.
Resumable ==
  \A p \in Purges : plan[p] # NoPlan =>
    \A q \in plan[p].parts \ plan[p].staged : InRegistry(q) \/ q \in staged[p]

\* Every purge that has begun is completed, however often its invocations die,
\* unless something outside is in its way again and again. Of the project's own,
\* only a retained run that has come to overlap the outputs to be removed is in its
\* way, or a client that submits a staged run again under the same id.
PurgesComplete ==
  \A p \in Purges :
    \/ []<><<\E c \in Callers : Hindered(c)>>_vars
    \/ plan[p] # NoPlan ~> plan[p] = NoPlan \/ Overlapped(plan[p]) \/ \E q \in staged[p] : InRegistry(q)
=============================================================================
