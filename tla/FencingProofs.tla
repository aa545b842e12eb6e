--------------------------- MODULE FencingProofs ----------------------------
(***************************************************************************)
(* Theorems about Dispatch when every project has one dispatcher (no       *)
(* `--once` process beside the loop): what the records, the lease table    *)
(* and the thread that works on a run have to do with each other; and that *)
(* what the machines run never asks for more than they have.               *)
(***************************************************************************)
EXTENDS DispatchProofs, FiniteSetTheorems, WellFoundedInduction

\* The dispatcher lock of a project admits one dispatcher loop.
OneDispatcherPerProject ==
  \A d, e \in Dispatchers : Serves[d] = Serves[e] => d = e

PlanPcs == {"planned", "leased", "reserved"}
WorkPcs == {"marked", "prepared", "registered", "ready", "launching", "launched", "commit",
            "unknown", "unseen", "seen", "failing", "failexec", "failqueue"}
BatchPcs == PlanPcs \cup WorkPcs \cup {"release"}

\* A thread works for the project of its run, in the phase of its batch or of
\* the reconciliation.
Placed(d, r) ==
  /\ ~At(d, r, "idle") => r \in Mine(d)
  /\ task[d][r].pc \in ReconcilePcs => phase[d] = "jobs"
  /\ task[d][r].pc \in BatchPcs => phase[d] = "batch" /\ task[d][r].machine \in Machines

\* What an interrupted dispatch is being recovered from stays as it was found.
Recovering(d, r) ==
  /\ task[d][r].pc \in ReconcilePcs => queue[r].status = "dispatching"
  /\ task[d][r].pc \in ReconcilePcs \ {"found"} => exec[r] = "none"

Held(d, r) == Holds(task[d][r].machine, r, task[d][r].token)

\* Until its job is marked, the run of a thread is in the queue at the revision
\* that was planned, or the revision has changed.
Planning(d, r) ==
  /\ task[d][r].pc \in PlanPcs =>
       /\ exec[r] = "none" /\ queue[r].status # "unborn"
       /\ task[d][r].revision <= queue[r].revision
       /\ task[d][r].revision = queue[r].revision => queue[r].status = "queued"
  /\ task[d][r].pc \in {"leased", "reserved"} => queue[r].status = "gone" \/ Held(d, r)

\* From then on the job is dispatching and the thread owns the lease.
Working(d, r) ==
  /\ task[d][r].pc \in WorkPcs => queue[r].status = "dispatching" /\ Held(d, r)
  /\ task[d][r].pc \in {"marked", "prepared"} => exec[r] = "none"
  /\ task[d][r].pc \in {"registered", "ready", "launching"} =>
       exec[r] = "registered" /\ site[r] = task[d][r].machine
  /\ task[d][r].pc \in {"registered", "ready"} => remote[r] = "absent" /\ boots[r] = 0

\* When the thread lets go of the lease, nothing can start unseen any more.
Ending(d, r) ==
  /\ task[d][r].pc \in {"launched", "commit", "seen", "failing", "failexec"} =>
       remote[r] \notin RemoteOutstanding
  /\ task[d][r].pc \in {"failqueue", "release"} =>
       exec[r] # "registered" \/ remote[r] \notin RemoteOutstanding

\* Without disk faults a launch is given up only before anything has started.
FailsClean(d, r) ==
  ~FaultyDisk =>
    /\ task[d][r].pc \in {"failing", "failexec"} => exec[r] = "registered" /\ remote[r] \in {"absent", "rejected"}
    /\ At(d, r, "failqueue") => exec[r] \in {"none", "failed"}

ThreadInv(d, r) ==
  Placed(d, r) /\ Recovering(d, r) /\ Planning(d, r) /\ Working(d, r) /\ Ending(d, r) /\ FailsClean(d, r)

RecordInv(r) ==
  /\ exec[r] # "none" => queue[r].status \notin {"unborn", "queued"}
  /\ exec[r] = "none" /\ queue[r].status # "gone" => remote[r] = "absent" /\ boots[r] = 0
  /\ boots[r] <= 1
  /\ exec[r] = "registered" => site[r] \in Machines
  /\ exec[r] = "registered" /\ remote[r] \in RemoteOutstanding => Owns(r, site[r])
  /\ ~FaultyDisk /\ queue[r].status = "failed" => exec[r] \notin {"registered", "running"}

DispatchLeases == \A m \in Machines : lease[m] # NoLease => lease[m].kind = "dispatch"
OneRecovery ==
  \A d \in Dispatchers, r, s \in Runs :
    task[d][r].pc \in ReconcilePcs /\ task[d][s].pc \in ReconcilePcs => r = s
OwnClaims == \A d \in Dispatchers : \A c \in claims[d] : c.owner \in Mine(d)

FenceInv ==
  /\ TypeOK
  /\ DispatchLeases /\ OneRecovery /\ OwnClaims
  /\ \A r \in Runs : RecordInv(r)
  /\ \A d \in Dispatchers, r \in Runs : ThreadInv(d, r)

(***************************************************************************)
(* What a step of the thread of d on r leaves alone.                       *)
(***************************************************************************)
OthersKept(d, r) ==
  \A e \in Dispatchers, s \in Runs : <<e, s>> # <<d, r>> => task'[e][s] = task[e][s]

RecordsKept(r) ==
  \A s \in Runs : s # r => /\ queue'[s] = queue[s] /\ exec'[s] = exec[s] /\ site'[s] = site[s]
                           /\ remote'[s] = remote[s] /\ boots'[s] = boots[s]

\* The leases of runs with authority, other than those of r.
LeasesKept(r) ==
  \A m \in Machines :
    lease[m] # NoLease /\ lease[m].owner # r /\ lease[m].owner \notin AuthorityGone =>
      lease'[m] # NoLease /\ lease'[m].owner = lease[m].owner /\ lease'[m].token = lease[m].token

\* A renewal or an expiry changes neither the owner nor the token.
LeasesSame ==
  \A m \in Machines :
    /\ lease'[m] = NoLease <=> lease[m] = NoLease
    /\ lease[m] # NoLease => /\ lease'[m].owner = lease[m].owner /\ lease'[m].token = lease[m].token
                             /\ lease'[m].kind = lease[m].kind

Frame(d, r) ==
  /\ r \in Mine(d)
  /\ OthersKept(d, r) /\ RecordsKept(r) /\ LeasesKept(r)
  /\ claims' = claims
  /\ \A e \in Dispatchers : phase'[e] = phase[e] \/ (e = d /\ task[d][r].pc \in ReconcilePcs)
  /\ task'[d][r].pc \in ReconcilePcs => task[d][r].pc \in ReconcilePcs \/ NoneAt(d, ReconcilePcs)

LEMMA IdleThread ==
  ASSUME NEW d \in Dispatchers, NEW r \in Runs, At(d, r, "idle")
  PROVE  ThreadInv(d, r)
BY DEF ThreadInv, Placed, Recovering, Planning, Working, Ending, FailsClean, At, ReconcilePcs, BatchPcs, PlanPcs, WorkPcs

LEMMA IdleThreadNext ==
  ASSUME NEW d \in Dispatchers, NEW r \in Runs, At(d, r, "idle")'
  PROVE  ThreadInv(d, r)'
BY DEF ThreadInv, Placed, Recovering, Planning, Working, Ending, FailsClean, At, ReconcilePcs, BatchPcs, PlanPcs, WorkPcs

LEMMA MineIsFixed == \A d \in Dispatchers : Mine(d)' = Mine(d)
BY DEF Mine

\* A thread on another run, and that run's records, are not disturbed.
LEMMA OtherRunKept ==
  ASSUME FenceInv, NEW d \in Dispatchers, NEW r \in Runs, RecordsKept(r), LeasesKept(r),
         NEW e \in Dispatchers, NEW s \in Runs, s # r, task'[e][s] = task[e][s],
         phase'[e] = phase[e] \/ At(e, s, "idle")
  PROVE  ThreadInv(e, s)' /\ RecordInv(s)'
<1>1. ThreadInv(e, s) /\ RecordInv(s)
  BY DEF FenceInv
<1>2. queue'[s] = queue[s] /\ exec'[s] = exec[s] /\ site'[s] = site[s] /\ remote'[s] = remote[s] /\ boots'[s] = boots[s]
  BY DEF RecordsKept
<1>3. s \notin AuthorityGone => \A m \in Machines : lease[m] # NoLease /\ lease[m].owner = s =>
        lease'[m] # NoLease /\ lease'[m].owner = s /\ lease'[m].token = lease[m].token
  BY DEF LeasesKept
<1>4. RecordInv(s)'
  <2>1. exec[s] = "registered" => s \notin AuthorityGone
    BY DEF AuthorityGone
  <2>2. exec[s] = "registered" /\ remote[s] \in RemoteOutstanding => Owns(s, site[s])'
    BY <1>1, <1>2, <1>3, <2>1 DEF RecordInv, Owns
  <2> QED
    BY <1>1, <1>2, <2>2 DEF RecordInv
<1>5. CASE At(e, s, "idle")
  BY <1>4, <1>5, IdleThreadNext DEF At
<1>6. CASE ~At(e, s, "idle")
  <2>1. phase'[e] = phase[e]
    BY <1>6
  <2>2. task[e][s].pc \in BatchPcs => task[e][s].machine \in Machines
    BY <1>1 DEF ThreadInv, Placed
  <2>3. (Held(e, s) /\ s \notin AuthorityGone /\ task[e][s].pc \in BatchPcs) => Held(e, s)'
    BY <1>3, <2>2 DEF Held, Holds
  <2>4. Placed(e, s)' /\ Recovering(e, s)'
    BY <1>1, <1>2, <2>1, MineIsFixed DEF ThreadInv, Placed, Recovering, At
  <2>5. Planning(e, s)'
    <3>1. queue[s].status \notin {"unborn", "gone"} => s \notin AuthorityGone
      BY DEF AuthorityGone
    <3> QED
      BY <1>1, <1>2, <2>3, <3>1 DEF ThreadInv, Planning, BatchPcs, PlanPcs
  <2>6. Working(e, s)'
    <3>1. queue[s].status = "dispatching" => s \notin AuthorityGone
      BY DEF AuthorityGone
    <3> QED
      BY <1>1, <1>2, <2>3, <3>1 DEF ThreadInv, Working, BatchPcs
  <2>7. Ending(e, s)' /\ FailsClean(e, s)'
    BY <1>1, <1>2 DEF ThreadInv, Ending, FailsClean, At
  <2> QED
    BY <1>4, <2>4, <2>5, <2>6, <2>7 DEF ThreadInv
<1> QED
  BY <1>5, <1>6

\* A step of the thread of d on r keeps the invariant when it keeps its part about them.
LEMMA FrameKeeps ==
  ASSUME FenceInv, OneDispatcherPerProject, NEW d \in Dispatchers, NEW r \in Runs, Frame(d, r),
         TypeOK', DispatchLeases', ThreadInv(d, r)', RecordInv(r)'
  PROVE  FenceInv'
<1>1. OwnClaims'
  BY MineIsFixed DEF FenceInv, OwnClaims, Frame
<1>2. task[d][r].pc \in ReconcilePcs => \A s \in Runs : s # r => At(d, s, "idle")
  <2>1. SUFFICES ASSUME task[d][r].pc \in ReconcilePcs, NEW s \in Runs, s # r
                 PROVE  At(d, s, "idle")
    OBVIOUS
  <2>2. task[d][s].pc \notin ReconcilePcs
    BY <2>1 DEF FenceInv, OneRecovery
  <2>3. phase[d] = "jobs"
    BY <2>1 DEF FenceInv, ThreadInv, Placed
  <2>4. task[d][s].pc \notin BatchPcs
    BY <2>3 DEF FenceInv, ThreadInv, Placed
  <2>5. task[d][s].pc \in Pcs
    BY DEF FenceInv, TypeOK, Task
  <2> QED
    BY <2>2, <2>4, <2>5 DEF Pcs, ReconcilePcs, BatchPcs, PlanPcs, WorkPcs, At
<1>3. ASSUME NEW e \in Dispatchers, NEW s \in Runs, s # r PROVE ThreadInv(e, s)' /\ RecordInv(s)'
  <2>1. task'[e][s] = task[e][s]
    BY <1>3 DEF Frame, OthersKept
  <2>2. phase'[e] = phase[e] \/ At(e, s, "idle")
    BY <1>2, <1>3 DEF Frame
  <2> QED
    BY <1>3, <2>1, <2>2, OtherRunKept DEF Frame
<1>4. ASSUME NEW e \in Dispatchers, e # d PROVE ThreadInv(e, r)'
  <2>1. r \notin Mine(e)
    BY <1>4 DEF Frame, Mine, OneDispatcherPerProject
  <2>2. At(e, r, "idle")
    BY <2>1 DEF FenceInv, ThreadInv, Placed
  <2>3. task'[e][r] = task[e][r]
    BY <1>4 DEF Frame, OthersKept
  <2> QED
    BY <2>2, <2>3, IdleThreadNext DEF At
<1>5. OneRecovery'
  <2>1. SUFFICES ASSUME NEW e \in Dispatchers, NEW s \in Runs, NEW u \in Runs,
                        task'[e][s].pc \in ReconcilePcs, task'[e][u].pc \in ReconcilePcs
                 PROVE  s = u
    BY DEF OneRecovery
  <2>2. CASE e # d
    BY <2>1, <2>2 DEF Frame, OthersKept, FenceInv, OneRecovery
  <2>3. CASE e = d
    <3>1. \A v \in Runs : v # r => task'[d][v] = task[d][v]
      BY DEF Frame, OthersKept
    <3> QED
      BY <2>1, <2>3, <3>1 DEF Frame, FenceInv, OneRecovery, NoneAt
  <2> QED
    BY <2>2, <2>3
<1>6. \A s \in Runs : RecordInv(s)'
  BY <1>3 DEF FenceInv
<1>7. \A e \in Dispatchers, s \in Runs : ThreadInv(e, s)'
  BY <1>3, <1>4
<1> QED
  BY <1>1, <1>5, <1>6, <1>7 DEF FenceInv

LEMMA NextTyped == ASSUME TypeOK, [Next]_vars PROVE TypeOK'
<1>1. CASE Next
  BY <1>1, CycleType, RecoveryType, ReservationType, LaunchType, SurroundingsType DEF Next, Dispatcher
<1>2. CASE UNCHANGED vars
  BY <1>2 DEF vars, TypeOK, LeaseTypeOK
<1> QED
  BY <1>1, <1>2

(***************************************************************************)
(* What the lease operations do to the leases.                             *)
(***************************************************************************)
LEMMA AcquireLeases ==
  ASSUME TypeOK, DispatchLeases, NEW m \in Machines, NEW r \in Runs, NEW t \in Tokens,
         Acquire(m, r, "dispatch", t, AuthorityGone)
  PROVE  /\ LeasesKept(r) /\ DispatchLeases'
         /\ lease'[m] # NoLease /\ lease'[m].owner = r /\ lease'[m].token = t
         /\ \A n \in Machines : n # m => lease'[n] = lease[n]
<1> DEFINE new == [owner |-> r, token |-> t, kind |-> "dispatch", expired |-> FALSE]
<1>1. lease' = [lease EXCEPT ![m] = new] /\ ~Refuses(m, r, AuthorityGone)
  BY DEF Acquire, CanAcquire
<1>2. new \in Lease
  BY DispatchAssumptions DEF Lease, Kinds
<1>3. new # NoLease
  BY <1>2, NoLeaseAssumption
<1>4. lease \in [Machines -> Lease \cup {NoLease}]
  BY DEF TypeOK, LeaseTypeOK
<1>5. lease'[m] = new /\ \A n \in Machines : n # m => lease'[n] = lease[n]
  BY <1>1, <1>4
<1>6. new.owner = r /\ new.token = t /\ new.kind = "dispatch"
  OBVIOUS
<1> HIDE DEF new
<1>7. DispatchLeases'
  BY <1>3, <1>5, <1>6 DEF DispatchLeases
<1>8. LeasesKept(r)
  BY <1>1, <1>5 DEF LeasesKept, Refuses, DispatchLeases
<1> QED
  BY <1>3, <1>5, <1>6, <1>7, <1>8

LEMMA RenewLeases ==
  ASSUME TypeOK, DispatchLeases, NEW m \in Machines \cup {NoMachine}, NEW r, NEW t, Renew(m, r, t)
  PROVE  LeasesSame /\ DispatchLeases'
<1>1. lease[m] # NoLease /\ lease' = [lease EXCEPT ![m].expired = FALSE]
  BY DEF Renew, Holds
<1>2. lease \in [Machines -> Lease \cup {NoLease}]
  BY DEF TypeOK, LeaseTypeOK
<1>3. ASSUME NEW n \in Machines
      PROVE  /\ lease'[n] = NoLease <=> lease[n] = NoLease
             /\ lease[n] # NoLease => /\ lease'[n].owner = lease[n].owner /\ lease'[n].token = lease[n].token
                                      /\ lease'[n].kind = lease[n].kind
  <2>1. CASE n = m
    <3>1. lease'[n] = [lease[n] EXCEPT !.expired = FALSE] /\ lease[n] \in Lease
      BY <1>1, <1>2, <2>1
    <3>2. [lease[n] EXCEPT !.expired = FALSE] \in Lease
      BY <3>1 DEF Lease
    <3> QED
      BY <1>1, <2>1, <3>1, <3>2, NoLeaseAssumption DEF Lease
  <2>2. CASE n # m
    BY <1>1, <1>2, <2>2
  <2> QED
    BY <2>1, <2>2
<1> QED
  BY <1>3 DEF LeasesSame, DispatchLeases

LEMMA ExpireLeases ==
  ASSUME TypeOK, DispatchLeases, NEW m \in Machines, Expire(m)
  PROVE  LeasesSame /\ DispatchLeases'
<1>1. lease[m] # NoLease /\ lease' = [lease EXCEPT ![m].expired = TRUE]
  BY DEF Expire
<1>2. lease \in [Machines -> Lease \cup {NoLease}]
  BY DEF TypeOK, LeaseTypeOK
<1>3. ASSUME NEW n \in Machines
      PROVE  /\ lease'[n] = NoLease <=> lease[n] = NoLease
             /\ lease[n] # NoLease => /\ lease'[n].owner = lease[n].owner /\ lease'[n].token = lease[n].token
                                      /\ lease'[n].kind = lease[n].kind
  <2>1. CASE n = m
    <3>1. lease'[n] = [lease[n] EXCEPT !.expired = TRUE] /\ lease[n] \in Lease
      BY <1>1, <1>2, <2>1
    <3>2. [lease[n] EXCEPT !.expired = TRUE] \in Lease
      BY <3>1 DEF Lease
    <3> QED
      BY <1>1, <2>1, <3>1, <3>2, NoLeaseAssumption DEF Lease
  <2>2. CASE n # m
    BY <1>1, <1>2, <2>2
  <2> QED
    BY <2>1, <2>2
<1> QED
  BY <1>3 DEF LeasesSame, DispatchLeases

LEMMA ReleaseLeases ==
  ASSUME TypeOK, DispatchLeases, NEW m, NEW r, NEW t, Release(m, r, t)
  PROVE  LeasesKept(r) /\ DispatchLeases'
<1>1. \A n \in Machines : lease'[n] = lease[n] \/ (lease'[n] = NoLease /\ lease[n].owner = r)
  BY DEF Release, Holds, TypeOK, LeaseTypeOK
<1> QED
  BY <1>1 DEF LeasesKept, DispatchLeases

LEMMA SameLeasesKept == ASSUME LeasesSame, NEW r PROVE LeasesKept(r)
BY DEF LeasesSame, LeasesKept

LEMMA UnchangedLeases ==
  ASSUME UNCHANGED lease
  PROVE  LeasesSame /\ (DispatchLeases => DispatchLeases')
BY DEF LeasesSame, DispatchLeases

(***************************************************************************)
(* Updates of a thread and of a queue entry.                               *)
(***************************************************************************)
Steps(d, r, pc) ==
  /\ task'[d][r].pc = pc
  /\ task'[d][r].machine = task[d][r].machine /\ task'[d][r].token = task[d][r].token
  /\ task'[d][r].revision = task[d][r].revision

LEMMA PutSteps ==
  ASSUME TypeOK, NEW d \in Dispatchers, NEW r \in Runs, NEW x, task' = [task EXCEPT ![d][r] = x]
  PROVE  task'[d][r] = x /\ OthersKept(d, r)
BY DEF TypeOK, OthersKept

LEMMA GotoSteps ==
  ASSUME TypeOK, NEW d \in Dispatchers, NEW r \in Runs, NEW pc, Goto(d, r, pc)
  PROVE  Steps(d, r, pc) /\ OthersKept(d, r)
<1>1. task[d][r] \in Task
  BY DEF TypeOK
<1> DEFINE x == [task[d][r] EXCEPT !.pc = pc]
<1>2. x.pc = pc /\ x.machine = task[d][r].machine /\ x.token = task[d][r].token /\ x.revision = task[d][r].revision
  BY <1>1 DEF Task
<1>3. task' = [task EXCEPT ![d][r] = x]
  BY DEF Goto
<1> HIDE DEF x
<1> QED
  BY <1>2, <1>3, PutSteps DEF Steps

LEMMA FinishSteps ==
  ASSUME TypeOK, NEW d \in Dispatchers, NEW r \in Runs, Finish(d, r)
  PROVE  At(d, r, "idle")' /\ OthersKept(d, r)
<1>1. task'[d][r] = Idle /\ OthersKept(d, r)
  BY PutSteps DEF Finish
<1> QED
  BY <1>1 DEF Idle, At

LEMMA SetQueueSteps ==
  ASSUME TypeOK, NEW r \in Runs, NEW status, SetQueue(r, status)
  PROVE  /\ queue'[r].status = status /\ queue'[r].revision = queue[r].revision + 1
         /\ \A s \in Runs : s # r => queue'[s] = queue[s]
<1>1. queue[r] \in [status: QueueStatuses, revision: Nat, update: BOOLEAN]
  BY DEF TypeOK
<1> DEFINE x == [queue[r] EXCEPT !.status = status, !.revision = queue[r].revision + 1]
<1>2. x.status = status /\ x.revision = queue[r].revision + 1
  BY <1>1
<1>3. queue' = [queue EXCEPT ![r] = x]
  BY DEF SetQueue
<1> HIDE DEF x
<1> QED
  BY <1>2, <1>3 DEF TypeOK

LEMMA TouchSteps ==
  ASSUME TypeOK, NEW r \in Runs, NEW update, Touch(r, update)
  PROVE  /\ queue'[r].status = queue[r].status /\ queue'[r].revision = queue[r].revision + 1
         /\ \A s \in Runs : s # r => queue'[s] = queue[s]
<1>1. queue[r] \in [status: QueueStatuses, revision: Nat, update: BOOLEAN]
  BY DEF TypeOK
<1> DEFINE x == [queue[r] EXCEPT !.update = update, !.revision = queue[r].revision + 1]
<1>2. x.status = queue[r].status /\ x.revision = queue[r].revision + 1
  BY <1>1
<1>3. queue' = [queue EXCEPT ![r] = x]
  BY DEF Touch
<1> HIDE DEF x
<1> QED
  BY <1>2, <1>3 DEF TypeOK

(***************************************************************************)
(* The recovery of an interrupted dispatch.                                *)
(***************************************************************************)
LEMMA RecoveryKeeps ==
  ASSUME FenceInv, OneDispatcherPerProject, TypeOK', NEW d \in Dispatchers, NEW r \in Runs, Recovery(d, r)
  PROVE  FenceInv'
<1>0. TypeOK /\ DispatchLeases /\ ThreadInv(d, r) /\ RecordInv(r)
  BY DEF FenceInv
<1>1. UNCHANGED <<exec, site, remote, boots, claims>>
  BY DEF Recovery, PickDispatching, CommitFound, RecoverBusy, RecoverRaises, RecoverFence, RecoverUnfence,
         RecoverUnleased, RecoverQueue, records
<1>2. r \in Mine(d)
  BY <1>0 DEF Recovery, PickDispatching, Dispatching, CommitFound, RecoverBusy, RecoverRaises, RecoverFence,
         RecoverUnfence, RecoverUnleased, RecoverQueue, ThreadInv, Placed, At
<1>3. CASE PickDispatching(d, r)
  <2> DEFINE pc == IF exec[r] = "none" THEN "norecord" ELSE "found"
  <2>1. task'[d][r].pc = pc /\ OthersKept(d, r)
    <3> DEFINE x == [Idle EXCEPT !.pc = pc, !.revision = queue[r].revision]
    <3>1. x.pc = pc
      BY DEF Idle
    <3>2. task' = [task EXCEPT ![d][r] = x]
      BY <1>3 DEF PickDispatching
    <3> HIDE DEF x
    <3> QED
      BY <1>0, <3>1, <3>2, PutSteps
  <2>2. UNCHANGED <<lease, queue, phase>>
    BY <1>3 DEF PickDispatching, records
  <2>3. phase[d] = "jobs" /\ queue[r].status = "dispatching" /\ NoneAt(d, ReconcilePcs)
    BY <1>3 DEF PickDispatching, Dispatching
  <2>4. Frame(d, r)
    BY <1>1, <1>2, <2>1, <2>2, <2>3, UnchangedLeases, SameLeasesKept DEF Frame, RecordsKept
  <2>5. ThreadInv(d, r)'
    BY <1>1, <1>2, <2>1, <2>2, <2>3, MineIsFixed
       DEF ThreadInv, Placed, Recovering, Planning, Working, Ending, FailsClean, At, ReconcilePcs, BatchPcs, PlanPcs, WorkPcs
  <2>6. RecordInv(r)'
    BY <1>0, <1>1, <2>2 DEF RecordInv, Owns
  <2> QED
    BY <1>0, <2>2, <2>4, <2>5, <2>6, FrameKeeps, UnchangedLeases
<1>4. CASE CommitFound(d, r) \/ RecoverQueue(d, r)
  <2>1. At(d, r, "idle")' /\ OthersKept(d, r)
    BY <1>0, <1>4, FinishSteps DEF CommitFound, RecoverQueue
  <2>2. UNCHANGED lease /\ (phase' = phase \/ Enter(d, "sleep"))
    BY <1>4 DEF CommitFound, RecoverQueue
  <2>3. At(d, r, "found") \/ At(d, r, "recover")
    BY <1>4 DEF CommitFound, RecoverQueue
  <2>4. queue' = queue \/ (At(d, r, "found") /\ SetQueue(r, "dispatched")) \/ (At(d, r, "recover") /\ SetQueue(r, "queued"))
    BY <1>4 DEF CommitFound, RecoverQueue
  <2>5. \A s \in Runs : s # r => queue'[s] = queue[s]
    BY <1>0, <2>4, SetQueueSteps
  <2>6. Frame(d, r)
    <3>1. \A e \in Dispatchers : phase'[e] = phase[e] \/ (e = d /\ task[d][r].pc \in ReconcilePcs)
      BY <1>0, <2>2, <2>3 DEF Enter, TypeOK, At, ReconcilePcs
    <3>2. task'[d][r].pc \notin ReconcilePcs
      BY <2>1 DEF At, ReconcilePcs
    <3> QED
      BY <1>1, <1>2, <2>1, <2>2, <2>5, <3>1, <3>2, UnchangedLeases, SameLeasesKept DEF Frame, RecordsKept
  <2>7. RecordInv(r)'
    <3>1. CASE queue' = queue
      BY <1>0, <1>1, <2>2, <3>1 DEF RecordInv, Owns
    <3>2. CASE At(d, r, "found") /\ SetQueue(r, "dispatched")
      <4>1. queue'[r].status = "dispatched" /\ queue[r].status = "dispatching"
        BY <1>0, <3>2, SetQueueSteps DEF ThreadInv, Recovering, At, ReconcilePcs
      <4> QED
        BY <1>0, <1>1, <2>2, <4>1 DEF RecordInv, Owns
    <3>3. CASE At(d, r, "recover") /\ SetQueue(r, "queued")
      <4>1. queue'[r].status = "queued" /\ queue[r].status = "dispatching" /\ exec[r] = "none"
        BY <1>0, <3>3, SetQueueSteps DEF ThreadInv, Recovering, At, ReconcilePcs
      <4> QED
        BY <1>0, <1>1, <2>2, <4>1 DEF RecordInv, Owns
    <3> QED
      BY <2>4, <3>1, <3>2, <3>3
  <2> QED
    BY <1>0, <2>1, <2>2, <2>6, <2>7, FrameKeeps, UnchangedLeases, IdleThreadNext
<1>5. CASE RecoverBusy(d, r) \/ RecoverRaises(d, r)
  <2>1. At(d, r, "idle")' /\ OthersKept(d, r)
    BY <1>0, <1>5, FinishSteps DEF RecoverBusy, RecoverRaises
  <2>2. UNCHANGED <<lease, queue>> /\ Enter(d, "sleep") /\ At(d, r, "norecord")
    BY <1>5 DEF RecoverBusy, RecoverRaises, records
  <2>3. Frame(d, r)
    <3>1. \A e \in Dispatchers : phase'[e] = phase[e] \/ (e = d /\ task[d][r].pc \in ReconcilePcs)
      BY <1>0, <2>2 DEF Enter, TypeOK, At, ReconcilePcs
    <3>2. task'[d][r].pc \notin ReconcilePcs
      BY <2>1 DEF At, ReconcilePcs
    <3> QED
      BY <1>1, <1>2, <2>1, <2>2, <3>1, <3>2, UnchangedLeases, SameLeasesKept DEF Frame, RecordsKept
  <2>4. RecordInv(r)'
    BY <1>0, <1>1, <2>2 DEF RecordInv, Owns
  <2> QED
    BY <1>0, <2>1, <2>2, <2>3, <2>4, FrameKeeps, UnchangedLeases, IdleThreadNext
<1>6. CASE RecoverFence(d, r) \/ RecoverUnfence(d, r) \/ RecoverUnleased(d, r)
  <2>1. /\ task'[d][r].pc \in {"fenced", "recover"} /\ OthersKept(d, r)
        /\ task[d][r].pc \in {"norecord", "fenced"}
        /\ LeasesKept(r) /\ DispatchLeases'
    <3>1. CASE RecoverFence(d, r)
      <4>1. PICK m \in Machines, t \in Tokens :
              /\ Acquire(m, r, "dispatch", t, AuthorityGone)
              /\ task' = [task EXCEPT ![d][r] = [@ EXCEPT !.pc = "fenced", !.machine = m, !.token = t]]
        BY <3>1 DEF RecoverFence
      <4>2. task[d][r] \in Task
        BY <1>0 DEF TypeOK
      <4> DEFINE x == [task[d][r] EXCEPT !.pc = "fenced", !.machine = m, !.token = t]
      <4>3. x.pc = "fenced" /\ task' = [task EXCEPT ![d][r] = x]
        BY <4>1, <4>2 DEF Task
      <4> HIDE DEF x
      <4>4. task'[d][r] = x /\ OthersKept(d, r)
        BY <1>0, <4>3, PutSteps
      <4>5. LeasesKept(r) /\ DispatchLeases'
        BY <1>0, <4>1, AcquireLeases
      <4> QED
        BY <3>1, <4>3, <4>4, <4>5 DEF RecoverFence, At
    <3>2. CASE RecoverUnfence(d, r)
      <4>2. task[d][r] \in Task
        BY <1>0 DEF TypeOK
      <4> DEFINE x == [task[d][r] EXCEPT !.pc = "recover", !.machine = NoMachine, !.token = 0]
      <4>3. x.pc = "recover" /\ task' = [task EXCEPT ![d][r] = x]
        BY <3>2, <4>2 DEF Task, RecoverUnfence
      <4> HIDE DEF x
      <4>4. task'[d][r] = x /\ OthersKept(d, r)
        BY <1>0, <4>3, PutSteps
      <4>5. LeasesKept(r) /\ DispatchLeases'
        BY <1>0, <3>2, ReleaseLeases DEF RecoverUnfence
      <4> QED
        BY <3>2, <4>3, <4>4, <4>5 DEF RecoverUnfence, At
    <3>3. CASE RecoverUnleased(d, r)
      BY <1>0, <3>3, GotoSteps, UnchangedLeases, SameLeasesKept DEF RecoverUnleased, At, Steps
    <3> QED
      BY <1>6, <3>1, <3>2, <3>3
  <2>2. UNCHANGED <<queue, phase>>
    BY <1>6 DEF RecoverFence, RecoverUnfence, RecoverUnleased, records
  <2>3. exec[r] = "none" /\ queue[r].status = "dispatching" /\ phase[d] = "jobs"
    BY <1>0, <2>1 DEF ThreadInv, Placed, Recovering, ReconcilePcs
  <2>4. Frame(d, r)
    BY <1>1, <1>2, <2>1, <2>2, <2>3 DEF Frame, RecordsKept, ReconcilePcs
  <2>5. ThreadInv(d, r)'
    BY <1>1, <1>2, <2>1, <2>2, <2>3, MineIsFixed
       DEF ThreadInv, Placed, Recovering, Planning, Working, Ending, FailsClean, At, ReconcilePcs, BatchPcs, PlanPcs, WorkPcs
  <2>6. RecordInv(r)'
    BY <1>0, <1>1, <2>2, <2>3 DEF RecordInv, Owns
  <2> QED
    BY <1>0, <2>1, <2>4, <2>5, <2>6, FrameKeeps
<1> QED
  BY <1>3, <1>4, <1>5, <1>6 DEF Recovery

(***************************************************************************)
(* Planning, reserving and marking.                                        *)
(***************************************************************************)
LEMMA NextCandidateSteps ==
  ASSUME TypeOK, NEW d \in Dispatchers, NEW r \in Runs, NextCandidate(d, r)
  PROVE  /\ OthersKept(d, r)
         /\ \/ At(d, r, "idle")'
            \/ At(d, r, "planned")' /\ task'[d][r].machine \in Machines /\ task'[d][r].revision = task[d][r].revision
<1>1. CASE Finish(d, r)
  BY <1>1, FinishSteps
<1>2. CASE \E m \in task[d][r].others :
             task' = [task EXCEPT ![d][r] = [@ EXCEPT !.pc = "planned", !.machine = m, !.token = 0,
                                                       !.others = task[d][r].others \ {m}]]
  <2>1. PICK m \in task[d][r].others :
             task' = [task EXCEPT ![d][r] = [@ EXCEPT !.pc = "planned", !.machine = m, !.token = 0,
                                                       !.others = task[d][r].others \ {m}]]
    BY <1>2
  <2>2. task[d][r] \in Task
    BY DEF TypeOK
  <2> DEFINE x == [task[d][r] EXCEPT !.pc = "planned", !.machine = m, !.token = 0, !.others = task[d][r].others \ {m}]
  <2>3. x.pc = "planned" /\ x.machine = m /\ x.revision = task[d][r].revision /\ m \in Machines
    BY <2>2 DEF Task
  <2>4. task' = [task EXCEPT ![d][r] = x]
    BY <2>1
  <2> HIDE DEF x
  <2>5. task'[d][r] = x /\ OthersKept(d, r)
    BY <2>4, PutSteps
  <2> QED
    BY <2>3, <2>5 DEF At
<1> QED
  BY <1>1, <1>2 DEF NextCandidate

LEMMA ReserveKeeps ==
  ASSUME FenceInv, OneDispatcherPerProject, TypeOK', NEW d \in Dispatchers, NEW r \in Runs,
         Reserve(d, r) \/ ProbeReserved(d, r)
  PROVE  FenceInv'
<1>0. TypeOK /\ DispatchLeases /\ ThreadInv(d, r) /\ RecordInv(r)
  BY DEF FenceInv
<1>1. UNCHANGED <<queue, exec, site, remote, boots, claims, phase>>
  BY DEF Reserve, ProbeReserved, records
<1>2. task[d][r].pc \in {"planned", "leased"}
  BY DEF Reserve, ProbeReserved, At
<1>3. /\ r \in Mine(d) /\ phase[d] = "batch" /\ task[d][r].machine \in Machines
      /\ exec[r] = "none" /\ queue[r].status # "unborn"
      /\ task[d][r].revision <= queue[r].revision
      /\ task[d][r].revision = queue[r].revision => queue[r].status = "queued"
  BY <1>0, <1>2 DEF ThreadInv, Placed, Planning, BatchPcs, PlanPcs, At
<1>4. task[d][r] \in Task
  BY <1>0 DEF TypeOK
<1>5. /\ OthersKept(d, r) /\ LeasesKept(r) /\ DispatchLeases'
      /\ \/ At(d, r, "idle")'
         \/ /\ task'[d][r].pc \in PlanPcs /\ task'[d][r].machine \in Machines
            /\ task'[d][r].revision = task[d][r].revision
            /\ task'[d][r].pc \in {"leased", "reserved"} => queue[r].status = "gone" \/ Held(d, r)'
  <2>1. CASE NextCandidate(d, r) /\ (UNCHANGED lease \/ Release(task[d][r].machine, r, task[d][r].token))
    <3>1. LeasesKept(r) /\ DispatchLeases'
      BY <1>0, <2>1, UnchangedLeases, SameLeasesKept, ReleaseLeases
    <3>2. /\ OthersKept(d, r)
          /\ \/ At(d, r, "idle")'
             \/ At(d, r, "planned")' /\ task'[d][r].machine \in Machines /\ task'[d][r].revision = task[d][r].revision
      BY <1>0, <2>1, NextCandidateSteps
    <3> QED
      BY <3>1, <3>2 DEF At, PlanPcs
  <2>2. ASSUME NEW t \in Tokens, Acquire(task[d][r].machine, r, "dispatch", t, AuthorityGone),
               task' = [task EXCEPT ![d][r] = [@ EXCEPT !.pc = "leased", !.token = t]]
        PROVE  /\ OthersKept(d, r) /\ LeasesKept(r) /\ DispatchLeases'
               /\ At(d, r, "leased")' /\ task'[d][r].machine \in Machines
               /\ task'[d][r].revision = task[d][r].revision /\ Held(d, r)'
    <3> DEFINE x == [task[d][r] EXCEPT !.pc = "leased", !.token = t]
    <3>1. x.pc = "leased" /\ x.token = t /\ x.machine = task[d][r].machine /\ x.revision = task[d][r].revision
      BY <1>4 DEF Task
    <3>2. task' = [task EXCEPT ![d][r] = x]
      BY <2>2
    <3> HIDE DEF x
    <3>3. task'[d][r] = x /\ OthersKept(d, r)
      BY <1>0, <3>2, PutSteps
    <3>4. LeasesKept(r) /\ DispatchLeases' /\ lease'[task[d][r].machine] # NoLease
          /\ lease'[task[d][r].machine].owner = r /\ lease'[task[d][r].machine].token = t
      BY <1>0, <1>3, <2>2, AcquireLeases
    <3> QED
      BY <1>3, <3>1, <3>3, <3>4 DEF At, Held, Holds
  <2>3. ASSUME task' = [task EXCEPT ![d][r] = [@ EXCEPT !.pc = "reserved", !.others = {}]], UNCHANGED lease,
               At(d, r, "leased")
        PROVE  /\ OthersKept(d, r) /\ LeasesKept(r) /\ DispatchLeases'
               /\ At(d, r, "reserved")' /\ task'[d][r].machine \in Machines
               /\ task'[d][r].revision = task[d][r].revision /\ (queue[r].status = "gone" \/ Held(d, r)')
    <3> DEFINE x == [task[d][r] EXCEPT !.pc = "reserved", !.others = {}]
    <3>1. /\ x.pc = "reserved" /\ x.token = task[d][r].token /\ x.machine = task[d][r].machine
          /\ x.revision = task[d][r].revision
      BY <1>4 DEF Task
    <3>2. task' = [task EXCEPT ![d][r] = x]
      BY <2>3
    <3> HIDE DEF x
    <3>3. task'[d][r] = x /\ OthersKept(d, r)
      BY <1>0, <3>2, PutSteps
    <3>4. queue[r].status = "gone" \/ Held(d, r)
      BY <1>0, <2>3 DEF ThreadInv, Planning, At
    <3> QED
      BY <1>0, <1>3, <2>3, <3>1, <3>3, <3>4, UnchangedLeases, SameLeasesKept DEF At, Held, Holds
  <2> QED
    BY <2>1, <2>2, <2>3 DEF Reserve, ProbeReserved, At, PlanPcs
<1>6. Frame(d, r)
  BY <1>1, <1>3, <1>5 DEF Frame, RecordsKept, At, PlanPcs, ReconcilePcs
<1>7. ThreadInv(d, r)'
  <2>1. CASE At(d, r, "idle")'
    BY <2>1, IdleThreadNext
  <2>2. CASE ~At(d, r, "idle")'
    BY <1>1, <1>3, <1>5, <2>2, MineIsFixed
       DEF ThreadInv, Placed, Recovering, Planning, Working, Ending, FailsClean, At, ReconcilePcs, BatchPcs, PlanPcs, WorkPcs
  <2> QED
    BY <2>1, <2>2
<1>8. RecordInv(r)'
  BY <1>0, <1>1, <1>3 DEF RecordInv
<1> QED
  BY <1>5, <1>6, <1>7, <1>8, FrameKeeps

LEMMA MarkKeeps ==
  ASSUME FenceInv, OneDispatcherPerProject, TypeOK', NEW d \in Dispatchers, NEW r \in Runs, Mark(d, r)
  PROVE  FenceInv'
<1>0. TypeOK /\ DispatchLeases /\ ThreadInv(d, r) /\ RecordInv(r)
  BY DEF FenceInv
<1>1. UNCHANGED <<lease, exec, site, remote, boots, claims, phase>> /\ At(d, r, "reserved") /\ queue[r].status # "gone"
  BY DEF Mark
<1>2. /\ r \in Mine(d) /\ phase[d] = "batch" /\ task[d][r].machine \in Machines /\ Held(d, r)
      /\ exec[r] = "none" /\ queue[r].status # "unborn"
      /\ task[d][r].revision = queue[r].revision => queue[r].status = "queued"
  BY <1>0, <1>1 DEF ThreadInv, Placed, Planning, BatchPcs, PlanPcs, At
<1>3. remote[r] = "absent" /\ boots[r] = 0
  BY <1>0, <1>1, <1>2 DEF RecordInv
<1>4. CASE Expected(r, task[d][r].revision) /\ SetQueue(r, "dispatching")
           /\ task' = [task EXCEPT ![d][r] = [@ EXCEPT !.pc = "marked", !.revision = task[d][r].revision + 1]]
  <2> DEFINE x == [task[d][r] EXCEPT !.pc = "marked", !.revision = task[d][r].revision + 1]
  <2>1. task[d][r] \in Task
    BY <1>0 DEF TypeOK
  <2>2. x.pc = "marked" /\ x.machine = task[d][r].machine /\ x.token = task[d][r].token
    BY <2>1 DEF Task
  <2>3. task' = [task EXCEPT ![d][r] = x]
    BY <1>4
  <2> HIDE DEF x
  <2>4. task'[d][r] = x /\ OthersKept(d, r)
    BY <1>0, <2>3, PutSteps
  <2>5. queue'[r].status = "dispatching" /\ \A s \in Runs : s # r => queue'[s] = queue[s]
    BY <1>0, <1>4, SetQueueSteps
  <2>6. Frame(d, r)
    BY <1>1, <1>2, <2>2, <2>4, <2>5, UnchangedLeases, SameLeasesKept DEF Frame, RecordsKept, ReconcilePcs
  <2>7. ThreadInv(d, r)'
    BY <1>1, <1>2, <1>3, <2>2, <2>4, <2>5, MineIsFixed
       DEF ThreadInv, Placed, Recovering, Planning, Working, Ending, FailsClean, At, Held, Holds,
           ReconcilePcs, BatchPcs, PlanPcs, WorkPcs
  <2>8. RecordInv(r)'
    BY <1>0, <1>1, <1>2, <1>3, <2>5 DEF RecordInv
  <2> QED
    BY <1>0, <1>1, <2>6, <2>7, <2>8, UnchangedLeases, FrameKeeps
<1>5. CASE Goto(d, r, "release") /\ UNCHANGED queue
  <2>1. Steps(d, r, "release") /\ OthersKept(d, r)
    BY <1>0, <1>5, GotoSteps
  <2>2. Frame(d, r)
    BY <1>1, <1>2, <1>5, <2>1, UnchangedLeases, SameLeasesKept DEF Frame, RecordsKept, ReconcilePcs, Steps
  <2>3. ThreadInv(d, r)'
    BY <1>1, <1>2, <1>5, <2>1, MineIsFixed
       DEF ThreadInv, Placed, Recovering, Planning, Working, Ending, FailsClean, At, Steps,
           ReconcilePcs, BatchPcs, PlanPcs, WorkPcs
  <2>4. RecordInv(r)'
    BY <1>0, <1>1, <1>2, <1>5 DEF RecordInv
  <2> QED
    BY <1>0, <1>1, <2>2, <2>3, <2>4, UnchangedLeases, FrameKeeps
<1> QED
  BY <1>4, <1>5 DEF Mark

\* Steps after which every thread stands where it stood or is idle or, from "reserved", at "release".
LEMMA ThreadsEnd ==
  ASSUME FenceInv, TypeOK', UNCHANGED <<lease, records>>, OwnClaims',
         \A e \in Dispatchers, s \in Runs :
           \/ At(e, s, "idle")'
           \/ /\ task'[e][s] = task[e][s] \/ (At(e, s, "reserved") /\ Steps(e, s, "release"))
              /\ phase'[e] = phase[e]
  PROVE  FenceInv'
<1>1. ASSUME NEW s \in Runs PROVE RecordInv(s)'
  <2>1. RecordInv(s)
    BY DEF FenceInv
  <2> QED
    BY <2>1 DEF RecordInv, records, Owns
<1>2. ASSUME NEW e \in Dispatchers, NEW s \in Runs PROVE ThreadInv(e, s)'
  <2>0. ThreadInv(e, s)
    BY DEF FenceInv
  <2>1. CASE At(e, s, "idle")'
    BY <2>1, IdleThreadNext
  <2>2. CASE task'[e][s] = task[e][s] /\ phase'[e] = phase[e]
    BY <2>0, <2>2, MineIsFixed
       DEF ThreadInv, Placed, Recovering, Planning, Working, Ending, FailsClean, At, Held, Holds, records
  <2>3. CASE At(e, s, "reserved") /\ Steps(e, s, "release") /\ phase'[e] = phase[e]
    <3>1. e \in Dispatchers /\ s \in Mine(e) /\ phase[e] = "batch" /\ task[e][s].machine \in Machines /\ exec[s] = "none"
      BY <2>0, <2>3 DEF ThreadInv, Placed, Planning, At, BatchPcs, PlanPcs
    <3> QED
      BY <2>3, <3>1, MineIsFixed
         DEF ThreadInv, Placed, Recovering, Planning, Working, Ending, FailsClean, At, Steps, records,
             ReconcilePcs, BatchPcs, PlanPcs, WorkPcs
  <2> QED
    BY <2>1, <2>2, <2>3
<1>3. OneRecovery'
  <2>1. \A e \in Dispatchers, s \in Runs : task'[e][s].pc \in ReconcilePcs => task[e][s].pc \in ReconcilePcs
    BY DEF At, Steps, ReconcilePcs
  <2> QED
    BY <2>1 DEF FenceInv, OneRecovery
<1> QED
  BY <1>1, <1>2, <1>3 DEF FenceInv, DispatchLeases

LEMMA MarkRaisesKeeps ==
  ASSUME FenceInv, TypeOK', NEW d \in Dispatchers, NEW r \in Runs, MarkRaises(d, r)
  PROVE  FenceInv'
<1>0. TypeOK
  BY DEF FenceInv
<1>1. UNCHANGED <<lease, records, phase, claims>>
  BY DEF MarkRaises
<1>2. task' = [task EXCEPT ![d] = [s \in Runs |->
       CASE task[d][s].pc = "reserved" -> [task[d][s] EXCEPT !.pc = "release"]
         [] task[d][s].pc = "marked" -> Idle
         [] OTHER -> task[d][s]]]
  BY DEF MarkRaises
<1>3. ASSUME NEW e \in Dispatchers, NEW s \in Runs
      PROVE  \/ At(e, s, "idle")'
             \/ task'[e][s] = task[e][s] \/ (At(e, s, "reserved") /\ Steps(e, s, "release"))
  <2>1. task[e][s] \in Task
    BY <1>0 DEF TypeOK
  <2>2. CASE e # d
    BY <1>0, <1>2, <2>2 DEF TypeOK
  <2>3. CASE e = d /\ task[d][s].pc = "reserved"
    <3>1. task'[d][s] = [task[d][s] EXCEPT !.pc = "release"]
      BY <1>0, <1>2, <2>3 DEF TypeOK
    <3> QED
      BY <2>1, <2>3, <3>1 DEF Task, Steps, At
  <2>4. CASE e = d /\ task[d][s].pc = "marked"
    <3>1. task'[d][s] = Idle
      BY <1>0, <1>2, <2>4 DEF TypeOK
    <3> QED
      BY <2>4, <3>1 DEF Idle, At
  <2>5. CASE e = d /\ task[d][s].pc \notin {"reserved", "marked"}
    BY <1>0, <1>2, <2>5 DEF TypeOK
  <2> QED
    BY <2>2, <2>3, <2>4, <2>5
<1>4. OwnClaims'
  BY <1>1, MineIsFixed DEF FenceInv, OwnClaims
<1> QED
  BY <1>1, <1>3, <1>4, ThreadsEnd
(***************************************************************************)
(* The launch, from the marked job to the release of its lease.            *)
(***************************************************************************)
LEMMA AssertOwnedSteps ==
  ASSUME TypeOK, DispatchLeases, NEW d \in Dispatchers, NEW r \in Runs, NEW next, NEW lost,
         AssertOwned(d, r, next, lost)
  PROVE  /\ LeasesSame /\ DispatchLeases' /\ OthersKept(d, r)
         /\ Steps(d, r, next) \/ Steps(d, r, lost)
<1>1. task[d][r].machine \in Machines \cup {NoMachine}
  BY DEF TypeOK, Task
<1>2. CASE Renew(task[d][r].machine, r, task[d][r].token) /\ Goto(d, r, next)
  <2>1. Steps(d, r, next) /\ OthersKept(d, r)
    BY <1>2, GotoSteps
  <2> QED
    BY <1>1, <1>2, <2>1, RenewLeases
<1>3. CASE Goto(d, r, lost) /\ UNCHANGED lease
  <2>1. Steps(d, r, lost) /\ OthersKept(d, r)
    BY <1>3, GotoSteps
  <2> QED
    BY <1>3, <2>1, UnchangedLeases
<1> QED
  BY <1>2, <1>3 DEF AssertOwned

\* A step of the thread that renews its lease at most, and stays in its batch.
LEMMA BatchStep ==
  ASSUME FenceInv, OneDispatcherPerProject, TypeOK', NEW d \in Dispatchers, NEW r \in Runs,
         NEW pc \in WorkPcs \cup {"release"}, Steps(d, r, pc), OthersKept(d, r), RecordsKept(r),
         LeasesSame, DispatchLeases', UNCHANGED <<claims, phase>>,
         task[d][r].pc \in WorkPcs, RecordInv(r)', Working(d, r)', Ending(d, r)', FailsClean(d, r)'
  PROVE  FenceInv'
<1>1. /\ r \in Mine(d) /\ phase[d] = "batch" /\ task[d][r].machine \in Machines
  BY DEF FenceInv, ThreadInv, Placed, BatchPcs, WorkPcs, At
<1>2. pc \in BatchPcs /\ pc \notin PlanPcs \cup ReconcilePcs
  BY DEF BatchPcs, WorkPcs, PlanPcs, ReconcilePcs
<1>3. Frame(d, r)
  BY <1>1, <1>2, SameLeasesKept DEF Frame, Steps
<1>4. ThreadInv(d, r)'
  <2>1. Placed(d, r)'
    BY <1>1, <1>2, MineIsFixed DEF Placed, Steps
  <2>2. Recovering(d, r)' /\ Planning(d, r)'
    BY <1>2 DEF Recovering, Planning, Steps, PlanPcs
  <2> QED
    BY <2>1, <2>2 DEF ThreadInv
<1> QED
  BY <1>3, <1>4, FrameKeeps DEF FenceInv

\* What a thread at work knows.
LEMMA WorkFacts ==
  ASSUME FenceInv, NEW d \in Dispatchers, NEW r \in Runs, task[d][r].pc \in WorkPcs
  PROVE  /\ TypeOK /\ DispatchLeases
         /\ r \in Mine(d) /\ phase[d] = "batch" /\ task[d][r].machine \in Machines
         /\ queue[r].status = "dispatching" /\ Held(d, r)
         /\ RecordInv(r) /\ Working(d, r) /\ Ending(d, r) /\ FailsClean(d, r)
BY DEF FenceInv, ThreadInv, Placed, Working, BatchPcs, WorkPcs, At

LEMMA HeldKept ==
  ASSUME LeasesSame, NEW d \in Dispatchers, NEW r \in Runs, NEW pc, Steps(d, r, pc),
         task[d][r].machine \in Machines, Held(d, r)
  PROVE  Held(d, r)'
BY DEF LeasesSame, Steps, Held, Holds

LEMMA OwnsKept == ASSUME LeasesSame, NEW r \in Runs, NEW m \in Machines, Owns(r, m), UNCHANGED site PROVE Owns(r, m)'
BY DEF LeasesSame, Owns

\* A record that the step leaves alone.
LEMMA RecordKept ==
  ASSUME NEW r \in Runs, RecordInv(r), LeasesSame, UNCHANGED records
  PROVE  RecordInv(r)'
<1>1. exec[r] = "registered" /\ remote[r] \in RemoteOutstanding => Owns(r, site[r])'
  BY DEF RecordInv, LeasesSame, Owns, records
<1> QED
  BY <1>1 DEF RecordInv, records

LEMMA AssertionsKeep ==
  ASSUME FenceInv, OneDispatcherPerProject, TypeOK', NEW d \in Dispatchers, NEW r \in Runs,
         Prepare(d, r) \/ AssertRegistered(d, r) \/ AssertLaunched(d, r)
  PROVE  FenceInv'
<1>0. task[d][r].pc \in WorkPcs /\ UNCHANGED <<records, phase, claims>>
  BY DEF Prepare, AssertRegistered, AssertLaunched, At, WorkPcs
<1>1. TypeOK /\ DispatchLeases
  BY DEF FenceInv
<1>2. /\ LeasesSame /\ DispatchLeases' /\ OthersKept(d, r)
      /\ \/ At(d, r, "marked") /\ \E pc \in {"prepared", "failqueue"} : Steps(d, r, pc)
         \/ At(d, r, "registered") /\ \E pc \in {"ready", "unknown"} : Steps(d, r, pc)
         \/ At(d, r, "registered") /\ FaultyDisk /\ Steps(d, r, "failing")
         \/ At(d, r, "launched") /\ \E pc \in {"commit", "unknown"} : Steps(d, r, pc)
         \/ At(d, r, "launched") /\ FaultyDisk /\ Steps(d, r, "failing")
  <2>1. CASE Prepare(d, r)
    <3>1. CASE AssertOwned(d, r, "prepared", "failqueue")
      BY <1>1, <2>1, <3>1, AssertOwnedSteps DEF Prepare
    <3>2. CASE Goto(d, r, "failqueue") /\ UNCHANGED lease
      BY <1>1, <2>1, <3>2, GotoSteps, UnchangedLeases DEF Prepare
    <3> QED
      BY <2>1, <3>1, <3>2 DEF Prepare
  <2>2. CASE AssertRegistered(d, r)
    <3>1. CASE AssertOwned(d, r, "ready", "unknown")
      BY <1>1, <2>2, <3>1, AssertOwnedSteps DEF AssertRegistered
    <3>2. CASE FaultyDisk /\ Goto(d, r, "failing") /\ UNCHANGED lease
      BY <1>1, <2>2, <3>2, GotoSteps, UnchangedLeases DEF AssertRegistered
    <3> QED
      BY <2>2, <3>1, <3>2 DEF AssertRegistered, DiskFails
  <2>3. CASE AssertLaunched(d, r)
    <3>1. CASE AssertOwned(d, r, "commit", "unknown")
      BY <1>1, <2>3, <3>1, AssertOwnedSteps DEF AssertLaunched
    <3>2. CASE FaultyDisk /\ Goto(d, r, "failing") /\ UNCHANGED lease
      BY <1>1, <2>3, <3>2, GotoSteps, UnchangedLeases DEF AssertLaunched
    <3> QED
      BY <2>3, <3>1, <3>2 DEF AssertLaunched, DiskFails
  <2> QED
    BY <2>1, <2>2, <2>3
<1>3. PICK pc \in WorkPcs : Steps(d, r, pc)
  BY <1>2 DEF WorkPcs
<1>4. Held(d, r)'
  BY <1>0, <1>2, <1>3, HeldKept, WorkFacts
<1>5. RecordInv(r)'
  BY <1>0, <1>2, RecordKept, WorkFacts
<1>6. Working(d, r)' /\ Ending(d, r)' /\ FailsClean(d, r)'
  BY <1>0, <1>2, <1>4, WorkFacts DEF Working, Ending, FailsClean, At, Steps, records, WorkPcs, RemoteOutstanding
<1> QED
  BY <1>0, <1>2, <1>3, <1>5, <1>6, BatchStep DEF RecordsKept, records

LEMMA RegisterKeeps ==
  ASSUME FenceInv, OneDispatcherPerProject, TypeOK', NEW d \in Dispatchers, NEW r \in Runs, Register(d, r)
  PROVE  FenceInv'
<1>0. At(d, r, "prepared") /\ task[d][r].pc \in WorkPcs /\ UNCHANGED <<lease, queue, remote, boots, phase, claims>>
  BY DEF Register, At, WorkPcs
<1>1. /\ TypeOK /\ exec[r] = "none" /\ remote[r] = "absent" /\ boots[r] = 0 /\ queue[r].status = "dispatching"
      /\ task[d][r].machine \in Machines
  BY <1>0, WorkFacts DEF Working, RecordInv, At
<1>2. /\ exec' = [exec EXCEPT ![r] = "registered"] /\ site' = [site EXCEPT ![r] = task[d][r].machine]
      /\ Goto(d, r, "registered")
  BY <1>1 DEF Register
<1>3. Steps(d, r, "registered") /\ OthersKept(d, r)
  BY <1>1, <1>2, GotoSteps
<1>4. exec'[r] = "registered" /\ site'[r] = task[d][r].machine /\ RecordsKept(r)
  BY <1>0, <1>1, <1>2 DEF TypeOK, RecordsKept
<1>5. LeasesSame /\ DispatchLeases'
  BY <1>0, WorkFacts, UnchangedLeases
<1>6. Held(d, r)'
  BY <1>0, <1>3, <1>5, HeldKept, WorkFacts
<1>7. RecordInv(r)'
  BY <1>0, <1>1, <1>4 DEF RecordInv, RemoteOutstanding
<1>8. Working(d, r)' /\ Ending(d, r)' /\ FailsClean(d, r)'
  BY <1>0, <1>1, <1>3, <1>4, <1>6 DEF Working, Ending, FailsClean, At, Steps
<1> QED
  BY <1>0, <1>3, <1>4, <1>5, <1>7, <1>8, BatchStep DEF WorkPcs

LEMMA StartKeeps ==
  ASSUME FenceInv, OneDispatcherPerProject, TypeOK', NEW d \in Dispatchers, NEW r \in Runs, StartBootstrap(d, r)
  PROVE  FenceInv'
<1>0. At(d, r, "ready") /\ task[d][r].pc \in WorkPcs /\ UNCHANGED <<lease, queue, exec, site, phase, claims>>
  BY DEF StartBootstrap, At, WorkPcs
<1>1. /\ TypeOK /\ exec[r] = "registered" /\ remote[r] = "absent" /\ boots[r] = 0 /\ queue[r].status = "dispatching"
      /\ task[d][r].machine \in Machines /\ site[r] = task[d][r].machine /\ Held(d, r)
  BY <1>0, WorkFacts DEF Working, At
<1>2. LeasesSame /\ DispatchLeases'
  BY <1>0, WorkFacts, UnchangedLeases
<1>3. Owns(r, site[r])'
  BY <1>0, <1>1 DEF Held, Holds, Owns
<1>4. CASE Goto(d, r, "launching") /\ boots' = [boots EXCEPT ![r] = @ + 1]
           /\ \E now \in {"preflight", "absent"} : remote' = [remote EXCEPT ![r] = now]
  <2>1. Steps(d, r, "launching") /\ OthersKept(d, r)
    BY <1>1, <1>4, GotoSteps
  <2>2. boots'[r] = 1 /\ remote'[r] \in {"preflight", "absent"} /\ RecordsKept(r)
    BY <1>0, <1>1, <1>4 DEF TypeOK, RecordsKept
  <2>3. RecordInv(r)'
    BY <1>0, <1>1, <1>3, <2>2 DEF RecordInv
  <2>4. Held(d, r)'
    BY <1>1, <1>2, <2>1, HeldKept
  <2>5. Working(d, r)' /\ Ending(d, r)' /\ FailsClean(d, r)'
    BY <1>0, <1>1, <2>1, <2>4 DEF Working, Ending, FailsClean, At, Steps
  <2> QED
    BY <1>0, <1>2, <2>1, <2>2, <2>3, <2>5, BatchStep DEF WorkPcs
<1>5. CASE Goto(d, r, "failing") /\ UNCHANGED <<remote, boots>>
  <2>1. Steps(d, r, "failing") /\ OthersKept(d, r)
    BY <1>1, <1>5, GotoSteps
  <2>2. RecordsKept(r)
    BY <1>0, <1>5 DEF RecordsKept
  <2>3. RecordInv(r)'
    BY <1>0, <1>2, <1>5, WorkFacts, RecordKept DEF records
  <2>4. Held(d, r)'
    BY <1>1, <1>2, <2>1, HeldKept
  <2>5. Working(d, r)' /\ Ending(d, r)' /\ FailsClean(d, r)'
    BY <1>0, <1>1, <1>5, <2>1, <2>4 DEF Working, Ending, FailsClean, At, Steps, RemoteOutstanding
  <2> QED
    BY <1>0, <1>2, <2>1, <2>2, <2>3, <2>5, BatchStep DEF WorkPcs
<1> QED
  BY <1>4, <1>5 DEF StartBootstrap

\* The steps that only look at records before they go on.
LEMMA LooksKeep ==
  ASSUME FenceInv, OneDispatcherPerProject, TypeOK', NEW d \in Dispatchers, NEW r \in Runs,
         LaunchRejected(d, r) \/ LaunchUnknown(d, r) \/ Unknown(d, r) \/ ReadFailing(d, r)
  PROVE  FenceInv'
<1>0. task[d][r].pc \in WorkPcs /\ UNCHANGED <<records, phase, claims>>
  BY DEF LaunchRejected, LaunchUnknown, Unknown, ReadFailing, At, WorkPcs
<1>1. TypeOK /\ DispatchLeases
  BY DEF FenceInv
<1>2. /\ LeasesSame /\ DispatchLeases'
  <2>1. CASE Unknown(d, r)
    BY <1>0, <1>1, <2>1, WorkFacts, RenewLeases, UnchangedLeases DEF Unknown
  <2>2. CASE LaunchRejected(d, r) \/ LaunchUnknown(d, r) \/ ReadFailing(d, r)
    BY <1>1, <2>2, UnchangedLeases DEF LaunchRejected, LaunchUnknown, ReadFailing
  <2> QED
    BY <2>1, <2>2
<1>3. PICK pc \in WorkPcs :
        /\ Goto(d, r, pc)
        /\ \/ At(d, r, "launching") /\ remote[r] = "rejected" /\ pc = "failing"
           \/ At(d, r, "launching") /\ pc = "unknown"
           \/ At(d, r, "unknown") /\ r \in Visible(task[d][r].machine) /\ pc = "seen"
           \/ At(d, r, "unknown") /\ pc = "unseen"
           \/ At(d, r, "failing") /\ exec[r] = "registered" /\ pc = "failexec"
           \/ At(d, r, "failing") /\ exec[r] # "registered" /\ pc = "failqueue"
  BY DEF LaunchRejected, LaunchUnknown, Unknown, ReadFailing, WorkPcs
<1>4. Steps(d, r, pc) /\ OthersKept(d, r)
  BY <1>1, <1>3, GotoSteps
<1>5. Held(d, r)'
  BY <1>0, <1>2, <1>4, HeldKept, WorkFacts
<1>6. RecordInv(r)'
  BY <1>0, <1>2, RecordKept, WorkFacts
<1>7. Working(d, r)' /\ Ending(d, r)' /\ FailsClean(d, r)'
  BY <1>0, <1>3, <1>4, <1>5, WorkFacts
     DEF Working, Ending, FailsClean, At, Steps, records, WorkPcs, RemoteOutstanding, Visible
<1> QED
  BY <1>0, <1>2, <1>4, <1>6, <1>7, BatchStep DEF RecordsKept, records

LEMMA LaunchOkKeeps ==
  ASSUME FenceInv, OneDispatcherPerProject, TypeOK', NEW d \in Dispatchers, NEW r \in Runs, LaunchOk(d, r)
  PROVE  FenceInv'
<1>0. /\ At(d, r, "launching") /\ task[d][r].pc \in WorkPcs
      /\ UNCHANGED <<lease, queue, site, remote, boots, phase, claims>>
      /\ remote[r] \notin RemoteOutstanding
  BY DEF LaunchOk, At, WorkPcs, RemoteOutstanding, ExecTerminal
<1>1. TypeOK /\ exec[r] = "registered" /\ queue[r].status = "dispatching" /\ RecordInv(r)
  BY <1>0, WorkFacts DEF Working, At
<1>2. LeasesSame /\ DispatchLeases'
  BY <1>0, WorkFacts, UnchangedLeases
<1>3. PICK pc \in {"launched", "failing"} :
        /\ Goto(d, r, pc) /\ (pc = "failing" => FaultyDisk)
        /\ exec' = [exec EXCEPT ![r] = "running"] \/ exec' = exec
  BY DEF LaunchOk, DiskFails
<1>4. Steps(d, r, pc) /\ OthersKept(d, r)
  BY <1>1, <1>3, GotoSteps
<1>5. exec'[r] \in {"registered", "running"} /\ RecordsKept(r)
  BY <1>0, <1>1, <1>3 DEF TypeOK, RecordsKept
<1>6. Held(d, r)'
  BY <1>0, <1>2, <1>4, HeldKept, WorkFacts
<1>7. RecordInv(r)'
  BY <1>0, <1>1, <1>5 DEF RecordInv
<1>8. Working(d, r)' /\ Ending(d, r)' /\ FailsClean(d, r)'
  BY <1>0, <1>1, <1>3, <1>4, <1>6 DEF Working, Ending, FailsClean, At, Steps
<1> QED
  BY <1>0, <1>2, <1>3, <1>4, <1>5, <1>7, <1>8, BatchStep DEF WorkPcs

LEMMA FailExecutionKeeps ==
  ASSUME FenceInv, OneDispatcherPerProject, TypeOK', NEW d \in Dispatchers, NEW r \in Runs, FailExecution(d, r)
  PROVE  FenceInv'
<1>0. /\ At(d, r, "failexec") /\ task[d][r].pc \in WorkPcs
      /\ UNCHANGED <<lease, queue, site, remote, boots, phase, claims>>
  BY DEF FailExecution, At, WorkPcs
<1>1. /\ TypeOK /\ queue[r].status = "dispatching" /\ RecordInv(r)
      /\ remote[r] \notin RemoteOutstanding
  BY <1>0, WorkFacts DEF Ending, At
<1>2. LeasesSame /\ DispatchLeases'
  BY <1>0, WorkFacts, UnchangedLeases
<1>3. PICK pc \in {"failqueue", "release"} :
        /\ Goto(d, r, pc)
        /\ pc = "failqueue" => exec[r] = "registered" /\ exec' = [exec EXCEPT ![r] = "failed"]
        /\ pc = "release" => exec[r] # "registered" /\ exec' = exec
  BY DEF FailExecution
<1>4. Steps(d, r, pc) /\ OthersKept(d, r)
  BY <1>1, <1>3, GotoSteps
<1>5. /\ RecordsKept(r)
      /\ pc = "failqueue" => exec'[r] = "failed" /\ exec[r] = "registered"
      /\ pc = "release" => exec'[r] = exec[r] /\ exec[r] # "registered"
  BY <1>0, <1>1, <1>3 DEF TypeOK, RecordsKept
<1>6. Held(d, r)'
  BY <1>0, <1>2, <1>4, HeldKept, WorkFacts
<1>7. RecordInv(r)'
  BY <1>0, <1>1, <1>3, <1>5 DEF RecordInv
<1>8. Working(d, r)' /\ Ending(d, r)' /\ FailsClean(d, r)'
  BY <1>0, <1>1, <1>3, <1>4, <1>5, <1>6 DEF Working, Ending, FailsClean, At, Steps, WorkPcs
<1> QED
  BY <1>0, <1>2, <1>3, <1>4, <1>5, <1>7, <1>8, BatchStep DEF WorkPcs

\* The record of a job whose queue entry leaves "dispatching".
LEMMA QueueMoves ==
  ASSUME TypeOK, NEW r \in Runs, RecordInv(r), queue[r].status = "dispatching",
         UNCHANGED <<lease, exec, site, remote, boots>>,
         NEW status \in {"dispatched", "failed"}, SetQueue(r, status),
         status = "failed" /\ ~FaultyDisk => exec[r] \notin {"registered", "running"}
  PROVE  RecordInv(r)' /\ RecordsKept(r)
<1>1. queue'[r].status = status /\ \A s \in Runs : s # r => queue'[s] = queue[s]
  BY SetQueueSteps
<1> QED
  BY <1>1 DEF RecordInv, RecordsKept, Owns

LEMMA CommitKeeps ==
  ASSUME FenceInv, OneDispatcherPerProject, TypeOK', NEW d \in Dispatchers, NEW r \in Runs, Commit(d, r)
  PROVE  FenceInv'
<1>0. /\ At(d, r, "commit") /\ task[d][r].pc \in WorkPcs
      /\ UNCHANGED <<lease, exec, site, remote, boots, phase, claims>>
  BY DEF Commit, At, WorkPcs
<1>1. /\ TypeOK /\ queue[r].status = "dispatching" /\ RecordInv(r) /\ remote[r] \notin RemoteOutstanding
  BY <1>0, WorkFacts DEF Ending, At
<1>2. LeasesSame /\ DispatchLeases'
  BY <1>0, WorkFacts, UnchangedLeases
<1>3. CASE SetQueue(r, "dispatched") /\ Goto(d, r, "release")
  <2>1. Steps(d, r, "release") /\ OthersKept(d, r)
    BY <1>1, <1>3, GotoSteps
  <2>2. RecordInv(r)' /\ RecordsKept(r)
    BY <1>0, <1>1, <1>3, QueueMoves
  <2>3. Working(d, r)' /\ Ending(d, r)' /\ FailsClean(d, r)'
    BY <1>0, <1>1, <2>1 DEF Working, Ending, FailsClean, At, Steps, WorkPcs
  <2> QED
    BY <1>0, <1>2, <2>1, <2>2, <2>3, BatchStep
<1>4. ASSUME NEW pc \in {"unknown", "failing"}, Goto(d, r, pc), UNCHANGED queue, pc = "failing" => FaultyDisk
      PROVE  FenceInv'
  <2>1. Steps(d, r, pc) /\ OthersKept(d, r)
    BY <1>1, <1>4, GotoSteps
  <2>2. RecordInv(r)' /\ RecordsKept(r)
    BY <1>0, <1>1, <1>2, <1>4, RecordKept DEF records, RecordsKept
  <2>3. Held(d, r)'
    BY <1>0, <1>2, <2>1, HeldKept, WorkFacts
  <2>4. Working(d, r)' /\ Ending(d, r)' /\ FailsClean(d, r)'
    BY <1>0, <1>1, <1>4, <2>1, <2>3 DEF Working, Ending, FailsClean, At, Steps
  <2> QED
    BY <1>0, <1>2, <1>4, <2>1, <2>2, <2>4, BatchStep DEF WorkPcs
<1> QED
  BY <1>1, <1>3, <1>4 DEF Commit, DiskFails

LEMMA FailQueueKeeps ==
  ASSUME FenceInv, OneDispatcherPerProject, TypeOK', NEW d \in Dispatchers, NEW r \in Runs, FailQueue(d, r)
  PROVE  FenceInv'
<1>0. /\ At(d, r, "failqueue") /\ task[d][r].pc \in WorkPcs /\ Goto(d, r, "release")
      /\ UNCHANGED <<lease, exec, site, remote, boots, phase, claims>>
      /\ SetQueue(r, "failed") \/ UNCHANGED queue
  BY DEF FailQueue, At, WorkPcs
<1>1. /\ TypeOK /\ queue[r].status = "dispatching" /\ RecordInv(r)
      /\ exec[r] # "registered" \/ remote[r] \notin RemoteOutstanding
      /\ ~FaultyDisk => exec[r] \in {"none", "failed"}
  BY <1>0, WorkFacts DEF Ending, FailsClean, At
<1>2. LeasesSame /\ DispatchLeases'
  BY <1>0, WorkFacts, UnchangedLeases
<1>3. Steps(d, r, "release") /\ OthersKept(d, r)
  BY <1>0, <1>1, GotoSteps
<1>4. RecordInv(r)' /\ RecordsKept(r)
  <2>1. CASE SetQueue(r, "failed")
    BY <1>0, <1>1, <2>1, QueueMoves
  <2>2. CASE UNCHANGED queue
    BY <1>0, <1>1, <1>2, <2>2, RecordKept DEF records, RecordsKept
  <2> QED
    BY <1>0, <2>1, <2>2
<1>5. Working(d, r)' /\ Ending(d, r)' /\ FailsClean(d, r)'
  BY <1>0, <1>1, <1>3 DEF Working, Ending, FailsClean, At, Steps, WorkPcs
<1> QED
  BY <1>0, <1>2, <1>3, <1>4, <1>5, BatchStep

\* The thread is done with its run.
LEMMA ThreadDone ==
  ASSUME FenceInv, OneDispatcherPerProject, TypeOK', NEW d \in Dispatchers, NEW r \in Runs, Finish(d, r),
         r \in Mine(d), RecordsKept(r), LeasesKept(r), DispatchLeases', UNCHANGED <<claims, phase>>, RecordInv(r)'
  PROVE  FenceInv'
<1>1. At(d, r, "idle")' /\ OthersKept(d, r)
  BY FinishSteps DEF FenceInv
<1>2. Frame(d, r)
  BY <1>1 DEF Frame, At, ReconcilePcs
<1> QED
  BY <1>1, <1>2, FrameKeeps, IdleThreadNext

LEMMA CommitUnknownKeeps ==
  ASSUME FenceInv, OneDispatcherPerProject, TypeOK', NEW d \in Dispatchers, NEW r \in Runs, CommitUnknown(d, r)
  PROVE  FenceInv'
<1>0. /\ task[d][r].pc \in {"seen", "unseen"} /\ task[d][r].pc \in WorkPcs
      /\ UNCHANGED <<lease, exec, site, remote, boots, phase, claims>>
      /\ SetQueue(r, "dispatched") \/ UNCHANGED queue
      /\ (At(d, r, "seen") /\ Goto(d, r, "release")) \/ Finish(d, r)
  BY DEF CommitUnknown, At, WorkPcs
<1>1. /\ TypeOK /\ queue[r].status = "dispatching" /\ RecordInv(r) /\ r \in Mine(d)
      /\ At(d, r, "seen") => remote[r] \notin RemoteOutstanding
  BY <1>0, WorkFacts DEF Ending, At
<1>2. LeasesSame /\ DispatchLeases'
  BY <1>0, WorkFacts, UnchangedLeases
<1>3. RecordInv(r)' /\ RecordsKept(r)
  <2>1. CASE SetQueue(r, "dispatched")
    BY <1>0, <1>1, <2>1, QueueMoves
  <2>2. CASE UNCHANGED queue
    BY <1>0, <1>1, <1>2, <2>2, RecordKept DEF records, RecordsKept
  <2> QED
    BY <1>0, <2>1, <2>2
<1>4. CASE At(d, r, "seen") /\ Goto(d, r, "release")
  <2>1. Steps(d, r, "release") /\ OthersKept(d, r)
    BY <1>1, <1>4, GotoSteps
  <2>2. Working(d, r)' /\ Ending(d, r)' /\ FailsClean(d, r)'
    BY <1>0, <1>1, <1>4, <2>1 DEF Working, Ending, FailsClean, At, Steps, WorkPcs
  <2> QED
    BY <1>0, <1>2, <1>3, <2>1, <2>2, BatchStep
<1>5. CASE Finish(d, r)
  BY <1>0, <1>1, <1>2, <1>3, <1>5, ThreadDone, SameLeasesKept
<1> QED
  BY <1>0, <1>4, <1>5

LEMMA ReleaseLeaseKeeps ==
  ASSUME FenceInv, OneDispatcherPerProject, TypeOK', NEW d \in Dispatchers, NEW r \in Runs, ReleaseLease(d, r)
  PROVE  FenceInv'
<1>0. /\ At(d, r, "release") /\ Release(task[d][r].machine, r, task[d][r].token) /\ Finish(d, r)
      /\ UNCHANGED <<records, phase, claims>>
  BY DEF ReleaseLease
<1>1. /\ TypeOK /\ DispatchLeases /\ RecordInv(r) /\ r \in Mine(d)
      /\ exec[r] # "registered" \/ remote[r] \notin RemoteOutstanding
  BY <1>0 DEF FenceInv, ThreadInv, Placed, Ending, At
<1>2. LeasesKept(r) /\ DispatchLeases'
  BY <1>0, <1>1, ReleaseLeases
<1>3. RecordInv(r)' /\ RecordsKept(r)
  BY <1>0, <1>1 DEF RecordInv, RecordsKept, records
<1> QED
  BY <1>0, <1>1, <1>2, <1>3, ThreadDone

LEMMA LaunchKeeps ==
  ASSUME FenceInv, OneDispatcherPerProject, TypeOK', NEW d \in Dispatchers, NEW r \in Runs, Launch(d, r)
  PROVE  FenceInv'
BY AssertionsKeep, RegisterKeeps, StartKeeps, LooksKeep, LaunchOkKeeps, FailExecutionKeeps, CommitKeeps,
   FailQueueKeeps, CommitUnknownKeeps, ReleaseLeaseKeeps DEF Launch

(***************************************************************************)
(* The cycle of a dispatcher.                                              *)
(***************************************************************************)
LEMMA PlanKeeps ==
  ASSUME FenceInv, TypeOK', NEW d \in Dispatchers, Plan(d)
  PROVE  FenceInv'
<1>0. TypeOK /\ UNCHANGED <<lease, records, claims>> /\ phase[d] = "plan"
  BY DEF FenceInv, Plan
<1>1. PICK f \in Plans(d) :
        \/ UNCHANGED task /\ (Enter(d, "idle") \/ Enter(d, "sleep"))
        \/ /\ Enter(d, "batch")
           /\ task' = [task EXCEPT ![d] = [r \in Runs |->
                IF r \in DOMAIN f
                THEN [Idle EXCEPT !.pc = "planned", !.machine = f[r], !.revision = queue[r].revision,
                                  !.others = Eligible[r] \ (drained \cup Range(f))]
                ELSE Idle]]
  BY DEF Plan
<1>2. \A r \in DOMAIN f : f[r] \in Machines /\ r \in Mine(d) /\ queue[r].status = "queued"
  BY DEF Plans, Queued
<1>3. \A e \in Dispatchers : e # d => phase'[e] = phase[e]
  BY <1>0, <1>1 DEF Enter, TypeOK
<1>4. \A r \in Runs : At(d, r, "idle")
  <2>1. ASSUME NEW r \in Runs PROVE At(d, r, "idle")
    <3>1. task[d][r].pc \in Pcs /\ ThreadInv(d, r)
      BY <1>0 DEF FenceInv, TypeOK, Task
    <3> QED
      BY <1>0, <3>1 DEF ThreadInv, Placed, Pcs, ReconcilePcs, BatchPcs, PlanPcs, WorkPcs, At
  <2> QED
    BY <2>1
<1>5. OwnClaims'
  BY <1>0, MineIsFixed DEF FenceInv, OwnClaims
<1>6. CASE UNCHANGED task
  <2>1. \A e \in Dispatchers, s \in Runs : At(e, s, "idle")' \/ (task'[e][s] = task[e][s] /\ phase'[e] = phase[e])
    BY <1>3, <1>4, <1>6 DEF At
  <2> QED
    BY <1>0, <1>5, <2>1, ThreadsEnd
<1>7. CASE /\ Enter(d, "batch")
           /\ task' = [task EXCEPT ![d] = [r \in Runs |->
                IF r \in DOMAIN f
                THEN [Idle EXCEPT !.pc = "planned", !.machine = f[r], !.revision = queue[r].revision,
                                  !.others = Eligible[r] \ (drained \cup Range(f))]
                ELSE Idle]]
  <2>1. phase'[d] = "batch"
    BY <1>0, <1>7 DEF Enter, TypeOK
  <2>2. \A e \in Dispatchers, s \in Runs : e # d => task'[e][s] = task[e][s]
    BY <1>0, <1>7 DEF TypeOK
  <2>3. ASSUME NEW s \in Runs
        PROVE  \/ At(d, s, "idle")'
               \/ /\ At(d, s, "planned")' /\ task'[d][s].machine \in Machines /\ s \in Mine(d)
                  /\ task'[d][s].revision = queue[s].revision /\ queue[s].status = "queued"
    <3>1. CASE s \in DOMAIN f
      <4>1. task'[d][s] = [Idle EXCEPT !.pc = "planned", !.machine = f[s], !.revision = queue[s].revision,
                                       !.others = Eligible[s] \ (drained \cup Range(f))]
        BY <1>0, <1>7, <3>1 DEF TypeOK
      <4> QED
        BY <1>2, <3>1, <4>1 DEF Idle, At
    <3>2. CASE s \notin DOMAIN f
      <4>1. task'[d][s] = Idle
        BY <1>0, <1>7, <3>2 DEF TypeOK
      <4> QED
        BY <4>1 DEF Idle, At
    <3> QED
      BY <3>1, <3>2
  <2>4. ASSUME NEW s \in Runs PROVE RecordInv(s)'
    BY <1>0 DEF FenceInv, RecordInv, records, Owns
  <2>5. ASSUME NEW e \in Dispatchers, NEW s \in Runs PROVE ThreadInv(e, s)'
    <3>1. CASE e # d
      <4>1. ThreadInv(e, s) /\ task'[e][s] = task[e][s] /\ phase'[e] = phase[e]
        BY <1>3, <2>2, <3>1 DEF FenceInv
      <4> QED
        BY <1>0, <4>1, MineIsFixed
           DEF ThreadInv, Placed, Recovering, Planning, Working, Ending, FailsClean, At, Held, Holds, records
    <3>2. CASE At(d, s, "idle")' /\ e = d
      BY <3>2, IdleThreadNext
    <3>3. CASE e = d /\ ~At(d, s, "idle")'
      <4>1. /\ At(d, s, "planned")' /\ task'[d][s].machine \in Machines /\ s \in Mine(d)
            /\ task'[d][s].revision = queue[s].revision /\ queue[s].status = "queued"
        BY <2>3, <3>3
      <4>2. exec[s] = "none" /\ queue[s].revision \in Nat
        BY <1>0, <4>1 DEF FenceInv, RecordInv, TypeOK
      <4> QED
        BY <1>0, <2>1, <3>3, <4>1, <4>2, MineIsFixed
           DEF ThreadInv, Placed, Recovering, Planning, Working, Ending, FailsClean, At, records,
               ReconcilePcs, BatchPcs, PlanPcs, WorkPcs
    <3> QED
      BY <3>1, <3>2, <3>3
  <2>6. OneRecovery'
    <3>1. \A s \in Runs : task'[d][s].pc \notin ReconcilePcs
      BY <2>3 DEF At, ReconcilePcs
    <3> QED
      BY <2>2, <3>1 DEF FenceInv, OneRecovery
  <2> QED
    BY <1>0, <1>5, <2>4, <2>5, <2>6 DEF FenceInv, DispatchLeases
<1> QED
  BY <1>1, <1>6, <1>7

LEMMA IdleOutsideWork ==
  ASSUME FenceInv, NEW d \in Dispatchers,
         \/ phase[d] \notin {"jobs", "batch"}
         \/ phase[d] = "jobs" /\ NoneAt(d, ReconcilePcs)
         \/ NoneAt(d, Pcs \ {"idle"})
  PROVE  \A r \in Runs : At(d, r, "idle")
<1>1. SUFFICES ASSUME NEW r \in Runs PROVE At(d, r, "idle")
  OBVIOUS
<1>2. task[d][r].pc \in Pcs /\ ThreadInv(d, r)
  BY DEF FenceInv, TypeOK, Task
<1> QED
  BY <1>2 DEF ThreadInv, Placed, Pcs, ReconcilePcs, BatchPcs, PlanPcs, WorkPcs, At, NoneAt

\* A dispatcher none of whose threads is at work goes to another phase.
LEMMA TurnKeeps ==
  ASSUME FenceInv, TypeOK', NEW d \in Dispatchers, NEW p, Enter(d, p), UNCHANGED <<lease, records, task>>,
         OwnClaims', \A r \in Runs : At(d, r, "idle")
  PROVE  FenceInv'
<1>1. \A e \in Dispatchers : e # d => phase'[e] = phase[e]
  BY DEF FenceInv, Enter, TypeOK
<1>2. \A e \in Dispatchers, s \in Runs : At(e, s, "idle")' \/ (task'[e][s] = task[e][s] /\ phase'[e] = phase[e])
  BY <1>1 DEF At
<1> QED
  BY <1>2, ThreadsEnd

LEMMA SameClaims == ASSUME OwnClaims, UNCHANGED claims PROVE OwnClaims'
BY MineIsFixed DEF OwnClaims

LEMMA ReconcileLeaseKeeps ==
  ASSUME FenceInv, OneDispatcherPerProject, TypeOK', NEW d \in Dispatchers, NEW c \in claims[d], ReconcileLease(d, c)
  PROVE  FenceInv'
<1> DEFINE r == c.owner
<1>0. TypeOK /\ DispatchLeases /\ phase[d] = "leases" /\ UNCHANGED <<records, phase, task>>
  BY DEF FenceInv, ReconcileLease
<1>1. r \in Runs /\ r \in Mine(d)
  BY DEF FenceInv, TypeOK, Claim, OwnClaims
<1>2. UNCHANGED lease \/ Release(c.machine, r, c.token)
  BY DEF ReconcileLease
<1>3. LeasesKept(r) /\ DispatchLeases'
  BY <1>0, <1>2, ReleaseLeases, UnchangedLeases, SameLeasesKept
<1>4. RecordInv(r)'
  <2>1. RecordInv(r)
    BY <1>1 DEF FenceInv
  <2>2. exec[r] = "registered" /\ remote[r] \in RemoteOutstanding => UNCHANGED lease
    BY DEF ReconcileLease, Settled, SeenRunning, AuthorityGone, Visible, RemoteOutstanding
  <2> QED
    BY <1>0, <2>1, <2>2 DEF RecordInv, records, Owns
<1>5. RecordsKept(r)
  BY <1>0 DEF RecordsKept, records
<1>6. \A e \in Dispatchers : At(e, r, "idle")
  <2>1. ASSUME NEW e \in Dispatchers PROVE At(e, r, "idle")
    <3>1. CASE e = d
      BY <1>0, <1>1, <3>1, IdleOutsideWork
    <3>2. CASE e # d
      <4>1. r \notin Mine(e)
        BY <1>1, <3>2 DEF Mine, OneDispatcherPerProject
      <4> QED
        BY <1>1, <4>1 DEF FenceInv, ThreadInv, Placed
    <3> QED
      BY <3>1, <3>2
  <2> QED
    BY <2>1
<1>7. ASSUME NEW e \in Dispatchers, NEW s \in Runs PROVE ThreadInv(e, s)' /\ RecordInv(s)'
  <2>1. CASE s = r
    BY <1>0, <1>1, <1>4, <1>6, <2>1, IdleThreadNext DEF At
  <2>2. CASE s # r
    BY <1>0, <1>1, <1>3, <1>5, <2>2, OtherRunKept
  <2> QED
    BY <2>1, <2>2
<1>8. OwnClaims'
  <2>1. \A e \in Dispatchers : claims'[e] \subseteq claims[e]
    BY <1>0 DEF ReconcileLease, TypeOK
  <2> QED
    BY <2>1, MineIsFixed DEF FenceInv, OwnClaims
<1>9. OneRecovery'
  BY <1>0 DEF FenceInv, OneRecovery
<1>10. \A s \in Runs : RecordInv(s)'
  BY <1>7
<1>11. \A e \in Dispatchers, s \in Runs : ThreadInv(e, s)'
  BY <1>7
<1> QED
  BY <1>3, <1>8, <1>9, <1>10, <1>11 DEF FenceInv

LEMMA CycleKeeps ==
  ASSUME FenceInv, OneDispatcherPerProject, TypeOK', NEW d \in Dispatchers, Cycle(d)
  PROVE  FenceInv'
<1>0. TypeOK /\ OwnClaims
  BY DEF FenceInv
<1>1. CASE Start(d) \/ FinishLeases(d) \/ ExitIdle(d) \/ StayIdle(d)
  <2>1. phase[d] \in {"down", "leases", "idle"} /\ UNCHANGED <<lease, records, task, claims>> /\ \E p \in Phases : Enter(d, p)
    BY <1>1 DEF Start, FinishLeases, ExitIdle, StayIdle, Phases
  <2>2. PICK p \in Phases : Enter(d, p)
    BY <2>1
  <2> QED
    BY <1>0, <2>1, <2>2, IdleOutsideWork, SameClaims, TurnKeeps
<1>2. CASE FinishJobs(d)
  BY <1>0, <1>2, IdleOutsideWork, SameClaims, TurnKeeps DEF FinishJobs
<1>3. CASE FinishBatch(d)
  BY <1>0, <1>3, IdleOutsideWork, SameClaims, TurnKeeps DEF FinishBatch
<1>4. CASE BeginCycle(d)
  <2>1. OwnClaims'
    <3>1. claims' = [claims EXCEPT ![d] = {[machine |-> m, owner |-> lease[m].owner, token |-> lease[m].token] :
                                             m \in UNION {LeasesOf(r) : r \in Mine(d)}}]
      BY <1>4 DEF BeginCycle
    <3>2. \A m \in UNION {LeasesOf(r) : r \in Mine(d)} : lease[m].owner \in Mine(d)
      BY DEF LeasesOf
    <3>3. \A c \in claims'[d] : c.owner \in Mine(d)
      BY <1>0, <3>1, <3>2 DEF TypeOK
    <3>4. \A e \in Dispatchers : e # d => claims'[e] = claims[e]
      BY <1>0, <3>1 DEF TypeOK
    <3> QED
      BY <1>0, <3>3, <3>4, MineIsFixed DEF OwnClaims
  <2>2. phase[d] = "sleep" /\ Enter(d, "leases") /\ UNCHANGED <<lease, records, task>>
    BY <1>4 DEF BeginCycle
  <2> QED
    BY <2>1, <2>2, IdleOutsideWork, TurnKeeps
<1> QED
  BY <1>1, <1>2, <1>3, <1>4, PlanKeeps, ReconcileLeaseKeeps DEF Cycle

(***************************************************************************)
(* The surroundings.                                                       *)
(***************************************************************************)
\* Steps that change no record, and of a thread and a lease only what the invariant does not read.
LEMMA QuietKeeps ==
  ASSUME FenceInv, TypeOK', LeasesSame, DispatchLeases', UNCHANGED <<records, phase, claims>>,
         \A e \in Dispatchers, s \in Runs : Steps(e, s, task[e][s].pc)
  PROVE  FenceInv'
<1>1. \A s \in Runs : RecordInv(s)'
  BY RecordKept DEF FenceInv
<1>2. ASSUME NEW e \in Dispatchers, NEW s \in Runs PROVE ThreadInv(e, s)'
  <2>1. ThreadInv(e, s) /\ Steps(e, s, task[e][s].pc)
    BY DEF FenceInv
  <2>2. task[e][s].pc \in BatchPcs /\ Held(e, s) => Held(e, s)'
    BY <2>1, HeldKept DEF ThreadInv, Placed
  <2>3. Planning(e, s)' /\ Working(e, s)'
    BY <2>1, <2>2 DEF ThreadInv, Planning, Working, Steps, records, BatchPcs, PlanPcs
  <2>4. Placed(e, s)' /\ Recovering(e, s)' /\ Ending(e, s)' /\ FailsClean(e, s)'
    BY <2>1, MineIsFixed DEF ThreadInv, Placed, Recovering, Ending, FailsClean, Steps, records, At
  <2> QED
    BY <2>3, <2>4 DEF ThreadInv
<1>3. OneRecovery'
  BY DEF FenceInv, OneRecovery, Steps
<1>4. OwnClaims'
  BY SameClaims DEF FenceInv
<1> QED
  BY <1>1, <1>2, <1>3, <1>4 DEF FenceInv

LEMMA HeartbeatKeeps ==
  ASSUME FenceInv, TypeOK', NEW d \in Dispatchers, NEW r \in Runs, Heartbeat(d, r)
  PROVE  FenceInv'
<1>0. TypeOK /\ DispatchLeases /\ UNCHANGED <<records, phase, claims>>
  BY DEF FenceInv, Heartbeat
<1>1. LeasesSame /\ DispatchLeases'
  <2>1. task[d][r].machine \in Machines \cup {NoMachine}
    BY <1>0 DEF TypeOK, Task
  <2> QED
    BY <1>0, <2>1, RenewLeases, UnchangedLeases DEF Heartbeat
<1>2. \A e \in Dispatchers, s \in Runs : Steps(e, s, task[e][s].pc)
  <2>1. CASE UNCHANGED task
    BY <2>1 DEF Steps
  <2>2. CASE task' = [task EXCEPT ![d][r].heartbeat = FALSE]
    <3> DEFINE x == [task[d][r] EXCEPT !.heartbeat = FALSE]
    <3>1. task[d][r] \in Task
      BY <1>0 DEF TypeOK
    <3>2. x.pc = task[d][r].pc /\ x.machine = task[d][r].machine /\ x.token = task[d][r].token
          /\ x.revision = task[d][r].revision
      BY <3>1 DEF Task
    <3>3. task' = [task EXCEPT ![d][r] = x]
      BY <2>2
    <3> HIDE DEF x
    <3>4. task'[d][r] = x /\ OthersKept(d, r)
      BY <1>0, <3>3, PutSteps
    <3> QED
      BY <3>2, <3>4 DEF OthersKept, Steps
  <2> QED
    BY <2>1, <2>2 DEF Heartbeat
<1> QED
  BY <1>0, <1>1, <1>2, QuietKeeps

LEMMA CrashKeeps ==
  ASSUME FenceInv, TypeOK', NEW d \in Dispatchers, Crash(d)
  PROVE  FenceInv'
<1>0. TypeOK /\ UNCHANGED <<lease, records>> /\ Enter(d, "down")
      /\ task' = [task EXCEPT ![d] = [r \in Runs |-> Idle]] /\ claims' = [claims EXCEPT ![d] = {}]
  BY DEF FenceInv, Crash
<1>1. \A e \in Dispatchers : e # d => phase'[e] = phase[e] /\ task'[e] = task[e] /\ claims'[e] = claims[e]
  BY <1>0 DEF TypeOK, Enter
<1>2. claims'[d] = {} /\ \A r \in Runs : task'[d][r] = Idle
  BY <1>0 DEF TypeOK
<1>3. \A e \in Dispatchers, s \in Runs : At(e, s, "idle")' \/ (task'[e][s] = task[e][s] /\ phase'[e] = phase[e])
  BY <1>1, <1>2 DEF At, Idle
<1>4. OwnClaims'
  BY <1>1, <1>2, MineIsFixed DEF FenceInv, OwnClaims
<1> QED
  BY <1>0, <1>3, <1>4, ThreadsEnd

\* An operator, a monitor or the machine changes the records of one run.
LEMMA RecordStep ==
  ASSUME FenceInv, TypeOK', NEW r \in Runs, UNCHANGED <<lease, phase, claims, task>>, RecordsKept(r), RecordInv(r)',
         \A d \in Dispatchers :
           Recovering(d, r)' /\ Planning(d, r)' /\ Working(d, r)' /\ Ending(d, r)' /\ FailsClean(d, r)'
  PROVE  FenceInv'
<1>1. LeasesKept(r) /\ DispatchLeases'
  BY UnchangedLeases, SameLeasesKept DEF FenceInv
<1>2. ASSUME NEW s \in Runs, s # r PROVE RecordInv(s)'
  BY <1>2, RecordKept DEF FenceInv, RecordsKept, RecordInv, Owns
<1>3. ASSUME NEW e \in Dispatchers, NEW s \in Runs PROVE ThreadInv(e, s)'
  <2>1. CASE s = r
    <3>1. Placed(e, r)'
      BY MineIsFixed DEF FenceInv, ThreadInv, Placed, At
    <3> QED
      BY <2>1, <3>1 DEF ThreadInv
  <2>2. CASE s # r
    BY <1>1, <2>2, OtherRunKept
  <2> QED
    BY <2>1, <2>2
<1>4. OneRecovery' /\ OwnClaims'
  BY SameClaims DEF FenceInv, OneRecovery
<1>5. \A s \in Runs : RecordInv(s)'
  BY <1>2
<1> QED
  BY <1>1, <1>3, <1>4, <1>5 DEF FenceInv

\* An edit, or a placement update announced or given up.
LEMMA TouchKeeps ==
  ASSUME FenceInv, TypeOK', NEW r \in Runs, NEW update, Touch(r, update),
         UNCHANGED <<lease, exec, site, remote, boots, phase, claims, task>>
  PROVE  FenceInv'
<1>0. TypeOK /\ RecordInv(r) /\ queue[r].revision \in Nat
  BY DEF FenceInv, TypeOK
<1>1. /\ queue'[r].status = queue[r].status /\ queue'[r].revision = queue[r].revision + 1
      /\ RecordsKept(r)
  BY <1>0, TouchSteps DEF RecordsKept
<1>2. RecordInv(r)'
  BY <1>0, <1>1 DEF RecordInv, Owns
<1>3. ASSUME NEW d \in Dispatchers
      PROVE  Recovering(d, r)' /\ Planning(d, r)' /\ Working(d, r)' /\ Ending(d, r)' /\ FailsClean(d, r)'
  <2>1. ThreadInv(d, r) /\ task[d][r].revision \in Nat
    BY <1>0 DEF FenceInv, TypeOK, Task
  <2>2. Planning(d, r)'
    BY <1>0, <1>1, <2>1 DEF ThreadInv, Planning, Held, Holds
  <2>3. Recovering(d, r)' /\ Working(d, r)' /\ Ending(d, r)' /\ FailsClean(d, r)'
    BY <1>1, <2>1 DEF ThreadInv, Recovering, Working, Ending, FailsClean, Held, Holds, At
  <2> QED
    BY <2>2, <2>3
<1> QED
  BY <1>1, <1>2, <1>3, RecordStep

\* Submission, and the stop of a queued job: the run has no execution record yet.
LEMMA QueueTurnKeeps ==
  ASSUME FenceInv, TypeOK', NEW r \in Runs, Submit(r) \/ StopQueued(r)
  PROVE  FenceInv'
<1>0. TypeOK /\ RecordInv(r) /\ queue[r].revision \in Nat
  BY DEF FenceInv, TypeOK
<1>1. UNCHANGED <<lease, exec, site, remote, boots, phase, claims, task>> /\ queue[r].status \in {"unborn", "queued"}
  BY DEF Submit, StopQueued
<1>2. /\ RecordsKept(r)
      /\ \/ queue[r].status = "unborn" /\ queue'[r].status = "queued"
         \/ queue[r].status = "queued" /\ queue'[r].status = "stopped" /\ queue'[r].revision = queue[r].revision + 1
  <2>1. CASE Submit(r)
    BY <1>0, <1>1, <2>1 DEF Submit, RecordsKept, TypeOK
  <2>2. CASE StopQueued(r)
    BY <1>0, <1>1, <2>2, SetQueueSteps DEF StopQueued, RecordsKept
  <2> QED
    BY <2>1, <2>2
<1>3. exec[r] = "none" /\ remote[r] = "absent" /\ boots[r] = 0
  BY <1>0, <1>1 DEF RecordInv
<1>4. RecordInv(r)'
  BY <1>0, <1>1, <1>2, <1>3 DEF RecordInv
<1>5. ASSUME NEW d \in Dispatchers
      PROVE  Recovering(d, r)' /\ Planning(d, r)' /\ Working(d, r)' /\ Ending(d, r)' /\ FailsClean(d, r)'
  <2>1. ThreadInv(d, r) /\ task[d][r].revision \in Nat
    BY <1>0 DEF FenceInv, TypeOK, Task
  <2>2. task[d][r].pc \notin WorkPcs \cup ReconcilePcs
    BY <1>1, <2>1 DEF ThreadInv, Working, Recovering
  <2>3. Planning(d, r)'
    BY <1>0, <1>1, <1>2, <1>3, <2>1 DEF ThreadInv, Planning, Held, Holds, PlanPcs
  <2> QED
    BY <1>1, <1>3, <2>2, <2>3 DEF Recovering, Working, Ending, FailsClean, At, WorkPcs, RemoteOutstanding
<1> QED
  BY <1>1, <1>2, <1>4, <1>5, RecordStep

\* An operator stops a registered or running run: no thread is at work on it.
LEMMA StopExecutionKeeps ==
  ASSUME FenceInv, TypeOK', NEW r \in Runs, StopExecution(r)
  PROVE  FenceInv'
<1>0. /\ TypeOK /\ RecordInv(r) /\ UNCHANGED <<lease, queue, site, boots, phase, claims, task>>
      /\ queue[r].status \notin {"queued", "dispatching"} /\ exec[r] \in {"registered", "running"}
  BY DEF FenceInv, StopExecution
<1>1. RecordsKept(r) /\ exec'[r] \in ExecTerminal
  <2>1. StopOutcomes(r)[2] \in ExecTerminal
    BY <1>0 DEF StopOutcomes, TypeOK, RemoteStates, RemoteAlive, RemoteOutstanding, ExecTerminal
  <2>2. /\ exec'[r] = StopOutcomes(r)[2]
        /\ \A s \in Runs : s # r => exec'[s] = exec[s] /\ remote'[s] = remote[s]
    BY <1>0 DEF StopExecution, TypeOK
  <2> QED
    BY <1>0, <2>1, <2>2 DEF RecordsKept
<1>2. RecordInv(r)'
  BY <1>0, <1>1 DEF RecordInv, ExecTerminal
<1>3. ASSUME NEW d \in Dispatchers
      PROVE  Recovering(d, r)' /\ Planning(d, r)' /\ Working(d, r)' /\ Ending(d, r)' /\ FailsClean(d, r)'
  <2>1. task[d][r].pc \notin WorkPcs \cup ReconcilePcs \cup PlanPcs
    BY <1>0 DEF FenceInv, ThreadInv, Working, Recovering, Planning
  <2> QED
    BY <1>0, <1>1, <2>1
       DEF Recovering, Planning, Working, Ending, FailsClean, At, PlanPcs, WorkPcs, ExecTerminal
<1> QED
  BY <1>0, <1>1, <1>2, <1>3, RecordStep

\* Monitoring records what the machine reports, never while a bootstrap is waited for.
LEMMA MonitorKeeps ==
  ASSUME FenceInv, TypeOK', NEW r \in Runs, Monitor(r)
  PROVE  FenceInv'
<1>0. /\ TypeOK /\ RecordInv(r) /\ UNCHANGED <<lease, queue, site, remote, boots, phase, claims, task>>
      /\ exec[r] \in {"registered", "running"} /\ ~RunLocked(r)
      /\ remote[r] \in {"running"} \cup ExecTerminal
  BY DEF FenceInv, Monitor
<1>1. RecordsKept(r) /\ exec'[r] \in {"running"} \cup ExecTerminal
  BY <1>0 DEF Monitor, TypeOK, RecordsKept
<1>2. RecordInv(r)'
  BY <1>0, <1>1 DEF RecordInv, ExecTerminal
<1>3. ASSUME NEW d \in Dispatchers
      PROVE  Recovering(d, r)' /\ Planning(d, r)' /\ Working(d, r)' /\ Ending(d, r)' /\ FailsClean(d, r)'
  <2>1. ThreadInv(d, r) /\ task[d][r].pc # "launching"
    BY <1>0 DEF FenceInv, RunLocked
  <2>2. task[d][r].pc \notin PlanPcs \cup {"marked", "prepared", "registered", "ready"}
    BY <1>0, <2>1 DEF ThreadInv, Planning, Working, ExecTerminal
  <2>3. task[d][r].pc \notin {"norecord", "fenced", "recover"}
    BY <1>0, <2>1 DEF ThreadInv, Recovering, ReconcilePcs
  <2>4. ~FaultyDisk => task[d][r].pc \notin {"failing", "failexec", "failqueue"}
    BY <1>0, <2>1 DEF ThreadInv, FailsClean, At, ExecTerminal
  <2>5. Recovering(d, r)' /\ Planning(d, r)'
    BY <1>0, <2>1, <2>2, <2>3 DEF ThreadInv, Recovering, Planning, ReconcilePcs, PlanPcs
  <2>6. Working(d, r)' /\ Ending(d, r)' /\ FailsClean(d, r)'
    BY <1>0, <1>1, <2>1, <2>2, <2>4 DEF ThreadInv, Working, Ending, FailsClean, Held, Holds, At, ExecTerminal
  <2> QED
    BY <2>5, <2>6
<1> QED
  BY <1>0, <1>1, <1>2, <1>3, RecordStep

\* What the machine does by itself: nothing that was not outstanding becomes so.
LEMMA RemoteStepKeeps ==
  ASSUME FenceInv, TypeOK', NEW r \in Runs, RemoteStep(r)
  PROVE  FenceInv'
<1>0. /\ TypeOK /\ RecordInv(r) /\ UNCHANGED <<lease, queue, exec, site, boots, phase, claims, task>>
      /\ remote[r] \in RemoteAlive
  BY DEF FenceInv, RemoteStep, RemoteAlive, RemoteOutstanding
<1>1. RecordsKept(r) /\ (remote[r] \notin RemoteOutstanding => remote'[r] \notin RemoteOutstanding)
  <2>1. PICK next \in RemoteStates :
          /\ \/ remote[r] = "preflight" /\ next \in {"rejected", "starting"}
             \/ remote[r] = "starting" /\ next \in {"rejected", "running", "dead"}
             \/ remote[r] = "running" /\ next \in Endings \cup {"dead"}
          /\ remote' = [remote EXCEPT ![r] = next]
    BY DEF RemoteStep
  <2>2. remote'[r] = next /\ \A s \in Runs : s # r => remote'[s] = remote[s]
    BY <1>0, <2>1 DEF TypeOK
  <2>3. remote[r] \notin RemoteOutstanding => next \notin RemoteOutstanding
    BY <2>1, DispatchAssumptions DEF RemoteOutstanding
  <2> QED
    BY <1>0, <2>2, <2>3 DEF RecordsKept
<1>2. RecordInv(r)'
  BY <1>0, <1>1 DEF RecordInv, Owns, RemoteAlive, RemoteOutstanding
<1>3. ASSUME NEW d \in Dispatchers
      PROVE  Recovering(d, r)' /\ Planning(d, r)' /\ Working(d, r)' /\ Ending(d, r)' /\ FailsClean(d, r)'
  <2>1. ThreadInv(d, r)
    BY DEF FenceInv
  <2>2. task[d][r].pc \notin {"registered", "ready"} /\ (~FaultyDisk => task[d][r].pc \notin {"failing", "failexec"})
    BY <1>0, <2>1 DEF ThreadInv, Working, FailsClean, RemoteAlive, RemoteOutstanding
  <2>3. Recovering(d, r)' /\ Planning(d, r)'
    BY <1>0, <2>1 DEF ThreadInv, Recovering, Planning, Held, Holds
  <2>4. Working(d, r)' /\ Ending(d, r)' /\ FailsClean(d, r)'
    BY <1>0, <1>1, <2>1, <2>2 DEF ThreadInv, Working, Ending, FailsClean, Held, Holds, At
  <2> QED
    BY <2>3, <2>4
<1> QED
  BY <1>0, <1>1, <1>2, <1>3, RecordStep

LEMMA PurgeQueueKeeps ==
  ASSUME FenceInv, TypeOK', NEW r \in Runs, PurgeQueue(r)
  PROVE  FenceInv'
<1>0. /\ TypeOK /\ RecordInv(r) /\ UNCHANGED <<lease, exec, site, remote, boots, phase, claims, task>>
      /\ queue[r].status \in QueueTerminal
  BY DEF FenceInv, PurgeQueue
<1>1. RecordsKept(r) /\ queue'[r].status = "gone" /\ queue'[r].revision = queue[r].revision
  BY <1>0 DEF PurgeQueue, TypeOK, RecordsKept
<1>2. RecordInv(r)'
  BY <1>0, <1>1 DEF RecordInv, Owns
<1>3. ASSUME NEW d \in Dispatchers
      PROVE  Recovering(d, r)' /\ Planning(d, r)' /\ Working(d, r)' /\ Ending(d, r)' /\ FailsClean(d, r)'
  <2>1. ThreadInv(d, r)
    BY DEF FenceInv
  <2>2. task[d][r].pc \notin WorkPcs \cup ReconcilePcs
    BY <1>0, <2>1 DEF ThreadInv, Working, Recovering, QueueTerminal
  <2>3. Planning(d, r)'
    BY <1>0, <1>1, <2>1 DEF ThreadInv, Planning, QueueTerminal
  <2> QED
    BY <1>0, <2>1, <2>2, <2>3 DEF ThreadInv, Recovering, Working, Ending, FailsClean, At, WorkPcs
<1> QED
  BY <1>0, <1>1, <1>2, <1>3, RecordStep

LEMMA PurgeExecutionKeeps ==
  ASSUME FenceInv, TypeOK', NEW r \in Runs, PurgeExecution(r)
  PROVE  FenceInv'
<1>0. /\ TypeOK /\ RecordInv(r) /\ UNCHANGED <<lease, queue, site, remote, boots, phase, claims, task>>
      /\ queue[r].status = "gone" /\ exec[r] = "stopped"
  BY DEF FenceInv, PurgeExecution
<1>1. RecordsKept(r) /\ exec'[r] = "none"
  BY <1>0 DEF PurgeExecution, TypeOK, RecordsKept
<1>2. RecordInv(r)'
  BY <1>0, <1>1 DEF RecordInv
<1>3. ASSUME NEW d \in Dispatchers
      PROVE  Recovering(d, r)' /\ Planning(d, r)' /\ Working(d, r)' /\ Ending(d, r)' /\ FailsClean(d, r)'
  <2>1. task[d][r].pc \notin WorkPcs \cup ReconcilePcs \cup PlanPcs
    BY <1>0 DEF FenceInv, ThreadInv, Working, Recovering, Planning
  <2> QED
    BY <1>0, <1>1, <2>1 DEF Recovering, Planning, Working, Ending, FailsClean, At, PlanPcs, WorkPcs
<1> QED
  BY <1>0, <1>1, <1>2, <1>3, RecordStep

LEMMA SurroundingsKeep ==
  ASSUME FenceInv, TypeOK', Surroundings
  PROVE  FenceInv'
<1>0. TypeOK /\ DispatchLeases /\ OwnClaims
  BY DEF FenceInv
<1>1. CASE \E r \in Runs : ReserveUpdate(r) \/ Edit(r) \/ ReleaseUpdate(r)
  <2>1. PICK r \in Runs : ReserveUpdate(r) \/ Edit(r) \/ ReleaseUpdate(r)
    BY <1>1
  <2>2. /\ \E update \in BOOLEAN : Touch(r, update)
        /\ UNCHANGED <<lease, exec, site, remote, boots, phase, claims, task>>
    <3>1. queue[r].update \in BOOLEAN
      BY <1>0 DEF TypeOK
    <3> QED
      BY <2>1, <3>1 DEF ReserveUpdate, Edit, ReleaseUpdate
  <2>3. PICK update \in BOOLEAN : Touch(r, update)
    BY <2>2
  <2> QED
    BY <2>2, <2>3, TouchKeeps
<1>2. CASE \E r \in Runs : \/ Submit(r) \/ StopQueued(r) \/ StopExecution(r)
                           \/ Monitor(r) \/ RemoteStep(r) \/ PurgeQueue(r) \/ PurgeExecution(r)
  BY <1>2, QueueTurnKeeps, StopExecutionKeeps, MonitorKeeps, RemoteStepKeeps, PurgeQueueKeeps, PurgeExecutionKeeps
<1>3. CASE \E m \in Machines : ExpireLease(m) \/ Drain(m)
  <2>1. LeasesSame /\ DispatchLeases' /\ UNCHANGED <<records, phase, claims, task>>
    BY <1>0, <1>3, ExpireLeases, UnchangedLeases DEF ExpireLease, Drain
  <2> QED
    BY <2>1, QuietKeeps DEF Steps
<1>4. CASE \E d \in Dispatchers : Crash(d) \/ \E r \in Runs : Heartbeat(d, r)
  BY <1>4, CrashKeeps, HeartbeatKeeps
<1>5. CASE \E d \in Dispatchers : ExitOneShot(d)
  <2>1. PICK d \in Dispatchers : ExitOneShot(d)
    BY <1>5
  <2>2. phase[d] = "sleep" /\ Enter(d, "down") /\ UNCHANGED <<lease, records, task, claims>>
    BY <2>1 DEF ExitOneShot
  <2> QED
    BY <1>0, <2>2, IdleOutsideWork, SameClaims, TurnKeeps
<1> QED
  BY <1>1, <1>2, <1>3, <1>4, <1>5 DEF Surroundings

LEMMA FenceNext ==
  ASSUME FenceInv, OneDispatcherPerProject, [Next]_vars
  PROVE  FenceInv'
<1>0. TypeOK'
  BY NextTyped DEF FenceInv
<1>1. CASE Surroundings
  BY <1>0, <1>1, SurroundingsKeep
<1>2. CASE \E d \in Dispatchers : Cycle(d)
  BY <1>0, <1>2, CycleKeeps
<1>3. CASE \E d \in Dispatchers, r \in Runs : Recovery(d, r)
  BY <1>0, <1>3, RecoveryKeeps
<1>4. CASE \E d \in Dispatchers, r \in Runs : Reservation(d, r)
  BY <1>0, <1>4, ReserveKeeps, MarkKeeps, MarkRaisesKeeps DEF Reservation
<1>5. CASE \E d \in Dispatchers, r \in Runs : Launch(d, r)
  BY <1>0, <1>5, LaunchKeeps
<1>6. CASE UNCHANGED vars
  <2>1. LeasesSame /\ DispatchLeases'
    BY <1>6, UnchangedLeases DEF FenceInv, vars
  <2> QED
    BY <1>0, <1>6, <2>1, QuietKeeps DEF Steps, vars, records
<1> QED
  BY <1>1, <1>2, <1>3, <1>4, <1>5, <1>6 DEF Next, Dispatcher

LEMMA FenceInit == Init => FenceInv
<1>1. SUFFICES ASSUME Init PROVE FenceInv
  OBVIOUS
<1>2. TypeOK
  BY <1>1, InitType
<1>3. \A d \in Dispatchers, r \in Runs : At(d, r, "idle") /\ ThreadInv(d, r)
  <2>1. \A d \in Dispatchers, r \in Runs : At(d, r, "idle")
    BY <1>1 DEF Init, Idle, At
  <2> QED
    BY <2>1, IdleThread
<1>4. \A r \in Runs : RecordInv(r)
  BY <1>1 DEF Init, RecordInv
<1>5. DispatchLeases /\ OwnClaims
  BY <1>1 DEF Init, LeaseInit, DispatchLeases, OwnClaims
<1>6. OneRecovery
  BY <1>3 DEF OneRecovery, At, ReconcilePcs
<1> QED
  BY <1>2, <1>3, <1>4, <1>5, <1>6 DEF FenceInv

LEMMA FenceInvariant == ASSUME OneDispatcherPerProject PROVE Spec => []FenceInv
<1>1. FenceInv /\ [Next]_vars => FenceInv'
  BY FenceNext
<1> QED
  BY <1>1, FenceInit, PTL DEF Spec

(***************************************************************************)
(* The properties.                                                         *)
(***************************************************************************)

\* Once an execution record exists, no recovery, edit or second plan brings its
\* queue entry back to "queued" (recover_dispatching_state looks for the record
\* first, and nobody registers the run between its look and its write).
THEOREM RegisteredHasLeftQueue == ASSUME OneDispatcherPerProject PROVE Spec => []RegisteredLeftQueue
<1>1. FenceInv => RegisteredLeftQueue
  BY DEF FenceInv, RecordInv, RegisteredLeftQueue
<1> QED
  BY <1>1, FenceInvariant, PTL

\* As long as a registered run's bootstrap may bring up a workload nobody has
\* seen, its machine stays leased to it: through timeouts of the launch, deaths
\* of the dispatcher, expiry, the lease reconciliation and the fencing of the
\* recovery.
THEOREM OutstandingStaysFenced == ASSUME OneDispatcherPerProject PROVE Spec => []OutstandingIsFenced
<1>1. FenceInv => OutstandingIsFenced
  BY DEF FenceInv, RecordInv, OutstandingIsFenced
<1> QED
  BY <1>1, FenceInvariant, PTL

\* Without disk faults the queue calls a run failed only when its execution
\* record is not active (_fail_registered_execution comes before the queue entry).
THEOREM FailedIsInactive ==
  ASSUME OneDispatcherPerProject, ~FaultyDisk
  PROVE  Spec => []FailedMeansInactive
<1>1. FenceInv => FailedMeansInactive
  BY DEF FenceInv, RecordInv, FailedMeansInactive
<1> QED
  BY <1>1, FenceInvariant, PTL

\* No run's bootstrap is ever sent twice, also when operators clean up the records
\* of stopped runs: the entry of such a run is gone before its record is.
THEOREM LaunchOnceDespiteCleanup == ASSUME OneDispatcherPerProject PROVE Spec => []LaunchOnce
<1>1. FenceInv => LaunchOnce
  BY DEF FenceInv, RecordInv, LaunchOnce
<1> QED
  BY <1>1, FenceInvariant, PTL

\* A bootstrap is sent only for a dispatching job, to the machine its manifest
\* names, while its run owns that machine's lease.
THEOREM BootstrapIsUnderLease == ASSUME OneDispatcherPerProject PROVE Spec => BootstrapUnderLease
<1> DEFINE Step == \A r \in Runs : boots'[r] # boots[r] => queue[r].status = "dispatching" /\ Owns(r, site[r])
<1>1. ASSUME FenceInv, [Next]_vars PROVE Step
  <2>1. SUFFICES ASSUME NEW r \in Runs, boots'[r] # boots[r]
                 PROVE  queue[r].status = "dispatching" /\ Owns(r, site[r])
    OBVIOUS
  <2>2. TaskTypeOK /\ OtherTypesOK
    BY <1>1, TypeParts DEF FenceInv
  <2>3. \E d \in Dispatchers : Sends(d, r)
    BY <1>1, <2>1, <2>2, NextKinds
       DEF FenceInv, Loud, Quiet, Registers, Readies, Sends, Succeeds, Fails, Records, Purges, OtherTypesOK
  <2>4. PICK d \in Dispatchers : At(d, r, "ready") /\ ThreadInv(d, r)
    BY <1>1, <2>3 DEF Sends, FenceInv
  <2> QED
    BY <2>4 DEF ThreadInv, Working, At, WorkPcs, Held, Holds, Owns
<1>2. FenceInv /\ [Next]_vars => [Step]_vars
  BY <1>1
<1> QED
  BY <1>2, FenceInvariant, PTL DEF Spec, BootstrapUnderLease

(***************************************************************************)
(* Sums over sets.  The library's induction theorems take an operator; the *)
(* induction below is over a set of numbers instead.                       *)
(***************************************************************************)
LEMMA LeastNumber ==
  ASSUME NEW T, T \subseteq Nat, T # {}
  PROVE  \E x \in T : \A y \in T : x <= y
<1> DEFINE R == OpToRel(<, Nat)
<1>1. IsWellFoundedOn(R, Nat)
  BY NatLessThanWellFounded
<1>2. \A x, y \in Nat : <<x, y>> \in R <=> x < y
  BY DEF OpToRel
<1> HIDE DEF R
<1>3. PICK x \in T : \A y \in T : ~(<<y, x>> \in R)
  BY <1>1, WFMin
<1>4. ASSUME NEW y \in T PROVE x <= y
  <2>1. x \in Nat /\ y \in Nat
    OBVIOUS
  <2>2. ~(y < x)
    BY <1>2, <1>3, <2>1
  <2> QED
    BY <2>1, <2>2
<1> QED
  BY <1>4

LEMMA Induction ==
  ASSUME NEW T, 0 \in T, \A n \in Nat : n \in T => n + 1 \in T
  PROVE  Nat \subseteq T
<1>1. SUFFICES ASSUME Nat \ T # {} PROVE FALSE
  OBVIOUS
<1>2. PICK x \in Nat \ T : \A y \in Nat \ T : x <= y
  BY <1>1, LeastNumber
<1>3. x - 1 \in Nat /\ x - 1 \in T
  BY <1>2
<1> QED
  BY <1>2, <1>3

\* The cores that the runs of S ask for on machine m.
Load(m, S) == MapThenSumSet(LAMBDA v : Requested(v, m), S)

Some(s) == CHOOSE x \in s : TRUE

\* The recursive function that the sum over S is a value of.
Sums(m, S) ==
  CHOOSE iter : iter = [s \in SUBSET S |-> IF s = {} THEN 0 ELSE Requested(Some(s), m) + iter[s \ {Some(s)}]]

LEMMA LoadForm == ASSUME NEW m, NEW S PROVE Load(m, S) = Sums(m, S)[S]
BY DEF Load, MapThenSumSet, MapThenFoldSet, Sums, Some

\* The recursive function has a value, whatever the set.
LEMMA SumsExist ==
  ASSUME NEW m \in Machines, NEW S \in SUBSET Runs, IsFiniteSet(S)
  PROVE  Sums(m, S) = [s \in SUBSET S |-> IF s = {} THEN 0 ELSE Requested(Some(s), m) + Sums(m, S)[s \ {Some(s)}]]
<1> DEFINE After(g) == [s \in SUBSET S |-> IF s = {} THEN 0 ELSE Requested(Some(s), m) + g[s \ {Some(s)}]]
           Upto(n) == \E g \in [SUBSET S -> Nat] : \A s \in SUBSET S : Cardinality(s) <= n => g[s] = After(g)[s]
           T == {n \in Nat : Upto(n)}
<1>1. ASSUME NEW s \in SUBSET S, s # {} 
      PROVE  /\ Some(s) \in s /\ Requested(Some(s), m) \in Nat /\ s \ {Some(s)} \in SUBSET S
             /\ Cardinality(s) \in Nat /\ Cardinality(s \ {Some(s)}) = Cardinality(s) - 1
  <2>1. Some(s) \in s
    BY <1>1 DEF Some
  <2>2. IsFiniteSet(s)
    BY FS_Subset
  <2>3. Cardinality(s) \in Nat /\ Cardinality(s \ {Some(s)}) = Cardinality(s) - 1
    BY <2>1, <2>2, FS_RemoveElement, FS_CardinalityType
  <2>4. Requested(Some(s), m) \in Nat
    BY <2>1, DispatchAssumptions DEF Requested
  <2> QED
    BY <2>1, <2>3, <2>4
<1>2. ASSUME NEW g \in [SUBSET S -> Nat] PROVE After(g) \in [SUBSET S -> Nat]
  <2>1. ASSUME NEW s \in SUBSET S
        PROVE  (IF s = {} THEN 0 ELSE Requested(Some(s), m) + g[s \ {Some(s)}]) \in Nat
    <3>1. CASE s = {}
      BY <3>1
    <3>2. CASE s # {}
      <4>1. g[s \ {Some(s)}] \in Nat
        BY <1>1, <3>2
      <4>2. Requested(Some(s), m) \in Nat
        BY <1>1, <3>2
      <4>3. \A a, b \in Nat : a + b \in Nat
        OBVIOUS
      <4> QED
        BY <3>2, <4>1, <4>2, <4>3
    <3> QED
      BY <3>1, <3>2
  <2> QED
    BY <2>1
<1>3. 0 \in T
  <2> DEFINE g == [s \in SUBSET S |-> 0]
  <2>1. ASSUME NEW s \in SUBSET S, Cardinality(s) <= 0 PROVE s = {}
    BY <1>1, <2>1, FS_Subset, FS_EmptySet, FS_CardinalityType
  <2>2. g \in [SUBSET S -> Nat]
    OBVIOUS
  <2>3. \A s \in SUBSET S : Cardinality(s) <= 0 => g[s] = After(g)[s]
    BY <2>1
  <2> QED
    BY <2>2, <2>3
<1>4. ASSUME NEW n \in Nat, n \in T PROVE n + 1 \in T
  <2>1. PICK g \in [SUBSET S -> Nat] : \A s \in SUBSET S : Cardinality(s) <= n => g[s] = After(g)[s]
    BY <1>4
  <2> DEFINE h == After(g)
  <2>2. h \in [SUBSET S -> Nat]
    BY <1>2
  <2>3. ASSUME NEW s \in SUBSET S, Cardinality(s) <= n + 1 PROVE h[s] = After(h)[s]
    <3>1. CASE s = {}
      BY <3>1
    <3>2. CASE s # {}
      <4>1. Cardinality(s \ {Some(s)}) <= n
        BY <1>1, <2>3, <3>2
      <4>2. g[s \ {Some(s)}] = h[s \ {Some(s)}]
        BY <2>1, <4>1
      <4> QED
        BY <3>2, <4>2
    <3> QED
      BY <3>1, <3>2
  <2> HIDE DEF h, After
  <2>4. Upto(n + 1)
    BY <2>2, <2>3
  <2> QED
    BY <2>4
<1>5. Cardinality(S) \in T
  <2> HIDE DEF T
  <2>1. Nat \subseteq T
    BY <1>3, <1>4, Induction
  <2> QED
    BY <2>1, FS_CardinalityType
<1>6. PICK g \in [SUBSET S -> Nat] : \A s \in SUBSET S : Cardinality(s) <= Cardinality(S) => g[s] = After(g)[s]
  BY <1>5
<1>7. \A s \in SUBSET S : g[s] = After(g)[s]
  BY <1>6, FS_Subset
<1>8. g = After(g)
  BY <1>7
<1> QED
  BY <1>8 DEF Sums

LEMMA SmallerSet ==
  ASSUME IsFiniteSet(Runs), NEW S \in SUBSET Runs, NEW x \in S
  PROVE  /\ Cardinality(S) \in Nat /\ Cardinality(S \ {x}) = Cardinality(S) - 1
         /\ S \ {x} \in SUBSET Runs
<1>1. IsFiniteSet(S)
  BY FS_Subset
<1> QED
  BY <1>1, FS_RemoveElement, FS_CardinalityType

LEMMA SumsForm ==
  ASSUME IsFiniteSet(Runs), NEW m \in Machines, NEW S \in SUBSET Runs, NEW U \in SUBSET S
  PROVE  /\ U = {} => Sums(m, S)[U] = 0
         /\ U # {} => Sums(m, S)[U] = Requested(Some(U), m) + Sums(m, S)[U \ {Some(U)}]
<1>1. IsFiniteSet(S)
  BY FS_Subset
<1>2. Sums(m, S) = [s \in SUBSET S |-> IF s = {} THEN 0 ELSE Requested(Some(s), m) + Sums(m, S)[s \ {Some(s)}]]
  BY <1>1, SumsExist
<1> HIDE DEF Sums
<1> QED
  BY <1>2

\* A sum over a part does not depend on the whole it is computed in.
LEMMA SumsAgree ==
  ASSUME IsFiniteSet(Runs), NEW m \in Machines
  PROVE  \A S \in SUBSET Runs : \A U \in SUBSET S : Sums(m, S)[U] = Load(m, U)
<1> DEFINE Agree(n) == \A S \in SUBSET Runs : \A U \in SUBSET S : Cardinality(U) <= n => Sums(m, S)[U] = Load(m, U)
           T == {n \in Nat : Agree(n)}
<1>1. ASSUME NEW S \in SUBSET Runs, NEW U \in SUBSET S, U = {} PROVE Sums(m, S)[U] = Load(m, U)
  <2>1. Sums(m, S)[U] = 0
    BY <1>1, SumsForm
  <2>2. Sums(m, U)[U] = 0
    BY <1>1, SumsForm
  <2> QED
    BY <2>1, <2>2, LoadForm
<1>2. 0 \in T
  <2>1. ASSUME NEW S \in SUBSET Runs, NEW U \in SUBSET S, Cardinality(U) <= 0 PROVE U = {}
    BY <2>1, FS_Subset, FS_EmptySet, FS_CardinalityType
  <2> QED
    BY <1>1, <2>1
<1>3. ASSUME NEW n \in Nat, n \in T PROVE n + 1 \in T
  <2>1. ASSUME NEW S \in SUBSET Runs, NEW U \in SUBSET S, Cardinality(U) <= n + 1, U # {}
        PROVE  Sums(m, S)[U] = Load(m, U)
    <3> DEFINE V == U \ {Some(U)}
    <3>1. Some(U) \in U
      BY <2>1 DEF Some
    <3>2. Cardinality(V) <= n /\ V \in SUBSET U /\ V \in SUBSET S /\ U \in SUBSET Runs
      BY <2>1, <3>1, SmallerSet
    <3> HIDE DEF V
    <3>3. Sums(m, S)[V] = Load(m, V) /\ Sums(m, U)[V] = Load(m, V)
      BY <1>3, <3>2
    <3>4. Sums(m, S)[U] = Requested(Some(U), m) + Sums(m, S)[V]
      BY <2>1, SumsForm DEF V
    <3>5. Sums(m, U)[U] = Requested(Some(U), m) + Sums(m, U)[V]
      BY <2>1, <3>2, SumsForm DEF V
    <3> QED
      BY <3>3, <3>4, <3>5, LoadForm
  <2>2. Agree(n + 1)
    BY <1>1, <2>1
  <2> QED
    BY <2>2
<1>4. Nat \subseteq T
  <2> HIDE DEF T
  <2> QED
    BY <1>2, <1>3, Induction
<1>5. ASSUME NEW S \in SUBSET Runs, NEW U \in SUBSET S PROVE Sums(m, S)[U] = Load(m, U)
  <2>1. Cardinality(U) \in Nat
    BY FS_Subset, FS_CardinalityType
  <2>2. Agree(Cardinality(U))
    BY <1>4, <2>1
  <2> QED
    BY <2>1, <2>2
<1> QED
  BY <1>5

LEMMA LoadSteps ==
  ASSUME IsFiniteSet(Runs), NEW m \in Machines, NEW S \in SUBSET Runs
  PROVE  /\ S = {} => Load(m, S) = 0
         /\ S # {} => /\ Some(S) \in S
                      /\ Load(m, S) = Requested(Some(S), m) + Load(m, S \ {Some(S)})
<1>1. Load(m, S) = Sums(m, S)[S]
  BY LoadForm
<1>2. S # {} => Some(S) \in S
  BY DEF Some
<1>3. Sums(m, S)[S \ {Some(S)}] = Load(m, S \ {Some(S)})
  BY SumsAgree
<1> QED
  BY <1>1, <1>2, <1>3, SumsForm

\* The order in which a sum is taken does not matter.
LEMMA LoadWithout ==
  ASSUME IsFiniteSet(Runs), NEW m \in Machines
  PROVE  \A S \in SUBSET Runs : \A y \in S : Load(m, S) = Requested(y, m) + Load(m, S \ {y})
<1> DEFINE Sorted(n) == \A S \in SUBSET Runs : Cardinality(S) <= n =>
                          /\ Load(m, S) \in Nat
                          /\ \A y \in S : Load(m, S) = Requested(y, m) + Load(m, S \ {y})
           T == {n \in Nat : Sorted(n)}
<1>0. \A x \in Runs : Requested(x, m) \in Nat
  BY DispatchAssumptions DEF Requested
<1>1. 0 \in T
  <2>1. ASSUME NEW S \in SUBSET Runs, Cardinality(S) <= 0 PROVE S = {}
    BY <2>1, FS_Subset, FS_EmptySet, FS_CardinalityType
  <2>2. Load(m, {}) = 0
    BY LoadSteps
  <2> QED
    BY <2>1, <2>2
<1>2. ASSUME NEW n \in Nat, n \in T PROVE n + 1 \in T
  <2>1. ASSUME NEW S \in SUBSET Runs, Cardinality(S) <= n + 1, S # {}
        PROVE  /\ Load(m, S) \in Nat
               /\ \A y \in S : Load(m, S) = Requested(y, m) + Load(m, S \ {y})
    <3>1. PICK x \in S : Load(m, S) = Requested(x, m) + Load(m, S \ {x})
      BY <2>1, LoadSteps
    <3>2. ASSUME NEW y \in S PROVE Cardinality(S \ {y}) <= n /\ S \ {y} \in SUBSET Runs
      BY <2>1, SmallerSet
    <3>3. ASSUME NEW y \in S PROVE Load(m, S \ {y}) \in Nat
      BY <1>2, <3>2
    <3>4. ASSUME NEW y \in S, y # x PROVE Load(m, S) = Requested(y, m) + Load(m, S \ {y})
      <4>1. Load(m, S \ {x}) = Requested(y, m) + Load(m, (S \ {x}) \ {y})
        BY <1>2, <3>2, <3>4
      <4>2. Load(m, S \ {y}) = Requested(x, m) + Load(m, (S \ {y}) \ {x})
        BY <1>2, <3>2, <3>4
      <4>3. (S \ {x}) \ {y} = (S \ {y}) \ {x}
        OBVIOUS
      <4>4. (S \ {x}) \ {y} \in SUBSET Runs /\ Cardinality((S \ {x}) \ {y}) <= n
        <5>1. y \in S \ {x} /\ S \ {x} \in SUBSET Runs /\ Cardinality(S \ {x}) <= n
          BY <3>2, <3>4
        <5> QED
          BY <5>1, SmallerSet
      <4>5. Load(m, (S \ {x}) \ {y}) \in Nat
        BY <1>2, <4>4
      <4> QED
        BY <1>0, <3>1, <4>1, <4>2, <4>3, <4>5
    <3> QED
      BY <1>0, <3>1, <3>3, <3>4
  <2>2. Load(m, {}) = 0
    BY LoadSteps
  <2>3. Sorted(n + 1)
    BY <2>1, <2>2
  <2> QED
    BY <2>3
<1>3. Nat \subseteq T
  <2> HIDE DEF T
  <2> QED
    BY <1>1, <1>2, Induction
<1>4. ASSUME NEW S \in SUBSET Runs, NEW y \in S PROVE Load(m, S) = Requested(y, m) + Load(m, S \ {y})
  <2>1. Cardinality(S) \in Nat
    BY SmallerSet
  <2>2. Sorted(Cardinality(S))
    BY <1>3, <2>1
  <2> QED
    BY <2>1, <2>2
<1> QED
  BY <1>4

\* A part asks for no more cores than the whole.
LEMMA LoadMonotone ==
  ASSUME IsFiniteSet(Runs), NEW m \in Machines
  PROVE  \A S \in SUBSET Runs : Load(m, S) \in Nat /\ \A U \in SUBSET S : Load(m, U) <= Load(m, S)
<1> DEFINE Grows(n) == \A S \in SUBSET Runs : Cardinality(S) <= n =>
                         Load(m, S) \in Nat /\ \A U \in SUBSET S : Load(m, U) <= Load(m, S)
           T == {n \in Nat : Grows(n)}
<1>0. \A x \in Runs : Requested(x, m) \in Nat
  BY DispatchAssumptions DEF Requested
<1>1. Load(m, {}) = 0
  BY LoadSteps
<1>2. 0 \in T
  <2>1. ASSUME NEW S \in SUBSET Runs, Cardinality(S) <= 0 PROVE S = {}
    BY <2>1, FS_Subset, FS_EmptySet, FS_CardinalityType
  <2> QED
    BY <1>1, <2>1
<1>3. ASSUME NEW n \in Nat, n \in T PROVE n + 1 \in T
  <2>1. ASSUME NEW S \in SUBSET Runs, Cardinality(S) <= n + 1, NEW y \in S
        PROVE  Load(m, S) \in Nat /\ \A U \in SUBSET (S \ {y}) : Load(m, U) <= Load(m, S)
    <3>1. Cardinality(S \ {y}) <= n /\ S \ {y} \in SUBSET Runs
      BY <2>1, SmallerSet
    <3>2. Load(m, S) = Requested(y, m) + Load(m, S \ {y})
      BY LoadWithout
    <3>3. /\ Load(m, S \ {y}) \in Nat
          /\ \A U \in SUBSET (S \ {y}) : Load(m, U) \in Nat /\ Load(m, U) <= Load(m, S \ {y})
      <4>1. Load(m, S \ {y}) \in Nat /\ \A U \in SUBSET (S \ {y}) : Load(m, U) <= Load(m, S \ {y})
        BY <1>3, <3>1
      <4>2. ASSUME NEW U \in SUBSET (S \ {y}) PROVE Load(m, U) \in Nat
        <5>1. IsFiniteSet(S \ {y})
          BY <3>1, FS_Subset
        <5>2. Cardinality(U) \in Nat /\ Cardinality(S \ {y}) \in Nat /\ Cardinality(U) <= Cardinality(S \ {y})
          BY <5>1, FS_Subset, FS_CardinalityType
        <5>3. Cardinality(U) <= n /\ U \in SUBSET Runs
          BY <3>1, <5>2
        <5> QED
          BY <1>3, <5>3
      <4> QED
        BY <4>1, <4>2
    <3>4. Requested(y, m) \in Nat /\ \A a, b, c \in Nat : a + b \in Nat /\ (c <= b => c <= a + b)
      BY <1>0
    <3>5. Load(m, S) \in Nat
      BY <3>2, <3>3, <3>4
    <3>6. ASSUME NEW U \in SUBSET (S \ {y}) PROVE Load(m, U) <= Load(m, S)
      BY <3>2, <3>3, <3>4
    <3> QED
      BY <3>5, <3>6
  <2>2. ASSUME NEW S \in SUBSET Runs, Cardinality(S) <= n + 1
        PROVE  Load(m, S) \in Nat /\ \A U \in SUBSET S : Load(m, U) <= Load(m, S)
    <3>1. CASE S = {}
      BY <1>1, <3>1
    <3>2. CASE S # {}
      <4>1. Load(m, S) \in Nat
        BY <2>1, <2>2, <3>2
      <4>2. ASSUME NEW U \in SUBSET S, U # S PROVE Load(m, U) <= Load(m, S)
        <5>1. PICK y \in S : y \notin U
          BY <4>2
        <5>2. U \in SUBSET (S \ {y})
          BY <5>1
        <5> QED
          BY <2>1, <2>2, <5>2
      <4>3. Load(m, S) <= Load(m, S)
        BY <4>1
      <4> QED
        BY <4>1, <4>2, <4>3
    <3> QED
      BY <3>1, <3>2
  <2>3. Grows(n + 1)
    BY <2>2
  <2> QED
    BY <2>3
<1>4. Nat \subseteq T
  <2> HIDE DEF T
  <2> QED
    BY <1>2, <1>3, Induction
<1>5. ASSUME NEW S \in SUBSET Runs
      PROVE  Load(m, S) \in Nat /\ \A U \in SUBSET S : Load(m, U) <= Load(m, S)
  <2>1. Cardinality(S) \in Nat
    BY FS_Subset, FS_CardinalityType
  <2>2. Grows(Cardinality(S))
    BY <1>4, <2>1
  <2> QED
    BY <2>1, <2>2
<1> QED
  BY <1>5

(***************************************************************************)
(* Packing runs on a machine.                                              *)
(***************************************************************************)
Lane(S, class) == {v \in S : Class[v] = class}

\* The runs of S fit on machine m together, and r fits beside them.
Packed(m, S) ==
  /\ Load(m, S) <= Configured[m]
  /\ \A class \in {"standard", "test"} : Cardinality(Lane(S, class)) <= Slots[m][class]

Fits(r, m, S) ==
  /\ Cardinality(Lane(S, Class[r])) < Slots[m][Class[r]]
  /\ Load(m, S) + Requested(r, m) <= Configured[m]

LEMMA PackingNumbers ==
  ASSUME IsFiniteSet(Runs), NEW m \in Machines, NEW S \in SUBSET Runs
  PROVE  /\ Load(m, S) \in Nat /\ Configured[m] \in Nat
         /\ \A r \in Runs : Requested(r, m) \in Nat /\ Class[r] \in {"standard", "test"}
         /\ \A class \in {"standard", "test"} : Cardinality(Lane(S, class)) \in Nat /\ Slots[m][class] \in Nat
<1>1. ASSUME NEW class \in {"standard", "test"}
      PROVE  Cardinality(Lane(S, class)) \in Nat /\ Slots[m][class] \in Nat
  <2>1. Lane(S, class) \in SUBSET Runs
    BY DEF Lane
  <2>2. Cardinality(Lane(S, class)) \in Nat
    BY <2>1, FS_Subset, FS_CardinalityType
  <2>3. Slots[m][class] \in Nat
    BY DispatchAssumptions
  <2> QED
    BY <2>2, <2>3
<1> QED
  BY <1>1, LoadMonotone, DispatchAssumptions DEF Requested

LEMMA LaneMonotone ==
  ASSUME IsFiniteSet(Runs), NEW S \in SUBSET Runs, NEW U \in SUBSET S, NEW class
  PROVE  Cardinality(Lane(U, class)) <= Cardinality(Lane(S, class))
<1>1. IsFiniteSet(Lane(S, class))
  BY FS_Subset DEF Lane
<1>2. Lane(U, class) \in SUBSET Lane(S, class)
  BY DEF Lane
<1> QED
  BY <1>1, <1>2, FS_Subset

\* With fewer runs there is at least as much room.
LEMMA LessIsPacked ==
  ASSUME IsFiniteSet(Runs), NEW m \in Machines, NEW S \in SUBSET Runs, NEW U \in SUBSET S, Packed(m, S)
  PROVE  Packed(m, U)
<1>1. Load(m, U) <= Load(m, S) /\ U \in SUBSET Runs
  BY LoadMonotone
<1>2. Load(m, U) <= Configured[m]
  BY <1>1, PackingNumbers DEF Packed
<1>3. ASSUME NEW class \in {"standard", "test"} PROVE Cardinality(Lane(U, class)) <= Slots[m][class]
  BY <1>1, LaneMonotone, PackingNumbers DEF Packed
<1> QED
  BY <1>2, <1>3 DEF Packed

LEMMA LessLeavesRoom ==
  ASSUME IsFiniteSet(Runs), NEW m \in Machines, NEW r \in Runs,
         NEW S \in SUBSET Runs, NEW U \in SUBSET S, Fits(r, m, S)
  PROVE  Fits(r, m, U)
<1>1. Load(m, U) <= Load(m, S) /\ U \in SUBSET Runs
  BY LoadMonotone
<1>2. Load(m, U) + Requested(r, m) <= Configured[m]
  BY <1>1, PackingNumbers DEF Fits
<1>3. Cardinality(Lane(U, Class[r])) < Slots[m][Class[r]]
  BY <1>1, LaneMonotone, PackingNumbers DEF Fits
<1> QED
  BY <1>2, <1>3 DEF Fits

\* A run that fits may be added.
LEMMA AddIsPacked ==
  ASSUME IsFiniteSet(Runs), NEW m \in Machines, NEW S \in SUBSET Runs, NEW r \in Runs \ S,
         Packed(m, S), Fits(r, m, S)
  PROVE  Packed(m, S \cup {r})
<1>1. Load(m, S \cup {r}) <= Configured[m]
  <2>1. (S \cup {r}) \ {r} = S /\ S \cup {r} \in SUBSET Runs /\ r \in S \cup {r}
    OBVIOUS
  <2>2. Load(m, S \cup {r}) = Requested(r, m) + Load(m, S)
    BY <2>1, LoadWithout
  <2> QED
    BY <2>2, PackingNumbers DEF Fits
<1>2. ASSUME NEW class \in {"standard", "test"}
      PROVE  Cardinality(Lane(S \cup {r}, class)) <= Slots[m][class]
  <2>1. CASE class # Class[r]
    <3>1. Lane(S \cup {r}, class) = Lane(S, class)
      BY <2>1 DEF Lane
    <3> QED
      BY <3>1 DEF Packed
  <2>2. CASE class = Class[r]
    <3>1. Lane(S \cup {r}, class) = Lane(S, class) \cup {r} /\ r \notin Lane(S, class)
      BY <2>2 DEF Lane
    <3>2. IsFiniteSet(Lane(S, class))
      BY FS_Subset DEF Lane
    <3>3. Cardinality(Lane(S \cup {r}, class)) = Cardinality(Lane(S, class)) + 1
      BY <3>1, <3>2, FS_AddElement
    <3>4. Cardinality(Lane(S, class)) < Slots[m][class]
      BY <2>2 DEF Fits
    <3> QED
      BY <3>3, <3>4, PackingNumbers
  <2> QED
    BY <2>1, <2>2
<1> QED
  BY <1>1, <1>2 DEF Packed

LEMMA CapacityForm ==
  /\ \A r, m : HasCapacity(r, m) <=> Fits(r, m, Visible(m))
  /\ NoOvercommit <=> \A m \in Machines : Packed(m, Authorized(m))
<1>1. ASSUME NEW r, NEW m PROVE HasCapacity(r, m) <=> Fits(r, m, Visible(m))
  BY DEF HasCapacity, Fits, Load, Lane
<1>2. ASSUME NEW m PROVE MapThenSumSet(LAMBDA r : Requested(r, m), Authorized(m)) = Load(m, Authorized(m))
  BY DEF Load
<1>3. NoOvercommit <=> \A m \in Machines : Packed(m, Authorized(m))
  BY <1>2 DEF NoOvercommit, Packed, Lane
<1> QED
  BY <1>1, <1>3

(***************************************************************************)
(* The invariant.  From the probe under the lease to the bootstrap, a run  *)
(* fits beside everything else that its machine has or may yet have: while *)
(* it holds the lease nobody else can send a bootstrap there.              *)
(***************************************************************************)
RoomPcs == {"reserved", "marked", "prepared", "registered", "ready"}

Room(d, r) ==
  task[d][r].pc \in RoomPcs =>
    \/ queue[r].status = "gone"
    \/ Fits(r, task[d][r].machine, Authorized(task[d][r].machine) \ {r})

\* A record says "running" only once the workload has been seen.
RunningIsUp(r) == exec[r] = "running" => remote[r] \notin RemoteOutstanding

CapacityInv ==
  /\ FenceInv
  /\ \A m \in Machines : Packed(m, Authorized(m))
  /\ \A r \in Runs : RunningIsUp(r)
  /\ \A d \in Dispatchers, r \in Runs : Room(d, r)

(***************************************************************************)
(* Almost every step is calm: it puts no workload on a machine, no thread  *)
(* on the way to a bootstrap, and brings back no purged queue entry.       *)
(***************************************************************************)
Live(r) == exec[r] \in {"registered", "running"} /\ remote[r] \in RemoteAlive

RoomKept(d, r) ==
  task'[d][r].pc \in RoomPcs => task[d][r].pc \in RoomPcs /\ task'[d][r].machine = task[d][r].machine

RecordCalm(r) ==
  /\ Live(r)' => Live(r) /\ site'[r] = site[r]
  /\ RunningIsUp(r) => RunningIsUp(r)'

GoneKept == \A r \in Runs : queue[r].status = "gone" => queue'[r].status = "gone"

Calm ==
  /\ \A d \in Dispatchers, r \in Runs : RoomKept(d, r)
  /\ \A r \in Runs : RecordCalm(r)
  /\ GoneKept

LEMMA SameRecords == ASSUME UNCHANGED <<exec, site, remote>> PROVE \A r \in Runs : RecordCalm(r)
BY DEF RecordCalm, Live, RunningIsUp

LEMMA SameTasks == ASSUME UNCHANGED task PROVE \A d \in Dispatchers, r \in Runs : RoomKept(d, r)
BY DEF RoomKept

LEMMA SameQueue == ASSUME UNCHANGED queue PROVE GoneKept
BY DEF GoneKept

LEMMA OneThread ==
  ASSUME NEW d \in Dispatchers, NEW r \in Runs, OthersKept(d, r), RoomKept(d, r)
  PROVE  \A e \in Dispatchers, s \in Runs : RoomKept(e, s)
BY DEF OthersKept, RoomKept

LEMMA SetQueueGone ==
  ASSUME TypeOK, NEW r \in Runs, NEW status, SetQueue(r, status), queue[r].status # "gone"
  PROVE  GoneKept
BY SetQueueSteps DEF GoneKept

LEMMA IdleIsCalm == \A d \in Dispatchers, r \in Runs : At(d, r, "idle")' => RoomKept(d, r)
BY DEF At, RoomKept, RoomPcs

LEMMA CycleIsCalm ==
  ASSUME FenceInv, NEW d \in Dispatchers, Cycle(d)
  PROVE  Calm
<1>0. TypeOK
  BY DEF FenceInv
<1>1. UNCHANGED records
  BY DEF Cycle, Start, BeginCycle, FinishLeases, FinishJobs, FinishBatch, ExitIdle, StayIdle, ReconcileLease, Plan
<1>2. (\A r \in Runs : RecordCalm(r)) /\ GoneKept
  BY <1>1, SameRecords, SameQueue DEF records
<1>3. CASE UNCHANGED task
  BY <1>2, <1>3, SameTasks DEF Calm
<1>4. CASE Plan(d) /\ ~UNCHANGED task
  <2>1. PICK f \in Plans(d) :
          task' = [task EXCEPT ![d] = [r \in Runs |->
            IF r \in DOMAIN f
            THEN [Idle EXCEPT !.pc = "planned", !.machine = f[r], !.revision = queue[r].revision,
                              !.others = Eligible[r] \ (drained \cup Range(f))]
            ELSE Idle]]
    BY <1>4 DEF Plan
  <2>2. ASSUME NEW r \in Runs PROVE task'[d][r].pc \in {"planned", "idle"}
    <3>1. CASE r \in DOMAIN f
      <4>1. task'[d][r] = [Idle EXCEPT !.pc = "planned", !.machine = f[r], !.revision = queue[r].revision,
                                       !.others = Eligible[r] \ (drained \cup Range(f))]
        BY <1>0, <2>1, <3>1 DEF TypeOK
      <4> QED
        BY <4>1 DEF Idle
    <3>2. CASE r \notin DOMAIN f
      BY <1>0, <2>1, <3>2 DEF TypeOK, Idle
    <3> QED
      BY <3>1, <3>2
  <2>3. \A e \in Dispatchers, r \in Runs : e # d => task'[e][r] = task[e][r]
    BY <1>0, <2>1 DEF TypeOK
  <2>4. \A e \in Dispatchers, r \in Runs : RoomKept(e, r)
    BY <2>2, <2>3 DEF RoomKept, RoomPcs
  <2> QED
    BY <1>2, <2>4 DEF Calm
<1> QED
  BY <1>3, <1>4 DEF Cycle, Start, BeginCycle, FinishLeases, FinishJobs, FinishBatch, ExitIdle, StayIdle, ReconcileLease

LEMMA RecoveryIsCalm ==
  ASSUME FenceInv, NEW d \in Dispatchers, NEW r \in Runs, Recovery(d, r)
  PROVE  Calm
<1>0. TypeOK /\ Recovering(d, r) /\ task[d][r] \in Task
  BY DEF FenceInv, TypeOK, ThreadInv
<1>1. \A s \in Runs : RecordCalm(s)
  BY SameRecords DEF Recovery, PickDispatching, CommitFound, RecoverBusy, RecoverRaises, RecoverFence, RecoverUnfence,
     RecoverUnleased, RecoverQueue, records
<1>2. GoneKept
  <2>1. CASE UNCHANGED queue
    BY <2>1, SameQueue
  <2>2. CASE ~UNCHANGED queue
    <3>0. CommitFound(d, r) \/ RecoverQueue(d, r)
      BY <2>2 DEF Recovery, PickDispatching, RecoverBusy, RecoverRaises, RecoverFence, RecoverUnfence,
         RecoverUnleased, records
    <3>1. task[d][r].pc \in ReconcilePcs /\ (SetQueue(r, "dispatched") \/ SetQueue(r, "queued"))
      BY <2>2, <3>0 DEF CommitFound, RecoverQueue, At, ReconcilePcs
    <3>2. queue[r].status = "dispatching"
      BY <1>0, <3>1 DEF Recovering
    <3> QED
      BY <1>0, <3>1, <3>2, SetQueueGone
  <2> QED
    BY <2>1, <2>2
<1>3. ASSUME NEW x, task' = [task EXCEPT ![d][r] = x], x.pc \notin RoomPcs
      PROVE  RoomKept(d, r) /\ OthersKept(d, r)
  <2>1. task'[d][r] = x /\ OthersKept(d, r)
    BY <1>0, <1>3, PutSteps
  <2> QED
    BY <1>3, <2>1 DEF RoomKept
<1>4. RoomKept(d, r) /\ OthersKept(d, r)
  <2>1. CASE PickDispatching(d, r)
    <3> DEFINE x == [Idle EXCEPT !.pc = IF exec[r] = "none" THEN "norecord" ELSE "found", !.revision = queue[r].revision]
    <3>1. x.pc = IF exec[r] = "none" THEN "norecord" ELSE "found"
      BY DEF Idle
    <3>2. task' = [task EXCEPT ![d][r] = x]
      BY <2>1 DEF PickDispatching
    <3> HIDE DEF x
    <3>3. x.pc \notin RoomPcs
      BY <3>1 DEF RoomPcs
    <3> QED
      BY <1>3, <3>2, <3>3
  <2>2. CASE Finish(d, r)
    BY <1>0, <2>2, FinishSteps, IdleIsCalm
  <2>3. CASE RecoverFence(d, r)
    <3>1. PICK m \in Machines, t \in Tokens :
            task' = [task EXCEPT ![d][r] = [@ EXCEPT !.pc = "fenced", !.machine = m, !.token = t]]
      BY <2>3 DEF RecoverFence
    <3> DEFINE x == [task[d][r] EXCEPT !.pc = "fenced", !.machine = m, !.token = t]
    <3>2. x.pc \notin RoomPcs /\ task' = [task EXCEPT ![d][r] = x]
      BY <1>0, <3>1 DEF Task, RoomPcs
    <3> HIDE DEF x
    <3> QED
      BY <1>3, <3>2
  <2>4. CASE RecoverUnfence(d, r)
    <3> DEFINE x == [task[d][r] EXCEPT !.pc = "recover", !.machine = NoMachine, !.token = 0]
    <3>1. x.pc \notin RoomPcs /\ task' = [task EXCEPT ![d][r] = x]
      BY <1>0, <2>4 DEF Task, RoomPcs, RecoverUnfence
    <3> HIDE DEF x
    <3> QED
      BY <1>3, <3>1
  <2>5. CASE RecoverUnleased(d, r)
    BY <1>0, <2>5, GotoSteps DEF RecoverUnleased, Steps, RoomKept, RoomPcs
  <2> QED
    BY <2>1, <2>2, <2>3, <2>4, <2>5 DEF Recovery, CommitFound, RecoverBusy, RecoverRaises, RecoverQueue
<1> QED
  BY <1>1, <1>2, <1>4, OneThread DEF Calm

\* Reserving and marking, except for the thread whose probe finds room.
LEMMA ReservationIsCalm ==
  ASSUME FenceInv, NEW d \in Dispatchers, NEW r \in Runs, Reservation(d, r)
  PROVE  /\ (\A s \in Runs : RecordCalm(s)) /\ GoneKept
         /\ \/ \A e \in Dispatchers, s \in Runs : RoomKept(e, s)
            \/ /\ At(d, r, "leased") /\ HasCapacity(r, task[d][r].machine) /\ OthersKept(d, r) /\ UNCHANGED records
               /\ task'[d][r].machine = task[d][r].machine
<1>0. TypeOK /\ task[d][r] \in Task
  BY DEF FenceInv, TypeOK
<1>1. \A s \in Runs : RecordCalm(s)
  BY SameRecords DEF Reservation, Reserve, ProbeReserved, Mark, MarkRaises, records
<1>2. CASE Reserve(d, r)
  <2>1. OthersKept(d, r) /\ task'[d][r].pc \notin RoomPcs
    <3>1. CASE NextCandidate(d, r)
      BY <1>0, <3>1, NextCandidateSteps DEF At, RoomPcs
    <3>2. ASSUME NEW t \in Tokens, task' = [task EXCEPT ![d][r] = [@ EXCEPT !.pc = "leased", !.token = t]]
          PROVE  OthersKept(d, r) /\ task'[d][r].pc \notin RoomPcs
      <4> DEFINE x == [task[d][r] EXCEPT !.pc = "leased", !.token = t]
      <4>1. x.pc = "leased" /\ task' = [task EXCEPT ![d][r] = x]
        BY <1>0, <3>2 DEF Task
      <4> HIDE DEF x
      <4> QED
        BY <1>0, <4>1, PutSteps DEF RoomPcs
    <3> QED
      BY <1>2, <3>1, <3>2 DEF Reserve
  <2>2. RoomKept(d, r) /\ GoneKept
    BY <1>2, <2>1, SameQueue DEF RoomKept, Reserve, records
  <2> QED
    BY <1>1, <2>1, <2>2, OneThread
<1>3. CASE ProbeReserved(d, r)
  <2>1. UNCHANGED records /\ At(d, r, "leased") /\ GoneKept
    BY <1>3, SameQueue DEF ProbeReserved, records
  <2>2. CASE NextCandidate(d, r)
    <3>1. OthersKept(d, r) /\ task'[d][r].pc \notin RoomPcs
      BY <1>0, <2>2, NextCandidateSteps DEF At, RoomPcs
    <3>2. RoomKept(d, r)
      BY <3>1 DEF RoomKept
    <3> QED
      BY <1>1, <2>1, <3>1, <3>2, OneThread
  <2>3. CASE task' = [task EXCEPT ![d][r] = [@ EXCEPT !.pc = "reserved", !.others = {}]]
    <3> DEFINE x == [task[d][r] EXCEPT !.pc = "reserved", !.others = {}]
    <3>1. x.machine = task[d][r].machine /\ task' = [task EXCEPT ![d][r] = x]
      BY <1>0, <2>3 DEF Task
    <3> HIDE DEF x
    <3>2. task'[d][r] = x /\ OthersKept(d, r)
      BY <1>0, <3>1, PutSteps
    <3>5. OthersKept(d, r) /\ task'[d][r].machine = task[d][r].machine
      BY <3>1, <3>2
    <3>3. CASE HasCapacity(r, task[d][r].machine)
      BY <1>1, <2>1, <3>5, <3>3
    <3>4. CASE ~HasCapacity(r, task[d][r].machine)
      BY <1>3, <2>2, <3>4 DEF ProbeReserved
    <3> QED
      BY <3>3, <3>4
  <2> QED
    BY <1>3, <2>2, <2>3 DEF ProbeReserved
<1>4. CASE Mark(d, r)
  <2>1. GoneKept
    BY <1>0, <1>4, SameQueue, SetQueueGone DEF Mark
  <2>2. OthersKept(d, r) /\ RoomKept(d, r)
    <3>1. CASE Goto(d, r, "release")
      <4>1. Steps(d, r, "release") /\ OthersKept(d, r)
        BY <1>0, <3>1, GotoSteps
      <4> QED
        BY <4>1 DEF Steps, RoomKept, RoomPcs
    <3>2. CASE task' = [task EXCEPT ![d][r] = [@ EXCEPT !.pc = "marked", !.revision = task[d][r].revision + 1]]
      <4> DEFINE x == [task[d][r] EXCEPT !.pc = "marked", !.revision = task[d][r].revision + 1]
      <4>1. x.machine = task[d][r].machine /\ task' = [task EXCEPT ![d][r] = x]
        BY <1>0, <3>2 DEF Task
      <4> HIDE DEF x
      <4>2. task'[d][r] = x /\ OthersKept(d, r)
        BY <1>0, <4>1, PutSteps
      <4>3. OthersKept(d, r) /\ task'[d][r].machine = task[d][r].machine
        BY <4>1, <4>2
      <4> QED
        BY <1>4, <4>3 DEF Mark, At, RoomKept, RoomPcs
    <3> QED
      BY <1>4, <3>1, <3>2 DEF Mark
  <2> QED
    BY <1>1, <2>1, <2>2, OneThread
<1>5. CASE MarkRaises(d, r)
  <2>1. GoneKept /\ task' = [task EXCEPT ![d] = [s \in Runs |->
          CASE task[d][s].pc = "reserved" -> [task[d][s] EXCEPT !.pc = "release"]
            [] task[d][s].pc = "marked" -> Idle
            [] OTHER -> task[d][s]]]
    BY <1>5, SameQueue DEF MarkRaises, records
  <2>2. ASSUME NEW e \in Dispatchers, NEW s \in Runs PROVE RoomKept(e, s)
    <3>0. task[e][s] \in Task
      BY <1>0 DEF TypeOK
    <3>1. CASE e # d
      BY <1>0, <2>1, <3>1 DEF TypeOK, RoomKept
    <3>2. CASE e = d /\ task[d][s].pc = "reserved"
      <4>1. task'[d][s] = [task[d][s] EXCEPT !.pc = "release"]
        BY <1>0, <2>1, <3>2 DEF TypeOK
      <4> QED
        BY <3>0, <3>2, <4>1 DEF Task, RoomKept, RoomPcs
    <3>3. CASE e = d /\ task[d][s].pc = "marked"
      <4>1. task'[d][s] = Idle
        BY <1>0, <2>1, <3>3 DEF TypeOK
      <4> QED
        BY <3>3, <4>1 DEF Idle, RoomKept, RoomPcs
    <3>4. CASE e = d /\ task[d][s].pc \notin {"reserved", "marked"}
      BY <1>0, <2>1, <3>4 DEF TypeOK, RoomKept
    <3> QED
      BY <3>1, <3>2, <3>3, <3>4
  <2> QED
    BY <1>1, <2>1, <2>2
<1> QED
  BY <1>2, <1>3, <1>4, <1>5 DEF Reservation

\* A bootstrap leaves for the machine the thread has the lease of.
Sent(d, r) ==
  /\ At(d, r, "ready") /\ OthersKept(d, r) /\ task'[d][r].pc \notin RoomPcs
  /\ UNCHANGED <<queue, exec, site>> /\ exec[r] = "registered"
  /\ \A s \in Runs : s # r => remote'[s] = remote[s]

LEMMA LaunchIsCalm ==
  ASSUME FenceInv, NEW d \in Dispatchers, NEW r \in Runs, Launch(d, r)
  PROVE  Calm \/ Sent(d, r)
<1>0. TypeOK /\ DispatchLeases /\ Working(d, r)
  BY DEF FenceInv, ThreadInv
<1>1. OthersKept(d, r) /\ RoomKept(d, r)
  <2>1. CASE Finish(d, r)
    BY <1>0, <2>1, FinishSteps, IdleIsCalm
  <2>2. CASE \E pc \in {"unknown", "failing", "launching", "launched", "release", "seen", "unseen",
                        "failexec", "failqueue", "commit"} : Goto(d, r, pc)
    <3>1. PICK pc : Goto(d, r, pc) /\ pc \notin RoomPcs
      BY <2>2 DEF RoomPcs
    <3> QED
      BY <1>0, <3>1, GotoSteps DEF Steps, RoomKept
  <2>3. CASE Prepare(d, r)
    <3>1. OthersKept(d, r) /\ (Steps(d, r, "prepared") \/ Steps(d, r, "failqueue"))
      BY <1>0, <2>3, AssertOwnedSteps, GotoSteps DEF Prepare
    <3> QED
      BY <2>3, <3>1 DEF Prepare, At, Steps, RoomKept, RoomPcs
  <2>4. CASE Register(d, r)
    <3>1. OthersKept(d, r) /\ (Steps(d, r, "registered") \/ Steps(d, r, "failqueue"))
      BY <1>0, <2>4, GotoSteps DEF Register
    <3> QED
      BY <2>4, <3>1 DEF Register, At, Steps, RoomKept, RoomPcs
  <2>5. CASE AssertRegistered(d, r)
    <3>1. OthersKept(d, r) /\ (Steps(d, r, "ready") \/ Steps(d, r, "unknown") \/ Steps(d, r, "failing"))
      BY <1>0, <2>5, AssertOwnedSteps, GotoSteps DEF AssertRegistered, DiskFails
    <3> QED
      BY <2>5, <3>1 DEF AssertRegistered, At, Steps, RoomKept, RoomPcs
  <2>6. CASE AssertLaunched(d, r)
    <3>1. OthersKept(d, r) /\ (Steps(d, r, "commit") \/ Steps(d, r, "unknown") \/ Steps(d, r, "failing"))
      BY <1>0, <2>6, AssertOwnedSteps, GotoSteps DEF AssertLaunched, DiskFails
    <3> QED
      BY <3>1 DEF Steps, RoomKept, RoomPcs
  <2>7. CASE StartBootstrap(d, r) \/ LaunchOk(d, r) \/ LaunchRejected(d, r) \/ LaunchUnknown(d, r) \/ Commit(d, r)
    BY <2>2, <2>7 DEF StartBootstrap, LaunchOk, LaunchRejected, LaunchUnknown, Commit, DiskFails
  <2>8. CASE Unknown(d, r) \/ CommitUnknown(d, r) \/ ReadFailing(d, r) \/ FailExecution(d, r) \/ FailQueue(d, r)
             \/ ReleaseLease(d, r)
    BY <2>1, <2>2, <2>8 DEF Unknown, CommitUnknown, ReadFailing, FailExecution, FailQueue, ReleaseLease
  <2> QED
    BY <2>3, <2>4, <2>5, <2>6, <2>7, <2>8 DEF Launch
<1>2. GoneKept
  <2>1. CASE UNCHANGED queue
    BY <2>1, SameQueue
  <2>2. CASE ~UNCHANGED queue
    <3>1. Commit(d, r) \/ CommitUnknown(d, r) \/ FailQueue(d, r)
      BY <2>2 DEF Launch, Prepare, Register, AssertRegistered, StartBootstrap, LaunchOk, LaunchRejected, LaunchUnknown,
         AssertLaunched, Unknown, ReadFailing, FailExecution, ReleaseLease, records
    <3>2. task[d][r].pc \in WorkPcs /\ (SetQueue(r, "dispatched") \/ SetQueue(r, "failed"))
      BY <2>2, <3>1 DEF Commit, CommitUnknown, FailQueue, At, WorkPcs
    <3>3. queue[r].status = "dispatching"
      BY <1>0, <3>2 DEF Working
    <3> QED
      BY <1>0, <3>2, <3>3, SetQueueGone
  <2> QED
    BY <2>1, <2>2
<1>3. CASE \A s \in Runs : RecordCalm(s)
  BY <1>1, <1>2, <1>3, OneThread DEF Calm
<1>4. CASE UNCHANGED <<exec, site, remote>>
  BY <1>3, <1>4, SameRecords
<1>5. CASE Register(d, r)
  <2>1. exec[r] = "none" => remote[r] = "absent"
    <3>1. RecordInv(r) /\ queue[r].status = "dispatching"
      BY <1>0, <1>5 DEF FenceInv, Working, Register, At, WorkPcs
    <3> QED
      BY <3>1 DEF RecordInv
  <2>2. CASE /\ exec[r] = "none" /\ exec' = [exec EXCEPT ![r] = "registered"]
             /\ site' = [site EXCEPT ![r] = task[d][r].machine] /\ UNCHANGED remote
    <3>1. exec'[r] = "registered" /\ remote'[r] = "absent"
      BY <1>0, <2>1, <2>2 DEF TypeOK
    <3>2. \A s \in Runs : s # r => exec'[s] = exec[s] /\ site'[s] = site[s] /\ remote'[s] = remote[s]
      BY <1>0, <2>2 DEF TypeOK
    <3>3. \A s \in Runs : RecordCalm(s)
      BY <3>1, <3>2 DEF RecordCalm, Live, RunningIsUp, RemoteAlive, RemoteOutstanding
    <3> QED
      BY <1>3, <3>3
  <2> QED
    BY <1>4, <1>5, <2>2 DEF Register
<1>6. CASE LaunchOk(d, r) \/ FailExecution(d, r)
  <2>1. /\ UNCHANGED <<site, remote>> /\ (\A s \in Runs : s # r => exec'[s] = exec[s])
        /\ \/ exec'[r] = exec[r]
           \/ exec'[r] = "failed"
           \/ At(d, r, "launching") /\ exec'[r] = "running" /\ remote[r] \in {"running"} \cup ExecTerminal
    BY <1>0, <1>6 DEF LaunchOk, FailExecution, TypeOK
  <2>2. At(d, r, "launching") => exec[r] = "registered"
    BY <1>0 DEF Working, At
  <2>3. \A s \in Runs : RecordCalm(s)
    BY <2>1, <2>2 DEF RecordCalm, Live, RunningIsUp, ExecTerminal, RemoteOutstanding
  <2> QED
    BY <1>3, <2>3
<1>7. CASE StartBootstrap(d, r)
  <2>1. CASE exec[r] = "registered" /\ Goto(d, r, "launching")
             /\ \E now \in {"preflight", "absent"} : remote' = [remote EXCEPT ![r] = now]
    <3>1. task'[d][r].pc \notin RoomPcs
      BY <1>0, <2>1, GotoSteps DEF Steps, RoomPcs
    <3>2. \A s \in Runs : s # r => remote'[s] = remote[s]
      BY <1>0, <2>1 DEF TypeOK
    <3> QED
      BY <1>1, <1>7, <2>1, <3>1, <3>2 DEF StartBootstrap, Sent
  <2> QED
    BY <1>4, <1>7, <2>1 DEF StartBootstrap
<1> QED
  BY <1>4, <1>5, <1>6, <1>7
     DEF Launch, Prepare, AssertRegistered, LaunchRejected, LaunchUnknown,
         AssertLaunched, Commit, Unknown, CommitUnknown, ReadFailing, FailQueue, ReleaseLease, records

LEMMA SurroundingsAreCalm ==
  ASSUME FenceInv, Surroundings
  PROVE  Calm
<1>0. TypeOK
  BY DEF FenceInv
<1>1. CASE \E r \in Runs : \/ Submit(r) \/ ReserveUpdate(r) \/ Edit(r) \/ ReleaseUpdate(r) \/ StopQueued(r) \/ PurgeQueue(r)
  <2>1. PICK r \in Runs : \/ Submit(r) \/ ReserveUpdate(r) \/ Edit(r) \/ ReleaseUpdate(r) \/ StopQueued(r) \/ PurgeQueue(r)
    BY <1>1
  <2>2. UNCHANGED <<exec, site, remote, task>>
    BY <2>1 DEF Submit, ReserveUpdate, Edit, ReleaseUpdate, StopQueued, PurgeQueue
  <2>3. GoneKept
    <3>1. CASE Submit(r) \/ PurgeQueue(r)
      BY <1>0, <3>1 DEF Submit, PurgeQueue, GoneKept, TypeOK
    <3>2. CASE StopQueued(r)
      BY <1>0, <3>2, SetQueueGone DEF StopQueued
    <3>3. CASE ReserveUpdate(r) \/ Edit(r) \/ ReleaseUpdate(r)
      <4>1. \E update : Touch(r, update)
        BY <3>3 DEF ReserveUpdate, Edit, ReleaseUpdate
      <4>2. PICK update : Touch(r, update)
        BY <4>1
      <4> QED
        BY <1>0, <4>2, TouchSteps DEF GoneKept
    <3> QED
      BY <2>1, <3>1, <3>2, <3>3
  <2> QED
    BY <2>2, <2>3, SameRecords, SameTasks DEF Calm
<1>2. CASE \E r \in Runs : StopExecution(r) \/ Monitor(r) \/ RemoteStep(r) \/ PurgeExecution(r)
  <2>1. PICK r \in Runs : StopExecution(r) \/ Monitor(r) \/ RemoteStep(r) \/ PurgeExecution(r)
    BY <1>2
  <2>2. UNCHANGED <<queue, site, task>> /\ \A s \in Runs : s # r => exec'[s] = exec[s] /\ remote'[s] = remote[s]
    BY <1>0, <2>1 DEF StopExecution, Monitor, RemoteStep, PurgeExecution, TypeOK
  <2>3. RecordCalm(r)
    <3>1. CASE StopExecution(r) \/ PurgeExecution(r)
      <4>1. StopOutcomes(r)[2] \in ExecTerminal
        BY <1>0 DEF StopOutcomes, TypeOK, RemoteStates, RemoteAlive, RemoteOutstanding, ExecTerminal
      <4>2. exec'[r] \in ExecTerminal \cup {"none"}
        BY <1>0, <3>1, <4>1 DEF StopExecution, PurgeExecution, TypeOK
      <4> QED
        BY <4>2 DEF RecordCalm, Live, RunningIsUp, ExecTerminal
    <3>2. CASE Monitor(r)
      <4>1. exec[r] \in {"registered", "running"} /\ remote'[r] = remote[r] /\ remote[r] \in {"running"} \cup ExecTerminal
        BY <3>2 DEF Monitor
      <4> QED
        BY <2>2, <4>1 DEF RecordCalm, Live, RunningIsUp, ExecTerminal, RemoteOutstanding
    <3>3. CASE RemoteStep(r)
      <4>1. PICK next \in RemoteStates :
              /\ \/ remote[r] = "preflight" /\ next \in {"rejected", "starting"}
                 \/ remote[r] = "starting" /\ next \in {"rejected", "running", "dead"}
                 \/ remote[r] = "running" /\ next \in Endings \cup {"dead"}
              /\ remote' = [remote EXCEPT ![r] = next]
        BY <3>3 DEF RemoteStep
      <4>2. remote'[r] = next /\ exec'[r] = exec[r]
        BY <1>0, <3>3, <4>1 DEF TypeOK, RemoteStep
      <4>3. remote[r] \in RemoteAlive /\ (remote[r] \notin RemoteOutstanding => next \notin RemoteOutstanding)
        BY <4>1, DispatchAssumptions DEF RemoteAlive, RemoteOutstanding
      <4> QED
        BY <2>2, <4>2, <4>3 DEF RecordCalm, Live, RunningIsUp
    <3> QED
      BY <2>1, <3>1, <3>2, <3>3
  <2>4. \A s \in Runs : RecordCalm(s)
    BY <2>2, <2>3 DEF RecordCalm, Live, RunningIsUp
  <2> QED
    BY <2>2, <2>4, SameTasks, SameQueue DEF Calm
<1>3. CASE (\E m \in Machines : ExpireLease(m) \/ Drain(m)) \/ \E d \in Dispatchers : ExitOneShot(d)
  <2>1. UNCHANGED <<queue, exec, site, remote, task>>
    BY <1>3 DEF ExpireLease, Drain, ExitOneShot, records
  <2> QED
    BY <2>1, SameRecords, SameTasks, SameQueue DEF Calm
<1>4. CASE \E d \in Dispatchers : Crash(d)
  <2>1. PICK d \in Dispatchers : Crash(d)
    BY <1>4
  <2>2. UNCHANGED <<queue, exec, site, remote>> /\ task' = [task EXCEPT ![d] = [r \in Runs |-> Idle]]
    BY <2>1 DEF Crash, records
  <2>3. \A e \in Dispatchers, s \in Runs : task'[e][s] = task[e][s] \/ At(e, s, "idle")'
    BY <1>0, <2>2 DEF TypeOK, Idle, At
  <2>4. \A e \in Dispatchers, s \in Runs : RoomKept(e, s)
    BY <2>3, IdleIsCalm DEF RoomKept
  <2> QED
    BY <2>2, <2>4, SameRecords, SameQueue DEF Calm
<1>5. CASE \E d \in Dispatchers, r \in Runs : Heartbeat(d, r)
  <2>1. PICK d \in Dispatchers, r \in Runs : Heartbeat(d, r)
    BY <1>5
  <2>2. UNCHANGED <<queue, exec, site, remote>>
    BY <2>1 DEF Heartbeat, records
  <2>3. CASE UNCHANGED task
    BY <2>2, <2>3, SameRecords, SameTasks, SameQueue DEF Calm
  <2>4. CASE task' = [task EXCEPT ![d][r].heartbeat = FALSE]
    <3> DEFINE x == [task[d][r] EXCEPT !.heartbeat = FALSE]
    <3>1. task[d][r] \in Task
      BY <1>0 DEF TypeOK
    <3>2. x.pc = task[d][r].pc /\ x.machine = task[d][r].machine /\ task' = [task EXCEPT ![d][r] = x]
      BY <2>4, <3>1 DEF Task
    <3> HIDE DEF x
    <3>3. task'[d][r] = x /\ OthersKept(d, r)
      BY <1>0, <3>2, PutSteps
    <3>4. RoomKept(d, r)
      BY <3>2, <3>3 DEF RoomKept
    <3> QED
      BY <2>2, <3>3, <3>4, OneThread, SameRecords, SameQueue DEF Calm
  <2> QED
    BY <2>1, <2>3, <2>4 DEF Heartbeat
<1> QED
  BY <1>1, <1>2, <1>3, <1>4, <1>5 DEF Surroundings

\* A step is calm, finds room for a run under its lease, or sends a bootstrap.
Probed(d, r) ==
  /\ (\A s \in Runs : RecordCalm(s)) /\ GoneKept
  /\ At(d, r, "leased") /\ HasCapacity(r, task[d][r].machine) /\ OthersKept(d, r) /\ UNCHANGED records
  /\ task'[d][r].machine = task[d][r].machine

LEMMA StepKinds ==
  ASSUME FenceInv, [Next]_vars
  PROVE  Calm \/ \E d \in Dispatchers, r \in Runs : Probed(d, r) \/ Sent(d, r)
<1>1. CASE UNCHANGED vars
  BY <1>1, SameRecords, SameTasks, SameQueue DEF vars, Calm
<1>2. CASE \E d \in Dispatchers, r \in Runs : Reservation(d, r)
  BY <1>2, ReservationIsCalm DEF Calm, Probed
<1> QED
  BY <1>1, <1>2, CycleIsCalm, RecoveryIsCalm, LaunchIsCalm, SurroundingsAreCalm DEF Next, Dispatcher

(***************************************************************************)
(* The invariant is inductive.                                             *)
(***************************************************************************)

\* A machine gets no workload, but the one of a bootstrap just sent.
LEMMA AuthorizedShrinks ==
  ASSUME NEW U \in SUBSET Runs, \A s \in Runs \ U : RecordCalm(s), NEW m
  PROVE  Authorized(m)' \ U \subseteq Authorized(m) \ U
BY DEF RecordCalm, Live, Authorized

LEMMA CalmKeeps ==
  ASSUME IsFiniteSet(Runs), CapacityInv, FenceInv', Calm
  PROVE  CapacityInv'
<1>1. ASSUME NEW m PROVE Authorized(m)' \subseteq Authorized(m) /\ Authorized(m) \in SUBSET Runs
  BY DEF Calm, RecordCalm, Live, Authorized
<1>2. ASSUME NEW m \in Machines PROVE Packed(m, Authorized(m)')
  BY <1>1, LessIsPacked DEF CapacityInv
<1>3. \A r \in Runs : RunningIsUp(r)'
  BY DEF CapacityInv, Calm, RecordCalm
<1>4. ASSUME NEW d \in Dispatchers, NEW r \in Runs PROVE Room(d, r)'
  <2>1. SUFFICES ASSUME task'[d][r].pc \in RoomPcs, queue'[r].status # "gone",
                        NEW m, m = task'[d][r].machine
                 PROVE  Fits(r, m, Authorized(m)' \ {r})
    BY DEF Room, Authorized
  <2>3. task[d][r].pc \in RoomPcs /\ task[d][r].machine = m /\ queue[r].status # "gone"
    BY <2>1 DEF Calm, RoomKept, GoneKept
  <2>4. m \in Machines
    BY <2>3 DEF CapacityInv, FenceInv, ThreadInv, Placed, BatchPcs, PlanPcs, WorkPcs, RoomPcs
  <2>5. Fits(r, m, Authorized(m) \ {r})
    BY <2>3 DEF CapacityInv, Room
  <2>6. Fits(r, m, Authorized(m)' \ {r})
    BY <1>1, <2>4, <2>5, LessLeavesRoom
  <2> QED
    BY <2>6
<1>5. \A m \in Machines : Packed(m, Authorized(m))'
  BY <1>2
<1> QED
  BY <1>3, <1>4, <1>5 DEF CapacityInv

\* The probe under the lease counts everything that may yet come up on the machine:
\* what it does not see is outstanding, and only the run that holds the lease is.
LEMMA ProbeIsComplete ==
  ASSUME CapacityInv, NEW d \in Dispatchers, NEW r \in Runs, At(d, r, "leased"), queue[r].status # "gone",
         NEW m, m = task[d][r].machine
  PROVE  m \in Machines /\ Authorized(m) \ {r} \subseteq Visible(m)
<1>1. m \in Machines /\ Held(d, r)
  BY DEF CapacityInv, FenceInv, ThreadInv, Placed, Planning, At, BatchPcs, PlanPcs
<1>2. ASSUME NEW s \in Authorized(m), s # r PROVE s \in Visible(m)
  <2>1. s \in Runs /\ site[s] = m /\ exec[s] \in {"registered", "running"} /\ remote[s] \in RemoteAlive
    BY DEF Authorized
  <2>2. RunningIsUp(s) /\ RecordInv(s)
    BY <2>1 DEF CapacityInv, FenceInv
  <2>3. remote[s] \notin RemoteOutstanding
    <3>1. SUFFICES ASSUME remote[s] \in RemoteOutstanding PROVE FALSE
      OBVIOUS
    <3>2. Owns(s, m)
      BY <2>1, <2>2, <3>1 DEF RunningIsUp, RecordInv
    <3> QED
      BY <1>1, <1>2, <3>2 DEF Owns, Held, Holds
  <2> QED
    BY <2>1, <2>3 DEF Visible, RemoteAlive
<1> QED
  BY <1>1, <1>2

LEMMA ProbedKeeps ==
  ASSUME IsFiniteSet(Runs), CapacityInv, FenceInv', NEW d \in Dispatchers, NEW r \in Runs, Probed(d, r)
  PROVE  CapacityInv'
<1>1. UNCHANGED <<queue, exec, site, remote>> /\ OthersKept(d, r) /\ At(d, r, "leased")
  BY DEF Probed, records
<1>2. \A m \in Machines : Packed(m, Authorized(m))'
  BY <1>1 DEF CapacityInv, Authorized
<1>3. \A s \in Runs : RunningIsUp(s)'
  BY <1>1 DEF CapacityInv, RunningIsUp
<1>4. ASSUME NEW e \in Dispatchers, NEW s \in Runs, <<e, s>> # <<d, r>> PROVE Room(e, s)'
  <2>1. Room(e, s) /\ task'[e][s] = task[e][s]
    BY <1>1, <1>4 DEF CapacityInv, OthersKept
  <2> QED
    BY <1>1, <2>1 DEF Room, Authorized
<1>5. Room(d, r)'
  <2>1. SUFFICES ASSUME queue[r].status # "gone", NEW m, m = task[d][r].machine
                 PROVE  Fits(r, m, Authorized(m) \ {r})
    BY <1>1 DEF Probed, Room, Authorized
  <2>2. m \in Machines /\ Authorized(m) \ {r} \subseteq Visible(m) /\ Visible(m) \in SUBSET Runs
    BY <1>1, <2>1, ProbeIsComplete DEF Visible
  <2>3. Fits(r, m, Visible(m))
    BY <2>1, CapacityForm DEF Probed
  <2> QED
    BY <2>2, <2>3, LessLeavesRoom
<1> QED
  BY <1>2, <1>3, <1>4, <1>5 DEF CapacityInv

LEMMA SentKeeps ==
  ASSUME IsFiniteSet(Runs), OneDispatcherPerProject, CapacityInv, FenceInv',
         NEW d \in Dispatchers, NEW r \in Runs, Sent(d, r)
  PROVE  CapacityInv'
<1> DEFINE m == site[r]
<1>1. /\ At(d, r, "ready") /\ OthersKept(d, r) /\ UNCHANGED <<queue, exec, site>> /\ exec[r] = "registered"
      /\ \A s \in Runs : s # r => remote'[s] = remote[s]
  BY DEF Sent
<1>2. /\ m \in Machines /\ m = task[d][r].machine /\ Held(d, r) /\ r \in Mine(d) /\ queue[r].status = "dispatching"
  BY <1>1 DEF CapacityInv, FenceInv, ThreadInv, Placed, Working, At, BatchPcs, WorkPcs
<1>3. Fits(r, m, Authorized(m) \ {r})
  BY <1>1, <1>2 DEF CapacityInv, Room, At, RoomPcs
<1>4. \A n : /\ Authorized(n) \in SUBSET Runs
             /\ n # m => Authorized(n)' \subseteq Authorized(n)
             /\ Authorized(n)' \subseteq Authorized(n) \cup {r}
  BY <1>1 DEF Authorized
<1>5. ASSUME NEW n \in Machines PROVE Packed(n, Authorized(n)')
  <2>1. Packed(n, Authorized(n))
    BY DEF CapacityInv
  <2>2. CASE n # m
    BY <1>4, <2>1, <2>2, LessIsPacked
  <2>3. CASE n = m
    <3> DEFINE S == Authorized(n) \ {r}
    <3>1. S \in SUBSET Authorized(n) /\ Authorized(n) \in SUBSET Runs /\ r \in Runs \ S
      BY <1>4
    <3>2. Packed(n, S)
      BY <2>1, <3>1, LessIsPacked
    <3>3. Fits(r, n, S)
      BY <1>3, <2>3
    <3>4. Authorized(n)' \in SUBSET (S \cup {r})
      BY <1>4
    <3> HIDE DEF S
    <3>5. Packed(n, S \cup {r}) /\ S \cup {r} \in SUBSET Runs
      BY <3>1, <3>2, <3>3, AddIsPacked
    <3> QED
      BY <3>4, <3>5, LessIsPacked
  <2> QED
    BY <2>2, <2>3
<1>6. ASSUME NEW s \in Runs PROVE RunningIsUp(s)'
  BY <1>1 DEF CapacityInv, RunningIsUp
<1>7. ASSUME NEW e \in Dispatchers, NEW s \in Runs PROVE Room(e, s)'
  <2>1. CASE <<e, s>> = <<d, r>>
    BY <2>1 DEF Sent, Room
  <2>2. CASE <<e, s>> # <<d, r>>
    <3>1. SUFFICES ASSUME task[e][s].pc \in RoomPcs, queue[s].status # "gone",
                          NEW n, n = task[e][s].machine
                   PROVE  Fits(s, n, Authorized(n)' \ {s})
      BY <1>1, <2>2 DEF OthersKept, Room, Authorized
    <3>2. n \in Machines /\ Held(e, s) /\ s \in Mine(e)
      BY <3>1 DEF CapacityInv, FenceInv, ThreadInv, Placed, Planning, Working, At, RoomPcs, BatchPcs, PlanPcs, WorkPcs
    <3>3. n # m
      <4>1. SUFFICES ASSUME n = m PROVE FALSE
        OBVIOUS
      <4>2. s = r
        BY <1>2, <3>1, <3>2, <4>1 DEF Held, Holds
      <4>3. e = d
        BY <1>2, <3>2, <4>2 DEF Mine, OneDispatcherPerProject
      <4> QED
        BY <2>2, <4>2, <4>3
    <3>4. Fits(s, n, Authorized(n) \ {s})
      BY <3>1 DEF CapacityInv, Room
    <3>5. Authorized(n)' \ {s} \in SUBSET (Authorized(n) \ {s}) /\ Authorized(n) \ {s} \in SUBSET Runs
      BY <1>4, <3>3
    <3> QED
      BY <3>2, <3>4, <3>5, LessLeavesRoom
  <2> QED
    BY <2>1, <2>2
<1>8. \A n \in Machines : Packed(n, Authorized(n))'
  BY <1>5
<1> QED
  BY <1>6, <1>7, <1>8 DEF CapacityInv

\* The machine of a bootstrap is one whose capacity counts everybody who may be
\* there: neither the cores of a machine nor the slots of a lane are ever handed
\* out twice, for any number of projects and dispatchers that share it, although
\* every dispatcher plans from a stale snapshot (lease, then probe, then launch).
THEOREM NeverOvercommitted ==
  ASSUME OneDispatcherPerProject, IsFiniteSet(Runs)
  PROVE  Spec => []NoOvercommit
<1>1. Init => CapacityInv
  <2>1. SUFFICES ASSUME Init PROVE CapacityInv
    OBVIOUS
  <2>2. FenceInv
    BY <2>1, FenceInit
  <2>3. ASSUME NEW m \in Machines PROVE Packed(m, Authorized(m))
    <3>1. Authorized(m) = {}
      BY <2>1 DEF Init, Authorized
    <3>2. Load(m, {}) = 0
      BY LoadSteps
    <3>3. \A class : Lane({}, class) = {}
      BY DEF Lane
    <3>4. Cardinality({}) = 0
      BY FS_EmptySet
    <3>5. Configured[m] \in Nat /\ \A class \in {"standard", "test"} : Slots[m][class] \in Nat
      BY PackingNumbers
    <3> QED
      BY <3>1, <3>2, <3>3, <3>4, <3>5 DEF Packed
  <2>4. \A r \in Runs : RunningIsUp(r)
    BY <2>1 DEF Init, RunningIsUp
  <2>5. \A d \in Dispatchers, r \in Runs : Room(d, r)
    BY <2>1 DEF Init, Idle, Room, RoomPcs
  <2> QED
    BY <2>2, <2>3, <2>4, <2>5 DEF CapacityInv
<1>2. CapacityInv /\ [Next]_vars => CapacityInv'
  <2>1. SUFFICES ASSUME CapacityInv, [Next]_vars PROVE CapacityInv'
    OBVIOUS
  <2>2. FenceInv /\ FenceInv'
    BY <2>1, FenceNext DEF CapacityInv
  <2>3. Calm \/ \E d \in Dispatchers, r \in Runs : Probed(d, r) \/ Sent(d, r)
    BY <2>1, <2>2, StepKinds
  <2> QED
    BY <2>1, <2>2, <2>3, CalmKeeps, ProbedKeeps, SentKeeps
<1>3. CapacityInv => NoOvercommit
  BY CapacityForm DEF CapacityInv
<1> QED
  BY <1>1, <1>2, <1>3, PTL DEF Spec

=============================================================================
