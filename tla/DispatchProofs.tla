--------------------------- MODULE DispatchProofs ---------------------------
(***************************************************************************)
(* Theorems about Dispatch for every value of its constants: any number of *)
(* projects, machines, runs, dispatchers and crashes.                      *)
(***************************************************************************)
EXTENDS Dispatch, TLAPS

TaskTypeOK == task \in [Dispatchers -> [Runs -> Task]]
QueueEntry == [status: QueueStatuses, revision: Nat, update: BOOLEAN]
QueueTypeOK == queue \in [Runs -> [status: QueueStatuses, revision: Nat, update: BOOLEAN]]
LeaseFileTypeOK == lease \in [Machines -> Lease \cup {NoLease}]

(***************************************************************************)
(* The lease operations keep lease files well formed.                      *)
(***************************************************************************)
LEMMA AcquireType ==
  ASSUME LeaseFileTypeOK, NEW m \in Machines, NEW o \in Owners, NEW kind \in Kinds,
         NEW t \in Tokens, NEW gone, Acquire(m, o, kind, t, gone)
  PROVE  LeaseFileTypeOK'
  BY DEF LeaseFileTypeOK, Acquire, Lease

LEMMA RenewType ==
  ASSUME LeaseFileTypeOK, NEW m \in Machines \cup {NoMachine}, NEW o, NEW t, Renew(m, o, t)
  PROVE  LeaseFileTypeOK'
<1> USE DEF LeaseFileTypeOK
<1>1. lease[m] # NoLease /\ lease' = [lease EXCEPT ![m].expired = FALSE]
  BY DEF Renew, Holds
<1>2. ASSUME NEW n \in Machines PROVE lease'[n] \in Lease \cup {NoLease}
  <2>1. CASE n = m
    <3>1. lease[n] \in Lease
      BY <1>1, <2>1
    <3>2. lease'[n] = [lease[n] EXCEPT !.expired = FALSE]
      BY <1>1, <2>1
    <3> QED
      BY <3>1, <3>2 DEF Lease
  <2>2. CASE n # m
    BY <1>1, <2>2
  <2> QED
    BY <2>1, <2>2
<1>3. lease' = [n \in Machines |-> lease'[n]]
  BY <1>1
<1> QED
  BY <1>2, <1>3

LEMMA ReleaseType ==
  ASSUME LeaseFileTypeOK, NEW m, NEW o, NEW t, Release(m, o, t)
  PROVE  LeaseFileTypeOK'
  BY DEF LeaseFileTypeOK, Release

LEMMA ExpireType ==
  ASSUME LeaseFileTypeOK, NEW m \in Machines, Expire(m)
  PROVE  LeaseFileTypeOK'
<1>1. lease[m] \in Lease
  BY DEF LeaseFileTypeOK, Expire
<1>2. [lease[m] EXCEPT !.expired = TRUE] \in Lease
  BY <1>1 DEF Lease
<1> QED
  BY <1>2 DEF LeaseFileTypeOK, Expire

(***************************************************************************)
(* Updates of queue entries and of the threads' states.                    *)
(***************************************************************************)
LEMMA SetQueueType ==
  ASSUME QueueTypeOK, NEW r \in Runs, NEW status \in QueueStatuses, SetQueue(r, status)
  PROVE  QueueTypeOK'
<1>1. queue[r] \in QueueEntry /\ queue[r].revision + 1 \in Nat
  BY DEF QueueTypeOK, QueueEntry
<1>2. [queue[r] EXCEPT !.status = status, !.revision = queue[r].revision + 1] \in QueueEntry
  BY <1>1 DEF QueueEntry
<1> QED
  BY <1>2 DEF QueueTypeOK, QueueEntry, SetQueue

\* So does removing or keeping a placement update.
LEMMA TouchType ==
  ASSUME QueueTypeOK, NEW r \in Runs, NEW update \in BOOLEAN, Touch(r, update)
  PROVE  QueueTypeOK'
<1>1. queue[r] \in QueueEntry /\ queue[r].revision + 1 \in Nat
  BY DEF QueueTypeOK, QueueEntry
<1>2. [queue[r] EXCEPT !.update = update, !.revision = queue[r].revision + 1] \in QueueEntry
  BY <1>1 DEF QueueEntry
<1> QED
  BY <1>2 DEF QueueTypeOK, QueueEntry, Touch

LEMMA TaskUpdate ==
  ASSUME TaskTypeOK, NEW d \in Dispatchers, NEW r \in Runs, NEW x \in Task,
         task' = [task EXCEPT ![d][r] = x]
  PROVE  TaskTypeOK'
  BY DEF TaskTypeOK

LEMMA IdleType == Idle \in Task
  BY DEF Idle, Task, Pcs

LEMMA FinishType ==
  ASSUME TaskTypeOK, NEW d \in Dispatchers, NEW r \in Runs, Finish(d, r)
  PROVE  TaskTypeOK'
  BY IdleType, TaskUpdate DEF Finish

LEMMA GotoType ==
  ASSUME TaskTypeOK, NEW d \in Dispatchers, NEW r \in Runs, NEW pc \in Pcs, Goto(d, r, pc)
  PROVE  TaskTypeOK'
<1>1. task[d][r] \in Task
  BY DEF TaskTypeOK
<1>2. [task[d][r] EXCEPT !.pc = pc] \in Task
  BY <1>1 DEF Task
<1>3. task' = [task EXCEPT ![d][r] = [task[d][r] EXCEPT !.pc = pc]]
  BY DEF Goto
<1> QED
  BY <1>2, <1>3, TaskUpdate

(***************************************************************************)
(* Type correctness.                                                       *)
(***************************************************************************)
OtherTypesOK ==
  /\ drained \in SUBSET Machines
  /\ exec \in [Runs -> ExecStatuses]
  /\ site \in [Runs -> Machines \cup {NoMachine}]
  /\ remote \in [Runs -> RemoteStates]
  /\ boots \in [Runs -> Nat]
  /\ phase \in [Dispatchers -> Phases]
  /\ claims \in [Dispatchers -> SUBSET Claim]
  /\ crashes \in Nat

LEMMA TypeParts ==
  TypeOK <=> LeaseFileTypeOK /\ QueueTypeOK /\ TaskTypeOK /\ OtherTypesOK
  BY DEF TypeOK, LeaseTypeOK, LeaseFileTypeOK, QueueTypeOK, TaskTypeOK, OtherTypesOK

LEMMA TypePartsNext ==
  TypeOK' <=> LeaseFileTypeOK' /\ QueueTypeOK' /\ TaskTypeOK' /\ OtherTypesOK'
  BY DEF TypeOK, LeaseTypeOK, LeaseFileTypeOK, QueueTypeOK, TaskTypeOK, OtherTypesOK

LEMMA InitType == Init => TypeOK
<1> SUFFICES ASSUME Init PROVE TypeOK
  OBVIOUS
<1>1. LeaseFileTypeOK /\ QueueTypeOK /\ OtherTypesOK
  BY DEF Init, LeaseInit, LeaseFileTypeOK, QueueTypeOK, OtherTypesOK, QueueStatuses,
         ExecStatuses, RemoteStates, Phases
<1>2. TaskTypeOK
  BY IdleType DEF Init, TaskTypeOK
<1> QED
  BY <1>1, <1>2, TypeParts

LEMMA CycleType ==
  ASSUME TypeOK, NEW d \in Dispatchers, Cycle(d)
  PROVE  TypeOK'
<1> USE TypeParts, TypePartsNext DEF records, LeaseFileTypeOK, QueueTypeOK, TaskTypeOK
<1>1. CASE Start(d) \/ FinishLeases(d) \/ FinishJobs(d) \/ FinishBatch(d) \/ ExitIdle(d)
           \/ StayIdle(d)
  BY <1>1 DEF Start, FinishLeases, FinishJobs, FinishBatch, ExitIdle, StayIdle, Enter, Phases,
              OtherTypesOK
<1>2. CASE BeginCycle(d)
  BY <1>2, DispatchAssumptions
     DEF BeginCycle, Enter, Phases, OtherTypesOK, LeasesOf, Mine, Lease, Claim
<1>3. CASE Plan(d)
  <2>1. PICK f \in Plans(d) :
          IF DOMAIN f = {}
          THEN /\ Enter(d, "idle") \/ Enter(d, "sleep")
               /\ UNCHANGED task
          ELSE /\ Enter(d, "batch")
               /\ task' = [task EXCEPT ![d] = [r \in Runs |->
                    IF r \in DOMAIN f
                    THEN [Idle EXCEPT !.pc = "planned", !.machine = f[r],
                                      !.revision = queue[r].revision,
                                      !.others = Eligible[r] \ (drained \cup Range(f))]
                    ELSE Idle]]
    BY <1>3 DEF Plan
  <2>2. \A r \in DOMAIN f : f[r] \in Machines
    BY DEF Plans
  <2>3. ASSUME NEW r \in Runs, r \in DOMAIN f
        PROVE  [Idle EXCEPT !.pc = "planned", !.machine = f[r], !.revision = queue[r].revision,
                            !.others = Eligible[r] \ (drained \cup Range(f))] \in Task
    <3>1. queue[r].revision \in Nat /\ Eligible[r] \in SUBSET Machines
      BY DispatchAssumptions
    <3> QED
      BY <2>2, <2>3, <3>1 DEF Idle, Task, Pcs
  <2>4. TaskTypeOK'
    <3>1. CASE DOMAIN f = {}
      BY <2>1, <3>1
    <3>2. CASE DOMAIN f # {}
      <4> DEFINE row == [r \in Runs |->
                    IF r \in DOMAIN f
                    THEN [Idle EXCEPT !.pc = "planned", !.machine = f[r],
                                      !.revision = queue[r].revision,
                                      !.others = Eligible[r] \ (drained \cup Range(f))]
                    ELSE Idle]
      <4>1. row \in [Runs -> Task]
        BY <2>3, IdleType
      <4>2. task' = [task EXCEPT ![d] = row]
        BY <2>1, <3>2
      <4>3. TaskTypeOK
        OBVIOUS
      <4> HIDE DEF row
      <4> QED
        BY <4>1, <4>2, <4>3
    <3> QED
      BY <3>1, <3>2
  <2> QED
    BY <1>3, <2>1, <2>4 DEF Plan, Enter, Phases, OtherTypesOK
<1>4. ASSUME NEW c \in claims[d], ReconcileLease(d, c) PROVE TypeOK'
  <2>1. LeaseFileTypeOK'
    BY <1>4, ReleaseType DEF ReconcileLease
  <2>2. OtherTypesOK'
    BY <1>4 DEF ReconcileLease, OtherTypesOK
  <2> QED
    BY <1>4, <2>1, <2>2 DEF ReconcileLease
<1> QED
  BY <1>1, <1>2, <1>3, <1>4 DEF Cycle

(***************************************************************************)
(* A step that changes only task, or only task and one more file, keeps    *)
(* the types if what it changes keeps them.                                *)
(***************************************************************************)
LEMMA Assemble ==
  ASSUME LeaseFileTypeOK', QueueTypeOK', TaskTypeOK', OtherTypesOK'
  PROVE  TypeOK'
  BY TypePartsNext

LEMMA RecoveryType ==
  ASSUME TypeOK, NEW d \in Dispatchers, NEW r \in Runs, Recovery(d, r)
  PROVE  TypeOK'
<1>0. LeaseFileTypeOK /\ QueueTypeOK /\ TaskTypeOK /\ OtherTypesOK
  BY TypeParts
<1>t. task[d][r] \in Task
  BY <1>0 DEF TaskTypeOK
<1>1. CASE PickDispatching(d, r)
  <2>1. [Idle EXCEPT !.pc = IF exec[r] = "none" THEN "norecord" ELSE "found",
                     !.revision = queue[r].revision] \in Task
    BY <1>0, IdleType DEF Idle, Task, Pcs, QueueTypeOK
  <2>2. TaskTypeOK'
    BY <1>0, <1>1, <2>1, TaskUpdate DEF PickDispatching
  <2>3. LeaseFileTypeOK' /\ QueueTypeOK' /\ OtherTypesOK'
    BY <1>0, <1>1 DEF PickDispatching, records, LeaseFileTypeOK, QueueTypeOK, OtherTypesOK
  <2> QED
    BY <2>2, <2>3, Assemble
<1>2. CASE CommitFound(d, r) \/ RecoverQueue(d, r)
  <2>1. TaskTypeOK'
    BY <1>0, <1>2, FinishType DEF CommitFound, RecoverQueue
  <2>2. QueueTypeOK'
    BY <1>0, <1>2, SetQueueType DEF CommitFound, RecoverQueue, QueueStatuses, QueueTypeOK
  <2>3. LeaseFileTypeOK' /\ OtherTypesOK'
    BY <1>0, <1>2
       DEF CommitFound, RecoverQueue, LeaseFileTypeOK, OtherTypesOK, Enter, Phases
  <2> QED
    BY <2>1, <2>2, <2>3, Assemble
<1>3. CASE RecoverBusy(d, r) \/ RecoverRaises(d, r)
  <2>1. TaskTypeOK'
    BY <1>0, <1>3, FinishType DEF RecoverBusy, RecoverRaises
  <2>2. LeaseFileTypeOK' /\ QueueTypeOK' /\ OtherTypesOK'
    BY <1>0, <1>3 DEF RecoverBusy, RecoverRaises, records, LeaseFileTypeOK, QueueTypeOK,
                      OtherTypesOK, Enter, Phases
  <2> QED
    BY <2>1, <2>2, Assemble
<1>4. CASE RecoverFence(d, r)
  <2>1. PICK m \in Machines, t \in Tokens :
          /\ Acquire(m, r, "dispatch", t, AuthorityGone)
          /\ task' = [task EXCEPT ![d][r] =
                        [@ EXCEPT !.pc = "fenced", !.machine = m, !.token = t]]
    BY <1>4 DEF RecoverFence
  <2>2. LeaseFileTypeOK'
    BY <1>0, <2>1, AcquireType, DispatchAssumptions DEF Kinds
  <2>3. [task[d][r] EXCEPT !.pc = "fenced", !.machine = m, !.token = t] \in Task
    BY <1>t DEF Task, Pcs
  <2>4. TaskTypeOK'
    BY <1>0, <2>1, <2>3, TaskUpdate
  <2>5. QueueTypeOK' /\ OtherTypesOK'
    BY <1>0, <1>4 DEF RecoverFence, records, QueueTypeOK, OtherTypesOK
  <2> QED
    BY <2>2, <2>4, <2>5, Assemble
<1>5. CASE RecoverUnfence(d, r)
  <2>1. LeaseFileTypeOK'
    BY <1>0, <1>5, ReleaseType DEF RecoverUnfence
  <2>2. [task[d][r] EXCEPT !.pc = "recover", !.machine = NoMachine, !.token = 0] \in Task
    BY <1>t DEF Task, Pcs
  <2>3. TaskTypeOK'
    BY <1>0, <1>5, <2>2, TaskUpdate DEF RecoverUnfence
  <2>4. QueueTypeOK' /\ OtherTypesOK'
    BY <1>0, <1>5 DEF RecoverUnfence, records, QueueTypeOK, OtherTypesOK
  <2> QED
    BY <2>1, <2>3, <2>4, Assemble
<1>6. CASE RecoverUnleased(d, r)
  <2>1. TaskTypeOK'
    BY <1>0, <1>6, GotoType DEF RecoverUnleased, Pcs
  <2>2. LeaseFileTypeOK' /\ QueueTypeOK' /\ OtherTypesOK'
    BY <1>0, <1>6 DEF RecoverUnleased, records, LeaseFileTypeOK, QueueTypeOK, OtherTypesOK
  <2> QED
    BY <2>1, <2>2, Assemble
<1> QED
  BY <1>1, <1>2, <1>3, <1>4, <1>5, <1>6 DEF Recovery

LEMMA NextCandidateType ==
  ASSUME TaskTypeOK, NEW d \in Dispatchers, NEW r \in Runs, NextCandidate(d, r)
  PROVE  TaskTypeOK'
<1>1. CASE Finish(d, r)
  BY <1>1, FinishType
<1>2. ASSUME NEW m \in task[d][r].others,
             task' = [task EXCEPT ![d][r] =
                        [@ EXCEPT !.pc = "planned", !.machine = m, !.token = 0,
                                  !.others = task[d][r].others \ {m}]]
      PROVE  TaskTypeOK'
  <2>1. task[d][r] \in Task /\ m \in Machines
    BY DEF TaskTypeOK, Task
  <2> DEFINE x == [task[d][r] EXCEPT !.pc = "planned", !.machine = m, !.token = 0,
                                     !.others = task[d][r].others \ {m}]
  <2>2. x \in Task
    BY <2>1 DEF Task, Pcs
  <2>3. task' = [task EXCEPT ![d][r] = x]
    BY <1>2
  <2> HIDE DEF x
  <2> QED
    BY <2>2, <2>3, TaskUpdate
<1> QED
  BY <1>1, <1>2 DEF NextCandidate

LEMMA ReservationType ==
  ASSUME TypeOK, NEW d \in Dispatchers, NEW r \in Runs, Reservation(d, r)
  PROVE  TypeOK'
<1>0. LeaseFileTypeOK /\ QueueTypeOK /\ TaskTypeOK /\ OtherTypesOK
  BY TypeParts
<1>t. task[d][r] \in Task
  BY <1>0 DEF TaskTypeOK
<1>1. CASE Reserve(d, r)
  <2>1. ASSUME NEW t \in Tokens,
               Acquire(task[d][r].machine, r, "dispatch", t, AuthorityGone),
               task' = [task EXCEPT ![d][r] = [@ EXCEPT !.pc = "leased", !.token = t]]
        PROVE  LeaseFileTypeOK' /\ TaskTypeOK'
    <3>1. [task[d][r] EXCEPT !.pc = "leased", !.token = t] \in Task
      BY <1>t DEF Task, Pcs
    <3>2. TaskTypeOK'
      BY <1>0, <2>1, <3>1, TaskUpdate
    <3>3. [owner |-> r, token |-> t, kind |-> "dispatch", expired |-> FALSE] \in Lease
      BY DispatchAssumptions DEF Lease, Kinds
    <3> QED
      BY <1>0, <2>1, <3>2, <3>3 DEF Acquire, LeaseFileTypeOK
  <2>2. ASSUME NextCandidate(d, r), UNCHANGED lease
        PROVE  LeaseFileTypeOK' /\ TaskTypeOK'
    BY <1>0, <2>2, NextCandidateType DEF LeaseFileTypeOK
  <2>3. LeaseFileTypeOK' /\ TaskTypeOK'
    BY <1>1, <2>1, <2>2 DEF Reserve
  <2>4. QueueTypeOK' /\ OtherTypesOK'
    BY <1>0, <1>1 DEF Reserve, records, QueueTypeOK, OtherTypesOK
  <2> QED
    BY <2>3, <2>4, Assemble
<1>2. CASE ProbeReserved(d, r)
  <2>1. [task[d][r] EXCEPT !.pc = "reserved", !.others = {}] \in Task
    BY <1>t DEF Task, Pcs
  <2>2. TaskTypeOK'
    <3>1. CASE task' = [task EXCEPT ![d][r] = [@ EXCEPT !.pc = "reserved", !.others = {}]]
      BY <1>0, <2>1, <3>1, TaskUpdate
    <3> QED
      BY <1>0, <1>2, <3>1, NextCandidateType DEF ProbeReserved
  <2>3. LeaseFileTypeOK'
    BY <1>0, <1>2, ReleaseType DEF ProbeReserved, LeaseFileTypeOK
  <2>4. QueueTypeOK' /\ OtherTypesOK'
    BY <1>0, <1>2 DEF ProbeReserved, records, QueueTypeOK, OtherTypesOK
  <2> QED
    BY <2>2, <2>3, <2>4, Assemble
<1>3. CASE Mark(d, r)
  <2> DEFINE x == [task[d][r] EXCEPT !.pc = "marked", !.revision = task[d][r].revision + 1]
  <2>1. x \in Task
    <3>1. task[d][r].revision + 1 \in Nat
      BY <1>t DEF Task
    <3> QED
      BY <1>t, <3>1 DEF Task, Pcs
  <2>2. TaskTypeOK'
    <3>1. CASE task' = [task EXCEPT ![d][r] = x]
      <4> HIDE DEF x
      <4> QED
        BY <1>0, <2>1, <3>1, TaskUpdate
    <3>2. CASE Goto(d, r, "release")
      BY <1>0, <3>2, GotoType DEF Pcs
    <3> QED
      BY <1>3, <3>1, <3>2 DEF Mark
  <2>3. QueueTypeOK'
    <3>1. CASE SetQueue(r, "dispatching")
      BY <1>0, <3>1, SetQueueType DEF QueueStatuses
    <3> QED
      BY <1>0, <1>3, <3>1 DEF Mark, QueueTypeOK
  <2>4. LeaseFileTypeOK' /\ OtherTypesOK'
    BY <1>0, <1>3 DEF Mark, LeaseFileTypeOK, OtherTypesOK
  <2> QED
    BY <2>2, <2>3, <2>4, Assemble
<1>4. CASE MarkRaises(d, r)
  <2>1. ASSUME NEW x \in Task PROVE [x EXCEPT !.pc = "release"] \in Task
    BY DEF Task, Pcs
  <2>2. TaskTypeOK'
    BY <1>0, <1>4, <2>1, IdleType DEF MarkRaises, TaskTypeOK
  <2>3. LeaseFileTypeOK' /\ QueueTypeOK' /\ OtherTypesOK'
    BY <1>0, <1>4 DEF MarkRaises, records, LeaseFileTypeOK, QueueTypeOK, OtherTypesOK
  <2> QED
    BY <2>2, <2>3, Assemble
<1> QED
  BY <1>1, <1>2, <1>3, <1>4 DEF Reservation

LEMMA AssertOwnedType ==
  ASSUME LeaseFileTypeOK, TaskTypeOK, NEW d \in Dispatchers, NEW r \in Runs,
         NEW next \in Pcs, NEW lost \in Pcs, AssertOwned(d, r, next, lost)
  PROVE  LeaseFileTypeOK' /\ TaskTypeOK'
<1>1. TaskTypeOK'
  BY GotoType DEF AssertOwned
<1>2. task[d][r].machine \in Machines \cup {NoMachine}
  BY DEF TaskTypeOK, Task
<1>3. LeaseFileTypeOK'
  BY <1>2, RenewType DEF AssertOwned, LeaseFileTypeOK
<1> QED
  BY <1>1, <1>3

LEMMA LaunchType ==
  ASSUME TypeOK, NEW d \in Dispatchers, NEW r \in Runs, Launch(d, r)
  PROVE  TypeOK'
<1>0. LeaseFileTypeOK /\ QueueTypeOK /\ TaskTypeOK /\ OtherTypesOK
  BY TypeParts
<1>t. task[d][r] \in Task
  BY <1>0 DEF TaskTypeOK
<1>g. ASSUME NEW pc \in Pcs, Goto(d, r, pc) PROVE TaskTypeOK'
  BY <1>0, <1>g, GotoType
<1>1. CASE Prepare(d, r) \/ AssertRegistered(d, r) \/ AssertLaunched(d, r)
  <2>1. ASSUME NEW next \in Pcs, NEW lost \in Pcs, AssertOwned(d, r, next, lost)
        PROVE  LeaseFileTypeOK' /\ TaskTypeOK'
    BY <1>0, <2>1, AssertOwnedType
  <2>2. LeaseFileTypeOK' /\ TaskTypeOK'
    BY <1>0, <1>1, <1>g, <2>1
       DEF Prepare, AssertRegistered, AssertLaunched, DiskFails, Pcs, LeaseFileTypeOK
  <2>3. QueueTypeOK' /\ OtherTypesOK'
    BY <1>0, <1>1
       DEF Prepare, AssertRegistered, AssertLaunched, records, QueueTypeOK, OtherTypesOK
  <2> QED
    BY <2>2, <2>3, Assemble
<1>2. CASE Register(d, r)
  <2>1. TaskTypeOK'
    BY <1>2, <1>g DEF Register, Pcs
  <2>2. task[d][r].machine \in Machines \cup {NoMachine}
    BY <1>t DEF Task
  <2>3. LeaseFileTypeOK' /\ QueueTypeOK' /\ OtherTypesOK'
    BY <1>0, <1>2, <2>2
       DEF Register, LeaseFileTypeOK, QueueTypeOK, OtherTypesOK, ExecStatuses
  <2> QED
    BY <2>1, <2>3, Assemble
<1>3. CASE StartBootstrap(d, r)
  <2>1. TaskTypeOK'
    BY <1>3, <1>g DEF StartBootstrap, Pcs
  <2>2. remote' \in [Runs -> RemoteStates] /\ boots' \in [Runs -> Nat]
    BY <1>0, <1>3
       DEF StartBootstrap, OtherTypesOK, RemoteStates, RemoteAlive, RemoteOutstanding
  <2>3. LeaseFileTypeOK' /\ QueueTypeOK' /\ OtherTypesOK'
    BY <1>0, <1>3, <2>2 DEF StartBootstrap, LeaseFileTypeOK, QueueTypeOK, OtherTypesOK
  <2> QED
    BY <2>1, <2>3, Assemble
<1>4. CASE LaunchOk(d, r) \/ FailExecution(d, r)
  <2>1. TaskTypeOK'
    BY <1>4, <1>g DEF LaunchOk, FailExecution, DiskFails, Pcs
  <2>2. LeaseFileTypeOK' /\ QueueTypeOK' /\ OtherTypesOK'
    BY <1>0, <1>4
       DEF LaunchOk, FailExecution, LeaseFileTypeOK, QueueTypeOK, OtherTypesOK, ExecStatuses,
           ExecTerminal
  <2> QED
    BY <2>1, <2>2, Assemble
<1>5. CASE LaunchRejected(d, r) \/ LaunchUnknown(d, r) \/ ReadFailing(d, r)
  <2>1. TaskTypeOK'
    BY <1>5, <1>g DEF LaunchRejected, LaunchUnknown, ReadFailing, Pcs
  <2>2. LeaseFileTypeOK' /\ QueueTypeOK' /\ OtherTypesOK'
    BY <1>0, <1>5
       DEF LaunchRejected, LaunchUnknown, ReadFailing, records, LeaseFileTypeOK, QueueTypeOK,
           OtherTypesOK
  <2> QED
    BY <2>1, <2>2, Assemble
<1>6. CASE Commit(d, r) \/ CommitUnknown(d, r) \/ FailQueue(d, r)
  <2>1. TaskTypeOK'
    BY <1>0, <1>6, <1>g, FinishType DEF Commit, CommitUnknown, FailQueue, DiskFails, Pcs
  <2>2. ASSUME NEW status \in QueueStatuses, SetQueue(r, status) PROVE QueueTypeOK'
    BY <1>0, <2>2, SetQueueType
  <2>3. QueueTypeOK'
    BY <1>0, <1>6, <2>2
       DEF Commit, CommitUnknown, FailQueue, QueueStatuses, QueueTypeOK
  <2>4. LeaseFileTypeOK' /\ OtherTypesOK'
    BY <1>0, <1>6 DEF Commit, CommitUnknown, FailQueue, LeaseFileTypeOK, OtherTypesOK
  <2> QED
    BY <2>1, <2>3, <2>4, Assemble
<1>7. CASE Unknown(d, r)
  <2>1. TaskTypeOK'
    BY <1>7, <1>g DEF Unknown, Pcs
  <2>2. task[d][r].machine \in Machines \cup {NoMachine}
    BY <1>t DEF Task
  <2>3. LeaseFileTypeOK'
    BY <1>0, <1>7, <2>2, RenewType DEF Unknown, LeaseFileTypeOK
  <2>4. QueueTypeOK' /\ OtherTypesOK'
    BY <1>0, <1>7 DEF Unknown, records, QueueTypeOK, OtherTypesOK
  <2> QED
    BY <2>1, <2>3, <2>4, Assemble
<1>8. CASE ReleaseLease(d, r)
  <2>1. TaskTypeOK' /\ LeaseFileTypeOK'
    BY <1>0, <1>8, FinishType, ReleaseType DEF ReleaseLease
  <2>2. QueueTypeOK' /\ OtherTypesOK'
    BY <1>0, <1>8 DEF ReleaseLease, records, QueueTypeOK, OtherTypesOK
  <2> QED
    BY <2>1, <2>2, Assemble
<1> QED
  BY <1>1, <1>2, <1>3, <1>4, <1>5, <1>6, <1>7, <1>8 DEF Launch

LEMMA SurroundingsType ==
  ASSUME TypeOK, Surroundings
  PROVE  TypeOK'
<1>0. LeaseFileTypeOK /\ QueueTypeOK /\ TaskTypeOK /\ OtherTypesOK
  BY TypeParts
<1>1. ASSUME NEW r \in Runs,
             \/ Submit(r) \/ StopQueued(r) \/ PurgeQueue(r)
             \/ ReserveUpdate(r) \/ Edit(r) \/ ReleaseUpdate(r)
      PROVE  TypeOK'
  <2>1. QueueTypeOK'
    <3>1. ASSUME NEW status \in QueueStatuses,
                 queue' = [queue EXCEPT ![r].status = status]
          PROVE  QueueTypeOK'
      BY <1>0, <3>1 DEF QueueTypeOK
    <3>2. ASSUME NEW status \in QueueStatuses, SetQueue(r, status) PROVE QueueTypeOK'
      BY <1>0, <3>2, SetQueueType
    <3>3. ASSUME NEW update \in BOOLEAN, Touch(r, update) PROVE QueueTypeOK'
      BY <1>0, <3>3, TouchType
    <3>4. CASE ReserveUpdate(r) \/ Edit(r) \/ ReleaseUpdate(r)
      <4>1. queue[r].update \in BOOLEAN
        BY <1>0 DEF QueueTypeOK
      <4>2. \E update \in BOOLEAN : Touch(r, update)
        BY <3>4, <4>1 DEF ReserveUpdate, Edit, ReleaseUpdate
      <4> QED
        BY <3>3, <4>2
    <3> QED
      BY <1>1, <3>1, <3>2, <3>4 DEF Submit, StopQueued, PurgeQueue, QueueStatuses
  <2>2. LeaseFileTypeOK' /\ TaskTypeOK' /\ OtherTypesOK'
    BY <1>0, <1>1 DEF Submit, ReserveUpdate, Edit, ReleaseUpdate, StopQueued, PurgeQueue,
                      LeaseFileTypeOK, TaskTypeOK, OtherTypesOK
  <2> QED
    BY <2>1, <2>2, Assemble
<1>2. ASSUME NEW r \in Runs,
             StopExecution(r) \/ Monitor(r) \/ RemoteStep(r) \/ PurgeExecution(r)
      PROVE  TypeOK'
  <2>1. remote[r] \in RemoteStates
    BY <1>0 DEF OtherTypesOK
  <2>2. CASE StopExecution(r)
    <3>1. StopOutcomes(r)[1] \in RemoteStates /\ StopOutcomes(r)[2] \in ExecStatuses
      BY <2>1 DEF StopOutcomes, RemoteStates, RemoteAlive, RemoteOutstanding, ExecStatuses,
                  ExecTerminal
    <3>2. OtherTypesOK'
      BY <1>0, <2>2, <3>1 DEF StopExecution, OtherTypesOK
    <3>3. LeaseFileTypeOK' /\ QueueTypeOK' /\ TaskTypeOK'
      BY <1>0, <2>2 DEF StopExecution, LeaseFileTypeOK, QueueTypeOK, TaskTypeOK
    <3> QED
      BY <3>2, <3>3, Assemble
  <2>3. CASE Monitor(r) \/ PurgeExecution(r)
    <3>1. OtherTypesOK'
      BY <1>0, <2>3 DEF Monitor, PurgeExecution, OtherTypesOK, ExecStatuses, ExecTerminal
    <3>2. LeaseFileTypeOK' /\ QueueTypeOK' /\ TaskTypeOK'
      BY <1>0, <2>3 DEF Monitor, PurgeExecution, LeaseFileTypeOK, QueueTypeOK, TaskTypeOK
    <3> QED
      BY <3>1, <3>2, Assemble
  <2>4. CASE RemoteStep(r)
    <3>1. OtherTypesOK'
      BY <1>0, <2>4 DEF RemoteStep, OtherTypesOK
    <3>2. LeaseFileTypeOK' /\ QueueTypeOK' /\ TaskTypeOK'
      BY <1>0, <2>4 DEF RemoteStep, LeaseFileTypeOK, QueueTypeOK, TaskTypeOK
    <3> QED
      BY <3>1, <3>2, Assemble
  <2> QED
    BY <1>2, <2>2, <2>3, <2>4
<1>3. ASSUME NEW m \in Machines, ExpireLease(m) \/ Drain(m)
      PROVE  TypeOK'
  <2>1. LeaseFileTypeOK'
    BY <1>0, <1>3, ExpireType DEF ExpireLease, Drain, LeaseFileTypeOK
  <2>2. QueueTypeOK' /\ TaskTypeOK' /\ OtherTypesOK'
    BY <1>0, <1>3 DEF ExpireLease, Drain, SetDrained, records, QueueTypeOK, TaskTypeOK,
                      OtherTypesOK
  <2> QED
    BY <2>1, <2>2, Assemble
<1>4. ASSUME NEW d \in Dispatchers, Crash(d) \/ ExitOneShot(d)
      PROVE  TypeOK'
  <2>1. TaskTypeOK'
    <3>1. CASE Crash(d)
      <4>1. [r \in Runs |-> Idle] \in [Runs -> Task]
        BY IdleType
      <4> QED
        BY <1>0, <3>1, <4>1 DEF Crash, TaskTypeOK
    <3> QED
      BY <1>0, <1>4, <3>1 DEF ExitOneShot, TaskTypeOK
  <2>2. LeaseFileTypeOK' /\ QueueTypeOK' /\ OtherTypesOK'
    BY <1>0, <1>4 DEF Crash, ExitOneShot, Enter, Phases, records, LeaseFileTypeOK, QueueTypeOK,
                      OtherTypesOK
  <2> QED
    BY <2>1, <2>2, Assemble
<1>5. ASSUME NEW d \in Dispatchers, NEW r \in Runs, Heartbeat(d, r)
      PROVE  TypeOK'
  <2>1. task[d][r] \in Task
    BY <1>0 DEF TaskTypeOK
  <2>2. LeaseFileTypeOK'
    <3>1. task[d][r].machine \in Machines \cup {NoMachine}
      BY <2>1 DEF Task
    <3> QED
      BY <1>0, <1>5, <3>1, RenewType DEF Heartbeat, LeaseFileTypeOK
  <2>3. TaskTypeOK'
    <3> DEFINE x == [task[d][r] EXCEPT !.heartbeat = FALSE]
    <3>1. x \in Task
      BY <2>1 DEF Task
    <3>2. UNCHANGED task \/ task' = [task EXCEPT ![d][r] = x]
      BY <1>5 DEF Heartbeat
    <3> HIDE DEF x
    <3> QED
      BY <1>0, <3>1, <3>2, TaskUpdate DEF TaskTypeOK
  <2>4. QueueTypeOK' /\ OtherTypesOK'
    BY <1>0, <1>5 DEF Heartbeat, records, QueueTypeOK, OtherTypesOK
  <2> QED
    BY <2>2, <2>3, <2>4, Assemble
<1> QED
  BY <1>1, <1>2, <1>3, <1>4, <1>5 DEF Surroundings

\* The variables stay within their types: leases, queue entries, execution
\* records and the dispatchers' threads are well formed in every state.
THEOREM TypeCorrect == Spec => []TypeOK
<1>1. ASSUME TypeOK, [Next]_vars PROVE TypeOK'
  <2>1. CASE Next
    BY <1>1, <2>1, CycleType, RecoveryType, ReservationType, LaunchType, SurroundingsType
       DEF Next, Dispatcher
  <2>2. CASE UNCHANGED vars
    <3>1. LeaseFileTypeOK /\ QueueTypeOK /\ TaskTypeOK /\ OtherTypesOK
      BY <1>1, TypeParts
    <3>2. LeaseFileTypeOK' /\ QueueTypeOK' /\ TaskTypeOK' /\ OtherTypesOK'
      BY <2>2, <3>1 DEF vars, LeaseFileTypeOK, QueueTypeOK, TaskTypeOK, OtherTypesOK
    <3> QED
      BY <3>2, Assemble
  <2> QED
    BY <1>1, <2>1, <2>2
<1> QED
  BY <1>1, InitType, PTL DEF Spec

(***************************************************************************)
(* Launching.  The two properties below rest on the few steps that move a  *)
(* thread to or from the pcs between the registration of an execution and  *)
(* the end of its bootstrap; every other step is quiet.                    *)
(***************************************************************************)
Holding == {"registered", "ready"}
Launching == Holding \cup {"launching"}

Quiet ==
  /\ UNCHANGED <<exec, boots>>
  /\ \A d \in Dispatchers, r \in Runs :
       task'[d][r].pc = task[d][r].pc \/ task'[d][r].pc \notin Launching

Moved(d, r, pc) ==
  /\ task'[d][r].pc = pc
  /\ \A e \in Dispatchers, s \in Runs : <<e, s>> # <<d, r>> => task'[e][s] = task[e][s]

\* A bootstrap program is still to be sent only by the one thread that
\* registered the run's execution, and only while none has been sent.
OneSender ==
  /\ \A r \in Runs \ Cleaned :
       /\ boots[r] <= 1
       /\ exec[r] = "none" => boots[r] = 0
       /\ \A d \in Dispatchers :
            task[d][r].pc \in Holding => exec[r] # "none" /\ boots[r] = 0
  /\ \A r \in Runs \ Cleaned, d, e \in Dispatchers :
       task[d][r].pc \in Holding /\ task[e][r].pc \in Holding => d = e

\* The run lock: one thread at a time waits for a run's bootstrap, and the
\* run's execution record is "registered" for as long as it does.
OneLauncher ==
  /\ \A r \in Runs, d \in Dispatchers : At(d, r, "launching") => exec[r] = "registered"
  /\ \A r \in Runs, d, e \in Dispatchers : At(d, r, "launching") /\ At(e, r, "launching") => d = e

LEMMA GotoMoves ==
  ASSUME TaskTypeOK, NEW d \in Dispatchers, NEW r \in Runs, NEW pc, Goto(d, r, pc)
  PROVE  Moved(d, r, pc)
<1>1. task[d][r] \in Task
  BY DEF TaskTypeOK
<1>2. [task[d][r] EXCEPT !.pc = pc].pc = pc
  BY <1>1 DEF Task
<1>3. task' = [task EXCEPT ![d][r] = [task[d][r] EXCEPT !.pc = pc]]
  BY DEF Goto
<1>4. task'[d][r].pc = pc
  BY <1>2, <1>3 DEF TaskTypeOK
<1>5. ASSUME NEW e \in Dispatchers, NEW s \in Runs, <<e, s>> # <<d, r>>
      PROVE  task'[e][s] = task[e][s]
  BY <1>3, <1>5 DEF TaskTypeOK
<1> QED
  BY <1>4, <1>5 DEF Moved

LEMMA QuietGoto ==
  ASSUME TaskTypeOK, NEW d \in Dispatchers, NEW r \in Runs, NEW pc, pc \notin Launching,
         Goto(d, r, pc), UNCHANGED <<exec, boots>>
  PROVE  Quiet
<1>1. Moved(d, r, pc)
  BY GotoMoves
<1>2. ASSUME NEW e \in Dispatchers, NEW s \in Runs
      PROVE  task'[e][s].pc = task[e][s].pc \/ task'[e][s].pc \notin Launching
  BY <1>1 DEF Moved
<1> QED
  BY <1>2 DEF Quiet

LEMMA QuietUpdate ==
  ASSUME TaskTypeOK, NEW d \in Dispatchers, NEW r \in Runs, NEW x, x.pc \notin Launching,
         task' = [task EXCEPT ![d][r] = x], UNCHANGED <<exec, boots>>
  PROVE  Quiet
<1>1. ASSUME NEW e \in Dispatchers, NEW s \in Runs
      PROVE  task'[e][s].pc = task[e][s].pc \/ task'[e][s].pc \notin Launching
  BY DEF TaskTypeOK
<1> QED
  BY <1>1 DEF Quiet

LEMMA QuietRest == ASSUME UNCHANGED <<exec, boots, task>> PROVE Quiet
  BY DEF Quiet

LEMMA IdleQuiet == Idle.pc \notin Launching
  BY DEF Idle, Launching, Holding

LEMMA CycleQuiet ==
  ASSUME TaskTypeOK, NEW d \in Dispatchers, Cycle(d)
  PROVE  Quiet
<1>1. CASE Plan(d)
  <2>1. UNCHANGED <<exec, boots>>
    BY <1>1 DEF Plan, records
  <2>2. PICK f \in Plans(d) :
          \/ UNCHANGED task
          \/ task' = [task EXCEPT ![d] = [r \in Runs |->
               IF r \in DOMAIN f
               THEN [Idle EXCEPT !.pc = "planned", !.machine = f[r],
                                 !.revision = queue[r].revision,
                                 !.others = Eligible[r] \ (drained \cup Range(f))]
               ELSE Idle]]
    BY <1>1 DEF Plan
  <2> DEFINE row == [r \in Runs |->
                IF r \in DOMAIN f
                THEN [Idle EXCEPT !.pc = "planned", !.machine = f[r],
                                  !.revision = queue[r].revision,
                                  !.others = Eligible[r] \ (drained \cup Range(f))]
                ELSE Idle]
  <2>3. ASSUME NEW s \in Runs PROVE row[s].pc \notin Launching
    BY IdleQuiet DEF Idle, Launching, Holding
  <2>4. UNCHANGED task \/ task' = [task EXCEPT ![d] = row]
    BY <2>2
  <2> HIDE DEF row
  <2>5. ASSUME NEW e \in Dispatchers, NEW s \in Runs
        PROVE  task'[e][s].pc = task[e][s].pc \/ task'[e][s].pc \notin Launching
    BY <2>3, <2>4 DEF TaskTypeOK
  <2> QED
    BY <2>1, <2>5 DEF Quiet
<1>2. CASE ~Plan(d)
  <2>1. UNCHANGED <<exec, boots, task>>
    BY <1>2 DEF Cycle, Start, BeginCycle, FinishLeases, FinishJobs, FinishBatch, ExitIdle,
                StayIdle, ReconcileLease, records
  <2> QED
    BY <2>1, QuietRest
<1> QED
  BY <1>1, <1>2

LEMMA RecoveryQuiet ==
  ASSUME TaskTypeOK, NEW d \in Dispatchers, NEW r \in Runs, Recovery(d, r)
  PROVE  Quiet
<1>0. UNCHANGED <<exec, boots>>
  BY DEF Recovery, PickDispatching, CommitFound, RecoverBusy, RecoverRaises, RecoverFence,
         RecoverUnfence, RecoverUnleased, RecoverQueue, records
<1>t. task[d][r] \in Task
  BY DEF TaskTypeOK
<1>1. CASE PickDispatching(d, r)
  <2>1. [Idle EXCEPT !.pc = IF exec[r] = "none" THEN "norecord" ELSE "found",
                     !.revision = queue[r].revision].pc \notin Launching
    BY DEF Idle, Launching, Holding
  <2> QED
    BY <1>0, <1>1, <2>1, QuietUpdate DEF PickDispatching
<1>2. CASE CommitFound(d, r) \/ RecoverQueue(d, r) \/ RecoverBusy(d, r) \/ RecoverRaises(d, r)
  BY <1>0, <1>2, QuietUpdate, IdleQuiet
     DEF CommitFound, RecoverQueue, RecoverBusy, RecoverRaises, Finish
<1>3. CASE RecoverFence(d, r)
  <2>1. PICK m \in Machines, t \in Tokens :
          task' = [task EXCEPT ![d][r] =
                     [@ EXCEPT !.pc = "fenced", !.machine = m, !.token = t]]
    BY <1>3 DEF RecoverFence
  <2>2. [task[d][r] EXCEPT !.pc = "fenced", !.machine = m, !.token = t].pc \notin Launching
    BY <1>t DEF Task, Launching, Holding
  <2> QED
    BY <1>0, <2>1, <2>2, QuietUpdate
<1>4. CASE RecoverUnfence(d, r)
  <2>1. [task[d][r] EXCEPT !.pc = "recover", !.machine = NoMachine, !.token = 0].pc
          \notin Launching
    BY <1>t DEF Task, Launching, Holding
  <2> QED
    BY <1>0, <1>4, <2>1, QuietUpdate DEF RecoverUnfence
<1>5. CASE RecoverUnleased(d, r)
  BY <1>0, <1>5, QuietGoto DEF RecoverUnleased, Launching, Holding
<1> QED
  BY <1>1, <1>2, <1>3, <1>4, <1>5 DEF Recovery

LEMMA NextCandidateQuiet ==
  ASSUME TaskTypeOK, NEW d \in Dispatchers, NEW r \in Runs, NextCandidate(d, r),
         UNCHANGED <<exec, boots>>
  PROVE  Quiet
<1>1. CASE Finish(d, r)
  BY <1>1, QuietUpdate, IdleQuiet DEF Finish
<1>2. ASSUME NEW m \in task[d][r].others,
             task' = [task EXCEPT ![d][r] =
                        [@ EXCEPT !.pc = "planned", !.machine = m, !.token = 0,
                                  !.others = task[d][r].others \ {m}]]
      PROVE  Quiet
  <2> DEFINE x == [task[d][r] EXCEPT !.pc = "planned", !.machine = m, !.token = 0,
                                     !.others = task[d][r].others \ {m}]
  <2>1. task[d][r] \in Task
    BY DEF TaskTypeOK
  <2>2. x.pc \notin Launching
    BY <2>1 DEF Task, Launching, Holding
  <2>3. task' = [task EXCEPT ![d][r] = x]
    BY <1>2
  <2> HIDE DEF x
  <2> QED
    BY <2>2, <2>3, QuietUpdate
<1> QED
  BY <1>1, <1>2 DEF NextCandidate

LEMMA ReservationQuiet ==
  ASSUME TaskTypeOK, NEW d \in Dispatchers, NEW r \in Runs, Reservation(d, r)
  PROVE  Quiet
<1>0. UNCHANGED <<exec, boots>>
  BY DEF Reservation, Reserve, ProbeReserved, Mark, MarkRaises, records
<1>t. task[d][r] \in Task
  BY DEF TaskTypeOK
<1>1. CASE Reserve(d, r)
  <2>1. ASSUME NEW t \in Tokens,
               task' = [task EXCEPT ![d][r] = [@ EXCEPT !.pc = "leased", !.token = t]]
        PROVE  Quiet
    <3>1. [task[d][r] EXCEPT !.pc = "leased", !.token = t].pc \notin Launching
      BY <1>t DEF Task, Launching, Holding
    <3> QED
      BY <1>0, <2>1, <3>1, QuietUpdate
  <2> QED
    BY <1>0, <1>1, <2>1, NextCandidateQuiet DEF Reserve
<1>2. CASE ProbeReserved(d, r)
  <2>1. [task[d][r] EXCEPT !.pc = "reserved", !.others = {}].pc \notin Launching
    BY <1>t DEF Task, Launching, Holding
  <2> QED
    BY <1>0, <1>2, <2>1, QuietUpdate, NextCandidateQuiet DEF ProbeReserved
<1>3. CASE Mark(d, r)
  <2> DEFINE x == [task[d][r] EXCEPT !.pc = "marked", !.revision = task[d][r].revision + 1]
  <2>1. x.pc \notin Launching
    BY <1>t DEF Task, Launching, Holding
  <2>2. task' = [task EXCEPT ![d][r] = x] \/ Goto(d, r, "release")
    BY <1>3 DEF Mark
  <2> HIDE DEF x
  <2> QED
    BY <1>0, <2>1, <2>2, QuietUpdate, QuietGoto DEF Launching, Holding
<1>4. CASE MarkRaises(d, r)
  <2>1. ASSUME NEW e \in Dispatchers, NEW s \in Runs
        PROVE  task'[e][s].pc = task[e][s].pc \/ task'[e][s].pc \notin Launching
    <3>1. task[e][s] \in Task
      BY DEF TaskTypeOK
    <3>2. [task[e][s] EXCEPT !.pc = "release"].pc \notin Launching
      BY <3>1 DEF Task, Launching, Holding
    <3>3. task'[e][s] \in {task[e][s], Idle, [task[e][s] EXCEPT !.pc = "release"]}
      BY <1>4 DEF MarkRaises, TaskTypeOK
    <3> QED
      BY <3>2, <3>3, IdleQuiet
  <2> QED
    BY <1>0, <2>1 DEF Quiet
<1> QED
  BY <1>1, <1>2, <1>3, <1>4 DEF Reservation

(***************************************************************************)
(* The steps that are not quiet, with what they do to the execution        *)
(* records, the bootstraps sent and the threads.                           *)
(***************************************************************************)
SetExec(r, status) == exec' = [exec EXCEPT ![r] = status]

Registers(d, r) ==
  exec[r] = "none" /\ SetExec(r, "registered") /\ UNCHANGED boots /\ Moved(d, r, "registered")

Readies(d, r) ==
  At(d, r, "registered") /\ UNCHANGED <<exec, boots>> /\ Moved(d, r, "ready")

Sends(d, r) ==
  /\ At(d, r, "ready")
  /\ exec[r] = "registered"
  /\ ~RunLocked(r)
  /\ boots' = [boots EXCEPT ![r] = @ + 1]
  /\ UNCHANGED exec
  /\ Moved(d, r, "launching")

Succeeds(d, r) ==
  At(d, r, "launching") /\ SetExec(r, "running") /\ UNCHANGED boots /\ Moved(d, r, "launched")

Fails(d, r) ==
  /\ exec[r] = "registered"
  /\ ~RunLocked(r)
  /\ SetExec(r, "failed")
  /\ UNCHANGED boots
  /\ Moved(d, r, "failqueue")

Records(r) ==
  /\ exec[r] \in {"registered", "running"}
  /\ ~RunLocked(r)
  /\ \E status \in ExecStatuses \ {"none"} : SetExec(r, status)
  /\ UNCHANGED <<boots, task>>

Purges(r) ==
  /\ r \in Cleaned
  /\ exec[r] = "stopped"
  /\ ~RunLocked(r)
  /\ SetExec(r, "none")
  /\ UNCHANGED <<boots, task>>

Loud ==
  \/ \E d \in Dispatchers, r \in Runs :
       \/ Registers(d, r) \/ Readies(d, r) \/ Sends(d, r) \/ Succeeds(d, r) \/ Fails(d, r)
  \/ \E r \in Runs : Records(r) \/ Purges(r)

LEMMA LaunchKinds ==
  ASSUME TaskTypeOK, NEW d \in Dispatchers, NEW r \in Runs, Launch(d, r)
  PROVE  Quiet \/ Loud
<1>g. ASSUME NEW pc, Goto(d, r, pc) PROVE Moved(d, r, pc)
  BY <1>g, GotoMoves
<1>q. ASSUME NEW pc, pc \notin Launching, Goto(d, r, pc), UNCHANGED <<exec, boots>> PROVE Quiet
  BY <1>q, QuietGoto
<1>1. CASE Prepare(d, r) \/ AssertLaunched(d, r) \/ Unknown(d, r) \/ LaunchRejected(d, r)
           \/ LaunchUnknown(d, r) \/ ReadFailing(d, r) \/ FailQueue(d, r)
  <2>1. UNCHANGED <<exec, boots>>
    BY <1>1 DEF Prepare, AssertLaunched, Unknown, LaunchRejected, LaunchUnknown, ReadFailing,
                FailQueue, records
  <2>2. \E pc : pc \notin Launching /\ Goto(d, r, pc)
    BY <1>1 DEF Prepare, AssertLaunched, AssertOwned, Unknown, LaunchRejected, LaunchUnknown,
                ReadFailing, FailQueue, DiskFails, Launching, Holding
  <2> QED
    BY <2>1, <2>2, <1>q
<1>2. CASE Commit(d, r) \/ CommitUnknown(d, r) \/ ReleaseLease(d, r)
  <2>1. UNCHANGED <<exec, boots>>
    BY <1>2 DEF Commit, CommitUnknown, ReleaseLease, records
  <2>2. Finish(d, r) \/ \E pc : pc \notin Launching /\ Goto(d, r, pc)
    BY <1>2 DEF Commit, CommitUnknown, ReleaseLease, DiskFails, Launching, Holding
  <2>3. CASE Finish(d, r)
    BY <2>1, <2>3, QuietUpdate, IdleQuiet DEF Finish
  <2> QED
    BY <2>1, <2>2, <2>3, <1>q
<1>3. CASE Register(d, r)
  <2>1. CASE Goto(d, r, "failqueue") /\ UNCHANGED exec
    BY <1>3, <2>1, <1>q DEF Register, Launching, Holding
  <2>2. CASE exec[r] = "none" /\ SetExec(r, "registered") /\ Goto(d, r, "registered")
    BY <1>3, <2>2, <1>g DEF Register, Registers, Loud
  <2> QED
    BY <1>3, <2>1, <2>2 DEF Register, SetExec
<1>4. CASE AssertRegistered(d, r)
  <2>1. UNCHANGED <<exec, boots>> /\ At(d, r, "registered")
    BY <1>4 DEF AssertRegistered, records
  <2>2. Goto(d, r, "ready") \/ Goto(d, r, "unknown") \/ Goto(d, r, "failing")
    BY <1>4 DEF AssertRegistered, AssertOwned, DiskFails
  <2>3. CASE Goto(d, r, "ready")
    BY <2>1, <2>3, <1>g DEF Readies, Loud
  <2>4. CASE Goto(d, r, "unknown") \/ Goto(d, r, "failing")
    BY <2>1, <2>4, <1>q DEF Launching, Holding
  <2> QED
    BY <2>2, <2>3, <2>4
<1>5. CASE StartBootstrap(d, r)
  <2>1. CASE Goto(d, r, "failing") /\ UNCHANGED boots
    BY <1>5, <2>1, <1>q DEF StartBootstrap, Launching, Holding
  <2>2. CASE /\ exec[r] = "registered"
             /\ boots' = [boots EXCEPT ![r] = @ + 1]
             /\ Goto(d, r, "launching")
    BY <1>5, <2>2, <1>g DEF StartBootstrap, Sends, Loud
  <2> QED
    BY <1>5, <2>1, <2>2 DEF StartBootstrap
<1>6. CASE LaunchOk(d, r)
  <2>1. CASE DiskFails(d, r) /\ UNCHANGED exec
    BY <1>6, <2>1, <1>q DEF LaunchOk, DiskFails, Launching, Holding
  <2>2. CASE SetExec(r, "running") /\ Goto(d, r, "launched")
    BY <1>6, <2>2, <1>g DEF LaunchOk, Succeeds, Loud
  <2> QED
    BY <1>6, <2>1, <2>2 DEF LaunchOk, SetExec
<1>7. CASE FailExecution(d, r)
  <2>1. CASE Goto(d, r, "release") /\ UNCHANGED exec
    BY <1>7, <2>1, <1>q DEF FailExecution, Launching, Holding
  <2>2. CASE exec[r] = "registered" /\ SetExec(r, "failed") /\ Goto(d, r, "failqueue")
    BY <1>7, <2>2, <1>g DEF FailExecution, Fails, Loud
  <2> QED
    BY <1>7, <2>1, <2>2 DEF FailExecution, SetExec
<1> QED
  BY <1>1, <1>2, <1>3, <1>4, <1>5, <1>6, <1>7 DEF Launch

LEMMA SurroundingsKinds ==
  ASSUME TypeOK, Surroundings
  PROVE  Quiet \/ Loud
<1>0. TaskTypeOK /\ OtherTypesOK
  BY TypeParts
<1>1. ASSUME NEW r \in Runs,
             \/ Submit(r) \/ StopQueued(r) \/ RemoteStep(r) \/ PurgeQueue(r)
             \/ ReserveUpdate(r) \/ Edit(r) \/ ReleaseUpdate(r)
      PROVE  Quiet
  BY <1>1, QuietRest DEF Submit, ReserveUpdate, Edit, ReleaseUpdate, StopQueued, RemoteStep,
                         PurgeQueue
<1>2. ASSUME NEW r \in Runs, StopExecution(r) \/ Monitor(r) PROVE Loud
  <2>1. exec[r] \in {"registered", "running"} /\ ~RunLocked(r) /\ UNCHANGED <<boots, task>>
    BY <1>2 DEF StopExecution, Monitor
  <2>2. remote[r] \in RemoteStates
    BY <1>0 DEF OtherTypesOK
  <2>3. StopOutcomes(r)[2] \in ExecStatuses \ {"none"}
    BY <2>2 DEF StopOutcomes, RemoteStates, RemoteAlive, RemoteOutstanding, ExecStatuses,
                ExecTerminal
  <2>4. \E status \in ExecStatuses \ {"none"} : SetExec(r, status)
    BY <1>2, <2>3 DEF StopExecution, Monitor, SetExec, ExecStatuses, ExecTerminal
  <2> QED
    BY <2>1, <2>4 DEF Records, Loud
<1>3. ASSUME NEW r \in Runs, PurgeExecution(r) PROVE Loud
  BY <1>3 DEF PurgeExecution, Cleanable, SetExec, Purges, Loud
<1>4. ASSUME NEW m \in Machines, ExpireLease(m) \/ Drain(m) PROVE Quiet
  BY <1>4, QuietRest DEF ExpireLease, Drain, records
<1>5. ASSUME NEW d \in Dispatchers, Crash(d) PROVE Quiet
  <2>1. ASSUME NEW e \in Dispatchers, NEW s \in Runs
        PROVE  task'[e][s].pc = task[e][s].pc \/ task'[e][s].pc \notin Launching
    <3>1. task'[e][s] = IF e = d THEN Idle ELSE task[e][s]
      BY <1>0, <1>5 DEF Crash, TaskTypeOK
    <3> QED
      BY <3>1, IdleQuiet
  <2> QED
    BY <1>5, <2>1 DEF Crash, records, Quiet
<1>6. ASSUME NEW d \in Dispatchers, ExitOneShot(d) PROVE Quiet
  BY <1>6, QuietRest DEF ExitOneShot, records
<1>7. ASSUME NEW d \in Dispatchers, NEW r \in Runs, Heartbeat(d, r) PROVE Quiet
  <2> DEFINE x == [task[d][r] EXCEPT !.heartbeat = FALSE]
  <2>1. task[d][r] \in Task
    BY <1>0 DEF TaskTypeOK
  <2>2. x.pc = task[d][r].pc
    BY <2>1 DEF Task
  <2>3. UNCHANGED task \/ task' = [task EXCEPT ![d][r] = x]
    BY <1>7 DEF Heartbeat
  <2> HIDE DEF x
  <2>4. ASSUME NEW e \in Dispatchers, NEW s \in Runs PROVE task'[e][s].pc = task[e][s].pc
    BY <1>0, <2>2, <2>3 DEF TaskTypeOK
  <2> QED
    BY <1>7, <2>4 DEF Heartbeat, records, Quiet
<1> QED
  BY <1>1, <1>2, <1>3, <1>4, <1>5, <1>6, <1>7 DEF Surroundings

LEMMA NextKinds ==
  ASSUME TypeOK, [Next]_vars
  PROVE  Quiet \/ Loud
<1>1. TaskTypeOK
  BY TypeParts
<1>2. CASE UNCHANGED vars
  BY <1>2, QuietRest DEF vars
<1>3. CASE Next
  BY <1>1, <1>3, CycleQuiet, RecoveryQuiet, ReservationQuiet, LaunchKinds, SurroundingsKinds
     DEF Next, Dispatcher
<1> QED
  BY <1>2, <1>3

LEMMA OneSenderStep ==
  ASSUME TypeOK, OneSender, Quiet \/ Loud
  PROVE  OneSender'
<1>0. OtherTypesOK
  BY TypeParts
<1> USE <1>0 DEF OtherTypesOK
<1>1. CASE Quiet
  BY <1>1 DEF Quiet, OneSender, Launching, Holding
<1>2. ASSUME NEW d \in Dispatchers, NEW r \in Runs, Registers(d, r) PROVE OneSender'
  BY <1>2 DEF Registers, SetExec, Moved, OneSender, Holding
<1>3. ASSUME NEW d \in Dispatchers, NEW r \in Runs, Readies(d, r) PROVE OneSender'
  BY <1>3 DEF Readies, At, Moved, OneSender, Holding
<1>4. ASSUME NEW d \in Dispatchers, NEW r \in Runs, Sends(d, r) PROVE OneSender'
  BY <1>4 DEF Sends, At, Moved, OneSender, Holding
<1>5. ASSUME NEW d \in Dispatchers, NEW r \in Runs, Succeeds(d, r) \/ Fails(d, r)
      PROVE  OneSender'
  <2>1. exec'[r] # "none" /\ UNCHANGED boots /\ \A s \in Runs : s # r => exec'[s] = exec[s]
    BY <1>5 DEF Succeeds, Fails, SetExec
  <2>2. \A e \in Dispatchers, s \in Runs : task'[e][s].pc \in Holding => task'[e][s] = task[e][s]
    BY <1>5 DEF Succeeds, Fails, Moved, Holding
  <2> QED
    BY <2>1, <2>2 DEF OneSender
<1>6. ASSUME NEW r \in Runs, Records(r) \/ Purges(r) PROVE OneSender'
  BY <1>6 DEF Records, Purges, SetExec, OneSender
<1> QED
  BY <1>1, <1>2, <1>3, <1>4, <1>5, <1>6 DEF Loud

LEMMA OneLauncherStep ==
  ASSUME TypeOK, OneLauncher, Quiet \/ Loud
  PROVE  OneLauncher'
<1>0. OtherTypesOK
  BY TypeParts
<1> USE <1>0 DEF OtherTypesOK, OneLauncher, At
<1>1. CASE Quiet
  BY <1>1 DEF Quiet, Launching, Holding
<1>2. ASSUME NEW d \in Dispatchers, NEW r \in Runs, Registers(d, r) \/ Readies(d, r)
      PROVE  OneLauncher'
  BY <1>2 DEF Registers, Readies, SetExec, Moved
<1>3. ASSUME NEW d \in Dispatchers, NEW r \in Runs, Sends(d, r) PROVE OneLauncher'
  BY <1>3 DEF Sends, RunLocked, Moved
<1>4. ASSUME NEW d \in Dispatchers, NEW r \in Runs, Succeeds(d, r) PROVE OneLauncher'
  <2>1. \A e \in Dispatchers : task'[e][r].pc # "launching"
    BY <1>4 DEF Succeeds, Moved
  <2>2. \A e \in Dispatchers, s \in Runs :
          s # r => task'[e][s] = task[e][s] /\ exec'[s] = exec[s]
    BY <1>4 DEF Succeeds, SetExec, Moved
  <2> QED
    BY <2>1, <2>2
<1>5. ASSUME NEW d \in Dispatchers, NEW r \in Runs, Fails(d, r) PROVE OneLauncher'
  <2>1. \A e \in Dispatchers : task'[e][r].pc # "launching"
    BY <1>5 DEF Fails, RunLocked, Moved
  <2>2. \A e \in Dispatchers, s \in Runs :
          s # r => task'[e][s] = task[e][s] /\ exec'[s] = exec[s]
    BY <1>5 DEF Fails, SetExec, Moved
  <2> QED
    BY <2>1, <2>2
<1>6. ASSUME NEW r \in Runs, Records(r) \/ Purges(r) PROVE OneLauncher'
  BY <1>6 DEF Records, Purges, RunLocked, SetExec
<1> QED
  BY <1>1, <1>2, <1>3, <1>4, <1>5, <1>6 DEF Loud

LaunchInv == TypeOK /\ OneSender /\ OneLauncher

LEMMA LaunchInvariant == Spec => []LaunchInv
<1>1. Init => OneSender /\ OneLauncher
  BY DEF Init, Idle, OneSender, OneLauncher, Holding, At
<1>2. ASSUME TypeOK, OneSender /\ OneLauncher, [Next]_vars PROVE (OneSender /\ OneLauncher)'
  BY <1>2, NextKinds, OneSenderStep, OneLauncherStep
<1> QED
  BY <1>1, <1>2, TypeCorrect, PTL DEF Spec, LaunchInv

\* No run's bootstrap is ever sent twice, for any number of dispatchers of a
\* project, crashes and recoveries, as long as no operator cleans up the
\* record of a run (launch.launch after recover_dispatching_state).
THEOREM LaunchOnceHolds ==
  ASSUME Cleaned = {}
  PROVE  Spec => []LaunchOnce
<1>1. LaunchInv => LaunchOnce
  BY DEF LaunchInv, OneSender, LaunchOnce
<1> QED
  BY <1>1, LaunchInvariant, PTL

\* An execution record that has ended never leaves its terminal status except
\* by being cleaned up, and no bootstrap is sent for it: the run lock, and the
\* status read again under it, order the launch and the stops.
THEOREM EndedStays == Spec => EndedStaysEnded
<1> DEFINE Step == \A r \in Runs : exec[r] \in ExecTerminal =>
                     exec'[r] \in {exec[r], "none"} /\ boots'[r] = boots[r]
<1>1. ASSUME LaunchInv, [Next]_vars PROVE Step
  <2>0. OtherTypesOK
    BY <1>1, TypeParts DEF LaunchInv
  <2> USE <2>0 DEF OtherTypesOK, ExecTerminal
  <2>1. CASE Quiet
    BY <2>1 DEF Quiet
  <2>2. ASSUME NEW d \in Dispatchers, NEW r \in Runs,
               Registers(d, r) \/ Readies(d, r) \/ Sends(d, r) \/ Fails(d, r)
        PROVE  Step
    BY <2>2 DEF Registers, Readies, Sends, Fails, SetExec
  <2>3. ASSUME NEW d \in Dispatchers, NEW r \in Runs, Succeeds(d, r)
        PROVE  Step
    <3>1. exec[r] = "registered"
      BY <1>1, <2>3 DEF Succeeds, LaunchInv, OneLauncher
    <3> QED
      BY <2>3, <3>1 DEF Succeeds, SetExec
  <2>4. ASSUME NEW r \in Runs, Records(r) \/ Purges(r) PROVE Step
    BY <2>4 DEF Records, Purges, SetExec
  <2> QED
    BY <1>1, <2>1, <2>2, <2>3, <2>4, NextKinds DEF LaunchInv, Loud
<1>2. LaunchInv /\ [Next]_vars => [Step]_vars
  BY <1>1
<1> QED
  BY <1>2, LaunchInvariant, PTL DEF Spec, EndedStaysEnded
=============================================================================
