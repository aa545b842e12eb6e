-------------------------- MODULE OutputSyncProofs --------------------------
(***************************************************************************)
(* Theorems about output synchronisation, for any number of runs, deaths,  *)
(* failures and configurations: what a receipt says is true, and whatever  *)
(* the programs do to an output is allowed by OutputCustody.               *)
(***************************************************************************)
EXTENDS OutputSync, TLAPS

(***************************************************************************)
(* The invariants                                                          *)
(***************************************************************************)
\* The record of r has ended, or has gone; it will not be live again.
Past(r) == exec[r].revision > 0 /\ Status(r) # "live"

\* The output of r is in the archive, or somebody has asked to delete it.
Kept(r) == Past(r) /\ (artifact[r] = "final" \/ purge[r] # "no")

\* The workload of r: it starts under the lease of its machine, before the record
\* ends, and its output does not grow any more once it has ended.
Lived(r) ==
  /\ Locked(r) => Status(r) = "live"
  /\ exec[r].revision = 0 =>
       /\ Status(r) = "absent" /\ machine[r] = "none" /\ source[r] = "none" /\ purge[r] = "no"
       /\ lease # r
  /\ lease = r => machine[r] = "none" /\ source[r] = "none"
  /\ Past(r) \/ Locked(r) => machine[r] # "running"
  /\ source[r] = "growing" => machine[r] = "running"
  /\ Status(r) = "live" => purge[r] = "no"
  /\ Past(r) /\ Status(r) = "absent" => purge[r] # "no" \/ r \in Dropped

\* What is in the archive, and what is said of it, is final.
Archive(r) ==
  /\ artifact[r] \in {"none", "final"}
  /\ artifact[r] = "final" => Past(r)
  /\ strays[r] > 0 => Past(r)
  /\ completed[r] # NoReceipt =>
       /\ Past(r)
       /\ purge[r] = "no" => artifact[r] = "final" /\ (Ended(r) => completed[r].status = Status(r))

Locks ==
  /\ worker.pc \in {"pick", "wait", "complete", "unlink"} => lock = "worker"
  /\ \A r \in Runs : purge[r] \in {"archive", "local"} =>
       lock = "purge" /\ \A s \in Runs : purge[s] \in {"archive", "local"} => s = r

\* The pass of the worker: nobody else removes an intent or an artifact meanwhile.
Pass ==
  /\ worker.pc \in {"pick", "wait", "complete", "unlink"} => worker.todo \subseteq Pending
  /\ worker.pc \in {"wait", "complete", "unlink"} =>
       /\ worker.run \in Pending \ worker.todo
       /\ Past(worker.run) /\ Status(worker.run) \in {pending[worker.run].status, "absent"}
  /\ mine # "none" => worker.pc = "wait"
  /\ mine = "ok" \/ worker.pc = "complete" => artifact[worker.run] = "final"

Program ==
  /\ active # NoProgram => active.run \in Runs /\ Past(active.run)
  /\ active.mine => mine = "active" /\ active.run = worker.run
  /\ active.copied => active.run \in Runs /\ stage[active.run] = "final"

ArchiveInv ==
  /\ TypeOK
  /\ Locks
  /\ Pass
  /\ Program
  /\ \A r \in Runs : Lived(r) /\ Archive(r)

\* The output of r may go with the tree it lies in.
Spared(r) == Status(r) = "absent" \/ (Past(r) /\ source[r] = "none") \/ Kept(r)

\* What is recorded as deleted is not on the source machine, nor will it be.
Deleted(r) == completed[r] # NoReceipt /\ completed[r].deleted => source[r] = "none"

Prune(p) ==
  /\ pruner[p].pc \in {"check", "remote", "record", "release"} <=> pruner[p].run \in Runs
  /\ pruner[p].run # NoRun =>
       lease = "maintenance" /\ Kept(pruner[p].run) /\ \A q \in Pruners : pruner[q].run # NoRun => q = p
  /\ \A r \in pruner[p].todo : Kept(r)
  /\ \A r \in pruner[p].gone : Past(r) /\ source[r] = "none"
  /\ pruner[p].pc = "remote" => \A r \in Nested[pruner[p].run] : Spared(r)
  /\ pruner[p].pc = "record" => source[pruner[p].run] = "none"

PruneInv ==
  /\ ArchiveInv
  /\ \A r \in Runs : Deleted(r)
  /\ \A p \in Pruners : Prune(p)
  /\ \A r \in strayPrunes : r \in Unanswered /\ Kept(r)

(***************************************************************************)
(* Types                                                                   *)
(***************************************************************************)
Records ==
  \/ \E r \in Runs :
       \/ Register(r) \/ Bootstrap(r) \/ Finish(r) \/ LaunchFails(r) \/ LaunchAborted(r)
       \/ Stop(r) \/ Monitor(r) \/ Touch(r) \/ EndRecord(r) \/ RecorderDies(r) \/ DropRecord(r)
  \/ Configure
Passing ==
  \/ EnsureWorker \/ LoadConfig \/ ListPending \/ Invoke \/ Answered \/ CompleteIntent \/ UnlinkIntent
  \/ EndPass \/ Decide \/ Wake \/ AnswerLost \/ WorkerDies
Archiving == ArchiveStep \/ TransferFails
Pruning ==
  \/ OperatorPrunes \/ WorkerPrunes \/ ExpireLease
  \/ \E p \in Pruners : PruneStep(p) \/ PruneLost(p)
  \/ \E r \in Runs : StrayDeletes(r)
Purging == \E r \in Runs : PurgeRecord(r) \/ PurgeStep(r)

LEMMA StepKinds == Next <=> Records \/ Passing \/ Archiving \/ Pruning \/ Purging
BY DEF Next, Records, Passing, Archiving, Pruning, Purging, WorkerStep

LEMMA SpendType ==
  ASSUME TypeOK, NEW what \in {"faults", "touches", "configs"}, Spend(what)
  PROVE  budget' \in [{"faults", "touches", "configs"} -> Nat]
<1>1. budget[what] - 1 \in Nat
  BY DEF TypeOK, Spend
<1> QED
  BY <1>1 DEF TypeOK, Spend

LEMMA InitType == Init => TypeOK
<1> SUFFICES ASSUME Init PROVE TypeOK
  OBVIOUS
<1>1. budget \in [{"faults", "touches", "configs"} -> Nat]
  BY SyncAssumptions DEF Init
<1>2. worker \in [pc: WorkerPcs, todo: SUBSET Runs, run: Runs \cup {NoRun}, again: BOOLEAN]
  BY DEF Init, NoWorker, WorkerPcs
<1>3. pruner \in [Pruners -> [pc: PrunerPcs, todo: SUBSET Runs, gone: SUBSET Runs, run: Runs \cup {NoRun}]]
  <2>1. NoPruner \in [pc: PrunerPcs, todo: SUBSET Runs, gone: SUBSET Runs, run: Runs \cup {NoRun}]
    BY DEF NoPruner, PrunerPcs
  <2> QED
    BY <2>1 DEF Init
<1>4. active \in [run: Runs \cup {NoRun}, mine: BOOLEAN, copied: BOOLEAN]
  BY DEF Init, NoProgram
<1> QED
  BY <1>1, <1>2, <1>3, <1>4 DEF Init, TypeOK, Contents

\* What BeginRecord does, seen from the runs.
LEMMA BeginRecordForm ==
  ASSUME TypeOK, NEW r \in Runs, NEW status \in Terminal, NEW at \in {"remote", "now"},
         BeginRecord(r, status, at)
  PROVE  /\ Status(r) = "live" /\ ~Locked(r)
         /\ recording' \in [Runs -> Terminal \cup {"nothing"}]
         /\ recording'[r] \in {status, "nothing"}
         /\ pending' \in [Runs -> Intent \cup {NoIntent}]
         /\ \A s \in Runs : /\ s # r => recording'[s] = recording[s]
                            /\ pending[s] # NoIntent => pending'[s] = pending[s]
                            /\ pending'[s] # pending[s] => s = r
<1> DEFINE intent == IntentOf(r, status, at)
<1>1. intent \in Intent
  <2>1. exec[r].revision + 1 \in Nat
    BY DEF TypeOK
  <2> QED
    BY <2>1 DEF IntentOf, Intent
<1>2. recording' \in {recording, [recording EXCEPT ![r] = status]} /\ pending' \in {pending, [pending EXCEPT ![r] = intent]}
  BY DEF BeginRecord
<1>3. pending[r] # NoIntent => pending' = pending
  BY DEF BeginRecord
<1>4. Status(r) = "live" /\ ~Locked(r)
  BY DEF BeginRecord
<1> HIDE DEF intent
<1>5. pending' \in [Runs -> Intent \cup {NoIntent}]
  BY <1>1, <1>2 DEF TypeOK
<1>6. recording' \in [Runs -> Terminal \cup {"nothing"}] /\ recording'[r] \in {status, "nothing"}
  BY <1>2, <1>4 DEF TypeOK, Locked
<1>7. \A s \in Runs : s # r => recording'[s] = recording[s] /\ pending'[s] = pending[s]
  BY <1>2 DEF TypeOK
<1> QED
  BY <1>3, <1>4, <1>5, <1>6, <1>7

LEMMA RecordsType == TypeOK /\ Records => TypeOK'
<1> SUFFICES ASSUME TypeOK, Records PROVE TypeOK'
  OBVIOUS
<1> USE SpendType DEF record, archive, local, Contents, Terminal
<1>1. ASSUME NEW r \in Runs, Register(r) \/ Bootstrap(r) \/ LaunchAborted(r) PROVE TypeOK'
  BY <1>1 DEF TypeOK, Register, Bootstrap, LaunchAborted
<1>2. ASSUME NEW r \in Runs, Finish(r) PROVE TypeOK'
  BY <1>2, SyncAssumptions DEF TypeOK, Finish
<1>3. ASSUME NEW r \in Runs, LaunchFails(r) PROVE TypeOK'
  <2>1. recording' \in [Runs -> Terminal \cup {"nothing"}] /\ pending' \in [Runs -> Intent \cup {NoIntent}]
    BY <1>3, BeginRecordForm DEF LaunchFails
  <2> QED
    BY <1>3, <2>1 DEF TypeOK, LaunchFails, BeginRecord
<1>4. ASSUME NEW r \in Runs, Stop(r) PROVE TypeOK'
  <2>1. recording' \in [Runs -> Terminal \cup {"nothing"}] /\ pending' \in [Runs -> Intent \cup {NoIntent}]
    BY <1>4, BeginRecordForm DEF Stop
  <2>2. machine' \in [Runs -> {"none", "running"} \cup Terminal] /\ source' \in [Runs -> Contents] /\ lease' = lease
    <3>1. \/ machine' = machine /\ source' = source
          \/ /\ machine' = [machine EXCEPT ![r] = "stopped"]
             /\ source' = [source EXCEPT ![r] = IF @ = "growing" THEN "final" ELSE @]
      BY <1>4 DEF Stop
    <3>2. lease' = lease
      BY <1>4 DEF Stop
    <3>3. machine \in [Runs -> {"none", "running"} \cup Terminal] /\ source \in [Runs -> Contents]
      BY DEF TypeOK
    <3>4. machine' \in [Runs -> {"none", "running"} \cup Terminal]
      BY <3>1, <3>3
    <3>5. source' \in [Runs -> Contents]
      BY <3>1, <3>3
    <3> QED
      BY <3>2, <3>4, <3>5
  <2>3. UNCHANGED <<exec, config, completed, worker, lock, mine, archive, pruner, strayPrunes, purge, budget>>
    BY <1>4 DEF Stop, BeginRecord
  <2> QED
    BY <2>1, <2>2, <2>3 DEF TypeOK
<1>5. ASSUME NEW r \in Runs, Monitor(r) PROVE TypeOK'
  <2>1. recording' \in [Runs -> Terminal \cup {"nothing"}] /\ pending' \in [Runs -> Intent \cup {NoIntent}]
    BY <1>5, BeginRecordForm DEF Monitor
  <2> QED
    BY <1>5, <2>1 DEF TypeOK, Monitor, BeginRecord
<1>6. ASSUME NEW r \in Runs, Touch(r) PROVE TypeOK'
  <2>1. exec' \in [Runs -> [status: {"absent", "live"} \cup Terminal, revision: Nat]]
    <3>1. exec[r].revision + 1 \in Nat /\ exec[r] \in [status: {"absent", "live"} \cup Terminal, revision: Nat]
      BY DEF TypeOK
    <3>2. [exec[r] EXCEPT !.revision = @ + 1] \in [status: {"absent", "live"} \cup Terminal, revision: Nat]
      BY <3>1
    <3> QED
      BY <1>6, <3>2 DEF TypeOK, Touch
  <2>2. budget' \in [{"faults", "touches", "configs"} -> Nat]
    BY <1>6 DEF Touch
  <2> QED
    BY <1>6, <2>1, <2>2 DEF TypeOK, Touch
<1>7. ASSUME NEW r \in Runs, EndRecord(r) PROVE TypeOK'
  <2>1. recording[r] \in Terminal
    BY <1>7 DEF TypeOK, EndRecord, Locked
  <2> QED
    BY <1>7, <2>1 DEF TypeOK, EndRecord
<1>8. ASSUME NEW r \in Runs, RecorderDies(r) PROVE TypeOK'
  <2>1. budget' \in [{"faults", "touches", "configs"} -> Nat]
    BY <1>8 DEF RecorderDies
  <2> QED
    BY <1>8, <2>1 DEF TypeOK, RecorderDies
<1>9. ASSUME NEW r \in Runs, DropRecord(r) PROVE TypeOK'
  <2>1. exec' \in [Runs -> [status: {"absent", "live"} \cup Terminal, revision: Nat]]
    BY <1>9 DEF TypeOK, DropRecord
  <2> QED
    BY <1>9, <2>1 DEF TypeOK, DropRecord
<1>10. CASE Configure
  <2>1. budget' \in [{"faults", "touches", "configs"} -> Nat]
    BY <1>10 DEF Configure
  <2> QED
    BY <1>10, <2>1 DEF TypeOK, Configure
<1> QED
  BY <1>1, <1>2, <1>3, <1>4, <1>5, <1>6, <1>7, <1>8, <1>9, <1>10 DEF Records

WorkerStates == [pc: WorkerPcs, todo: SUBSET Runs, run: Runs \cup {NoRun}, again: BOOLEAN]

LEMMA WorkerSteps ==
  ASSUME NEW was \in WorkerStates, NEW pc \in WorkerPcs
  PROVE  /\ [was EXCEPT !.pc = pc] \in WorkerStates
         /\ \A todo \in SUBSET Runs : [was EXCEPT !.pc = pc, !.todo = todo] \in WorkerStates
         /\ \A todo \in SUBSET Runs : [was EXCEPT !.todo = todo] \in WorkerStates
         /\ \A again \in BOOLEAN : [was EXCEPT !.pc = pc, !.again = again] \in WorkerStates
         /\ \A again \in BOOLEAN : [was EXCEPT !.pc = pc, !.run = NoRun, !.again = again] \in WorkerStates
         /\ \A r \in Runs, todo \in SUBSET Runs : [was EXCEPT !.pc = pc, !.run = r, !.todo = todo] \in WorkerStates
<1> USE DEF WorkerStates
<1>1. [was EXCEPT !.pc = pc] \in WorkerStates
  OBVIOUS
<1>2. ASSUME NEW todo \in SUBSET Runs
      PROVE  [was EXCEPT !.pc = pc, !.todo = todo] \in WorkerStates /\ [was EXCEPT !.todo = todo] \in WorkerStates
  OBVIOUS
<1>3. ASSUME NEW again \in BOOLEAN
      PROVE  /\ [was EXCEPT !.pc = pc, !.again = again] \in WorkerStates
             /\ [was EXCEPT !.pc = pc, !.run = NoRun, !.again = again] \in WorkerStates
  OBVIOUS
<1>4. ASSUME NEW r \in Runs, NEW todo \in SUBSET Runs
      PROVE  [was EXCEPT !.pc = pc, !.run = r, !.todo = todo] \in WorkerStates
  OBVIOUS
<1> QED
  BY <1>1, <1>2, <1>3, <1>4

LEMMA NoWorkerType == NoWorker \in WorkerStates
BY DEF NoWorker, WorkerStates, WorkerPcs

LEMMA PassingType == TypeOK /\ Pass /\ Passing => TypeOK'
<1> SUFFICES ASSUME TypeOK, Pass, Passing PROVE TypeOK'
  OBVIOUS
<1> USE DEF Work, Elsewhere, record, archive, local
<1>0. worker \in WorkerStates /\ worker.todo \in SUBSET Runs /\ WorkerPcs # {}
  BY DEF TypeOK, WorkerStates, WorkerPcs
<1>1. worker' \in WorkerStates
  <2> USE <1>0, WorkerSteps, NoWorkerType
  <2>1. CASE EnsureWorker \/ Wake
    <3>1. [NoWorker EXCEPT !.pc = "load"] \in WorkerStates
      BY DEF WorkerPcs
    <3> QED
      BY <2>1, <3>1 DEF EnsureWorker, Wake
  <2>2. CASE LoadConfig
    <3>1. config \in {"none", "paused", "on"}
      BY DEF TypeOK
    <3>2. {"decide", "lock"} \subseteq WorkerPcs /\ (Pending # {}) \in BOOLEAN
      BY DEF WorkerPcs
    <3>3. CASE config = "none"
      BY <2>2, <3>3 DEF LoadConfig
    <3>4. CASE config = "paused"
      <4>1. worker' = [worker EXCEPT !.pc = "decide", !.again = Pending # {}]
        BY <2>2, <3>4 DEF LoadConfig
      <4> QED
        BY <3>2, <4>1
    <3>5. CASE config = "on"
      BY <2>2, <3>2, <3>5 DEF LoadConfig
    <3> QED
      BY <3>1, <3>3, <3>4, <3>5
  <2>3. CASE ListPending
    <3>1. Pending \in SUBSET Runs /\ "pick" \in WorkerPcs
      BY DEF Pending, WorkerPcs
    <3> QED
      BY <2>3, <3>1 DEF ListPending
  <2>4. CASE Invoke
    <3>1. PICK r \in worker.todo : worker' \in {[worker EXCEPT !.pc = "wait", !.run = r, !.todo = @ \ {r}], [worker EXCEPT !.todo = @ \ {r}]}
      BY <2>4 DEF Invoke
    <3>2. worker.todo \ {r} \in SUBSET Runs /\ r \in Runs /\ "wait" \in WorkerPcs
      BY DEF WorkerPcs
    <3>3. [worker EXCEPT !.pc = "wait", !.run = r, !.todo = worker.todo \ {r}] \in WorkerStates
      BY <3>2
    <3>4. [worker EXCEPT !.todo = worker.todo \ {r}] \in WorkerStates
      BY <3>2
    <3> QED
      BY <3>1, <3>3, <3>4
  <2>5. CASE Answered \/ UnlinkIntent \/ CompleteIntent \/ AnswerLost
    <3>1. \E pc \in WorkerPcs : worker' = [worker EXCEPT !.pc = pc]
      BY <2>5 DEF Answered, UnlinkIntent, CompleteIntent, AnswerLost, WorkerPcs
    <3> QED
      BY <3>1
  <2>6. CASE EndPass
    <3>1. (Pending # {}) \in BOOLEAN /\ "prune" \in WorkerPcs
      BY DEF WorkerPcs
    <3> QED
      BY <2>6, <3>1 DEF EndPass
  <2>7. CASE Decide
    <3>1. [NoWorker EXCEPT !.pc = "sleep"] \in WorkerStates
      BY DEF WorkerPcs
    <3> QED
      BY <2>7, <3>1 DEF Decide
  <2>8. CASE WorkerDies
    BY <2>8 DEF WorkerDies
  <2> QED
    BY <2>1, <2>2, <2>3, <2>4, <2>5, <2>6, <2>7, <2>8 DEF Passing
<1> USE <1>1 DEF WorkerStates
<1>2. CASE EnsureWorker \/ LoadConfig \/ ListPending \/ EndPass \/ Decide \/ Wake \/ Answered
  <2>1. lock' \in {lock, "free", "worker"} /\ mine' \in {mine, "none"}
    BY <1>2 DEF EnsureWorker, LoadConfig, ListPending, EndPass, Decide, Wake, Answered
  <2>2. UNCHANGED <<Elsewhere, pending, completed, archive, budget>>
    BY <1>2 DEF EnsureWorker, LoadConfig, ListPending, EndPass, Decide, Wake, Answered
  <2> QED
    BY <2>1, <2>2 DEF TypeOK
<1>3. CASE Invoke
  BY <1>3 DEF TypeOK, Invoke
<1>4. CASE CompleteIntent
  <2>1. worker.run \in Runs /\ pending[worker.run] \in Intent
    BY <1>4 DEF CompleteIntent, Pass, Pending, TypeOK
  <2>2. [status |-> pending[worker.run].status, deleted |-> FALSE] \in [status: Terminal, deleted: BOOLEAN]
    BY <2>1 DEF Intent
  <2>3. completed' \in [Runs -> [status: Terminal, deleted: BOOLEAN] \cup {NoReceipt}]
    <3>1. completed \in [Runs -> [status: Terminal, deleted: BOOLEAN] \cup {NoReceipt}]
      BY DEF TypeOK
    <3> QED
      BY <1>4, <2>1, <2>2, <3>1 DEF CompleteIntent
  <2>4. UNCHANGED <<Elsewhere, pending, lock, mine, archive, budget>>
    BY <1>4 DEF CompleteIntent
  <2> QED
    BY <2>3, <2>4 DEF TypeOK
<1>5. CASE UnlinkIntent
  <2>1. pending \in [Runs -> Intent \cup {NoIntent}]
    BY DEF TypeOK
  <2>2. pending' \in [Runs -> Intent \cup {NoIntent}]
    BY <1>5, <2>1 DEF UnlinkIntent
  <2>3. UNCHANGED <<Elsewhere, completed, lock, mine, archive, budget>>
    BY <1>5 DEF UnlinkIntent
  <2> QED
    BY <2>2, <2>3 DEF TypeOK
<1>6. CASE AnswerLost
  <2>1. strays' \in [Runs -> Nat]
    <3>1. \A r \in Runs : strays[r] + 1 \in Nat
      BY DEF TypeOK
    <3> QED
      BY <1>6, <3>1 DEF AnswerLost, TypeOK
  <2>2. active' \in [run: Runs \cup {NoRun}, mine: BOOLEAN, copied: BOOLEAN]
    BY <1>6 DEF AnswerLost, TypeOK
  <2> QED
    BY <1>6, <2>1, <2>2, SpendType DEF TypeOK, AnswerLost
<1>7. CASE WorkerDies
  <2>1. strays' \in [Runs -> Nat]
    <3>1. \A r \in Runs : strays[r] + 1 \in Nat
      BY DEF TypeOK
    <3> QED
      BY <1>7, <3>1 DEF WorkerDies, TypeOK
  <2>2. active' \in [run: Runs \cup {NoRun}, mine: BOOLEAN, copied: BOOLEAN]
    BY <1>7 DEF WorkerDies, TypeOK
  <2>3. pruner' \in [Pruners -> [pc: PrunerPcs, todo: SUBSET Runs, gone: SUBSET Runs, run: Runs \cup {NoRun}]]
    <3>1. NoPruner \in [pc: PrunerPcs, todo: SUBSET Runs, gone: SUBSET Runs, run: Runs \cup {NoRun}]
      BY DEF NoPruner, PrunerPcs
    <3> QED
      BY <1>7, <3>1 DEF WorkerDies, TypeOK
  <2>4. strayPrunes' \in SUBSET Runs /\ lock' \in {"free", "worker", "purge"} /\ mine' = "none"
    BY <1>7 DEF WorkerDies, TypeOK
  <2> QED
    BY <1>7, <2>1, <2>2, <2>3, <2>4, SpendType DEF TypeOK, WorkerDies
<1> QED
  BY <1>2, <1>3, <1>4, <1>5, <1>6, <1>7 DEF Passing

LEMMA ArchivingType == TypeOK /\ Archiving => TypeOK'
<1> SUFFICES ASSUME TypeOK, Archiving PROVE TypeOK'
  OBVIOUS
<1> USE DEF Here, record, archive, local, Answer, Contents
<1>1. ASSUME NEW r \in Runs \cup {NoRun}, NEW isMine \in BOOLEAN, Take(r, isMine)
      PROVE  /\ active' \in [run: Runs \cup {NoRun}, mine: BOOLEAN, copied: BOOLEAN]
             /\ mine' \in {"none", "waiting", "active", "ok", "failed"}
  <2>1. [run |-> r, mine |-> isMine, copied |-> FALSE] \in [run: Runs \cup {NoRun}, mine: BOOLEAN, copied: BOOLEAN]
    OBVIOUS
  <2>2. active' \in {active, [run |-> r, mine |-> isMine, copied |-> FALSE]}
    BY <1>1 DEF Take
  <2>3. \E what \in {"ok", "failed", "active"} : mine' = IF isMine THEN what ELSE mine
    BY <1>1 DEF Take
  <2>4. mine' \in {"ok", "failed", "active", mine}
    BY <2>3
  <2> QED
    BY <2>1, <2>2, <2>4 DEF TypeOK
<1>2. CASE TakeMine
  <2>1. worker.run \in Runs \cup {NoRun}
    BY DEF TypeOK
  <2>2. /\ active' \in [run: Runs \cup {NoRun}, mine: BOOLEAN, copied: BOOLEAN]
        /\ mine' \in {"none", "waiting", "active", "ok", "failed"}
    BY <1>1, <1>2, <2>1 DEF TakeMine
  <2> QED
    BY <1>2, <2>2 DEF TypeOK, TakeMine, Take
<1>3. ASSUME NEW r \in Runs, TakeStray(r) PROVE TypeOK'
  <2>1. /\ active' \in [run: Runs \cup {NoRun}, mine: BOOLEAN, copied: BOOLEAN]
        /\ mine' \in {"none", "waiting", "active", "ok", "failed"}
    BY <1>1, <1>3 DEF TakeStray
  <2>2. strays' \in [Runs -> Nat]
    <3>1. strays[r] - 1 \in Nat
      BY <1>3 DEF TakeStray, TypeOK
    <3> QED
      BY <1>3, <3>1 DEF TakeStray, TypeOK
  <2> QED
    BY <1>3, <2>1, <2>2 DEF TypeOK, TakeStray, Take
<1>4. NoProgram \in [run: Runs \cup {NoRun}, mine: BOOLEAN, copied: BOOLEAN]
  BY DEF NoProgram
<1>5. CASE Copy
  <2>1. active' \in [run: Runs \cup {NoRun}, mine: BOOLEAN, copied: BOOLEAN]
    <3>1. active \in [run: Runs \cup {NoRun}, mine: BOOLEAN, copied: BOOLEAN]
      BY DEF TypeOK
    <3>2. active' \in {NoProgram, [active EXCEPT !.copied = TRUE]}
      BY <1>5 DEF Copy
    <3> QED
      BY <1>4, <3>1, <3>2
  <2>2. stage' \in [Runs -> {"none", "growing", "final"}] /\ mine' \in {"none", "waiting", "active", "ok", "failed"}
    <3>1. CASE source[active.run] = "none"
      BY <1>5, <3>1 DEF Copy, TypeOK
    <3>2. CASE source[active.run] # "none" /\ active.run \in Runs
      BY <1>5, <3>2 DEF Copy, TypeOK
    <3>3. CASE source[active.run] # "none" /\ active.run \notin Runs
      BY <1>5, <3>3 DEF Copy, TypeOK
    <3> QED
      BY <3>1, <3>2, <3>3
  <2> QED
    BY <1>5, <2>1, <2>2 DEF TypeOK, Copy
<1>6. CASE TransferFails
  <2>1. budget' \in [{"faults", "touches", "configs"} -> Nat]
    BY <1>6, SpendType DEF TransferFails
  <2> QED
    BY <1>4, <1>6, <2>1 DEF TypeOK, TransferFails
<1>7. CASE Verify
  <2>1. /\ artifact' \in [Runs -> {"none", "growing", "final"}] /\ stage' \in [Runs -> {"none", "growing", "final"}]
        /\ mine' \in {"none", "waiting", "active", "ok", "failed"}
    <3>0. /\ artifact \in [Runs -> {"none", "growing", "final"}] /\ stage \in [Runs -> {"none", "growing", "final"}]
          /\ mine \in {"none", "waiting", "active", "ok", "failed"}
      BY DEF TypeOK
    <3>1. CASE source[active.run] # stage[active.run]
      BY <1>7, <3>0, <3>1 DEF Verify
    <3>2. CASE source[active.run] = stage[active.run] /\ active.run \in Runs
      BY <1>7, <3>0, <3>2 DEF Verify
    <3>3. CASE source[active.run] = stage[active.run] /\ active.run \notin Runs
      BY <1>7, <3>0, <3>3 DEF Verify
    <3> QED
      BY <3>1, <3>2, <3>3
  <2> QED
    BY <1>4, <1>7, <2>1 DEF TypeOK, Verify
<1> QED
  BY <1>2, <1>3, <1>5, <1>6, <1>7 DEF Archiving, ArchiveStep

PrunerStates == [pc: PrunerPcs, todo: SUBSET Runs, gone: SUBSET Runs, run: Runs \cup {NoRun}]

LEMMA PrunerSteps ==
  ASSUME NEW was \in PrunerStates, NEW pc \in PrunerPcs
  PROVE  /\ [was EXCEPT !.pc = pc] \in PrunerStates
         /\ [was EXCEPT !.pc = pc, !.run = NoRun] \in PrunerStates
         /\ \A r \in Runs : [was EXCEPT !.todo = @ \ {r}] \in PrunerStates
         /\ \A r \in Runs : [[was EXCEPT !.todo = @ \ {r}] EXCEPT !.pc = pc, !.run = r] \in PrunerStates
<1> USE DEF PrunerStates
<1>1. [was EXCEPT !.pc = pc] \in PrunerStates /\ [was EXCEPT !.pc = pc, !.run = NoRun] \in PrunerStates
  OBVIOUS
<1>2. ASSUME NEW r \in Runs
      PROVE  /\ [was EXCEPT !.todo = @ \ {r}] \in PrunerStates
             /\ [[was EXCEPT !.todo = @ \ {r}] EXCEPT !.pc = pc, !.run = r] \in PrunerStates
  <2>1. was.todo \ {r} \in SUBSET Runs
    OBVIOUS
  <2>2. [was EXCEPT !.todo = was.todo \ {r}] \in PrunerStates
    BY <2>1
  <2>3. \A rest \in PrunerStates : [rest EXCEPT !.pc = pc, !.run = r] \in PrunerStates
    OBVIOUS
  <2> QED
    BY <2>2, <2>3
<1> QED
  BY <1>1, <1>2

LEMMA NoPrunerType == NoPruner \in PrunerStates
BY DEF NoPruner, PrunerStates, PrunerPcs

\* What BeginPrune puts into the hands of the pruning.
LEMMA BeginPruneForm ==
  ASSUME TypeOK, NEW p \in Pruners, BeginPrune(p)
  PROVE  \E new \in PrunerStates :
           /\ pruner' = [pruner EXCEPT ![p] = new]
           /\ new.run = NoRun /\ new.pc \in {"idle", "next"}
           /\ \A r \in new.todo : Candidate(r)
           /\ \A r \in new.gone : Candidate(r) /\ completed[r].deleted
<1> DEFINE gone == {r \in Runs : Candidate(r) /\ completed[r].deleted}
           todo == {r \in Runs : Candidate(r) /\ ~completed[r].deleted /\ ~Blocked(r, gone)}
           begun == [NoPruner EXCEPT !.pc = "next", !.todo = todo, !.gone = gone]
<1>1. begun \in PrunerStates /\ begun.run = NoRun /\ begun.pc = "next" /\ begun.todo = todo /\ begun.gone = gone
  <2>1. gone \in SUBSET Runs /\ todo \in SUBSET Runs
    OBVIOUS
  <2> HIDE DEF gone, todo
  <2> QED
    BY <2>1 DEF NoPruner, PrunerStates, PrunerPcs
<1>2. pruner' \in {[pruner EXCEPT ![p] = NoPruner], [pruner EXCEPT ![p] = begun]}
  BY DEF BeginPrune, Prunes
<1>3. CASE pruner' = [pruner EXCEPT ![p] = begun]
  <2>1. \A r \in todo : Candidate(r)
    OBVIOUS
  <2>2. \A r \in gone : Candidate(r) /\ completed[r].deleted
    OBVIOUS
  <2> HIDE DEF gone, todo, begun
  <2> QED
    BY <1>1, <1>3, <2>1, <2>2
<1>4. CASE pruner' = [pruner EXCEPT ![p] = NoPruner]
  <2>1. NoPruner.run = NoRun /\ NoPruner.pc = "idle" /\ NoPruner.todo = {} /\ NoPruner.gone = {}
    BY DEF NoPruner
  <2> QED
    BY <1>4, <2>1, NoPrunerType
<1> QED
  BY <1>2, <1>3, <1>4

LEMMA PruningType == TypeOK /\ Pruning => TypeOK'
<1> SUFFICES ASSUME TypeOK, Pruning PROVE TypeOK'
  OBVIOUS
<1> USE DEF Aside, record, archive, local, Prunes, At
<1>0. pruner \in [Pruners -> PrunerStates]
  BY DEF TypeOK, PrunerStates
<1>1. ASSUME NEW p \in Pruners, BeginPrune(p) PROVE pruner' \in [Pruners -> PrunerStates]
  <2>1. PICK new \in PrunerStates : pruner' = [pruner EXCEPT ![p] = new]
    BY <1>1, BeginPruneForm
  <2> QED
    BY <1>0, <2>1
<1>2. CASE OperatorPrunes
  <2>1. pruner' \in [Pruners -> PrunerStates]
    BY <1>1, <1>2 DEF OperatorPrunes, Pruners
  <2> QED
    BY <1>2, <2>1 DEF TypeOK, OperatorPrunes, PrunerStates
<1>3. CASE WorkerPrunes
  <2>1. pruner' \in [Pruners -> PrunerStates]
    BY <1>0, <1>1, <1>3 DEF WorkerPrunes, Pruners
  <2>2. worker' \in WorkerStates
    <3>1. worker \in WorkerStates /\ "decide" \in WorkerPcs
      BY DEF TypeOK, WorkerStates, WorkerPcs
    <3> QED
      BY <1>3, <3>1, WorkerSteps DEF WorkerPrunes, Work
  <2> QED
    BY <1>3, <2>1, <2>2 DEF TypeOK, WorkerPrunes, PrunerStates, WorkerStates
<1>4. CASE ExpireLease
  BY <1>4 DEF TypeOK, ExpireLease
<1>5. ASSUME NEW r \in Runs, Deletes(r) PROVE source' \in [Runs -> Contents]
  BY <1>5 DEF TypeOK, Deletes, Contents
<1>6. ASSUME NEW r \in Runs, StrayDeletes(r) PROVE TypeOK'
  <2>1. source' \in [Runs -> Contents]
    BY <1>5, <1>6 DEF StrayDeletes
  <2> QED
    BY <1>6, <2>1 DEF TypeOK, StrayDeletes
<1>7. ASSUME NEW p \in Pruners, PruneNext(p) PROVE TypeOK'
  <2>0. UNCHANGED <<Aside, completed, lock, source, strayPrunes, budget>>
    BY <1>7 DEF PruneNext
  <2>1. CASE pruner' = [pruner EXCEPT ![p] = NoPruner] /\ UNCHANGED lease
    <3>1. pruner' \in [Pruners -> PrunerStates]
      BY <1>0, <2>1, NoPrunerType
    <3> QED
      BY <2>0, <2>1, <3>1 DEF TypeOK, PrunerStates
  <2>2. ASSUME NEW r \in pruner[p].todo,
               LET rest == [pruner[p] EXCEPT !.todo = @ \ {r}] IN
               IF lease = "free"
                 THEN Prunes(p, [rest EXCEPT !.pc = "check", !.run = r]) /\ lease' = "maintenance"
                 ELSE Prunes(p, rest) /\ UNCHANGED lease
        PROVE  TypeOK'
    <3>1. r \in Runs /\ pruner[p] \in PrunerStates /\ "check" \in PrunerPcs
      BY <1>0, <2>2 DEF PrunerStates, PrunerPcs
    <3>2. /\ [pruner[p] EXCEPT !.todo = @ \ {r}] \in PrunerStates
          /\ [[pruner[p] EXCEPT !.todo = @ \ {r}] EXCEPT !.pc = "check", !.run = r] \in PrunerStates
      BY <3>1, PrunerSteps
    <3>3. pruner' \in [Pruners -> PrunerStates] /\ lease' \in {lease, "maintenance"}
      BY <1>0, <2>2, <3>2
    <3> QED
      BY <2>0, <3>3 DEF TypeOK, PrunerStates
  <2> QED
    BY <1>7, <2>1, <2>2 DEF PruneNext
<1>8. ASSUME NEW p \in Pruners, PruneCheck(p) \/ PruneRemote(p) \/ PruneRecord(p) \/ PruneRelease(p) \/ PruneLost(p)
      PROVE  TypeOK'
  <2>1. pruner' \in [Pruners -> PrunerStates]
    <3>1. pruner[p] \in PrunerStates /\ {"remote", "record", "release", "next"} \subseteq PrunerPcs
      BY <1>0 DEF PrunerPcs
    <3>2. \A pc \in {"remote", "record", "release", "next"} :
            [pruner[p] EXCEPT !.pc = pc] \in PrunerStates /\ [pruner[p] EXCEPT !.pc = pc, !.run = NoRun] \in PrunerStates
      BY <3>1, PrunerSteps
    <3>3. \E pc \in {"remote", "record", "release", "next"} :
            \/ pruner' = [pruner EXCEPT ![p] = [pruner[p] EXCEPT !.pc = pc]]
            \/ pruner' = [pruner EXCEPT ![p] = [pruner[p] EXCEPT !.pc = pc, !.run = NoRun]]
      BY <1>8 DEF PruneCheck, PruneRemote, PruneRecord, PruneRelease, PruneLost
    <3> QED
      BY <1>0, <3>2, <3>3
  <2>2. source' \in [Runs -> Contents]
    <3>1. CASE PruneRemote(p)
      <4>1. pruner[p].run \in Runs \cup {NoRun}
        BY <1>0 DEF PrunerStates
      <4> QED
        BY <3>1, <4>1 DEF PruneRemote, Deletes, TypeOK, Contents
    <3> QED
      BY <1>8, <3>1 DEF PruneCheck, PruneRecord, PruneRelease, PruneLost, TypeOK
  <2>3. completed' \in [Runs -> [status: Terminal, deleted: BOOLEAN] \cup {NoReceipt}]
    <3>1. CASE PruneRecord(p) /\ pruner[p].run \in Runs /\ completed[pruner[p].run] # NoReceipt
      <4>0. completed[pruner[p].run] \in [status: Terminal, deleted: BOOLEAN]
        BY <3>1 DEF TypeOK
      <4>1. [completed[pruner[p].run] EXCEPT !.deleted = TRUE] \in [status: Terminal, deleted: BOOLEAN]
        BY <4>0
      <4> QED
        BY <3>1, <4>1 DEF PruneRecord, TypeOK
    <3>2. CASE PruneRecord(p) /\ ~(pruner[p].run \in Runs /\ completed[pruner[p].run] # NoReceipt)
      BY <3>2 DEF PruneRecord, TypeOK
    <3> QED
      BY <1>8, <3>1, <3>2 DEF PruneCheck, PruneRemote, PruneRelease, PruneLost, TypeOK
  <2>4. strayPrunes' \in SUBSET Runs
    BY <1>8, SyncAssumptions DEF PruneCheck, PruneRemote, PruneRecord, PruneRelease, PruneLost, TypeOK
  <2>5. budget' \in [{"faults", "touches", "configs"} -> Nat]
    BY <1>8, SpendType DEF PruneCheck, PruneRemote, PruneRecord, PruneRelease, PruneLost, TypeOK
  <2>6. lease' \in {lease, "free"} /\ UNCHANGED <<Aside, lock>>
    BY <1>8 DEF PruneCheck, PruneRemote, PruneRecord, PruneRelease, PruneLost
  <2> QED
    BY <2>1, <2>2, <2>3, <2>4, <2>5, <2>6 DEF TypeOK, PrunerStates
<1> QED
  BY <1>2, <1>3, <1>4, <1>6, <1>7, <1>8 DEF Pruning, PruneStep

LEMMA PurgingType == TypeOK /\ Purging => TypeOK'
<1> SUFFICES ASSUME TypeOK, NEW r \in Runs, PurgeRecord(r) \/ PurgeStep(r) PROVE TypeOK'
  BY DEF Purging
<1> USE DEF Beyond, Purges
<1>1. CASE PurgeRecord(r)
  <2>1. exec' \in [Runs -> [status: {"absent", "live"} \cup Terminal, revision: Nat]]
    <3>1. exec \in [Runs -> [status: {"absent", "live"} \cup Terminal, revision: Nat]]
      BY DEF TypeOK
    <3> QED
      BY <1>1, <3>1 DEF PurgeRecord
  <2> QED
    BY <1>1, <2>1 DEF TypeOK, PurgeRecord
<1>2. CASE PurgeSync(r) \/ PurgeLocal(r)
  <2>1. purge' \in [Runs -> {"no", "staged", "archive", "local", "source", "done"}]
    <3>1. purge \in [Runs -> {"no", "staged", "archive", "local", "source", "done"}]
      BY DEF TypeOK
    <3> QED
      BY <1>2, <3>1 DEF PurgeSync, PurgeLocal
  <2>2. pending' \in [Runs -> Intent \cup {NoIntent}] /\ completed' \in [Runs -> [status: Terminal, deleted: BOOLEAN] \cup {NoReceipt}]
    <3>1. pending \in [Runs -> Intent \cup {NoIntent}] /\ completed \in [Runs -> [status: Terminal, deleted: BOOLEAN] \cup {NoReceipt}]
      BY DEF TypeOK
    <3> QED
      BY <1>2, <3>1 DEF PurgeSync, PurgeLocal
  <2>3. lock' \in {"free", "purge"} /\ UNCHANGED <<Beyond, exec, source, lease, stage, artifact>>
    BY <1>2 DEF PurgeSync, PurgeLocal
  <2> QED
    BY <2>1, <2>2, <2>3 DEF TypeOK
<1>3. CASE PurgeArchive(r)
  BY <1>3 DEF TypeOK, PurgeArchive, Contents
<1>4. CASE PurgeSource(r)
  BY <1>4 DEF TypeOK, PurgeSource, Contents
<1> QED
  BY <1>1, <1>2, <1>3, <1>4 DEF PurgeStep

LEMMA StepType == TypeOK /\ Pass /\ [Next]_vars => TypeOK'
<1> SUFFICES ASSUME TypeOK, Pass, [Next]_vars PROVE TypeOK'
  OBVIOUS
<1>1. CASE UNCHANGED vars
  BY <1>1 DEF vars, record, local, archive, TypeOK
<1> QED
  BY <1>1, StepKinds, RecordsType, PassingType, ArchivingType, PruningType, PurgingType

(***************************************************************************)
(* The archive                                                             *)
(***************************************************************************)
InPass == {"pick", "wait", "complete", "unlink"}

\* Steps that leave the archive and the pass of the worker alone.
Calm ==
  /\ UNCHANGED <<lock, mine, archive, purge>>
  /\ \A s \in Runs : Past(s) => Past(s)' /\ Status(s)' \in {Status(s), "absent"}
  /\ \A s \in Runs : pending[s] # NoIntent => pending'[s] = pending[s]
  /\ \A s \in Runs : completed'[s] # NoReceipt => completed[s] # NoReceipt /\ completed'[s].status = completed[s].status
  /\ worker' = worker \/ (worker.pc = "prune" /\ worker'.pc = "decide" /\ worker'.run = worker.run)

LEMMA CalmKeeps ==
  ASSUME ArchiveInv, Calm
  PROVE  Locks' /\ Pass' /\ Program' /\ \A r \in Runs : Archive(r)'
<1> USE DEF archive
<1>1. UNCHANGED <<lock, mine, strays, active, stage, artifact, purge>>
  BY DEF Calm
<1>2. \A s \in Runs : Past(s) => Past(s)' /\ Status(s)' \in {Status(s), "absent"}
  BY DEF Calm
<1>3. \A s \in Runs : pending[s] # NoIntent => pending'[s] = pending[s]
  BY DEF Calm
<1>4. Locks'
  <2>1. worker'.pc \in InPass => worker.pc \in InPass
    BY DEF Calm, InPass
  <2> QED
    BY <1>1, <2>1 DEF ArchiveInv, Locks, InPass
<1>5. Pass'
  <2>1. CASE worker' = worker
    <3>1. Pending \subseteq Pending'
      BY <1>3 DEF Pending
    <3>2. ASSUME worker.pc \in {"wait", "complete", "unlink"}
          PROVE  /\ worker.run \in Pending' \ worker.todo
                 /\ Past(worker.run)' /\ Status(worker.run)' \in {pending'[worker.run].status, "absent"}
      <4>1. /\ worker.run \in Runs /\ worker.run \notin worker.todo /\ pending[worker.run] # NoIntent
            /\ Past(worker.run) /\ Status(worker.run) \in {pending[worker.run].status, "absent"}
        BY <3>2 DEF ArchiveInv, Pass, Pending
      <4>2. pending'[worker.run] = pending[worker.run] /\ worker.run \in Pending'
        BY <3>1, <4>1, <1>3 DEF Pending
      <4>3. Past(worker.run)' /\ Status(worker.run)' \in {Status(worker.run), "absent"}
        BY <1>2, <2>1, <4>1
      <4> QED
        BY <4>1, <4>2, <4>3
    <3> QED
      BY <1>1, <2>1, <3>1, <3>2 DEF ArchiveInv, Pass
  <2>2. CASE worker.pc = "prune" /\ worker'.pc = "decide"
    BY <1>1, <2>2 DEF ArchiveInv, Pass
  <2> QED
    BY <2>1, <2>2 DEF Calm
<1>6. Program'
  <2>1. worker'.run = worker.run
    BY DEF Calm
  <2>2. active # NoProgram => active.run \in Runs /\ Past(active.run)'
    BY <1>1, <1>2 DEF ArchiveInv, Program
  <2> QED
    BY <1>1, <2>1, <2>2 DEF ArchiveInv, Program
<1>7. ASSUME NEW r \in Runs PROVE Archive(r)'
  <2>1. Archive(r) /\ (Past(r) => Past(r)' /\ Status(r)' \in {Status(r), "absent"})
    BY <1>2 DEF ArchiveInv
  <2>2. completed'[r] # NoReceipt => completed[r] # NoReceipt /\ completed'[r].status = completed[r].status
    BY DEF Calm
  <2>3. Ended(r)' /\ Past(r) => Ended(r) /\ Status(r)' = Status(r)
    BY <2>1 DEF Ended, Terminal
  <2> QED
    BY <1>1, <2>1, <2>2, <2>3 DEF Archive
<1> QED
  BY <1>4, <1>5, <1>6, <1>7

LEMMA LivedKept ==
  ASSUME NEW r \in Runs, Lived(r), UNCHANGED <<exec, recording, machine, purge>>,
         source'[r] \in {source[r], "none"}, lease' \in {lease, "free", "maintenance"}
  PROVE  Lived(r)'
<1>1. lease' = r => lease = r
  BY SyncAssumptions
<1> QED
  BY <1>1 DEF Lived, Locked, Status, Past

\* Records, workloads and leases of dispatches.
LEMMA RecordsCalm == ArchiveInv /\ Records => Calm
<1> SUFFICES ASSUME ArchiveInv, Records PROVE Calm
  OBVIOUS
<1> USE DEF record, local, archive
<1>0. TypeOK /\ \A s \in Runs : Lived(s)
  BY DEF ArchiveInv
<1>1. UNCHANGED <<completed, worker, lock, mine, archive, purge>>
  BY DEF Records, Register, Bootstrap, Finish, LaunchFails, LaunchAborted, Stop, Monitor, Touch, EndRecord, RecorderDies,
         DropRecord, BeginRecord, Configure
<1>2. \A s \in Runs : Past(s) => Past(s)' /\ Status(s)' \in {Status(s), "absent"}
  <2>1. ASSUME NEW r \in Runs, Register(r) \/ EndRecord(r) \/ Touch(r)
        PROVE  ~Past(r) /\ \A s \in Runs : s # r => exec'[s] = exec[s]
    <3>1. ~Past(r)
      BY <1>0, <2>1 DEF Register, EndRecord, Touch, Past, Lived
    <3> QED
      BY <1>0, <2>1, <3>1 DEF Register, EndRecord, Touch, TypeOK
  <2>2. ASSUME NEW r \in Runs, DropRecord(r)
        PROVE  \A s \in Runs : exec'[s].revision = exec[s].revision /\ Status(s)' \in {Status(s), "absent"}
    BY <1>0, <2>2 DEF DropRecord, TypeOK, Status
  <2>3. CASE exec' = exec
    BY <2>3 DEF Past, Status
  <2>4. ASSUME NEW r \in Runs, \A s \in Runs : exec'[s].revision = exec[s].revision /\ Status(s)' \in {Status(s), "absent"}
        PROVE  \A s \in Runs : Past(s) => Past(s)' /\ Status(s)' \in {Status(s), "absent"}
    BY <2>4 DEF Past
  <2>5. ASSUME NEW r \in Runs, ~Past(r), \A s \in Runs : s # r => exec'[s] = exec[s]
        PROVE  \A s \in Runs : Past(s) => Past(s)' /\ Status(s)' \in {Status(s), "absent"}
    BY <2>5 DEF Past, Status
  <2>6. \/ exec' = exec
        \/ \E r \in Runs : Register(r) \/ EndRecord(r) \/ Touch(r)
        \/ \E r \in Runs : DropRecord(r)
    BY DEF Records, Bootstrap, Finish, LaunchFails, LaunchAborted, Stop, Monitor, RecorderDies, BeginRecord, Configure
  <2> QED
    BY <2>1, <2>2, <2>3, <2>4, <2>5, <2>6
<1>3. \A s \in Runs : pending[s] # NoIntent => pending'[s] = pending[s]
  <2>1. \/ pending' = pending
        \/ \E r \in Runs, status \in Terminal, at \in {"remote", "now"} : BeginRecord(r, status, at)
    BY DEF Records, Register, Bootstrap, Finish, LaunchFails, LaunchAborted, Stop, Monitor, Touch, EndRecord,
           RecorderDies, DropRecord, Configure, Terminal
  <2> QED
    BY <1>0, <2>1, BeginRecordForm
<1> QED
  BY <1>1, <1>2, <1>3 DEF Calm

LEMMA RecordsLived == ArchiveInv /\ Records => \A r \in Runs : Lived(r)'
<1> SUFFICES ASSUME ArchiveInv, Records, NEW s \in Runs PROVE Lived(s)'
  OBVIOUS
<1> USE DEF record, local, archive
<1>0. TypeOK /\ Lived(s) /\ s \notin {"free", "maintenance"}
  BY SyncAssumptions DEF ArchiveInv
<1>1. ASSUME NEW r \in Runs, Register(r) PROVE Lived(s)'
  <2>1. CASE s = r
    BY <1>0, <1>1, <2>1 DEF Register, Lived, Locked, Status, Past, TypeOK
  <2>2. CASE s # r
    BY <1>0, <1>1, <2>2 DEF Register, Lived, Locked, Status, Past, TypeOK
  <2> QED
    BY <2>1, <2>2
<1>2. ASSUME NEW r \in Runs, Bootstrap(r) PROVE Lived(s)'
  <2>1. CASE s = r
    BY <1>0, <1>2, <2>1 DEF Bootstrap, Lived, Locked, Status, Past, TypeOK
  <2>2. CASE s # r
    BY <1>0, <1>2, <2>2 DEF Bootstrap, Lived, Locked, Status, Past, TypeOK
  <2> QED
    BY <2>1, <2>2
<1>3. ASSUME NEW r \in Runs, Finish(r) PROVE Lived(s)'
  <2>1. CASE s = r
    BY <1>0, <1>3, <2>1, SyncAssumptions DEF Finish, Lived, Locked, Status, Past, TypeOK
  <2>2. CASE s # r
    BY <1>0, <1>3, <2>2 DEF Finish, Lived, Locked, Status, Past, TypeOK
  <2> QED
    BY <2>1, <2>2
<1>4. ASSUME NEW r \in Runs, LaunchAborted(r) \/ Configure PROVE Lived(s)'
  BY <1>0, <1>4, LivedKept DEF LaunchAborted, Configure
<1>5. ASSUME NEW r \in Runs, NEW status \in Terminal, NEW at \in {"remote", "now"}, BeginRecord(r, status, at),
             machine'[r] # "running" /\ (machine[r] = "none" => machine'[r] = "none" /\ source'[r] = source[r]),
             source'[r] = "growing" => machine'[r] = "running",
             exec[r].revision = 0 => source'[r] = source[r],
             \A q \in Runs : q # r => machine'[q] = machine[q] /\ source'[q] = source[q],
             lease' \in {lease, "free"}
      PROVE  Lived(s)'
  <2>1. /\ Status(r) = "live" /\ ~Locked(r)
        /\ \A q \in Runs : q # r => recording'[q] = recording[q]
        /\ exec' = exec /\ purge' = purge
    BY <1>0, <1>5, BeginRecordForm DEF BeginRecord
  <2>2. lease' = s => lease = s
    BY <1>0, <1>5
  <2>3. CASE s = r
    BY <1>0, <1>5, <2>1, <2>2, <2>3 DEF Lived, Locked, Status, Past
  <2>4. CASE s # r
    <3>1. recording'[s] = recording[s] /\ machine'[s] = machine[s] /\ source'[s] = source[s]
      BY <1>5, <2>1, <2>4
    <3> QED
      BY <1>0, <2>1, <2>2, <3>1 DEF Lived, Locked, Status, Past
  <2> QED
    BY <2>3, <2>4
<1>6. ASSUME NEW r \in Runs, LaunchFails(r) PROVE Lived(s)'
  <2>1. Lived(r)
    BY DEF ArchiveInv
  <2> QED
    BY <1>5, <1>6, <2>1 DEF LaunchFails, Lived, Terminal
<1>7. ASSUME NEW r \in Runs, Monitor(r) PROVE Lived(s)'
  <2>1. Lived(r) /\ machine[r] # "running" /\ machine[r] # "none"
    BY <1>7 DEF ArchiveInv, Monitor, Terminal
  <2> QED
    BY <1>5, <1>7, <2>1 DEF Monitor, Lived
<1>8. ASSUME NEW r \in Runs, Stop(r) PROVE Lived(s)'
  <2>0. Lived(r) /\ TypeOK
    BY DEF ArchiveInv
  <2>1. CASE machine[r] = "running" /\ BeginRecord(r, "stopped", "remote")
             /\ machine' = [machine EXCEPT ![r] = "stopped"]
             /\ source' = [source EXCEPT ![r] = IF @ = "growing" THEN "final" ELSE @]
    <3>1. machine'[r] = "stopped" /\ source'[r] # "growing" /\ exec[r].revision # 0 /\ lease' = lease
      BY <1>8, <2>0, <2>1 DEF TypeOK, Lived, Stop
    <3>2. \A q \in Runs : q # r => machine'[q] = machine[q] /\ source'[q] = source[q]
      BY <2>0, <2>1 DEF TypeOK
    <3> QED
      BY <1>5, <2>1, <3>1, <3>2 DEF Terminal
  <2>2. CASE machine[r] = "none" /\ BeginRecord(r, "stopped", "now") /\ UNCHANGED <<machine, source>>
    <3>1. lease' = lease
      BY <1>8 DEF Stop
    <3> QED
      BY <1>5, <2>0, <2>2, <3>1 DEF Lived, Terminal
  <2>3. CASE machine[r] \in Terminal /\ BeginRecord(r, machine[r], "remote") /\ UNCHANGED <<machine, source>>
    <3>1. lease' = lease /\ machine[r] \notin {"none", "running"}
      BY <1>8, <2>3 DEF Stop, Terminal
    <3> QED
      BY <1>5, <2>0, <2>3, <3>1 DEF Lived
  <2> QED
    BY <1>8, <2>1, <2>2, <2>3 DEF Stop
<1>9. ASSUME NEW r \in Runs, Touch(r) PROVE Lived(s)'
  <2>1. CASE s = r
    <3>1. exec'[s].status = "live" /\ exec'[s].revision = exec[s].revision + 1 /\ exec[s].revision \in Nat /\ Status(s) = "live"
      BY <1>0, <1>9, <2>1 DEF Touch, TypeOK, Status
    <3> QED
      BY <1>0, <1>9, <3>1 DEF Touch, Lived, Locked, Status, Past
  <2>2. CASE s # r
    <3>1. exec'[s] = exec[s]
      BY <1>0, <1>9, <2>2 DEF Touch, TypeOK
    <3> QED
      BY <1>0, <1>9, <3>1 DEF Touch, Lived, Locked, Status, Past
  <2> QED
    BY <2>1, <2>2
<1>10. ASSUME NEW r \in Runs, EndRecord(r) PROVE Lived(s)'
  <2>1. CASE s = r
    <3>1. /\ exec'[s].status \in Terminal /\ exec'[s].revision = exec[s].revision + 1 /\ exec[s].revision \in Nat
          /\ recording'[s] = "nothing"
      BY <1>0, <1>10, <2>1 DEF EndRecord, TypeOK, Locked
    <3>2. Locked(s) /\ UNCHANGED <<machine, source, lease, purge>>
      BY <1>10, <2>1 DEF EndRecord
    <3> QED
      BY <1>0, <3>1, <3>2 DEF Lived, Locked, Status, Past, Terminal
  <2>2. CASE s # r
    <3>1. exec'[s] = exec[s] /\ recording'[s] = recording[s]
      BY <1>0, <1>10, <2>2 DEF EndRecord, TypeOK
    <3> QED
      BY <1>0, <1>10, <3>1 DEF EndRecord, Lived, Locked, Status, Past
  <2> QED
    BY <2>1, <2>2
<1>11. ASSUME NEW r \in Runs, RecorderDies(r) PROVE Lived(s)'
  <2>1. recording'[s] \in {recording[s], "nothing"}
    BY <1>0, <1>11 DEF RecorderDies, TypeOK
  <2> QED
    BY <1>0, <1>11, <2>1 DEF RecorderDies, Lived, Locked, Status, Past
<1>12. ASSUME NEW r \in Runs, DropRecord(r) PROVE Lived(s)'
  <2>1. CASE s = r
    <3>1. exec'[s].status = "absent" /\ exec'[s].revision = exec[s].revision /\ Status(s) # "live" /\ s \in Dropped
          /\ (exec[s].revision # 0)
      BY <1>0, <1>12, <2>1 DEF DropRecord, TypeOK, Status, Lived
    <3>2. exec[s].revision > 0
      BY <1>0, <3>1 DEF TypeOK
    <3> QED
      BY <1>0, <1>12, <3>1, <3>2 DEF DropRecord, Lived, Locked, Status, Past
  <2>2. CASE s # r
    <3>1. exec'[s] = exec[s]
      BY <1>0, <1>12, <2>2 DEF DropRecord, TypeOK
    <3> QED
      BY <1>0, <1>12, <3>1 DEF DropRecord, Lived, Locked, Status, Past
  <2> QED
    BY <2>1, <2>2
<1> QED
  BY <1>1, <1>2, <1>3, <1>4, <1>6, <1>7, <1>8, <1>9, <1>10, <1>11, <1>12 DEF Records

LEMMA PruningCalm == ArchiveInv /\ Pruning => Calm /\ \A r \in Runs : Lived(r)'
<1> SUFFICES ASSUME ArchiveInv, Pruning PROVE Calm /\ \A r \in Runs : Lived(r)'
  OBVIOUS
<1> USE DEF Aside, record, local, archive
<1>0. TypeOK
  BY DEF ArchiveInv
<1>1. UNCHANGED <<exec, recording, machine, pending, lock, mine, archive, purge>>
  BY DEF Pruning, OperatorPrunes, WorkerPrunes, ExpireLease, PruneStep, PruneNext, PruneCheck, PruneRemote, PruneRecord,
         PruneRelease, PruneLost, StrayDeletes
<1>2. worker' = worker \/ (worker.pc = "prune" /\ worker'.pc = "decide" /\ worker'.run = worker.run)
  <2>1. CASE WorkerPrunes
    BY <1>0, <2>1 DEF WorkerPrunes, Work, TypeOK
  <2> QED
    BY <2>1 DEF Pruning, OperatorPrunes, ExpireLease, PruneStep, PruneNext, PruneCheck, PruneRemote, PruneRecord,
                PruneRelease, PruneLost, StrayDeletes
<1>3. \A s \in Runs : completed'[s] # NoReceipt => completed[s] # NoReceipt /\ completed'[s].status = completed[s].status
  <2>1. ASSUME NEW p \in Pruners, PruneRecord(p), NEW s \in Runs, completed'[s] # NoReceipt
        PROVE  completed[s] # NoReceipt /\ completed'[s].status = completed[s].status
    <3>1. CASE completed' = completed
      BY <2>1, <3>1
    <3>2. CASE completed' = [completed EXCEPT ![pruner[p].run].deleted = TRUE] /\ completed[pruner[p].run] # NoReceipt
      <4>1. CASE s = pruner[p].run
        <5>1. completed[s] \in [status: Terminal, deleted: BOOLEAN] /\ completed'[s] = [completed[s] EXCEPT !.deleted = TRUE]
          BY <1>0, <3>2, <4>1 DEF TypeOK
        <5> QED
          BY <3>2, <4>1, <5>1
      <4>2. CASE s # pruner[p].run
        BY <1>0, <2>1, <3>2, <4>2 DEF TypeOK
      <4> QED
        BY <4>1, <4>2
    <3> QED
      BY <2>1, <3>1, <3>2 DEF PruneRecord
  <2>2. CASE completed' = completed
    BY <2>2
  <2>3. completed' = completed \/ \E p \in Pruners : PruneRecord(p)
    BY DEF Pruning, OperatorPrunes, WorkerPrunes, ExpireLease, PruneStep, PruneNext, PruneCheck, PruneRemote,
           PruneRelease, PruneLost, StrayDeletes
  <2> QED
    BY <2>1, <2>2, <2>3
<1>4. Calm
  BY <1>1, <1>2, <1>3 DEF Calm, Past, Status
<1>5. lease' \in {lease, "free", "maintenance"}
  BY DEF Pruning, OperatorPrunes, WorkerPrunes, ExpireLease, PruneStep, PruneNext, PruneCheck, PruneRemote, PruneRecord,
         PruneRelease, PruneLost, StrayDeletes
<1>6. \A s \in Runs : source'[s] \in {source[s], "none"}
  <2>1. source' = source \/ \E r \in Runs \cup {NoRun} : Deletes(r)
    <3>1. \A p \in Pruners : pruner[p].run \in Runs \cup {NoRun}
      BY <1>0 DEF TypeOK
    <3> QED
      BY <3>1 DEF Pruning, OperatorPrunes, WorkerPrunes, ExpireLease, PruneStep, PruneNext, PruneCheck, PruneRemote,
                  PruneRecord, PruneRelease, PruneLost, StrayDeletes
  <2> QED
    BY <2>1 DEF Deletes
<1>7. \A r \in Runs : Lived(r)'
  <2>1. \A r \in Runs : Lived(r)
    BY DEF ArchiveInv
  <2> QED
    BY <1>1, <1>5, <1>6, <2>1, LivedKept
<1> QED
  BY <1>4, <1>7

\* The worker's pass and its session.
LEMMA PassingKeeps ==
  ASSUME ArchiveInv, Passing
  PROVE  Locks' /\ Pass' /\ Program' /\ \A r \in Runs : Lived(r)' /\ Archive(r)'
<1> USE DEF Elsewhere, record, local, archive, Work
<1>0. TypeOK /\ Locks /\ Pass /\ Program /\ \A r \in Runs : Lived(r) /\ Archive(r)
  BY DEF ArchiveInv
<1>1. UNCHANGED <<exec, recording, machine, source, lease, config, stage, artifact, purge>>
  BY DEF Passing, EnsureWorker, LoadConfig, ListPending, Invoke, Answered, CompleteIntent, UnlinkIntent, EndPass, Decide,
         Wake, AnswerLost, WorkerDies
<1>2. \A r \in Runs : Lived(r)' /\ (Past(r) <=> Past(r)') /\ Status(r)' = Status(r) /\ (Ended(r) <=> Ended(r)')
  BY <1>0, <1>1, LivedKept DEF Past, Status, Ended
<1>8. ASSUME LoadConfig
      PROVE  worker.pc = "load" /\ worker'.pc \in {"none", "decide", "lock"} /\ UNCHANGED <<lock, mine>>
  <2>1. CASE config = "none"
    BY <1>8, <2>1 DEF LoadConfig, NoWorker
  <2>2. CASE config = "paused"
    BY <1>0, <1>8, <2>2 DEF LoadConfig, TypeOK
  <2>3. CASE config = "on"
    BY <1>0, <1>8, <2>3 DEF LoadConfig, TypeOK
  <2> QED
    BY <1>0, <2>1, <2>2, <2>3 DEF TypeOK
<1>3. Locks'
  <2>1. \/ lock' = lock /\ (worker'.pc \in InPass => worker.pc \in InPass)
        \/ lock = "free" /\ lock' = "worker"
        \/ lock = "worker" /\ worker'.pc \notin InPass /\ lock' = "free"
    <3>1. CASE LoadConfig
      BY <1>8, <3>1 DEF InPass
    <3>2. CASE EnsureWorker \/ ListPending \/ Answered \/ CompleteIntent \/ UnlinkIntent \/ Decide \/ Wake \/ AnswerLost
      BY <1>0, <3>2 DEF EnsureWorker, ListPending, Answered, CompleteIntent, UnlinkIntent, Decide, Wake, AnswerLost,
                        InPass, TypeOK, NoWorker
    <3>3. CASE Invoke
      BY <1>0, <3>3 DEF Invoke, InPass, TypeOK
    <3>4. CASE EndPass
      BY <1>0, <3>4 DEF EndPass, InPass, TypeOK, Locks
    <3>5. CASE WorkerDies
      BY <1>0, <3>5 DEF WorkerDies, InPass, TypeOK, Locks, NoWorker
    <3> QED
      BY <3>1, <3>2, <3>3, <3>4, <3>5 DEF Passing
  <2> QED
    BY <1>0, <1>1, <2>1 DEF Locks, InPass
<1>4. Pass'
  <2>1. CASE EnsureWorker \/ Wake \/ Decide
    BY <1>0, <2>1 DEF EnsureWorker, Wake, Decide, NoWorker, Pass
  <2>2. CASE LoadConfig
    <3>1. mine = "none"
      BY <1>0, <1>8, <2>2 DEF Pass
    <3> QED
      BY <1>8, <2>2, <3>1 DEF Pass
  <2>3. CASE ListPending
    BY <1>0, <1>1, <2>3 DEF ListPending, Pass, Pending, TypeOK
  <2>4. CASE Invoke
    <3>1. PICK r \in worker.todo :
            IF Transferable(r)
              THEN worker' = [worker EXCEPT !.pc = "wait", !.run = r, !.todo = @ \ {r}] /\ mine' = "waiting"
              ELSE worker' = [worker EXCEPT !.todo = @ \ {r}] /\ UNCHANGED mine
      BY <2>4 DEF Invoke
    <3>2. worker.pc = "pick" /\ pending' = pending /\ Pending' = Pending /\ mine = "none" /\ worker.todo \subseteq Pending
      BY <1>0, <2>4 DEF Invoke, Pass, Pending
    <3>3. CASE ~Transferable(r)
      <4>1. worker'.pc = "pick" /\ worker'.todo = worker.todo \ {r} /\ mine' = "none"
        BY <1>0, <3>1, <3>2, <3>3 DEF TypeOK
      <4> QED
        BY <3>2, <4>1 DEF Pass
    <3>4. CASE Transferable(r)
      <4>1. worker'.pc = "wait" /\ worker'.run = r /\ worker'.todo = worker.todo \ {r} /\ mine' = "waiting"
        BY <1>0, <3>1, <3>4 DEF TypeOK
      <4>2. r \in Pending /\ r \in Runs
        BY <3>2 DEF Pending
      <4>3. Past(r) /\ Status(r) = pending[r].status
        <5>1. pending[r] \in Intent /\ Status(r) \in Terminal
          BY <1>0, <3>4, <4>2 DEF TypeOK, Pending, Transferable, Intent
        <5>2. exec[r].revision # 0 /\ exec[r].revision \in Nat
          BY <1>0, <4>2, <5>1 DEF Lived, TypeOK, Terminal
        <5> QED
          BY <3>4, <5>1, <5>2 DEF Past, Transferable, Terminal
      <4>4. Past(r)' /\ Status(r)' = pending'[r].status
        BY <1>2, <3>2, <4>2, <4>3
      <4> QED
        BY <3>2, <4>1, <4>2, <4>4 DEF Pass
    <3> QED
      BY <3>3, <3>4
  <2>5. CASE Answered
    <3>1. mine' = "none" /\ worker'.run = worker.run /\ worker'.todo = worker.todo /\ worker'.pc \in {"pick", "complete"}
          /\ worker.pc = "wait" /\ (worker'.pc = "complete" => mine = "ok") /\ pending' = pending
      BY <1>0, <2>5 DEF Answered, TypeOK
    <3> QED
      BY <1>0, <1>1, <1>2, <3>1 DEF Pass, Pending
  <2>6. CASE AnswerLost
    BY <1>0, <1>1, <2>6 DEF AnswerLost, Pass, TypeOK, Pending
  <2>7. CASE CompleteIntent
    <3>1. worker.pc = "complete" /\ worker'.pc = "unlink" /\ worker'.run = worker.run /\ worker'.todo = worker.todo
          /\ pending' = pending /\ mine' = mine
      BY <1>0, <2>7 DEF CompleteIntent, TypeOK
    <3>2. mine # "ok" /\ mine = "none"
      BY <1>0, <3>1 DEF Pass
    <3> QED
      BY <1>0, <1>1, <1>2, <3>1, <3>2 DEF Pass, Pending
  <2>8. CASE UnlinkIntent
    <3>1. worker.pc = "unlink" /\ worker'.pc = "pick" /\ worker'.todo = worker.todo /\ mine' = mine
          /\ \A r \in Runs : r # worker.run => pending'[r] = pending[r]
      BY <1>0, <2>8 DEF UnlinkIntent, TypeOK
    <3>2. mine = "none" /\ worker.run \notin worker.todo /\ worker.todo \subseteq Pending
      BY <1>0, <3>1 DEF Pass
    <3>3. worker.todo \subseteq Pending'
      BY <3>1, <3>2 DEF Pending
    <3> QED
      BY <3>1, <3>2, <3>3 DEF Pass
  <2>3a. CASE EndPass
    BY <1>0, <2>3a DEF EndPass, Pass, TypeOK
  <2>10. CASE WorkerDies
    BY <2>10 DEF WorkerDies, NoWorker, Pass
  <2> QED
    BY <2>1, <2>2, <2>3, <2>4, <2>5, <2>6, <2>7, <2>8, <2>3a, <2>10 DEF Passing
<1>5. Program'
  <2>1. CASE UNCHANGED active /\ ~active.mine
    BY <1>0, <1>1, <1>2, <2>1 DEF Program
  <2>2. CASE UNCHANGED <<active, mine>> /\ worker'.run = worker.run
    BY <1>0, <1>1, <1>2, <2>2 DEF Program
  <2>3. CASE AnswerLost \/ WorkerDies
    <3>1. active' \in {active, [active EXCEPT !.mine = FALSE]} /\ ~active'.mine
      <4>1. active.mine => mine = "active"
        BY <1>0 DEF Program
      <4> QED
        BY <1>0, <2>3, <4>1 DEF AnswerLost, WorkerDies, TypeOK
    <3>2. active'.run = active.run /\ active'.copied = active.copied /\ (active = NoProgram => active' = NoProgram)
      BY <1>0, <3>1 DEF TypeOK, NoProgram
    <3> QED
      BY <1>0, <1>1, <1>2, <3>1, <3>2 DEF Program
  <2>4. CASE worker.pc # "wait" /\ UNCHANGED active
    <3>1. mine = "none"
      BY <1>0, <2>4 DEF Pass
    <3> QED
      BY <1>0, <2>1, <2>4, <3>1 DEF Program
  <2>5. CASE Answered
    <3>1. mine # "active" /\ UNCHANGED active
      BY <2>5 DEF Answered
    <3> QED
      BY <1>0, <2>1, <3>1 DEF Program
  <2> QED
    BY <2>3, <2>4, <2>5 DEF Passing, EnsureWorker, LoadConfig, ListPending, Invoke, CompleteIntent, UnlinkIntent,
                            EndPass, Decide, Wake
<1>6. ASSUME NEW r \in Runs PROVE Archive(r)'
  <2>1. strays'[r] > 0 => Past(r)
    <3>1. CASE AnswerLost \/ WorkerDies
      <4>1. strays' = strays \/ (mine = "waiting" /\ strays' = [strays EXCEPT ![worker.run] = @ + 1])
        BY <3>1 DEF AnswerLost, WorkerDies
      <4>2. CASE mine = "waiting" /\ strays' = [strays EXCEPT ![worker.run] = @ + 1]
        <5>1. Past(worker.run)
          BY <1>0, <4>2 DEF Pass
        <5>2. r # worker.run => strays'[r] = strays[r]
          BY <1>0, <4>2 DEF TypeOK
        <5>3. r = worker.run => Past(r)
          BY <5>1
        <5> QED
          BY <1>0, <5>2, <5>3 DEF Archive
      <4> QED
        BY <1>0, <4>1, <4>2 DEF Archive
    <3>2. CASE strays' = strays
      BY <1>0, <3>2 DEF Archive
    <3> QED
      BY <3>1, <3>2 DEF Passing, EnsureWorker, LoadConfig, ListPending, Invoke, Answered, CompleteIntent, UnlinkIntent,
                        EndPass, Decide, Wake
  <2>2. CASE completed'[r] = completed[r]
    BY <1>0, <1>1, <1>2, <2>1, <2>2 DEF Archive
  <2>3. CASE CompleteIntent /\ r = worker.run
    <3>1. completed'[r] = [status |-> pending[r].status, deleted |-> FALSE] /\ worker.pc = "complete"
      BY <1>0, <2>3 DEF CompleteIntent, TypeOK
    <3>2. Past(r) /\ Status(r) \in {pending[r].status, "absent"} /\ artifact[r] = "final"
      BY <1>0, <2>3, <3>1 DEF Pass
    <3>3. Ended(r) => completed'[r].status = Status(r)
      BY <3>1, <3>2 DEF Ended, Terminal
    <3>4. UNCHANGED <<artifact, purge>> /\ Past(r)' /\ Status(r)' = Status(r) /\ (Ended(r) <=> Ended(r)')
      BY <1>1, <1>2, <3>2
    <3>5. artifact'[r] = "final" /\ (Ended(r)' => completed'[r].status = Status(r)')
      BY <3>2, <3>3, <3>4
    <3> QED
      BY <2>1, <3>4, <3>5 DEF Archive
  <2>4. CASE CompleteIntent /\ r # worker.run
    BY <1>0, <2>2, <2>4 DEF CompleteIntent, TypeOK
  <2> QED
    BY <2>2, <2>3, <2>4 DEF Passing, EnsureWorker, LoadConfig, ListPending, Invoke, Answered, UnlinkIntent, EndPass, Decide,
                            Wake, AnswerLost, WorkerDies
<1> QED
  BY <1>2, <1>3, <1>4, <1>5, <1>6

\* The programs on the archive.
LEMMA ArchivingKeeps ==
  ASSUME ArchiveInv, Archiving
  PROVE  Locks' /\ Pass' /\ Program' /\ \A r \in Runs : Lived(r)' /\ Archive(r)'
<1> USE DEF Here, record, local, archive
<1>0. TypeOK /\ Locks /\ Pass /\ Program /\ \A r \in Runs : Lived(r) /\ Archive(r)
  BY DEF ArchiveInv
<1>1. UNCHANGED Here
  BY DEF Archiving, ArchiveStep, TakeMine, TakeStray, Take, Copy, Verify, TransferFails
<1>2. /\ \A r \in Runs : Lived(r)' /\ (Past(r) <=> Past(r)') /\ Status(r)' = Status(r) /\ (Ended(r) <=> Ended(r)')
      /\ Locks'
  BY <1>0, <1>1, LivedKept DEF Past, Status, Ended, Locks
<1>3. \A r \in Runs : Past(r) => source[r] \in {"none", "final"}
  BY <1>0 DEF Lived, TypeOK, Contents
<1>4. ~NoProgram.mine /\ ~NoProgram.copied
  BY DEF NoProgram
<1> DEFINE Grows == \A r \in Runs : artifact'[r] = artifact[r] \/ (artifact'[r] = "final" /\ Past(r))
           Answers == \/ mine' = mine
                      \/ mine \in {"waiting", "active"} /\ (mine' = "ok" => artifact'[worker.run] = "final")
           Fewer == \A r \in Runs : strays'[r] <= strays[r]
\* A program begins, for whomever.
<1>5. ASSUME NEW r \in Runs, Past(r), NEW isMine \in BOOLEAN, Take(r, isMine),
             isMine => r = worker.run /\ mine = "waiting"
      PROVE  Program' /\ Grows /\ Answers
  <2>1. artifact' = artifact /\ stage' = stage /\ worker' = worker
    BY <1>5 DEF Take
  <2>2. CASE active' = active /\ Answer(isMine, IF source[r] # "none" /\ artifact[r] = source[r] THEN "ok" ELSE "failed")
    <3>1. active = NoProgram
      BY <1>5 DEF Take
    <3>2. Program'
      BY <1>4, <2>2, <3>1 DEF Program
    <3>3. Answers
      BY <1>3, <1>5, <2>1, <2>2 DEF Answer
    <3> QED
      BY <2>1, <3>2, <3>3
  <2>3. CASE active' = [run |-> r, mine |-> isMine, copied |-> FALSE] /\ Answer(isMine, "active")
    <3>1. active'.run = r /\ active'.mine = isMine /\ active'.copied = FALSE
      BY <2>3
    <3>2. isMine => mine' = "active"
      BY <2>3 DEF Answer
    <3>3. Program'
      BY <1>2, <1>5, <2>1, <3>1, <3>2 DEF Program
    <3>4. Answers
      BY <1>5, <2>3 DEF Answer
    <3> QED
      BY <2>1, <3>3, <3>4
  <2> QED
    BY <1>5, <2>2, <2>3 DEF Take
<1>6. Program' /\ Grows /\ Answers /\ Fewer
  <2>1. CASE TakeMine
    <3>1. mine = "waiting" /\ worker.run \in Runs /\ Past(worker.run) /\ Take(worker.run, TRUE) /\ strays' = strays
      BY <1>0, <2>1 DEF TakeMine, Pass, Pending
    <3>2. Program' /\ Grows /\ Answers
      BY <1>5, <3>1
    <3>3. Fewer
      BY <1>0, <3>1 DEF TypeOK
    <3> QED
      BY <3>2, <3>3
  <2>2. ASSUME NEW r \in Runs, TakeStray(r) PROVE Program' /\ Grows /\ Answers /\ Fewer
    <3>1. Past(r) /\ Take(r, FALSE)
      BY <1>0, <2>2 DEF TakeStray, Archive
    <3>2. Fewer
      BY <1>0, <2>2 DEF TakeStray, TypeOK
    <3> QED
      BY <1>5, <3>1, <3>2
  <2>3. ASSUME UNCHANGED <<stage, artifact, strays>>, active' = NoProgram, active # NoProgram, Answer(active.mine, "failed")
        PROVE  Program' /\ Grows /\ Answers /\ Fewer
    <3>1. Program'
      BY <1>4, <2>3 DEF Program
    <3>2. Answers
      BY <1>0, <2>3 DEF Answer, Program
    <3> QED
      BY <1>0, <2>3, <3>1, <3>2 DEF TypeOK
  <2>4. CASE TransferFails
    BY <2>3, <2>4 DEF TransferFails
  <2>5. CASE Copy
    <3>0. active # NoProgram /\ active.run \in Runs /\ Past(active.run) /\ UNCHANGED <<strays, artifact>>
      BY <1>0, <2>5 DEF Copy, Program
    <3>1. CASE source[active.run] = "none"
      BY <2>3, <2>5, <3>1, <3>0 DEF Copy
    <3>2. CASE source[active.run] # "none"
      <4>1. /\ active' = [active EXCEPT !.copied = TRUE] /\ stage' = [stage EXCEPT ![active.run] = source[active.run]]
            /\ mine' = mine
        BY <2>5, <3>2 DEF Copy
      <4>2. active'.run = active.run /\ active'.mine = active.mine /\ stage'[active.run] = source[active.run]
        BY <1>0, <3>0, <4>1 DEF TypeOK
      <4>3. source[active.run] = "final"
        BY <1>3, <3>0, <3>2
      <4>4. Program'
        BY <1>0, <1>1, <1>2, <3>0, <4>1, <4>2, <4>3 DEF Program
      <4> QED
        BY <1>0, <3>0, <4>1, <4>4 DEF TypeOK
    <3> QED
      BY <3>1, <3>2
  <2>6. CASE Verify
    <3>0. /\ active.copied /\ active # NoProgram /\ active.run \in Runs /\ Past(active.run) /\ stage[active.run] = "final"
          /\ UNCHANGED strays /\ active' = NoProgram
      BY <1>0, <1>4, <2>6 DEF Verify, Program
    <3>1. CASE source[active.run] # stage[active.run]
      BY <2>3, <2>6, <3>0, <3>1 DEF Verify
    <3>2. CASE source[active.run] = stage[active.run]
      <4>1. /\ artifact' = [artifact EXCEPT ![active.run] = stage[active.run]] /\ Answer(active.mine, "ok")
        BY <2>6, <3>2 DEF Verify
      <4>2. Grows /\ artifact'[active.run] = "final"
        BY <1>0, <3>0, <4>1 DEF TypeOK
      <4>3. Program'
        BY <1>4, <3>0 DEF Program
      <4>4. Answers
        BY <1>0, <4>1, <4>2 DEF Answer, Program
      <4> QED
        BY <1>0, <3>0, <4>2, <4>3, <4>4 DEF TypeOK
    <3> QED
      BY <3>1, <3>2
  <2> QED
    BY <2>1, <2>2, <2>4, <2>5, <2>6 DEF Archiving, ArchiveStep
<1> HIDE DEF Grows, Answers, Fewer
<1>7. Pass'
  <2>1. mine' # "none" => worker.pc = "wait"
    BY <1>0, <1>6 DEF Answers, Pass
  <2>2. worker.pc \in InPass \ {"pick"} => worker.run \in Runs
    BY <1>0 DEF Pass, Pending, InPass
  <2>3. mine' = "ok" \/ worker.pc = "complete" => artifact'[worker.run] = "final"
    <3>1. CASE mine = "ok" \/ worker.pc = "complete"
      <4>1. worker.run \in Runs /\ artifact[worker.run] = "final"
        BY <1>0, <2>2, <3>1 DEF Pass, InPass
      <4> QED
        BY <1>6, <4>1 DEF Grows
    <3>2. CASE mine' = "ok" /\ mine # "ok"
      BY <1>6, <3>2 DEF Answers
    <3> QED
      BY <3>1, <3>2
  <2>4. worker.pc \in {"wait", "complete", "unlink"} =>
          Past(worker.run)' /\ Status(worker.run)' \in {pending[worker.run].status, "absent"}
    BY <1>0, <1>1, <1>2, <2>2 DEF Pass, InPass
  <2> QED
    BY <1>0, <1>1, <2>1, <2>3, <2>4 DEF Pass, Pending
<1>8. ASSUME NEW r \in Runs PROVE Archive(r)'
  <2>1. strays'[r] > 0 => strays[r] > 0
    <3>1. strays[r] \in Nat /\ strays'[r] \in Nat
      <4>1. TypeOK'
        BY <1>0, ArchivingType
      <4> QED
        BY <1>0, <4>1 DEF TypeOK
    <3> QED
      BY <1>6, <3>1 DEF Fewer
  <2>2. artifact'[r] = artifact[r] \/ (artifact'[r] = "final" /\ Past(r))
    BY <1>6 DEF Grows
  <2> QED
    BY <1>0, <1>1, <1>2, <2>1, <2>2 DEF Archive
<1> QED
  BY <1>2, <1>6, <1>7, <1>8

\* A purge takes what it removes from nobody who works on it.
LEMMA PurgingKeeps ==
  ASSUME ArchiveInv, Purging
  PROVE  Locks' /\ Pass' /\ Program' /\ \A r \in Runs : Lived(r)' /\ Archive(r)'
<1> USE DEF Beyond, Purges, record, local, archive
<1>0. TypeOK /\ Locks /\ Pass /\ Program /\ \A r \in Runs : Lived(r) /\ Archive(r)
  BY DEF ArchiveInv
<1>1. PICK r \in Runs : PurgeRecord(r) \/ PurgeStep(r)
  BY DEF Purging
<1>2. /\ UNCHANGED <<recording, machine, worker, mine, strays, active, lease>>
      /\ \A s \in Runs : /\ s # r => /\ exec'[s] = exec[s] /\ source'[s] = source[s] /\ pending'[s] = pending[s]
                                     /\ completed'[s] = completed[s] /\ stage'[s] = stage[s]
                                     /\ artifact'[s] = artifact[s] /\ purge'[s] = purge[s]
  BY <1>0, <1>1 DEF PurgeRecord, PurgeStep, PurgeSync, PurgeArchive, PurgeLocal, PurgeSource, TypeOK
<1>3. /\ exec'[r].revision = exec[r].revision /\ source'[r] \in {source[r], "none"} /\ purge'[r] # "no" /\ Past(r)
      /\ Status(r)' = "absent" \/ (Status(r)' = Status(r) /\ purge[r] # "no")
  <2>1. CASE PurgeRecord(r)
    <3>1. exec'[r].revision = exec[r].revision /\ Status(r)' = "absent" /\ source' = source /\ purge'[r] = "staged"
      BY <1>0, <2>1 DEF PurgeRecord, TypeOK, Status
    <3>2. Past(r)
      BY <1>0, <2>1 DEF PurgeRecord, Past, Lived, TypeOK, Ended, Terminal
    <3> QED
      BY <3>1, <3>2
  <2>2. CASE PurgeStep(r)
    <3>1. exec' = exec /\ purge[r] # "no" /\ purge'[r] # "no" /\ source'[r] \in {source[r], "none"}
      BY <1>0, <2>2 DEF PurgeStep, PurgeSync, PurgeArchive, PurgeLocal, PurgeSource, TypeOK
    <3>2. Past(r)
      BY <1>0, <3>1 DEF Past, Lived, TypeOK, Terminal
    <3> QED
      BY <3>1, <3>2 DEF Status
  <2> QED
    BY <1>1, <2>1, <2>2
<1>4. \A s \in Runs : (Past(s) => Past(s)') /\ Status(s)' \in {Status(s), "absent"}
  BY <1>2, <1>3 DEF Past, Status
<1>5. ASSUME NEW s \in Runs PROVE Lived(s)'
  <2>1. CASE s = r
    BY <1>0, <1>2, <1>3, <2>1 DEF Lived, Locked, Past, Status
  <2>2. CASE s # r
    BY <1>0, <1>2, <2>2 DEF Lived, Locked, Past, Status
  <2> QED
    BY <2>1, <2>2
<1>6. worker.pc \in InPass => UNCHANGED <<pending, completed, stage, artifact, lock>>
  BY <1>0, <1>1 DEF PurgeRecord, PurgeStep, PurgeSync, PurgeArchive, PurgeLocal, PurgeSource, Locks, InPass
<1>7. Locks'
  <2>1. CASE PurgeSync(r)
    <3>1. lock = "free" /\ lock' = "purge" /\ \A s \in Runs : purge[s] \notin {"archive", "local"}
      BY <1>0, <2>1 DEF PurgeSync, Locks
    <3> QED
      BY <1>0, <1>2, <3>1 DEF Locks
  <2>2. CASE PurgeArchive(r) \/ PurgeLocal(r)
    <3>1. lock = "purge" /\ \A s \in Runs : purge[s] \in {"archive", "local"} => s = r
      BY <1>0, <2>2 DEF PurgeArchive, PurgeLocal, Locks
    <3>2. (purge'[r] = "local" /\ lock' = lock) \/ purge'[r] = "source"
      BY <1>0, <2>2 DEF PurgeArchive, PurgeLocal, TypeOK
    <3> QED
      BY <1>0, <1>2, <3>1, <3>2 DEF Locks
  <2>3. CASE PurgeRecord(r) \/ PurgeSource(r)
    <3>1. lock' = lock /\ purge'[r] \notin {"archive", "local"}
      BY <1>0, <2>3 DEF PurgeRecord, PurgeSource, TypeOK
    <3> QED
      BY <1>0, <1>2, <3>1 DEF Locks
  <2> QED
    BY <1>1, <2>1, <2>2, <2>3 DEF PurgeStep
<1>8. Pass'
  <2>1. CASE worker.pc \in InPass
    <3>1. UNCHANGED <<pending, artifact, worker, mine>>
      BY <1>2, <1>6, <2>1
    <3>2. worker.pc \in {"wait", "complete", "unlink"} =>
            Past(worker.run)' /\ Status(worker.run)' \in {pending[worker.run].status, "absent"}
      BY <1>0, <1>4, <3>1 DEF Pass, Pending
    <3> QED
      BY <1>0, <3>1, <3>2 DEF Pass, Pending
  <2>2. CASE worker.pc \notin InPass
    <3>1. mine = "none"
      BY <1>0, <2>2 DEF Pass, InPass
    <3> QED
      BY <1>2, <2>2, <3>1 DEF Pass, InPass
  <2> QED
    BY <2>1, <2>2
<1>9. Program'
  <2>1. active # NoProgram => stage' = stage
    BY <1>1 DEF PurgeRecord, PurgeStep, PurgeSync, PurgeArchive, PurgeLocal, PurgeSource
  <2>2. CASE active = NoProgram
    BY <1>2, <2>2 DEF Program, NoProgram
  <2>3. CASE active # NoProgram
    BY <1>0, <1>2, <1>4, <2>1, <2>3 DEF Program
  <2> QED
    BY <2>2, <2>3
<1>10. ASSUME NEW s \in Runs PROVE Archive(s)'
  <2>1. CASE s = r
    <3>1. artifact'[r] \in {artifact[r], "none"} /\ completed'[r] \in {completed[r], NoReceipt}
      BY <1>0, <1>1 DEF PurgeRecord, PurgeStep, PurgeSync, PurgeArchive, PurgeLocal, PurgeSource, TypeOK
    <3> QED
      BY <1>0, <1>2, <1>3, <1>4, <2>1, <3>1 DEF Archive
  <2>2. CASE s # r
    <3>1. (Past(s) <=> Past(s)') /\ (Ended(s) <=> Ended(s)') /\ Status(s)' = Status(s)
      BY <1>2, <2>2 DEF Past, Status, Ended
    <3> QED
      BY <1>0, <1>2, <2>2, <3>1 DEF Archive
  <2> QED
    BY <2>1, <2>2
<1> QED
  BY <1>5, <1>7, <1>8, <1>9, <1>10

LEMMA ArchiveInvStep == ArchiveInv /\ [Next]_vars => ArchiveInv'
<1> SUFFICES ASSUME ArchiveInv, [Next]_vars PROVE ArchiveInv'
  OBVIOUS
<1>1. TypeOK'
  BY StepType DEF ArchiveInv
<1>2. CASE UNCHANGED vars
  BY <1>1, <1>2 DEF vars, record, local, archive, ArchiveInv, Locks, Pass, Pending, Program, Lived, Archive, Past, Status,
                    Ended, Locked
<1>3. CASE Records
  BY <1>1, <1>3, RecordsCalm, CalmKeeps, RecordsLived DEF ArchiveInv
<1>4. CASE Pruning
  BY <1>1, <1>4, PruningCalm, CalmKeeps DEF ArchiveInv
<1>5. CASE Passing
  BY <1>1, <1>5, PassingKeeps DEF ArchiveInv
<1>6. CASE Archiving
  BY <1>1, <1>6, ArchivingKeeps DEF ArchiveInv
<1>7. CASE Purging
  BY <1>1, <1>7, PurgingKeeps DEF ArchiveInv
<1> QED
  BY <1>2, <1>3, <1>4, <1>5, <1>6, <1>7, StepKinds

LEMMA ArchiveInvInit == Init => ArchiveInv
<1> SUFFICES ASSUME Init PROVE ArchiveInv
  OBVIOUS
<1>1. Locks /\ Pass /\ Program
  BY DEF Init, Locks, Pass, Program, NoWorker, NoProgram
<1>2. \A r \in Runs : Lived(r) /\ Archive(r)
  BY SyncAssumptions DEF Init, Lived, Archive, Locked, Past, Status
<1> QED
  BY <1>1, <1>2, InitType DEF ArchiveInv

\* Every reachable state of output synchronisation is well typed; an intent is in hand
\* whenever the worker completes one.
THEOREM TypeCorrect == Spec => []TypeOK
<1>1. ArchiveInv => TypeOK
  BY DEF ArchiveInv
<1> QED
  BY <1>1, ArchiveInvInit, ArchiveInvStep, PTL DEF Spec

\* A receipt is true, for any number of runs, deaths, lost answers, transfers that
\* nobody waits for, retries, prunes and purges: the locks of the worker and of the
\* archive keep from the artifact whoever could take it away, and a record that has
\* ended does not change any more.
THEOREM ReceiptsAreTrue == Spec => []ReceiptIsTrue
<1>1. ArchiveInv => ReceiptIsTrue
  BY DEF ArchiveInv, Archive, ReceiptIsTrue
<1> QED
  BY <1>1, ArchiveInvInit, ArchiveInvStep, PTL DEF Spec

(***************************************************************************)
(* Pruning                                                                 *)
(***************************************************************************)
\* Steps that take nothing from what the prunes rely on.
Keeping ==
  /\ \A r \in Runs : Kept(r) => Kept(r)'
  /\ \A r \in Runs : Past(r) /\ source[r] = "none" => Past(r)' /\ source'[r] = "none"

Holding == lease = "maintenance" => lease' = lease /\ \A r \in Runs : Status(r) = "absent" => Status(r)' = "absent"

LEMMA PruneKept ==
  ASSUME PruneInv, Keeping, Holding, NEW p \in Pruners, \A q \in Pruners : pruner'[q] = pruner[q]
  PROVE  Prune(p)'
<1>0. Prune(p) /\ TypeOK
  BY DEF PruneInv, ArchiveInv
<1> DEFINE r == pruner[p].run
<1>1. pruner[p].todo \subseteq Runs /\ pruner[p].gone \subseteq Runs /\ r \in Runs \cup {NoRun} /\ NoRun \notin Runs
  BY <1>0, SyncAssumptions DEF TypeOK
<1>2. (\A s \in pruner[p].todo : Kept(s)') /\ (\A s \in pruner[p].gone : Past(s)' /\ source'[s] = "none")
  BY <1>0, <1>1 DEF Prune, Keeping
<1>3. r # NoRun => lease' = "maintenance" /\ Kept(r)' /\ \A q \in Pruners : pruner[q].run # NoRun => q = p
  <2>1. ASSUME NEW s \in Runs, Kept(s) PROVE Kept(s)'
    BY <2>1 DEF Keeping
  <2>2. ASSUME r # NoRun PROVE r \in Runs /\ Kept(r) /\ lease = "maintenance"
    BY <1>0, <1>1, <2>2 DEF Prune
  <2>3. pruner'[p] = pruner[p]
    OBVIOUS
  <2> QED
    BY <1>0, <2>1, <2>2, <2>3 DEF Prune, Holding
<1>4. pruner[p].pc = "remote" => \A s \in Nested[r] : Spared(s)'
  <2>1. ASSUME pruner[p].pc = "remote", NEW s \in Nested[r] PROVE Spared(s)'
    <3>1. r \in Runs /\ lease = "maintenance" /\ Spared(s)
      BY <1>0, <1>1, <2>1 DEF Prune
    <3>2. s \in Runs
      BY <3>1, SyncAssumptions
    <3> QED
      BY <3>1, <3>2 DEF Spared, Keeping, Holding
  <2> QED
    BY <2>1
<1>5. pruner[p].pc = "record" => source'[r] = "none"
  <2>1. ASSUME pruner[p].pc = "record" PROVE source'[r] = "none"
    <3>1. r \in Runs /\ Past(r) /\ source[r] = "none"
      BY <1>0, <1>1, <2>1 DEF Prune, Kept
    <3> QED
      BY <3>1 DEF Keeping
  <2> QED
    BY <2>1
<1>6. pruner[p].pc \in {"check", "remote", "record", "release"} <=> r \in Runs
  BY <1>0 DEF Prune
<1>7. pruner'[p] = pruner[p]
  OBVIOUS
<1> QED
  BY <1>2, <1>3, <1>4, <1>5, <1>6, <1>7 DEF Prune

LEMMA StraysKept ==
  ASSUME PruneInv, Keeping, \A r \in strayPrunes' \ strayPrunes : r \in Unanswered /\ Kept(r)'
  PROVE  \A r \in strayPrunes' : r \in Unanswered /\ Kept(r)'
BY DEF PruneInv, ArchiveInv, TypeOK, Keeping

LEMMA RecordsKeep ==
  ASSUME PruneInv, Records
  PROVE  Keeping /\ Holding /\ UNCHANGED <<completed, pruner, strayPrunes>>
<1> USE DEF record, local, archive
<1>0. TypeOK /\ \A r \in Runs : Lived(r)
  BY DEF PruneInv, ArchiveInv
<1>1. UNCHANGED <<completed, pruner, strayPrunes, artifact, purge>>
  BY DEF Records, Register, Bootstrap, Finish, LaunchFails, LaunchAborted, Stop, Monitor, Touch, EndRecord, RecorderDies,
         DropRecord, BeginRecord, Configure
<1>2. Calm
  BY RecordsCalm DEF PruneInv
<1>3. ASSUME NEW s \in Runs, Past(s) PROVE source'[s] = source[s]
  <2>1. source[s] # "growing" /\ machine[s] # "running" /\ Status(s) # "live"
    BY <1>0, <1>3 DEF Lived, Past
  <2>2. ASSUME NEW r \in Runs, Bootstrap(r) PROVE source'[s] = source[s]
    BY <1>0, <2>1, <2>2 DEF Bootstrap, TypeOK
  <2>3. ASSUME NEW r \in Runs, source' = [source EXCEPT ![r] = IF @ = "growing" THEN "final" ELSE @]
        PROVE  source'[s] = source[s]
    BY <1>0, <2>1, <2>3 DEF TypeOK
  <2>4. \/ source' = source
        \/ \E r \in Runs : Bootstrap(r)
        \/ \E r \in Runs : source' = [source EXCEPT ![r] = IF @ = "growing" THEN "final" ELSE @]
    BY DEF Records, Register, Finish, LaunchFails, LaunchAborted, Stop, Monitor, Touch, EndRecord, RecorderDies,
           DropRecord, Configure
  <2> QED
    BY <2>2, <2>3, <2>4
<1>4. Keeping
  BY <1>1, <1>2, <1>3 DEF Calm, Keeping, Kept
<1>5. ASSUME lease = "maintenance" PROVE lease' = lease /\ \A s \in Runs : Status(s) = "absent" => Status(s)' = "absent"
  <2>1. \A r \in Runs : lease # r
    BY <1>5, SyncAssumptions
  <2>2. \/ \E r \in Runs : Touch(r) \/ EndRecord(r) \/ DropRecord(r)
        \/ exec' = exec
    BY <1>5, <2>1 DEF Records, Register, Bootstrap, Finish, LaunchFails, LaunchAborted, Stop, Monitor, RecorderDies,
           BeginRecord, Configure
  <2>3. lease' = lease
    BY <1>5, <2>1 DEF Records, Register, Bootstrap, Finish, LaunchFails, LaunchAborted, Stop, Monitor, Touch, EndRecord,
           RecorderDies, DropRecord, BeginRecord, Configure
  <2>4. ASSUME NEW r \in Runs, Touch(r) \/ EndRecord(r) PROVE \A s \in Runs : Status(s) = "absent" => Status(s)' = "absent"
    <3>1. Status(r) = "live" /\ \A s \in Runs : s # r => exec'[s] = exec[s]
      BY <1>0, <2>4 DEF Touch, EndRecord, Lived, TypeOK
    <3> QED
      BY <3>1 DEF Status
  <2>5. ASSUME NEW r \in Runs, DropRecord(r) PROVE \A s \in Runs : Status(s)' \in {Status(s), "absent"}
    BY <1>0, <2>5 DEF DropRecord, TypeOK, Status
  <2> QED
    BY <2>2, <2>3, <2>4, <2>5 DEF Status
<1> QED
  BY <1>1, <1>4, <1>5 DEF Holding

LEMMA OthersKeep ==
  ASSUME PruneInv, Passing \/ Archiving \/ Purging
  PROVE  Keeping /\ Holding
<1> USE DEF record, local, archive, Elsewhere, Here, Beyond
<1>0. TypeOK /\ Pass /\ Program /\ \A r \in Runs : Lived(r) /\ Archive(r)
  BY DEF PruneInv, ArchiveInv
<1>1. CASE Passing
  <2>1. UNCHANGED <<exec, source, lease, artifact, purge>>
    BY <1>1 DEF Passing, EnsureWorker, LoadConfig, ListPending, Invoke, Answered, CompleteIntent, UnlinkIntent, EndPass,
                Decide, Wake, AnswerLost, WorkerDies
  <2> QED
    BY <2>1 DEF Keeping, Holding, Kept, Past, Status
<1>2. CASE Archiving
  <2>1. UNCHANGED Here
    BY <1>2 DEF Archiving, ArchiveStep, TakeMine, TakeStray, Take, Copy, Verify, TransferFails
  <2>2. ASSUME NEW r \in Runs, artifact[r] = "final" PROVE artifact'[r] = "final"
    <3>1. CASE Verify
      <4>1. active.copied => stage[active.run] = "final" /\ active.run \in Runs
        BY <1>0 DEF Program
      <4> QED
        BY <1>0, <2>2, <3>1, <4>1 DEF Verify, TypeOK
    <3> QED
      BY <1>2, <2>2, <3>1 DEF Archiving, ArchiveStep, TakeMine, TakeStray, Take, Copy, TransferFails
  <2> QED
    BY <2>1, <2>2 DEF Keeping, Holding, Kept, Past, Status
<1>3. CASE Purging
  <2>1. PICK r \in Runs : PurgeRecord(r) \/ PurgeStep(r)
    BY <1>3 DEF Purging
  <2>2. /\ UNCHANGED lease
        /\ purge'[r] # "no" /\ source'[r] \in {source[r], "none"} /\ exec'[r].revision = exec[r].revision
        /\ Status(r)' \in {Status(r), "absent"}
        /\ \A s \in Runs : s # r => exec'[s] = exec[s] /\ source'[s] = source[s] /\ artifact'[s] = artifact[s]
                                    /\ purge'[s] = purge[s]
    <3>1. CASE PurgeRecord(r)
      BY <1>0, <3>1 DEF PurgeRecord, Purges, TypeOK, Status
    <3>2. CASE PurgeSync(r)
      BY <1>0, <3>2 DEF PurgeSync, Purges, TypeOK, Status
    <3>3. CASE PurgeArchive(r)
      BY <1>0, <3>3 DEF PurgeArchive, Purges, TypeOK, Status
    <3>4. CASE PurgeLocal(r)
      BY <1>0, <3>4 DEF PurgeLocal, Purges, TypeOK, Status
    <3>5. CASE PurgeSource(r)
      BY <1>0, <3>5 DEF PurgeSource, Purges, TypeOK, Status
    <3> QED
      BY <2>1, <3>1, <3>2, <3>3, <3>4, <3>5 DEF PurgeStep
  <2>3. \A s \in Runs : Past(s) => Past(s)'
    BY <2>2 DEF Past, Status
  <2>4. ASSUME NEW s \in Runs, Kept(s) PROVE Kept(s)'
    BY <2>2, <2>3, <2>4 DEF Kept
  <2>5. Holding
    <3>1. \A s \in Runs : Status(s)' \in {Status(s), "absent"}
      BY <2>2 DEF Status
    <3> QED
      BY <2>2, <3>1 DEF Holding
  <2>6. ASSUME NEW s \in Runs, source[s] = "none" PROVE source'[s] = "none"
    BY <2>2, <2>6
  <2> QED
    BY <2>3, <2>4, <2>5, <2>6 DEF Keeping
<1> QED
  BY <1>1, <1>2, <1>3

LEMMA OthersPrunes ==
  ASSUME PruneInv, ArchiveInv', Records \/ Passing \/ Archiving \/ Purging
  PROVE  PruneInv'
<1> USE DEF record, local, archive, Elsewhere, Here, Beyond
<1>0. TypeOK /\ (\A r \in Runs : Deleted(r) /\ Archive(r)) /\ \A p \in Pruners : Prune(p)
  BY DEF PruneInv, ArchiveInv
<1>1. Keeping /\ Holding
  BY RecordsKeep, OthersKeep
<1>2. \A r \in Runs : completed'[r] = completed[r] \/ completed'[r] = NoReceipt \/ ~completed'[r].deleted
  <2>1. CASE CompleteIntent
    BY <1>0, <2>1 DEF CompleteIntent, TypeOK
  <2>2. CASE Records
    BY <2>2, RecordsKeep
  <2>3. CASE Archiving
    BY <2>3 DEF Archiving, ArchiveStep, TakeMine, TakeStray, Take, Copy, Verify, TransferFails
  <2>4. CASE Purging
    BY <1>0, <2>4 DEF Purging, PurgeRecord, PurgeStep, PurgeSync, PurgeArchive, PurgeLocal, PurgeSource, TypeOK
  <2> QED
    BY <2>1, <2>2, <2>3, <2>4 DEF Passing, EnsureWorker, LoadConfig, ListPending, Invoke, Answered, UnlinkIntent, EndPass,
                                  Decide, Wake, AnswerLost, WorkerDies
<1>3. \A r \in Runs : Deleted(r)'
  BY <1>0, <1>1, <1>2 DEF Deleted, Archive, Keeping
<1>4. CASE WorkerDies
  <2>1. /\ pruner' = [pruner EXCEPT !["worker"] = NoPruner]
        /\ strayPrunes' = strayPrunes \cup {r \in Runs : pruner["worker"].pc = "remote" /\ pruner["worker"].run = r}
        /\ pruner["worker"].pc = "remote" => pruner["worker"].run \in Unanswered
        /\ UNCHANGED <<exec, source, lease, artifact, purge>>
    BY <1>4 DEF WorkerDies
  <2>2. pruner'["worker"] = NoPruner /\ pruner'["operator"] = pruner["operator"]
    BY <1>0, <2>1 DEF TypeOK, Pruners
  <2>3. Prune("worker")'
    BY <2>2, SyncAssumptions DEF Prune, NoPruner
  <2>4. Prune("operator")'
    <3>1. Prune("operator")
      BY <1>0 DEF Pruners
    <3>2. \A q \in Pruners : pruner'[q].run # NoRun => pruner[q].run # NoRun
      BY <2>2 DEF Pruners, NoPruner
    <3> QED
      BY <2>1, <2>2, <3>1, <3>2 DEF Prune, Kept, Past, Status, Spared
  <2>5. \A r \in strayPrunes' \ strayPrunes : r \in Unanswered /\ Kept(r)'
    <3>1. Prune("worker")
      BY <1>0 DEF Pruners
    <3> QED
      BY <2>1, <3>1, SyncAssumptions DEF Prune, Kept, Past, Status
  <2> QED
    BY <1>1, <1>3, <2>3, <2>4, <2>5, StraysKept DEF PruneInv, Pruners
<1>5. CASE ~WorkerDies
  <2>1. UNCHANGED <<pruner, strayPrunes>>
    <3>1. CASE Records
      BY <3>1, RecordsKeep
    <3>2. CASE Archiving
      BY <3>2 DEF Archiving, ArchiveStep, TakeMine, TakeStray, Take, Copy, Verify, TransferFails
    <3>3. CASE Purging
      BY <3>3 DEF Purging, PurgeRecord, PurgeStep, PurgeSync, PurgeArchive, PurgeLocal, PurgeSource
    <3> QED
      BY <1>5, <3>1, <3>2, <3>3 DEF Passing, EnsureWorker, LoadConfig, ListPending, Invoke, Answered, CompleteIntent,
                                    UnlinkIntent, EndPass, Decide, Wake, AnswerLost
  <2>2. \A p \in Pruners : Prune(p)'
    BY <1>1, <2>1, PruneKept
  <2>3. \A r \in strayPrunes' : r \in Unanswered /\ Kept(r)'
    BY <1>1, <2>1, StraysKept
  <2> QED
    BY <1>3, <2>2, <2>3 DEF PruneInv
<1> QED
  BY <1>4, <1>5

LEMMA PruningPrunes ==
  ASSUME PruneInv, ArchiveInv', Pruning
  PROVE  PruneInv'
<1> USE DEF Aside, record, local, archive, Prunes, At
<1>0. /\ TypeOK /\ (\A r \in Runs : Deleted(r) /\ Archive(r) /\ Lived(r)) /\ \A p \in Pruners : Prune(p)
      /\ pruner \in [Pruners -> PrunerStates] /\ NoRun \notin Runs
  BY SyncAssumptions DEF PruneInv, ArchiveInv, TypeOK, PrunerStates
<1>1. UNCHANGED <<exec, artifact, purge>>
  BY DEF Pruning, OperatorPrunes, WorkerPrunes, ExpireLease, PruneStep, PruneNext, PruneCheck, PruneRemote, PruneRecord,
         PruneRelease, PruneLost, StrayDeletes
<1>2. \A s \in Runs : source'[s] = source[s] \/ source'[s] = "none"
  <2>1. source' = source \/ \E r \in Runs \cup {NoRun} : Deletes(r)
    <3>1. \A p \in Pruners : pruner[p].run \in Runs \cup {NoRun}
      BY <1>0 DEF PrunerStates
    <3> QED
      BY <3>1 DEF Pruning, OperatorPrunes, WorkerPrunes, ExpireLease, PruneStep, PruneNext, PruneCheck, PruneRemote,
                  PruneRecord, PruneRelease, PruneLost, StrayDeletes
  <2> QED
    BY <2>1 DEF Deletes
<1>3. /\ Keeping
      /\ \A r \in Runs : (Past(r) <=> Past(r)') /\ (Kept(r) <=> Kept(r)') /\ (Spared(r) => Spared(r)')
  BY <1>1, <1>2 DEF Keeping, Kept, Past, Status, Spared
<1>4. \A s \in Runs : Deleted(s)'
  <2>1. ASSUME NEW s \in Runs, completed'[s] = completed[s] PROVE Deleted(s)'
    BY <1>0, <1>2, <2>1 DEF Deleted
  <2>2. ASSUME NEW p \in Pruners, PruneRecord(p), NEW s \in Runs PROVE Deleted(s)'
    <3>1. CASE s = pruner[p].run
      <4>1. source[s] = "none"
        BY <1>0, <2>2, <3>1 DEF PruneRecord, Prune
      <4> QED
        BY <1>2, <4>1 DEF Deleted
    <3>2. CASE s # pruner[p].run
      <4>1. completed'[s] = completed[s]
        BY <1>0, <2>2, <3>2 DEF PruneRecord, TypeOK
      <4> QED
        BY <2>1, <4>1
    <3> QED
      BY <3>1, <3>2
  <2>3. completed' = completed \/ \E p \in Pruners : PruneRecord(p)
    BY DEF Pruning, OperatorPrunes, WorkerPrunes, ExpireLease, PruneStep, PruneNext, PruneCheck, PruneRemote,
           PruneRelease, PruneLost, StrayDeletes
  <2> QED
    BY <2>1, <2>2, <2>3
\* One pruning begins, goes on or ends; what the other has in hand is unaffected.
<1>5. ASSUME NEW p \in Pruners, NEW new \in PrunerStates, pruner' = [pruner EXCEPT ![p] = new],
             new.pc \in {"check", "remote", "record", "release"} <=> new.run \in Runs,
             new.run # NoRun => lease' = "maintenance" /\ Kept(new.run) /\ \A q \in Pruners : pruner[q].run # NoRun => q = p,
             lease' = lease \/ \A q \in Pruners : pruner[q].run # NoRun => q = p,
             \A r \in new.todo : Kept(r),
             \A r \in new.gone : Past(r) /\ source[r] = "none",
             new.pc = "remote" => \A r \in Nested[new.run] : Spared(r),
             new.pc = "record" => source'[new.run] = "none"
      PROVE  \A q \in Pruners : Prune(q)'
  <2>1. pruner'[p] = new /\ \A q \in Pruners : q # p => pruner'[q] = pruner[q]
    BY <1>0, <1>5
  <2>2. new.todo \subseteq Runs /\ new.gone \subseteq Runs /\ new.run \in Runs \cup {NoRun}
    BY DEF PrunerStates
  <2>3. Prune(p)'
    <3>1. \A r \in new.todo : Kept(r)'
      BY <1>3, <1>5, <2>2
    <3>2. \A r \in new.gone : Past(r)' /\ source'[r] = "none"
      BY <1>2, <1>3, <1>5, <2>2
    <3>3. new.pc = "remote" => \A r \in Nested[new.run] : Spared(r)'
      <4>1. ASSUME new.pc = "remote", NEW r \in Nested[new.run] PROVE Spared(r)'
        <5>1. new.run \in Runs /\ r \in Runs
          BY <1>5, <4>1, SyncAssumptions
        <5> QED
          BY <1>3, <1>5, <4>1, <5>1
      <4> QED
        BY <4>1
    <3>4. new.run # NoRun =>
            lease' = "maintenance" /\ Kept(new.run)' /\ \A q \in Pruners : pruner'[q].run # NoRun => q = p
      <4>2. new.run # NoRun => Kept(new.run)'
        BY <1>1, <1>5 DEF Kept, Past, Status
      <4> QED
        BY <1>5, <2>1, <4>2
    <3>5. /\ new.pc \in {"check", "remote", "record", "release"} <=> new.run \in Runs
          /\ new.pc = "record" => source'[new.run] = "none"
      BY <1>5
    <3> QED
      BY <1>1, <2>1, <3>1, <3>2, <3>3, <3>4, <3>5 DEF Prune, Kept, Past, Status
  <2>4. ASSUME NEW q \in Pruners, q # p PROVE Prune(q)'
    <3>1. Prune(q) /\ pruner'[q] = pruner[q]
      BY <1>0, <2>1, <2>4
    <3>2. pruner[q].todo \subseteq Runs /\ pruner[q].gone \subseteq Runs /\ pruner[q].run \in Runs \cup {NoRun}
      BY <1>0 DEF PrunerStates
    <3>3. pruner[q].run # NoRun => lease' = lease /\ new.run = NoRun
      BY <1>5, <2>4
    <3>4. ASSUME pruner[q].run # NoRun, NEW o \in Pruners, pruner'[o].run # NoRun PROVE o = q
      <4>1. CASE o = p
        BY <2>1, <3>3, <3>4, <4>1
      <4>2. CASE o # p
        BY <2>1, <3>1, <3>4, <4>2 DEF Prune
      <4> QED
        BY <4>1, <4>2
    <3>5. /\ \A r \in pruner[q].todo : Kept(r)'
          /\ \A r \in pruner[q].gone : Past(r)' /\ source'[r] = "none"
          /\ pruner[q].pc = "remote" => \A r \in Nested[pruner[q].run] : Spared(r)'
          /\ pruner[q].pc = "record" => source'[pruner[q].run] = "none"
      <4>1. \A r \in pruner[q].todo : Kept(r)'
        BY <1>3, <3>1, <3>2 DEF Prune
      <4>2. \A r \in pruner[q].gone : Past(r)' /\ source'[r] = "none"
        BY <1>2, <1>3, <3>1, <3>2 DEF Prune
      <4>3. ASSUME pruner[q].pc = "remote", NEW r \in Nested[pruner[q].run] PROVE Spared(r)'
        <5>1. pruner[q].run \in Runs /\ r \in Runs /\ Spared(r)
          BY <3>1, <4>3, SyncAssumptions DEF Prune
        <5> QED
          BY <1>3, <5>1
      <4>4. ASSUME pruner[q].pc = "record" PROVE source'[pruner[q].run] = "none"
        <5>1. pruner[q].run \in Runs /\ source[pruner[q].run] = "none"
          BY <3>1, <4>4 DEF Prune
        <5> QED
          BY <1>2, <5>1
      <4> QED
        BY <4>1, <4>2, <4>3, <4>4
    <3> QED
      BY <1>1, <3>1, <3>3, <3>4, <3>5 DEF Prune, Kept, Past, Status
  <2> QED
    BY <2>3, <2>4
<1>6. ASSUME NEW p \in Pruners, BeginPrune(p), UNCHANGED <<lease, strayPrunes>> PROVE PruneInv'
  <2>1. PICK new \in PrunerStates :
          /\ pruner' = [pruner EXCEPT ![p] = new]
          /\ new.run = NoRun /\ new.pc \in {"idle", "next"}
          /\ \A r \in new.todo : Candidate(r)
          /\ \A r \in new.gone : Candidate(r) /\ completed[r].deleted
    BY <1>0, <1>6, BeginPruneForm
  <2>2. \A r \in new.todo : Kept(r)
    BY <1>0, <2>1 DEF Candidate, Archive, Kept, PrunerStates
  <2>3. \A r \in new.gone : Past(r) /\ source[r] = "none"
    BY <1>0, <2>1 DEF Candidate, Archive, Deleted, PrunerStates
  <2>4. \A q \in Pruners : Prune(q)'
    BY <1>0, <1>5, <1>6, <2>1, <2>2, <2>3
  <2> QED
    BY <1>3, <1>4, <1>6, <2>4, StraysKept DEF PruneInv
<1>7. CASE OperatorPrunes \/ WorkerPrunes
  <2>1. CASE UNCHANGED <<pruner, lease, strayPrunes>>
    BY <1>1, <1>3, <1>4, <2>1, PruneKept, StraysKept DEF PruneInv, Holding, Status
  <2> QED
    BY <1>6, <1>7, <2>1 DEF OperatorPrunes, WorkerPrunes, Pruners
<1>8. CASE ExpireLease
  <2>1. \A p \in Pruners : pruner[p].run = NoRun /\ pruner'[p] = pruner[p]
    BY <1>8 DEF ExpireLease
  <2>2. \A p \in Pruners : pruner[p].pc # "remote" /\ pruner[p].pc # "record"
    BY <1>0, <2>1 DEF Prune
  <2>3. source' = source /\ strayPrunes' = strayPrunes
    BY <1>8 DEF ExpireLease
  <2>4. \A p \in Pruners : Prune(p)'
    BY <1>0, <1>1, <2>1, <2>2, <2>3 DEF Prune, Kept, Past, Status
  <2> QED
    BY <1>3, <1>4, <2>3, <2>4, StraysKept DEF PruneInv
<1>9. ASSUME NEW r \in Runs, StrayDeletes(r) PROVE PruneInv'
  <2>1. UNCHANGED <<pruner, lease>> /\ strayPrunes' \subseteq strayPrunes
    BY <1>9 DEF StrayDeletes
  <2> QED
    BY <1>1, <1>3, <1>4, <2>1, PruneKept, StraysKept DEF PruneInv, Holding, Status
<1>10. ASSUME NEW p \in Pruners, PruneNext(p) PROVE PruneInv'
  <2>0. strayPrunes' = strayPrunes /\ pruner[p] \in PrunerStates /\ Prune(p) /\ pruner[p].pc = "next"
    BY <1>0, <1>10 DEF PruneNext
  <2>1. pruner[p].run = NoRun
    BY <1>0, <2>0 DEF Prune, PrunerStates
  <2>2. CASE pruner' = [pruner EXCEPT ![p] = NoPruner] /\ UNCHANGED lease
    <3>1. NoPruner \in PrunerStates /\ NoPruner.run = NoRun /\ NoPruner.pc = "idle" /\ NoPruner.todo = {} /\ NoPruner.gone = {}
      BY NoPrunerType DEF NoPruner
    <3>2. \A q \in Pruners : Prune(q)'
      BY <1>0, <1>5, <2>2, <3>1
    <3> QED
      BY <1>3, <1>4, <2>0, <3>2, StraysKept DEF PruneInv
  <2>3. ASSUME NEW r \in pruner[p].todo,
               LET rest == [pruner[p] EXCEPT !.todo = @ \ {r}] IN
               IF lease = "free"
                 THEN Prunes(p, [rest EXCEPT !.pc = "check", !.run = r]) /\ lease' = "maintenance"
                 ELSE Prunes(p, rest) /\ UNCHANGED lease
        PROVE  PruneInv'
    <3>1. r \in Runs /\ "check" \in PrunerPcs /\ Kept(r)
      BY <2>0, <2>3 DEF PrunerStates, PrunerPcs, Prune
    <3> DEFINE rest == [pruner[p] EXCEPT !.todo = @ \ {r}]
               taken == [rest EXCEPT !.pc = "check", !.run = r]
    <3>2. rest \in PrunerStates /\ taken \in PrunerStates
      BY <2>0, <3>1, PrunerSteps
    <3>3. /\ rest.pc = "next" /\ rest.run = NoRun /\ rest.todo \subseteq pruner[p].todo /\ rest.gone = pruner[p].gone
          /\ taken.pc = "check" /\ taken.run = r /\ taken.todo \subseteq pruner[p].todo /\ taken.gone = pruner[p].gone
      BY <2>0, <2>1 DEF PrunerStates
    <3>4. (\A s \in pruner[p].todo : Kept(s)) /\ \A s \in pruner[p].gone : Past(s) /\ source[s] = "none"
      BY <2>0 DEF Prune
    <3>5. CASE lease = "free"
      <4>1. pruner' = [pruner EXCEPT ![p] = taken] /\ lease' = "maintenance"
        BY <2>3, <3>5
      <4>2. \A q \in Pruners : pruner[q].run = NoRun
        BY <1>0, <3>5 DEF Prune
      <4> HIDE DEF rest, taken
      <4>3. \A q \in Pruners : Prune(q)'
        BY <1>0, <1>5, <3>1, <3>2, <3>3, <3>4, <4>1, <4>2
      <4> QED
        BY <1>3, <1>4, <2>0, <4>3, StraysKept DEF PruneInv
    <3>6. CASE lease # "free"
      <4>1. pruner' = [pruner EXCEPT ![p] = rest] /\ lease' = lease
        BY <2>3, <3>6
      <4> HIDE DEF rest, taken
      <4>2. \A q \in Pruners : Prune(q)'
        BY <1>0, <1>5, <3>2, <3>3, <3>4, <4>1
      <4> QED
        BY <1>3, <1>4, <2>0, <4>2, StraysKept DEF PruneInv
    <3> QED
      BY <3>5, <3>6
  <2> QED
    BY <1>10, <2>2, <2>3 DEF PruneNext
<1>11. ASSUME NEW p \in Pruners, PruneCheck(p) \/ PruneRemote(p) \/ PruneRecord(p) \/ PruneRelease(p) \/ PruneLost(p)
       PROVE  PruneInv'
  <2> DEFINE r == pruner[p].run
  <2>0. pruner[p] \in PrunerStates /\ Prune(p) /\ pruner[p].pc \in {"check", "remote", "record", "release"}
    BY <1>0, <1>11 DEF PruneCheck, PruneRemote, PruneRecord, PruneRelease, PruneLost
  <2>1. r \in Runs /\ lease = "maintenance" /\ Kept(r) /\ \A q \in Pruners : pruner[q].run # NoRun => q = p
    BY <1>0, <2>0 DEF Prune
  <2>2. (\A s \in pruner[p].todo : Kept(s)) /\ \A s \in pruner[p].gone : Past(s) /\ source[s] = "none"
    BY <2>0 DEF Prune
  <2>3. \A pc \in PrunerPcs :
          /\ [pruner[p] EXCEPT !.pc = pc] \in PrunerStates /\ [pruner[p] EXCEPT !.pc = pc, !.run = NoRun] \in PrunerStates
          /\ [pruner[p] EXCEPT !.pc = pc].pc = pc /\ [pruner[p] EXCEPT !.pc = pc].run = r
          /\ [pruner[p] EXCEPT !.pc = pc].todo = pruner[p].todo /\ [pruner[p] EXCEPT !.pc = pc].gone = pruner[p].gone
          /\ [pruner[p] EXCEPT !.pc = pc, !.run = NoRun].pc = pc /\ [pruner[p] EXCEPT !.pc = pc, !.run = NoRun].run = NoRun
          /\ [pruner[p] EXCEPT !.pc = pc, !.run = NoRun].todo = pruner[p].todo
          /\ [pruner[p] EXCEPT !.pc = pc, !.run = NoRun].gone = pruner[p].gone
    <3>1. ASSUME NEW pc \in PrunerPcs
          PROVE  [pruner[p] EXCEPT !.pc = pc] \in PrunerStates /\ [pruner[p] EXCEPT !.pc = pc, !.run = NoRun] \in PrunerStates
      BY <2>0, PrunerSteps
    <3>2. ASSUME NEW pc \in PrunerPcs
          PROVE  /\ [pruner[p] EXCEPT !.pc = pc].pc = pc /\ [pruner[p] EXCEPT !.pc = pc].run = r
                 /\ [pruner[p] EXCEPT !.pc = pc].todo = pruner[p].todo /\ [pruner[p] EXCEPT !.pc = pc].gone = pruner[p].gone
                 /\ [pruner[p] EXCEPT !.pc = pc, !.run = NoRun].pc = pc
                 /\ [pruner[p] EXCEPT !.pc = pc, !.run = NoRun].run = NoRun
                 /\ [pruner[p] EXCEPT !.pc = pc, !.run = NoRun].todo = pruner[p].todo
                 /\ [pruner[p] EXCEPT !.pc = pc, !.run = NoRun].gone = pruner[p].gone
      BY <2>0 DEF PrunerStates
    <3> QED
      BY <3>1, <3>2
  <2>4. {"remote", "record", "release", "next"} \subseteq PrunerPcs
    BY DEF PrunerPcs
\* With the lease still in hand.
  <2>5. ASSUME NEW pc \in {"remote", "record", "release"}, pruner' = [pruner EXCEPT ![p] = [pruner[p] EXCEPT !.pc = pc]],
               lease' = lease, pc = "remote" => \A s \in Nested[r] : Spared(s), pc = "record" => source'[r] = "none"
        PROVE  \A q \in Pruners : Prune(q)'
    <3> DEFINE new == [pruner[p] EXCEPT !.pc = pc]
    <3>1. new \in PrunerStates /\ new.pc = pc /\ new.run = r /\ new.todo = pruner[p].todo /\ new.gone = pruner[p].gone
      <4>1. pc \in PrunerPcs
        BY <2>4, <2>5
      <4>2. /\ [pruner[p] EXCEPT !.pc = pc] \in PrunerStates
            /\ [pruner[p] EXCEPT !.pc = pc].pc = pc /\ [pruner[p] EXCEPT !.pc = pc].run = r
            /\ [pruner[p] EXCEPT !.pc = pc].todo = pruner[p].todo /\ [pruner[p] EXCEPT !.pc = pc].gone = pruner[p].gone
        BY <2>3, <4>1
      <4> QED
        BY <4>2
    <3>2. pruner' = [pruner EXCEPT ![p] = new]
      BY <2>5
    <3> HIDE DEF new
    <3>3. new.pc \in {"check", "remote", "record", "release"} <=> new.run \in Runs
      BY <2>1, <2>5, <3>1
    <3>4. new.run # NoRun => lease' = "maintenance" /\ Kept(new.run) /\ \A q \in Pruners : pruner[q].run # NoRun => q = p
      BY <2>1, <2>5, <3>1
    <3>5. (\A s \in new.todo : Kept(s)) /\ \A s \in new.gone : Past(s) /\ source[s] = "none"
      BY <2>2, <3>1
    <3>6. new.pc = "remote" => \A s \in Nested[new.run] : Spared(s)
      BY <2>5, <3>1
    <3>7. new.pc = "record" => source'[new.run] = "none"
      BY <2>5, <3>1
    <3>8. new \in PrunerStates /\ lease' = lease
      BY <2>5, <3>1
    <3> HIDE <2>5
    <3> QED
      BY <1>5, <3>2, <3>3, <3>4, <3>5, <3>6, <3>7, <3>8
  <2>6. CASE PruneCheck(p)
    <3>1. PICK pc \in {"remote", "release"} :
            /\ pruner' = [pruner EXCEPT ![p] = [pruner[p] EXCEPT !.pc = pc]]
            /\ pc = "remote" => Ended(r) /\ ~Blocked(r, pruner[p].gone)
      BY <2>6 DEF PruneCheck
    <3>2. ASSUME pc = "remote", NEW s \in Nested[r] PROVE Spared(s)
      <4>1. s \in Runs
        BY <2>1, <3>2, SyncAssumptions
      <4>2. CASE s = r
        BY <2>1, <4>2 DEF Spared
      <4>3. CASE s \in pruner[p].gone
        BY <2>2, <4>3 DEF Spared
      <4>4. CASE s # r /\ s \notin pruner[p].gone
        BY <3>1, <3>2, <4>1, <4>4 DEF Blocked, Spared
      <4> QED
        BY <4>2, <4>3, <4>4
    <3>3. lease' = lease /\ strayPrunes' = strayPrunes
      BY <2>6 DEF PruneCheck
    <3>4. \A q \in Pruners : Prune(q)'
      BY <2>5, <3>1, <3>2, <3>3
    <3> QED
      BY <1>3, <1>4, <3>3, <3>4, StraysKept DEF PruneInv
  <2>7. CASE PruneRemote(p)
    <3>1. lease' = lease /\ strayPrunes' = strayPrunes /\ source'[r] = "none"
      BY <2>1, <2>7 DEF PruneRemote, Deletes
    <3>2. \A q \in Pruners : Prune(q)'
      BY <2>5, <2>7, <3>1 DEF PruneRemote
    <3> QED
      BY <1>3, <1>4, <3>1, <3>2, StraysKept DEF PruneInv
  <2>8. CASE PruneRecord(p)
    <3>1. lease' = lease /\ strayPrunes' = strayPrunes
      BY <2>8 DEF PruneRecord
    <3>2. \A q \in Pruners : Prune(q)'
      BY <2>5, <2>8, <3>1 DEF PruneRecord
    <3> QED
      BY <1>3, <1>4, <3>1, <3>2, StraysKept DEF PruneInv
  <2>3a. CASE PruneLost(p)
    <3>1. lease' = lease /\ strayPrunes' = strayPrunes \cup {r} /\ r \in Unanswered
      BY <2>3a DEF PruneLost
    <3>2. \A q \in Pruners : Prune(q)'
      BY <2>5, <2>3a, <3>1 DEF PruneLost
    <3>3. \A s \in strayPrunes' \ strayPrunes : s \in Unanswered /\ Kept(s)'
      BY <1>3, <2>1, <3>1
    <3> QED
      BY <1>3, <1>4, <3>2, <3>3, StraysKept DEF PruneInv
  <2>10. CASE PruneRelease(p)
    <3> DEFINE new == [pruner[p] EXCEPT !.pc = "next", !.run = NoRun]
    <3>1. new \in PrunerStates /\ new.pc = "next" /\ new.run = NoRun /\ new.todo = pruner[p].todo /\ new.gone = pruner[p].gone
      BY <2>3, <2>4
    <3>2. pruner' = [pruner EXCEPT ![p] = new] /\ strayPrunes' = strayPrunes
      BY <2>10 DEF PruneRelease
    <3> HIDE DEF new
    <3>3. \A q \in Pruners : Prune(q)'
      BY <1>0, <1>5, <2>1, <2>2, <3>1, <3>2
    <3> QED
      BY <1>3, <1>4, <3>2, <3>3, StraysKept DEF PruneInv
  <2> QED
    BY <1>11, <2>6, <2>7, <2>8, <2>3a, <2>10
<1> QED
  BY <1>7, <1>8, <1>9, <1>10, <1>11 DEF Pruning, PruneStep

(***************************************************************************)
(* The refinement of OutputCustody                                         *)
(***************************************************************************)
LEMMA PruneInvInit == Init => PruneInv
<1> SUFFICES ASSUME Init PROVE PruneInv
  OBVIOUS
<1>1. \A p \in Pruners : Prune(p)
  BY SyncAssumptions DEF Init, Prune, NoPruner
<1>2. \A r \in Runs : Deleted(r)
  BY DEF Init, Deleted
<1> QED
  BY <1>1, <1>2, ArchiveInvInit DEF Init, PruneInv

LEMMA PruneInvStep == PruneInv /\ [Next]_vars => PruneInv'
<1> SUFFICES ASSUME PruneInv, [Next]_vars PROVE PruneInv'
  OBVIOUS
<1>1. ArchiveInv'
  BY ArchiveInvStep DEF PruneInv
<1>2. CASE UNCHANGED vars
  <2>1. UNCHANGED <<exec, source, lease, completed, artifact, pruner, strayPrunes, purge>>
    BY <1>2 DEF vars, record, local, archive
  <2> QED
    BY <1>1, <2>1 DEF PruneInv, Prune, Deleted, Kept, Past, Status, Spared
<1> QED
  BY <1>1, <1>2, StepKinds, OthersPrunes, PruningPrunes

\* Where the finished output of r lies, in the abstract state.
Source(r) == source[r] = "final"
Held(r) == artifact[r] = "final"

\* What may happen to the output of r in a step, in terms of this module.
Allowed(r) ==
  \/ Source(r)' = Source(r) /\ Held(r)' = Held(r)
  \/ ~Source(r) /\ ~Held(r) /\ Source(r)' /\ ~Held(r)'
  \/ Source(r) /\ Source(r)' /\ Held(r)'
  \/ Held(r) /\ Held(r)' /\ ~Source(r)'
  \/ purge[r] # "no"
  \/ r \in Exposed /\ ~Source(r)' /\ Held(r)' = Held(r)

CopiesOf(r) == {p \in {"source", "archive"} : (IF p = "source" THEN source[r] ELSE artifact[r]) = "final"}

LEMMA CopiesForm ==
  ASSUME NEW r
  PROVE  /\ CopiesOf(r) \subseteq {"source", "archive"}
         /\ "source" \in CopiesOf(r) <=> Source(r)
         /\ "archive" \in CopiesOf(r) <=> Held(r)
BY DEF CopiesOf, Source, Held

LEMMA PlacesEqual ==
  ASSUME NEW a \in SUBSET {"source", "archive"}, NEW b \in SUBSET {"source", "archive"},
         "source" \in a <=> "source" \in b, "archive" \in a <=> "archive" \in b
  PROVE  a = b
<1>1. \A x : x \in a <=> x \in b
  OBVIOUS
<1> QED
  BY <1>1

LEMMA AllowedIsMove ==
  ASSUME \A r \in Runs : Allowed(r) /\ (purge[r] = "no" <=> purge'[r] = "no")
  PROVE  Custodian!Move
<1> DEFINE places == [r \in Runs |-> CopiesOf(r)]
           wanted == {r \in Runs : purge[r] # "no"}
<1>1. \A r \in Runs : /\ CopiesOf(r)' \subseteq {"source", "archive"}
                      /\ "source" \in CopiesOf(r)' <=> Source(r)'
                      /\ "archive" \in CopiesOf(r)' <=> Held(r)'
  BY DEF CopiesOf, Source, Held
<1>2. places' \in [Runs -> SUBSET {"source", "archive"}]
  BY <1>1
<1>3. wanted' = wanted
  OBVIOUS
<1>4. ASSUME NEW r \in Runs
      PROVE  \/ places'[r] = places[r]
             \/ places[r] = {} /\ places'[r] = {"source"}
             \/ "source" \in places[r] /\ places'[r] = {"source", "archive"}
             \/ "archive" \in places[r] /\ places'[r] = {"archive"}
             \/ r \in wanted /\ places'[r] \subseteq {"source", "archive"}
             \/ r \in Exposed /\ places'[r] = places[r] \ {"source"}
  <2> DEFINE here == CopiesOf(r)
             there == CopiesOf(r)'
  <2>1. /\ here \subseteq {"source", "archive"} /\ ("source" \in here <=> Source(r)) /\ ("archive" \in here <=> Held(r))
        /\ there \subseteq {"source", "archive"} /\ ("source" \in there <=> Source(r)') /\ ("archive" \in there <=> Held(r)')
    BY <1>1, CopiesForm
  <2>2. places[r] = here /\ places'[r] = there /\ (r \in wanted <=> purge[r] # "no")
    OBVIOUS
  <2>3. Allowed(r)
    OBVIOUS
  <2> HIDE DEF here, there, places, wanted
  <2>3a. here \in SUBSET {"source", "archive"} /\ there \in SUBSET {"source", "archive"}
    BY <2>1
  <2>4. CASE Source(r)' = Source(r) /\ Held(r)' = Held(r)
    <3>1. here = there
      BY <2>1, <2>4, <2>3a, PlacesEqual
    <3> QED
      BY <2>2, <3>1
  <2>5. CASE ~Source(r) /\ ~Held(r) /\ Source(r)' /\ ~Held(r)'
    <3>1. here = {} /\ there = {"source"}
      BY <2>1, <2>5
    <3> QED
      BY <2>2, <3>1
  <2>6. CASE Source(r) /\ Source(r)' /\ Held(r)'
    BY <2>1, <2>2, <2>6
  <2>7. CASE Held(r) /\ Held(r)' /\ ~Source(r)'
    BY <2>1, <2>2, <2>7
  <2>8. CASE purge[r] # "no"
    BY <2>1, <2>2, <2>8
  <2>9. CASE r \in Exposed /\ ~Source(r)' /\ Held(r)' = Held(r)
    <3>1. here \ {"source"} \in SUBSET {"source", "archive"}
      BY <2>3a
    <3>2. there = here \ {"source"}
      BY <2>1, <2>9, <2>3a, <3>1, PlacesEqual
    <3> QED
      BY <2>2, <2>9, <3>2
  <2> QED
    BY <2>3, <2>4, <2>5, <2>6, <2>7, <2>8, <2>9 DEF Allowed
<1> QED
  BY <1>2, <1>3, <1>4 DEF Custodian!Move, Custodian!Places, Custodian!Produced, Custodian!Archived, Custodian!Pruned,
                          Custodian!Destroyed, Custodian!Swept, CopiesOf

LEMMA CustodyInit == Init => Custodian!CustodyInit
<1> SUFFICES ASSUME Init PROVE Custodian!CustodyInit
  OBVIOUS
<1>1. \A r \in Runs : source[r] # "final" /\ artifact[r] # "final" /\ purge[r] = "no"
  BY DEF Init
<1>2. \A r \in Runs : {p \in {"source", "archive"} : (IF p = "source" THEN source[r] ELSE artifact[r]) = "final"} = {}
  BY <1>1
<1> QED
  BY <1>1, <1>2 DEF Custodian!CustodyInit, Exposed

LEMMA RecordsAllowed ==
  ASSUME PruneInv, Records
  PROVE  Custodian!Move
<1> USE DEF record, local, archive
<1>0. TypeOK /\ \A r \in Runs : Lived(r) /\ Archive(r)
  BY DEF PruneInv, ArchiveInv
<1>1. UNCHANGED <<artifact, purge>>
  BY DEF Records, Register, Bootstrap, Finish, LaunchFails, LaunchAborted, Stop, Monitor, Touch, EndRecord, RecorderDies,
         DropRecord, BeginRecord, Configure
<1>2. ASSUME NEW s \in Runs PROVE Allowed(s)
  <2>1. ASSUME NEW r \in Runs, Bootstrap(r) PROVE Allowed(s)
    <3>1. source[r] = "none"
      BY <1>0, <2>1 DEF Bootstrap, Lived
    <3>2. source'[s] = source[s] \/ (s = r /\ source'[s] = "growing")
      BY <1>0, <2>1 DEF Bootstrap, TypeOK
    <3> QED
      BY <1>1, <3>1, <3>2 DEF Allowed, Source, Held
  <2>2. ASSUME NEW r \in Runs, source' = [source EXCEPT ![r] = IF @ = "growing" THEN "final" ELSE @]
        PROVE  Allowed(s)
    <3>1. CASE source'[s] = source[s]
      BY <1>1, <3>1 DEF Allowed, Source, Held
    <3>2. CASE source[s] = "growing" /\ source'[s] = "final"
      <4>1. artifact[s] # "final"
        BY <1>0, <3>2 DEF Lived, Archive
      <4> QED
        BY <1>1, <3>2, <4>1 DEF Allowed, Source, Held
    <3> QED
      BY <1>0, <2>2, <3>1, <3>2 DEF TypeOK
  <2>3. CASE source' = source
    BY <1>1, <2>3 DEF Allowed, Source, Held
  <2> QED
    BY <2>1, <2>2, <2>3 DEF Records, Register, Finish, LaunchFails, LaunchAborted, Stop, Monitor, Touch, EndRecord,
                            RecorderDies, DropRecord, Configure
<1> QED
  BY <1>1, <1>2, AllowedIsMove

LEMMA PassingAllowed ==
  ASSUME PruneInv, Passing
  PROVE  Custodian!Move
<1> USE DEF Elsewhere, record, local, archive
<1>1. UNCHANGED <<source, artifact, purge>>
  BY DEF Passing, EnsureWorker, LoadConfig, ListPending, Invoke, Answered, CompleteIntent, UnlinkIntent, EndPass, Decide,
         Wake, AnswerLost, WorkerDies
<1> QED
  BY <1>1, AllowedIsMove DEF Allowed, Source, Held

LEMMA ArchivingAllowed ==
  ASSUME PruneInv, Archiving
  PROVE  Custodian!Move
<1> USE DEF Here, record, local, archive
<1>0. TypeOK /\ Program
  BY DEF PruneInv, ArchiveInv
<1>1. UNCHANGED <<source, purge>>
  BY DEF Archiving, ArchiveStep, TakeMine, TakeStray, Take, Copy, Verify, TransferFails
<1>2. ASSUME NEW s \in Runs PROVE Allowed(s)
  <2>1. CASE artifact'[s] = artifact[s]
    BY <1>1, <2>1 DEF Allowed, Source, Held
  <2>2. CASE Verify /\ artifact'[s] # artifact[s]
    <3>1. s = active.run /\ source[s] = stage[s] /\ artifact'[s] = stage[s] /\ stage[s] = "final"
      BY <1>0, <2>2 DEF Verify, TypeOK, Program
    <3> QED
      BY <1>1, <3>1 DEF Allowed, Source, Held
  <2> QED
    BY <2>1, <2>2 DEF Archiving, ArchiveStep, TakeMine, TakeStray, Take, Copy, TransferFails
<1> QED
  BY <1>1, <1>2, AllowedIsMove

\* Only the outputs that the tree of the pruned one contains go, and they may.
LEMMA PruningAllowed ==
  ASSUME PruneInv, Pruning
  PROVE  Custodian!Move
<1> USE DEF Aside, record, local, archive
<1>0. /\ TypeOK
      /\ \A p \in Pruners : Prune(p)
      /\ \A r \in Runs : Lived(r)
      /\ \A r \in strayPrunes : r \in Unanswered /\ r \in Runs /\ Kept(r)
  BY DEF PruneInv, ArchiveInv, TypeOK
<1>1. UNCHANGED <<artifact, purge>>
  BY DEF Pruning, OperatorPrunes, WorkerPrunes, ExpireLease, PruneStep, PruneNext, PruneCheck, PruneRemote, PruneRecord,
         PruneRelease, PruneLost, StrayDeletes
<1>2. ASSUME NEW s \in Runs, source'[s] = source[s] PROVE Allowed(s)
  BY <1>1, <1>2 DEF Allowed, Source, Held
<1>3. ASSUME NEW s \in Runs, source[s] = "none" \/ Kept(s) \/ s \in Exposed, source'[s] = "none" PROVE Allowed(s)
  <2>1. CASE source[s] = "none"
    BY <1>2, <1>3, <2>1
  <2>2. CASE Kept(s)
    BY <1>1, <1>3, <2>2 DEF Allowed, Source, Held, Kept
  <2>3. CASE s \in Exposed
    BY <1>1, <1>3, <2>3 DEF Allowed, Source, Held
  <2> QED
    BY <1>3, <2>1, <2>2, <2>3
<1>4. ASSUME NEW r \in Runs, Kept(r), Deletes(r), \A s \in Nested[r] : Spared(s) \/ r \in strayPrunes, NEW s \in Runs
      PROVE  Allowed(s)
  <2>1. source'[s] = IF s = r \/ s \in Nested[r] THEN "none" ELSE source[s]
    BY <1>4 DEF Deletes
  <2>2. s \in Nested[r] => source[s] = "none" \/ Kept(s) \/ s \in Exposed
    BY <1>4 DEF Spared, Exposed
  <2> QED
    BY <1>3, <1>2, <1>4, <2>1, <2>2
<1>5. ASSUME NEW r \in Runs, StrayDeletes(r), NEW s \in Runs PROVE Allowed(s)
  <2>1. Kept(r) /\ r \in strayPrunes /\ Deletes(r)
    BY <1>0, <1>5 DEF StrayDeletes
  <2> QED
    BY <1>4, <2>1
<1>6. ASSUME NEW p \in Pruners, PruneRemote(p), NEW s \in Runs PROVE Allowed(s)
  <2>1. Prune(p) /\ pruner[p].pc = "remote" /\ pruner[p].run \in Runs \cup {NoRun} /\ NoRun \notin Runs
    BY <1>0, <1>6, SyncAssumptions DEF PruneRemote, At, TypeOK
  <2>2. pruner[p].run \in Runs /\ Kept(pruner[p].run) /\ \A q \in Nested[pruner[p].run] : Spared(q)
    BY <2>1 DEF Prune
  <2> QED
    BY <1>4, <1>6, <2>2 DEF PruneRemote
<1>7. \/ source' = source
      \/ \E r \in Runs : StrayDeletes(r)
      \/ \E p \in Pruners : PruneRemote(p)
  BY DEF Pruning, OperatorPrunes, WorkerPrunes, ExpireLease, PruneStep, PruneNext, PruneCheck, PruneRecord, PruneRelease,
         PruneLost
<1> QED
  BY <1>1, <1>2, <1>5, <1>6, <1>7, AllowedIsMove

LEMMA ExposedRuns == Exposed' \in SUBSET Runs
BY DEF Exposed

LEMMA PurgingAllowed ==
  ASSUME PruneInv, Purging
  PROVE  Custodian!CustodyNext
<1> USE DEF Beyond, record, local, archive, Purges
<1>0. TypeOK
  BY DEF PruneInv, ArchiveInv
<1>1. PICK r \in Runs : PurgeRecord(r) \/ PurgeStep(r)
  BY DEF Purging
<1>2. CASE PurgeRecord(r)
  <2>1. source' = source /\ artifact' = artifact /\ purge[r] = "no" /\ purge' = [purge EXCEPT ![r] = "staged"]
    BY <1>2 DEF PurgeRecord
  <2>2. {q \in Runs : purge'[q] # "no"} = {q \in Runs : purge[q] # "no"} \cup {r}
    BY <1>0, <2>1 DEF TypeOK
  <2>3. Custodian!Condemn(r)
    BY <2>1, <2>2 DEF Custodian!Condemn
  <2> QED
    BY <2>3, ExposedRuns DEF Custodian!CustodyNext
<1>3. CASE PurgeStep(r)
  <2>1. purge[r] # "no" /\ purge'[r] # "no"
    BY <1>0, <1>3 DEF PurgeStep, PurgeSync, PurgeArchive, PurgeLocal, PurgeSource, TypeOK
  <2>2. \A s \in Runs : s # r => source'[s] = source[s] /\ artifact'[s] = artifact[s] /\ purge'[s] = purge[s]
    BY <1>0, <1>3 DEF PurgeStep, PurgeSync, PurgeArchive, PurgeLocal, PurgeSource, TypeOK
  <2>3. Custodian!Move
    BY <2>1, <2>2, AllowedIsMove DEF Allowed, Source, Held
  <2> QED
    BY <2>3, ExposedRuns DEF Custodian!CustodyNext
<1> QED
  BY <1>1, <1>2, <1>3

LEMMA CustodyStep == PruneInv /\ [Next]_vars => [Custodian!CustodyNext]_(Custodian!custody)
<1> SUFFICES ASSUME PruneInv, [Next]_vars PROVE [Custodian!CustodyNext]_(Custodian!custody)
  OBVIOUS
<1>1. CASE UNCHANGED vars
  <2>1. UNCHANGED <<source, artifact, purge, exec, strayPrunes>>
    BY <1>1 DEF vars, archive, record
  <2>2. Exposed' = Exposed
    BY <2>1 DEF Exposed, Status
  <2> QED
    BY <2>1, <2>2 DEF Custodian!custody
<1>2. CASE Records \/ Passing \/ Archiving \/ Pruning
  BY <1>2, RecordsAllowed, PassingAllowed, ArchivingAllowed, PruningAllowed, ExposedRuns DEF Custodian!CustodyNext
<1>3. CASE Purging
  BY <1>3, PurgingAllowed
<1> QED
  BY <1>1, <1>2, <1>3, StepKinds

\* OutputSync implements OutputCustody, for any number of runs in any nesting of their
\* outputs: an output gets into the archive only as a verified copy of what lies on the
\* source, and leaves the source only when it is archived, when somebody purges its
\* run, or when it is exposed: in the tree of another output, its own record gone or
\* the prune of that other one past its checks and no longer waited for. Nothing but a
\* purge ever takes an archived copy away.
THEOREM OutputSyncKeepsCustody == Spec => NothingIsLost
<1>1. PruneInv /\ [Next]_vars => PruneInv'
  BY PruneInvStep
<1>2. PruneInv /\ [Next]_vars => [Custodian!CustodyNext]_(Custodian!custody)
  BY CustodyStep
<1> QED
  BY <1>1, <1>2, PruneInvInit, CustodyInit, PTL DEF Spec, NothingIsLost, Custodian!Custody

=============================================================================
