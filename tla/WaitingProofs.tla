--------------------------- MODULE WaitingProofs ---------------------------
(***************************************************************************)
(* Theorems about views and waiting, for any number of runs and waiters,   *)
(* for requests for any number of runs, and for any number of faults: what *)
(* a waiter is told is final, and true of the archive, although it is      *)
(* derived from three files that are read one after the other.             *)
(***************************************************************************)
EXTENDS Waiting, SequenceTheorems, TLAPS

(***************************************************************************)
(* The invariant                                                           *)
(***************************************************************************)
Ended(r) == exec[r].status \in ExecTerminal

\* What the queue entry of r says of its record: only a job that was launched, or whose
\* launch has failed, has one.
Coherent(r) ==
  /\ exec[r].status = "none" => exec[r] = NoRecord
  /\ queue[r] \in {"absent", "queued", "stopped"} => exec[r].status = "none"
  /\ queue[r] = "dispatched" => exec[r].status # "none"
  /\ queue[r] = "failed" => exec[r].status \in {"none", "failed"}
  /\ queue[r] = "gone" => exec[r].status \in {"none", "stopped"}

\* The record that the thread of the dispatcher relies on while it works on r.
Threads(r) ==
  /\ thread[r] # "idle" => queue[r] = "dispatching"
  /\ thread[r] = "marked" => exec[r].status = "none"
  /\ thread[r] \in {"registered", "failing"} => exec[r].status = "registered" /\ machine[r] = "none"
  /\ thread[r] = "launching" => exec[r].status = "registered"
  /\ thread[r] = "launched" => exec[r].status # "none"
  /\ thread[r] = "failqueue" => exec[r].status \in {"none", "failed"}

\* A workload has a record; what a client has seen of one does not get unseen.
Workload(r) ==
  /\ machine[r] # "none" => exec[r].status # "none" \/ queue[r] = "gone"
  /\ probe[r] \notin {NoView, "absent", "unreachable"} => machine[r] \notin {"none", "starting"}

\* The intent is there as soon as the record has ended.
Synced(r) ==
  /\ sync[r] # "not_enqueued" => Ended(r) \/ queue[r] = "gone"
  /\ r \in Archived /\ Ended(r) => sync[r] # "not_enqueued"
  /\ r \in worker.left => sync[r] \in {"pending", "retryable"}

RunInv(r) == Coherent(r) /\ Threads(r) /\ Workload(r) /\ Synced(r)

\* What remains true of a run, whose files are now, once its queue entry q was read ...
KnowsQueue(now, q) ==
  /\ q # "absent"
  /\ q \in QueueTerminal \cup {"dispatched", "gone"} => now.queue \in {q, "gone"}

\* ... then its record ...
KnowsExec(r, now, v) ==
  /\ v.exec.status \in ExecTerminal => now.queue = "gone" \/ now.exec.status = v.exec.status
  /\ v.exec.status = "none" /\ v.queue \in QueueTerminal => now.exec.status = "none"
  /\ now.queue # "gone" => Phase(v) \notin {"conflict", "undead", "unrecorded", "missing"}
  /\ r \in Archived /\ v.exec.status \in ExecTerminal => now.sync # "not_enqueued"

\* ... and then what the output-sync files say of it.
KnowsSync(r, now, v) ==
  /\ v.sync = "completed" => now.sync = "completed"
  /\ r \in Archived /\ v.exec.status \in ExecTerminal => v.sync # "not_enqueued"

Knows(r, now, v) == KnowsQueue(now, v.queue) /\ KnowsExec(r, now, v) /\ KnowsSync(r, now, v)

\* What a client me has been told so far, and what it holds to, is true of the files now.
Sees(me, now) ==
  LET runs == me.asked.runs
      next == runs[Len(me.read) + 1]
  IN
  /\ me.pc = "idle" <=> me.asked = NoRequest
  /\ me.pc \in {"idle", "call"} => me.read = <<>>
  /\ me.pc # "idle" =>
       /\ \A k \in 1..Len(runs) : now[runs[k]].queue # "absent"
       /\ Len(me.read) <= Len(runs)
       /\ \A k \in 1..Len(me.read) : Knows(runs[k], now[runs[k]], me.read[k])
  /\ me.pc \in {"queue", "exec", "sync"} => Len(me.read) < Len(runs)
  /\ me.pc \in {"look", "completed", "attention"} => Len(me.read) = Len(runs)
  /\ me.pc \in {"exec", "sync"} => KnowsQueue(now[next], me.part.queue)
  /\ me.pc = "sync" => KnowsExec(next, now[next], me.part)
  /\ me.pc = "completed" => \A k \in 1..Len(me.read) :
       /\ Phase(me.read[k]) = "terminal"
       /\ me.asked.until = "reportable" => Readiness(me.read[k]) = "ready"

Views == [r \in Runs |-> Now(r)]
Watch(w) == Sees(waiter[w], Views)

WaitInv ==
  /\ TypeOK
  /\ \A r \in Runs : RunInv(r)
  /\ \A w \in Waiters : Watch(w)

(***************************************************************************)
(* Views                                                                   *)
(***************************************************************************)
LEMMA PhaseForm ==
  ASSUME NEW v \in View
  PROVE  /\ v.exec.status \in ExecTerminal =>
              Phase(v) = IF v.queue \in QueueTerminal /\ v.queue # v.exec.status THEN "conflict" ELSE "terminal"
         /\ v.exec.status \in {"registered", "running"} =>
              IF v.queue \in QueueTerminal THEN Phase(v) = "undead" ELSE Phase(v) \in {"absent", "unknown", "registered", "running"}
         /\ v.exec.status = "none" =>
              Phase(v) = IF v.queue \in QueueTerminal THEN "terminal"
                         ELSE IF v.queue = "dispatched" THEN "unrecorded"
                         ELSE IF v.queue \in {"absent", "gone"} THEN "missing" ELSE v.queue
<1>0. /\ v.exec.status \in {"none", "registered", "running"} \cup ExecTerminal /\ v.exec.error \in {"none", "unknown", "absent"}
      /\ v.queue \in QueueStatuses
  BY DEF View, ExecRecord
<1>1. CASE v.exec.status \in ExecTerminal
  BY <1>1 DEF Phase, ExecTerminal
<1>2. CASE v.exec.status \in {"registered", "running"}
  BY <1>0, <1>2 DEF Phase, ExecTerminal
<1>3. CASE v.exec.status = "none"
  BY <1>0, <1>3 DEF Phase, ExecTerminal, QueueTerminal, QueueStatuses
<1> QED
  BY <1>0, <1>1, <1>2, <1>3 DEF ExecTerminal

\* A terminal view has an outcome: that of the record or, without one, of the entry.
LEMMA TerminalForm ==
  ASSUME NEW v \in View, Phase(v) = "terminal"
  PROVE  \/ v.exec.status \in ExecTerminal /\ Outcome(v) = v.exec.status /\ (v.queue \in QueueTerminal => v.queue = v.exec.status)
         \/ v.exec.status = "none" /\ v.queue \in QueueTerminal /\ Outcome(v) = v.queue
<1>0. v.exec.status \in {"none", "registered", "running"} \cup ExecTerminal /\ v.queue \in QueueStatuses
  BY DEF View, ExecRecord
<1>1. CASE v.exec.status \in ExecTerminal
  BY <1>1, PhaseForm DEF Outcome, ExecTerminal
<1>2. CASE v.exec.status \in {"registered", "running"}
  BY <1>2, PhaseForm
<1>3. CASE v.exec.status = "none"
  BY <1>0, <1>3, PhaseForm DEF Outcome, QueueStatuses, QueueTerminal
<1> QED
  BY <1>0, <1>1, <1>2, <1>3

LEMMA ReadyForm ==
  ASSUME NEW v \in View, Readiness(v) = "ready"
  PROVE  /\ Phase(v) = "terminal"
         /\ Outcome(v) = "succeeded" => v.sync \notin {"pending", "retryable"}
<1>1. Phase(v) \notin Attention \cup {"missing"} /\ Phase(v) \notin Active
  BY DEF Readiness
<1>2. Outcome(v) = "succeeded" => v.sync \notin {"pending", "retryable"}
  BY <1>1 DEF Readiness
<1>3. v.exec.status \in {"none", "registered", "running"} \cup ExecTerminal /\ v.queue \in QueueStatuses
  BY DEF View, ExecRecord
<1>4. Phase(v) = "terminal"
  BY <1>1, <1>3, PhaseForm DEF Attention, Active, QueueStatuses, QueueTerminal
<1> QED
  BY <1>2, <1>4

\* What the files of a run go through.
Onward(was, is) ==
  /\ was.queue # "absent" => is.queue # "absent"
  /\ was.queue \in QueueTerminal \cup {"dispatched", "gone"} => is.queue \in {was.queue, "gone"}
  /\ was.exec.status \in ExecTerminal => is.queue = "gone" \/ is.exec.status = was.exec.status
  /\ was.exec.status = "none" /\ was.queue \in QueueTerminal \cup {"gone"} => is.exec.status = "none"
  /\ was.sync = "completed" => is.sync = "completed"
  /\ was.sync # "not_enqueued" => is.sync # "not_enqueued"

LEMMA QueueKnown ==
  ASSUME NEW was, NEW is, NEW q, Onward(was, is), KnowsQueue(was, q)
  PROVE  KnowsQueue(is, q)
BY DEF Onward, KnowsQueue

LEMMA ExecKnown ==
  ASSUME NEW r, NEW was, NEW is, NEW v, Onward(was, is), KnowsQueue(was, v.queue), KnowsExec(r, was, v)
  PROVE  KnowsExec(r, is, v)
<1>1. was.queue = "gone" => is.queue = "gone"
  BY DEF Onward
<1>2. v.exec.status \in ExecTerminal => is.queue = "gone" \/ is.exec.status = v.exec.status
  BY <1>1 DEF Onward, KnowsExec
<1>3. v.exec.status = "none" /\ v.queue \in QueueTerminal => is.exec.status = "none"
  BY DEF Onward, KnowsExec, KnowsQueue
<1>4. is.queue # "gone" => Phase(v) \notin {"conflict", "undead", "unrecorded", "missing"}
  BY <1>1 DEF KnowsExec
<1>5. r \in Archived /\ v.exec.status \in ExecTerminal => is.sync # "not_enqueued"
  BY DEF Onward, KnowsExec
<1> QED
  BY <1>2, <1>3, <1>4, <1>5 DEF KnowsExec

LEMMA ViewKnown ==
  ASSUME NEW r, NEW was, NEW is, NEW v, Onward(was, is), Knows(r, was, v)
  PROVE  Knows(r, is, v)
<1>1. KnowsQueue(is, v.queue) /\ KnowsExec(r, is, v)
  BY QueueKnown, ExecKnown DEF Knows
<1>2. KnowsSync(r, is, v)
  BY DEF Onward, Knows, KnowsSync
<1> QED
  BY <1>1, <1>2 DEF Knows

\* Reading the record after the queue entry, and the output-sync files after both.
LEMMA ExecRead ==
  ASSUME NEW r, NEW now \in View, NEW v \in View, KnowsQueue(now, v.queue), v.exec = now.exec,
         now.queue = "dispatched" => now.exec.status # "none",
         now.queue = "failed" => now.exec.status \in {"none", "failed"},
         now.queue = "stopped" => now.exec.status = "none",
         now.queue = "gone" => now.exec.status \in {"none", "stopped"},
         r \in Archived /\ now.exec.status \in ExecTerminal => now.sync # "not_enqueued"
  PROVE  KnowsExec(r, now, v)
<1>0. v.exec.status \in {"none", "registered", "running"} \cup ExecTerminal /\ v.queue \in QueueStatuses
  BY DEF View, ExecRecord
<1>1. ASSUME now.queue # "gone" PROVE Phase(v) \notin {"conflict", "undead", "unrecorded", "missing"}
  <2>1. v.queue \in QueueTerminal \cup {"dispatched"} => now.queue = v.queue
    BY <1>1 DEF KnowsQueue
  <2>2. v.queue # "gone" /\ v.queue # "absent"
    BY <1>1 DEF KnowsQueue
  <2>3. CASE v.exec.status \in ExecTerminal
    BY <2>1, <2>3, PhaseForm DEF QueueTerminal, ExecTerminal
  <2>4. CASE v.exec.status \in {"registered", "running"}
    <3>1. v.queue \notin QueueTerminal
      BY <2>1, <2>4 DEF QueueTerminal
    <3> QED
      BY <2>4, <3>1, PhaseForm
  <2>5. CASE v.exec.status = "none"
    BY <1>0, <2>1, <2>2, <2>5, PhaseForm DEF QueueStatuses, QueueTerminal
  <2> QED
    BY <1>0, <2>3, <2>4, <2>5
<1> QED
  BY <1>1 DEF KnowsExec

LEMMA SyncRead ==
  ASSUME NEW r, NEW now, NEW v, v.sync = now.sync, KnowsExec(r, now, v)
  PROVE  KnowsSync(r, now, v)
BY DEF KnowsExec, KnowsSync

(***************************************************************************)
(* Runs: what each step leaves true of them                                *)
(***************************************************************************)
\* The run is as before, but a thread or a probe may be gone and a pass may be over.
Alike(s) ==
  /\ queue'[s] = queue[s] /\ exec'[s] = exec[s] /\ sync'[s] = sync[s] /\ machine'[s] = machine[s]
  /\ thread'[s] \in {thread[s], "idle"} /\ probe'[s] \in {probe[s], NoView}
  /\ s \in worker'.left => s \in worker.left

LEMMA AlikeKeeps ==
  ASSUME NEW s \in Runs, RunInv(s), Alike(s)
  PROVE  RunInv(s)' /\ Onward(Now(s), Now(s)')
<1>1. Onward(Now(s), Now(s)')
  BY DEF Alike, Onward, Now
<1>2. Coherent(s)' /\ Synced(s)'
  BY DEF Alike, RunInv, Coherent, Synced, Ended
<1>3. Threads(s)'
  BY DEF Alike, RunInv, Threads
<1>4. Workload(s)'
  BY DEF Alike, RunInv, Workload
<1> QED
  BY <1>1, <1>2, <1>3, <1>4 DEF RunInv

\* Dispatch: the entry is marked, the record written, the bootstrap sent.
Dispatches(a) ==
  Mark(a) \/ Recover(a) \/ Dispatching(a) \/ RemoteStep(a) \/ Submit(a) \/ StopQueued(a) \/ CleanQueue(a) \/ CleanExecution(a)

LEMMA DispatchesElsewhere ==
  ASSUME TypeOK, NEW a \in Runs, Dispatches(a), NEW s \in Runs, s # a
  PROVE  Alike(s)
<1> USE DEF files, SetQueue, Record, Goto, Ends, Alike
<1>1. CASE Mark(a) \/ Recover(a) \/ Register(a) \/ EndDispatch(a)
  BY <1>1 DEF Mark, Recover, Register, EndDispatch, TypeOK
<1>2. CASE Launch(a) \/ LaunchRejected(a) \/ RemoteStep(a)
  BY <1>2 DEF Launch, LaunchRejected, RemoteStep, TypeOK
<1>3. CASE Launched(a) \/ LaunchUnknown(a)
  BY <1>3 DEF Launched, LaunchUnknown, TypeOK
<1>4. CASE FailExecution(a)
  BY <1>4 DEF FailExecution, TypeOK
<1>5. CASE Submit(a) \/ StopQueued(a) \/ CleanQueue(a) \/ CleanExecution(a)
  BY <1>5 DEF Submit, StopQueued, CleanQueue, CleanExecution, TypeOK
<1> QED
  BY <1>1, <1>2, <1>3, <1>4, <1>5 DEF Dispatches, Dispatching

LEMMA DispatchesHere ==
  ASSUME TypeOK, NEW a \in Runs, RunInv(a), Dispatches(a)
  PROVE  RunInv(a)' /\ Onward(Now(a), Now(a)')
<1> USE DEF files, SetQueue, Record, Goto, RunInv, Coherent, Threads, Workload, Synced, Ended, Onward, Now
<1>0. /\ queue[a] \in QueueStatuses /\ exec[a] \in ExecRecord /\ NoRecord.status = "none"
      /\ thread[a] \in {"idle", "marked", "registered", "launching", "launched", "failing", "failqueue"}
      /\ probe[a] \in Probes \cup {NoView} /\ sync[a] \in SyncStatuses
      /\ queue \in [Runs -> QueueStatuses] /\ exec \in [Runs -> ExecRecord] /\ DOMAIN thread = Runs /\ DOMAIN machine = Runs
      /\ DOMAIN sync = Runs
  BY DEF TypeOK, NoRecord
<1>1. CASE Mark(a)
  <2>1. /\ queue'[a] = "dispatching" /\ thread'[a] = "marked" /\ queue[a] = "queued"
        /\ UNCHANGED <<exec, sync, machine, worker, probe>>
    BY <1>0, <1>1 DEF Mark
  <2> QED
    BY <1>0, <2>1 DEF ExecTerminal, QueueTerminal
<1>2. CASE Recover(a)
  <2>1. /\ queue'[a] = (IF exec[a] = NoRecord THEN "queued" ELSE "dispatched") /\ thread[a] = "idle" /\ queue[a] = "dispatching"
        /\ UNCHANGED <<exec, sync, machine, worker, probe, thread>>
    BY <1>0, <1>2 DEF Recover, Interrupted
  <2> QED
    BY <1>0, <2>1 DEF ExecTerminal, QueueTerminal
<1>3. CASE Register(a)
  <2>1. /\ thread[a] = "marked" /\ UNCHANGED <<queue, sync, machine, worker, probe>>
        /\ \/ thread'[a] = "registered" /\ exec'[a] = [status |-> "registered", error |-> "none"]
           \/ thread'[a] = "failqueue" /\ exec'[a] = exec[a]
    BY <1>0, <1>3 DEF Register
  <2> QED
    BY <1>0, <2>1 DEF ExecTerminal, QueueTerminal
<1>4. CASE Launch(a)
  <2>1. /\ thread[a] = "registered" /\ thread'[a] = "launching" /\ machine'[a] = "starting"
        /\ UNCHANGED <<queue, exec, sync, worker, probe>>
    BY <1>0, <1>4 DEF Launch
  <2> QED
    BY <1>0, <2>1 DEF ExecTerminal, QueueTerminal
<1>5. CASE Launched(a) \/ LaunchUnknown(a)
  <2>1. /\ thread[a] = "launching" /\ thread'[a] = "launched" /\ exec'[a].status \in {"running", "registered"}
        /\ UNCHANGED <<queue, sync, machine, worker, probe>>
    BY <1>0, <1>5 DEF Launched, LaunchUnknown
  <2> QED
    BY <1>0, <2>1 DEF ExecTerminal, QueueTerminal
<1>6. CASE LaunchRejected(a)
  <2>1. /\ thread[a] = "launching" /\ thread'[a] = "failing" /\ machine[a] = "starting" /\ machine'[a] = "none"
        /\ UNCHANGED <<queue, exec, sync, worker, probe>>
    BY <1>0, <1>6 DEF LaunchRejected
  <2> QED
    BY <1>0, <2>1 DEF ExecTerminal, QueueTerminal
<1>7. CASE FailExecution(a)
  <2>1. /\ thread[a] = "failing" /\ thread'[a] = "failqueue" /\ exec'[a] = [status |-> "failed", error |-> "none"]
        /\ sync'[a] = IF a \in Archived THEN "pending" ELSE sync[a]
        /\ UNCHANGED <<queue, machine, worker, probe>>
    BY <1>0, <1>7 DEF FailExecution, Ends
  <2> QED
    BY <1>0, <2>1 DEF ExecTerminal, QueueTerminal
<1>8. CASE EndDispatch(a)
  <2>1. /\ thread[a] \in {"launched", "failqueue"} /\ thread'[a] = "idle"
        /\ queue'[a] = (IF thread[a] = "launched" THEN "dispatched" ELSE "failed")
        /\ UNCHANGED <<exec, sync, machine, worker, probe>>
    BY <1>0, <1>8 DEF EndDispatch
  <2> QED
    BY <1>0, <2>1 DEF ExecTerminal, QueueTerminal
<1>9. CASE RemoteStep(a)
  <2>1. /\ machine'[a] \in {"none", "running"} \cup Outcomes /\ machine[a] # "none"
        /\ machine'[a] = "none" => machine[a] = "starting"
        /\ UNCHANGED <<queue, exec, sync, thread, worker, probe>>
    BY <1>0, <1>9, WaitingAssumptions DEF RemoteStep
  <2>2. machine'[a] # "starting"
    BY <2>1, WaitingAssumptions
  <2> QED
    BY <1>0, <2>1, <2>2 DEF ExecTerminal, QueueTerminal
<1>10. CASE Submit(a)
  <2>1. queue[a] = "absent" /\ queue'[a] = "queued" /\ UNCHANGED <<exec, sync, machine, thread, worker, probe>>
    BY <1>0, <1>10 DEF Submit
  <2> QED
    BY <1>0, <2>1 DEF ExecTerminal, QueueTerminal
<1>11. CASE StopQueued(a)
  <2>1. queue[a] = "queued" /\ queue'[a] = "stopped" /\ UNCHANGED <<exec, sync, machine, thread, worker, probe>>
    BY <1>0, <1>11 DEF StopQueued
  <2> QED
    BY <1>0, <2>1 DEF ExecTerminal, QueueTerminal
<1>12. CASE CleanQueue(a)
  <2>1. /\ queue[a] \notin {"absent", "gone", "queued", "dispatching"} /\ queue'[a] = "gone"
        /\ exec[a].status \in {"none", "stopped"} /\ UNCHANGED <<exec, sync, machine, thread, worker, probe>>
    BY <1>0, <1>12 DEF CleanQueue
  <2> QED
    BY <1>0, <2>1 DEF ExecTerminal, QueueTerminal
<1>13. CASE CleanExecution(a)
  <2>1. queue[a] = "gone" /\ exec'[a] = NoRecord /\ UNCHANGED <<queue, sync, machine, thread, worker, probe>>
    BY <1>0, <1>13 DEF CleanExecution
  <2> QED
    BY <1>0, <2>1 DEF ExecTerminal, QueueTerminal
<1> QED
  BY <1>1, <1>2, <1>3, <1>4, <1>5, <1>6, <1>7, <1>8, <1>9, <1>10, <1>11, <1>12, <1>13 DEF Dispatches, Dispatching

\* Monitoring, status and stops bring the record to its end; without the run lock nobody does.
LEMMA RecordKeeps ==
  ASSUME TypeOK, NEW a \in Runs, RunInv(a), ~Locked(a),
         UNCHANGED queue, thread'[a] = thread[a], probe'[a] \in {probe[a], NoView}, worker'.left \subseteq worker.left,
         machine'[a] = machine[a] \/ (Live(a) /\ thread[a] = "idle" /\ machine'[a] = "stopped"),
         \/ exec' = exec /\ sync' = sync
         \/ Live(a) /\ exec'[a].status \in ExecTerminal /\ sync'[a] = (IF a \in Archived THEN "pending" ELSE sync[a])
            /\ thread[a] \notin {"registered", "failing"}
         \/ Live(a) /\ exec'[a].status = "running" /\ sync' = sync /\ thread[a] \notin {"registered", "failing"}
  PROVE  RunInv(a)' /\ Onward(Now(a), Now(a)')
<1> USE DEF RunInv, Coherent, Threads, Workload, Synced, Ended, Onward, Now, Live, Locked
<1>0. queue[a] \in QueueStatuses /\ thread[a] # "launching"
      /\ thread[a] \in {"idle", "marked", "registered", "launching", "launched", "failing", "failqueue"}
  BY DEF TypeOK
<1>1. CASE exec' = exec /\ sync' = sync
  BY <1>0, <1>1 DEF ExecTerminal, QueueTerminal
<1>2. CASE Live(a) /\ exec'[a].status \in ExecTerminal /\ sync'[a] = (IF a \in Archived THEN "pending" ELSE sync[a])
           /\ thread[a] \notin {"registered", "failing"}
  <2>1. queue[a] \in {"dispatching", "dispatched"} /\ thread[a] \in {"idle", "launched"}
    BY <1>0, <1>2 DEF QueueStatuses, QueueTerminal
  <2> QED
    BY <1>2, <2>1 DEF ExecTerminal, QueueTerminal
<1>3. CASE Live(a) /\ exec'[a].status = "running" /\ sync' = sync /\ thread[a] \notin {"registered", "failing"}
  <2>1. queue[a] \in {"dispatching", "dispatched"} /\ thread[a] \in {"idle", "launched"}
    BY <1>0, <1>3 DEF QueueStatuses, QueueTerminal
  <2> QED
    BY <1>3, <2>1 DEF ExecTerminal, QueueTerminal
<1> QED
  BY <1>1, <1>2, <1>3

\* What is seen of a run, now or earlier, is applied to its record as it is.
LEMMA ReconcileForm ==
  ASSUME TypeOK, NEW a \in Runs, RunInv(a), NEW seen \in Probes, Reconcile(a, seen),
         seen \notin {"absent", "unreachable"} => machine[a] \notin {"none", "starting"}
  PROVE  /\ \/ exec' = exec /\ sync' = sync
            \/ Live(a) /\ exec'[a].status \in ExecTerminal /\ sync'[a] = (IF a \in Archived THEN "pending" ELSE sync[a])
               /\ thread[a] \notin {"registered", "failing"}
            \/ Live(a) /\ exec'[a].status = "running" /\ sync' = sync /\ thread[a] \notin {"registered", "failing"}
         /\ \A s \in Runs : s # a => exec'[s] = exec[s] /\ sync'[s] = sync[s]
         /\ exec' \in [Runs -> ExecRecord] /\ sync' \in [Runs -> SyncStatuses]
<1> USE DEF Record, Ends
<1>0. exec \in [Runs -> ExecRecord] /\ sync \in [Runs -> SyncStatuses]
  BY DEF TypeOK
<1>1. CASE ~Live(a) \/ seen = "unreachable"
  <2>1. exec' = exec /\ sync' = sync
    BY <1>1 DEF Reconcile, ExecTerminal
  <2> QED
    BY <1>0, <2>1
<1>2. CASE Live(a) /\ seen \in ExecTerminal
  <2>1. /\ exec' = [exec EXCEPT ![a] = [status |-> seen, error |-> "none"]]
        /\ sync' = IF a \in Archived THEN [sync EXCEPT ![a] = "pending"] ELSE sync
    BY <1>2 DEF Reconcile, ExecTerminal
  <2>2. [status |-> seen, error |-> "none"] \in ExecRecord
    BY <1>2 DEF ExecRecord
  <2>3. exec' \in [Runs -> ExecRecord] /\ exec'[a].status = seen /\ \A s \in Runs : s # a => exec'[s] = exec[s]
    BY <1>0, <2>1, <2>2
  <2>4. /\ sync' \in [Runs -> SyncStatuses] /\ sync'[a] = (IF a \in Archived THEN "pending" ELSE sync[a])
        /\ \A s \in Runs : s # a => sync'[s] = sync[s]
    BY <1>0, <2>1 DEF SyncStatuses
  <2>5. thread[a] \notin {"registered", "failing"}
    BY <1>2 DEF RunInv, Threads, ExecTerminal
  <2> QED
    BY <1>2, <2>3, <2>4, <2>5
<1>3. CASE Live(a) /\ seen = "running"
  <2>1. exec' = [exec EXCEPT ![a] = [status |-> "running", error |-> "none"]] /\ sync' = sync
    BY <1>3 DEF Reconcile, ExecTerminal
  <2>2. [status |-> "running", error |-> "none"] \in ExecRecord
    BY DEF ExecRecord
  <2>3. thread[a] \notin {"registered", "failing"}
    BY <1>3 DEF RunInv, Threads
  <2> QED
    BY <1>0, <1>3, <2>1, <2>2, <2>3
<1>4. CASE Live(a) /\ seen = "absent"
  <2>1. sync' = sync /\ IF exec[a].status = "running" THEN exec' = [exec EXCEPT ![a] = [status |-> "running", error |-> "absent"]]
                                                    ELSE exec' = exec
    BY <1>4 DEF Reconcile, ExecTerminal
  <2>2. CASE exec[a].status = "running"
    <3>1. [status |-> "running", error |-> "absent"] \in ExecRecord
      BY DEF ExecRecord
    <3>2. thread[a] \notin {"registered", "failing"}
      BY <2>2 DEF RunInv, Threads
    <3> QED
      BY <1>0, <1>4, <2>1, <2>2, <3>1, <3>2
  <2>3. CASE exec[a].status # "running"
    BY <1>0, <2>1, <2>3
  <2> QED
    BY <2>2, <2>3
<1> QED
  BY <1>1, <1>2, <1>3, <1>4 DEF Probes, ExecTerminal

LEMMA SeenForm ==
  ASSUME TypeOK, NEW a \in Runs
  PROVE  Seen(a) \in Probes /\ (Seen(a) \notin {"absent", "unreachable"} => machine[a] \notin {"none", "starting"})
<1>1. machine[a] \in {"none", "starting", "running", "stopped", "succeeded", "failed", "gone"}
  BY WaitingAssumptions DEF TypeOK
<1> QED
  BY <1>1 DEF Seen, Probes

LEMMA ReconcileKeeps ==
  ASSUME TypeOK, \A s \in Runs : RunInv(s), NEW a \in Runs, ~Locked(a), NEW seen \in Probes, Reconcile(a, seen),
         seen \notin {"absent", "unreachable"} => machine[a] \notin {"none", "starting"},
         UNCHANGED <<queue, machine, thread>>, \A s \in Runs : probe'[s] \in {probe[s], NoView}, worker'.left \subseteq worker.left
  PROVE  \A s \in Runs : RunInv(s)' /\ Onward(Now(s), Now(s)')
<1>1. RunInv(a)' /\ Onward(Now(a), Now(a)')
  BY ReconcileForm, RecordKeeps
<1>2. ASSUME NEW s \in Runs, s # a PROVE RunInv(s)' /\ Onward(Now(s), Now(s)')
  <2>1. exec'[s] = exec[s] /\ sync'[s] = sync[s]
    BY <1>2, ReconcileForm
  <2> QED
    BY <2>1, AlikeKeeps DEF Alike
<1> QED
  BY <1>1, <1>2

LEMMA StopKeeps ==
  ASSUME TypeOK, \A s \in Runs : RunInv(s), NEW a \in Runs, Stop(a)
  PROVE  \A s \in Runs : RunInv(s)' /\ Onward(Now(s), Now(s)')
<1>0. /\ exec \in [Runs -> ExecRecord] /\ sync \in [Runs -> SyncStatuses] /\ DOMAIN machine = Runs
      /\ machine[a] \in {"none", "starting", "running", "stopped", "succeeded", "failed", "gone"}
  BY WaitingAssumptions DEF TypeOK
<1>1. /\ exec'[a].status \in ExecTerminal /\ sync'[a] = (IF a \in Archived THEN "pending" ELSE sync[a])
      /\ Live(a) /\ ~Locked(a) /\ thread[a] = "idle" /\ UNCHANGED <<queue, thread, worker, probe>>
      /\ machine'[a] = machine[a] \/ machine'[a] = "stopped"
  <2>1. \E status \in ExecTerminal : Ends(a, status)
    BY DEF Stop, ExecTerminal
  <2>2. exec'[a].status \in ExecTerminal /\ sync'[a] = (IF a \in Archived THEN "pending" ELSE sync[a])
    BY <1>0, <2>1 DEF Ends, Record
  <2>3. thread[a] = "idle"
    BY DEF Stop, RunInv, Threads
  <2>4. machine'[a] = machine[a] \/ machine'[a] = "stopped"
    BY <1>0 DEF Stop
  <2> QED
    BY <2>2, <2>3, <2>4 DEF Stop
<1>2. RunInv(a)' /\ Onward(Now(a), Now(a)')
  BY <1>1, RecordKeeps
<1>3. ASSUME NEW s \in Runs, s # a PROVE RunInv(s)' /\ Onward(Now(s), Now(s)')
  <2>1. Alike(s)
    BY <1>0, <1>3 DEF Stop, Ends, Record, Alike
  <2> QED
    BY <2>1, AlikeKeeps
<1> QED
  BY <1>2, <1>3

LEMMA NewWorker ==
  ASSUME TypeOK, worker' = worker \/ WorkerEnsured(TRUE)
  PROVE  worker'.left \subseteq worker.left
<1>1. worker' = worker \/ worker' = [NoWorker EXCEPT !.pc = "list"]
  BY DEF WorkerEnsured
<1>2. [NoWorker EXCEPT !.pc = "list"].left = {}
  BY DEF NoWorker
<1> QED
  BY <1>1, <1>2

LEMMA WatchedForm ==
  ASSUME TypeOK, NEW w \in Waiters, Watch(w), waiter[w].pc # "idle"
  PROVE  /\ waiter[w].asked \in Requests /\ waiter[w].asked # NoRequest /\ Watched(w) \in Seq(Runs)
         /\ Len(Watched(w)) \in Nat /\ Len(Watched(w)) > 0
         /\ \A k \in 1..Len(Watched(w)) : Watched(w)[k] \in Runs
<1>1. waiter[w].asked \in Requests /\ waiter[w].asked # NoRequest
  BY DEF TypeOK, Watch, Sees
<1>2. Watched(w) \in Seq(Runs) \ {<<>>}
  BY <1>1, WaitingAssumptions DEF Watched
<1> QED
  BY <1>1, <1>2, EmptySeq, LenProperties, ElementOfSeq

\* A loop that cannot recover a job or reach a machine goes on, with what it has.
LEMMA HinderedForm ==
  ASSUME TypeOK, NEW a \in Runs, RecoveryRefused(a) \/ Unreached(a)
  PROVE  /\ UNCHANGED <<queue, exec, sync, machine, thread, worker, probe, waiter, budget>>
         /\ loop' \in [pc: {"none", "monitor", "batch", "ensure", "sleep", "return"}, left: SUBSET Runs, active: BOOLEAN]
<1>1. CASE RecoveryRefused(a)
  <2>1. PICK pc \in {"ensure", "sleep"} : loop' = [NoLoop EXCEPT !.pc = pc, !.active = pc = "ensure"]
    BY <1>1 DEF RecoveryRefused
  <2>2. loop' = [pc |-> pc, left |-> {}, active |-> pc = "ensure"]
    BY <2>1 DEF NoLoop
  <2> QED
    BY <1>1, <2>2 DEF RecoveryRefused, files
<1>2. CASE Unreached(a)
  <2>1. loop \in [pc: {"none", "monitor", "batch", "ensure", "sleep", "return"}, left: SUBSET Runs, active: BOOLEAN]
    BY DEF TypeOK
  <2>2. loop' = [loop EXCEPT !.left = @ \ {a}, !.active = TRUE]
    BY <1>2 DEF Unreached, Works
  <2> QED
    BY <1>2, <2>1, <2>2 DEF Unreached, files, Beyond
<1> QED
  BY <1>1, <1>2

LEMMA LoopsKeep ==
  ASSUME TypeOK, \A s \in Runs : RunInv(s), \A w \in Waiters : Watch(w),
         \/ Monitor \/ BeginBatch \/ EndBatch \/ Ensure \/ Return \/ Wake \/ LoopDies
         \/ \E a \in Runs : Probe(a) \/ ApplyProbe(a) \/ RecoveryRefused(a) \/ Unreached(a)
         \/ \E w \in Waiters : Status(w)
  PROVE  \A s \in Runs : RunInv(s)' /\ Onward(Now(s), Now(s)')
<1> USE DEF files, Beyond
<1>1. CASE Monitor
  <2>1. PICK r \in loop.left : ~Locked(r) /\ Reconcile(r, Seen(r))
    BY <1>1 DEF Monitor
  <2>2. r \in Runs /\ UNCHANGED <<queue, machine, thread, probe, worker>>
    BY <1>1 DEF Monitor, TypeOK
  <2> QED
    BY <2>1, <2>2, SeenForm, ReconcileKeeps
<1>2. CASE BeginBatch \/ EndBatch \/ Ensure \/ Return \/ Wake \/ LoopDies
  <2>1. /\ UNCHANGED <<queue, exec, sync, machine, probe>>
        /\ worker' = worker \/ WorkerEnsured(TRUE)
        /\ \A s \in Runs : thread'[s] \in {thread[s], "idle"}
    BY <1>2 DEF BeginBatch, EndBatch, Ensure, Return, Wake, LoopDies
  <2>2. \A s \in Runs : Alike(s)
    BY <2>1, NewWorker DEF Alike
  <2> QED
    BY <2>2, AlikeKeeps
<1>3. ASSUME NEW a \in Runs, Probe(a), NEW s \in Runs PROVE RunInv(s)' /\ Onward(Now(s), Now(s)')
  <2>1. /\ UNCHANGED <<queue, exec, sync, machine, thread, worker>>
        /\ probe' = [probe EXCEPT ![a] = Seen(a)] \/ probe' = [probe EXCEPT ![a] = "unreachable"]
    BY <1>3 DEF Probe
  <2>2. CASE s # a
    <3>1. Alike(s)
      BY <2>1, <2>2 DEF Alike, TypeOK
    <3> QED
      BY <3>1, AlikeKeeps
  <2>3. CASE s = a
    <3>1. probe'[s] = Seen(s) \/ probe'[s] = "unreachable"
      BY <2>1, <2>3 DEF TypeOK
    <3>2. Workload(s)'
      BY <2>1, <3>1, SeenForm DEF RunInv, Workload
    <3>3. Coherent(s)' /\ Threads(s)' /\ Synced(s)'
      BY <2>1 DEF RunInv, Coherent, Threads, Synced, Ended
    <3>4. Onward(Now(s), Now(s)')
      BY <2>1 DEF Onward, Now
    <3> QED
      BY <3>2, <3>3, <3>4 DEF RunInv
  <2> QED
    BY <2>2, <2>3
<1>4. ASSUME NEW a \in Runs, ApplyProbe(a) PROVE \A s \in Runs : RunInv(s)' /\ Onward(Now(s), Now(s)')
  <2>1. /\ probe[a] \in Probes /\ Reconcile(a, probe[a]) /\ ~Locked(a) /\ UNCHANGED <<queue, machine, thread>>
        /\ WorkerEnsured(TRUE) /\ probe' = [probe EXCEPT ![a] = NoView]
    BY <1>4 DEF ApplyProbe, TypeOK
  <2>2. probe[a] \notin {"absent", "unreachable"} => machine[a] \notin {"none", "starting"}
    BY <2>1, WaitingAssumptions DEF RunInv, Workload
  <2>3. \A s \in Runs : probe'[s] \in {probe[s], NoView}
    BY <2>1 DEF TypeOK
  <2> QED
    BY <2>1, <2>2, <2>3, NewWorker, ReconcileKeeps
<1>5. ASSUME NEW w \in Waiters, Status(w) PROVE \A s \in Runs : RunInv(s)' /\ Onward(Now(s), Now(s)')
  <2> DEFINE r == Watched(w)[1]
  <2>1. UNCHANGED <<queue, machine, thread, probe>> /\ WorkerEnsured(TRUE)
    BY <1>5 DEF Status
  <2>2. CASE UNCHANGED <<exec, sync>>
    <3>1. \A s \in Runs : Alike(s)
      BY <2>1, <2>2, NewWorker DEF Alike
    <3> QED
      BY <3>1, AlikeKeeps
  <2>3. CASE r \in Runs /\ ~Locked(r) /\ Reconcile(r, Seen(r))
    <3> HIDE DEF r
    <3> QED
      BY <2>1, <2>3, SeenForm, NewWorker, ReconcileKeeps
  <2>4. UNCHANGED <<exec, sync>> \/ (~Locked(r) /\ Reconcile(r, Seen(r)))
    BY <1>5 DEF Status
  <2>5. r \in Runs
    <3>1. waiter[w].pc # "idle"
      BY <1>5 DEF Status, In
    <3> QED
      BY <3>1, WatchedForm
  <2> QED
    BY <2>2, <2>3, <2>4, <2>5
<1>6. ASSUME NEW a \in Runs, RecoveryRefused(a) \/ Unreached(a) PROVE \A s \in Runs : RunInv(s)' /\ Onward(Now(s), Now(s)')
  <2>1. UNCHANGED <<queue, exec, sync, machine, thread, worker, probe>>
    BY <1>6, HinderedForm
  <2>2. \A s \in Runs : Alike(s)
    BY <2>1 DEF Alike
  <2> QED
    BY <2>2, AlikeKeeps
<1> QED
  BY <1>1, <1>2, <1>3, <1>4, <1>5, <1>6

LEMMA TransfersKeep ==
  ASSUME TypeOK, \A s \in Runs : RunInv(s), WorkerStep \/ WorkerDies
  PROVE  \A s \in Runs : RunInv(s)' /\ Onward(Now(s), Now(s)')
<1> USE DEF Apart, Syncs
<1>0. worker.left \subseteq Runs /\ sync \in [Runs -> SyncStatuses]
      /\ worker \in [pc: {"none", "list", "pass", "decide", "return", "sleep"}, left: SUBSET Runs, again: BOOLEAN]
  BY DEF TypeOK
<1>1. CASE WorkerDies \/ EndPass \/ Decide \/ WorkerReturns \/ WorkerWakes
  <2>1. worker'.left \subseteq worker.left
    <3>1. NoWorker.left = {} /\ \A pc : [NoWorker EXCEPT !.pc = pc].left = {}
      BY DEF NoWorker
    <3>2. CASE EndPass
      BY <1>0, <3>2 DEF EndPass
    <3>3. CASE Decide \/ WorkerWakes
      <4>1. \E pc : worker' = [NoWorker EXCEPT !.pc = pc]
        BY <3>3 DEF Decide, WorkerWakes
      <4> QED
        BY <3>1, <4>1
    <3>4. CASE WorkerDies \/ WorkerReturns
      BY <3>1, <3>4 DEF WorkerDies, WorkerReturns
    <3> QED
      BY <1>1, <3>2, <3>3, <3>4
  <2>3. UNCHANGED <<queue, exec, sync, machine, thread, probe>>
    BY <1>1 DEF WorkerDies, EndPass, Decide, WorkerReturns, WorkerWakes
  <2>2. \A s \in Runs : Alike(s)
    BY <2>1, <2>3 DEF Alike
  <2> QED
    BY <2>2, AlikeKeeps
<1>2. CASE ListPending
  <2>1. worker'.left = Pending /\ UNCHANGED <<queue, exec, sync, machine, thread, probe>>
    BY <1>0, <1>2 DEF ListPending
  <2>2. \A s \in Runs : Coherent(s)' /\ Threads(s)' /\ Workload(s)' /\ Onward(Now(s), Now(s)')
    BY <2>1 DEF RunInv, Coherent, Threads, Workload, Onward, Now
  <2>3. \A s \in Runs : Synced(s)'
    BY <2>1 DEF RunInv, Synced, Ended, Pending
  <2> QED
    BY <2>2, <2>3 DEF RunInv
<1>3. CASE Transfer
  <2>1. PICK r \in worker.left : /\ worker' = [worker EXCEPT !.left = @ \ {r}]
                                 /\ \/ sync' = [sync EXCEPT ![r] = "completed"]
                                    \/ sync' = [sync EXCEPT ![r] = "retryable"]
    BY <1>3 DEF Transfer
  <2>2. r \in Runs /\ worker'.left = worker.left \ {r} /\ UNCHANGED <<queue, exec, machine, thread, probe>>
    BY <1>0, <1>3, <2>1 DEF Transfer
  <2>3. ASSUME NEW s \in Runs, s # r PROVE RunInv(s)' /\ Onward(Now(s), Now(s)')
    <3>1. Alike(s)
      BY <1>0, <2>1, <2>2, <2>3 DEF Alike
    <3> QED
      BY <3>1, AlikeKeeps
  <2>4. sync[r] \in {"pending", "retryable"} /\ sync'[r] \in {"completed", "retryable"}
    BY <1>0, <2>1, <2>2 DEF RunInv, Synced
  <2>5. Coherent(r)' /\ Threads(r)' /\ Workload(r)'
    BY <2>2 DEF RunInv, Coherent, Threads, Workload
  <2>6. Synced(r)'
    BY <2>2, <2>4 DEF RunInv, Synced, Ended
  <2>7. Onward(Now(r), Now(r)')
    BY <2>2, <2>4 DEF Onward, Now
  <2> QED
    BY <2>2, <2>3, <2>5, <2>6, <2>7 DEF RunInv
<1> QED
  BY <1>1, <1>2, <1>3 DEF WorkerStep

(***************************************************************************)
(* Waiters                                                                 *)
(***************************************************************************)
WaiterStates ==
  [pc: {"idle", "call", "queue", "exec", "sync", "look", "completed", "attention"},
   asked: Requests \cup {NoRequest}, known: BOOLEAN, read: Seq(View), part: View]

LEMMA AskedForm ==
  ASSUME NEW me \in WaiterStates, NEW now, Sees(me, now), me.pc # "idle"
  PROVE  /\ me.asked \in Requests /\ me.asked.until \in {"terminal", "reportable"} /\ me.asked.runs \in Seq(Runs)
         /\ Len(me.asked.runs) \in Nat /\ Len(me.asked.runs) > 0
         /\ \A k \in 1..Len(me.asked.runs) : me.asked.runs[k] \in Runs
         /\ Len(me.read) \in Nat /\ \A k \in 1..Len(me.read) : me.read[k] \in View /\ k \in 1..Len(me.asked.runs)
<1>1. me.asked \in Requests
  BY DEF WaiterStates, Sees
<1>2. me.asked.runs \in Seq(Runs) \ {<<>>} /\ me.asked.until \in {"terminal", "reportable"}
  BY <1>1, WaitingAssumptions
<1>3. /\ Len(me.asked.runs) \in Nat /\ Len(me.asked.runs) > 0
      /\ \A k \in 1..Len(me.asked.runs) : me.asked.runs[k] \in Runs
  BY <1>2, EmptySeq, LenProperties, ElementOfSeq
<1>4. me.read \in Seq(View)
  BY DEF WaiterStates
<1>5. Len(me.read) \in Nat /\ \A k \in 1..Len(me.read) : me.read[k] \in View
  BY <1>4, LenProperties, ElementOfSeq
<1>6. Len(me.read) <= Len(me.asked.runs)
  BY DEF Sees
<1> QED
  BY <1>1, <1>2, <1>3, <1>5, <1>6

\* What a client knows stays true, whatever becomes of the runs meanwhile.
LEMMA SeesKept ==
  ASSUME NEW me \in WaiterStates, NEW was, NEW is, \A r \in Runs : Onward(was[r], is[r]), Sees(me, was)
  PROVE  Sees(me, is)
<1>1. CASE me.pc = "idle"
  BY <1>1 DEF Sees
<1>2. CASE me.pc # "idle"
  <2> DEFINE runs == me.asked.runs
             next == runs[Len(me.read) + 1]
  <2>1. /\ \A k \in 1..Len(runs) : runs[k] \in Runs
        /\ Len(runs) \in Nat /\ Len(me.read) \in Nat /\ \A k \in 1..Len(me.read) : k \in 1..Len(runs)
    BY <1>2, AskedForm
  <2>2. \A k \in 1..Len(runs) : is[runs[k]].queue # "absent"
    <3>1. \A k \in 1..Len(runs) : was[runs[k]].queue # "absent"
      BY <1>2 DEF Sees
    <3> QED
      BY <2>1, <3>1 DEF Onward
  <2>3. \A k \in 1..Len(me.read) : Knows(runs[k], is[runs[k]], me.read[k])
    <3>1. ASSUME NEW k \in 1..Len(me.read) PROVE Knows(runs[k], is[runs[k]], me.read[k])
      <4>1. Knows(runs[k], was[runs[k]], me.read[k])
        BY <1>2 DEF Sees
      <4>2. Onward(was[runs[k]], is[runs[k]])
        BY <2>1
      <4> QED
        BY <4>1, <4>2, ViewKnown
    <3> QED
      BY <3>1
  <2>4. ASSUME me.pc \in {"exec", "sync"} PROVE Onward(was[next], is[next]) /\ KnowsQueue(was[next], me.part.queue)
    <3>1. Len(me.read) < Len(runs) /\ KnowsQueue(was[next], me.part.queue)
      BY <2>4 DEF Sees
    <3>2. next \in Runs
      BY <2>1, <3>1
    <3> QED
      BY <3>1, <3>2
  <2>5. me.pc \in {"exec", "sync"} => KnowsQueue(is[next], me.part.queue)
    BY <2>4, QueueKnown
  <2>6. ASSUME me.pc = "sync" PROVE KnowsExec(next, is[next], me.part)
    <3>1. KnowsExec(next, was[next], me.part)
      BY <2>6 DEF Sees
    <3>2. Onward(was[next], is[next]) /\ KnowsQueue(was[next], me.part.queue)
      BY <2>4, <2>6
    <3> QED
      BY <3>1, <3>2, ExecKnown
  <2>7. /\ me.asked # NoRequest /\ (me.pc = "call" => me.read = <<>>) /\ Len(me.read) <= Len(runs)
        /\ me.pc \in {"queue", "exec", "sync"} => Len(me.read) < Len(runs)
        /\ me.pc \in {"look", "completed", "attention"} => Len(me.read) = Len(runs)
        /\ me.pc = "completed" => \A k \in 1..Len(me.read) :
             /\ Phase(me.read[k]) = "terminal"
             /\ me.asked.until = "reportable" => Readiness(me.read[k]) = "ready"
    BY <1>2 DEF Sees
  <2> QED
    BY <1>2, <2>2, <2>3, <2>5, <2>6, <2>7 DEF Sees
<1> QED
  BY <1>1, <1>2

\* A request that begins, or begins again.
LEMMA SeesAgain ==
  ASSUME NEW me \in WaiterStates, NEW now, Sees(me, now), me.pc # "idle",
         NEW new, new.asked = me.asked, new.read = <<>>, new.pc \in {"call", "queue"}
  PROVE  Sees(new, now)
<1>1. Len(<<>>) = 0 /\ Len(me.asked.runs) > 0 /\ Len(me.asked.runs) \in Nat
  BY AskedForm, EmptySeq
<1>2. \A k \in 1..Len(me.asked.runs) : now[me.asked.runs[k]].queue # "absent"
  BY DEF Sees
<1>3. new.asked # NoRequest
  BY DEF Sees
<1>4. 1..0 = {}
  OBVIOUS
<1> QED
  BY <1>1, <1>2, <1>3, <1>4 DEF Sees

LEMMA SeesAnswer ==
  ASSUME NEW me \in WaiterStates, NEW now, Sees(me, now), me.pc = "look",
         NEW new, new.asked = me.asked, new.read = me.read, new.pc \in {"completed", "attention"},
         new.pc = "completed" => \A k \in 1..Len(me.read) :
           /\ Phase(me.read[k]) = "terminal"
           /\ me.asked.until = "reportable" => Readiness(me.read[k]) = "ready"
  PROVE  Sees(new, now)
BY DEF Sees

LEMMA VerdictForm ==
  ASSUME NEW w, waiter[w] \in WaiterStates, NEW now, Sees(waiter[w], now), waiter[w].pc = "look"
  PROVE  /\ Verdict(w) \in {"attention", "completed", "call"}
         /\ Verdict(w) = "completed" => \A k \in 1..Len(waiter[w].read) :
              /\ Phase(waiter[w].read[k]) = "terminal"
              /\ waiter[w].asked.until = "reportable" => Readiness(waiter[w].read[k]) = "ready"
<1>1. Verdict(w) \in {"attention", "completed", "call"}
  BY DEF Verdict
<1>2. ASSUME Verdict(w) = "completed", NEW k \in 1..Len(waiter[w].read)
      PROVE  /\ Phase(waiter[w].read[k]) = "terminal"
             /\ waiter[w].asked.until = "reportable" => Readiness(waiter[w].read[k]) = "ready"
  <2>1. waiter[w].read[k] \in ToSet(waiter[w].read) /\ waiter[w].read[k] \in View
    <3>1. waiter[w].read \in Seq(View)
      BY DEF WaiterStates
    <3>2. k \in DOMAIN waiter[w].read /\ waiter[w].read[k] \in View
      BY <3>1, LenProperties, ElementOfSeq
    <3> QED
      BY <3>2 DEF ToSet
  <2>2. \/ waiter[w].asked.until = "terminal" /\ \A v \in ToSet(waiter[w].read) : Phase(v) = "terminal"
        \/ waiter[w].asked.until = "reportable" /\ \A v \in ToSet(waiter[w].read) : Readiness(v) = "ready"
    BY <1>2 DEF Verdict
  <2> QED
    BY <2>1, <2>2, ReadyForm
<1> QED
  BY <1>1, <1>2

LEMMA SeesQueue ==
  ASSUME NEW me \in WaiterStates, NEW now, Sees(me, now), me.pc = "queue",
         NEW new, new.asked = me.asked, new.read = me.read, new.pc = "exec",
         new.part.queue = now[me.asked.runs[Len(me.read) + 1]].queue
  PROVE  Sees(new, now)
<1>1. Len(me.read) + 1 \in 1..Len(me.asked.runs)
  BY AskedForm DEF Sees
<1>2. KnowsQueue(now[me.asked.runs[Len(me.read) + 1]], new.part.queue)
  BY <1>1 DEF Sees, KnowsQueue
<1> QED
  BY <1>2 DEF Sees

LEMMA SeesExec ==
  ASSUME NEW me \in WaiterStates, NEW now, Sees(me, now), me.pc = "exec",
         NEW new, new.asked = me.asked, new.read = me.read, new.pc = "sync", new.part.queue = me.part.queue,
         KnowsExec(me.asked.runs[Len(me.read) + 1], now[me.asked.runs[Len(me.read) + 1]], new.part)
  PROVE  Sees(new, now)
BY DEF Sees

LEMMA SyncUnseen ==
  ASSUME NEW v \in View, NEW s
  PROVE  /\ [v EXCEPT !.sync = s].exec = v.exec /\ [v EXCEPT !.sync = s].queue = v.queue /\ [v EXCEPT !.sync = s].sync = s
         /\ Phase([v EXCEPT !.sync = s]) = Phase(v)
<1>1. [v EXCEPT !.sync = s].exec = v.exec /\ [v EXCEPT !.sync = s].queue = v.queue /\ [v EXCEPT !.sync = s].sync = s
  BY DEF View
<1> QED
  BY <1>1 DEF Phase

LEMMA SeesSync ==
  ASSUME NEW me \in WaiterStates, NEW now \in [Runs -> View], Sees(me, now), me.pc = "sync",
         NEW v, v = [me.part EXCEPT !.sync = now[me.asked.runs[Len(me.read) + 1]].sync],
         NEW new, new.asked = me.asked, new.read = Append(me.read, v),
         new.pc = IF Len(new.read) = Len(me.asked.runs) THEN "look" ELSE "queue"
  PROVE  Sees(new, now)
<1> DEFINE runs == me.asked.runs
           n == Len(me.read)
           next == runs[n + 1]
<1>1. me.part \in View /\ me.read \in Seq(View)
  BY DEF WaiterStates
<1>2. n \in Nat /\ Len(runs) \in Nat /\ n < Len(runs) /\ \A k \in 1..Len(runs) : runs[k] \in Runs
  BY AskedForm DEF Sees
<1>3. next \in Runs /\ now[next] \in View
  BY <1>2
<1>4. v.exec = me.part.exec /\ v.queue = me.part.queue /\ v.sync = now[next].sync /\ Phase(v) = Phase(me.part)
  BY <1>1, SyncUnseen
<1>5. v \in View
  BY <1>1, <1>3 DEF View
<1>6. KnowsQueue(now[next], v.queue) /\ KnowsExec(next, now[next], v)
  <2>1. KnowsQueue(now[next], me.part.queue) /\ KnowsExec(next, now[next], me.part)
    BY DEF Sees
  <2> QED
    BY <1>4, <2>1 DEF KnowsExec
<1>7. Knows(next, now[next], v)
  BY <1>4, <1>6, SyncRead DEF Knows
<1>8. /\ Len(Append(me.read, v)) = n + 1 /\ \A k \in 1..n : Append(me.read, v)[k] = me.read[k]
      /\ Append(me.read, v)[n + 1] = v
  BY <1>1, <1>5, LenProperties
<1>9. \A k \in 1..(n + 1) : Knows(runs[k], now[runs[k]], Append(me.read, v)[k])
  <2>1. \A k \in 1..n : Knows(runs[k], now[runs[k]], me.read[k])
    BY DEF Sees
  <2>2. ASSUME NEW k \in 1..(n + 1) PROVE Knows(runs[k], now[runs[k]], Append(me.read, v)[k])
    <3>1. CASE k \in 1..n
      BY <1>8, <2>1, <3>1
    <3>2. CASE k = n + 1
      BY <1>7, <1>8, <3>2
    <3> QED
      BY <1>2, <2>2, <3>1, <3>2
  <2> QED
    BY <2>2
<1>10. (\A k \in 1..Len(runs) : now[runs[k]].queue # "absent") /\ me.asked # NoRequest
  BY DEF Sees
<1>11. /\ Len(new.read) = n + 1 /\ n + 1 <= Len(runs) /\ new.pc \in {"look", "queue"}
       /\ new.pc = "look" => n + 1 = Len(runs)
       /\ new.pc = "queue" => n + 1 < Len(runs)
  BY <1>2, <1>8
<1>12. \A k \in 1..Len(new.read) : Knows(runs[k], now[runs[k]], new.read[k])
  BY <1>9, <1>11
<1> HIDE DEF n, next
<1> QED
  BY <1>10, <1>11, <1>12 DEF Sees

(***************************************************************************)
(* The steps of a waiter                                                   *)
(***************************************************************************)
LEMMA ViewsForm ==
  ASSUME TypeOK, NEW r \in Runs
  PROVE  Now(r) \in View /\ Views[r] = Now(r)
BY DEF TypeOK, Now, View, Views

LEMMA ViewsKept ==
  ASSUME TypeOK, \A s \in Runs : Onward(Now(s), Now(s)'), NEW w \in Waiters, Watch(w), waiter[w] \in WaiterStates
  PROVE  Sees(waiter[w], Views')
<1>1. \A s \in Runs : Views[s] = Now(s) /\ Views'[s] = Now(s)'
  BY DEF Views
<1>2. \A s \in Runs : Onward(Views[s], Views'[s])
  BY <1>1
<1> QED
  BY <1>2, SeesKept DEF Watch

WaiterStep(w) == Begin(w) \/ Request(w) \/ Answer(w) \/ Repeat(w) \/ AnswerLost(w)

\* Only its own steps change what a waiter has in hand; they change no file but for the
\* status request, which is how Onward comes in.
LEMMA WaiterSteps ==
  ASSUME TypeOK, \A s \in Runs : RunInv(s), NEW w \in Waiters, Watch(w), WaiterStep(w), \A s \in Runs : Onward(Now(s), Now(s)')
  PROVE  /\ waiter' \in [Waiters -> WaiterStates]
         /\ Sees(waiter'[w], Views') /\ \A u \in Waiters : u # w => waiter'[u] = waiter[u]
<1> DEFINE me == waiter[w]
           r == Upcoming(w)
<1> USE DEF Asks, In
<1>0. waiter \in [Waiters -> WaiterStates] /\ me \in WaiterStates
  BY DEF TypeOK, WaiterStates
<1>1. Sees(me, Views)
  BY DEF Watch
<1>2. Sees(me, Views')
  BY <1>0, ViewsKept
<1>3. ASSUME NEW new \in WaiterStates, waiter' = [waiter EXCEPT ![w] = new], Sees(new, Views')
      PROVE  /\ waiter' \in [Waiters -> WaiterStates]
             /\ Sees(waiter'[w], Views') /\ \A u \in Waiters : u # w => waiter'[u] = waiter[u]
  BY <1>0, <1>3
<1>4. me.pc # "idle" /\ me.pc \in {"queue", "exec", "sync"} => r \in Runs /\ r = me.asked.runs[Len(me.read) + 1]
  <2>1. ASSUME me.pc \in {"queue", "exec", "sync"} PROVE r \in Runs /\ r = me.asked.runs[Len(me.read) + 1]
    <3>1. Len(me.read) < Len(me.asked.runs)
      BY <1>1, <2>1 DEF Sees
    <3>2. Len(me.read) + 1 \in 1..Len(me.asked.runs)
      BY <1>0, <1>1, <2>1, <3>1, AskedForm
    <3> QED
      BY <1>0, <1>1, <2>1, <3>2, AskedForm DEF Upcoming, Watched
  <2> QED
    BY <2>1
<1>5. UNCHANGED files => Views' = Views
  BY DEF files, Views, Now
<1>6. CASE Begin(w)
  <2>1. PICK a \in Requests : /\ \A s \in ToSet(a.runs) : queue[s] # "absent"
                              /\ waiter' = [waiter EXCEPT ![w] = [Asleep EXCEPT !.pc = "call", !.asked = a]]
    BY <1>6 DEF Begin
  <2> DEFINE new == [Asleep EXCEPT !.pc = "call", !.asked = a]
  <2>2. new.pc = "call" /\ new.asked = a /\ new.read = <<>> /\ new.known = FALSE /\ new.part = Unread
    BY DEF Asleep
  <2>3. new \in WaiterStates
    <3>1. Unread \in View
      BY DEF Unread, View, QueueStatuses, ExecRecord, SyncStatuses, NoRecord
    <3>2. <<>> \in Seq(View)
      BY EmptySeq
    <3>3. Asleep \in WaiterStates
      BY <3>1, <3>2 DEF Asleep, WaiterStates
    <3> QED
      BY <3>3 DEF WaiterStates
  <2>4. a # NoRequest /\ a.runs \in Seq(Runs) \ {<<>>}
    BY WaitingAssumptions
  <2>5. \A k \in 1..Len(a.runs) : Views[a.runs[k]].queue # "absent"
    <3>1. ASSUME NEW k \in 1..Len(a.runs) PROVE Views[a.runs[k]].queue # "absent"
      <4>1. a.runs[k] \in Runs /\ a.runs[k] \in ToSet(a.runs)
        BY <2>4, LenProperties, ElementOfSeq DEF ToSet
      <4>2. Views[a.runs[k]] = Now(a.runs[k])
        BY <4>1, ViewsForm
      <4>3. Now(a.runs[k]).queue = queue[a.runs[k]]
        BY DEF Now
      <4> QED
        BY <2>1, <4>1, <4>2, <4>3
    <3> QED
      BY <3>1
  <2>6. Views' = Views
    BY <1>5, <1>6 DEF Begin, system
  <2> HIDE DEF new
  <2>7. Sees(new, Views)
    <3>1. Len(<<>>) = 0 /\ Len(a.runs) \in Nat /\ 1..0 = {}
      BY <2>4, LenProperties, EmptySeq
    <3> QED
      BY <2>2, <2>4, <2>5, <3>1 DEF Sees
  <2> QED
    BY <1>3, <2>1, <2>3, <2>6, <2>7 DEF new
<1>7. CASE Status(w) \/ Call(w)
  <2> DEFINE new == [me EXCEPT !.pc = "queue"]
  <2>1. waiter' = [waiter EXCEPT ![w] = new] /\ me.pc = "call"
    BY <1>7 DEF Status, Call
  <2>2. new \in WaiterStates /\ new.pc = "queue" /\ new.asked = me.asked /\ new.read = me.read
    BY <1>0 DEF WaiterStates
  <2>3. me.read = <<>>
    BY <1>1, <2>1 DEF Sees
  <2> HIDE DEF new
  <2>4. Sees(new, Views')
    BY <1>0, <1>2, <2>1, <2>2, <2>3, SeesAgain
  <2> QED
    BY <1>3, <2>1, <2>2, <2>4
<1>8. CASE ReadQueue(w)
  <2> DEFINE new == [me EXCEPT !.pc = "exec", !.part.queue = queue[r]]
  <2>1. waiter' = [waiter EXCEPT ![w] = new] /\ me.pc = "queue" /\ Views' = Views
    BY <1>5, <1>8 DEF ReadQueue, system
  <2>2. queue[r] \in QueueStatuses /\ Views[r].queue = queue[r]
    <3>1. r \in Runs /\ queue \in [Runs -> QueueStatuses]
      BY <1>4, <2>1 DEF TypeOK
    <3>2. Views[r] = Now(r) /\ Now(r).queue = queue[r]
      BY <3>1, ViewsForm DEF Now
    <3> QED
      BY <3>1, <3>2
  <2>3. new \in WaiterStates /\ new.pc = "exec" /\ new.asked = me.asked /\ new.read = me.read /\ new.part.queue = queue[r]
    <3>1. me.part \in View
      BY <1>0 DEF WaiterStates
    <3>2. [me.part EXCEPT !.queue = queue[r]] \in View /\ [me.part EXCEPT !.queue = queue[r]].queue = queue[r]
      BY <2>2, <3>1 DEF View
    <3>3. new = [me EXCEPT !.pc = "exec", !.part = [me.part EXCEPT !.queue = queue[r]]]
      BY <1>0 DEF WaiterStates
    <3> QED
      BY <1>0, <3>2, <3>3 DEF WaiterStates
  <2> HIDE DEF new
  <2>4. Sees(new, Views)
    BY <1>0, <1>1, <1>4, <2>1, <2>2, <2>3, SeesQueue
  <2> QED
    BY <1>3, <2>1, <2>3, <2>4
<1>9. CASE ReadExec(w)
  <2> DEFINE new == [me EXCEPT !.pc = "sync", !.part.exec = exec[r]]
  <2>1. waiter' = [waiter EXCEPT ![w] = new] /\ me.pc = "exec" /\ Views' = Views
    BY <1>5, <1>9 DEF ReadExec, system
  <2>2. exec[r] \in ExecRecord /\ Views[r] = Now(r) /\ Now(r) \in View /\ RunInv(r)
    BY <1>4, <2>1, ViewsForm DEF TypeOK
  <2>3. /\ new \in WaiterStates /\ new.pc = "sync" /\ new.asked = me.asked /\ new.read = me.read
        /\ new.part.exec = exec[r] /\ new.part.queue = me.part.queue
    BY <1>0, <2>2 DEF WaiterStates, View
  <2> HIDE DEF new
  <2>4. KnowsQueue(Now(r), new.part.queue)
    BY <1>1, <1>4, <2>1, <2>2, <2>3 DEF Sees
  <2>5. KnowsExec(r, Now(r), new.part)
    <3>1. new.part \in View
      BY <2>3 DEF WaiterStates
    <3>2. /\ Now(r).queue = queue[r] /\ Now(r).exec = exec[r] /\ Now(r).sync = sync[r]
          /\ queue[r] = "dispatched" => exec[r].status # "none"
          /\ queue[r] = "failed" => exec[r].status \in {"none", "failed"}
          /\ queue[r] = "stopped" => exec[r].status = "none"
          /\ queue[r] = "gone" => exec[r].status \in {"none", "stopped"}
          /\ r \in Archived /\ exec[r].status \in ExecTerminal => sync[r] # "not_enqueued"
      BY <2>2 DEF RunInv, Coherent, Synced, Ended, Now
    <3> QED
      BY <2>2, <2>3, <2>4, <3>1, <3>2, ExecRead
  <2>6. Sees(new, Views)
    BY <1>0, <1>1, <1>4, <2>1, <2>2, <2>3, <2>5, SeesExec
  <2> QED
    BY <1>3, <2>1, <2>3, <2>6
<1>10. CASE ReadSync(w)
  <2> DEFINE v == [me.part EXCEPT !.sync = sync[r]]
             pc == IF Len(Append(me.read, v)) = Len(me.asked.runs) THEN "look" ELSE "queue"
             new == [me EXCEPT !.part = Unread, !.read = Append(me.read, v), !.pc = pc]
  <2>1. waiter' = [waiter EXCEPT ![w] = new] /\ me.pc = "sync" /\ Views' = Views
    BY <1>5, <1>10 DEF ReadSync, system, Watched
  <2>2. sync[r] \in SyncStatuses /\ Views[r].sync = sync[r] /\ Views \in [Runs -> View]
    BY <1>4, <2>1, ViewsForm DEF TypeOK, Now, Views
  <2>3. v \in View /\ Append(me.read, v) \in Seq(View) /\ Unread \in View
    <3>1. me.part \in View /\ me.read \in Seq(View)
      BY <1>0 DEF WaiterStates
    <3>2. v \in View
      BY <2>2, <3>1 DEF View
    <3>3. Unread \in View
      BY DEF Unread, View, QueueStatuses, ExecRecord, SyncStatuses, NoRecord
    <3> HIDE DEF v
    <3> QED
      BY <3>1, <3>2, <3>3
  <2> HIDE DEF v
  <2>4. new \in WaiterStates /\ new.pc = pc /\ new.asked = me.asked /\ new.read = Append(me.read, v)
    BY <1>0, <2>3 DEF WaiterStates
  <2> HIDE DEF new
  <2>5. Sees(new, Views)
    <3>1. v = [me.part EXCEPT !.sync = Views[me.asked.runs[Len(me.read) + 1]].sync]
      BY <1>4, <2>1, <2>2 DEF v
    <3> QED
      BY <1>0, <1>1, <2>1, <2>2, <2>4, <3>1, SeesSync
  <2> QED
    BY <1>3, <2>1, <2>4, <2>5
<1>11. CASE Answer(w)
  <2> DEFINE read == IF Verdict(w) = "call" THEN <<>> ELSE me.read
             new == [me EXCEPT !.pc = Verdict(w), !.known = TRUE, !.read = read]
  <2>1. waiter' = [waiter EXCEPT ![w] = new] /\ me.pc = "look" /\ Views' = Views
    BY <1>5, <1>11 DEF Answer, system
  <2>2. /\ Verdict(w) \in {"attention", "completed", "call"}
        /\ Verdict(w) = "completed" => \A k \in 1..Len(me.read) :
             /\ Phase(me.read[k]) = "terminal"
             /\ me.asked.until = "reportable" => Readiness(me.read[k]) = "ready"
    BY <1>0, <1>1, <2>1, VerdictForm
  <2>3. new \in WaiterStates /\ new.pc = Verdict(w) /\ new.asked = me.asked /\ new.read = read
    <3>1. read \in Seq(View)
      BY <1>0, EmptySeq DEF WaiterStates
    <3> QED
      BY <1>0, <2>2, <3>1 DEF WaiterStates
  <2> HIDE DEF new
  <2>4. Sees(new, Views)
    <3>1. CASE Verdict(w) = "call"
      BY <1>0, <1>1, <2>1, <2>3, <3>1, SeesAgain
    <3>2. CASE Verdict(w) # "call"
      BY <1>0, <1>1, <2>1, <2>2, <2>3, <3>2, SeesAnswer
    <3> QED
      BY <3>1, <3>2
  <2> QED
    BY <1>3, <2>1, <2>3, <2>4
<1>12. CASE Repeat(w) \/ AnswerLost(w)
  <2>1. PICK new \in {[me EXCEPT !.pc = "queue", !.read = <<>>], [me EXCEPT !.pc = "call", !.read = <<>>, !.part = Unread]} :
          waiter' = [waiter EXCEPT ![w] = new]
    BY <1>12 DEF Repeat, AnswerLost
  <2>2. me.pc # "idle" /\ Views' = Views
    BY <1>5, <1>12 DEF Repeat, AnswerLost, system
  <2>3. new \in WaiterStates /\ new.pc \in {"queue", "call"} /\ new.asked = me.asked /\ new.read = <<>>
    <3>1. Unread \in View
      BY DEF Unread, View, QueueStatuses, ExecRecord, SyncStatuses, NoRecord
    <3>2. <<>> \in Seq(View)
      BY EmptySeq
    <3>3. CASE new = [me EXCEPT !.pc = "queue", !.read = <<>>]
      BY <1>0, <3>2, <3>3 DEF WaiterStates
    <3>4. CASE new = [me EXCEPT !.pc = "call", !.read = <<>>, !.part = Unread]
      BY <1>0, <3>1, <3>2, <3>4 DEF WaiterStates
    <3> HIDE DEF me
    <3> QED
      BY <3>3, <3>4
  <2>4. Sees(new, Views)
    BY <1>0, <1>1, <2>2, <2>3, SeesAgain
  <2> QED
    BY <1>3, <2>1, <2>2, <2>3, <2>4
<1> QED
  BY <1>6, <1>7, <1>8, <1>9, <1>10, <1>11, <1>12 DEF WaiterStep, Request

(***************************************************************************)
(* All steps                                                               *)
(***************************************************************************)
LEMMA FilesKeep ==
  ASSUME TypeOK, \A s \in Runs : RunInv(s), \A w \in Waiters : Watch(w), Next
  PROVE  \A s \in Runs : RunInv(s)' /\ Onward(Now(s), Now(s)')
<1>1. ASSUME NEW a \in Runs, Dispatches(a), NEW s \in Runs PROVE RunInv(s)' /\ Onward(Now(s), Now(s)')
  <2>1. CASE s = a
    BY <1>1, <2>1, DispatchesHere
  <2>2. CASE s # a
    <3>1. Alike(s)
      BY <1>1, <2>2, DispatchesElsewhere
    <3> QED
      BY <3>1, AlikeKeeps
  <2> QED
    BY <2>1, <2>2
<1>2. CASE \E w \in Waiters : Begin(w) \/ Call(w) \/ ReadQueue(w) \/ ReadExec(w) \/ ReadSync(w) \/ Answer(w) \/ Repeat(w) \/ AnswerLost(w)
  <2>1. UNCHANGED <<queue, exec, sync, machine, thread, worker, probe>>
    BY <1>2 DEF Begin, Call, ReadQueue, ReadExec, ReadSync, Answer, Repeat, AnswerLost, system, files
  <2>2. \A s \in Runs : Alike(s)
    BY <2>1 DEF Alike
  <2> QED
    BY <2>2, AlikeKeeps
<1>3. CASE LoopStep \/ LoopDies
  BY <1>1, <1>3, LoopsKeep DEF LoopStep, Dispatches
<1>4. CASE WorkerStep \/ WorkerDies
  BY <1>4, TransfersKeep
<1>5. CASE \E a \in Runs : Dispatching(a) \/ RemoteStep(a) \/ Submit(a) \/ StopQueued(a) \/ Stop(a)
                           \/ CleanQueue(a) \/ CleanExecution(a) \/ Probe(a) \/ ApplyProbe(a)
  <2>1. CASE \E a \in Runs : Probe(a) \/ ApplyProbe(a)
    BY <2>1, LoopsKeep
  <2>2. CASE \E a \in Runs : Stop(a)
    BY <2>2, StopKeeps
  <2>3. CASE \E a \in Runs : Dispatches(a)
    BY <1>1, <2>3
  <2> QED
    BY <1>5, <2>1, <2>2, <2>3 DEF Dispatches
<1>6. CASE \E w \in Waiters : Status(w)
  BY <1>6, LoopsKeep
<1> QED
  BY <1>2, <1>3, <1>4, <1>5, <1>6 DEF Next, Request

LEMMA NoWaiterSteps ==
  ASSUME Next, waiter' # waiter
  PROVE  \E w \in Waiters : WaiterStep(w)
<1> USE DEF Beyond, Apart, Works, Syncs, system
<1>1. LoopStep \/ LoopDies => waiter' = waiter
  BY DEF LoopStep, LoopDies, Monitor, BeginBatch, EndBatch, Ensure, Return, Wake, Mark, Recover,
         RecoveryRefused, Unreached
<1>2. WorkerStep \/ WorkerDies => waiter' = waiter
  BY DEF WorkerStep, WorkerDies, ListPending, Transfer, EndPass, Decide, WorkerReturns, WorkerWakes
<1>3. ASSUME NEW r \in Runs,
             Dispatching(r) \/ RemoteStep(r) \/ Submit(r) \/ StopQueued(r) \/ Stop(r) \/ CleanQueue(r) \/ CleanExecution(r)
             \/ Probe(r) \/ ApplyProbe(r)
      PROVE  waiter' = waiter
  <2>1. CASE Dispatching(r)
    BY <2>1 DEF Dispatching, Register, Launch, Launched, LaunchUnknown, LaunchRejected, FailExecution, EndDispatch
  <2>2. CASE RemoteStep(r) \/ Submit(r) \/ StopQueued(r) \/ Stop(r)
    BY <2>2 DEF RemoteStep, Submit, StopQueued, Stop
  <2>3. CASE CleanQueue(r) \/ CleanExecution(r) \/ Probe(r) \/ ApplyProbe(r)
    BY <2>3 DEF CleanQueue, CleanExecution, Probe, ApplyProbe
  <2> QED
    BY <1>3, <2>1, <2>2, <2>3
<1> QED
  BY <1>1, <1>2, <1>3 DEF Next, WaiterStep

LEMMA WaitersKeep ==
  ASSUME TypeOK, \A s \in Runs : RunInv(s), \A w \in Waiters : Watch(w), Next
  PROVE  waiter' \in [Waiters -> WaiterStates] /\ \A w \in Waiters : Watch(w)'
<1>1. \A s \in Runs : Onward(Now(s), Now(s)')
  BY FilesKeep
<1>2. waiter \in [Waiters -> WaiterStates]
  BY DEF TypeOK, WaiterStates
<1>3. \A w \in Waiters : waiter'[w] = waiter[w] => Sees(waiter'[w], Views')
  BY <1>1, <1>2, ViewsKept
<1>4. CASE waiter' = waiter
  BY <1>2, <1>3, <1>4 DEF Watch
<1>5. CASE \E w \in Waiters : WaiterStep(w)
  <2>1. PICK w \in Waiters : WaiterStep(w)
    BY <1>5
  <2>2. waiter' \in [Waiters -> WaiterStates] /\ Sees(waiter'[w], Views') /\ \A u \in Waiters : u # w => waiter'[u] = waiter[u]
    BY <1>1, <2>1, WaiterSteps
  <2> QED
    BY <1>3, <2>2 DEF Watch
<1> QED
  BY <1>4, <1>5, NoWaiterSteps

(***************************************************************************)
(* Types                                                                   *)
(***************************************************************************)
FilesType ==
  /\ queue \in [Runs -> QueueStatuses]
  /\ exec \in [Runs -> ExecRecord]
  /\ sync \in [Runs -> SyncStatuses]

RunsType ==
  /\ machine \in [Runs -> {"none", "starting", "running", "stopped"} \cup Outcomes]
  /\ thread \in [Runs -> {"idle", "marked", "registered", "launching", "launched", "failing", "failqueue"}]
  /\ probe \in [Runs -> Probes \cup {NoView}]

SessionsType ==
  /\ loop \in [pc: {"none", "monitor", "batch", "ensure", "sleep", "return"}, left: SUBSET Runs, active: BOOLEAN]
  /\ worker \in [pc: {"none", "list", "pass", "decide", "return", "sleep"}, left: SUBSET Runs, again: BOOLEAN]

BudgetType == budget \in [{"faults", "asides"} -> Nat]

LEMMA TypesForm == TypeOK => FilesType /\ RunsType /\ SessionsType /\ BudgetType
BY DEF TypeOK, FilesType, RunsType, SessionsType, BudgetType

LEMMA Spent ==
  ASSUME BudgetType, NEW what \in {"faults", "asides"}, Spend(what)
  PROVE  BudgetType'
<1>1. budget[what] \in Nat /\ budget[what] > 0
  BY DEF BudgetType, Spend
<1>2. budget[what] - 1 \in Nat
  BY <1>1
<1> QED
  BY <1>2 DEF BudgetType, Spend

LEMMA RecordTypes ==
  ASSUME FilesType, NEW r \in Runs, NEW s \in {"registered", "running"} \cup ExecTerminal, NEW e \in {"none", "unknown", "absent"}
  PROVE  /\ Record(r, s, e) => exec' \in [Runs -> ExecRecord]
         /\ Ends(r, s) => exec' \in [Runs -> ExecRecord] /\ sync' \in [Runs -> SyncStatuses]
<1>1. [status |-> s, error |-> e] \in ExecRecord /\ [status |-> s, error |-> "none"] \in ExecRecord
  BY DEF ExecRecord
<1> QED
  BY <1>1 DEF FilesType, Record, Ends, SyncStatuses

LEMMA EnsuredTypes ==
  ASSUME SessionsType, NEW asked
  PROVE  /\ WorkerEnsured(asked) => worker' \in [pc: {"none", "list", "pass", "decide", "return", "sleep"}, left: SUBSET Runs, again: BOOLEAN]
         /\ LoopEnsured(asked) => loop' \in [pc: {"none", "monitor", "batch", "ensure", "sleep", "return"}, left: SUBSET Runs, active: BOOLEAN]
<1>1. [NoWorker EXCEPT !.pc = "list"] \in [pc: {"none", "list", "pass", "decide", "return", "sleep"}, left: SUBSET Runs, again: BOOLEAN]
  BY DEF NoWorker
<1>2. ASSUME NEW ids \in SUBSET Runs
      PROVE  [NoLoop EXCEPT !.pc = "monitor", !.left = ids]
               \in [pc: {"none", "monitor", "batch", "ensure", "sleep", "return"}, left: SUBSET Runs, active: BOOLEAN]
  BY DEF NoLoop
<1>3. [NoLoop EXCEPT !.pc = "monitor", !.left = {r \in Runs : exec[r] # NoRecord}]
        \in [pc: {"none", "monitor", "batch", "ensure", "sleep", "return"}, left: SUBSET Runs, active: BOOLEAN]
  BY <1>2
<1>4. WorkerEnsured(asked) => worker' \in {worker, [NoWorker EXCEPT !.pc = "list"]}
  BY DEF WorkerEnsured
<1>5. LoopEnsured(asked) => loop' \in {loop, [NoLoop EXCEPT !.pc = "monitor", !.left = {r \in Runs : exec[r] # NoRecord}]}
  BY DEF LoopEnsured
<1> QED
  BY <1>1, <1>3, <1>4, <1>5 DEF SessionsType

LEMMA DispatchTypes ==
  ASSUME TypeOK, NEW a \in Runs, Dispatches(a)
  PROVE  FilesType' /\ RunsType' /\ SessionsType' /\ BudgetType'
<1>0. FilesType /\ RunsType /\ SessionsType /\ BudgetType
  BY TypesForm
<1>1. FilesType'
  <2> USE DEF files
  <2>1. CASE Mark(a) \/ Recover(a) \/ EndDispatch(a) \/ Submit(a) \/ StopQueued(a) \/ CleanQueue(a)
    <3>1. \E q \in QueueStatuses : queue' = [queue EXCEPT ![a] = q]
      BY <2>1 DEF Mark, Recover, EndDispatch, Submit, StopQueued, CleanQueue, SetQueue, QueueStatuses, QueueTerminal
    <3>2. UNCHANGED <<exec, sync>>
      BY <2>1 DEF Mark, Recover, EndDispatch, Submit, StopQueued, CleanQueue
    <3> QED
      BY <1>0, <3>1, <3>2 DEF FilesType
  <2>2. CASE Register(a) \/ Launched(a) \/ LaunchUnknown(a)
    <3>1. exec' = exec \/ \E s \in {"registered", "running"}, e \in {"none", "unknown", "absent"} : Record(a, s, e)
      BY <2>2 DEF Register, Launched, LaunchUnknown
    <3>2. UNCHANGED <<queue, sync>>
      BY <2>2 DEF Register, Launched, LaunchUnknown
    <3> QED
      BY <1>0, <3>1, <3>2, RecordTypes DEF FilesType
  <2>3. CASE FailExecution(a)
    <3>1. Ends(a, "failed") \/ UNCHANGED <<exec, sync>>
      BY <2>3 DEF FailExecution
    <3>2. queue' = queue
      BY <2>3 DEF FailExecution
    <3> QED
      BY <1>0, <3>1, <3>2, RecordTypes DEF FilesType, ExecTerminal
  <2>4. CASE CleanExecution(a)
    <3>1. NoRecord \in ExecRecord
      BY DEF NoRecord, ExecRecord
    <3> QED
      BY <1>0, <2>4, <3>1 DEF CleanExecution, FilesType
  <2>5. CASE Launch(a) \/ LaunchRejected(a) \/ RemoteStep(a)
    BY <1>0, <2>5 DEF Launch, LaunchRejected, RemoteStep, FilesType
  <2> QED
    BY <2>1, <2>2, <2>3, <2>4, <2>5 DEF Dispatches, Dispatching
<1>2. RunsType'
  <2>1. probe' = probe
    BY DEF Dispatches, Dispatching, Mark, Recover, Register, Launch, Launched, LaunchUnknown, LaunchRejected, FailExecution,
           EndDispatch, RemoteStep, Submit, StopQueued, CleanQueue, CleanExecution
  <2>2. machine' = machine \/ \E m \in {"none", "starting", "running"} \cup Outcomes : machine' = [machine EXCEPT ![a] = m]
    BY DEF Dispatches, Dispatching, Mark, Recover, Register, Launch, Launched, LaunchUnknown, LaunchRejected, FailExecution,
           EndDispatch, RemoteStep, Submit, StopQueued, CleanQueue, CleanExecution
  <2>3. thread' = thread \/ \E pc \in {"idle", "marked", "registered", "launching", "launched", "failing", "failqueue"} : Goto(a, pc)
    BY DEF Dispatches, Dispatching, Mark, Recover, Register, Launch, Launched, LaunchUnknown, LaunchRejected, FailExecution,
           EndDispatch, RemoteStep, Submit, StopQueued, CleanQueue, CleanExecution
  <2> QED
    BY <1>0, <2>1, <2>2, <2>3 DEF RunsType, Goto
<1>3. SessionsType'
  <2>1. loop' \in {loop, [loop EXCEPT !.active = TRUE]} \/ LoopEnsured(TRUE)
    BY DEF Dispatches, Dispatching, Mark, Recover, Register, Launch, Launched, LaunchUnknown, LaunchRejected, FailExecution,
           EndDispatch, RemoteStep, Submit, StopQueued, CleanQueue, CleanExecution, Busy
  <2>2. worker' = worker
    BY DEF Dispatches, Dispatching, Mark, Recover, Register, Launch, Launched, LaunchUnknown, LaunchRejected, FailExecution,
           EndDispatch, RemoteStep, Submit, StopQueued, CleanQueue, CleanExecution
  <2> QED
    BY <1>0, <2>1, <2>2, EnsuredTypes DEF SessionsType
<1>4. BudgetType'
  <2>1. budget' = budget \/ Spend("faults") \/ Spend("asides")
    BY DEF Dispatches, Dispatching, Mark, Recover, Register, Launch, Launched, LaunchUnknown, LaunchRejected, FailExecution,
           EndDispatch, RemoteStep, Submit, StopQueued, CleanQueue, CleanExecution
  <2> QED
    BY <1>0, <2>1, Spent DEF BudgetType
<1> QED
  BY <1>1, <1>2, <1>3, <1>4

LEMMA LoopTypes ==
  ASSUME TypeOK, \A s \in Runs : RunInv(s), \A w \in Waiters : Watch(w),
         \/ Monitor \/ BeginBatch \/ EndBatch \/ Ensure \/ Return \/ Wake \/ LoopDies
         \/ \E a \in Runs : Probe(a) \/ ApplyProbe(a) \/ Stop(a) \/ RecoveryRefused(a) \/ Unreached(a)
         \/ \E w \in Waiters : WaiterStep(w)
  PROVE  FilesType' /\ RunsType' /\ SessionsType' /\ BudgetType'
<1> USE DEF files, Beyond, system
<1>0. FilesType /\ RunsType /\ SessionsType /\ BudgetType
  BY TypesForm
<1>1. ASSUME NEW a \in Runs, NEW seen \in Probes, Reconcile(a, seen), queue' = queue,
             seen \notin {"absent", "unreachable"} => machine[a] \notin {"none", "starting"}
      PROVE  FilesType'
  <2>1. exec' \in [Runs -> ExecRecord] /\ sync' \in [Runs -> SyncStatuses]
    BY <1>1, ReconcileForm
  <2> QED
    BY <1>0, <1>1, <2>1 DEF FilesType
<1>2. UNCHANGED files => FilesType'
  BY <1>0 DEF FilesType
<1>3. UNCHANGED <<machine, thread, probe>> => RunsType'
  BY <1>0 DEF RunsType
<1>5. CASE Monitor
  <2>1. PICK r \in loop.left : /\ Reconcile(r, Seen(r))
                               /\ loop' = [loop EXCEPT !.left = @ \ {r}, !.active = @ \/ exec'[r].status \in {"registered", "running"}]
    BY <1>5 DEF Monitor, Works
  <2>2. UNCHANGED <<queue, machine, thread, probe, budget, worker>> /\ r \in Runs
    BY <1>0, <1>5 DEF Monitor, SessionsType
  <2>3. FilesType'
    BY <1>1, <2>1, <2>2, SeenForm
  <2>4. SessionsType'
    BY <1>0, <2>1, <2>2 DEF SessionsType
  <2> QED
    BY <1>0, <1>3, <2>2, <2>3, <2>4 DEF BudgetType
<1>6. CASE BeginBatch \/ EndBatch \/ Return \/ Wake \/ LoopDies
  <2>1. /\ UNCHANGED <<queue, exec, sync, machine, probe, worker>>
        /\ thread' = thread \/ thread' = [r \in Runs |-> "idle"]
    BY <1>6 DEF BeginBatch, EndBatch, Return, Wake, LoopDies
  <2>2. budget' = budget \/ Spend("faults")
    BY <1>6 DEF BeginBatch, EndBatch, Return, Wake, LoopDies
  <2>3. loop' \in [pc: {"none", "monitor", "batch", "ensure", "sleep", "return"}, left: SUBSET Runs, active: BOOLEAN]
    <3>1. CASE BeginBatch
      BY <1>0, <3>1 DEF BeginBatch, Works, SessionsType
    <3>2. CASE EndBatch
      BY <1>0, <3>2 DEF EndBatch, Works, SessionsType
    <3>3. CASE Return \/ LoopDies
      <4>1. loop' = NoLoop
        BY <3>3 DEF Return, LoopDies, Works
      <4>2. NoLoop \in [pc: {"none", "monitor", "batch", "ensure", "sleep", "return"}, left: SUBSET Runs, active: BOOLEAN]
        BY DEF NoLoop
      <4> QED
        BY <4>1, <4>2
    <3>4. CASE Wake
      <4>1. loop' = [NoLoop EXCEPT !.pc = "monitor", !.left = {r \in Runs : exec[r] # NoRecord}]
        BY <3>4 DEF Wake, Works
      <4>2. ASSUME NEW ids \in SUBSET Runs
            PROVE  [NoLoop EXCEPT !.pc = "monitor", !.left = ids]
                     \in [pc: {"none", "monitor", "batch", "ensure", "sleep", "return"}, left: SUBSET Runs, active: BOOLEAN]
        BY DEF NoLoop
      <4> QED
        BY <4>1, <4>2
    <3> QED
      BY <1>6, <3>1, <3>2, <3>3, <3>4
  <2> QED
    BY <1>0, <2>1, <2>2, <2>3, Spent DEF FilesType, RunsType, SessionsType, BudgetType
<1>7. CASE Ensure
  <2>1. UNCHANGED <<queue, exec, sync, machine, thread, probe, budget>> /\ WorkerEnsured(TRUE)
    BY <1>7 DEF Ensure
  <2>2. loop' = [NoLoop EXCEPT !.pc = "sleep"] \/ loop' = [NoLoop EXCEPT !.pc = "return"]
    BY <1>7 DEF Ensure, Works
  <2>3. loop' \in [pc: {"none", "monitor", "batch", "ensure", "sleep", "return"}, left: SUBSET Runs, active: BOOLEAN]
    BY <2>2 DEF NoLoop
  <2>4. worker' \in [pc: {"none", "list", "pass", "decide", "return", "sleep"}, left: SUBSET Runs, again: BOOLEAN]
    BY <1>0, <2>1, EnsuredTypes
  <2> QED
    BY <1>0, <1>2, <1>3, <2>1, <2>3, <2>4 DEF SessionsType, BudgetType
<1>8. ASSUME NEW a \in Runs, Probe(a) PROVE FilesType' /\ RunsType' /\ SessionsType' /\ BudgetType'
  <2>1. /\ UNCHANGED <<queue, exec, sync, machine, thread, loop, worker>> /\ Spend("asides")
        /\ probe' = [probe EXCEPT ![a] = Seen(a)] \/ probe' = [probe EXCEPT ![a] = "unreachable"]
    BY <1>8 DEF Probe
  <2>2. "unreachable" \in Probes
    BY DEF Probes
  <2>3. RunsType'
    BY <1>0, <2>1, <2>2, SeenForm DEF RunsType
  <2> QED
    BY <1>0, <1>2, <2>1, <2>3, Spent DEF SessionsType
<1>9. ASSUME NEW a \in Runs, ApplyProbe(a) PROVE FilesType' /\ RunsType' /\ SessionsType' /\ BudgetType'
  <2>1. /\ UNCHANGED <<queue, machine, thread, budget>> /\ WorkerEnsured(TRUE)
        /\ probe' = [probe EXCEPT ![a] = NoView] /\ Reconcile(a, probe[a]) /\ probe[a] # NoView
    BY <1>9 DEF ApplyProbe
  <2>2. LoopEnsured(exec'[a].status \in {"registered", "running"})
    BY <1>9 DEF ApplyProbe
  <2>3. probe[a] \in Probes
    BY <1>0, <2>1 DEF RunsType
  <2>4. probe[a] \notin {"absent", "unreachable"} => machine[a] \notin {"none", "starting"}
    BY <2>1 DEF RunInv, Workload
  <2>5. FilesType'
    BY <1>1, <2>1, <2>3, <2>4
  <2>6. RunsType'
    BY <1>0, <2>1 DEF RunsType
  <2>7. SessionsType'
    BY <1>0, <2>1, <2>2, EnsuredTypes DEF SessionsType
  <2> QED
    BY <1>0, <2>1, <2>5, <2>6, <2>7 DEF BudgetType
<1>10. ASSUME NEW a \in Runs, Stop(a) PROVE FilesType' /\ RunsType' /\ SessionsType' /\ BudgetType'
  <2>1. UNCHANGED <<queue, thread, loop, worker, probe, budget>>
    BY <1>10 DEF Stop
  <2>2. \E status \in ExecTerminal : Ends(a, status)
    BY <1>10 DEF Stop, ExecTerminal
  <2>3. machine' = machine \/ machine' = [machine EXCEPT ![a] = "stopped"] \/ machine' = [machine EXCEPT ![a] = machine[a]]
    BY <1>10 DEF Stop
  <2>4. FilesType'
    BY <1>0, <2>1, <2>2, RecordTypes DEF FilesType
  <2>5. RunsType'
    BY <1>0, <2>1, <2>3 DEF RunsType
  <2> QED
    BY <1>0, <2>1, <2>4, <2>5 DEF SessionsType, BudgetType
<1>11. ASSUME NEW w \in Waiters, Status(w) PROVE FilesType' /\ RunsType' /\ SessionsType' /\ BudgetType'
  <2> DEFINE r == Watched(w)[1]
  <2>1. /\ UNCHANGED <<queue, machine, thread, probe, budget>> /\ WorkerEnsured(TRUE)
        /\ Reconcile(r, Seen(r)) \/ UNCHANGED <<exec, sync>>
        /\ waiter[w].pc = "call"
    BY <1>11 DEF Status, In
  <2>2. LoopEnsured(queue[r] \in {"queued", "dispatching"} \/ exec'[r].status \in {"registered", "running"})
    BY <1>11 DEF Status
  <2>3. r \in Runs
    BY <2>1, WatchedForm
  <2> HIDE DEF r
  <2>4. FilesType'
    BY <1>1, <1>2, <2>1, <2>3, SeenForm
  <2>5. SessionsType'
    BY <1>0, <2>1, <2>2, EnsuredTypes DEF SessionsType
  <2> QED
    BY <1>0, <1>3, <2>1, <2>4, <2>5 DEF BudgetType
<1>12. ASSUME NEW w \in Waiters, Call(w) PROVE FilesType' /\ RunsType' /\ SessionsType' /\ BudgetType'
  <2>1. UNCHANGED <<files, machine, thread, worker, probe, budget>> /\ \E asked : LoopEnsured(asked)
    BY <1>12 DEF Call
  <2>2. SessionsType'
    BY <1>0, <2>1, EnsuredTypes DEF SessionsType
  <2> QED
    BY <1>0, <1>2, <1>3, <2>1, <2>2 DEF BudgetType
<1>13. ASSUME NEW w \in Waiters, Begin(w) \/ ReadQueue(w) \/ ReadExec(w) \/ ReadSync(w) \/ Answer(w) \/ Repeat(w) \/ AnswerLost(w)
       PROVE  FilesType' /\ RunsType' /\ SessionsType' /\ BudgetType'
  <2>1. UNCHANGED system /\ (budget' = budget \/ Spend("faults"))
    BY <1>13 DEF Begin, ReadQueue, ReadExec, ReadSync, Answer, Repeat, AnswerLost
  <2> QED
    BY <1>0, <1>2, <1>3, <2>1, Spent DEF SessionsType, BudgetType
<1>14. ASSUME NEW a \in Runs, RecoveryRefused(a) \/ Unreached(a) PROVE FilesType' /\ RunsType' /\ SessionsType' /\ BudgetType'
  BY <1>0, <1>14, HinderedForm DEF FilesType, RunsType, SessionsType, BudgetType
<1> QED
  BY <1>5, <1>6, <1>7, <1>8, <1>9, <1>10, <1>11, <1>12, <1>13, <1>14 DEF WaiterStep, Request

LEMMA TransferTypes ==
  ASSUME TypeOK, WorkerStep \/ WorkerDies
  PROVE  FilesType' /\ RunsType' /\ SessionsType' /\ BudgetType'
<1> USE DEF Apart, Syncs
<1>0. FilesType /\ RunsType /\ SessionsType /\ BudgetType
  BY TypesForm
<1>1. UNCHANGED <<queue, exec, machine, thread, loop, probe>> /\ (budget' = budget \/ Spend("faults"))
  BY DEF WorkerStep, WorkerDies, ListPending, Transfer, EndPass, Decide, WorkerReturns, WorkerWakes
<1>2. sync' = sync \/ \E r \in worker.left, s \in SyncStatuses : sync' = [sync EXCEPT ![r] = s]
  BY DEF WorkerStep, WorkerDies, ListPending, Transfer, EndPass, Decide, WorkerReturns, WorkerWakes, SyncStatuses
<1>3. sync' \in [Runs -> SyncStatuses]
  BY <1>0, <1>2 DEF FilesType, SessionsType
<1>4. worker' \in [pc: {"none", "list", "pass", "decide", "return", "sleep"}, left: SUBSET Runs, again: BOOLEAN]
  <2>0. worker \in [pc: {"none", "list", "pass", "decide", "return", "sleep"}, left: SUBSET Runs, again: BOOLEAN]
        /\ NoWorker \in [pc: {"none", "list", "pass", "decide", "return", "sleep"}, left: SUBSET Runs, again: BOOLEAN]
    BY <1>0 DEF SessionsType, NoWorker
  <2>1. CASE ListPending
    <3>1. Pending \in SUBSET Runs /\ worker' = [worker EXCEPT !.pc = "pass", !.left = Pending]
      BY <2>1 DEF ListPending, Pending
    <3> QED
      BY <2>0, <3>1
  <2>2. CASE Transfer
    <3>1. PICK r : worker' = [worker EXCEPT !.left = @ \ {r}]
      BY <2>2 DEF Transfer
    <3> QED
      BY <2>0, <3>1
  <2>3. CASE EndPass
    <3>1. worker' = [worker EXCEPT !.pc = "decide", !.again = Pending # {}]
      BY <2>3 DEF EndPass
    <3> QED
      BY <2>0, <3>1
  <2>4. CASE Decide \/ WorkerReturns \/ WorkerWakes \/ WorkerDies
    <3>1. worker' = NoWorker \/ \E pc \in {"sleep", "return", "list"} : worker' = [NoWorker EXCEPT !.pc = pc]
      BY <2>4 DEF Decide, WorkerReturns, WorkerWakes, WorkerDies
    <3> QED
      BY <2>0, <3>1
  <2> QED
    BY <2>1, <2>2, <2>3, <2>4 DEF WorkerStep
<1> QED
  BY <1>0, <1>1, <1>3, <1>4, Spent DEF FilesType, RunsType, SessionsType, BudgetType

LEMMA TypesKeep ==
  ASSUME TypeOK, \A s \in Runs : RunInv(s), \A w \in Waiters : Watch(w), Next
  PROVE  TypeOK'
<1>1. FilesType' /\ RunsType' /\ SessionsType' /\ BudgetType'
  BY DispatchTypes, LoopTypes, TransferTypes DEF Next, LoopStep, Dispatches, WaiterStep
<1>2. waiter' \in [Waiters -> WaiterStates] /\ \A w \in Waiters : Watch(w)'
  BY WaitersKeep
<1>3. ASSUME NEW w \in Waiters
      PROVE  Len(waiter'[w].read) <= IF waiter'[w].asked = NoRequest THEN 0 ELSE Len(waiter'[w].asked.runs)
  <2>1. Sees(waiter'[w], Views')
    BY <1>2 DEF Watch
  <2>2. CASE waiter'[w].pc = "idle"
    <3>1. waiter'[w].read = <<>> /\ waiter'[w].asked = NoRequest
      BY <2>1, <2>2 DEF Sees
    <3> QED
      BY <3>1, EmptySeq
  <2>3. CASE waiter'[w].pc # "idle"
    <3>1. waiter'[w].asked # NoRequest /\ Len(waiter'[w].read) <= Len(waiter'[w].asked.runs)
      BY <2>1, <2>3 DEF Sees
    <3> QED
      BY <3>1
  <2> QED
    BY <2>2, <2>3
<1> QED
  BY <1>1, <1>2, <1>3 DEF TypeOK, FilesType, RunsType, SessionsType, BudgetType, WaiterStates

(***************************************************************************)
(* Theorems                                                                *)
(***************************************************************************)
LEMMA WaitInvInit == Init => WaitInv
<1> SUFFICES ASSUME Init PROVE WaitInv
  OBVIOUS
<1>0. /\ NoRecord \in ExecRecord /\ NoRecord.status = "none" /\ Unread \in View
      /\ Asleep \in WaiterStates
  <2>1. NoRecord \in ExecRecord /\ NoRecord.status = "none" /\ Unread \in View
    BY DEF NoRecord, ExecRecord, Unread, View, QueueStatuses, SyncStatuses
  <2> QED
    BY <2>1, EmptySeq DEF Asleep, WaiterStates
<1>1. TypeOK
  <2>1. FilesType
    BY <1>0 DEF Init, FilesType, QueueStatuses, SyncStatuses
  <2>2. RunsType
    BY DEF Init, RunsType
  <2>3. SessionsType
    BY DEF Init, SessionsType, NoLoop, NoWorker
  <2>4. BudgetType
    BY WaitingAssumptions DEF Init, BudgetType
  <2>5. waiter \in [Waiters -> WaiterStates]
    BY <1>0 DEF Init
  <2>6. ASSUME NEW w \in Waiters
        PROVE  Len(waiter[w].read) <= IF waiter[w].asked = NoRequest THEN 0 ELSE Len(waiter[w].asked.runs)
    <3>1. waiter[w].read = <<>> /\ waiter[w].asked = NoRequest
      BY DEF Init, Asleep
    <3> QED
      BY <3>1, EmptySeq
  <2> QED
    BY <2>1, <2>2, <2>3, <2>4, <2>5, <2>6 DEF TypeOK, FilesType, RunsType, SessionsType, BudgetType, WaiterStates
<1>2. ASSUME NEW r \in Runs PROVE RunInv(r)
  <2>1. /\ queue[r] = "absent" /\ exec[r] = NoRecord /\ sync[r] = "not_enqueued" /\ machine[r] = "none" /\ thread[r] = "idle"
        /\ probe[r] = NoView /\ worker.left = {}
    BY DEF Init, NoWorker
  <2> QED
    BY <1>0, <2>1 DEF RunInv, Coherent, Threads, Workload, Synced, Ended, ExecTerminal
<1>3. ASSUME NEW w \in Waiters PROVE Watch(w)
  <2>1. waiter[w].pc = "idle" /\ waiter[w].asked = NoRequest /\ waiter[w].read = <<>>
    BY DEF Init, Asleep
  <2> QED
    BY <2>1 DEF Watch, Sees
<1> QED
  BY <1>1, <1>2, <1>3 DEF WaitInv

LEMMA WaitInvStep == WaitInv /\ [Next]_vars => WaitInv'
<1> SUFFICES ASSUME WaitInv, [Next]_vars PROVE WaitInv'
  OBVIOUS
<1>1. CASE Next
  BY <1>1, TypesKeep, FilesKeep, WaitersKeep DEF WaitInv
<1>2. CASE UNCHANGED vars
  <2>1. UNCHANGED <<queue, exec, sync, machine, thread, loop, worker, probe, waiter, budget>>
    BY <1>2 DEF vars, system, files
  <2>2. TypeOK'
    BY <2>1 DEF WaitInv, TypeOK
  <2>3. \A r \in Runs : RunInv(r)'
    BY <2>1 DEF WaitInv, RunInv, Coherent, Threads, Workload, Synced, Ended
  <2>4. \A w \in Waiters : Watch(w)'
    <3>1. Views' = Views
      BY <2>1 DEF Views, Now
    <3> QED
      BY <2>1, <3>1 DEF WaitInv, Watch
  <2> QED
    BY <2>2, <2>3, <2>4 DEF WaitInv
<1> QED
  BY <1>1, <1>2

LEMMA WaitInvHolds == Spec => []WaitInv
BY WaitInvInit, WaitInvStep, PTL DEF Spec

\* Every variable holds what its comment says.
THEOREM TypeCorrect == Spec => []TypeOK
<1>1. WaitInv => TypeOK
  BY DEF WaitInv
<1> QED
  BY <1>1, WaitInvHolds, PTL

\* What a waiter has in hand, view by view.
LEMMA ReadForm ==
  ASSUME WaitInv, NEW w \in Waiters, NEW k \in DOMAIN waiter[w].read
  PROVE  /\ waiter[w].pc # "idle" /\ waiter[w].read[k] \in View /\ Watched(w)[k] \in Runs
         /\ Now(Watched(w)[k]) \in View /\ Knows(Watched(w)[k], Now(Watched(w)[k]), waiter[w].read[k])
<1>1. waiter[w] \in WaiterStates /\ Sees(waiter[w], Views) /\ TypeOK
  BY DEF WaitInv, TypeOK, WaiterStates, Watch
<1>2. k \in 1..Len(waiter[w].read)
  BY <1>1, LenProperties DEF WaiterStates
<1>3. waiter[w].pc # "idle"
  <2>1. waiter[w].read # <<>>
    BY <1>2, EmptySeq
  <2> QED
    BY <1>1, <2>1 DEF Sees
<1>4. waiter[w].read[k] \in View /\ Watched(w)[k] \in Runs
  BY <1>1, <1>2, <1>3, AskedForm DEF Watched
<1>5. Knows(Watched(w)[k], Views[Watched(w)[k]], waiter[w].read[k])
  BY <1>1, <1>2, <1>3 DEF Sees, Watched
<1> QED
  BY <1>1, <1>3, <1>4, <1>5, ViewsForm

LEMMA CompletedForm ==
  ASSUME WaitInv, NEW w \in Waiters, In(w, "completed"), NEW k \in DOMAIN Watched(w)
  PROVE  /\ k \in DOMAIN waiter[w].read /\ Phase(waiter[w].read[k]) = "terminal"
         /\ waiter[w].asked.until = "reportable" => Readiness(waiter[w].read[k]) = "ready"
<1>1. waiter[w] \in WaiterStates /\ Sees(waiter[w], Views) /\ waiter[w].pc = "completed"
  BY DEF WaitInv, TypeOK, WaiterStates, Watch, In
<1>2. Watched(w) \in Seq(Runs) /\ waiter[w].read \in Seq(View)
  BY <1>1, AskedForm DEF Watched, WaiterStates
<1>3. Len(waiter[w].read) = Len(Watched(w))
  BY <1>1 DEF Sees, Watched
<1>4. k \in DOMAIN waiter[w].read /\ k \in 1..Len(waiter[w].read)
  BY <1>2, <1>3, LenProperties
<1> QED
  BY <1>1, <1>4 DEF Sees

LEMMA FinalForm ==
  ASSUME NEW r, RunInv(r), Now(r) \in View, NEW v \in View, Knows(r, Now(r), v), Phase(v) = "terminal", queue[r] # "gone"
  PROVE  Phase(Now(r)) = "terminal" /\ Outcome(Now(r)) = Outcome(v)
<1>1. Now(r).queue = queue[r] /\ Now(r).exec = exec[r]
  BY DEF Now
<1>2. Coherent(r) /\ KnowsQueue(Now(r), v.queue) /\ KnowsExec(r, Now(r), v)
  BY DEF RunInv, Knows
<1>3. CASE v.exec.status \in ExecTerminal /\ Outcome(v) = v.exec.status
  <2>1. exec[r].status = v.exec.status
    BY <1>1, <1>2, <1>3 DEF KnowsExec
  <2>2. queue[r] \in QueueTerminal => queue[r] = exec[r].status
    BY <1>2, <1>3, <2>1 DEF Coherent, QueueTerminal, ExecTerminal
  <2>3. Phase(Now(r)) = "terminal"
    BY <1>1, <1>3, <2>1, <2>2, PhaseForm
  <2>4. exec[r].status # "none"
    BY <1>3, <2>1 DEF ExecTerminal
  <2> QED
    BY <1>1, <1>3, <2>1, <2>3, <2>4 DEF Outcome
<1>4. CASE v.exec.status = "none" /\ v.queue \in QueueTerminal /\ Outcome(v) = v.queue
  <2>1. queue[r] = v.queue /\ exec[r].status = "none"
    BY <1>1, <1>2, <1>4 DEF KnowsQueue, KnowsExec
  <2>2. Phase(Now(r)) = "terminal"
    BY <1>1, <1>4, <2>1, PhaseForm
  <2> QED
    BY <1>1, <1>4, <2>1, <2>2 DEF Outcome
<1> QED
  BY <1>3, <1>4, TerminalForm

\* What a waiter was told is final: wait and wait-cohort answer with views that were read
\* file by file, and as long as the records are there, the files themselves say the same of
\* each run from then on, whatever the dispatcher, stops and late probes do.
THEOREM AnswersAreFinal == Spec => []AnswerIsFinal
<1>1. ASSUME WaitInv, NEW w \in Waiters, In(w, "completed"), NEW k \in DOMAIN Watched(w), queue[Watched(w)[k]] # "gone"
      PROVE  Phase(Now(Watched(w)[k])) = "terminal" /\ Outcome(Now(Watched(w)[k])) = Outcome(waiter[w].read[k])
  <2>1. k \in DOMAIN waiter[w].read /\ Phase(waiter[w].read[k]) = "terminal"
    BY <1>1, CompletedForm
  <2>2. /\ waiter[w].read[k] \in View /\ Watched(w)[k] \in Runs /\ Now(Watched(w)[k]) \in View
        /\ Knows(Watched(w)[k], Now(Watched(w)[k]), waiter[w].read[k])
    BY <1>1, <2>1, ReadForm
  <2>3. RunInv(Watched(w)[k])
    BY <1>1, <2>2 DEF WaitInv
  <2> QED
    BY <1>1, <2>1, <2>2, <2>3, FinalForm
<1>2. WaitInv => AnswerIsFinal
  BY <1>1 DEF AnswerIsFinal
<1> QED
  BY <1>2, WaitInvHolds, PTL

\* A success that is reported as such has its output in the archive: the intent is there
\* before the record ends, the record is read before the output-sync files, and a receipt
\* is not taken back.
THEOREM ReportsAreArchived == Spec => []ReportedIsArchived
<1>1. ASSUME WaitInv, NEW w \in Waiters, In(w, "completed"), waiter[w].asked.until = "reportable",
             NEW r \in ToSet(Watched(w)) \cap Archived, exec[r].status = "succeeded"
      PROVE  sync[r] = "completed"
  <2>1. PICK k \in DOMAIN Watched(w) : r = Watched(w)[k]
    BY DEF ToSet
  <2> DEFINE v == waiter[w].read[k]
  <2>2. k \in DOMAIN waiter[w].read /\ Phase(v) = "terminal" /\ Readiness(v) = "ready"
    BY <1>1, CompletedForm
  <2>3. v \in View /\ r \in Runs /\ Now(r) \in View /\ Knows(r, Now(r), v)
    BY <1>1, <2>1, <2>2, ReadForm
  <2>4. RunInv(r)
    BY <1>1, <2>3 DEF WaitInv
  <2>5. queue[r] # "gone"
    BY <1>1, <2>4 DEF RunInv, Coherent
  <2> HIDE DEF v
  <2>6. Outcome(Now(r)) = Outcome(v)
    BY <2>2, <2>3, <2>4, <2>5, FinalForm
  <2>7. Outcome(Now(r)) = "succeeded"
    BY <1>1 DEF Outcome, Now
  <2>8. v.exec.status \in ExecTerminal
    BY <2>2, <2>3, <2>6, <2>7, TerminalForm DEF QueueTerminal
  <2>9. v.sync \notin {"pending", "retryable", "not_enqueued"}
    BY <1>1, <2>2, <2>3, <2>6, <2>7, <2>8, ReadyForm DEF Knows, KnowsSync
  <2>10. v.sync = "completed"
    BY <2>3, <2>9 DEF View, SyncStatuses
  <2>11. Now(r).sync = "completed"
    BY <2>3, <2>10 DEF Knows, KnowsSync
  <2> QED
    BY <2>11 DEF Now
<1>2. WaitInv => ReportedIsArchived
  BY <1>1 DEF ReportedIsArchived
<1> QED
  BY <1>2, WaitInvHolds, PTL

\* Reading the files of a run one after the other makes nobody see authorities in conflict,
\* or a dispatched job without a record, while its records are kept.
THEOREM NoConflictIsSeen == Spec => []NoFalseConflict
<1>1. ASSUME WaitInv, NEW w \in Waiters, NEW k \in DOMAIN waiter[w].read, queue[Watched(w)[k]] # "gone"
      PROVE  Phase(waiter[w].read[k]) \notin {"conflict", "undead", "unrecorded", "missing"}
  <2>1. Knows(Watched(w)[k], Now(Watched(w)[k]), waiter[w].read[k])
    BY <1>1, ReadForm
  <2>2. Now(Watched(w)[k]).queue = queue[Watched(w)[k]]
    BY DEF Now
  <2> QED
    BY <1>1, <2>1, <2>2 DEF Knows, KnowsExec
<1>2. WaitInv => NoFalseConflict
  BY <1>1 DEF NoFalseConflict
<1> QED
  BY <1>2, WaitInvHolds, PTL

=============================================================================
