------------------------------ MODULE Waiting ------------------------------
(***************************************************************************)
(* Views of runs and the clients that wait for them.  A view is derived    *)
(* from three files that are read one after the other, while the           *)
(* dispatcher, the machines, the output-sync worker and operators change   *)
(* them.  What Dispatch, Lifecycle and OutputSync look at closely is       *)
(* coarser here: which file changes when, and which session exists when.   *)
(***************************************************************************)
EXTENDS Naturals, FiniteSets, Sequences, SequencesExt

CONSTANTS
  Runs,
  Waiters,
  Requests,      \* what a waiter may ask for; one run: wait, more: wait-cohort
  Archived,      \* runs whose output is to be archived
  NoRequest, NoView,
  Outcomes,      \* bound: how workloads end by themselves; "gone": without a status
  MaxFaults,     \* bound: deaths, lost answers, failing transfers and launches of unknown outcome
  MaxAsides       \* bound: status requests and clean-ups of other clients

ExecTerminal == {"succeeded", "failed", "stopped"}
QueueTerminal == {"failed", "stopped"}
Probes == {"unreachable", "absent", "running", "succeeded", "failed", "stopped"}

ASSUME WaitingAssumptions ==
  /\ NoRequest \notin Requests /\ NoView \notin Probes
  /\ \A a \in Requests :
       /\ a \in [runs: Seq(Runs) \ {<<>>}, until: {"terminal", "reportable"}]
       /\ Len(a.runs) > 1 => a.until = "reportable"
  /\ Archived \subseteq Runs
  /\ Outcomes \subseteq {"succeeded", "failed", "gone"}
  /\ {MaxFaults, MaxAsides} \subseteq Nat

VARIABLES
  queue,     \* run -> status of its queue entry
  exec,      \* run -> status of its execution record, and the error noted in it
  sync,      \* run -> what the output-sync files say of it
  machine,   \* run -> its workload
  thread,    \* run -> the thread of the dispatcher that works on it
  loop,      \* the session of the dispatcher
  worker,    \* the session of the output-sync worker
  probe,     \* run -> what a status request has seen of it and not yet applied
  waiter,    \* waiter -> its request, and the views the controller has read for it
  budget

files == <<queue, exec, sync>>
system == <<files, machine, thread, loop, worker, probe>>
vars == <<system, waiter, budget>>

QueueStatuses == {"absent", "queued", "dispatching", "dispatched", "gone"} \cup QueueTerminal
ExecRecord == [status: {"none", "registered", "running"} \cup ExecTerminal,
               error: {"none", "unknown", "absent"}]
SyncStatuses == {"not_enqueued", "pending", "retryable", "completed"}
View == [queue: QueueStatuses, exec: ExecRecord, sync: SyncStatuses]
NoRecord == [status |-> "none", error |-> "none"]
Unread == [queue |-> "absent", exec |-> NoRecord, sync |-> "not_enqueued"]

TypeOK ==
  /\ queue \in [Runs -> QueueStatuses]
  /\ exec \in [Runs -> ExecRecord]
  /\ sync \in [Runs -> SyncStatuses]
  /\ machine \in [Runs -> {"none", "starting", "running", "stopped"} \cup Outcomes]
  /\ thread \in [Runs -> {"idle", "marked", "registered", "launching", "launched", "failing", "failqueue"}]
  /\ loop \in [pc: {"none", "monitor", "batch", "ensure", "sleep", "return"}, left: SUBSET Runs, active: BOOLEAN]
  /\ worker \in [pc: {"none", "list", "pass", "decide", "return", "sleep"}, left: SUBSET Runs, again: BOOLEAN]
  /\ probe \in [Runs -> Probes \cup {NoView}]
  /\ waiter \in [Waiters -> [pc: {"idle", "call", "queue", "exec", "sync", "look", "completed", "attention"},
                             asked: Requests \cup {NoRequest}, known: BOOLEAN, read: Seq(View), part: View]]
  /\ \A w \in Waiters : Len(waiter[w].read) <= IF waiter[w].asked = NoRequest THEN 0 ELSE Len(waiter[w].asked.runs)
  /\ budget \in [{"faults", "asides"} -> Nat]

NoLoop == [pc |-> "none", left |-> {}, active |-> FALSE]
NoWorker == [pc |-> "none", left |-> {}, again |-> FALSE]
Asleep == [pc |-> "idle", asked |-> NoRequest, known |-> FALSE, read |-> <<>>, part |-> Unread]

Init ==
  /\ queue = [r \in Runs |-> "absent"]
  /\ exec = [r \in Runs |-> NoRecord]
  /\ sync = [r \in Runs |-> "not_enqueued"]
  /\ machine = [r \in Runs |-> "none"]
  /\ thread = [r \in Runs |-> "idle"]
  /\ loop = NoLoop
  /\ worker = NoWorker
  /\ probe = [r \in Runs |-> NoView]
  /\ waiter = [w \in Waiters |-> Asleep]
  /\ budget = [faults |-> MaxFaults, asides |-> MaxAsides]

Spend(what) == budget[what] > 0 /\ budget' = [budget EXCEPT ![what] = @ - 1]

SetQueue(r, status) == queue' = [queue EXCEPT ![r] = status]
Record(r, status, error) == exec' = [exec EXCEPT ![r] = [status |-> status, error |-> error]]
Goto(r, pc) == thread' = [thread EXCEPT ![r] = pc]

\* update_current_state writes the intent before the record.
Ends(r, status) ==
  /\ sync' = IF r \in Archived THEN [sync EXCEPT ![r] = "pending"] ELSE sync
  /\ Record(r, status, "none")

Locked(r) == thread[r] = "launching"
Live(r) == exec[r].status \in {"registered", "running"}

(***************************************************************************)
(* Dispatch, as far as a view shows it.                                    *)
(***************************************************************************)
\* The outcome of the batch is not "idle".
Busy == loop' = [loop EXCEPT !.active = TRUE]

Mark(r) ==
  /\ loop.pc = "batch" /\ queue[r] = "queued"
  /\ SetQueue(r, "dispatching") /\ Goto(r, "marked") /\ Busy
  /\ UNCHANGED <<exec, sync, machine, worker, probe, waiter, budget>>

\* The dispatcher of the job died, or gave it up.
Interrupted(r) == queue[r] = "dispatching" /\ thread[r] = "idle"

\* The job is put back, or has been dispatched, with a record.
Recover(r) ==
  /\ loop.pc = "batch" /\ Interrupted(r)
  /\ SetQueue(r, IF exec[r] = NoRecord THEN "queued" ELSE "dispatched") /\ Busy
  /\ UNCHANGED <<exec, sync, machine, thread, worker, probe, waiter, budget>>

\* The leases of the job, which Lifecycle looks at, do not let it be recovered: the batch
\* is busy, or raises.
RecoveryRefused(r) ==
  /\ loop.pc = "batch" /\ Interrupted(r)
  /\ \A s \in Runs : thread[s] = "idle"
  /\ \E pc \in {"ensure", "sleep"} : loop' = [NoLoop EXCEPT !.pc = pc, !.active = pc = "ensure"]
  /\ UNCHANGED <<files, machine, thread, worker, probe, waiter, budget>>

Register(r) ==
  /\ thread[r] = "marked"
  /\ \/ Record(r, "registered", "none") /\ Goto(r, "registered")
     \/ Goto(r, "failqueue") /\ UNCHANGED exec
  /\ UNCHANGED <<queue, sync, machine, loop, worker, probe, waiter, budget>>

Launch(r) ==
  /\ thread[r] = "registered"
  /\ machine' = [machine EXCEPT ![r] = "starting"] /\ Goto(r, "launching")
  /\ UNCHANGED <<files, loop, worker, probe, waiter, budget>>

Launched(r) ==
  /\ thread[r] = "launching" /\ machine[r] \notin {"none", "starting"}
  /\ Record(r, "running", "none") /\ Goto(r, "launched")
  /\ UNCHANGED <<queue, sync, machine, loop, worker, probe, waiter, budget>>

LaunchUnknown(r) ==
  /\ thread[r] = "launching" /\ Spend("faults")
  /\ Record(r, "registered", "unknown") /\ Goto(r, "launched")
  /\ UNCHANGED <<queue, sync, machine, loop, worker, probe, waiter>>

LaunchRejected(r) ==
  /\ thread[r] = "launching" /\ machine[r] = "starting"
  /\ machine' = [machine EXCEPT ![r] = "none"] /\ Goto(r, "failing")
  /\ UNCHANGED <<files, loop, worker, probe, waiter, budget>>

FailExecution(r) ==
  /\ thread[r] = "failing"
  /\ Goto(r, "failqueue")
  /\ IF exec[r].status = "registered" THEN Ends(r, "failed") ELSE UNCHANGED <<exec, sync>>
  /\ UNCHANGED <<queue, machine, loop, worker, probe, waiter, budget>>

EndDispatch(r) ==
  /\ thread[r] \in {"launched", "failqueue"}
  /\ SetQueue(r, IF thread[r] = "launched" THEN "dispatched" ELSE "failed") /\ Goto(r, "idle")
  /\ UNCHANGED <<exec, sync, machine, loop, worker, probe, waiter, budget>>

RemoteStep(r) ==
  /\ \E next \in {"none", "running"} \cup Outcomes :
       /\ \/ machine[r] = "starting" /\ next = "running"
          \/ machine[r] = "starting" /\ next = "none" /\ ~Locked(r)
          \/ machine[r] = "running" /\ next \in Outcomes
       /\ machine' = [machine EXCEPT ![r] = next]
  /\ UNCHANGED <<files, thread, loop, worker, probe, waiter, budget>>

(***************************************************************************)
(* Monitoring.                                                             *)
(***************************************************************************)
\* What a machine that is reached says of the run; "absent" stands for the observations
\* "registered" and "unknown", which both need that no process is there.
Seen(r) == IF machine[r] \in {"none", "starting", "gone"} THEN "absent" ELSE machine[r]

\* Mutant of Reconcile: the record is not read again after the probe.
ReconcileStale(r, seen) ==
  CASE seen = "running" -> Record(r, "running", "none") /\ UNCHANGED sync
    [] seen \in ExecTerminal -> Ends(r, seen)
    [] seen \in {"absent", "unreachable"} -> UNCHANGED <<exec, sync>>

\* Mutant of Reconcile: the observation is noted as the status.
ReconcileObserved(r, seen) ==
  IF Live(r) THEN Record(r, seen, "none") /\ UNCHANGED sync ELSE UNCHANGED <<exec, sync>>

\* reconcile_current: what a probe has seen, applied to the record as it is now.
Reconcile(r, seen) ==
  CASE ~Live(r) \/ seen = "unreachable" -> UNCHANGED <<exec, sync>>
    [] Live(r) /\ seen \in ExecTerminal -> Ends(r, seen)
    [] Live(r) /\ seen = "running" -> Record(r, "running", "none") /\ UNCHANGED sync
    [] Live(r) /\ seen = "absent" ->
         /\ IF exec[r].status = "running" THEN Record(r, "running", "absent") ELSE UNCHANGED exec
         /\ UNCHANGED sync

(***************************************************************************)
(* The loop of the dispatcher, and how it comes to its end.                *)
(***************************************************************************)
Works(new) == loop' = new
Beyond == <<queue, machine, thread, probe, waiter, budget>>

Monitor ==
  /\ loop.pc = "monitor"
  /\ \E r \in loop.left :
       /\ ~Locked(r)
       /\ Reconcile(r, Seen(r))
       /\ Works([loop EXCEPT !.left = @ \ {r}, !.active = @ \/ exec'[r].status \in {"registered", "running"}])
  /\ UNCHANGED <<Beyond, worker>>

\* The machine could tell something new, and is not reached.
Unreached(r) ==
  /\ loop.pc = "monitor" /\ r \in loop.left /\ Live(r)
  /\ \/ Seen(r) \in ExecTerminal
     \/ Seen(r) = "running" /\ exec[r] # [status |-> "running", error |-> "none"]
     \/ Seen(r) = "absent" /\ exec[r].status = "running" /\ exec[r].error # "absent"
  /\ Works([loop EXCEPT !.left = @ \ {r}, !.active = TRUE])
  /\ UNCHANGED <<Beyond, files, worker>>

BeginBatch ==
  /\ loop.pc = "monitor" /\ loop.left = {}
  /\ Works([loop EXCEPT !.pc = "batch"])
  /\ UNCHANGED <<Beyond, files, worker>>

\* Jobs that are left in the queue have found no machine with room.
EndBatch ==
  /\ loop.pc = "batch"
  /\ \A r \in Runs : thread[r] = "idle" /\ queue[r] # "dispatching"
  /\ IF \A r \in Runs : queue[r] # "queued"
       THEN Works([loop EXCEPT !.pc = "ensure"]) /\ UNCHANGED budget
       ELSE Works([loop EXCEPT !.pc = "ensure", !.active = TRUE]) /\ Spend("faults")
  /\ UNCHANGED <<queue, machine, thread, probe, waiter, files, worker>>

Pending == {r \in Runs : sync[r] \in {"pending", "retryable"}}

WorkerEnsured(asked) == worker' = IF asked /\ worker.pc = "none" /\ Pending' # {} THEN [NoWorker EXCEPT !.pc = "list"] ELSE worker
LoopEnsured(asked) == loop' = IF asked /\ loop.pc = "none" THEN [NoLoop EXCEPT !.pc = "monitor", !.left = {r \in Runs : exec[r] # NoRecord}] ELSE loop

\* After the batch: the worker is ensured, then the loop returns or sleeps.
Ensure ==
  /\ loop.pc = "ensure"
  /\ Works([NoLoop EXCEPT !.pc = IF loop.active THEN "sleep" ELSE "return"])
  /\ UNCHANGED <<Beyond, files>>
  /\ WorkerEnsured(TRUE)

Return ==
  /\ loop.pc = "return"
  /\ Works(NoLoop)
  /\ UNCHANGED <<Beyond, files, worker>>

Wake ==
  /\ loop.pc = "sleep"
  /\ Works([NoLoop EXCEPT !.pc = "monitor", !.left = {r \in Runs : exec[r] # NoRecord}])
  /\ UNCHANGED <<Beyond, files, worker>>

LoopDies ==
  /\ loop.pc # "none" /\ Spend("faults")
  /\ Works(NoLoop)
  /\ thread' = [r \in Runs |-> "idle"]
  /\ UNCHANGED <<files, machine, worker, probe, waiter>>

(***************************************************************************)
(* The output-sync worker.                                                 *)
(***************************************************************************)
Syncs(new) == worker' = new
Apart == <<queue, exec, machine, thread, loop, probe, waiter>>

ListPending ==
  /\ worker.pc = "list"
  /\ Syncs([worker EXCEPT !.pc = "pass", !.left = Pending])
  /\ UNCHANGED <<Apart, sync, budget>>

Transfer ==
  /\ worker.pc = "pass"
  /\ \E r \in worker.left :
       /\ Syncs([worker EXCEPT !.left = @ \ {r}])
       /\ \/ sync' = [sync EXCEPT ![r] = "completed"] /\ UNCHANGED budget
          \/ sync' = [sync EXCEPT ![r] = "retryable"] /\ Spend("faults")
  /\ UNCHANGED Apart

EndPass ==
  /\ worker.pc = "pass" /\ worker.left = {}
  /\ Syncs([worker EXCEPT !.pc = "decide", !.again = Pending # {}])
  /\ UNCHANGED <<Apart, sync, budget>>

\* The session ends when nothing was left at the end of the pass.
Decide ==
  /\ worker.pc = "decide"
  /\ Syncs([NoWorker EXCEPT !.pc = IF worker.again THEN "sleep" ELSE "return"])
  /\ UNCHANGED <<Apart, sync, budget>>

WorkerReturns ==
  /\ worker.pc = "return"
  /\ Syncs(NoWorker)
  /\ UNCHANGED <<Apart, sync, budget>>

WorkerWakes ==
  /\ worker.pc = "sleep"
  /\ Syncs([NoWorker EXCEPT !.pc = "list"])
  /\ UNCHANGED <<Apart, sync, budget>>

WorkerDies ==
  /\ worker.pc # "none" /\ Spend("faults")
  /\ Syncs(NoWorker)
  /\ UNCHANGED <<Apart, sync>>

(***************************************************************************)
(* Operators and other clients.                                            *)
(***************************************************************************)
Submit(r) ==
  /\ queue[r] = "absent"
  /\ SetQueue(r, "queued") /\ LoopEnsured(TRUE)
  /\ UNCHANGED <<exec, sync, machine, thread, worker, probe, waiter, budget>>

StopQueued(r) ==
  /\ queue[r] = "queued"
  /\ SetQueue(r, "stopped")
  /\ UNCHANGED <<exec, sync, machine, thread, loop, worker, probe, waiter, budget>>

Stop(r) ==
  /\ queue[r] \notin {"queued", "dispatching"} /\ Live(r) /\ ~Locked(r)
  /\ Ends(r, IF machine[r] \in ExecTerminal THEN machine[r] ELSE "stopped")
  /\ machine' = [machine EXCEPT ![r] = IF @ \in {"running", "gone"} THEN "stopped" ELSE @]
  /\ UNCHANGED <<queue, thread, loop, worker, probe, waiter, budget>>

\* cleanup_records removes the queue entry, then the record.
CleanQueue(r) ==
  /\ Spend("asides") /\ queue[r] \notin {"absent", "gone", "queued", "dispatching"}
  /\ exec[r].status = "stopped" \/ (exec[r] = NoRecord /\ queue[r] = "stopped")
  /\ SetQueue(r, "gone")
  /\ UNCHANGED <<exec, sync, machine, thread, loop, worker, probe, waiter>>

CleanExecution(r) ==
  /\ queue[r] = "gone" /\ exec[r].status = "stopped"
  /\ exec' = [exec EXCEPT ![r] = NoRecord]
  /\ UNCHANGED <<queue, sync, machine, thread, loop, worker, probe, waiter, budget>>

\* status probes the live runs, applies what it has seen, and ensures the sessions.
Probe(r) ==
  /\ Live(r) /\ probe[r] = NoView /\ Spend("asides")
  /\ \E seen \in {Seen(r), "unreachable"} : probe' = [probe EXCEPT ![r] = seen]
  /\ UNCHANGED <<files, machine, thread, loop, worker, waiter>>

ApplyProbe(r) ==
  /\ probe[r] # NoView /\ ~Locked(r)
  /\ Reconcile(r, probe[r])
  /\ probe' = [probe EXCEPT ![r] = NoView]
  /\ LoopEnsured(exec'[r].status \in {"registered", "running"})
  /\ WorkerEnsured(TRUE)
  /\ UNCHANGED <<queue, machine, thread, waiter, budget>>

(***************************************************************************)
(* Views                                                                   *)
(***************************************************************************)
\* _derive_phase; the phases "conflict", "undead", "absent", "unknown" and
\* "unrecorded" are its reasons for attention_required.
Phase(v) ==
  LET e == v.exec.status
      contested == v.queue \in QueueTerminal
  IN CASE e \in ExecTerminal -> IF contested /\ v.queue # e THEN "conflict" ELSE "terminal"
       [] e \in {"registered", "running"} ->
            IF contested THEN "undead" ELSE IF v.exec.error # "none" THEN v.exec.error ELSE e
       [] e = "none" /\ contested -> "terminal"
       [] e = "none" /\ v.queue = "dispatched" -> "unrecorded"
       [] e = "none" /\ v.queue \in {"absent", "gone"} -> "missing"
       [] OTHER -> v.queue

Active == {"queued", "dispatching", "registered", "running"}
Attention == {"conflict", "undead", "absent", "unknown", "unrecorded"}
Outcome(v) == IF v.exec.status = "none" THEN v.queue ELSE v.exec.status

\* Mutant of Readiness: an output whose transfer has failed is not waited for.
ReadinessIgnoringRetries(v) ==
  CASE Phase(v) \in Attention \cup {"missing"} -> "attention"
    [] Phase(v) \in Active -> "waiting"
    [] OTHER -> IF Outcome(v) = "succeeded" /\ v.sync = "pending" THEN "waiting" ELSE "ready"

\* report_readiness
Readiness(v) ==
  CASE Phase(v) \in Attention \cup {"missing"} -> "attention"
    [] Phase(v) \in Active -> "waiting"
    [] OTHER -> IF Outcome(v) = "succeeded" /\ v.sync \in {"pending", "retryable"} THEN "waiting" ELSE "ready"

(***************************************************************************)
(* Waiting: a request of the client ensures the sessions, the controller   *)
(* reads the views until they differ from those the client has or its time *)
(* is over, and the client decides.                                        *)
(***************************************************************************)
Asks(w, new) == waiter' = [waiter EXCEPT ![w] = new]
In(w, pc) == waiter[w].pc = pc
Watched(w) == waiter[w].asked.runs
Alone(w) == Len(Watched(w)) = 1
Now(r) == [queue |-> queue[r], exec |-> exec[r], sync |-> sync[r]]

Begin(w) ==
  /\ In(w, "idle")
  /\ \E a \in Requests :
       /\ \A r \in ToSet(a.runs) : queue[r] # "absent"
       /\ Asks(w, [Asleep EXCEPT !.pc = "call", !.asked = a])
  /\ UNCHANGED <<system, budget>>

\* status, the first request for a single run: it looks at the run unless that fails,
\* and ensures both sessions.
Status(w) ==
  LET r == Watched(w)[1] IN
  /\ In(w, "call") /\ Alone(w) /\ ~waiter[w].known
  /\ Asks(w, [waiter[w] EXCEPT !.pc = "queue"])
  /\ \/ ~Locked(r) /\ Reconcile(r, Seen(r))
     \/ UNCHANGED <<exec, sync>>
  /\ LoopEnsured(queue[r] \in {"queued", "dispatching"} \/ exec'[r].status \in {"registered", "running"})
  /\ WorkerEnsured(TRUE)
  /\ UNCHANGED <<queue, machine, thread, probe, budget>>

\* Mutant of Call: the waits count on the dispatcher that status has ensured.
CallEnsuringNothing(w) ==
  /\ In(w, "call") /\ (~Alone(w) \/ waiter[w].known)
  /\ Asks(w, [waiter[w] EXCEPT !.pc = "queue"])
  /\ UNCHANGED <<system, budget>>

\* wait-run and wait-runs ensure the dispatcher alone.
Call(w) ==
  LET phases == {Phase(Now(r)) : r \in ToSet(Watched(w))} IN
  /\ In(w, "call") /\ (~Alone(w) \/ waiter[w].known)
  /\ Asks(w, [waiter[w] EXCEPT !.pc = "queue"])
  /\ LoopEnsured(phases \cap (Active \cup IF Alone(w) THEN Attention ELSE {}) # {})
  /\ UNCHANGED <<files, machine, thread, worker, probe, budget>>

Upcoming(w) == Watched(w)[Len(waiter[w].read) + 1]

ReadQueue(w) ==
  /\ In(w, "queue")
  /\ Asks(w, [waiter[w] EXCEPT !.pc = "exec", !.part.queue = queue[Upcoming(w)]])
  /\ UNCHANGED <<system, budget>>

ReadExec(w) ==
  /\ In(w, "exec")
  /\ Asks(w, [waiter[w] EXCEPT !.pc = "sync", !.part.exec = exec[Upcoming(w)]])
  /\ UNCHANGED <<system, budget>>

\* Mutant of ReadSync: the queue entry is the last that is read.
ReadQueueLast(w) ==
  LET r == Upcoming(w)
      read == Append(waiter[w].read, [waiter[w].part EXCEPT !.queue = queue[r], !.sync = sync[r]])
  IN
  /\ In(w, "sync")
  /\ Asks(w, [waiter[w] EXCEPT !.part = Unread, !.read = read,
                               !.pc = IF Len(read) = Len(Watched(w)) THEN "look" ELSE "queue"])
  /\ UNCHANGED <<system, budget>>

ReadSync(w) ==
  LET read == Append(waiter[w].read, [waiter[w].part EXCEPT !.sync = sync[Upcoming(w)]]) IN
  /\ In(w, "sync")
  /\ Asks(w, [waiter[w] EXCEPT !.part = Unread, !.read = read,
                               !.pc = IF Len(read) = Len(Watched(w)) THEN "look" ELSE "queue"])
  /\ UNCHANGED <<system, budget>>

\* What the client makes of the views it gets.
Verdict(w) ==
  LET vs == ToSet(waiter[w].read) IN
  CASE \E v \in vs : Readiness(v) = "attention" -> "attention"
    [] ~Alone(w) /\ \E v \in vs : Phase(v) = "terminal" /\ Outcome(v) # "succeeded" -> "attention"
    [] waiter[w].asked.until = "terminal" /\ \A v \in vs : Phase(v) = "terminal" -> "completed"
    [] waiter[w].asked.until = "reportable" /\ \A v \in vs : Readiness(v) = "ready" -> "completed"
    [] OTHER -> "call"

Answer(w) ==
  /\ In(w, "look")
  /\ Asks(w, [waiter[w] EXCEPT !.pc = Verdict(w), !.known = TRUE, !.read = IF Verdict(w) = "call" THEN <<>> ELSE @])
  /\ UNCHANGED <<system, budget>>

\* The client has these views already, and the time is not over: read again.
Repeat(w) ==
  /\ In(w, "look")
  /\ Asks(w, [waiter[w] EXCEPT !.pc = "queue", !.read = <<>>])
  /\ UNCHANGED <<system, budget>>

\* The connection fails, and the client asks again.
AnswerLost(w) ==
  /\ waiter[w].pc \in {"queue", "exec", "sync", "look"} /\ Spend("faults")
  /\ Asks(w, [waiter[w] EXCEPT !.pc = "call", !.read = <<>>, !.part = Unread])
  /\ UNCHANGED system

(***************************************************************************)
(* Specification                                                           *)
(***************************************************************************)
LoopStep ==
  \/ Monitor \/ BeginBatch \/ EndBatch \/ Ensure \/ Return \/ Wake
  \/ \E r \in Runs : Mark(r) \/ Recover(r) \/ RecoveryRefused(r) \/ Unreached(r)
Dispatching(r) ==
  \/ Register(r) \/ Launch(r) \/ Launched(r) \/ LaunchUnknown(r) \/ LaunchRejected(r)
  \/ FailExecution(r) \/ EndDispatch(r)
WorkerStep == ListPending \/ Transfer \/ EndPass \/ Decide \/ WorkerReturns \/ WorkerWakes
Request(w) == Status(w) \/ Call(w) \/ ReadQueue(w) \/ ReadExec(w) \/ ReadSync(w)

Next ==
  \/ LoopStep \/ LoopDies \/ WorkerStep \/ WorkerDies
  \/ \E r \in Runs :
       \/ Dispatching(r) \/ RemoteStep(r) \/ Submit(r) \/ StopQueued(r) \/ Stop(r)
       \/ CleanQueue(r) \/ CleanExecution(r) \/ Probe(r) \/ ApplyProbe(r)
  \/ \E w \in Waiters : Begin(w) \/ Request(w) \/ Answer(w) \/ Repeat(w) \/ AnswerLost(w)

Spec == Init /\ [][Next]_vars

\* Sessions and requests go on, the time of a request ends, workloads end.
FairSpec ==
  /\ Spec
  /\ WF_vars(LoopStep) /\ WF_vars(WorkerStep)
  /\ \A r \in Runs : WF_vars(Dispatching(r)) /\ WF_vars(RemoteStep(r)) /\ WF_vars(ApplyProbe(r))
  /\ \A w \in Waiters : WF_vars(Request(w)) /\ SF_vars(Answer(w))

(***************************************************************************)
(* Properties                                                              *)
(***************************************************************************)
Waits(w) == waiter[w].pc \notin {"idle", "completed", "attention"}

\* What a waiter was told is final: as long as the records are there, the view of each
\* of its runs stays terminal with the outcome that it got.
AnswerIsFinal ==
  \A w \in Waiters : In(w, "completed") =>
    \A k \in DOMAIN Watched(w) :
      LET r == Watched(w)[k] IN
      queue[r] # "gone" => Phase(Now(r)) = "terminal" /\ Outcome(Now(r)) = Outcome(waiter[w].read[k])

\* "waits for checksum-verified output": a success that is reported as such has its
\* output in the archive, although outcome and receipts are read one after the other.
ReportedIsArchived ==
  \A w \in Waiters : In(w, "completed") /\ waiter[w].asked.until = "reportable" =>
    \A r \in ToSet(Watched(w)) \cap Archived : exec[r].status = "succeeded" => sync[r] = "completed"

\* Reading the files of a run one after the other makes nobody see authorities in
\* conflict, or a dispatched job without a record, while its records are kept.
NoFalseConflict ==
  \A w \in Waiters : \A k \in DOMAIN waiter[w].read :
    queue[Watched(w)[k]] # "gone" => Phase(waiter[w].read[k]) \notin {"conflict", "undead", "unrecorded", "missing"}

\* A dispatcher died before it could note that it had launched the registered run, and
\* no workload was ever seen: it never started, or it went without leaving a status.
Unseen(r) ==
  /\ exec[r] = [status |-> "registered", error |-> "none"]
  /\ machine[r] \in {"none", "gone"} /\ thread[r] = "idle"
Forlorn(w) == \E r \in ToSet(Watched(w)) : Unseen(r)
WaitsForEnd(w) == Waits(w) /\ waiter[w].asked.until = "terminal"

\* Who waits for the end of an execution gets an answer: the requests of a waiter keep
\* a dispatcher alive for as long as there is something to dispatch or to monitor.  It
\* does not if the dispatcher is refused, or does not reach the machine, again and again.
Hindered == \E r \in Runs : RecoveryRefused(r) \/ Unreached(r)
TerminalWaitsEnd ==
  \A w \in Waiters :
    \/ []<><<Hindered>>_vars
    \/ WaitsForEnd(w) ~> (~Waits(w) \/ Forlorn(w))
=============================================================================
