----------------------------- MODULE OutputSync -----------------------------
(***************************************************************************)
(* Output synchronisation: the intent a terminal transition leaves behind, *)
(* the worker that has each output pulled into the archive, the program on *)
(* the archive, the pruning of sources, and the purge of all of it.  The   *)
(* runs share one source machine; the archive is another.                  *)
(***************************************************************************)
EXTENDS Naturals, FiniteSets

CONSTANTS
  Runs,
  NoRun,          \* "no run in hand"
  NoIntent,       \* "no file in pending"
  NoReceipt,      \* "no file in completed"
  Nested,         \* run -> runs whose output paths lie in the tree of its own
  Outcomes,       \* bound: how workloads end by themselves
  MaxFaults,      \* bound: deaths, answers of the archive lost, failing transfers
  Dropped,        \* bound: runs whose record may go before its output is archived
  Unanswered,     \* bound: runs whose prune may be left alone by whoever asked for it
  MaxTouches,     \* bound: updates of a live record that leave it live
  MaxConfigs      \* bound: changes of the configuration

Pruners == {"worker", "operator"}

ASSUME SyncAssumptions ==
  /\ Runs \cap {NoRun, "free", "maintenance"} = {}
  /\ Nested \in [Runs -> SUBSET Runs]
  /\ Outcomes \subseteq {"succeeded", "failed"}
  /\ Dropped \subseteq Runs /\ Unanswered \subseteq Runs
  /\ {MaxFaults, MaxTouches, MaxConfigs} \subseteq Nat

VARIABLES
  exec,       \* run -> [status, revision] of its execution record
  recording,  \* run -> the terminal status its lock holder is about to write
  machine,    \* run -> the workload on the source machine
  source,     \* run -> its output on the source machine
  lease,      \* the lease of the source machine: a run that is dispatched to it, or maintenance
  config,     \* the configuration of output synchronisation
  pending,    \* run -> intent in pending
  completed,  \* run -> its receipt in completed
  worker,     \* the worker session
  lock,       \* the worker lock
  mine,       \* the program on the archive that the worker waits for
  strays,     \* run -> programs waiting on the archive that nobody waits for
  active,     \* the program that holds the lock of the archive
  stage,      \* run -> its staging directory on the archive
  artifact,   \* run -> its artifact on the archive
  pruner,     \* prune-outputs, run by the worker and by operators
  strayPrunes,\* runs a prune program works on that nobody waits for
  purge,      \* run -> how far its purge is
  budget      \* what is left of the bounds

record == <<exec, recording>>
archive == <<strays, active, stage, artifact>>
local == <<config, pending, completed>>
vars == <<record, machine, source, lease, local, worker, lock, mine, archive, pruner, strayPrunes, purge, budget>>

Terminal == {"succeeded", "failed", "stopped"}
Contents == {"none", "growing", "final"}

\* "remote": the time the machine reports, the same in each attempt; "now": the
\* controller's clock, another in each.
Intent == [status: Terminal, at: {"remote", "now"}, revision: Nat]

WorkerPcs == {"none", "load", "lock", "pick", "wait", "complete", "unlink", "decide", "prune", "sleep"}
PrunerPcs == {"idle", "next", "check", "remote", "record", "release"}

TypeOK ==
  /\ exec \in [Runs -> [status: {"absent", "live"} \cup Terminal, revision: Nat]]
  /\ recording \in [Runs -> Terminal \cup {"nothing"}]
  /\ machine \in [Runs -> {"none", "running"} \cup Terminal]
  /\ source \in [Runs -> Contents]
  /\ lease \in {"free", "maintenance"} \cup Runs
  /\ config \in {"none", "paused", "on"}
  /\ pending \in [Runs -> Intent \cup {NoIntent}]
  /\ completed \in [Runs -> [status: Terminal, deleted: BOOLEAN] \cup {NoReceipt}]
  /\ worker \in [pc: WorkerPcs, todo: SUBSET Runs, run: Runs \cup {NoRun}, again: BOOLEAN]
  /\ lock \in {"free", "worker", "purge"}
  /\ mine \in {"none", "waiting", "active", "ok", "failed"}
  /\ strays \in [Runs -> Nat]
  /\ active \in [run: Runs \cup {NoRun}, mine: BOOLEAN, copied: BOOLEAN]
  /\ stage \in [Runs -> Contents]
  /\ artifact \in [Runs -> Contents]
  /\ pruner \in [Pruners -> [pc: PrunerPcs, todo: SUBSET Runs, gone: SUBSET Runs, run: Runs \cup {NoRun}]]
  /\ strayPrunes \in SUBSET Runs
  /\ purge \in [Runs -> {"no", "staged", "archive", "local", "source", "done"}]
  /\ budget \in [{"faults", "touches", "configs"} -> Nat]

NoProgram == [run |-> NoRun, mine |-> FALSE, copied |-> FALSE]
NoWorker == [pc |-> "none", todo |-> {}, run |-> NoRun, again |-> FALSE]
NoPruner == [pc |-> "idle", todo |-> {}, gone |-> {}, run |-> NoRun]

Init ==
  /\ exec = [r \in Runs |-> [status |-> "absent", revision |-> 0]]
  /\ recording = [r \in Runs |-> "nothing"]
  /\ machine = [r \in Runs |-> "none"]
  /\ source = [r \in Runs |-> "none"]
  /\ lease = "free"
  /\ config = "on"
  /\ pending = [r \in Runs |-> NoIntent]
  /\ completed = [r \in Runs |-> NoReceipt]
  /\ worker = NoWorker
  /\ lock = "free"
  /\ mine = "none"
  /\ strays = [r \in Runs |-> 0]
  /\ active = NoProgram
  /\ stage = [r \in Runs |-> "none"]
  /\ artifact = [r \in Runs |-> "none"]
  /\ pruner = [p \in Pruners |-> NoPruner]
  /\ strayPrunes = {}
  /\ purge = [r \in Runs |-> "no"]
  /\ budget = [faults |-> MaxFaults, touches |-> MaxTouches, configs |-> MaxConfigs]

Spend(what) == budget[what] > 0 /\ budget' = [budget EXCEPT ![what] = @ - 1]

Status(r) == exec[r].status
Ended(r) == Status(r) \in Terminal
Locked(r) == recording[r] # "nothing"

(***************************************************************************)
(* Runs: registration under the lease of the machine, the workload, and    *)
(* the terminal transition, whose intent is written before the record.     *)
(***************************************************************************)
Register(r) ==
  /\ exec[r].revision = 0 /\ purge[r] = "no"
  /\ lease = "free"
  /\ exec' = [exec EXCEPT ![r] = [status |-> "live", revision |-> 1]]
  /\ lease' = r
  /\ UNCHANGED <<recording, machine, source, local, worker, lock, mine, archive, pruner, strayPrunes, purge, budget>>

Bootstrap(r) ==
  /\ lease = r /\ Status(r) = "live" /\ ~Locked(r)
  /\ machine' = [machine EXCEPT ![r] = "running"]
  /\ source' = [source EXCEPT ![r] = "growing"]
  /\ lease' = "free"
  /\ UNCHANGED <<record, local, worker, lock, mine, archive, pruner, strayPrunes, purge, budget>>

Finish(r) ==
  /\ machine[r] = "running"
  /\ \E s \in Outcomes : machine' = [machine EXCEPT ![r] = s]
  /\ source' = [source EXCEPT ![r] = IF @ = "growing" THEN "final" ELSE @]
  /\ UNCHANGED <<record, lease, local, worker, lock, mine, archive, pruner, strayPrunes, purge, budget>>

IntentOf(r, status, at) == [status |-> status, at |-> at, revision |-> exec[r].revision + 1]

\* enqueue_terminal_output: an intent that differs from the one in pending.
Conflict(r, intent) ==
  /\ config # "none" /\ completed[r] = NoReceipt /\ pending[r] # NoIntent
  /\ pending[r] # intent \/ intent.at = "now"

\* update_current_state, up to the writing of the intent; a conflict raises.
BeginRecord(r, status, at) ==
  LET intent == IntentOf(r, status, at) IN
  /\ Status(r) = "live" /\ ~Locked(r)
  /\ recording' = IF Conflict(r, intent) THEN recording ELSE [recording EXCEPT ![r] = status]
  /\ pending' = IF config = "none" \/ completed[r] # NoReceipt \/ pending[r] # NoIntent
                   THEN pending ELSE [pending EXCEPT ![r] = intent]
  /\ UNCHANGED <<exec, config, completed, worker, lock, mine, archive, pruner, strayPrunes, purge, budget>>

LaunchFails(r) ==
  /\ lease = r
  /\ BeginRecord(r, "failed", "now")
  /\ lease' = "free"
  /\ UNCHANGED <<machine, source>>

\* The dispatcher finds its run stopped before the bootstrap and gives up.
LaunchAborted(r) ==
  /\ lease = r /\ Status(r) # "live"
  /\ lease' = "free"
  /\ UNCHANGED <<record, machine, source, local, worker, lock, mine, archive, pruner, strayPrunes, purge, budget>>

Stop(r) ==
  /\ \/ machine[r] = "none" /\ BeginRecord(r, "stopped", "now") /\ UNCHANGED <<machine, source>>
     \/ /\ machine[r] = "running" /\ BeginRecord(r, "stopped", "remote")
        /\ machine' = [machine EXCEPT ![r] = "stopped"]
        /\ source' = [source EXCEPT ![r] = IF @ = "growing" THEN "final" ELSE @]
     \/ machine[r] \in Terminal /\ BeginRecord(r, machine[r], "remote") /\ UNCHANGED <<machine, source>>
  /\ UNCHANGED lease

\* Mutant of Monitor: whatever the machine reports is taken for the end.
MonitorUnfinished(r) ==
  /\ machine[r] # "none"
  /\ BeginRecord(r, machine[r], "remote")
  /\ UNCHANGED <<machine, source, lease>>

Monitor(r) ==
  /\ machine[r] \in Terminal
  /\ BeginRecord(r, machine[r], "remote")
  /\ UNCHANGED <<machine, source, lease>>

\* Another observation, or a stop whose outcome is unknown.
Touch(r) ==
  /\ Status(r) = "live" /\ ~Locked(r) /\ Spend("touches")
  /\ exec' = [exec EXCEPT ![r].revision = @ + 1]
  /\ UNCHANGED <<recording, machine, source, lease, local, worker, lock, mine, archive, pruner, strayPrunes, purge>>

EndRecord(r) ==
  /\ Locked(r)
  /\ exec' = [exec EXCEPT ![r] = [status |-> recording[r], revision |-> @.revision + 1]]
  /\ recording' = [recording EXCEPT ![r] = "nothing"]
  /\ UNCHANGED <<machine, source, lease, local, worker, lock, mine, archive, pruner, strayPrunes, purge, budget>>

RecorderDies(r) ==
  /\ Locked(r) /\ Spend("faults")
  /\ recording' = [recording EXCEPT ![r] = "nothing"]
  /\ UNCHANGED <<exec, machine, source, lease, local, worker, lock, mine, archive, pruner, strayPrunes, purge>>

\* purge-run without artifacts, and the clean-up of stopped records.
DropRecord(r) ==
  /\ r \in Dropped /\ Status(r) \in {"failed", "stopped"} /\ purge[r] = "no"
  /\ exec' = [exec EXCEPT ![r].status = "absent"]
  /\ UNCHANGED <<recording, machine, source, lease, local, worker, lock, mine, archive, pruner, strayPrunes, purge, budget>>

Configure ==
  /\ Spend("configs")
  /\ \E c \in {"none", "paused", "on"} \ {config} : config' = c
  /\ UNCHANGED <<record, machine, source, lease, pending, completed, worker, lock, mine, archive, pruner, strayPrunes, purge>>

(***************************************************************************)
(* The worker.  It holds its lock from the listing of pending to the end   *)
(* of the pass, all transfers included.                                    *)
(***************************************************************************)
Pending == {r \in Runs : pending[r] # NoIntent}
Unpruned == \E r \in Runs : completed[r] # NoReceipt /\ ~completed[r].deleted

Work(new) == worker' = new
Elsewhere == <<record, machine, source, lease, config, pruner, strayPrunes, purge>>

\* Asked for by the dispatcher loop, status and configuration.
EnsureWorker ==
  /\ worker.pc = "none"
  /\ config = "on" /\ (Pending # {} \/ Unpruned)
  /\ Work([NoWorker EXCEPT !.pc = "load"])
  /\ UNCHANGED <<Elsewhere, pending, completed, lock, mine, archive, budget>>

LoadConfig ==
  /\ worker.pc = "load"
  /\ CASE config = "none" -> Work(NoWorker)
       [] config = "paused" -> Work([worker EXCEPT !.pc = "decide", !.again = Pending # {}])
       [] config = "on" -> Work([worker EXCEPT !.pc = "lock"])
  /\ UNCHANGED <<Elsewhere, pending, completed, lock, mine, archive, budget>>

ListPending ==
  /\ worker.pc = "lock" /\ lock = "free"
  /\ lock' = "worker"
  /\ Work([worker EXCEPT !.pc = "pick", !.todo = Pending])
  /\ UNCHANGED <<Elsewhere, pending, completed, mine, archive, budget>>

\* Mutant of Transferable: intents are not compared with the records.
TransferableUnchecked(r) == Status(r) # "absent"

\* The record is there, terminal, and of the status that the intent states.
Transferable(r) == Status(r) = pending[r].status

Invoke ==
  /\ worker.pc = "pick"
  /\ \E r \in worker.todo :
       IF Transferable(r)
         THEN Work([worker EXCEPT !.pc = "wait", !.run = r, !.todo = @ \ {r}]) /\ mine' = "waiting"
         ELSE Work([worker EXCEPT !.todo = @ \ {r}]) /\ UNCHANGED mine
  /\ UNCHANGED <<Elsewhere, pending, completed, lock, archive, budget>>

Answered ==
  /\ worker.pc = "wait" /\ mine \in {"ok", "failed"}
  /\ Work([worker EXCEPT !.pc = IF mine = "ok" THEN "complete" ELSE "pick"])
  /\ mine' = "none"
  /\ UNCHANGED <<Elsewhere, pending, completed, lock, archive, budget>>

\* The hard timeout: the program on the archive goes on by itself.
AnswerLost ==
  /\ worker.pc = "wait" /\ mine \in {"waiting", "active"} /\ Spend("faults")
  /\ strays' = IF mine = "waiting" THEN [strays EXCEPT ![worker.run] = @ + 1] ELSE strays
  /\ active' = IF mine = "active" THEN [active EXCEPT !.mine = FALSE] ELSE active
  /\ mine' = "none"
  /\ Work([worker EXCEPT !.pc = "pick"])
  /\ UNCHANGED <<Elsewhere, pending, completed, lock, stage, artifact>>

CompleteIntent ==
  /\ worker.pc = "complete"
  /\ completed' = [completed EXCEPT ![worker.run] = [status |-> pending[worker.run].status, deleted |-> FALSE]]
  /\ Work([worker EXCEPT !.pc = "unlink"])
  /\ UNCHANGED <<Elsewhere, pending, lock, mine, archive, budget>>

UnlinkIntent ==
  /\ worker.pc = "unlink"
  /\ pending' = [pending EXCEPT ![worker.run] = NoIntent]
  /\ Work([worker EXCEPT !.pc = "pick"])
  /\ UNCHANGED <<Elsewhere, completed, lock, mine, archive, budget>>

EndPass ==
  /\ worker.pc = "pick" /\ worker.todo = {}
  /\ lock' = "free"
  /\ Work([worker EXCEPT !.pc = "prune", !.run = NoRun, !.again = Pending # {}])
  /\ UNCHANGED <<Elsewhere, pending, completed, mine, archive, budget>>

\* The session ends when nothing is pending and nothing is left to prune.
Decide ==
  /\ worker.pc = "decide" /\ pruner["worker"].pc = "idle"
  /\ Work(IF worker.again \/ (config = "on" /\ Unpruned)
            THEN [NoWorker EXCEPT !.pc = "sleep"] ELSE NoWorker)
  /\ UNCHANGED <<Elsewhere, pending, completed, lock, mine, archive, budget>>

Wake ==
  /\ worker.pc = "sleep"
  /\ Work([NoWorker EXCEPT !.pc = "load"])
  /\ UNCHANGED <<Elsewhere, pending, completed, lock, mine, archive, budget>>

\* The session dies, its transfer goes on, its prune does not.
WorkerDies ==
  /\ worker.pc # "none" /\ Spend("faults")
  /\ pruner["worker"].pc = "remote" => pruner["worker"].run \in Unanswered
  /\ Work(NoWorker)
  /\ lock' = IF lock = "worker" THEN "free" ELSE lock
  /\ strays' = IF mine = "waiting" THEN [strays EXCEPT ![worker.run] = @ + 1] ELSE strays
  /\ active' = [active EXCEPT !.mine = FALSE]
  /\ mine' = "none"
  /\ pruner' = [pruner EXCEPT !["worker"] = NoPruner]
  /\ strayPrunes' = strayPrunes \cup {r \in Runs : pruner["worker"].pc = "remote" /\ pruner["worker"].run = r}
  /\ UNCHANGED <<record, machine, source, lease, local, stage, artifact, purge>>

(***************************************************************************)
(* The program on the archive (sync_payload), one at a time under a lock.  *)
(***************************************************************************)
Here == <<record, machine, source, lease, local, worker, lock, pruner, strayPrunes, purge>>

\* What the program answers reaches whoever still waits for it.
Answer(isMine, what) == mine' = IF isMine THEN what ELSE mine

\* Mutant of Take: an artifact that is there already is refused.
TakeOnce(r, isMine) ==
  /\ active = NoProgram
  /\ IF source[r] = "none" \/ artifact[r] # "none"
       THEN Answer(isMine, "failed") /\ UNCHANGED active
       ELSE /\ active' = [run |-> r, mine |-> isMine, copied |-> FALSE]
            /\ Answer(isMine, "active")
  /\ UNCHANGED <<Here, stage, artifact, budget>>

\* Without a source it fails; an artifact that is there is only verified.
Take(r, isMine) ==
  /\ active = NoProgram
  /\ IF source[r] = "none" \/ artifact[r] # "none"
       THEN /\ Answer(isMine, IF source[r] # "none" /\ artifact[r] = source[r] THEN "ok" ELSE "failed")
            /\ UNCHANGED active
       ELSE /\ active' = [run |-> r, mine |-> isMine, copied |-> FALSE]
            /\ Answer(isMine, "active")
  /\ UNCHANGED <<Here, stage, artifact, budget>>

TakeMine == mine = "waiting" /\ Take(worker.run, TRUE) /\ UNCHANGED strays
TakeStray(r) == strays[r] > 0 /\ Take(r, FALSE) /\ strays' = [strays EXCEPT ![r] = @ - 1]

Copy ==
  LET r == active.run IN
  /\ active # NoProgram /\ ~active.copied
  /\ IF source[r] = "none"
       THEN active' = NoProgram /\ Answer(active.mine, "failed") /\ UNCHANGED stage
       ELSE active' = [active EXCEPT !.copied = TRUE] /\ stage' = [stage EXCEPT ![r] = source[r]] /\ UNCHANGED mine
  /\ UNCHANGED <<Here, strays, artifact, budget>>

TransferFails ==
  /\ active # NoProgram /\ Spend("faults")
  /\ active' = NoProgram
  /\ Answer(active.mine, "failed")
  /\ UNCHANGED <<Here, strays, stage, artifact>>

\* The verified staging directory is renamed, and the receipt written.
Verify ==
  LET r == active.run IN
  /\ active.copied
  /\ active' = NoProgram
  /\ IF source[r] = stage[r]
       THEN /\ artifact' = [artifact EXCEPT ![r] = stage[r]]
            /\ stage' = [stage EXCEPT ![r] = "none"]
            /\ Answer(active.mine, "ok")
       ELSE Answer(active.mine, "failed") /\ UNCHANGED <<stage, artifact>>
  /\ UNCHANGED <<Here, strays, budget>>

(***************************************************************************)
(* prune-outputs: of the receipts it lists at its beginning, one by one    *)
(* under a maintenance lease.                                              *)
(***************************************************************************)
Aside == <<record, machine, config, pending, worker, mine, archive, purge>>
Prunes(p, new) == pruner' = [pruner EXCEPT ![p] = new]
At(p, pc) == pruner[p].pc = pc

Candidate(r) == completed[r] # NoReceipt /\ Ended(r) /\ completed[r].status = Status(r)

\* Mutant of Blocked: outputs that overlap do not matter.
NeverBlocked(r, gone) == FALSE

\* The output path overlaps that of another record whose output is still there.
Blocked(r, gone) ==
  \E s \in Runs \ (gone \cup {r}) : Status(s) # "absent" /\ (s \in Nested[r] \/ r \in Nested[s])

BeginPrune(p) ==
  LET gone == {r \in Runs : Candidate(r) /\ completed[r].deleted}
      todo == {r \in Runs : Candidate(r) /\ ~completed[r].deleted /\ ~Blocked(r, gone)}
  IN Prunes(p, IF todo = {} THEN NoPruner ELSE [NoPruner EXCEPT !.pc = "next", !.todo = todo, !.gone = gone])

OperatorPrunes ==
  /\ At("operator", "idle")
  /\ BeginPrune("operator")
  /\ UNCHANGED <<Aside, completed, lock, lease, source, strayPrunes, budget>>

\* The worker prunes between its pass and its decision.
WorkerPrunes ==
  /\ worker.pc = "prune"
  /\ Work([worker EXCEPT !.pc = "decide"])
  /\ IF config = "on" THEN BeginPrune("worker") ELSE UNCHANGED pruner
  /\ UNCHANGED <<record, machine, local, mine, archive, purge, lock, lease, source, strayPrunes, budget>>

PruneNext(p) ==
  /\ At(p, "next")
  /\ \/ pruner[p].todo = {} /\ Prunes(p, NoPruner) /\ UNCHANGED lease
     \/ \E r \in pruner[p].todo :
          LET rest == [pruner[p] EXCEPT !.todo = @ \ {r}] IN
          IF lease = "free"
            THEN Prunes(p, [rest EXCEPT !.pc = "check", !.run = r]) /\ lease' = "maintenance"
            ELSE Prunes(p, rest) /\ UNCHANGED lease
  /\ UNCHANGED <<Aside, completed, lock, source, strayPrunes, budget>>

PruneCheck(p) ==
  LET r == pruner[p].run IN
  /\ At(p, "check")
  /\ Prunes(p, [pruner[p] EXCEPT !.pc = IF Ended(r) /\ ~Blocked(r, pruner[p].gone) THEN "remote" ELSE "release"])
  /\ UNCHANGED <<Aside, completed, lock, lease, source, strayPrunes, budget>>

Deletes(r) == source' = [s \in Runs |-> IF s = r \/ s \in Nested[r] THEN "none" ELSE source[s]]

PruneRemote(p) ==
  /\ At(p, "remote")
  /\ Deletes(pruner[p].run)
  /\ Prunes(p, [pruner[p] EXCEPT !.pc = "record"])
  /\ UNCHANGED <<Aside, completed, lock, lease, strayPrunes, budget>>

PruneLost(p) ==
  /\ At(p, "remote") /\ pruner[p].run \in Unanswered /\ Spend("faults")
  /\ strayPrunes' = strayPrunes \cup {pruner[p].run}
  /\ Prunes(p, [pruner[p] EXCEPT !.pc = "release"])
  /\ UNCHANGED <<Aside, completed, lock, lease, source>>

StrayDeletes(r) ==
  /\ r \in strayPrunes
  /\ Deletes(r)
  /\ strayPrunes' = strayPrunes \ {r}
  /\ UNCHANGED <<Aside, completed, lock, lease, pruner, budget>>

\* record_source_output_deletion, under the worker lock.
PruneRecord(p) ==
  LET r == pruner[p].run IN
  /\ At(p, "record") /\ lock = "free"
  /\ completed' = IF completed[r] = NoReceipt THEN completed ELSE [completed EXCEPT ![r].deleted = TRUE]
  /\ Prunes(p, [pruner[p] EXCEPT !.pc = "release"])
  /\ UNCHANGED <<Aside, lock, lease, source, strayPrunes, budget>>

PruneRelease(p) ==
  /\ At(p, "release")
  /\ lease' = "free"
  /\ Prunes(p, [pruner[p] EXCEPT !.pc = "next", !.run = NoRun])
  /\ UNCHANGED <<Aside, completed, lock, source, strayPrunes, budget>>

\* The maintenance lease of a prune that died runs out.
ExpireLease ==
  /\ lease = "maintenance" /\ \A p \in Pruners : pruner[p].run = NoRun
  /\ lease' = "free"
  /\ UNCHANGED <<Aside, completed, lock, source, strayPrunes, pruner, budget>>

(***************************************************************************)
(* A purge with artifacts: the record, the copies on the archive, the      *)
(* files of the controller, the source.                                    *)
(***************************************************************************)
Beyond == <<recording, machine, config, worker, mine, strays, active, pruner, strayPrunes, budget>>
Purges(r, from, to) == purge[r] = from /\ purge' = [purge EXCEPT ![r] = to]

PurgeRecord(r) ==
  /\ Ended(r) /\ Purges(r, "no", "staged")
  /\ exec' = [exec EXCEPT ![r].status = "absent"]
  /\ UNCHANGED <<Beyond, source, lease, pending, completed, lock, stage, artifact>>

PurgeSync(r) ==
  /\ Purges(r, "staged", IF r \in Pending \/ completed[r] # NoReceipt THEN "archive" ELSE "local")
  /\ lock = "free" /\ lock' = "purge"
  /\ UNCHANGED <<Beyond, exec, source, lease, pending, completed, stage, artifact>>

PurgeArchive(r) ==
  /\ Purges(r, "archive", "local")
  /\ active = NoProgram
  /\ stage' = [stage EXCEPT ![r] = "none"]
  /\ artifact' = [artifact EXCEPT ![r] = "none"]
  /\ UNCHANGED <<Beyond, exec, source, lease, pending, completed, lock>>

PurgeLocal(r) ==
  /\ Purges(r, "local", "source")
  /\ pending' = [pending EXCEPT ![r] = NoIntent]
  /\ completed' = [completed EXCEPT ![r] = NoReceipt]
  /\ lock' = "free"
  /\ UNCHANGED <<Beyond, exec, source, lease, stage, artifact>>

PurgeSource(r) ==
  /\ Purges(r, "source", "done")
  /\ lease = "free"
  /\ source' = [source EXCEPT ![r] = "none"]
  /\ UNCHANGED <<Beyond, exec, lease, pending, completed, lock, stage, artifact>>

(***************************************************************************)
(* Specification                                                           *)
(***************************************************************************)
WorkerStep ==
  LoadConfig \/ ListPending \/ Invoke \/ Answered \/ CompleteIntent \/ UnlinkIntent \/ EndPass
  \/ WorkerPrunes \/ Decide \/ Wake
PruneStep(p) == PruneNext(p) \/ PruneCheck(p) \/ PruneRemote(p) \/ PruneRecord(p) \/ PruneRelease(p)
PurgeStep(r) == PurgeSync(r) \/ PurgeArchive(r) \/ PurgeLocal(r) \/ PurgeSource(r)
ArchiveStep == TakeMine \/ (\E r \in Runs : TakeStray(r)) \/ Copy \/ Verify

Next ==
  \/ \E r \in Runs :
       \/ Register(r) \/ Bootstrap(r) \/ Finish(r) \/ LaunchFails(r) \/ LaunchAborted(r)
       \/ Stop(r) \/ Monitor(r) \/ Touch(r) \/ EndRecord(r) \/ RecorderDies(r) \/ DropRecord(r)
       \/ PurgeRecord(r) \/ PurgeStep(r) \/ StrayDeletes(r)
  \/ Configure \/ EnsureWorker \/ WorkerStep \/ AnswerLost \/ WorkerDies
  \/ ArchiveStep \/ TransferFails
  \/ OperatorPrunes \/ (\E p \in Pruners : PruneStep(p) \/ PruneLost(p)) \/ ExpireLease

Spec == Init /\ [][Next]_vars

\* Controller commands and programs on the archive end; the dispatcher loop and
\* clients that ask for the status keep calling for a worker; the worker sleeps
\* for a bounded time.
FairSpec ==
  /\ Spec
  /\ WF_vars(EnsureWorker) /\ WF_vars(WorkerStep) /\ WF_vars(ArchiveStep) /\ WF_vars(ExpireLease)
  /\ \A p \in Pruners : WF_vars(PruneStep(p))
  /\ \A r \in Runs :
       WF_vars(Monitor(r)) /\ WF_vars(EndRecord(r)) /\ WF_vars(PurgeStep(r)) /\ WF_vars(LaunchAborted(r))

(***************************************************************************)
(* Properties                                                              *)
(***************************************************************************)

\* A receipt is true: the archive holds the finished output, not a stage of it, and
\* the receipt states the outcome that is on record; unless somebody is purging it.
ReceiptIsTrue ==
  \A r \in Runs : completed[r] # NoReceipt /\ purge[r] = "no" =>
    /\ artifact[r] = "final"
    /\ Ended(r) => completed[r].status = Status(r)

\* Every intent of an ended run is brought into the archive, whatever dies, fails or
\* hangs on the way, as long as the synchronisation stays configured, the record
\* agrees with the intent and there is an output.
IntentIsArchived ==
  \A r \in Runs :
    r \in Pending /\ Ended(r) ~> r \notin Pending \/ ~Transferable(r) \/ source[r] = "none" \/ config # "on"

\* Outputs that lie in the tree of another run's and that its prune does not look
\* out for: their record is gone, so that nobody knows of them, or the prune is past
\* its checks and goes on alone, its lease expired.
Exposed == {r \in Runs : \E s \in Runs : r \in Nested[s] /\ (Status(r) = "absent" \/ s \in strayPrunes)}

\* No output is lost but by a purge or, before it is archived, where it is exposed:
\* what the components do to it is what OutputCustody allows.
Custodian == INSTANCE OutputCustody WITH
  copies <- [r \in Runs |-> {p \in {"source", "archive"} :
                               (IF p = "source" THEN source[r] ELSE artifact[r]) = "final"}],
  condemned <- {r \in Runs : purge[r] # "no"},
  unguarded <- Exposed
NothingIsLost == Custodian!Custody
=============================================================================
