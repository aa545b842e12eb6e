----------------------------- MODULE Retirement -----------------------------
(***************************************************************************)
(* The retirement of one server: an operator's command drains its machine, *)
(* assesses every project of the controller, and then takes away, file by  *)
(* file and host by host, what connects the server.  No lock is held over  *)
(* these steps, while dispatchers, monitors, output synchronisation and    *)
(* other clients go on.  Dispatch looks at leases and launches closely;    *)
(* here they are as coarse as the assessment can see them.                 *)
(***************************************************************************)
EXTENDS Naturals, FiniteSets

CONSTANTS
  Runs, NoRun,
  Projects,
  ProjectOf,     \* run -> its project
  Archiving,     \* projects whose output is kept, and synchronised through the archive
  Aliased,       \* projects that know the machine under another name than the retired server's
  Placings,      \* bound: the sets of servers that jobs are made eligible on
  MaxFaults,     \* bound: deaths, lost answers, launches of unknown outcome, outages
  MaxEdits       \* bound: what other clients change: configuration files, the placement of jobs, the drain

Servers == {"here", "there"}   \* the server to retire, and all others
Files == {"registry", "project"}
Terminal == {"succeeded", "failed", "stopped"}
LiveStatuses == {"registered", "running"}

ASSUME RetirementAssumptions ==
  /\ NoRun \notin Runs /\ Projects # {} /\ ProjectOf \in [Runs -> Projects]
  /\ Archiving \subseteq Projects /\ Aliased \subseteq Projects
  /\ Placings \subseteq (SUBSET Servers) \ {{}}
  /\ {MaxFaults, MaxEdits} \subseteq Nat

VARIABLES
  queue,     \* run -> status of its queue entry
  eligible,  \* run -> the servers it may be dispatched to
  thread,    \* run -> the dispatcher's work on it, for a dispatch to this server
  lease,     \* the run with the lease of the machine
  exec,      \* run -> status of its execution record on this server
  process,   \* run -> its workload on this server
  sync,      \* run -> what the output-sync files say of it
  machine,   \* "up", "down" or "destroyed"
  drained,   \* whether the machine is drained
  file,      \* file -> whether it lists the server, and how often others have edited it
  archive,   \* the source alias on the archive host, and whether the server authorises its key
  retirer,   \* the retirement: where it stands, what it has read
  closer,    \* the run that is being closed as decommissioned
  resumed,   \* history: whether somebody resumed the server after the last drain of a retirement
  late,      \* history: files edited while the retirement in hand would not notice
  lenient,   \* history: whether some retirement was told to allow an unreachable server
  torn,      \* history: jobs whose edit a dispatcher that planned them has seen half of
  budget

jobs == <<queue, eligible, thread, lease>>
records == <<exec, process, sync>>
links == <<file, archive>>
history == <<resumed, late, lenient, torn>>
vars == <<jobs, records, machine, drained, links, retirer, closer, history, budget>>

RetirerPcs == {"idle", "loaded", "drain", "probe", "list", "queue", "exec", "inspect", "revoke",
               "clean", "check", "registry", "project"}
Bounded == {"faults", "edits"}
FileStates == [listed: BOOLEAN, edits: Nat]
ArchiveStates == [alias: BOOLEAN, authorised: BOOLEAN, edits: Nat]
RetirerStates == [pc: RetirerPcs, allow: BOOLEAN, proposal: [Files -> Nat], known: [Files -> Nat],
                  digest: Nat, todo: SUBSET Projects, left: SUBSET Runs]
NoRetirer == [pc |-> "idle", allow |-> FALSE, proposal |-> [f \in Files |-> 0],
              known |-> [f \in Files |-> 0], digest |-> 0, todo |-> {}, left |-> {}]

TypeOK ==
  /\ queue \in [Runs -> {"absent", "queued", "dispatching", "dispatched", "failed", "stopped"}]
  /\ eligible \in [Runs -> SUBSET Servers]
  /\ thread \in [Runs -> {"idle", "reading", "leased", "stale", "marked", "registered", "failing", "launched"}]
  /\ lease \in Runs \cup {NoRun}
  /\ exec \in [Runs -> {"none"} \cup LiveStatuses \cup Terminal]
  /\ process \in [Runs -> {"none", "alive", "succeeded", "failed"}]
  /\ sync \in [Runs -> {"not_enqueued", "pending", "completed"}]
  /\ machine \in {"up", "down", "destroyed"} /\ drained \in BOOLEAN
  /\ file \in [Files -> FileStates] /\ archive \in ArchiveStates
  /\ retirer \in RetirerStates
  /\ closer \in Runs \cup {NoRun}
  /\ resumed \in BOOLEAN /\ late \subseteq Files /\ lenient \in BOOLEAN /\ torn \subseteq Runs
  /\ budget \in [Bounded -> Nat]
  /\ \A r \in Runs : thread[r] \notin {"idle", "reading"} => lease = r

Init ==
  /\ queue = [r \in Runs |-> "absent"]
  /\ eligible = [r \in Runs |-> {}]
  /\ thread = [r \in Runs |-> "idle"]
  /\ lease = NoRun
  /\ exec = [r \in Runs |-> "none"]
  /\ process = [r \in Runs |-> "none"]
  /\ sync = [r \in Runs |-> "not_enqueued"]
  /\ machine = "up" /\ drained = FALSE
  /\ file = [f \in Files |-> [listed |-> TRUE, edits |-> 0]]
  /\ archive = [alias |-> TRUE, authorised |-> TRUE, edits |-> 0]
  /\ retirer = NoRetirer
  /\ closer = NoRun
  /\ resumed = FALSE /\ late = {} /\ lenient = FALSE /\ torn = {}
  /\ budget = [faults |-> MaxFaults, edits |-> MaxEdits]

Spend(what) == budget[what] > 0 /\ budget' = [budget EXCEPT ![what] = @ - 1]
Goto(r, pc) == thread' = [thread EXCEPT ![r] = pc]
SetQueue(r, status) == queue' = [queue EXCEPT ![r] = status]
Reachable == machine = "up"
Listed == \A f \in Files : file[f].listed
Aside == <<machine, drained, links, retirer, closer, history>>

\* update_current_state: the intent to synchronise the output of a run is written before its end is.
Ends(r, status) ==
  /\ ProjectOf[r] \in Archiving => sync[r] # "not_enqueued"
  /\ exec' = [exec EXCEPT ![r] = status]

\* Whoever finds that a run ends may die before its end is recorded.
Enqueue(r) ==
  /\ ProjectOf[r] \in Archiving /\ exec[r] \in LiveStatuses /\ sync[r] = "not_enqueued"
  /\ thread[r] = "registered" \/ Reachable
  /\ sync' = [sync EXCEPT ![r] = "pending"]
  /\ UNCHANGED <<jobs, exec, process, Aside, budget>>

(***************************************************************************)
(* Jobs and their dispatch.                                                *)
(***************************************************************************)
Submit(r) ==
  /\ queue[r] = "absent" /\ SetQueue(r, "queued")
  /\ eligible' \in {[eligible EXCEPT ![r] = on] : on \in Placings}
  /\ UNCHANGED <<thread, lease, records, Aside, budget>>

Unedited == <<queue, lease, records, machine, drained, links, retirer, closer, resumed, late, lenient>>
Places(r) == queue[r] = "queued" /\ eligible' \in {[eligible EXCEPT ![r] = on] : on \in Placings}

\* An edit raises the revision of a job: whoever has planned it finds a conflict, but
\* not who has read job.yaml before it and reads state.yaml after it.
Edit(r) ==
  /\ Places(r) /\ Spend("edits")
  /\ thread' = [thread EXCEPT ![r] = IF @ = "leased" THEN "stale" ELSE @]
  /\ torn' = torn \cup {s \in {r} : thread[s] = "reading"}
  /\ UNCHANGED Unedited

\* The editor dies after job.yaml and before state.yaml: the revision stays.
EditDies(r) ==
  /\ Places(r)
  /\ budget["edits"] > 0 /\ budget["faults"] > 0
  /\ budget' = [budget EXCEPT !["edits"] = @ - 1, !["faults"] = @ - 1]
  /\ torn' = torn \cup {s \in {r} : thread[s] \in {"reading", "leased"}}
  /\ UNCHANGED <<thread, Unedited>>

StopQueued(r) ==
  /\ queue[r] = "queued" /\ SetQueue(r, "stopped")
  /\ thread' = [thread EXCEPT ![r] = IF @ = "leased" THEN "stale" ELSE @]
  /\ UNCHANGED <<eligible, lease, records, Aside, budget>>

DispatchElsewhere(r) ==
  /\ queue[r] = "queued" /\ "there" \in eligible[r] /\ thread[r] = "idle"
  /\ SetQueue(r, "dispatched")
  /\ UNCHANGED <<eligible, thread, lease, records, Aside, budget>>

\* load_job reads job.yaml, and with the next action state.yaml.
ReadPlacement(r) ==
  /\ queue[r] = "queued" /\ "here" \in eligible[r] /\ thread[r] = "idle"
  /\ Goto(r, "reading")
  /\ UNCHANGED <<queue, eligible, lease, records, Aside, budget>>

\* Another server is chosen, the job is no longer queued, or the lease is refused.
PlanNothing(r) ==
  /\ thread[r] = "reading" /\ Goto(r, "idle")
  /\ UNCHANGED <<queue, eligible, lease, records, Aside, budget>>

\* acquire_dispatch_lease refuses drained machines.
Acquire(r) ==
  /\ thread[r] = "reading" /\ queue[r] = "queued"
  /\ ~drained /\ lease \in {NoRun, r} /\ machine = "up"
  /\ lease' = r /\ Goto(r, "leased")
  /\ UNCHANGED <<queue, eligible, records, Aside, budget>>

\* Mutant of Mark: the revision that was planned is not compared.
MarkUnchecked(r) ==
  /\ thread[r] \in {"leased", "stale"} /\ queue[r] = "queued"
  /\ SetQueue(r, "dispatching") /\ Goto(r, "marked")
  /\ UNCHANGED <<eligible, lease, records, Aside, budget>>

Mark(r) ==
  /\ thread[r] = "leased"
  /\ SetQueue(r, "dispatching") /\ Goto(r, "marked")
  /\ UNCHANGED <<eligible, lease, records, Aside, budget>>

MarkConflicts(r) ==
  /\ thread[r] = "stale"
  /\ lease' = NoRun /\ Goto(r, "idle")
  /\ UNCHANGED <<queue, eligible, records, Aside, budget>>

Register(r) ==
  /\ thread[r] = "marked"
  /\ exec' = [exec EXCEPT ![r] = "registered"] /\ Goto(r, "registered")
  /\ UNCHANGED <<queue, eligible, lease, process, sync, Aside, budget>>

Launch(r) ==
  /\ thread[r] = "registered" /\ Reachable
  /\ process' = [process EXCEPT ![r] = "alive"]
  /\ exec' = [exec EXCEPT ![r] = "running"] /\ Goto(r, "launched")
  /\ UNCHANGED <<queue, eligible, lease, sync, Aside, budget>>

\* The lease is kept until somebody has seen the run.
LaunchUnknown(r) ==
  /\ thread[r] = "registered" /\ Spend("faults")
  /\ process' \in {process, [process EXCEPT ![r] = IF Reachable THEN "alive" ELSE @]}
  /\ SetQueue(r, "dispatched") /\ Goto(r, "idle")
  /\ UNCHANGED <<eligible, lease, exec, sync, Aside>>

LaunchFails(r) ==
  /\ thread[r] = "registered"
  /\ Ends(r, "failed") /\ Goto(r, "failing")
  /\ UNCHANGED <<queue, eligible, lease, process, sync, Aside, budget>>

EndDispatch(r) ==
  /\ thread[r] \in {"marked", "failing", "launched"}
  /\ SetQueue(r, IF thread[r] = "launched" THEN "dispatched" ELSE "failed")
  /\ Goto(r, "idle") /\ lease' = NoRun
  /\ UNCHANGED <<eligible, records, Aside, budget>>

DispatcherDies ==
  /\ \E r \in Runs : thread[r] # "idle"
  /\ Spend("faults")
  /\ thread' = [r \in Runs |-> "idle"]
  /\ UNCHANGED <<queue, eligible, lease, records, Aside>>

\* To take over the lease of an interrupted dispatch is refused on a drained machine.
Recover(r) ==
  /\ queue[r] = "dispatching" /\ thread[r] = "idle"
  /\ \/ exec[r] # "none" /\ SetQueue(r, "dispatched") /\ UNCHANGED lease
     \/ exec[r] = "none" /\ lease # r /\ SetQueue(r, "queued") /\ UNCHANGED lease
     \/ exec[r] = "none" /\ lease = r /\ ~drained /\ SetQueue(r, "queued") /\ lease' = NoRun
  /\ UNCHANGED <<eligible, thread, records, Aside, budget>>

\* Mutant of ReconcileLease: also while a dispatcher works under the lease.
ReconcileBusyLease(r) ==
  /\ lease = r
  /\ \/ exec[r] \in Terminal \cup {"running"}
     \/ exec[r] = "registered" /\ Reachable /\ process[r] = "alive"
  /\ lease' = NoRun
  /\ UNCHANGED <<queue, eligible, thread, records, Aside, budget>>

\* _reconcile_owned_dispatch_leases
ReconcileLease(r) ==
  /\ lease = r /\ thread[r] = "idle"
  /\ \/ exec[r] \in Terminal \cup {"running"}
     \/ exec[r] = "registered" /\ Reachable /\ process[r] = "alive"
  /\ lease' = NoRun
  /\ UNCHANGED <<queue, eligible, thread, records, Aside, budget>>

(***************************************************************************)
(* Workloads, and what brings them into the records.                       *)
(***************************************************************************)
ProcessEnds(r) ==
  /\ process[r] = "alive" /\ process' \in {[process EXCEPT ![r] = end] : end \in {"succeeded", "failed"}}
  /\ UNCHANGED <<jobs, exec, sync, Aside, budget>>

Monitor(r) ==
  /\ exec[r] \in LiveStatuses /\ Reachable /\ thread[r] = "idle"
  /\ \/ process[r] \in Terminal /\ Ends(r, process[r])
     \/ process[r] = "alive" /\ exec[r] = "registered" /\ exec' = [exec EXCEPT ![r] = "running"]
  /\ UNCHANGED <<jobs, process, sync, Aside, budget>>

Stop(r) ==
  /\ exec[r] \in LiveStatuses /\ Reachable /\ queue[r] = "dispatched"
  /\ Ends(r, IF process[r] \in Terminal THEN process[r] ELSE "stopped")
  /\ process' = [process EXCEPT ![r] = IF @ = "alive" THEN "none" ELSE @]
  /\ UNCHANGED <<jobs, sync, Aside, budget>>

\* The archive host pulls the output, with the key of the server's alias.
Pull(r) ==
  /\ sync[r] = "pending" /\ Reachable /\ archive.alias /\ archive.authorised
  /\ sync' = [sync EXCEPT ![r] = "completed"]
  /\ UNCHANGED <<jobs, exec, process, Aside, budget>>

MachineChanges ==
  /\ \/ machine = "up" /\ machine' \in {"down", "destroyed"} /\ Spend("faults")
     \/ machine = "down" /\ machine' = "up" /\ UNCHANGED budget
  /\ process' = IF machine' = "destroyed" THEN [r \in Runs |-> "none"] ELSE process
  /\ UNCHANGED <<jobs, exec, sync, drained, links, retirer, closer, history>>

(***************************************************************************)
(* close-decommissioned-run, once the operator knows of the destruction:   *)
(* inspected, then applied under the scheduler lock and the run lock.      *)
(***************************************************************************)
Closable(r) ==
  /\ machine = "destroyed" /\ exec[r] \in LiveStatuses
  /\ lease = NoRun
  /\ ProjectOf[r] \notin Archiving /\ sync[r] = "not_enqueued"

InspectClosure(r) ==
  /\ closer = NoRun /\ queue[r] = "dispatched" /\ Closable(r)
  /\ closer' = r
  /\ UNCHANGED <<jobs, records, machine, drained, links, retirer, history, budget>>

ApplyClosure(r) ==
  /\ closer = r /\ closer' = NoRun
  /\ exec' = IF Closable(r) THEN [exec EXCEPT ![r] = "stopped"] ELSE exec
  /\ UNCHANGED <<jobs, process, sync, machine, drained, links, retirer, history, budget>>

(***************************************************************************)
(* Other clients at the configuration.                                     *)
(***************************************************************************)
ResumeServer ==
  /\ drained /\ Listed /\ Spend("edits")
  /\ drained' = FALSE /\ resumed' = TRUE
  /\ UNCHANGED <<jobs, records, machine, links, retirer, closer, late, lenient, torn>>

EditFile(f) ==
  /\ Spend("edits")
  /\ file' = [file EXCEPT ![f].edits = @ + 1]
  /\ late' = IF retirer.pc \in {"loaded", "registry", "project"} THEN late \cup {f} ELSE late
  /\ UNCHANGED <<jobs, records, machine, drained, archive, retirer, closer, resumed, lenient, torn>>

EditArchive ==
  /\ Spend("edits")
  /\ archive' = [archive EXCEPT !.edits = @ + 1]
  /\ UNCHANGED <<jobs, records, machine, drained, file, retirer, closer, history>>

(***************************************************************************)
(* The retirement.  Its first assessment, before anything is changed, only *)
(* decides whether to go on; a blocker that the second one finds ends the  *)
(* command, and so does every error.                                       *)
(***************************************************************************)
World == <<jobs, records, machine, closer>>
At(pc) == retirer.pc = pc
Advance(pc) == retirer' = [retirer EXCEPT !.pc = pc]
Abandon == retirer' = NoRetirer
Reads(blocker, pc) ==
  /\ IF blocker THEN Abandon ELSE Advance(pc)
  /\ UNCHANGED <<World, drained, links, history, budget>>

\* _context loads both files, finds the server in each, and derives what is to replace them.
Begin(allow) ==
  /\ At("idle") /\ Listed
  /\ retirer' = [NoRetirer EXCEPT !.pc = "loaded", !.allow = allow, !.proposal = [f \in Files |-> file[f].edits]]
  /\ lenient' = (lenient \/ allow) /\ late' = {}
  /\ UNCHANGED <<World, drained, links, resumed, torn, budget>>

\* What they are compared with later is read after the inspection of ssh and the inventory.
ReadBytes ==
  /\ At("loaded")
  /\ retirer' = [retirer EXCEPT !.pc = "drain", !.known = [f \in Files |-> file[f].edits]]
  /\ UNCHANGED <<World, drained, links, history, budget>>

Drain ==
  /\ At("drain") /\ Advance("probe")
  /\ drained' = TRUE /\ resumed' = FALSE
  /\ UNCHANGED <<World, links, late, lenient, torn, budget>>

Probe ==
  /\ At("probe")
  /\ IF \/ ~Reachable /\ ~retirer.allow
        \/ Reachable /\ \E r \in Runs : process[r] = "alive"
     THEN Abandon ELSE retirer' = [retirer EXCEPT !.pc = "list", !.todo = Projects]
  /\ UNCHANGED <<World, drained, links, history, budget>>

\* The projects are assessed one after the other, in the order of their names.
Assessed == CHOOSE p \in retirer.todo : TRUE
OwnRuns == {r \in Runs : ProjectOf[r] = Assessed}

\* Jobs, rows and intents name servers as their project does; they are compared with the
\* name under which the retiring project knows the machine.
Named(r) == ProjectOf[r] \notin Aliased

ListQueue ==
  /\ At("list")
  /\ retirer' = [retirer EXCEPT !.pc = "queue", !.left = {r \in OwnRuns : queue[r] # "absent"}]
  /\ UNCHANGED <<World, drained, links, history, budget>>

ReadJob(r) ==
  /\ At("queue") /\ r \in retirer.left
  /\ IF queue[r] \in {"queued", "dispatching"} /\ "here" \in eligible[r] /\ Named(r)
     THEN Abandon ELSE retirer' = [retirer EXCEPT !.left = @ \ {r}]
  /\ UNCHANGED <<World, drained, links, history, budget>>

ListRows ==
  /\ At("queue") /\ retirer.left = {}
  /\ retirer' = [retirer EXCEPT !.pc = "exec", !.left = {r \in OwnRuns : exec[r] # "none"}]
  /\ UNCHANGED <<World, drained, links, history, budget>>

\* Output that a failed or stopped run left on the server only asks for attention.
ReadRow(r) ==
  /\ At("exec") /\ r \in retirer.left
  /\ IF /\ Named(r)
        /\ \/ exec[r] \in LiveStatuses
           \/ exec[r] = "succeeded" /\ ProjectOf[r] \in Archiving /\ sync[r] # "completed"
     THEN Abandon ELSE retirer' = [retirer EXCEPT !.left = @ \ {r}]
  /\ UNCHANGED <<World, drained, links, history, budget>>

ReadPending ==
  /\ At("exec") /\ retirer.left = {}
  /\ IF \E r \in OwnRuns : sync[r] = "pending" /\ Named(r) THEN Abandon
     ELSE retirer' = [retirer EXCEPT !.todo = @ \ {Assessed},
                                     !.pc = IF retirer.todo = {Assessed} THEN "inspect" ELSE "list"]
  /\ UNCHANGED <<World, drained, links, history, budget>>

\* The inspection of the archive host: its state's digest, and the public key of the alias.
InspectArchive ==
  /\ At("inspect")
  /\ retirer' = [retirer EXCEPT !.pc = "revoke", !.digest = archive.edits]
  /\ UNCHANGED <<World, drained, links, history, budget>>

\* Mutant of Revoke: the private key is to be removed anyway.
RevokeLater ==
  /\ At("revoke") /\ Advance("clean")
  /\ UNCHANGED <<World, drained, links, history, budget>>

\* _revoke_source_keys; its ssh may also fail after the key has gone.
Revoke ==
  /\ At("revoke")
  /\ \/ ~archive.alias /\ Advance("clean") /\ UNCHANGED <<archive, budget>>
     \/ /\ archive.alias /\ Reachable /\ archive' = [archive EXCEPT !.authorised = FALSE]
        /\ \/ Advance("clean") /\ UNCHANGED budget
           \/ ~retirer.allow /\ Abandon /\ Spend("faults")
     \/ /\ archive.alias /\ ~Reachable /\ UNCHANGED <<archive, budget>>
        /\ IF retirer.allow THEN Advance("clean") ELSE Abandon
  /\ UNCHANGED <<World, drained, file, history>>

\* The archive host compares its state with the digest; its answer may be lost.
CleanArchive ==
  /\ At("clean")
  /\ IF archive.edits # retirer.digest
     THEN Abandon /\ UNCHANGED <<archive, budget>>
     ELSE /\ archive' = [archive EXCEPT !.alias = FALSE]
          /\ \/ Advance("check") /\ UNCHANGED budget
             \/ Abandon /\ Spend("faults")
  /\ UNCHANGED <<World, drained, file, history>>

\* Mutant of CheckFiles: only the project's own file is compared.
CheckProject ==
  /\ At("check")
  /\ Reads(file["project"].edits # retirer.known["project"], "registry")

\* _unchanged, for both files
CheckFiles ==
  /\ At("check")
  /\ Reads(\E f \in Files : file[f].edits # retirer.known[f], "registry")

ReplaceRegistry ==
  /\ At("registry") /\ Advance("project")
  /\ file' = [file EXCEPT !["registry"].listed = FALSE]
  /\ UNCHANGED <<World, drained, archive, history, budget>>

ReplaceProject ==
  /\ At("project") /\ Abandon
  /\ file' = [file EXCEPT !["project"].listed = FALSE]
  /\ UNCHANGED <<World, drained, archive, history, budget>>

RetirerDies ==
  /\ ~At("idle") /\ Spend("faults") /\ Abandon
  /\ UNCHANGED <<World, drained, links, history>>

-----------------------------------------------------------------------------
Dispatchers ==
  \E r \in Runs :
    \/ DispatchElsewhere(r) \/ ReadPlacement(r) \/ PlanNothing(r) \/ Acquire(r) \/ Mark(r)
    \/ MarkConflicts(r) \/ Register(r) \/ Launch(r) \/ LaunchUnknown(r) \/ LaunchFails(r)
    \/ EndDispatch(r) \/ Recover(r) \/ ReconcileLease(r)
Workloads == MachineChanges \/ \E r \in Runs : ProcessEnds(r) \/ Monitor(r) \/ Enqueue(r) \/ Pull(r)
Closure == \E r \in Runs : InspectClosure(r) \/ ApplyClosure(r)
Retire ==
  \/ ReadBytes \/ Drain \/ Probe \/ ListQueue \/ ListRows \/ ReadPending \/ InspectArchive \/ Revoke
  \/ CleanArchive \/ CheckFiles \/ ReplaceRegistry \/ ReplaceProject
  \/ \E r \in Runs : ReadJob(r) \/ ReadRow(r)
Others ==
  \/ ResumeServer \/ EditArchive \/ RetirerDies \/ DispatcherDies
  \/ \E f \in Files : EditFile(f)
  \/ \E allow \in BOOLEAN : Begin(allow)
  \/ \E r \in Runs : Submit(r) \/ Edit(r) \/ EditDies(r) \/ StopQueued(r) \/ Stop(r)

Next == Dispatchers \/ Workloads \/ Closure \/ Retire \/ Others
Spec == Init /\ [][Next]_vars

\* The dispatcher's loop goes on, and the operator asks for the closure until it is made.
FairSpec ==
  /\ Spec /\ WF_vars(Dispatchers)
  /\ \A r \in Runs : /\ WF_vars(ReconcileLease(r)) /\ WF_vars(EndDispatch(r)) /\ WF_vars(Recover(r))
                      /\ SF_vars(InspectClosure(r)) /\ WF_vars(ApplyClosure(r))

-----------------------------------------------------------------------------
(***************************************************************************)
(* Properties.                                                             *)
(***************************************************************************)
Taking == retirer.pc \in {"inspect", "revoke", "clean", "check", "registry", "project"}
Here(r) == thread[r] \in {"marked", "registered", "failing", "launched"}

\* assess_server_retirement reads queue, records and intents one after the other, beside dispatchers and
\* editors.  Still, unless somebody resumes the server, nothing is taken away from it while a run is on it
\* or on its way to it, or while it has output that is still to be archived.  Not so for the runs of a
\* project that knows the machine under another name, which the assessment does not find, and for a job
\* that was edited between the two files a dispatcher reads of it, or by an editor that died between them.
NothingBehind ==
  Taking /\ ~resumed =>
    \A r \in Runs :
      Named(r) /\ r \notin torn =>
        /\ ~Here(r) /\ exec[r] \notin LiveStatuses /\ sync[r] # "pending"
        /\ exec[r] = "succeeded" /\ ProjectOf[r] \in Archiving => sync[r] = "completed"

\* Wherever a retirement dies, fails or loses an answer, and is tried again: the archive host does not
\* forget the public key while the server still accepts it, unless --allow-unreachable was given.
KeyIsRevoked == archive.alias \/ ~archive.authorised \/ lenient

\* A file is replaced by what was derived from it as it stands, so that nobody's edit is lost, but for
\* edits made after _context has loaded it and before it reads what is to be compared, and for edits
\* between the comparison of both files and the replacement.
OnlyLateEditsLost ==
  [][\A f \in Files : file[f].listed /\ ~file'[f].listed => file[f].edits = retirer.proposal[f] \/ f \in late]_vars

\* references/configuration.md: when the server was destroyed before a run ended, that run is closed with
\* close-decommissioned-run; tests/test_decommissioned_run.py: also one whose launch has an unknown outcome.
DestroyedRunsAreClosed ==
  \A r \in Runs :
    machine = "destroyed" /\ exec[r] \in LiveStatuses /\ ProjectOf[r] \notin Archiving ~> exec[r] \in Terminal
=============================================================================
