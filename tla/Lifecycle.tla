----------------------------- MODULE Lifecycle -----------------------------
(***************************************************************************)
(* How a project's dispatcher comes and goes.  There is no server process: *)
(* the dispatcher runs in a tmux session that controller commands create   *)
(* when they find it missing (ensure_dispatcher), that ends when its loop  *)
(* finds nothing to do, and that the activation of a new release kills.    *)
(*                                                                         *)
(* What a batch does with a job is the subject of module Dispatch; here it *)
(* takes one job from reservation to launch.                               *)
(***************************************************************************)
EXTENDS Naturals

CONSTANTS
  Jobs,
  Editors,      \* clients that submit and edit jobs, one command at a time
  Watchers,     \* clients that ask for the status of jobs
  NoJob,        \* "no job in hand"
  Activates,    \* whether a new release is activated
  Drainable,    \* bound: jobs the machine of whose lease is drained and opened again
  MaxFaults     \* bound: deaths and failures explored

ASSUME LifecycleAssumptions ==
  /\ NoJob \notin Jobs
  /\ Editors \cap Watchers = {}
  /\ Activates \in BOOLEAN
  /\ Drainable \in SUBSET Jobs
  /\ MaxFaults \in Nat

VARIABLES
  job,      \* job -> where its queue entry and record are
  lease,    \* job -> the dispatch lease it holds, the later one if it holds two
  second,   \* jobs that hold another lease, which expired before they took this one
  closed,   \* jobs the machine of whose lease is drained
  loop,     \* the dispatcher in the project's tmux session
  client,   \* command -> what is left of it
  gate,     \* the activation of a release
  current,  \* the release that runner/current points to
  faults    \* deaths and failures so far

leases == <<lease, second, closed>>
vars == <<job, leases, loop, client, gate, current, faults>>

Clients == Editors \cup Watchers

\* "editing": queued with an active placement update; "dropped": its queue entry
\* ended and there is no execution record; "done": its execution record ended.
JobStates == {"unborn", "queued", "editing", "dispatching", "active", "dropped", "done"}
LeaseStates == {"none", "live", "expired"}
LaunchPcs == {"leased", "marked", "started", "notstarted"}
LoopPcs == {"none", "monitor", "batch", "recover", "decide", "returning", "sleep"} \cup LaunchPcs
ClientPcs == {"gone", "editing", "late", "ensure", "start"}

NoLoop == [pc |-> "none", job |-> NoJob, active |-> FALSE, idle |-> FALSE]
NoClient == [pc |-> "gone", job |-> NoJob]

TypeOK ==
  /\ job \in [Jobs -> JobStates]
  /\ lease \in [Jobs -> LeaseStates]
  /\ second \in SUBSET Jobs
  /\ closed \in SUBSET Jobs
  /\ loop \in [pc: LoopPcs, job: Jobs \cup {NoJob}, active: BOOLEAN, idle: BOOLEAN]
  /\ client \in [Clients -> [pc: ClientPcs, job: Jobs \cup {NoJob}]]
  /\ gate \in {"open", "checked", "migrating"}
  /\ current \in {"old", "new"}
  /\ faults \in Nat

Init ==
  /\ job = [j \in Jobs |-> "unborn"]
  /\ lease = [j \in Jobs |-> "none"]
  /\ second = {}
  /\ closed = {}
  /\ loop = NoLoop
  /\ client = [c \in Clients |-> NoClient]
  /\ gate = "open"
  /\ current = "old"
  /\ faults = 0

HasSession == loop.pc # "none"

\* Activation holds the scheduler lock from its check of the leases to its end.
SchedulerLocked == gate # "open"

\* One lease of the job is released; what is left is the older one, if any.
Released(j) ==
  /\ lease' = [lease EXCEPT ![j] = IF j \in second THEN "expired" ELSE "none"]
  /\ second' = second \ {j}
  /\ closed' = closed \ {j}

(***************************************************************************)
(* dispatch_loop                                                           *)
(***************************************************************************)
Monitor ==
  /\ loop.pc = "monitor"
  /\ loop' = [loop EXCEPT !.pc = "batch", !.active = \E j \in Jobs : job[j] = "active"]
  /\ UNCHANGED <<job, leases, client, gate, current, faults>>

\* A cycle that raises is reported and tried again after the interval.
CycleFails ==
  /\ loop.pc \in {"monitor", "batch"}
  /\ faults < MaxFaults
  /\ faults' = faults + 1
  /\ loop' = [loop EXCEPT !.pc = "sleep"]
  /\ UNCHANGED <<job, leases, client, gate, current>>

\* _reconcile_owned_dispatch_leases: the run has left "registered".  A job with two
\* leases is reconciled twice.
ReconcileLease(j) ==
  /\ loop.pc = "batch"
  /\ job[j] \in {"active", "done"}
  /\ lease[j] # "none"
  /\ ~SchedulerLocked
  /\ Released(j)
  /\ UNCHANGED <<job, loop, client, gate, current, faults>>

Dispatching == {j \in Jobs : job[j] = "dispatching"}

\* The lease of an interrupted dispatch cannot be taken over: its machine is drained.
Refused(j) == lease[j] = "expired" /\ j \in closed

\* An interrupted dispatch whose lease is live, or cannot be taken over: nothing is
\* planned this time.
BatchBusy ==
  /\ loop.pc = "batch"
  /\ ~SchedulerLocked
  /\ \E j \in Dispatching :
       lease[j] = "live" \/ (j \notin second /\ Refused(j))
  /\ loop' = [loop EXCEPT !.pc = "decide", !.idle = FALSE]
  /\ UNCHANGED <<job, leases, client, gate, current, faults>>

\* "run ... owns multiple dispatch leases": the cycle fails.
BatchRaises ==
  /\ loop.pc = "batch"
  /\ \E j \in Dispatching : lease[j] # "live" /\ j \in second
  /\ loop' = [loop EXCEPT !.pc = "sleep"]
  /\ UNCHANGED <<job, leases, client, gate, current, faults>>

\* An interrupted dispatch is fenced and unfenced, then put back.
BatchRecover(j) ==
  /\ loop.pc = "batch"
  /\ j \in Dispatching
  /\ lease[j] # "live"
  /\ j \notin second
  /\ ~Refused(j)
  /\ ~SchedulerLocked
  /\ Released(j)
  /\ loop' = [loop EXCEPT !.pc = "recover", !.job = j]
  /\ UNCHANGED <<job, client, gate, current, faults>>

PutBack ==
  /\ loop.pc = "recover"
  /\ job' = [job EXCEPT ![loop.job] = "queued"]
  /\ loop' = [loop EXCEPT !.pc = "batch", !.job = NoJob]
  /\ UNCHANGED <<leases, client, gate, current, faults>>

\* No job is queued: the outcome "idle".
BatchIdle ==
  /\ loop.pc = "batch"
  /\ \A j \in Jobs : job[j] \notin {"dispatching", "queued"}
  /\ loop' = [loop EXCEPT !.pc = "decide", !.idle = TRUE]
  /\ UNCHANGED <<job, leases, client, gate, current, faults>>

\* No machine has room.
BatchWaits ==
  /\ loop.pc = "batch"
  /\ Dispatching = {}
  /\ \E j \in Jobs : job[j] = "queued"
  /\ loop' = [loop EXCEPT !.pc = "decide", !.idle = FALSE]
  /\ UNCHANGED <<job, leases, client, gate, current, faults>>

\* A machine for the job: that of a lease which an earlier, dead dispatcher left,
\* expired, unless it is drained, or another one; the older lease then stays.
Takes(j) ==
  /\ lease' = [lease EXCEPT ![j] = "live"]
  /\ \/ /\ ~Refused(j)
        /\ UNCHANGED <<second, closed>>
     \/ /\ lease[j] = "expired"
        /\ second' = second \cup {j}
        /\ closed' = closed \ {j}

\* Mutant of BatchReserves: the lease file is written without the scheduler lock.
ReservesUnlocked(j) ==
  /\ loop.pc = "batch"
  /\ Dispatching = {}
  /\ job[j] = "queued"
  /\ Takes(j)
  /\ loop' = [loop EXCEPT !.pc = "leased", !.job = j]
  /\ UNCHANGED <<job, client, gate, current, faults>>

BatchReserves(j) ==
  /\ loop.pc = "batch"
  /\ Dispatching = {}
  /\ job[j] = "queued"
  /\ lease[j] # "live"
  /\ ~SchedulerLocked
  /\ Takes(j)
  /\ loop' = [loop EXCEPT !.pc = "leased", !.job = j]
  /\ UNCHANGED <<job, client, gate, current, faults>>

Mark ==
  /\ loop.pc = "leased"
  /\ job[loop.job] = "queued"
  /\ job' = [job EXCEPT ![loop.job] = "dispatching"]
  /\ loop' = [loop EXCEPT !.pc = "marked"]
  /\ UNCHANGED <<leases, client, gate, current, faults>>

\* The job was edited or stopped meanwhile: drop it, with its lease.
MarkConflicts ==
  /\ loop.pc = "leased"
  /\ ~SchedulerLocked
  /\ Released(loop.job)
  /\ loop' = [loop EXCEPT !.pc = "decide", !.job = NoJob, !.idle = FALSE]
  /\ UNCHANGED <<job, client, gate, current, faults>>

Launch ==
  /\ loop.pc = "marked"
  /\ job' = [job EXCEPT ![loop.job] = "active"]
  /\ loop' = [loop EXCEPT !.pc = "started"]
  /\ UNCHANGED <<leases, client, gate, current, faults>>

\* Nobody knows whether the workload runs: it counts as active, and keeps its
\* lease unless a probe sees it.
LaunchUnknown ==
  /\ loop.pc = "marked"
  /\ job' = [job EXCEPT ![loop.job] = "active"]
  /\ \/ loop' = [loop EXCEPT !.pc = "decide", !.job = NoJob, !.idle = FALSE]
     \/ loop' = [loop EXCEPT !.pc = "notstarted"]
  /\ UNCHANGED <<leases, client, gate, current, faults>>

\* A failure, with or without an execution record to end.
LaunchFails ==
  /\ loop.pc = "marked"
  /\ \E state \in {"done", "dropped"} : job' = [job EXCEPT ![loop.job] = state]
  /\ loop' = [loop EXCEPT !.pc = "notstarted"]
  /\ UNCHANGED <<leases, client, gate, current, faults>>

\* After a batch that started something the loop plans another one at once.
ReleaseLease ==
  /\ ~SchedulerLocked
  /\ Released(loop.job)
  /\ \/ /\ loop.pc = "started"
        /\ loop' = [loop EXCEPT !.pc = "batch", !.job = NoJob, !.active = TRUE]
     \/ /\ loop.pc = "notstarted"
        /\ loop' = [loop EXCEPT !.pc = "decide", !.job = NoJob, !.idle = FALSE]
  /\ UNCHANGED <<job, client, gate, current, faults>>

Decide ==
  /\ loop.pc = "decide"
  /\ loop' = [loop EXCEPT !.pc = IF loop.idle /\ ~loop.active THEN "returning" ELSE "sleep"]
  /\ UNCHANGED <<job, leases, client, gate, current, faults>>

\* The process ends, and with it the session that has-session still reported.
Return ==
  /\ loop.pc = "returning"
  /\ loop' = NoLoop
  /\ UNCHANGED <<job, leases, client, gate, current, faults>>

Wake ==
  /\ loop.pc = "sleep"
  /\ loop' = [loop EXCEPT !.pc = "monitor"]
  /\ UNCHANGED <<job, leases, client, gate, current, faults>>

(***************************************************************************)
(* Commands.  Each writes or reads queue entries first, then makes sure    *)
(* that there is a dispatcher; it may die in between.                      *)
(***************************************************************************)
Become(c, pc) == client' = [client EXCEPT ![c] = [NoClient EXCEPT !.pc = pc]]

Submit(c, j) ==
  /\ client[c].pc = "gone"
  /\ job[j] = "unborn"
  /\ job' = [job EXCEPT ![j] = "queued"]
  /\ Become(c, "ensure")
  /\ UNCHANGED <<leases, loop, gate, current, faults>>

\* reserve_queue_update makes sure of nothing: the job waits for its client.
ReserveUpdate(c, j) ==
  /\ client[c].pc = "gone"
  /\ job[j] = "queued"
  /\ job' = [job EXCEPT ![j] = "editing"]
  /\ client' = [client EXCEPT ![c] = [pc |-> "editing", job |-> j]]
  /\ UNCHANGED <<leases, loop, gate, current, faults>>

\* The client commits the update or gives it up.  If it is late and another
\* client holds an update of the same job, its token does not match.
EndUpdate(c) ==
  /\ \/ /\ client[c].pc = "editing"
        /\ job' = [job EXCEPT ![client[c].job] = IF @ = "editing" THEN "queued" ELSE @]
        /\ Become(c, "ensure")
     \/ /\ client[c].pc = "late"
        /\ Become(c, IF job[client[c].job] = "editing" THEN "gone" ELSE "ensure")
        /\ UNCHANGED job
  /\ UNCHANGED <<leases, loop, gate, current, faults>>

\* An update expires, whether or not its client still lives.
ExpireUpdate(j) ==
  /\ job[j] = "editing"
  /\ job' = [job EXCEPT ![j] = "queued"]
  /\ client' = [c \in Clients |->
       IF client[c] = [pc |-> "editing", job |-> j]
       THEN [client[c] EXCEPT !.pc = "late"] ELSE client[c]]
  /\ UNCHANGED <<leases, loop, gate, current, faults>>

StopQueued(j) ==
  /\ job[j] \in {"queued", "editing"}
  /\ job' = [job EXCEPT ![j] = "dropped"]
  /\ UNCHANGED <<leases, loop, client, gate, current, faults>>

Finish(j) ==
  /\ job[j] = "active"
  /\ job' = [job EXCEPT ![j] = "done"]
  /\ UNCHANGED <<leases, loop, client, gate, current, faults>>

\* Mutant of Poll: only active executions call for a dispatcher.
PollActive(c) ==
  /\ client[c].pc = "gone"
  /\ \E j \in Jobs : job[j] = "active"
  /\ Become(c, "ensure")
  /\ UNCHANGED <<job, leases, loop, gate, current, faults>>

\* Mutant of Poll: an interrupted dispatch does not call for a dispatcher.
PollQueued(c) ==
  /\ client[c].pc = "gone"
  /\ \E j \in Jobs : job[j] \in {"queued", "editing", "active"}
  /\ Become(c, "ensure")
  /\ UNCHANGED <<job, leases, loop, gate, current, faults>>

\* status, wait and wait-runs: any job that is not over calls for a dispatcher.
Poll(c) ==
  /\ client[c].pc = "gone"
  /\ \E j \in Jobs : job[j] \in {"queued", "editing", "dispatching", "active"}
  /\ Become(c, "ensure")
  /\ UNCHANGED <<job, leases, loop, gate, current, faults>>

\* ensure_dispatcher: has-session.
Ask(c) ==
  /\ client[c].pc = "ensure"
  /\ Become(c, IF HasSession THEN "gone" ELSE "start")
  /\ UNCHANGED <<job, leases, loop, gate, current, faults>>

\* ensure_dispatcher: new-session, which fails if another command was faster.
NewSession(c) ==
  /\ client[c].pc = "start"
  /\ Become(c, "gone")
  /\ loop' = IF HasSession THEN loop ELSE [NoLoop EXCEPT !.pc = "monitor"]
  /\ UNCHANGED <<job, leases, gate, current, faults>>

(***************************************************************************)
(* activate_release, under the scheduler lock throughout.                  *)
(***************************************************************************)
\* Every dispatch lease blocks, expired or not.
CheckLeases ==
  /\ Activates
  /\ gate = "open"
  /\ current = "old"
  /\ \A j \in Jobs : lease[j] = "none"
  /\ gate' = "checked"
  /\ UNCHANGED <<job, leases, loop, client, current, faults>>

StopWorkers ==
  /\ gate = "checked"
  /\ gate' = "migrating"
  /\ loop' = NoLoop
  /\ UNCHANGED <<job, leases, client, current, faults>>

\* The migrations are done: switch runner/current.
SwitchCurrent ==
  /\ gate = "migrating"
  /\ gate' = "open"
  /\ current' = "new"
  /\ UNCHANGED <<job, leases, loop, client, faults>>

\* A worker that cannot be stopped or state that cannot be migrated.
ActivationFails ==
  /\ gate # "open"
  /\ faults < MaxFaults
  /\ faults' = faults + 1
  /\ gate' = "open"
  /\ UNCHANGED <<job, leases, loop, client, current>>

(***************************************************************************)
(* Deaths, and time: the heartbeat renews the lease of a job in hand.      *)
(***************************************************************************)
LoopDies ==
  /\ HasSession
  /\ faults < MaxFaults
  /\ faults' = faults + 1
  /\ loop' = NoLoop
  /\ UNCHANGED <<job, leases, client, gate, current>>

ClientDies(c) ==
  /\ client[c].pc # "gone"
  /\ faults < MaxFaults
  /\ faults' = faults + 1
  /\ Become(c, "gone")
  /\ UNCHANGED <<job, leases, loop, gate, current>>

ExpireLease(j) ==
  /\ lease[j] = "live"
  /\ loop.job # j
  /\ lease' = [lease EXCEPT ![j] = "expired"]
  /\ UNCHANGED <<job, second, closed, loop, client, gate, current, faults>>

\* An operator closes the machine of a lease to new ones, or opens it again.
Drain(j) ==
  /\ j \in Drainable
  /\ lease[j] # "none"
  /\ closed' = IF j \in closed THEN closed \ {j} ELSE closed \cup {j}
  /\ UNCHANGED <<job, lease, second, loop, client, gate, current, faults>>

(***************************************************************************)
(* Specification                                                           *)
(***************************************************************************)
LoopStep ==
  \/ Monitor \/ CycleFails \/ BatchBusy \/ BatchRaises \/ BatchIdle \/ BatchWaits \/ PutBack
  \/ Mark \/ MarkConflicts \/ Launch \/ LaunchUnknown \/ LaunchFails \/ ReleaseLease \/ Decide \/ Return \/ Wake
  \/ \E j \in Jobs : BatchRecover(j) \/ BatchReserves(j) \/ ReconcileLease(j)

Ensure(c) == Ask(c) \/ NewSession(c)

Activation == CheckLeases \/ StopWorkers \/ SwitchCurrent \/ ActivationFails

Next ==
  \/ LoopStep \/ LoopDies \/ Activation
  \/ \E c \in Clients :
       \/ Ensure(c) \/ EndUpdate(c) \/ ClientDies(c)
       \/ c \in Watchers /\ Poll(c)
       \/ c \in Editors /\ \E j \in Jobs : Submit(c, j) \/ ReserveUpdate(c, j)
  \/ \E j \in Jobs : StopQueued(j) \/ Finish(j) \/ ExpireUpdate(j) \/ ExpireLease(j) \/ Drain(j)

Spec == Init /\ [][Next]_vars

\* The loop, a command that has been started and an activation run on until they
\* end or die; leases and placement updates expire; watchers, if there are any,
\* go on asking.
FairSpec ==
  /\ Spec
  /\ WF_vars(LoopStep)
  /\ WF_vars(Activation)
  /\ \A c \in Clients : WF_vars(Ensure(c)) /\ WF_vars(EndUpdate(c))
  /\ \A c \in Watchers : WF_vars(Poll(c))
  /\ \A j \in Jobs : WF_vars(ExpireUpdate(j)) /\ WF_vars(ExpireLease(j))

(***************************************************************************)
(* Properties                                                              *)
(***************************************************************************)

\* Activation never interrupts a dispatch: from its check of the leases until it
\* has switched releases, no dispatcher has a job in hand, not even one that a
\* command starts meanwhile.
ActivationInterruptsNothing ==
  SchedulerLocked => loop.pc \notin LaunchPcs /\ \A j \in Jobs : lease[j] = "none"

\* A queued job is looked at by a dispatcher again and again until it leaves the
\* queue, through idle exits, dead dispatchers and commands, and activations.
QueuedIsLookedAt ==
  \A j \in Jobs : job[j] = "queued" ~> job[j] # "queued" \/ loop.pc = "batch"

\* The recovery of an interrupted dispatch is refused or raises, and with it ends the
\* recovery of every other one.
HeldUp == \E j \in Dispatching : j \in second \/ Refused(j)

\* An interrupted dispatch gets a dispatcher that resolves it, unless recovery is
\* held up again and again.
InterruptedIsResolved ==
  \A j \in Jobs :
    \/ []<>HeldUp
    \/ job[j] = "dispatching" ~> job[j] # "dispatching"
=============================================================================
