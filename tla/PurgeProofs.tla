---------------------------- MODULE PurgeProofs ----------------------------
(***************************************************************************)
(* Theorems about purge-run and purge-task, for any number of runs,        *)
(* invocations and failures.                                               *)
(***************************************************************************)
EXTENDS Purge, TLAPS

(***************************************************************************)
(* What an invocation remembers, and its plan.                             *)
(***************************************************************************)
LEMMA IdleType == Idle \in Caller
BY DEF Idle, Caller, Pcs, Purges

LEMMA FreshPlanType ==
  ASSUME NEW parts \in SUBSET Parts, NEW delete \in BOOLEAN
  PROVE  FreshPlan(parts, delete) \in Plan
BY DEF FreshPlan, Plan

LEMMA PartsType == \A R \in SUBSET Runs : PartsOf(R) \in SUBSET Parts
BY DEF PartsOf, Parts, QueuePart, ExecPart

(***************************************************************************)
(* Types, and what an invocation that is under way has in hand.            *)
(***************************************************************************)
\* Where the invocation stands, or will stand once its plan is written.
Eff(x) == IF x.pc = "persist" THEN x.next ELSE x.pc

Grounded(c, x) ==
  x.pc # "idle" =>
    /\ c \in team
    /\ x.plan \in Plan
    /\ Eff(x) \in {"recheck", "remote", "release"} => x.run \in Runs
    /\ c \in RunPurgers => x.purge \in Runs /\ Eff(x) # "stopping"
    /\ c \notin RunPurgers => x.purge = Task /\ Eff(x) \notin {"tombstone", "complete"}

Typed == TypeOK /\ \A c \in Callers : Grounded(c, caller[c])

LEMMA InitTyped == Init => Typed
<1> SUFFICES ASSUME Init PROVE Typed
  OBVIOUS
<1>1. caller \in [Callers -> Caller]
  BY IdleType DEF Init
<1>2. \A c \in Callers : Grounded(c, caller[c])
  BY DEF Init, Grounded, Idle
<1>3. TypeOK
  BY <1>1 DEF Init, TypeOK, LeaseInit, LeaseTypeOK, QueueStatuses, ExecStatuses
<1> QED
  BY <1>2, <1>3 DEF Typed

\* Everything but the invocations and the leases.
WorldOK ==
  /\ team \in Teams
  /\ queue \in [Runs -> QueueStatuses]
  /\ exec \in [Runs -> ExecStatuses]
  /\ tombstone \in [Runs -> {"none", "purging", "purged"}]
  /\ plan \in [Purges -> Plan \cup {NoPlan}]
  /\ staged \in [Purges -> SUBSET Parts]
  /\ remote \in [outputs: SUBSET Runs, worktree: BOOLEAN]
  /\ strays \in SUBSET (Runs \cup {NoRun})
  /\ events \in SUBSET Runs
  /\ faults \in Nat
  /\ prepared \in Nat

LEMMA TypedParts ==
  Typed <=> LeaseTypeOK /\ WorldOK /\ caller \in [Callers -> Caller] /\ \A c \in Callers : Grounded(c, caller[c])
BY DEF Typed, TypeOK, WorldOK

\* One invocation goes on: it is enough to look at what it remembers now.
LEMMA GoTyped ==
  ASSUME Typed, NEW c \in Callers, NEW y \in Caller, Go(c, y), Grounded(c, y), team' = team,
         LeaseTypeOK', WorldOK'
  PROVE  Typed'
<1>1. caller' \in [Callers -> Caller]
  BY DEF Typed, TypeOK, Go
<1>2. \A d \in Callers : Grounded(d, caller'[d])
  BY DEF Typed, TypeOK, Go
<1>3. \A d \in Callers : Grounded(d, caller[d])'
  BY <1>2 DEF Grounded
<1> QED
  BY <1>1, <1>3 DEF Typed, TypeOK, WorldOK

LEMMA GiveUpTyped ==
  ASSUME Typed, NEW c \in Callers, GiveUp(c), team' = team, LeaseTypeOK', WorldOK'
  PROVE  Typed'
<1>1. Grounded(c, Idle)
  BY DEF Grounded, Idle
<1> QED
  BY <1>1, GoTyped, IdleType DEF GiveUp

LEMMA LeaseTypes ==
  ASSUME LeaseTypeOK, Machine \in Machines, NEW o \in Owners, NEW t \in Tokens
  PROVE  /\ \A gone \in SUBSET Runs, kind \in Kinds : Acquire(Machine, o, kind, t, gone) /\ UNCHANGED drained => LeaseTypeOK'
         /\ \A u : Release(Machine, o, u) /\ UNCHANGED drained => LeaseTypeOK'
         /\ Expire(Machine) /\ UNCHANGED drained => LeaseTypeOK'
<1>1. ASSUME NEW gone \in SUBSET Runs, NEW kind \in Kinds, Acquire(Machine, o, kind, t, gone), UNCHANGED drained
      PROVE  LeaseTypeOK'
  BY <1>1 DEF LeaseTypeOK, Acquire, Lease
<1>2. ASSUME NEW u, Release(Machine, o, u), UNCHANGED drained PROVE LeaseTypeOK'
  BY <1>2 DEF LeaseTypeOK, Release
<1>3. ASSUME Expire(Machine), UNCHANGED drained PROVE LeaseTypeOK'
  <2>1. [lease[Machine] EXCEPT !.expired = TRUE] \in Lease
    BY <1>3 DEF LeaseTypeOK, Expire, Lease
  <2> QED
    BY <1>3, <2>1 DEF LeaseTypeOK, Expire
<1> QED
  BY <1>1, <1>2, <1>3

(***************************************************************************)
(* The rest of the controller.                                             *)
(***************************************************************************)
Surroundings ==
  \/ \E r \in Runs : Prepare(r) \/ Submit(r) \/ Reserve(r) \/ Launches(r) \/ Finish(r)
  \/ StrayRemoves \/ ExpireMaintenance

LEMMA StillTyped ==
  ASSUME Typed, caller' = caller, team' = team, LeaseTypeOK', WorldOK'
  PROVE  Typed'
BY TypedParts DEF Typed, TypeOK, WorldOK, Grounded

LEMMA LaunchedTyped ==
  ASSUME Typed, NEW r \in Runs, NEW e \in ExecStatuses, NEW q \in QueueStatuses, Launched(r, e, q),
         remote' \in [outputs: SUBSET Runs, worktree: BOOLEAN]
  PROVE  WorldOK' /\ LeaseTypeOK'
<1>1. WorldOK'
  BY DEF Typed, TypeOK, WorldOK, Launched
<1>2. LeaseTypeOK'
  BY DEF Typed, TypeOK, LeaseTypeOK, Launched
<1> QED
  BY <1>1, <1>2

LEMMA RemovalsType ==
  ASSUME remote \in [outputs: SUBSET Runs, worktree: BOOLEAN]
  PROVE  /\ \A r \in Runs : Removes(r) => remote' \in [outputs: SUBSET Runs, worktree: BOOLEAN]
         /\ RemovesWorktree => remote' \in [outputs: SUBSET Runs, worktree: BOOLEAN]
         /\ [remote EXCEPT !.worktree = TRUE] \in [outputs: SUBSET Runs, worktree: BOOLEAN]
         /\ \A r \in Runs : [remote EXCEPT !.outputs = @ \cup {r}] \in [outputs: SUBSET Runs, worktree: BOOLEAN]
BY DEF Removes, RemovesWorktree

LEMMA SurroundingsTyped == Typed /\ Surroundings => Typed'
<1> SUFFICES ASSUME Typed, Surroundings PROVE Typed'
  OBVIOUS
<1> USE DEF records
<1>0. LeaseTypeOK /\ WorldOK
  BY TypedParts
<1>1. ASSUME NEW r \in Runs, Prepare(r) PROVE Typed'
  <2>1. WorldOK'
    BY <1>0, <1>1, RemovalsType DEF WorldOK, Prepare, QueueStatuses
  <2>2. LeaseTypeOK'
    BY <1>0, <1>1 DEF LeaseTypeOK, Prepare
  <2> QED
    BY <1>1, <2>1, <2>2, StillTyped DEF Prepare
<1>2. ASSUME NEW r \in Runs, Submit(r) \/ Finish(r) PROVE Typed'
  <2>1. WorldOK'
    BY <1>0, <1>2 DEF WorldOK, Submit, Finish, QueueStatuses, ExecStatuses
  <2>2. LeaseTypeOK'
    BY <1>0, <1>2 DEF LeaseTypeOK, Submit, Finish
  <2> QED
    BY <1>2, <2>1, <2>2, StillTyped DEF Submit, Finish
<1>3. ASSUME NEW r \in Runs, Reserve(r) PROVE Typed'
  <2>1. WorldOK'
    BY <1>0, <1>3 DEF WorldOK, Reserve, QueueStatuses
  <2>2. LeaseTypeOK'
    BY <1>0, <1>3, LeaseTypes, PurgeAssumptions DEF Reserve, Purges, Kinds, AuthorityGone
  <2> QED
    BY <1>3, <2>1, <2>2, StillTyped DEF Reserve
<1>4. ASSUME NEW r \in Runs, Launches(r) PROVE Typed'
  <2>1. CASE Launch(r)
    <3>1. WorldOK' /\ LeaseTypeOK'
      BY <1>0, <2>1, LaunchedTyped, RemovalsType DEF Launch, ExecStatuses, QueueStatuses, WorldOK
    <3> QED
      BY <2>1, <3>1, StillTyped DEF Launch, Launched
  <2>2. CASE LaunchFails(r)
    <3>1. WorldOK' /\ LeaseTypeOK'
      BY <1>0, <2>2, LaunchedTyped DEF LaunchFails, ExecStatuses, QueueStatuses, WorldOK
    <3> QED
      BY <2>2, <3>1, StillTyped DEF LaunchFails, Launched
  <2> QED
    BY <1>4, <2>1, <2>2 DEF Launches
<1>5. CASE StrayRemoves
  <2>1. remote' \in [outputs: SUBSET Runs, worktree: BOOLEAN]
    BY <1>0, <1>5, RemovalsType DEF StrayRemoves, WorldOK
  <2>2. WorldOK'
    BY <1>0, <1>5, <2>1 DEF WorldOK, StrayRemoves
  <2>3. LeaseTypeOK'
    BY <1>0, <1>5 DEF LeaseTypeOK, StrayRemoves
  <2> QED
    BY <1>5, <2>2, <2>3, StillTyped DEF StrayRemoves
<1>6. CASE ExpireMaintenance
  <2>1. WorldOK'
    BY <1>0, <1>6 DEF WorldOK, ExpireMaintenance, Outside
  <2>2. LeaseTypeOK'
    <3>1. lease[Machine] \in Lease /\ lease[Machine].owner \in Owners /\ lease[Machine].token \in Tokens
      BY <1>0, <1>6, PurgeAssumptions DEF ExpireMaintenance, LeaseTypeOK, Lease
    <3> QED
      BY <1>0, <1>6, <3>1, LeaseTypes, PurgeAssumptions DEF ExpireMaintenance
  <2> QED
    BY <1>6, <2>1, <2>2, StillTyped DEF ExpireMaintenance, Outside
<1> QED
  BY <1>1, <1>2, <1>3, <1>4, <1>5, <1>6 DEF Surroundings

(***************************************************************************)
(* Between staging and the end an invocation changes neither records nor   *)
(* what its plan says of them.                                             *)
(***************************************************************************)
MiddlePcs == {"overlap", "sync", "artifacts", "recheck", "remote", "release", "lease", "remove", "unlease"}

Carries(c, x, y) ==
  \/ y = Idle
  \/ /\ y.pc # "idle"
     /\ y.purge = x.purge /\ y.plan.parts = x.plan.parts /\ y.plan.staged = x.plan.staged
     /\ y.plan.events = x.plan.events
     /\ x.pc \in MiddlePcs /\ Eff(x) \in MiddlePcs
     /\ \/ y.pc = "persist" /\ y.next \in MiddlePcs
        \/ y.plan = x.plan /\ y.pc \in MiddlePcs \cup {"events", "stage"}
     /\ c \in RunPurgers => Eff(y) \in MiddlePcs \cup {"events"}

Middle(c) ==
  \/ CheckOverlap(c) \/ PurgeSync(c) \/ NextArtifact(c) \/ Recheck(c) \/ Removed(c) \/ ReleaseArtifact(c)
  \/ ArtifactsDone(c) \/ LeaseForWorktree(c) \/ RemoveWorktree(c) \/ ReleaseWorktree(c)
  \/ Lost(c) \/ Hindered(c) \/ Dies(c)

\* The goal of each step: c goes on with y.
GoesOn(c, y) == y \in Caller /\ Go(c, y) /\ Grounded(c, y) /\ Carries(c, caller[c], y)

LEMMA GivesUp ==
  ASSUME NEW c \in Callers, GiveUp(c)
  PROVE  \E y \in Caller : GoesOn(c, y)
BY IdleType DEF GoesOn, GiveUp, Grounded, Carries, Idle

LEMMA Facts ==
  ASSUME Typed, NEW c \in Callers
  PROVE  caller[c] \in Caller /\ Grounded(c, caller[c])
BY DEF Typed, TypeOK

\* x goes on to pc, with whatever else it notes besides its plan.
Notes(x, y, pc) ==
  y \in Caller /\ y.pc = pc /\ y.purge = x.purge /\ y.plan = x.plan

LEMMA NotedGoesOn ==
  ASSUME Typed, NEW c \in Callers, NEW pc \in MiddlePcs \cup {"events"}, NEW y, Go(c, y), Notes(caller[c], y, pc),
         caller[c].pc \in MiddlePcs, pc \in {"recheck", "remote", "release"} => y.run \in Runs
  PROVE  GoesOn(c, y)
BY Facts DEF GoesOn, Notes, Grounded, Carries, MiddlePcs, Eff

\* x notes in its plan something that is not about records or events, and writes the plan.
LEMMA PlannedGoesOn ==
  ASSUME Typed, NEW c \in Callers, NEW next \in MiddlePcs \ {"recheck", "remote", "release"}, NEW y \in Caller, Go(c, y),
         y.pc = "persist", y.next = next, y.purge = caller[c].purge, y.plan \in Plan,
         y.plan.parts = caller[c].plan.parts, y.plan.staged = caller[c].plan.staged,
         y.plan.events = caller[c].plan.events, caller[c].pc \in MiddlePcs
  PROVE  GoesOn(c, y)
BY Facts DEF GoesOn, Grounded, Carries, MiddlePcs, Eff

LEMMA MiddleGoes ==
  ASSUME Typed, NEW c \in Callers, Middle(c)
  PROVE  \E y \in Caller : GoesOn(c, y)
<1> DEFINE x == caller[c]
<1>0. x \in Caller /\ x.todo \in SUBSET Runs /\ Grounded(c, x)
  BY Facts DEF Caller
<1>a. ASSUME NEW pc \in MiddlePcs, At(c, pc) PROVE x.pc \in MiddlePcs /\ x.plan \in Plan /\ Eff(x) = pc /\ x.purge \in Purges
  BY <1>0, <1>a DEF At, Grounded, MiddlePcs, Eff, Caller
<1>p. MiddlePcs \cup {"events", "stage", "persist"} \subseteq Pcs
  BY DEF MiddlePcs, Pcs
<1>1. CASE CheckOverlap(c)
  <2>1. x.pc \in MiddlePcs /\ Eff(x) = "overlap"
    BY <1>1, <1>a DEF CheckOverlap, MiddlePcs
  <2>2. CASE GiveUp(c)
    BY <2>2, GivesUp
  <2>3. CASE x.purge = Task /\ Go(c, [x EXCEPT !.pc = ToStage(Task, x.plan), !.shared = Retained(x.plan) # {}])
    <3>1. ToStage(Task, x.plan) \in {"stage", "events", "sync"}
      BY DEF ToStage
    <3>2. Notes(x, [x EXCEPT !.pc = ToStage(Task, x.plan), !.shared = Retained(x.plan) # {}], ToStage(Task, x.plan))
      <4>1. \A pc \in Pcs, flag \in BOOLEAN : Notes(x, [x EXCEPT !.pc = pc, !.shared = flag], pc)
        BY <1>0 DEF Notes, Caller
      <4>2. ToStage(Task, x.plan) \in Pcs
        BY <3>1 DEF Pcs
      <4>3. (Retained(x.plan) # {}) \in BOOLEAN
        OBVIOUS
      <4> QED
        BY <4>1, <4>2, <4>3
    <3>3. c \notin RunPurgers
      BY <1>0, <2>1, <2>3, PurgeAssumptions DEF Grounded, MiddlePcs
    <3>4. GoesOn(c, [x EXCEPT !.pc = ToStage(Task, x.plan), !.shared = Retained(x.plan) # {}])
      BY <1>0, <2>1, <2>3, <3>1, <3>2, <3>3 DEF GoesOn, Notes, Grounded, Carries, MiddlePcs, Eff
    <3> QED
      BY <3>4 DEF GoesOn
  <2>4. CASE x.purge # Task /\ Go(c, [x EXCEPT !.pc = "sync"])
    <3>1. Notes(x, [x EXCEPT !.pc = "sync"], "sync")
      BY <1>0 DEF Notes, Caller, Pcs
    <3> QED
      BY <1>0, <2>1, <2>4, <3>1, NotedGoesOn DEF MiddlePcs, GoesOn
  <2> QED
    BY <1>1, <2>2, <2>3, <2>4 DEF CheckOverlap
<1>2. CASE PurgeSync(c)
  <2>1. x.pc \in MiddlePcs /\ x.plan \in Plan
    BY <1>2, <1>a DEF PurgeSync, MiddlePcs
  <2> DEFINE todo == Executions(x.plan) \ x.plan.artifacts
             y == [[x EXCEPT !.pc = "artifacts"] EXCEPT !.todo = todo]
             known == [x.plan EXCEPT !.sync = TRUE]
             z == [[x EXCEPT !.plan.sync = TRUE, !.pc = "persist", !.next = "artifacts"] EXCEPT !.todo = todo]
  <2>2. todo \in SUBSET Runs
    BY DEF Executions
  <2>3. CASE Go(c, y)
    <3>1. Notes(x, y, "artifacts")
      BY <1>0, <2>2 DEF Notes, Caller, Pcs
    <3> QED
      BY <1>0, <2>1, <2>3, <3>1, NotedGoesOn DEF MiddlePcs, GoesOn
  <2>4. CASE Go(c, z)
    <3>1. known \in Plan /\ known.parts = x.plan.parts /\ known.staged = x.plan.staged /\ known.events = x.plan.events
      BY <2>1 DEF Plan
    <3>2. /\ z \in Caller /\ z.pc = "persist" /\ z.next = "artifacts" /\ z.purge = x.purge
          /\ z.plan = known
      BY <1>0, <2>2, <3>1 DEF Caller, Pcs
    <3> QED
      BY <2>1, <2>4, <3>1, <3>2, PlannedGoesOn DEF MiddlePcs, GoesOn
  <2> QED
    BY <1>2, <2>3, <2>4 DEF PurgeSync
<1>3. CASE NextArtifact(c)
  <2>1. x.pc = "artifacts" /\ x.pc \in MiddlePcs
    BY <1>3, <1>a DEF NextArtifact, At, MiddlePcs
  <2>2. PICK r \in x.todo :
          \/ \E t \in Tokens : Go(c, [[[x EXCEPT !.todo = @ \ {r}] EXCEPT !.pc = "recheck", !.run = r] EXCEPT !.token = t])
          \/ Go(c, [[x EXCEPT !.todo = @ \ {r}] EXCEPT !.failed = TRUE])
    BY <1>3 DEF NextArtifact, AcquireMaintenance
  <2>3. r \in Runs
    BY <1>0
  <2>4. ASSUME NEW t \in Tokens, Go(c, [[[x EXCEPT !.todo = @ \ {r}] EXCEPT !.pc = "recheck", !.run = r] EXCEPT !.token = t])
        PROVE  \E y \in Caller : GoesOn(c, y)
    <3> DEFINE y == [[[x EXCEPT !.todo = @ \ {r}] EXCEPT !.pc = "recheck", !.run = r] EXCEPT !.token = t]
    <3>1. Notes(x, y, "recheck") /\ y.run = r
      BY <1>0, <2>3 DEF Notes, Caller, Pcs
    <3> QED
      BY <2>1, <2>3, <2>4, <3>1, NotedGoesOn DEF MiddlePcs, GoesOn
  <2>5. CASE Go(c, [[x EXCEPT !.todo = @ \ {r}] EXCEPT !.failed = TRUE])
    <3> DEFINE y == [[x EXCEPT !.todo = @ \ {r}] EXCEPT !.failed = TRUE]
    <3>1. Notes(x, y, "artifacts")
      BY <1>0, <2>1 DEF Notes, Caller, Pcs
    <3> QED
      BY <2>1, <2>5, <3>1, NotedGoesOn DEF MiddlePcs, GoesOn
  <2> QED
    BY <2>2, <2>4, <2>5
<1>4. CASE Recheck(c)
  <2>1. x.pc \in MiddlePcs /\ Eff(x) = "recheck" /\ x.run \in Runs
    BY <1>0, <1>4, <1>a DEF Recheck, At, MiddlePcs, Grounded
  <2>2. /\ Notes(x, [x EXCEPT !.pc = "release", !.failed = TRUE], "release")
        /\ [x EXCEPT !.pc = "release", !.failed = TRUE].run = x.run
    BY <1>0 DEF Notes, Caller, Pcs
  <2>3. Notes(x, [x EXCEPT !.pc = "remote"], "remote") /\ [x EXCEPT !.pc = "remote"].run = x.run
    BY <1>0 DEF Notes, Caller, Pcs
  <2>4. Go(c, [x EXCEPT !.pc = "release", !.failed = TRUE]) \/ Go(c, [x EXCEPT !.pc = "remote"])
    BY <1>4 DEF Recheck
  <2> QED
    BY <2>1, <2>2, <2>3, <2>4, NotedGoesOn DEF MiddlePcs, GoesOn
<1>5. CASE Removed(c) \/ Lost(c)
  <2>1. CASE At(c, "remote")
    <3>1. x.pc \in MiddlePcs /\ x.run \in Runs
      BY <1>0, <2>1, <1>a DEF At, MiddlePcs, Grounded, Eff
    <3>2. Go(c, [x EXCEPT !.pc = "release", !.done = TRUE]) \/ Go(c, [x EXCEPT !.pc = "release", !.failed = TRUE])
      BY <1>5, <2>1 DEF Removed, Lost, At
    <3>3. Notes(x, [x EXCEPT !.pc = "release", !.done = TRUE], "release")
          /\ [x EXCEPT !.pc = "release", !.done = TRUE].run = x.run
      BY <1>0 DEF Notes, Caller, Pcs
    <3>4. Notes(x, [x EXCEPT !.pc = "release", !.failed = TRUE], "release")
          /\ [x EXCEPT !.pc = "release", !.failed = TRUE].run = x.run
      BY <1>0 DEF Notes, Caller, Pcs
    <3> QED
      BY <3>1, <3>2, <3>3, <3>4, NotedGoesOn DEF MiddlePcs, GoesOn
  <2>2. CASE At(c, "remove")
    <3>1. x.pc \in MiddlePcs
      BY <2>2, <1>a DEF MiddlePcs
    <3>2. Go(c, [x EXCEPT !.pc = "unlease", !.failed = TRUE])
      BY <1>5, <2>2 DEF Removed, Lost, At
    <3>3. Notes(x, [x EXCEPT !.pc = "unlease", !.failed = TRUE], "unlease")
      BY <1>0 DEF Notes, Caller, Pcs
    <3> QED
      BY <3>1, <3>2, <3>3, NotedGoesOn DEF MiddlePcs, GoesOn
  <2> QED
    BY <1>5, <2>1, <2>2 DEF Removed, Lost
<1>6. CASE ReleaseArtifact(c)
  <2> DEFINE known == [x.plan EXCEPT !.artifacts = @ \cup {x.run}]
             back == [x EXCEPT !.token = 0, !.run = NoRun, !.done = FALSE]
             y == [back EXCEPT !.pc = "artifacts"]
             z == [back EXCEPT !.plan.artifacts = @ \cup {x.run}, !.pc = "persist", !.next = "artifacts"]
  <2>1. x.pc \in MiddlePcs /\ x.plan \in Plan /\ x.run \in Runs
    BY <1>0, <1>6, <1>a DEF ReleaseArtifact, At, MiddlePcs, Grounded, Eff
  <2>2. CASE Go(c, y)
    <3>1. Notes(x, y, "artifacts")
      BY <1>0 DEF Notes, Caller, Pcs
    <3> QED
      BY <2>1, <2>2, <3>1, NotedGoesOn DEF MiddlePcs, GoesOn
  <2>3. CASE Go(c, z)
    <3>1. known \in Plan /\ known.parts = x.plan.parts /\ known.staged = x.plan.staged /\ known.events = x.plan.events
      BY <2>1 DEF Plan
    <3>2. z \in Caller /\ z.pc = "persist" /\ z.next = "artifacts" /\ z.purge = x.purge /\ z.plan = known
      BY <1>0, <3>1 DEF Caller, Pcs
    <3> QED
      BY <2>1, <2>3, <3>1, <3>2, PlannedGoesOn DEF MiddlePcs, GoesOn
  <2> QED
    BY <1>6, <2>2, <2>3 DEF ReleaseArtifact
<1>7. CASE ArtifactsDone(c)
  <2>1. x.pc \in MiddlePcs
    BY <1>7, <1>a DEF ArtifactsDone, MiddlePcs
  <2>2. GiveUp(c) \/ \E pc \in {"lease", "events"} : Go(c, [x EXCEPT !.pc = pc])
    BY <1>7 DEF ArtifactsDone
  <2>3. \A pc \in {"lease", "events"} : Notes(x, [x EXCEPT !.pc = pc], pc)
    BY <1>0 DEF Notes, Caller, Pcs
  <2> QED
    BY <2>1, <2>2, <2>3, GivesUp, NotedGoesOn DEF MiddlePcs, GoesOn
<1>8. CASE LeaseForWorktree(c)
  <2>1. x.pc \in MiddlePcs
    BY <1>8, <1>a DEF LeaseForWorktree, MiddlePcs
  <2>2. GiveUp(c) \/ \E t \in Tokens : Go(c, [[x EXCEPT !.pc = "remove"] EXCEPT !.token = t])
    BY <1>8 DEF LeaseForWorktree, AcquireMaintenance
  <2>3. \A t \in Tokens : Notes(x, [[x EXCEPT !.pc = "remove"] EXCEPT !.token = t], "remove")
    BY <1>0 DEF Notes, Caller, Pcs
  <2> QED
    BY <2>1, <2>2, <2>3, GivesUp, NotedGoesOn DEF MiddlePcs, GoesOn
<1>9. CASE RemoveWorktree(c)
  <2> DEFINE known == [x.plan EXCEPT !.worktree = TRUE]
             z == [x EXCEPT !.plan = known, !.pc = "persist", !.next = "unlease"]
  <2>1. x.pc \in MiddlePcs /\ x.plan \in Plan
    BY <1>9, <1>a DEF RemoveWorktree, MiddlePcs
  <2>2. Go(c, z)
    BY <1>9 DEF RemoveWorktree, GoPersist
  <2>3. known \in Plan /\ known.parts = x.plan.parts /\ known.staged = x.plan.staged /\ known.events = x.plan.events
    BY <2>1 DEF Plan
  <2>4. z \in Caller /\ z.pc = "persist" /\ z.next = "unlease" /\ z.purge = x.purge /\ z.plan = known
    BY <1>0, <2>3 DEF Caller, Pcs
  <2> QED
    BY <2>1, <2>2, <2>3, <2>4, PlannedGoesOn DEF MiddlePcs, GoesOn
<1>10. CASE ReleaseWorktree(c)
  <2>1. x.pc \in MiddlePcs
    BY <1>10, <1>a DEF ReleaseWorktree, MiddlePcs
  <2>2. GiveUp(c) \/ Go(c, [x EXCEPT !.pc = "events", !.token = 0])
    BY <1>10 DEF ReleaseWorktree
  <2>3. Notes(x, [x EXCEPT !.pc = "events", !.token = 0], "events")
    BY <1>0 DEF Notes, Caller, Pcs
  <2> QED
    BY <2>1, <2>2, <2>3, GivesUp, NotedGoesOn DEF MiddlePcs, GoesOn
<1>11. CASE Dies(c)
  BY <1>11, GivesUp DEF Dies
<1>12. CASE Hindered(c)
  <2>1. CASE GiveUp(c)
    BY <2>1, GivesUp
  <2>2. ASSUME At(c, "artifacts"), NEW r \in x.todo, Go(c, [x EXCEPT !.todo = @ \ {r}, !.failed = TRUE])
        PROVE  \E y \in Caller : GoesOn(c, y)
    <3> DEFINE y == [x EXCEPT !.todo = @ \ {r}, !.failed = TRUE]
    <3>1. x.pc \in MiddlePcs /\ Notes(x, y, "artifacts")
      BY <1>0, <1>a, <2>2 DEF Notes, Caller, Pcs, At, MiddlePcs
    <3> QED
      BY <2>2, <3>1, NotedGoesOn DEF MiddlePcs, GoesOn
  <2>3. ASSUME At(c, "remote"), Go(c, [x EXCEPT !.pc = "release", !.failed = TRUE])
        PROVE  \E y \in Caller : GoesOn(c, y)
    <3>1. x.pc \in MiddlePcs /\ x.run \in Runs
      BY <1>0, <1>a, <2>3 DEF At, MiddlePcs, Grounded, Eff
    <3>2. Notes(x, [x EXCEPT !.pc = "release", !.failed = TRUE], "release")
          /\ [x EXCEPT !.pc = "release", !.failed = TRUE].run = x.run
      BY <1>0 DEF Notes, Caller, Pcs
    <3> QED
      BY <2>3, <3>1, <3>2, NotedGoesOn DEF MiddlePcs, GoesOn
  <2>4. ASSUME At(c, "remove"), Go(c, [x EXCEPT !.pc = "unlease", !.failed = TRUE])
        PROVE  \E y \in Caller : GoesOn(c, y)
    <3>1. x.pc \in MiddlePcs
      BY <1>a, <2>4 DEF MiddlePcs
    <3>2. Notes(x, [x EXCEPT !.pc = "unlease", !.failed = TRUE], "unlease")
      BY <1>0 DEF Notes, Caller, Pcs
    <3> QED
      BY <2>4, <3>1, <3>2, NotedGoesOn DEF MiddlePcs, GoesOn
  <2> QED
    BY <1>12, <2>1, <2>2, <2>3, <2>4 DEF Hindered
<1> QED
  BY <1>1, <1>2, <1>3, <1>4, <1>5, <1>6, <1>7, <1>8, <1>9, <1>10, <1>11, <1>12 DEF Middle, Lost

LEMMA MiddleLeaves ==
  ASSUME NEW c \in Callers, Middle(c)
  PROVE  UNCHANGED <<drained, team, queue, exec, tombstone, plan, staged, events, prepared>>
BY DEF Middle, CheckOverlap, PurgeSync, NextArtifact, Recheck, Removed, ReleaseArtifact, ArtifactsDone,
       LeaseForWorktree, RemoveWorktree, ReleaseWorktree, Lost, Hindered, Dies, Outside, records

LEMMA MiddleMachine ==
  ASSUME Typed, NEW c \in Callers, Middle(c)
  PROVE  /\ remote' \in [outputs: SUBSET Runs, worktree: BOOLEAN]
         /\ strays' \in SUBSET (Runs \cup {NoRun}) /\ faults' \in Nat
<1>0. WorldOK /\ caller[c] \in Caller
  BY Facts, TypedParts
<1>r. caller[c].run \in Runs \cup {NoRun}
  BY <1>0 DEF Caller
<1>1. CASE Removed(c) \/ RemoveWorktree(c)
  <2>1. At(c, "remote") => caller[c].run \in Runs
    BY Facts DEF At, Grounded, Eff
  <2>2. remote' \in [outputs: SUBSET Runs, worktree: BOOLEAN]
    BY <1>0, <1>1, <2>1, RemovalsType DEF WorldOK, Removed, RemoveWorktree
  <2> QED
    BY <1>0, <1>1, <2>2 DEF WorldOK, Removed, RemoveWorktree
<1>2. CASE Lost(c) \/ Dies(c)
  BY <1>0, <1>r, <1>2 DEF WorldOK, Lost, Dies
<1>3. CASE UNCHANGED <<remote, strays, faults>>
  BY <1>0, <1>3 DEF WorldOK
<1> QED
  BY <1>1, <1>2, <1>3 DEF Middle, CheckOverlap, PurgeSync, NextArtifact, Recheck, ReleaseArtifact, ArtifactsDone,
       LeaseForWorktree, ReleaseWorktree, Hindered, Outside

LEMMA AcquiredType ==
  ASSUME Typed, NEW c \in Callers, NEW new, AcquireMaintenance(c, new), UNCHANGED drained
  PROVE  LeaseTypeOK'
<1>1. PICK t \in Tokens : Acquire(Machine, caller[c].purge, "maintenance", t, AuthorityGone)
  BY DEF AcquireMaintenance
<1>2. caller[c].purge \in Owners
  BY Facts, PurgeAssumptions DEF Caller
<1>3. AuthorityGone \in SUBSET Runs /\ "maintenance" \in Kinds
  BY DEF AuthorityGone, Kinds
<1> QED
  BY <1>1, <1>2, <1>3, LeaseTypes, PurgeAssumptions, TypedParts

LEMMA ReleasedType ==
  ASSUME Typed, NEW c \in Callers, ReleaseMaintenance(c), UNCHANGED drained
  PROVE  LeaseTypeOK'
BY TypedParts DEF ReleaseMaintenance, Release, LeaseTypeOK

LEMMA MiddleTyped ==
  ASSUME Typed, NEW c \in Callers, Middle(c)
  PROVE  Typed'
<1>1. WorldOK'
  BY MiddleLeaves, MiddleMachine, TypedParts DEF WorldOK
<1>2. LeaseTypeOK'
  <2>1. CASE UNCHANGED lease
    BY <2>1, MiddleLeaves, TypedParts DEF LeaseTypeOK
  <2>2. CASE NextArtifact(c) \/ LeaseForWorktree(c)
    BY <2>1, <2>2, MiddleLeaves, AcquiredType DEF NextArtifact, LeaseForWorktree
  <2>3. CASE ReleaseArtifact(c) \/ ReleaseWorktree(c)
    BY <2>3, MiddleLeaves, ReleasedType DEF ReleaseArtifact, ReleaseWorktree
  <2> QED
    BY <2>1, <2>2, <2>3 DEF Middle, CheckOverlap, PurgeSync, Recheck, Removed, ArtifactsDone,
       RemoveWorktree, Lost, Hindered, Dies
<1>3. PICK y \in Caller : GoesOn(c, y)
  BY MiddleGoes
<1> QED
  BY <1>1, <1>2, <1>3, GoTyped, MiddleLeaves DEF GoesOn

(***************************************************************************)
(* The steps of an invocation that are about records, plans, events and    *)
(* tombstones.                                                             *)
(***************************************************************************)
Bookkeeping(c) ==
  \/ (\E r \in Runs : BeginRun(c, r)) \/ BeginTask(c) \/ (\E p \in Purges : Resume(c, p))
  \/ CreateTombstone(c) \/ StopRecord(c) \/ Freeze(c) \/ CreatePlan(c) \/ Persist(c) \/ Stage(c)
  \/ CompactEvents(c) \/ Erase(c) \/ CompleteTombstone(c) \/ Clean(c)

LEMMA BookkeepingLeaves ==
  ASSUME NEW c \in Callers, Bookkeeping(c)
  PROVE  UNCHANGED <<lease, drained, team, remote, strays, faults, prepared>>
BY DEF Bookkeeping, BeginRun, BeginTask, Resume, CreateTombstone, StopRecord, Freeze, CreatePlan, Persist, Stage,
       CompactEvents, Erase, CompleteTombstone, Clean, Outside

LEMMA ToStageSomewhere == \A p, pl : ToStage(p, pl) \in {"stage", "events", "sync", "overlap"}
BY DEF ToStage

LEMMA NextToStageParts == \A pl \in Plan : NextToStage(pl) \subseteq pl.parts \ pl.staged
BY DEF NextToStage, QueuePart, ExecPart

LEMMA BookkeepingWorld ==
  ASSUME Typed, NEW c \in Callers, Bookkeeping(c)
  PROVE  WorldOK'
<1>0. WorldOK /\ caller[c] \in Caller /\ Grounded(c, caller[c])
  BY Facts, TypedParts
<1>a. \A pc \in Pcs : At(c, pc) /\ pc # "idle" =>
        caller[c].plan \in Plan /\ caller[c].purge \in Purges /\ c \in team
  BY <1>0 DEF At, Grounded, Caller
<1>1. CASE (\E r \in Runs : BeginRun(c, r)) \/ BeginTask(c) \/ Freeze(c)
  BY <1>0, <1>1 DEF WorldOK, BeginRun, BeginTask, Freeze, Outside, records
<1>2. CASE \E p \in Purges : Resume(c, p)
  <2>1. PICK p \in Purges : Resume(c, p)
    BY <1>2
  <2>2. plan' \in [Purges -> Plan \cup {NoPlan}] /\ staged' \in [Purges -> SUBSET Parts]
    BY <1>0, <2>1 DEF WorldOK, Resume
  <2> QED
    BY <1>0, <2>1, <2>2 DEF WorldOK, Resume, Outside, records
<1>3. CASE CreateTombstone(c) \/ CompleteTombstone(c)
  <2>1. tombstone' \in [Runs -> {"none", "purging", "purged"}]
    BY <1>0, <1>3 DEF WorldOK, CreateTombstone, CompleteTombstone
  <2> QED
    BY <1>0, <1>3, <2>1 DEF WorldOK, CreateTombstone, CompleteTombstone, Outside, records
<1>4. CASE StopRecord(c)
  <2>0. PICK r \in caller[c].todo :
          /\ queue' = [queue EXCEPT ![r] = IF @ = "queued" THEN "stopped" ELSE @]
          /\ exec' = [exec EXCEPT ![r] = IF @ = "running" THEN "stopped" ELSE @]
    BY <1>4 DEF StopRecord
  <2>1. queue' \in [Runs -> QueueStatuses]
    BY <1>0, <2>0 DEF WorldOK, QueueStatuses
  <2>2. exec' \in [Runs -> ExecStatuses]
    BY <1>0, <2>0 DEF WorldOK, ExecStatuses
  <2> QED
    BY <1>0, <1>4, <2>1, <2>2 DEF WorldOK, StopRecord, Outside
<1>5. CASE CreatePlan(c) \/ Persist(c)
  <2>1. plan' = [plan EXCEPT ![caller[c].purge] = caller[c].plan]
    BY <1>5 DEF CreatePlan, Persist
  <2>2. caller[c].plan \in Plan
    BY <1>5, <1>a DEF CreatePlan, Persist, Pcs
  <2>3. plan' \in [Purges -> Plan \cup {NoPlan}]
    BY <1>0, <2>1, <2>2 DEF WorldOK
  <2> QED
    BY <1>0, <1>5, <2>3 DEF WorldOK, CreatePlan, Persist, Outside, records
<1>6. CASE Stage(c)
  <2>1. caller[c].plan \in Plan
    BY <1>6, <1>a DEF Stage, Pcs
  <2>2. NextToStage(caller[c].plan) \subseteq Parts
    BY <2>1, NextToStageParts DEF Plan
  <2>3. queue' \in [Runs -> QueueStatuses]
    BY <1>0, <1>6 DEF WorldOK, Stage, records, QueueStatuses
  <2>4. exec' \in [Runs -> ExecStatuses]
    BY <1>0, <1>6 DEF WorldOK, Stage, records, ExecStatuses
  <2>5. staged' \in [Purges -> SUBSET Parts]
    BY <1>0, <1>6, <2>2 DEF WorldOK, Stage
  <2> QED
    BY <1>0, <1>6, <2>3, <2>4, <2>5 DEF WorldOK, Stage, Outside
<1>7. CASE CompactEvents(c)
  BY <1>0, <1>7 DEF WorldOK, CompactEvents, records
<1>8. CASE Erase(c) \/ Clean(c)
  <2>1. plan' \in [Purges -> Plan \cup {NoPlan}] /\ staged' \in [Purges -> SUBSET Parts]
    BY <1>0, <1>8 DEF WorldOK, Erase, Clean
  <2> QED
    BY <1>0, <1>8, <2>1 DEF WorldOK, Erase, Clean, Outside, records
<1> QED
  BY <1>1, <1>2, <1>3, <1>4, <1>5, <1>6, <1>7, <1>8 DEF Bookkeeping

(***************************************************************************)
(* What each of these steps makes the invocation remember.                 *)
(***************************************************************************)
LEMMA BeginRunGoes ==
  ASSUME NEW c \in Callers, NEW r \in Runs, BeginRun(c, r)
  PROVE  \E delete \in BOOLEAN : \E y \in Caller :
           Go(c, y) /\ y.pc = "tombstone" /\ y.purge = r /\ y.plan = FreshPlan(PartsOf({r}), delete)
<1>1. PICK delete \in BOOLEAN : Enter(c, r, "tombstone", FreshPlan(PartsOf({r}), delete))
  BY DEF BeginRun
<1>2. FreshPlan(PartsOf({r}), delete) \in Plan
  BY FreshPlanType, PartsType
<1> DEFINE y == [Idle EXCEPT !.pc = "tombstone", !.purge = r, !.plan = FreshPlan(PartsOf({r}), delete)]
<1>3. y \in Caller /\ y.pc = "tombstone" /\ y.purge = r /\ y.plan = FreshPlan(PartsOf({r}), delete)
  BY <1>2, IdleType DEF Caller, Pcs, Purges
<1> QED
  BY <1>1, <1>3 DEF Enter

LEMMA ResumeGoes ==
  ASSUME Typed, NEW c \in Callers, NEW p \in Purges, Resume(c, p), caller' # caller
  PROVE  \E y \in Caller :
           /\ Go(c, y) /\ y.purge = p /\ y.plan = plan[p] /\ plan[p] \in Plan
           /\ y.pc = IF p = Task THEN "overlap" ELSE ToStage(p, plan[p])
<1> DEFINE pc == IF p = Task THEN "overlap" ELSE ToStage(p, plan[p])
           y == [Idle EXCEPT !.pc = pc, !.purge = p, !.plan = plan[p]]
<1>1. Go(c, y)
  BY DEF Resume, Enter
<1>2. plan[p] \in Plan
  BY TypedParts DEF Resume, WorldOK
<1>3. pc \in Pcs
  BY ToStageSomewhere DEF Pcs
<1>4. y \in Caller /\ y.purge = p /\ y.plan = plan[p] /\ y.pc = pc
  <2> HIDE DEF pc
  <2> QED
    BY <1>2, <1>3, IdleType DEF Caller
<1> QED
  BY <1>1, <1>2, <1>4

LEMMA BeginTaskGoes ==
  ASSUME NEW c \in Callers, BeginTask(c)
  PROVE  \E y \in Caller : Go(c, y) /\ y.pc = "stopping" /\ y.purge = Task /\ y.plan \in Plan
<1>1. PICK delete \in BOOLEAN :
        Go(c, [Idle EXCEPT !.pc = "stopping", !.plan = FreshPlan({}, delete),
                           !.todo = {r \in Runs : InQueue(r) \/ Registered(r)}])
  BY DEF BeginTask
<1>2. FreshPlan({}, delete) \in Plan
  BY FreshPlanType
<1> DEFINE todo == {r \in Runs : InQueue(r) \/ Registered(r)}
           y == [Idle EXCEPT !.pc = "stopping", !.plan = FreshPlan({}, delete), !.todo = todo]
<1>3. y \in Caller /\ y.pc = "stopping" /\ y.plan = FreshPlan({}, delete) /\ y.purge = Task
  <2>1. todo \in SUBSET Runs /\ "stopping" \in Pcs
    BY DEF Pcs
  <2>2. Idle.purge = Task
    BY DEF Idle
  <2> HIDE DEF todo
  <2> QED
    BY <1>2, <2>1, <2>2, IdleType DEF Caller
<1> QED
  BY <1>1, <1>2, <1>3

\* The invocation goes on to pc and keeps its plan.
KeepsPlan(c, pc) ==
  \E y \in Caller :
    /\ Go(c, y) /\ y.pc = pc /\ y.next = caller[c].next
    /\ y.purge = caller[c].purge /\ y.plan = caller[c].plan /\ y.run = caller[c].run

\* The invocation is to write known, then to go on to next.
WillPersist(c, known, next) ==
  \E y \in Caller : Go(c, y) /\ y.pc = "persist" /\ y.next = next /\ y.purge = caller[c].purge /\ y.plan = known

LEMMA KeepsPlanForm ==
  ASSUME Typed, NEW c \in Callers, NEW pc \in Pcs, Go(c, [caller[c] EXCEPT !.pc = pc])
  PROVE  KeepsPlan(c, pc)
<1>1. [caller[c] EXCEPT !.pc = pc] \in Caller
  BY Facts DEF Caller
<1> QED
  BY <1>1, Facts DEF KeepsPlan, Caller

LEMMA WillPersistForm ==
  ASSUME Typed, NEW c \in Callers, NEW known \in Plan, NEW next \in Pcs, GoPersist(c, known, next)
  PROVE  WillPersist(c, known, next)
<1> DEFINE y == [caller[c] EXCEPT !.plan = known, !.pc = "persist", !.next = next]
<1>0. caller[c] \in Caller
  BY Facts
<1>1. y.pc = "persist" /\ y.next = next /\ y.purge = caller[c].purge /\ y.plan = known
  BY <1>0 DEF Caller
<1>2. y \in Caller
  BY <1>0 DEF Caller, Pcs
<1> QED
  BY <1>1, <1>2 DEF GoPersist, WillPersist

LEMMA BookkeepingGoes ==
  ASSUME Typed, NEW c \in Callers
  PROVE  /\ CreateTombstone(c) => KeepsPlan(c, "create")
         /\ CreatePlan(c) => KeepsPlan(c, IF caller[c].purge = Task THEN "overlap" ELSE "stage")
         /\ Persist(c) => KeepsPlan(c, caller[c].next)
         /\ Erase(c) => KeepsPlan(c, IF caller[c].purge = Task THEN "clean" ELSE "complete")
         /\ CompleteTombstone(c) => KeepsPlan(c, "clean")
         /\ CompactEvents(c) => WillPersist(c, [caller[c].plan EXCEPT !.events = TRUE], "erase")
         /\ Stage(c) => \/ GiveUp(c)
                        \/ \E q \in NextToStage(caller[c].plan) :
                             LET known == [caller[c].plan EXCEPT !.staged = @ \cup {q}]
                             IN WillPersist(c, known, ToStage(caller[c].purge, known))
<1>0. caller[c] \in Caller /\ caller[c].next \in Pcs /\ (caller[c].pc # "idle" => caller[c].plan \in Plan)
  BY Facts DEF Caller, Grounded
<1>p. {"create", "overlap", "stage", "clean", "complete", "erase", "events", "sync"} \subseteq Pcs
  BY DEF Pcs
<1>1. ASSUME CreateTombstone(c) PROVE KeepsPlan(c, "create")
  BY <1>1, <1>p, KeepsPlanForm DEF CreateTombstone
<1>2. ASSUME CreatePlan(c) PROVE KeepsPlan(c, IF caller[c].purge = Task THEN "overlap" ELSE "stage")
  <2> DEFINE pc == IF caller[c].purge = Task THEN "overlap" ELSE "stage"
  <2>1. pc \in Pcs /\ Go(c, [caller[c] EXCEPT !.pc = pc])
    BY <1>2, <1>p DEF CreatePlan
  <2> HIDE DEF pc
  <2>2. KeepsPlan(c, pc)
    BY <2>1, KeepsPlanForm
  <2> QED
    BY <2>2 DEF pc
<1>3. ASSUME Persist(c) PROVE KeepsPlan(c, caller[c].next)
  BY <1>0, <1>3, KeepsPlanForm DEF Persist
<1>4. ASSUME Erase(c) PROVE KeepsPlan(c, IF caller[c].purge = Task THEN "clean" ELSE "complete")
  <2> DEFINE pc == IF caller[c].purge = Task THEN "clean" ELSE "complete"
  <2>1. pc \in Pcs /\ Go(c, [caller[c] EXCEPT !.pc = pc])
    BY <1>4, <1>p DEF Erase
  <2> HIDE DEF pc
  <2>2. KeepsPlan(c, pc)
    BY <2>1, KeepsPlanForm
  <2> QED
    BY <2>2 DEF pc
<1>5. ASSUME CompleteTombstone(c) PROVE KeepsPlan(c, "clean")
  BY <1>5, <1>p, KeepsPlanForm DEF CompleteTombstone
<1>6. ASSUME CompactEvents(c) PROVE WillPersist(c, [caller[c].plan EXCEPT !.events = TRUE], "erase")
  <2>1. caller[c].plan \in Plan
    BY <1>0, <1>6 DEF CompactEvents, At
  <2>2. [caller[c].plan EXCEPT !.events = TRUE] \in Plan
    BY <2>1 DEF Plan
  <2> QED
    BY <1>6, <1>p, <2>2, WillPersistForm DEF CompactEvents
<1>7. ASSUME Stage(c), ~GiveUp(c)
      PROVE  \E q \in NextToStage(caller[c].plan) :
               LET known == [caller[c].plan EXCEPT !.staged = @ \cup {q}]
               IN WillPersist(c, known, ToStage(caller[c].purge, known))
  <2> DEFINE known(q) == [caller[c].plan EXCEPT !.staged = @ \cup {q}]
  <2>1. caller[c].plan \in Plan
    BY <1>0, <1>7 DEF Stage, At
  <2>2. PICK q \in NextToStage(caller[c].plan) : GoPersist(c, known(q), ToStage(caller[c].purge, known(q)))
    BY <1>7 DEF Stage
  <2>3. q \in Parts
    BY <2>1, NextToStageParts DEF Plan
  <2>4. known(q) \in Plan
    BY <2>1, <2>3 DEF Plan
  <2>5. ToStage(caller[c].purge, known(q)) \in Pcs
    BY <1>p, ToStageSomewhere
  <2> HIDE DEF known
  <2>6. WillPersist(c, known(q), ToStage(caller[c].purge, known(q)))
    BY <2>2, <2>4, <2>5, WillPersistForm
  <2> QED
    BY <2>6 DEF known
<1> QED
  BY <1>1, <1>2, <1>3, <1>4, <1>5, <1>6, <1>7

LEMMA StoppingGoes ==
  ASSUME Typed, NEW c \in Callers, StopRecord(c) \/ Freeze(c)
  PROVE  /\ c \in TaskPurgers
         /\ \E y \in Caller : Go(c, y) /\ Grounded(c, y) /\ (y = Idle \/ y.purge = Task)
<1> DEFINE x == caller[c]
<1>1. /\ x \in Caller /\ x.pc = "stopping" /\ x.plan \in Plan /\ c \in team /\ c \notin RunPurgers /\ x.purge = Task
      /\ x.todo \in SUBSET Runs /\ x.failed \in BOOLEAN
  BY Facts DEF StopRecord, Freeze, At, Grounded, Eff, Caller
<1>2. c \in TaskPurgers
  BY <1>1 DEF Callers
<1>3. CASE StopRecord(c)
  <2>1. PICK r \in x.todo : Go(c, [x EXCEPT !.todo = @ \ {r}, !.failed = @ \/ queue[r] = "dispatching"])
    BY <1>3 DEF StopRecord
  <2> DEFINE busy == x.failed \/ queue[r] = "dispatching"
             y == [x EXCEPT !.todo = @ \ {r}, !.failed = busy]
  <2>2. busy \in BOOLEAN
    BY <1>1
  <2>3. y \in Caller /\ y.pc = "stopping" /\ y.plan = x.plan /\ y.purge = Task
    <3> HIDE DEF busy
    <3> QED
      BY <1>1, <2>2 DEF Caller
  <2>4. Go(c, y)
    BY <2>1, <1>1 DEF Caller
  <2>5. Grounded(c, y)
    BY <1>1, <2>3 DEF Grounded, Eff
  <2> QED
    BY <1>2, <2>3, <2>4, <2>5
<1>4. CASE Freeze(c)
  <2>1. CASE GiveUp(c)
    BY <1>2, <2>1, IdleType DEF GiveUp, Grounded, Idle
  <2>2. CASE Go(c, [x EXCEPT !.pc = "create", !.plan.parts = PartsOf(Runs)])
    <3> DEFINE known == [x.plan EXCEPT !.parts = PartsOf(Runs)]
               y == [x EXCEPT !.pc = "create", !.plan = known]
    <3>1. known \in Plan
      BY <1>1, PartsType DEF Plan
    <3>2. [x EXCEPT !.pc = "create", !.plan.parts = PartsOf(Runs)] = y
      BY <1>1 DEF Caller
    <3>3. y \in Caller /\ y.pc = "create" /\ y.plan = known /\ y.purge = Task
      <4> HIDE DEF known
      <4> QED
        BY <1>1, <3>1 DEF Caller, Pcs
    <3>4. Grounded(c, y)
      BY <1>1, <3>1, <3>3 DEF Grounded, Eff
    <3> QED
      BY <1>2, <2>2, <3>2, <3>3, <3>4
  <2> QED
    BY <1>4, <2>1, <2>2 DEF Freeze
<1> QED
  BY <1>3, <1>4

LEMMA BookkeepingTyped ==
  ASSUME Typed, NEW c \in Callers, Bookkeeping(c)
  PROVE  Typed'
<1>0. WorldOK' /\ LeaseTypeOK' /\ team' = team
  BY BookkeepingWorld, BookkeepingLeaves, TypedParts DEF LeaseTypeOK
<1>1. caller[c] \in Caller /\ Grounded(c, caller[c]) /\ caller \in [Callers -> Caller]
  BY Facts, TypedParts
<1>2. ASSUME NEW y \in Caller, Go(c, y), Grounded(c, y) PROVE Typed'
  BY <1>0, <1>2, GoTyped
<1>3. CASE GiveUp(c)
  BY <1>0, <1>3, GiveUpTyped
<1>4. ASSUME NEW pc, KeepsPlan(c, pc), caller[c].plan \in Plan, c \in team, caller[c].pc # "idle",
             \/ pc \in {"create", "overlap", "stage", "clean"}
             \/ pc = "complete" /\ c \in RunPurgers
             \/ pc = caller[c].next /\ caller[c].pc = "persist"
      PROVE  Typed'
  <2>1. PICK y \in Caller :
          /\ Go(c, y) /\ y.pc = pc /\ y.next = caller[c].next
          /\ y.purge = caller[c].purge /\ y.plan = caller[c].plan /\ y.run = caller[c].run
    BY <1>4 DEF KeepsPlan
  <2>2. CASE pc \in {"create", "overlap", "stage", "clean"} \/ (pc = "complete" /\ c \in RunPurgers)
    <3>1. Eff(y) = pc
      BY <2>1, <2>2 DEF Eff
    <3>2. Grounded(c, y)
      BY <1>1, <1>4, <2>1, <2>2, <3>1 DEF Grounded
    <3> QED
      BY <1>2, <2>1, <3>2
  <2>3. CASE pc = caller[c].next /\ caller[c].pc = "persist"
    <3>1. Eff(y) = Eff(caller[c])
      BY <2>1, <2>3 DEF Eff
    <3>2. Grounded(c, y)
      BY <1>1, <1>4, <2>1, <2>3, <3>1 DEF Grounded
    <3> QED
      BY <1>2, <2>1, <3>2
  <2> QED
    BY <1>4, <2>2, <2>3
<1>5. ASSUME NEW known \in Plan, NEW next, WillPersist(c, known, next), c \in team, caller[c].pc # "idle",
             next \in {"erase", "stage", "events", "sync", "overlap"}
      PROVE  Typed'
  <2>1. PICK y \in Caller : Go(c, y) /\ y.pc = "persist" /\ y.next = next /\ y.purge = caller[c].purge /\ y.plan = known
    BY <1>5 DEF WillPersist
  <2>2. Eff(y) = next
    BY <2>1 DEF Eff
  <2>3. Grounded(c, y)
    BY <1>1, <1>5, <2>1, <2>2 DEF Grounded
  <2> QED
    BY <1>2, <2>1, <2>3
<1>6. ASSUME NEW pc \in Pcs \ {"idle"}, At(c, pc)
      PROVE  caller[c].pc = pc /\ caller[c].plan \in Plan /\ caller[c].next \in Pcs /\ c \in team
  BY <1>1, <1>6 DEF At, Grounded, Caller
<1>7. CASE \E r \in Runs : BeginRun(c, r)
  <2>1. PICK r \in Runs : BeginRun(c, r)
    BY <1>7
  <2>2. PICK delete \in BOOLEAN, y \in Caller :
          Go(c, y) /\ y.pc = "tombstone" /\ y.purge = r /\ y.plan = FreshPlan(PartsOf({r}), delete)
    BY <2>1, BeginRunGoes
  <2>3. Grounded(c, y)
    BY <2>1, <2>2, FreshPlanType, PartsType DEF Grounded, Eff, BeginRun, At
  <2> QED
    BY <1>2, <2>2, <2>3
<1>8. CASE BeginTask(c)
  <2>1. PICK y \in Caller : Go(c, y) /\ y.pc = "stopping" /\ y.purge = Task /\ y.plan \in Plan
    BY <1>8, BeginTaskGoes
  <2>2. Grounded(c, y)
    BY <1>8, <2>1, PurgeAssumptions DEF Grounded, Eff, BeginTask, At
  <2> QED
    BY <1>2, <2>1, <2>2
<1>9. CASE \E p \in Purges : Resume(c, p)
  <2>1. PICK p \in Purges : Resume(c, p)
    BY <1>9
  <2>2. CASE caller' = caller
    <3>1. caller' \in [Callers -> Caller] /\ \A d \in Callers : Grounded(d, caller[d])
      BY <2>2, TypedParts
    <3> QED
      BY <1>0, <2>2, <3>1, TypedParts, StillTyped
  <2>3. CASE caller' # caller
    <3>1. PICK y \in Caller :
            /\ Go(c, y) /\ y.purge = p /\ y.plan = plan[p] /\ plan[p] \in Plan
            /\ y.pc = IF p = Task THEN "overlap" ELSE ToStage(p, plan[p])
      BY <2>1, <2>3, ResumeGoes
    <3>2. y.pc \in {"stage", "events", "sync", "overlap"}
      BY <3>1, ToStageSomewhere
    <3>3. c \in team /\ (c \in RunPurgers <=> p # Task) /\ (p # Task => p \in Runs)
      BY <2>1, PurgeAssumptions DEF Resume, At, Purges
    <3>4. Grounded(c, y)
      BY <3>1, <3>2, <3>3 DEF Grounded, Eff
    <3> QED
      BY <1>2, <3>1, <3>4
  <2> QED
    BY <2>2, <2>3
<1>10. CASE CreateTombstone(c) \/ CreatePlan(c) \/ Persist(c) \/ Erase(c) \/ CompleteTombstone(c)
  <2>0. caller[c].pc # "idle" /\ caller[c].plan \in Plan /\ c \in team
    BY <1>1, <1>10 DEF Grounded, CreateTombstone, CreatePlan, Persist, Erase, CompleteTombstone, At
  <2>1. CASE CreateTombstone(c)
    <3>1. KeepsPlan(c, "create")
      BY <2>1, BookkeepingGoes
    <3> QED
      BY <1>4, <2>0, <3>1
  <2>2. CASE CreatePlan(c)
    <3>1. KeepsPlan(c, "overlap") \/ KeepsPlan(c, "stage")
      BY <2>2, BookkeepingGoes
    <3> QED
      BY <1>4, <2>0, <3>1
  <2>3. CASE Persist(c)
    <3>1. KeepsPlan(c, caller[c].next) /\ caller[c].pc = "persist"
      BY <2>3, BookkeepingGoes DEF Persist, At
    <3> QED
      BY <1>4, <2>0, <3>1
  <2>4. CASE Erase(c)
    <3>1. caller[c].purge = Task \/ c \in RunPurgers
      BY <1>1, <2>0 DEF Grounded
    <3>2. IF caller[c].purge = Task THEN KeepsPlan(c, "clean") ELSE KeepsPlan(c, "complete")
      BY <2>4, BookkeepingGoes
    <3> QED
      BY <1>4, <2>0, <3>1, <3>2
  <2>5. CASE CompleteTombstone(c)
    <3>1. KeepsPlan(c, "clean")
      BY <2>5, BookkeepingGoes
    <3> QED
      BY <1>4, <2>0, <3>1
  <2> QED
    BY <1>10, <2>1, <2>2, <2>3, <2>4, <2>5
<1>11. CASE CompactEvents(c)
  <2>1. [caller[c].plan EXCEPT !.events = TRUE] \in Plan
    BY <1>6, <1>11 DEF CompactEvents, Pcs, Plan
  <2> QED
    BY <1>5, <1>6, <1>11, <2>1, BookkeepingGoes DEF CompactEvents, Pcs
<1>12. CASE Stage(c)
  <2> DEFINE known(q) == [caller[c].plan EXCEPT !.staged = @ \cup {q}]
  <2>1. CASE ~GiveUp(c)
    <3>1. caller[c].plan \in Plan /\ c \in team /\ caller[c].pc # "idle"
      BY <1>6, <1>12 DEF Stage, Pcs
    <3>2. PICK q \in NextToStage(caller[c].plan) : WillPersist(c, known(q), ToStage(caller[c].purge, known(q)))
      BY <1>12, <2>1, BookkeepingGoes
    <3>3. known(q) \in Plan
      BY <3>1, NextToStageParts DEF Plan
    <3> HIDE DEF known
    <3> QED
      BY <1>5, <3>1, <3>2, <3>3, ToStageSomewhere
  <2> QED
    BY <1>3, <2>1
<1>13. CASE Clean(c)
  BY <1>3, <1>13 DEF Clean
<1>14. CASE StopRecord(c) \/ Freeze(c)
  BY <1>2, <1>14, StoppingGoes
<1> QED
  BY <1>7, <1>8, <1>9, <1>10, <1>11, <1>12, <1>13, <1>14 DEF Bookkeeping

LEMMA NextParts ==
  Next => Surroundings \/ \E c \in Callers : Middle(c) \/ Bookkeeping(c)
BY DEF Next, Surroundings, Middle, Bookkeeping, Step, Resumes

LEMMA NextTyped == Typed /\ [Next]_vars => Typed'
<1>1. Typed /\ Next => Typed'
  BY NextParts, SurroundingsTyped, MiddleTyped, BookkeepingTyped
<1>2. Typed /\ UNCHANGED vars => Typed'
  BY StillTyped, TypedParts DEF vars, records, LeaseTypeOK, WorldOK
<1> QED
  BY <1>1, <1>2

\* What plan, tombstones, leases and invocations hold is of the shape that the code
\* gives it, in any interleaving of any number of purges with the other commands.
THEOREM TypeCorrect == Spec => []TypeOK
<1>1. Spec => []Typed
  BY InitTyped, NextTyped, PTL DEF Spec
<1>2. Typed => TypeOK
  BY DEF Typed
<1> QED
  BY <1>1, <1>2, PTL

(***************************************************************************)
(* Purged runs stay gone.  What purge-run relies on, run by run, when no   *)
(* purge-task works beside it.                                             *)
(***************************************************************************)
\* Nothing is queued or under way, and nothing can be behind a tombstone.
Calm(r) == queue[r] \in {"absent", "prepared", "dispatched", "failed"} /\ exec[r] \in {"absent", "failed"}

\* Before there is a tombstone the run is safe because it still has a record.
Settled(r) == IF tombstone[r] = "none" THEN Failed(r) ELSE Calm(r)

\* Plan pl of r knows every record there still is, and what it says of the events is true.
Good(r, pl) ==
  /\ pl.parts # {} /\ pl.parts \subseteq {QueuePart(r), ExecPart(r)}
  /\ InQueue(r) => QueuePart(r) \in pl.parts \ pl.staged
  /\ Registered(r) => ExecPart(r) \in pl.parts \ pl.staged
  /\ pl.events => r \notin events

\* An invocation that remembers x and purges r.
OnCourse(r, x) ==
  /\ Settled(r) /\ Good(r, x.plan)
  /\ Eff(x) # "tombstone" \/ x.pc = "persist" => tombstone[r] # "none"
  /\ Eff(x) \notin {"tombstone", "create", "stage"} => x.plan.parts \subseteq x.plan.staged
  /\ Eff(x) \in {"erase", "complete", "clean"} => x.plan.events

Busy(c, r) == caller[c].pc # "idle" /\ caller[c].purge = r

OnlyGone(r) == ~InQueue(r) /\ ~Registered(r) /\ r \notin events

RunInv(r) ==
  /\ tombstone[r] # "none" => Calm(r)
  /\ plan[r] # NoPlan => tombstone[r] # "none" /\ Good(r, plan[r])
  /\ tombstone[r] = "purged" => OnlyGone(r)
  /\ \A c \in Callers : Busy(c, r) => OnCourse(r, caller[c])
  /\ \A c, d \in Callers : Busy(c, r) /\ Busy(d, r) => c = d

\* What a step may do to the records and events of a settled run.
Undisturbed(r) ==
  /\ Settled(r)'
  /\ InQueue(r)' => InQueue(r)
  /\ Registered(r)' => Registered(r)
  /\ r \in events' => r \in events

LEMMA GoodKept ==
  ASSUME NEW r \in Runs, NEW pl, Good(r, pl), Undisturbed(r)
  PROVE  /\ pl.parts # {} /\ pl.parts \subseteq {QueuePart(r), ExecPart(r)}
         /\ InQueue(r)' => QueuePart(r) \in pl.parts \ pl.staged
         /\ Registered(r)' => ExecPart(r) \in pl.parts \ pl.staged
         /\ pl.events => r \notin events'
BY DEF Good, Undisturbed

LEMMA SurroundingsUndisturb ==
  ASSUME Typed, Surroundings, NEW r \in Runs, Settled(r)
  PROVE  Undisturbed(r)
<1>0. /\ queue \in [Runs -> QueueStatuses] /\ exec \in [Runs -> ExecStatuses]
      /\ tombstone \in [Runs -> {"none", "purging", "purged"}]
  BY TypedParts DEF WorldOK
<1>1. queue[r] \in {"absent", "prepared", "dispatched", "failed"} /\ exec[r] \in {"absent", "failed"}
  BY DEF Settled, Calm, Failed, Registered
<1>2. tombstone' = tombstone
  BY DEF Surroundings, Prepare, Submit, Reserve, Launches, Launch, LaunchFails, Launched, Finish, StrayRemoves,
         ExpireMaintenance
<1>3. ASSUME UNCHANGED <<queue[r], exec[r]>>, r \in events' => r \in events PROVE Undisturbed(r)
  BY <1>2, <1>3 DEF Undisturbed, Settled, Calm, Failed, InQueue, Registered
<1>4. ASSUME NEW s \in Runs, Prepare(s) PROVE Undisturbed(r)
  BY <1>0, <1>1, <1>2, <1>3, <1>4 DEF Prepare, Undisturbed, Settled, Calm, Failed, InQueue, Registered
<1>5. ASSUME NEW s \in Runs, Submit(s) PROVE Undisturbed(r)
  BY <1>0, <1>1, <1>2, <1>3, <1>5 DEF Submit, Undisturbed, Settled, Calm, Failed, InQueue, Registered
<1>6. ASSUME NEW s \in Runs, Reserve(s) PROVE Undisturbed(r)
  BY <1>0, <1>1, <1>3, <1>6 DEF Reserve
<1>7. ASSUME NEW s \in Runs, Launches(s) PROVE Undisturbed(r)
  <2>1. PICK e \in ExecStatuses, q \in QueueStatuses : Launched(s, e, q)
    BY <1>7 DEF Launches, Launch, LaunchFails, ExecStatuses, QueueStatuses
  <2>2. s # r
    BY <1>1, <2>1 DEF Launched
  <2> QED
    BY <1>0, <1>3, <2>1, <2>2 DEF Launched
<1>8. ASSUME NEW s \in Runs, Finish(s) PROVE Undisturbed(r)
  BY <1>0, <1>1, <1>3, <1>8 DEF Finish
<1>9. CASE StrayRemoves \/ ExpireMaintenance
  BY <1>3, <1>9 DEF StrayRemoves, ExpireMaintenance, records, Outside
<1> QED
  BY <1>4, <1>5, <1>6, <1>7, <1>8, <1>9 DEF Surroundings

LEMMA StagedAll ==
  ASSUME NEW r \in Runs, NEW pl, pl.parts \subseteq {QueuePart(r), ExecPart(r)}, NextToStage(pl) = {}
  PROVE  pl.parts \subseteq pl.staged
<1>1. QueuePart(r)[2] = "queue" /\ ExecPart(r)[2] = "exec" /\ ExecPart(r)[1] = r
  BY DEF QueuePart, ExecPart
<1>2. ASSUME QueuePart(r) \in pl.parts \ pl.staged PROVE FALSE
  BY <1>1, <1>2 DEF NextToStage
<1>3. ASSUME ExecPart(r) \in pl.parts \ pl.staged PROVE FALSE
  <2>1. CASE QueuePart(r) \in pl.parts
    BY <1>1, <1>2, <1>3, <2>1 DEF NextToStage
  <2>2. CASE QueuePart(r) \notin pl.parts
    BY <1>1, <1>3, <2>2 DEF NextToStage
  <2> QED
    BY <2>1, <2>2
<1> QED
  BY <1>2, <1>3

LEMMA UnchangedUndisturbs ==
  ASSUME NEW r \in Runs, Settled(r), UNCHANGED <<queue[r], exec[r]>>, r \in events' => r \in events,
         tombstone'[r] = tombstone[r] \/ tombstone'[r] # "none"
  PROVE  Undisturbed(r)
BY DEF Undisturbed, Settled, Calm, Failed, InQueue, Registered

LEMMA OnCourseKept ==
  ASSUME NEW r \in Runs, NEW x, OnCourse(r, x), Undisturbed(r), tombstone[r] # "none" => tombstone'[r] # "none"
  PROVE  OnCourse(r, x)'
<1>1. Good(r, x.plan)'
  BY GoodKept DEF OnCourse, Good
<1> QED
  BY <1>1 DEF OnCourse, Eff, Undisturbed

\* A step keeps what is known of run r when it does no more than this.
LEMMA RunKept ==
  ASSUME Typed, NEW r \in Runs, RunInv(r), NEW c \in Callers, NEW y \in Caller, Go(c, y),
         Settled(r) => Undisturbed(r),
         tombstone[r] # "none" => tombstone'[r] # "none",
         tombstone'[r] # "none" => Settled(r),
         tombstone'[r] = "purged" => tombstone[r] = "purged" \/ OnlyGone(r),
         plan'[r] \in {plan[r], NoPlan} \/ (tombstone'[r] # "none" /\ Good(r, plan'[r])),
         y.pc # "idle" /\ y.purge = r => OnCourse(r, y)' /\ \A d \in Callers \ {c} : ~Busy(d, r)
  PROVE  RunInv(r)'
<1>0. caller' = [caller EXCEPT ![c] = y] /\ caller \in [Callers -> Caller]
  BY TypedParts DEF Go
<1>1. tombstone'[r] # "none" => Calm(r)'
  BY DEF Undisturbed, Settled
<1>2. plan'[r] # NoPlan => tombstone'[r] # "none" /\ Good(r, plan[r])'
  <2>1. SUFFICES ASSUME plan'[r] # NoPlan PROVE tombstone'[r] # "none" /\ Good(r, plan[r])'
    OBVIOUS
  <2>2. tombstone'[r] # "none" /\ Good(r, plan'[r])
    BY <2>1 DEF RunInv
  <2>3. Undisturbed(r)
    BY <2>2
  <2>4. PICK pl : pl = plan'[r]
    OBVIOUS
  <2>5. Good(r, pl)
    BY <2>2, <2>4
  <2> QED
    BY <2>2, <2>3, <2>4, <2>5, GoodKept DEF Good
<1>3. tombstone'[r] = "purged" => OnlyGone(r)'
  BY DEF RunInv, Undisturbed, OnlyGone
<1>4. ASSUME NEW d \in Callers, Busy(d, r)' PROVE OnCourse(r, caller[d])' /\ (d # c => Busy(d, r))
  <2>1. CASE d = c
    BY <1>0, <1>4, <2>1 DEF Busy, OnCourse, Eff, Good, Settled, Calm, Failed, InQueue, Registered
  <2>2. CASE d # c
    <3>1. caller'[d] = caller[d]
      BY <1>0, <2>2
    <3>2. Busy(d, r) /\ OnCourse(r, caller[d])
      BY <1>4, <3>1 DEF Busy, RunInv
    <3>3. PICK x : x = caller[d]
      OBVIOUS
    <3>4. OnCourse(r, x)'
      BY <3>2, <3>3, OnCourseKept DEF OnCourse
    <3>5. OnCourse(r, caller[d])'
      BY <3>1, <3>3, <3>4 DEF OnCourse, Eff, Good, Settled, Calm, Failed, InQueue, Registered
    <3> QED
      BY <3>2, <3>5
  <2> QED
    BY <2>1, <2>2
<1>5. \A d, e \in Callers : Busy(d, r)' /\ Busy(e, r)' => d = e
  <2>1. SUFFICES ASSUME NEW d \in Callers, NEW e \in Callers, Busy(d, r)', Busy(e, r)', d # e PROVE FALSE
    OBVIOUS
  <2>2. CASE d # c /\ e # c
    BY <1>4, <2>1, <2>2 DEF RunInv
  <2>3. CASE d = c \/ e = c
    <3>1. y.pc # "idle" /\ y.purge = r
      BY <1>0, <2>1, <2>3 DEF Busy
    <3> QED
      BY <1>4, <2>1, <2>3, <3>1
  <2> QED
    BY <2>2, <2>3
<1> QED
  BY <1>1, <1>2, <1>3, <1>4, <1>5 DEF RunInv

(***************************************************************************)
(* The steps of invocations of purge-run.                                  *)
(***************************************************************************)
RunsOnly == team \cap TaskPurgers = {}
AllRuns == \A r \in Runs : RunInv(r)

LEMMA OwnTurn ==
  ASSUME Typed, RunsOnly, AllRuns, NEW c \in Callers, caller[c].pc # "idle"
  PROVE  /\ c \in RunPurgers /\ caller[c].purge \in Runs /\ caller[c].purge # Task
         /\ Busy(c, caller[c].purge) /\ OnCourse(caller[c].purge, caller[c])
         /\ \A d \in Callers \ {c} : ~Busy(d, caller[c].purge)
<1>1. c \in team /\ Grounded(c, caller[c])
  BY Facts DEF Grounded
<1>2. c \in RunPurgers
  BY <1>1 DEF RunsOnly, Callers
<1>3. caller[c].purge \in Runs /\ caller[c].purge # Task
  BY <1>1, <1>2, PurgeAssumptions DEF Grounded
<1>4. RunInv(caller[c].purge) /\ Busy(c, caller[c].purge)
  BY <1>3 DEF AllRuns, Busy
<1> QED
  BY <1>2, <1>3, <1>4 DEF RunInv

\* The records, the plans and the events are left alone, the tombstones too.
LEMMA MiddleKeeps ==
  ASSUME Typed, RunsOnly, AllRuns, NEW c \in Callers, Middle(c)
  PROVE  AllRuns'
<1>0. UNCHANGED <<queue, exec, tombstone, plan, events>>
  BY MiddleLeaves
<1>1. PICK y \in Caller : Go(c, y) /\ Carries(c, caller[c], y)
  BY MiddleGoes DEF GoesOn
<1>2. caller[c].pc # "idle"
  BY DEF Middle, CheckOverlap, PurgeSync, NextArtifact, Recheck, Removed, ReleaseArtifact, ArtifactsDone,
         LeaseForWorktree, RemoveWorktree, ReleaseWorktree, Lost, Hindered, Dies, At
<1> DEFINE p == caller[c].purge
<1>3. /\ c \in RunPurgers /\ p \in Runs /\ OnCourse(p, caller[c])
      /\ \A d \in Callers \ {c} : ~Busy(d, p)
  BY <1>2, OwnTurn
<1>4. \A r \in Runs : Settled(r) => Undisturbed(r)
  BY <1>0, UnchangedUndisturbs
<1>5. y.pc # "idle" => y.purge = p /\ OnCourse(p, y)
  <2>1. SUFFICES ASSUME y.pc # "idle" PROVE y.purge = p /\ OnCourse(p, y)
    OBVIOUS
  <2>2. /\ y.purge = p /\ y.plan.parts = caller[c].plan.parts /\ y.plan.staged = caller[c].plan.staged
        /\ y.plan.events = caller[c].plan.events
        /\ Eff(caller[c]) \in MiddlePcs /\ Eff(y) \in MiddlePcs \cup {"events"}
    BY <1>1, <1>3, <2>1 DEF Carries, Idle
  <2> QED
    BY <1>3, <2>2 DEF OnCourse, Good, MiddlePcs
<1>6. ASSUME NEW r \in Runs PROVE RunInv(r)'
  <2>1. y.pc # "idle" /\ y.purge = r => OnCourse(r, y)' /\ \A d \in Callers \ {c} : ~Busy(d, r)
    BY <1>0, <1>3, <1>4, <1>5, OnCourseKept DEF OnCourse
  <2>2. RunInv(r)
    BY DEF AllRuns
  <2> QED
    BY <1>0, <1>1, <1>4, <2>1, <2>2, RunKept DEF RunInv, Settled
<1> QED
  BY <1>6 DEF AllRuns

\* A step of an invocation at work that leaves the records, the events and the
\* tombstones alone, and writes to plan.yaml only what is true of its own run.
LEMMA QuietStep ==
  ASSUME Typed, RunsOnly, AllRuns, NEW c \in Callers, caller[c].pc # "idle",
         UNCHANGED <<queue, exec, tombstone, events>>, NEW y \in Caller, Go(c, y),
         \A r \in Runs :
           plan'[r] \in {plan[r], NoPlan} \/ (r = caller[c].purge /\ tombstone[r] # "none" /\ plan'[r] = caller[c].plan),
         y.pc # "idle" => y.purge = caller[c].purge /\ OnCourse(caller[c].purge, y)
  PROVE  AllRuns'
<1> DEFINE p == caller[c].purge
<1>1. p \in Runs /\ OnCourse(p, caller[c]) /\ \A d \in Callers \ {c} : ~Busy(d, p)
  BY OwnTurn
<1>2. \A r \in Runs : Settled(r) => Undisturbed(r)
  BY UnchangedUndisturbs
<1>3. ASSUME NEW r \in Runs PROVE RunInv(r)'
  <2>1. y.pc # "idle" /\ y.purge = r => OnCourse(r, y)' /\ \A d \in Callers \ {c} : ~Busy(d, r)
    BY <1>1, <1>2, OnCourseKept DEF OnCourse
  <2>2. RunInv(r)
    BY DEF AllRuns
  <2>3. plan'[r] \in {plan[r], NoPlan} \/ (tombstone'[r] # "none" /\ Good(r, plan'[r]))
    BY <1>1 DEF OnCourse
  <2> QED
    BY <1>2, <2>1, <2>2, <2>3, RunKept DEF RunInv, Settled
<1> QED
  BY <1>3 DEF AllRuns

LEMMA WritingKeeps ==
  ASSUME Typed, RunsOnly, AllRuns, NEW c \in Callers, CreatePlan(c) \/ Persist(c) \/ Erase(c) \/ Clean(c)
  PROVE  AllRuns'
<1> DEFINE x == caller[c]
<1>0. x.pc # "idle" /\ plan \in [Purges -> Plan \cup {NoPlan}]
  BY TypedParts DEF WorldOK, CreatePlan, Persist, Erase, Clean, At
<1>1. x.purge \in Runs /\ x.purge # Task /\ OnCourse(x.purge, x)
  BY <1>0, OwnTurn
<1>2. UNCHANGED <<queue, exec, tombstone, events>>
  BY DEF CreatePlan, Persist, Erase, Clean, records, Outside
<1>3. CASE CreatePlan(c)
  <2>1. PICK y \in Caller : Go(c, y) /\ y.pc = "stage" /\ y.purge = x.purge /\ y.plan = x.plan
    BY <1>1, <1>3, BookkeepingGoes DEF KeepsPlan
  <2>2. x.pc = "create" /\ plan' = [plan EXCEPT ![x.purge] = x.plan]
    BY <1>3 DEF CreatePlan, At
  <2>3. OnCourse(x.purge, y)
    BY <1>1, <2>1, <2>2 DEF OnCourse, Eff
  <2>4. tombstone[x.purge] # "none"
    BY <1>1, <2>2 DEF OnCourse, Eff
  <2> QED
    BY <1>0, <1>2, <2>1, <2>2, <2>3, <2>4, QuietStep DEF Purges
<1>4. CASE Persist(c)
  <2>1. PICK y \in Caller : Go(c, y) /\ y.pc = x.next /\ y.next = x.next /\ y.purge = x.purge /\ y.plan = x.plan
    BY <1>4, BookkeepingGoes DEF KeepsPlan
  <2>2. x.pc = "persist" /\ plan' = [plan EXCEPT ![x.purge] = x.plan]
    BY <1>4 DEF Persist, At
  <2>3. Eff(y) = Eff(x)
    BY <2>1, <2>2 DEF Eff
  <2>4. OnCourse(x.purge, y)
    BY <1>1, <2>1, <2>2, <2>3 DEF OnCourse
  <2>5. tombstone[x.purge] # "none"
    BY <1>1, <2>2 DEF OnCourse
  <2> QED
    BY <1>0, <1>2, <2>1, <2>2, <2>4, <2>5, QuietStep DEF Purges
<1>5. CASE Erase(c)
  <2>1. PICK y \in Caller : Go(c, y) /\ y.pc = "complete" /\ y.purge = x.purge /\ y.plan = x.plan
    BY <1>1, <1>5, BookkeepingGoes DEF KeepsPlan
  <2>2. x.pc = "erase" /\ plan' = plan
    BY <1>5 DEF Erase, At
  <2>3. OnCourse(x.purge, y)
    BY <1>1, <2>1, <2>2 DEF OnCourse, Eff
  <2> QED
    BY <1>0, <1>2, <2>1, <2>2, <2>3, QuietStep
<1>6. CASE Clean(c)
  <2>1. plan' = [plan EXCEPT ![x.purge] = NoPlan] /\ Go(c, Idle) /\ Idle.pc = "idle"
    BY <1>6 DEF Clean, GiveUp, Idle
  <2>2. \A r \in Runs : plan'[r] \in {plan[r], NoPlan}
    BY <1>0, <2>1 DEF Purges
  <2> QED
    BY <1>0, <1>2, <2>1, <2>2, IdleType, QuietStep
<1> QED
  BY <1>3, <1>4, <1>5, <1>6

\* The step is about run p alone.
LEMMA OwnRunStep ==
  ASSUME Typed, RunsOnly, AllRuns, NEW c \in Callers, NEW p \in Runs, plan' = plan, NEW y \in Caller, Go(c, y),
         \A r \in Runs \ {p} : UNCHANGED <<queue[r], exec[r], tombstone[r]>> /\ (r \in events' => r \in events),
         Settled(p) => Undisturbed(p),
         tombstone[p] # "none" => tombstone'[p] # "none",
         tombstone'[p] # "none" => Settled(p),
         tombstone'[p] = "purged" => tombstone[p] = "purged" \/ OnlyGone(p),
         y.pc # "idle" => y.purge = p /\ OnCourse(p, y)' /\ \A d \in Callers \ {c} : ~Busy(d, p)
  PROVE  AllRuns'
<1>1. ASSUME NEW r \in Runs PROVE RunInv(r)'
  <2>0. RunInv(r)
    BY DEF AllRuns
  <2>1. CASE r = p
    BY <2>0, <2>1, RunKept
  <2>2. CASE r # p
    <3>1. Settled(r) => Undisturbed(r)
      BY <2>2, UnchangedUndisturbs
    <3> QED
      BY <2>0, <2>2, <3>1, RunKept DEF RunInv, Settled
  <2> QED
    BY <2>1, <2>2
<1> QED
  BY <1>1 DEF AllRuns

LEMMA TombstoneKeeps ==
  ASSUME Typed, RunsOnly, AllRuns, NEW c \in Callers, CreateTombstone(c) \/ CompleteTombstone(c)
  PROVE  AllRuns'
<1> DEFINE x == caller[c]
<1>0. x.pc # "idle" /\ tombstone \in [Runs -> {"none", "purging", "purged"}]
  BY TypedParts DEF WorldOK, CreateTombstone, CompleteTombstone, At
<1>p. PICK p \in Runs : p = x.purge
  BY <1>0, OwnTurn
<1>1. OnCourse(p, x) /\ \A d \in Callers \ {c} : ~Busy(d, p)
  BY <1>0, <1>p, OwnTurn
<1>2. UNCHANGED <<queue, exec, plan, events>>
  BY DEF CreateTombstone, CompleteTombstone, records, Outside
<1>3. tombstone'[p] # "none" /\ \A r \in Runs \ {p} : tombstone'[r] = tombstone[r]
  BY <1>0, <1>p DEF CreateTombstone, CompleteTombstone
<1>4. Settled(p) /\ Undisturbed(p)
  BY <1>1, <1>2, <1>3, UnchangedUndisturbs DEF OnCourse
<1>5. CASE CreateTombstone(c)
  <2>1. PICK y \in Caller : Go(c, y) /\ y.pc = "create" /\ y.purge = p /\ y.plan = x.plan
    BY <1>5, <1>p, BookkeepingGoes DEF KeepsPlan
  <2>2. Good(p, y.plan)
    BY <1>1, <2>1 DEF OnCourse
  <2>3. tombstone'[p] # "none" /\ (tombstone'[p] = "purged" => tombstone[p] = "purged")
    BY <1>0, <1>p, <1>5 DEF CreateTombstone
  <2>4. Good(p, y.plan)' /\ Settled(p)'
    BY <1>4, <2>2, GoodKept DEF Good, Undisturbed
  <2>5. OnCourse(p, y)'
    BY <2>1, <2>3, <2>4 DEF OnCourse, Eff
  <2> QED
    BY <1>1, <1>2, <1>3, <1>4, <2>1, <2>3, <2>5, OwnRunStep
<1>6. CASE CompleteTombstone(c)
  <2>1. PICK y \in Caller : Go(c, y) /\ y.pc = "clean" /\ y.purge = p /\ y.plan = x.plan
    BY <1>6, <1>p, BookkeepingGoes DEF KeepsPlan
  <2>2. x.pc = "complete"
    BY <1>6 DEF CompleteTombstone, At
  <2>3. OnlyGone(p) /\ OnCourse(p, y)
    BY <1>1, <2>1, <2>2 DEF OnCourse, OnlyGone, Good, Eff
  <2>4. OnCourse(p, y)'
    BY <1>3, <1>4, <2>3, OnCourseKept
  <2> QED
    BY <1>1, <1>2, <1>3, <1>4, <2>1, <2>3, <2>4, OwnRunStep
<1> QED
  BY <1>5, <1>6

LEMMA CompactKeeps ==
  ASSUME Typed, RunsOnly, AllRuns, NEW c \in Callers, CompactEvents(c)
  PROVE  AllRuns'
<1> DEFINE x == caller[c]
           known == [x.plan EXCEPT !.events = TRUE]
<1>0. x.pc = "events" /\ x.plan \in Plan
  BY Facts DEF CompactEvents, At, Grounded
<1>p. PICK p \in Runs : p = x.purge
  BY <1>0, OwnTurn
<1>1. OnCourse(p, x) /\ \A d \in Callers \ {c} : ~Busy(d, p)
  BY <1>0, <1>p, OwnTurn
<1>2. UNCHANGED <<queue, exec, tombstone, plan>> /\ events' \subseteq events
  BY DEF CompactEvents, records
<1>3. p \in RunsOf(x.plan)
  <2>1. PICK q : q \in x.plan.parts
    BY <1>1 DEF OnCourse, Good
  <2>2. q[1] = p
    BY <1>1, <2>1 DEF OnCourse, Good, QueuePart, ExecPart
  <2> QED
    BY <2>1, <2>2 DEF RunsOf
<1>4. p \notin events'
  BY <1>1, <1>3 DEF CompactEvents, OnCourse, Good
<1>5. Settled(p) /\ Undisturbed(p)
  BY <1>1, <1>2, UnchangedUndisturbs DEF OnCourse
<1>6. PICK y \in Caller : Go(c, y) /\ y.pc = "persist" /\ y.next = "erase" /\ y.purge = p /\ y.plan = known
  BY <1>p, BookkeepingGoes DEF WillPersist
<1>7. y.plan.parts = x.plan.parts /\ y.plan.staged = x.plan.staged /\ y.plan.events = TRUE
  BY <1>0, <1>6 DEF Plan
<1>8. x.plan.parts \subseteq x.plan.staged /\ tombstone[p] # "none" /\ Good(p, x.plan)
  BY <1>0, <1>1 DEF OnCourse, Eff
<1>9. OnCourse(p, y)'
  <2>1. PICK pl : pl = x.plan
    OBVIOUS
  <2>2. /\ pl.parts # {} /\ pl.parts \subseteq {QueuePart(p), ExecPart(p)}
        /\ InQueue(p)' => QueuePart(p) \in pl.parts \ pl.staged
        /\ Registered(p)' => ExecPart(p) \in pl.parts \ pl.staged
    BY <1>5, <1>8, <2>1, GoodKept
  <2>3. Good(p, y.plan)'
    BY <1>4, <1>7, <2>1, <2>2 DEF Good
  <2>4. Settled(p)' /\ tombstone'[p] # "none" /\ Eff(y) = "erase"
    BY <1>2, <1>5, <1>6, <1>8 DEF Undisturbed, Eff
  <2> QED
    BY <1>7, <1>8, <2>3, <2>4 DEF OnCourse, Eff
<1> QED
  BY <1>1, <1>2, <1>5, <1>6, <1>8, <1>9, OwnRunStep DEF Settled

\* A record leaves the registry, or has left it before: either way the plan is right to say so.
LEMMA StageKeeps ==
  ASSUME Typed, RunsOnly, AllRuns, NEW c \in Callers, Stage(c)
  PROVE  AllRuns'
<1> DEFINE x == caller[c]
           known(q) == [x.plan EXCEPT !.staged = @ \cup {q}]
<1>0. /\ x.pc = "stage" /\ x.plan \in Plan
      /\ queue \in [Runs -> QueueStatuses] /\ exec \in [Runs -> ExecStatuses]
  BY Facts, TypedParts DEF Stage, At, Grounded, WorldOK
<1>p. PICK p \in Runs : p = x.purge
  BY <1>0, OwnTurn
<1>1. OnCourse(p, x) /\ p # Task /\ \A d \in Callers \ {c} : ~Busy(d, p)
  BY <1>0, <1>p, OwnTurn
<1>2. UNCHANGED <<tombstone, plan, events>> /\ tombstone[p] # "none" /\ Calm(p)
  BY <1>0, <1>1 DEF Stage, Outside, OnCourse, Eff, Settled
<1>3. PICK q \in NextToStage(x.plan) :
        \/ /\ InRegistry(q)
           /\ queue' = IF q[2] = "queue" THEN [queue EXCEPT ![q[1]] = "absent"] ELSE queue
           /\ exec' = IF q[2] = "exec" THEN [exec EXCEPT ![q[1]] = "absent"] ELSE exec
           /\ GoPersist(c, known(q), ToStage(p, known(q)))
        \/ /\ ~InRegistry(q) /\ UNCHANGED <<queue, exec>>
           /\ GoPersist(c, known(q), ToStage(p, known(q)))
        \/ GiveUp(c) /\ UNCHANGED <<queue, exec>>
  BY <1>p DEF Stage, Movable, AlreadyStaged, records
<1>4. /\ q = QueuePart(p) \/ q = ExecPart(p)
      /\ QueuePart(p)[1] = p /\ QueuePart(p)[2] = "queue" /\ ExecPart(p)[1] = p /\ ExecPart(p)[2] = "exec"
  BY <1>0, <1>1, <1>3, NextToStageParts DEF OnCourse, Good, QueuePart, ExecPart
<1>5. \A r \in Runs \ {p} : UNCHANGED <<queue[r], exec[r]>>
  BY <1>0, <1>3, <1>4
<1>6. /\ queue'[p] \in {queue[p], "absent"} /\ exec'[p] \in {exec[p], "absent"}
  BY <1>0, <1>3, <1>4
<1>7. Settled(p) /\ Undisturbed(p)
  BY <1>2, <1>6 DEF Undisturbed, Settled, Calm, InQueue, Registered
<1>8. CASE GiveUp(c)
  <2>1. Idle \in Caller /\ Idle.pc = "idle" /\ Go(c, Idle)
    BY <1>8, IdleType DEF GiveUp, Idle
  <2> QED
    BY <1>1, <1>2, <1>5, <1>7, <2>1, OwnRunStep
<1>9. CASE ~GiveUp(c)
  <2>1. known(q) \in Plan /\ ToStage(p, known(q)) \in Pcs
    BY <1>0, <1>3, NextToStageParts, ToStageSomewhere DEF Plan, Pcs
  <2>2. GoPersist(c, known(q), ToStage(p, known(q)))
    BY <1>3, <1>9
  <2>3. WillPersist(c, known(q), ToStage(p, known(q)))
    <3> HIDE DEF known
    <3> QED
      BY <2>1, <2>2, WillPersistForm
  <2>4. PICK y \in Caller : Go(c, y) /\ y.pc = "persist" /\ y.next = ToStage(p, known(q)) /\ y.purge = p /\ y.plan = known(q)
    BY <1>p, <2>3 DEF WillPersist
  <2>5. y.plan.parts = x.plan.parts /\ y.plan.staged = x.plan.staged \cup {q} /\ y.plan.events = x.plan.events
    BY <1>0, <2>4 DEF Plan
  <2>6. q = QueuePart(p) => ~InQueue(p)'
    BY <1>0, <1>3, <1>4, <1>9 DEF InQueue, InRegistry
  <2>7. q = ExecPart(p) => ~Registered(p)'
    BY <1>0, <1>3, <1>4, <1>9 DEF Registered, InRegistry
  <2>8. PICK pl : pl = x.plan
    OBVIOUS
  <2>9. /\ pl.parts # {} /\ pl.parts \subseteq {QueuePart(p), ExecPart(p)}
        /\ InQueue(p)' => QueuePart(p) \in pl.parts \ pl.staged
        /\ Registered(p)' => ExecPart(p) \in pl.parts \ pl.staged
        /\ pl.events => p \notin events'
    BY <1>1, <1>7, <2>8, GoodKept DEF OnCourse
  <2>10. Good(p, y.plan)'
    <3>1. InQueue(p)' => QueuePart(p) # q
      BY <2>6
    <3>2. Registered(p)' => ExecPart(p) # q
      BY <2>7
    <3> QED
      BY <2>5, <2>8, <2>9, <3>1, <3>2 DEF Good
  <2>11. y.next # "stage" => y.plan.parts \subseteq y.plan.staged
    <3>1. y.next # "stage" => NextToStage(known(q)) = {}
      BY <2>4 DEF ToStage
    <3> QED
      BY <2>4, <2>5, <2>8, <2>9, <3>1, StagedAll
  <2>12. y.next \in {"stage", "events", "sync", "overlap"} /\ Eff(y) = y.next
    BY <2>4, ToStageSomewhere DEF Eff
  <2>13. OnCourse(p, y)'
    <3>1. Settled(p)' /\ tombstone'[p] # "none"
      BY <1>2, <1>7 DEF Undisturbed
    <3> QED
      BY <2>10, <2>11, <2>12, <3>1 DEF OnCourse, Eff
  <2> QED
    BY <1>1, <1>2, <1>5, <1>7, <2>4, <2>13, OwnRunStep
<1> QED
  BY <1>8, <1>9

\* The lock of the run: nobody else is at work on it.
LEMMA LockFree ==
  ASSUME Typed, RunsOnly, NEW r \in Runs, ~PurgeLocked(r)
  PROVE  \A d \in Callers : ~Busy(d, r)
<1> SUFFICES ASSUME NEW d \in Callers, Busy(d, r) PROVE FALSE
  OBVIOUS
<1>1. d \in team
  BY Facts DEF Busy, Grounded
<1>2. d \in RunPurgers
  BY <1>1 DEF RunsOnly, Callers
<1> QED
  BY <1>2 DEF PurgeLocked, Busy

LEMMA BeginRunKeeps ==
  ASSUME Typed, RunsOnly, AllRuns, NEW c \in Callers, NEW r \in Runs, BeginRun(c, r)
  PROVE  AllRuns'
<1>1. PICK delete \in BOOLEAN, y \in Caller :
        Go(c, y) /\ y.pc = "tombstone" /\ y.purge = r /\ y.plan = FreshPlan(PartsOf({r}), delete)
  BY BeginRunGoes
<1>2. UNCHANGED <<queue, exec, tombstone, plan, events>> /\ Failed(r) /\ \A d \in Callers : ~Busy(d, r)
  BY LockFree DEF BeginRun, records, Outside
<1>3. RunInv(r)
  BY DEF AllRuns
<1>4. Settled(r)
  BY <1>2, <1>3 DEF Settled, RunInv
<1>5. y.plan.parts = PartsOf({r}) /\ y.plan.staged = {} /\ y.plan.events = FALSE
  BY <1>1 DEF FreshPlan
<1>6. Good(r, y.plan)
  <2>1. InQueue(r) => QueuePart(r) \in PartsOf({r})
    BY DEF PartsOf
  <2>2. Registered(r) => ExecPart(r) \in PartsOf({r})
    BY DEF PartsOf
  <2>3. PartsOf({r}) \subseteq {QueuePart(r), ExecPart(r)}
    BY DEF PartsOf
  <2>4. InQueue(r) \/ Registered(r)
    BY <1>2 DEF Failed, InQueue, Registered
  <2> QED
    BY <1>5, <2>1, <2>2, <2>3, <2>4 DEF Good
<1>7. OnCourse(r, y)
  BY <1>1, <1>4, <1>6 DEF OnCourse, Eff
<1>8. Undisturbed(r)
  BY <1>2, <1>4, UnchangedUndisturbs
<1>9. OnCourse(r, y)'
  BY <1>2, <1>7, <1>8, OnCourseKept
<1> QED
  BY <1>1, <1>2, <1>4, <1>8, <1>9, OwnRunStep

LEMMA ResumeKeeps ==
  ASSUME Typed, RunsOnly, AllRuns, NEW c \in Callers, NEW p \in Purges, Resume(c, p)
  PROVE  AllRuns'
<1>1. /\ c \in RunPurgers /\ p \in Runs /\ p # Task /\ ~PurgeLocked(p) /\ plan[p] # NoPlan
      /\ UNCHANGED <<queue, exec, tombstone, events>>
  <2>1. c \in team /\ c \notin TaskPurgers
    BY DEF Resume, At, RunsOnly
  <2> QED
    BY <2>1, PurgeAssumptions DEF Resume, Purges, records, Outside
<1>2. RunInv(p) /\ \A d \in Callers : ~Busy(d, p)
  BY <1>1, LockFree DEF AllRuns
<1>3. \A r \in Runs : Settled(r) => Undisturbed(r)
  BY <1>1, UnchangedUndisturbs
<1>4. CASE caller' = caller
  <2>1. plan' = [plan EXCEPT ![p] = NoPlan] \/ plan' = plan
    BY DEF Resume
  <2>2. \A r \in Runs : plan'[r] \in {plan[r], NoPlan}
    BY <2>1, TypedParts DEF WorldOK, Purges
  <2>3. PICK y \in Caller : y = caller[c]
    BY Facts
  <2>4. Go(c, y)
    BY <1>4, <2>3, TypedParts DEF Go
  <2>5. y.pc = "idle"
    BY <2>3 DEF Resume, At
  <2>6. ASSUME NEW r \in Runs PROVE RunInv(r)'
    <3>1. RunInv(r)
      BY DEF AllRuns
    <3> QED
      BY <1>1, <1>3, <2>2, <2>4, <2>5, <3>1, RunKept DEF RunInv, Settled
  <2> QED
    BY <2>6 DEF AllRuns
<1>5. CASE caller' # caller
  <2>1. PICK y \in Caller :
          /\ Go(c, y) /\ y.purge = p /\ y.plan = plan[p] /\ plan[p] \in Plan
          /\ y.pc = IF p = Task THEN "overlap" ELSE ToStage(p, plan[p])
    BY <1>5, ResumeGoes
  <2>2. plan' = plan
    BY <1>5 DEF Resume
  <2>3. tombstone[p] # "none" /\ Good(p, y.plan) /\ Settled(p)
    BY <1>1, <1>2, <2>1 DEF RunInv, Settled
  <2>4. y.pc # "stage" => y.plan.parts \subseteq y.plan.staged
    <3>1. y.pc # "stage" => NextToStage(y.plan) = {}
      BY <1>1, <2>1 DEF ToStage
    <3> QED
      BY <2>3, <3>1, StagedAll, <1>1 DEF Good
  <2>5. y.pc \in {"stage", "events", "sync", "overlap"} /\ Eff(y) = y.pc
    BY <1>1, <2>1, ToStageSomewhere DEF Eff
  <2>6. OnCourse(p, y)
    BY <2>3, <2>4, <2>5 DEF OnCourse
  <2>7. PICK r \in Runs : r = p
    BY <1>1
  <2>8. OnCourse(r, y)'
    BY <1>1, <1>3, <2>3, <2>6, <2>7, OnCourseKept
  <2> QED
    BY <1>1, <1>2, <1>3, <2>1, <2>2, <2>3, <2>7, <2>8, OwnRunStep
<1> QED
  BY <1>4, <1>5

LEMMA RunsOnlyKeeps ==
  ASSUME Typed, RunsOnly, AllRuns, [Next]_vars
  PROVE  AllRuns'
<1>1. CASE UNCHANGED vars
  BY <1>1 DEF vars, records, AllRuns, RunInv, Calm, Good, OnlyGone, InQueue, Registered, Busy, OnCourse, Settled, Failed, Eff
<1>2. CASE Surroundings
  <2>1. UNCHANGED <<caller, tombstone, plan>>
    BY <1>2 DEF Surroundings, Prepare, Submit, Reserve, Launches, Launch, LaunchFails, Launched, Finish, StrayRemoves,
         ExpireMaintenance, Outside
  <2>2. \A r \in Runs : Settled(r) => Undisturbed(r)
    BY <1>2, SurroundingsUndisturb
  <2>3. ASSUME NEW r \in Runs PROVE RunInv(r)'
    <3>0. RunInv(r)
      BY DEF AllRuns
    <3>1. tombstone[r] # "none" => Undisturbed(r)
      BY <2>2, <3>0 DEF RunInv, Settled
    <3>2. (tombstone[r] # "none" => Calm(r))' /\ (tombstone[r] = "purged" => OnlyGone(r))'
      BY <2>1, <3>0, <3>1 DEF RunInv, Undisturbed, Settled, OnlyGone
    <3>3. (plan[r] # NoPlan => tombstone[r] # "none" /\ Good(r, plan[r]))'
      <4>1. PICK pl : pl = plan[r]
        OBVIOUS
      <4> QED
        BY <2>1, <3>0, <3>1, <4>1, GoodKept DEF RunInv, Good
    <3>4. ASSUME NEW d \in Callers, Busy(d, r)' PROVE OnCourse(r, caller[d])'
      <4>1. PICK x : x = caller[d]
        OBVIOUS
      <4>2. OnCourse(r, x)'
        BY <2>1, <2>2, <3>0, <3>4, <4>1, OnCourseKept DEF RunInv, OnCourse, Busy
      <4> QED
        BY <2>1, <4>1, <4>2 DEF OnCourse, Eff, Good, Settled, Calm, Failed, InQueue, Registered
    <3>5. \A d, e \in Callers : Busy(d, r)' /\ Busy(e, r)' => d = e
      BY <2>1, <3>0 DEF RunInv, Busy
    <3> QED
      BY <3>2, <3>3, <3>4, <3>5 DEF RunInv
  <2> QED
    BY <2>3 DEF AllRuns
<1>3. ASSUME NEW c \in Callers, Bookkeeping(c) PROVE AllRuns'
  <2>1. ~BeginTask(c) /\ ~StopRecord(c) /\ ~Freeze(c)
    <3>1. c \in team => c \notin TaskPurgers
      BY DEF RunsOnly
    <3> QED
      BY <3>1, StoppingGoes DEF BeginTask, StopRecord, Freeze, At
  <2> QED
    BY <1>3, <2>1, BeginRunKeeps, ResumeKeeps, TombstoneKeeps, WritingKeeps, StageKeeps, CompactKeeps DEF Bookkeeping
<1> QED
  BY <1>1, <1>2, <1>3, MiddleKeeps, NextParts

(***************************************************************************)
(* Without purge-run there is no tombstone.                                *)
(***************************************************************************)
TasksOnly == team \cap RunPurgers = {}

LEMMA TeamStays == [Next]_vars => team' = team
BY NextParts, MiddleLeaves, BookkeepingLeaves
   DEF vars, Surroundings, Prepare, Submit, Reserve, Launches, Launch, LaunchFails, Launched, Finish, StrayRemoves,
       ExpireMaintenance, Outside

LEMMA TasksOnlyKeeps ==
  ASSUME Typed, TasksOnly, [Next]_vars
  PROVE  tombstone' = tombstone
<1>1. ASSUME NEW c \in Callers, CreateTombstone(c) \/ CompleteTombstone(c) PROVE FALSE
  <2>1. c \in team /\ caller[c].pc \in {"tombstone", "complete"}
    BY <1>1 DEF CreateTombstone, CompleteTombstone, At
  <2>2. c \notin RunPurgers
    BY <2>1 DEF TasksOnly
  <2> QED
    BY <2>1, <2>2, Facts DEF Grounded, Eff
<1>2. ASSUME NEW c \in Callers, Bookkeeping(c) PROVE tombstone' = tombstone
  BY <1>1, <1>2 DEF Bookkeeping, BeginRun, BeginTask, Resume, StopRecord, Freeze, CreatePlan, Persist, Stage,
     CompactEvents, Erase, Clean
<1>3. ASSUME Surroundings PROVE tombstone' = tombstone
  BY <1>3 DEF Surroundings, Prepare, Submit, Reserve, Launches, Launch, LaunchFails, Launched, Finish, StrayRemoves,
     ExpireMaintenance
<1> QED
  BY <1>2, <1>3, NextParts, MiddleLeaves DEF vars

(***************************************************************************)
(* The theorem.                                                            *)
(***************************************************************************)
PurgeInv ==
  /\ Typed
  /\ RunsOnly => AllRuns
  /\ TasksOnly => \A r \in Runs : tombstone[r] = "none"

LEMMA PurgeInit == Init => PurgeInv
<1> SUFFICES ASSUME Init PROVE AllRuns /\ \A r \in Runs : tombstone[r] = "none"
  BY InitTyped DEF PurgeInv
<1>1. \A c \in Callers : caller[c].pc = "idle"
  BY DEF Init, Idle
<1>2. \A r \in Runs : tombstone[r] = "none" /\ plan[r] = NoPlan
  BY DEF Init, Purges
<1> QED
  BY <1>1, <1>2 DEF AllRuns, RunInv, Busy

LEMMA PurgeStep == PurgeInv /\ [Next]_vars => PurgeInv'
<1> SUFFICES ASSUME PurgeInv, [Next]_vars PROVE PurgeInv'
  OBVIOUS
<1>1. Typed /\ Typed' /\ team' = team
  BY NextTyped, TeamStays DEF PurgeInv
<1>2. (RunsOnly => AllRuns)'
  BY <1>1, RunsOnlyKeeps DEF PurgeInv, RunsOnly
<1>3. (TasksOnly => \A r \in Runs : tombstone[r] = "none")'
  BY <1>1, TasksOnlyKeeps DEF PurgeInv, TasksOnly
<1> QED
  BY <1>1, <1>2, <1>3 DEF PurgeInv

\* A purged run is gone for good, however many submissions, dispatches, deaths and
\* lost answers there are, when purge-run and purge-task do not work side by side.
\* Side by side they may fail: purge-task takes no run lock, and the run that it has
\* staged can be submitted again before purge-run writes the tombstone.
THEOREM PurgedGone ==
  ASSUME \A T \in Teams : T \cap RunPurgers = {} \/ T \cap TaskPurgers = {}
  PROVE  Spec => []PurgedStaysGone
<1>1. PurgeInv => PurgedStaysGone
  <2> SUFFICES ASSUME PurgeInv PROVE PurgedStaysGone
    OBVIOUS
  <2>1. team \in Teams
    BY DEF PurgeInv, Typed, TypeOK
  <2>2. RunsOnly \/ TasksOnly
    BY <2>1 DEF RunsOnly, TasksOnly
  <2> QED
    BY <2>2 DEF PurgeInv, AllRuns, RunInv, OnlyGone, PurgedStaysGone
<1> QED
  BY <1>1, PurgeInit, PurgeStep, PTL DEF Spec

(***************************************************************************)
(* What a plan says of the artifacts is true.                              *)
(***************************************************************************)
\* The output of r is gone and the tombstone keeps it from coming back.
Gone(r) == tombstone[r] # "none" /\ r \notin remote.outputs

\* An invocation that remembers x is right about the artifacts of its run.
Truthful(x) ==
  /\ x.done => x.pc = "release"
  /\ x.pc # "idle" /\ x.purge \in Runs =>
       /\ x.pc # "tombstone" => tombstone[x.purge] # "none"
       /\ x.purge \in x.plan.artifacts \/ (x.done /\ x.run = x.purge) => Gone(x.purge)

ProgressInv ==
  /\ \A r \in Runs : plan[r] # NoPlan => tombstone[r] # "none" /\ (r \in plan[r].artifacts => Gone(r))
  /\ \A c \in Callers : Truthful(caller[c])

\* y is x, some steps further, with nothing new about artifacts.
SameArtifacts(x, y) ==
  \/ y = Idle
  \/ /\ x.pc \notin {"idle", "tombstone", "release"}
     /\ y.purge = x.purge /\ y.plan.artifacts = x.plan.artifacts /\ y.done = x.done

AboutArtifacts(c) ==
  \/ CreateTombstone(c) \/ Removed(c) \/ ReleaseArtifact(c) \/ BeginTask(c)
  \/ (\E r \in Runs : BeginRun(c, r)) \/ (\E p \in Purges : Resume(c, p))

LEMMA WentOn ==
  ASSUME Typed, NEW c \in Callers, NEW y, Go(c, y)
  PROVE  caller'[c] = y /\ \A d \in Callers \ {c} : caller'[d] = caller[d]
BY TypedParts DEF Go

LEMMA SameSteps ==
  ASSUME Typed, NEW c \in Callers, Middle(c) \/ Bookkeeping(c), ~AboutArtifacts(c)
  PROVE  SameArtifacts(caller[c], caller'[c])
<1> DEFINE x == caller[c]
<1>0. x \in Caller /\ (x.pc # "idle" => x.plan \in Plan)
  BY Facts DEF Grounded
<1>1. ASSUME NEW y, Go(c, y) PROVE caller'[c] = y
  BY <1>1, WentOn
<1>2. CASE GiveUp(c)
  BY <1>1, <1>2 DEF GiveUp, SameArtifacts
<1>3. CASE StopRecord(c)
  <2>1. PICK r \in x.todo : Go(c, [x EXCEPT !.todo = @ \ {r}, !.failed = @ \/ queue[r] = "dispatching"])
    BY <1>3 DEF StopRecord
  <2> QED
    BY <1>0, <1>1, <1>3, <2>1 DEF SameArtifacts, StopRecord, At, Caller
<1>4. CASE Freeze(c)
  <2>1. CASE Go(c, [x EXCEPT !.pc = "create", !.plan.parts = PartsOf(Runs)])
    <3> DEFINE known == [x.plan EXCEPT !.parts = PartsOf(Runs)]
    <3>1. x.plan \in Plan /\ x.pc = "stopping"
      BY <1>0, <1>4 DEF Freeze, At
    <3>2. known.artifacts = x.plan.artifacts
      BY <3>1 DEF Plan
    <3>3. caller'[c] = [x EXCEPT !.pc = "create", !.plan = known]
      BY <1>0, <1>1, <2>1 DEF Caller
    <3> HIDE DEF known
    <3> QED
      BY <1>0, <3>1, <3>2, <3>3 DEF SameArtifacts, Caller
  <2> QED
    BY <1>2, <1>4, <2>1 DEF Freeze
<1>5. CASE CreatePlan(c) \/ Persist(c) \/ Recheck(c) \/ ArtifactsDone(c) \/ ReleaseWorktree(c) \/ Erase(c)
           \/ CompleteTombstone(c)
  <2>1. x.pc \notin {"idle", "tombstone", "release"}
    BY <1>5 DEF CreatePlan, Persist, Recheck, ArtifactsDone, ReleaseWorktree, Erase, CompleteTombstone, At
  <2>2. \/ GiveUp(c)
        \/ \E pc : Go(c, [x EXCEPT !.pc = pc])
        \/ Go(c, [x EXCEPT !.pc = "release", !.failed = TRUE])
        \/ Go(c, [x EXCEPT !.pc = "events", !.token = 0])
    BY <1>5 DEF CreatePlan, Persist, Recheck, ArtifactsDone, ReleaseWorktree, Erase, CompleteTombstone
  <2> QED
    BY <1>0, <1>1, <1>2, <2>1, <2>2 DEF SameArtifacts, Caller
<1>6. CASE Stage(c) \/ CompactEvents(c) \/ RemoveWorktree(c)
  <2>1. x.pc \notin {"idle", "tombstone", "release"} /\ x.plan \in Plan
    BY <1>0, <1>6 DEF Stage, CompactEvents, RemoveWorktree, At
  <2>2. \/ GiveUp(c)
        \/ \E q, next : GoPersist(c, [x.plan EXCEPT !.staged = @ \cup {q}], next)
        \/ GoPersist(c, [x.plan EXCEPT !.events = TRUE], "erase")
        \/ GoPersist(c, [x.plan EXCEPT !.worktree = TRUE], "unlease")
    BY <1>6 DEF Stage, CompactEvents, RemoveWorktree
  <2>3. ASSUME NEW known, known.artifacts = x.plan.artifacts, NEW next, GoPersist(c, known, next)
        PROVE  SameArtifacts(x, caller'[c])
    <3>1. caller'[c] = [x EXCEPT !.plan = known, !.pc = "persist", !.next = next]
      BY <1>1, <2>3 DEF GoPersist
    <3> QED
      BY <1>0, <2>1, <2>3, <3>1 DEF SameArtifacts, Caller
  <2>4. /\ \A q : [x.plan EXCEPT !.staged = @ \cup {q}].artifacts = x.plan.artifacts
        /\ [x.plan EXCEPT !.events = TRUE].artifacts = x.plan.artifacts
        /\ [x.plan EXCEPT !.worktree = TRUE].artifacts = x.plan.artifacts
    BY <2>1 DEF Plan
  <2>5. CASE \E q, next : GoPersist(c, [x.plan EXCEPT !.staged = @ \cup {q}], next)
    BY <2>3, <2>4, <2>5
  <2> QED
    BY <1>2, <2>2, <2>3, <2>4, <2>5
<1>7. CASE CheckOverlap(c)
  <2>1. \/ GiveUp(c)
        \/ Go(c, [x EXCEPT !.pc = ToStage(Task, x.plan), !.shared = Retained(x.plan) # {}])
        \/ Go(c, [x EXCEPT !.pc = "sync"])
    BY <1>7 DEF CheckOverlap
  <2>2. x.pc = "overlap"
    BY <1>7 DEF CheckOverlap, At
  <2> QED
    BY <1>0, <1>1, <1>2, <2>1, <2>2 DEF SameArtifacts, Caller
<1>8. CASE PurgeSync(c)
  <2> DEFINE todo == Executions(x.plan) \ x.plan.artifacts
             known == [x.plan EXCEPT !.sync = TRUE]
  <2>1. x.pc = "sync" /\ x.plan \in Plan
    BY <1>0, <1>8 DEF PurgeSync, At
  <2>2. known.artifacts = x.plan.artifacts
    BY <2>1 DEF Plan
  <2>3. CASE Go(c, [[x EXCEPT !.pc = "artifacts"] EXCEPT !.todo = todo])
    BY <1>0, <1>1, <2>1, <2>3 DEF SameArtifacts, Caller
  <2>4. CASE Go(c, [[x EXCEPT !.plan.sync = TRUE, !.pc = "persist", !.next = "artifacts"] EXCEPT !.todo = todo])
    <3>1. caller'[c] = [[x EXCEPT !.plan = known, !.pc = "persist", !.next = "artifacts"] EXCEPT !.todo = todo]
      BY <1>0, <1>1, <2>4 DEF Caller
    <3> HIDE DEF known
    <3> QED
      BY <1>0, <2>1, <2>2, <3>1 DEF SameArtifacts, Caller
  <2> QED
    BY <1>8, <2>3, <2>4 DEF PurgeSync
<1>9. CASE NextArtifact(c) \/ LeaseForWorktree(c)
  <2>1. x.pc \notin {"idle", "tombstone", "release"}
    BY <1>9 DEF NextArtifact, LeaseForWorktree, At
  <2>2. \/ GiveUp(c)
        \/ \E t, r : Go(c, [[[x EXCEPT !.todo = @ \ {r}] EXCEPT !.pc = "recheck", !.run = r] EXCEPT !.token = t])
        \/ \E r : Go(c, [[x EXCEPT !.todo = @ \ {r}] EXCEPT !.failed = TRUE])
        \/ \E t : Go(c, [[x EXCEPT !.pc = "remove"] EXCEPT !.token = t])
    BY <1>9 DEF NextArtifact, LeaseForWorktree, AcquireMaintenance
  <2> QED
    BY <1>0, <1>1, <1>2, <2>1, <2>2 DEF SameArtifacts, Caller
<1>10. CASE Lost(c)
  <2>1. x.pc \in {"remote", "remove"}
    BY <1>10 DEF Lost, At
  <2>2. Go(c, [x EXCEPT !.pc = "release", !.failed = TRUE]) \/ Go(c, [x EXCEPT !.pc = "unlease", !.failed = TRUE])
    BY <1>10 DEF Lost
  <2> QED
    BY <1>0, <1>1, <2>1, <2>2 DEF SameArtifacts, Caller
<1>11. CASE Dies(c) \/ Clean(c)
  BY <1>2, <1>11 DEF Dies, Clean
<1>12. CASE Hindered(c)
  <2>1. x.pc \in {"sync", "artifacts", "lease", "remote", "remove"}
    BY <1>12 DEF Hindered, At
  <2>2. \/ GiveUp(c)
        \/ \E r : Go(c, [x EXCEPT !.todo = @ \ {r}, !.failed = TRUE])
        \/ \E pc : Go(c, [x EXCEPT !.pc = pc, !.failed = TRUE])
    BY <1>12 DEF Hindered
  <2> QED
    BY <1>0, <1>1, <1>2, <2>1, <2>2 DEF SameArtifacts, Caller
<1> QED
  BY <1>3, <1>4, <1>5, <1>6, <1>7, <1>8, <1>9, <1>10, <1>11, <1>12 DEF Middle, Bookkeeping, AboutArtifacts

\* Only a launch creates an output, and it looks for a tombstone; no tombstone is withdrawn.
LEMMA GoneStays ==
  ASSUME Typed, Next, NEW r \in Runs
  PROVE  (tombstone[r] # "none" => tombstone'[r] # "none") /\ (Gone(r) => Gone(r)')
<1>0. /\ tombstone \in [Runs -> {"none", "purging", "purged"}]
      /\ remote \in [outputs: SUBSET Runs, worktree: BOOLEAN]
  BY TypedParts DEF WorldOK
<1>1. CASE Surroundings
  <2>1. tombstone' = tombstone
    BY <1>1 DEF Surroundings, Prepare, Submit, Reserve, Launches, Launch, LaunchFails, Launched, Finish, StrayRemoves,
       ExpireMaintenance
  <2>2. ASSUME NEW s \in Runs, Launch(s) PROVE Gone(r) => r \notin remote'.outputs
    BY <1>0, <2>2 DEF Launch, Gone
  <2>3. CASE remote'.outputs \subseteq remote.outputs
    BY <2>1, <2>3 DEF Gone
  <2>4. ASSUME NEW s \in Runs, Prepare(s) PROVE remote'.outputs = remote.outputs
    BY <1>0, <2>4 DEF Prepare
  <2>5. ASSUME StrayRemoves PROVE remote'.outputs \subseteq remote.outputs
    <3>1. \A s : Removes(s) => remote'.outputs \subseteq remote.outputs
      BY <1>0 DEF Removes
    <3>2. RemovesWorktree => remote'.outputs = remote.outputs
      BY <1>0 DEF RemovesWorktree
    <3> QED
      BY <2>5, <3>1, <3>2 DEF StrayRemoves
  <2>6. (\E s \in Runs : Launch(s)) \/ remote'.outputs \subseteq remote.outputs
    BY <1>1, <2>4, <2>5 DEF Surroundings, Submit, Reserve, Launches, LaunchFails, Finish, ExpireMaintenance, Outside
  <2> QED
    BY <2>1, <2>2, <2>3, <2>6 DEF Gone
<1>2. ASSUME NEW c \in Callers, Middle(c) PROVE tombstone' = tombstone /\ remote'.outputs \subseteq remote.outputs
  <2>1. Removed(c) => remote'.outputs \subseteq remote.outputs
    BY <1>0 DEF Removed, Removes
  <2>2. RemoveWorktree(c) => remote'.outputs = remote.outputs
    BY <1>0 DEF RemoveWorktree, RemovesWorktree
  <2> QED
    BY <1>2, <2>1, <2>2, MiddleLeaves DEF Middle, CheckOverlap, PurgeSync, NextArtifact, Recheck, ReleaseArtifact,
       ArtifactsDone, LeaseForWorktree, ReleaseWorktree, Lost, Hindered, Dies, Outside
<1>3. ASSUME NEW c \in Callers, Bookkeeping(c) PROVE remote' = remote /\ (tombstone[r] # "none" => tombstone'[r] # "none")
  <2>1. CreateTombstone(c) \/ CompleteTombstone(c) => (tombstone[r] # "none" => tombstone'[r] # "none")
    BY <1>0 DEF CreateTombstone, CompleteTombstone
  <2> QED
    BY <1>3, <2>1, BookkeepingLeaves DEF Bookkeeping, BeginRun, BeginTask, Resume, StopRecord, Freeze, CreatePlan,
       Persist, Stage, CompactEvents, Erase, Clean
<1> QED
  BY <1>1, <1>2, <1>3, NextParts DEF Gone

\* The steps that are about artifacts, or that begin anew.
LEMMA ArtifactSteps ==
  ASSUME Typed, ProgressInv, NEW c \in Callers, AboutArtifacts(c), Next
  PROVE  Truthful(caller[c])'
<1> DEFINE x == caller[c]
<1>0. x \in Caller /\ (x.pc # "idle" => x.plan \in Plan) /\ Truthful(x)
  BY Facts DEF Grounded, ProgressInv
<1>1. ASSUME NEW y, Go(c, y) PROVE caller'[c] = y
  BY <1>1, WentOn
<1>2. CASE CreateTombstone(c)
  <2>1. caller'[c] = [x EXCEPT !.pc = "create"] /\ x.pc = "tombstone"
    BY <1>1, <1>2 DEF CreateTombstone, At
  <2>2. x.purge \in Runs => tombstone'[x.purge] # "none"
    BY <1>2, TypedParts DEF WorldOK, CreateTombstone
  <2>3. \A r \in Runs : Gone(r) => Gone(r)'
    BY GoneStays
  <2>4. PICK y : y = caller'[c]
    OBVIOUS
  <2>5. y.pc = "create" /\ y.purge = x.purge /\ y.plan = x.plan /\ y.done = x.done /\ y.run = x.run
    BY <1>0, <2>1, <2>4 DEF Caller
  <2> QED
    BY <1>0, <2>1, <2>2, <2>3, <2>4, <2>5 DEF Truthful
<1>3. CASE Removed(c)
  <2>1. caller'[c] = [x EXCEPT !.pc = "release", !.done = TRUE] /\ x.pc = "remote"
    BY <1>1, <1>3 DEF Removed, At
  <2>2. x.run \notin remote'.outputs /\ tombstone' = tombstone
    BY <1>3, TypedParts DEF WorldOK, Removed, Removes
  <2>3. \A r \in Runs : Gone(r) => Gone(r)'
    BY GoneStays
  <2>4. PICK y : y = caller'[c]
    OBVIOUS
  <2>5. y.pc = "release" /\ y.purge = x.purge /\ y.plan = x.plan /\ y.run = x.run
    BY <1>0, <2>1, <2>4 DEF Caller
  <2> QED
    BY <1>0, <2>1, <2>2, <2>3, <2>4, <2>5 DEF Truthful, Gone
<1>4. CASE ReleaseArtifact(c)
  <2> DEFINE known == [x.plan EXCEPT !.artifacts = @ \cup {x.run}]
             back == [x EXCEPT !.token = 0, !.run = NoRun, !.done = FALSE]
  <2>1. x.pc = "release" /\ x.plan \in Plan
    BY <1>0, <1>4 DEF ReleaseArtifact, At
  <2>2. \A r \in Runs : Gone(r) => Gone(r)'
    BY GoneStays
  <2>3. tombstone' = tombstone
    BY <1>4 DEF ReleaseArtifact
  <2>4. PICK y : y = caller'[c]
    OBVIOUS
  <2>5. CASE ~x.done
    <3>1. y = [back EXCEPT !.pc = "artifacts"]
      BY <1>1, <1>4, <2>4, <2>5 DEF ReleaseArtifact
    <3>2. y.pc = "artifacts" /\ y.purge = x.purge /\ y.plan = x.plan /\ y.done = FALSE
      BY <1>0, <3>1 DEF Caller
    <3> QED
      BY <1>0, <2>1, <2>2, <2>3, <2>4, <3>2 DEF Truthful
  <2>6. CASE x.done
    <3>1. y = [back EXCEPT !.plan.artifacts = @ \cup {x.run}, !.pc = "persist", !.next = "artifacts"]
      BY <1>1, <1>4, <2>4, <2>6 DEF ReleaseArtifact
    <3>2. y.pc = "persist" /\ y.purge = x.purge /\ y.plan = known /\ y.done = FALSE
      BY <1>0, <3>1 DEF Caller
    <3>3. known.artifacts = x.plan.artifacts \cup {x.run}
      BY <2>1 DEF Plan
    <3> HIDE DEF known
    <3> QED
      BY <1>0, <2>1, <2>2, <2>3, <2>4, <2>6, <3>2, <3>3 DEF Truthful
  <2> QED
    BY <2>5, <2>6
<1>5. CASE BeginTask(c)
  <2>1. PICK todo, delete : Go(c, [Idle EXCEPT !.pc = "stopping", !.plan = FreshPlan({}, delete), !.todo = todo])
    BY <1>5 DEF BeginTask
  <2>2. PICK y : y = caller'[c]
    OBVIOUS
  <2>3. y.purge = Task /\ y.done = FALSE
    BY <1>1, <2>1, <2>2 DEF Idle
  <2> QED
    BY <2>2, <2>3, PurgeAssumptions DEF Truthful
<1>6. CASE \E r \in Runs : BeginRun(c, r)
  <2>1. PICK r \in Runs : BeginRun(c, r)
    BY <1>6
  <2>2. PICK delete \in BOOLEAN : Go(c, [Idle EXCEPT !.pc = "tombstone", !.purge = r, !.plan = FreshPlan(PartsOf({r}), delete)])
    BY <2>1 DEF BeginRun, Enter
  <2>3. PICK pl : pl = FreshPlan(PartsOf({r}), delete)
    OBVIOUS
  <2>4. pl.artifacts = {}
    BY <2>3 DEF FreshPlan
  <2>5. PICK y : y = caller'[c]
    OBVIOUS
  <2>6. y = [Idle EXCEPT !.pc = "tombstone", !.purge = r, !.plan = pl]
    BY <1>1, <2>2, <2>3, <2>5
  <2>7. y.pc = "tombstone" /\ y.done = FALSE /\ y.plan = pl
    BY <2>6 DEF Idle
  <2> QED
    BY <2>4, <2>5, <2>7 DEF Truthful
<1>7. CASE \E p \in Purges : Resume(c, p)
  <2>1. PICK p \in Purges : Resume(c, p)
    BY <1>7
  <2>2. CASE caller' = caller
    <3>1. x.pc = "idle" /\ caller'[c] = x
      BY <2>1, <2>2 DEF Resume, At
    <3>2. PICK y : y = caller'[c]
      OBVIOUS
    <3> QED
      BY <1>0, <3>1, <3>2 DEF Truthful
  <2>3. CASE caller' # caller
    <3>1. PICK pc : Go(c, [Idle EXCEPT !.pc = pc, !.purge = p, !.plan = plan[p]])
      BY <2>1, <2>3 DEF Resume, Enter
    <3>2. PICK y : y = caller'[c]
      OBVIOUS
    <3>3. y.purge = p /\ y.plan = plan[p] /\ y.done = FALSE
      BY <1>1, <3>1, <3>2 DEF Idle
    <3>4. plan[p] # NoPlan
      BY <2>1 DEF Resume
    <3>5. p \in Runs => tombstone'[p] # "none" /\ (p \in plan[p].artifacts => Gone(p)')
      BY <3>4, GoneStays DEF ProgressInv
    <3> QED
      BY <3>2, <3>3, <3>5 DEF Truthful
  <2> QED
    BY <2>2, <2>3
<1> QED
  BY <1>2, <1>3, <1>4, <1>5, <1>6, <1>7 DEF AboutArtifacts

LEMMA OthersStay ==
  ASSUME Typed, NEW c \in Callers, Middle(c) \/ Bookkeeping(c)
  PROVE  \A d \in Callers \ {c} : caller'[d] = caller[d]
<1>1. ASSUME NEW y, Go(c, y) PROVE \A d \in Callers \ {c} : caller'[d] = caller[d]
  BY <1>1, WentOn
<1>2. Middle(c) => \E y : Go(c, y)
  BY MiddleGoes DEF GoesOn
<1>3. Bookkeeping(c) => caller' = caller \/ \E y : Go(c, y)
  BY DEF Bookkeeping, BeginRun, BeginTask, Resume, CreateTombstone, StopRecord, Freeze, CreatePlan, Persist, Stage,
     CompactEvents, Erase, CompleteTombstone, Clean, Enter, GiveUp, GoPersist
<1> QED
  BY <1>1, <1>2, <1>3

\* A plan comes to the disk, or changes there, only as what an invocation remembers.
LEMMA PlanWritten ==
  ASSUME Typed, Next, NEW p \in Purges, plan'[p] # plan[p], plan'[p] # NoPlan
  PROVE  \E c \in Callers : CreatePlan(c) \/ Persist(c)
<1>1. plan \in [Purges -> Plan \cup {NoPlan}]
  BY TypedParts DEF WorldOK
<1>2. Surroundings => plan' = plan
  BY DEF Surroundings, Prepare, Submit, Reserve, Launches, Launch, LaunchFails, Launched, Finish, StrayRemoves,
     ExpireMaintenance, Outside
<1>3. ASSUME NEW c \in Callers, Bookkeeping(c), ~CreatePlan(c), ~Persist(c) PROVE FALSE
  <2>1. plan' = plan \/ \E s : plan' = [plan EXCEPT ![s] = NoPlan]
    BY <1>3 DEF Bookkeeping, BeginRun, BeginTask, Resume, CreateTombstone, StopRecord, Freeze, Stage,
     CompactEvents, Erase, CompleteTombstone, Clean
  <2> QED
    BY <1>1, <2>1
<1> QED
  BY <1>2, <1>3, NextParts, MiddleLeaves

LEMMA ProgressKept ==
  ASSUME Typed, ProgressInv, [Next]_vars
  PROVE  ProgressInv'
<1>1. CASE UNCHANGED vars
  BY <1>1 DEF vars, records, ProgressInv, Truthful, Gone
<1>2. CASE Next
  <2>1. \A r \in Runs : (tombstone[r] # "none" => tombstone'[r] # "none") /\ (Gone(r) => Gone(r)')
    BY <1>2, GoneStays
  <2>2. ASSUME NEW x, Truthful(x) PROVE Truthful(x)'
    BY <2>1, <2>2 DEF Truthful
  <2>4. (\A c \in Callers : Truthful(caller[c]))'
    <3>1. CASE caller' = caller
      <4>1. ASSUME NEW c \in Callers PROVE Truthful(caller[c])'
        <5>1. PICK x : x = caller[c]
          OBVIOUS
        <5> QED
          BY <2>2, <3>1, <5>1 DEF ProgressInv
      <4> QED
        BY <4>1
    <3>2. ASSUME NEW c \in Callers, Middle(c) \/ Bookkeeping(c), NEW d \in Callers PROVE Truthful(caller[d])'
      <4>1. CASE d = c /\ AboutArtifacts(c)
        BY <1>2, <4>1, ArtifactSteps
      <4>2. CASE d = c /\ ~AboutArtifacts(c)
        <5>1. PICK x : x = caller[c]
          OBVIOUS
        <5>2. PICK y : y = caller'[c]
          OBVIOUS
        <5>3. SameArtifacts(x, y)
          BY <3>2, <4>2, <5>1, <5>2, SameSteps
        <5>4. Truthful(x)
          BY <5>1 DEF ProgressInv
        <5>5. Truthful(y)'
          BY <2>1, <5>3, <5>4 DEF Truthful, SameArtifacts, Idle
        <5> QED
          BY <4>2, <5>2, <5>5
      <4>3. CASE d # c
        <5>1. PICK x : x = caller[d]
          OBVIOUS
        <5>2. caller'[d] = x
          BY <3>2, <4>3, <5>1, OthersStay
        <5> QED
          BY <2>2, <5>1, <5>2 DEF ProgressInv
      <4> QED
        BY <4>1, <4>2, <4>3
    <3>3. Surroundings => caller' = caller
      BY DEF Surroundings, Prepare, Submit, Reserve, Launches, Launch, LaunchFails, Launched, Finish, StrayRemoves,
         ExpireMaintenance
    <3> QED
      BY <1>2, <3>1, <3>2, <3>3, NextParts
  <2>5. ASSUME NEW r \in Runs, plan'[r] # NoPlan PROVE tombstone'[r] # "none" /\ (r \in plan'[r].artifacts => Gone(r)')
    <3>1. CASE plan'[r] = plan[r]
      BY <2>1, <2>5, <3>1 DEF ProgressInv
    <3>2. CASE plan'[r] # plan[r]
      <4>1. PICK c \in Callers : CreatePlan(c) \/ Persist(c)
        BY <1>2, <2>5, <3>2, PlanWritten DEF Purges
      <4>2. caller[c].purge = r /\ caller[c].plan = plan'[r] /\ caller[c].pc \in {"create", "persist"}
        BY <3>2, <4>1, TypedParts DEF CreatePlan, Persist, At, WorldOK, Purges
      <4>3. Truthful(caller[c])
        BY DEF ProgressInv
      <4> QED
        BY <2>1, <4>2, <4>3 DEF Truthful
    <3> QED
      BY <3>1, <3>2
  <2> QED
    BY <2>4, <2>5 DEF ProgressInv
<1> QED
  BY <1>1, <1>2

\* What plan.yaml says of the artifacts of a failed run is true: once they are recorded
\* as removed they are not there, and never come back while the plan exists. Any number
\* of purge-run and purge-task may work side by side, die and lose remote answers.
THEOREM ProgressIsSound == Spec => []ProgressIsTrue
<1> DEFINE Inv == Typed /\ ProgressInv
<1>1. Init => Inv
  <2> SUFFICES ASSUME Init PROVE ProgressInv
    BY InitTyped
  <2>1. \A r \in Runs : plan[r] = NoPlan
    BY DEF Init, Purges
  <2>2. \A c \in Callers : Truthful(caller[c])
    BY DEF Init, Idle, Truthful
  <2> QED
    BY <2>1, <2>2 DEF ProgressInv
<1>2. Inv /\ [Next]_vars => Inv'
  BY NextTyped, ProgressKept
<1>3. Inv => ProgressIsTrue
  BY DEF ProgressInv, ProgressIsTrue, Gone
<1> QED
  BY <1>1, <1>2, <1>3, PTL DEF Spec

(***************************************************************************)
(* A plan can be resumed: what a purge relies on when its records are      *)
(* nobody else's.                                                          *)
(***************************************************************************)
\* Each record that plan pl of purge p still has to stage is where the purge will find it.
Kept(p, pl) == \A q \in pl.parts \ pl.staged : InRegistry(q) \/ q \in staged[p]

AllStaged(x) ==
  \/ Eff(x) \in {"tombstone", "stopping", "create", "stage"}
  \/ x.purge = Task /\ Eff(x) = "overlap"
  \/ x.plan.parts \subseteq x.plan.staged

\* An invocation that remembers x: until it has written its plan, the plan on disk may
\* be older than the one it remembers, and either can be resumed.
KeptBy(x) ==
  x.pc # "idle" =>
    /\ Eff(x) = "stopping" => x.plan.parts = {}
    /\ Kept(x.purge, x.plan)
    /\ AllStaged(x)
    /\ x.pc \notin {"tombstone", "stopping", "create", "persist"} => plan[x.purge] = x.plan

KeptInv ==
  /\ \A p \in Purges : plan[p] # NoPlan => Kept(p, plan[p])
  /\ \A c \in Callers : KeptBy(caller[c])

\* One invocation of purge-task, or invocations of purge-run.
SoloTask == \E t \in TaskPurgers : team = {t}
PlansFit == \A p \in Purges : plan[p] # NoPlan => (RunsOnly => p \in Runs) /\ (SoloTask => p = Task)
Apart ==
  /\ RunsOnly \/ SoloTask
  /\ RunsOnly => AllRuns
  /\ PlansFit

LEMMA NothingLeft ==
  ASSUME NEW pl \in Plan, NextToStage(pl) = {}
  PROVE  pl.parts \subseteq pl.staged
<1> SUFFICES ASSUME NEW q \in pl.parts \ pl.staged PROVE FALSE
  OBVIOUS
<1>1. PICK r \in Runs : q = QueuePart(r) \/ q = ExecPart(r)
  BY DEF Plan, Parts, QueuePart, ExecPart
<1>2. QueuePart(r)[1] = r /\ QueuePart(r)[2] = "queue" /\ ExecPart(r)[1] = r /\ ExecPart(r)[2] = "exec"
  BY DEF QueuePart, ExecPart
<1>3. QueuePart(r) \notin pl.parts \ pl.staged
  BY <1>2 DEF NextToStage
<1>4. q = ExecPart(r) /\ ExecPart(r) \in pl.parts \ pl.staged
  BY <1>1, <1>3
<1>5. CASE QueuePart(r) \in pl.staged
  BY <1>2, <1>4, <1>5 DEF NextToStage
<1>6. CASE QueuePart(r) \notin pl.staged
  BY <1>2, <1>3, <1>4, <1>6 DEF NextToStage
<1> QED
  BY <1>5, <1>6

LEMMA SoloIdle ==
  ASSUME Typed, SoloTask, NEW c \in team, c \in Callers
  PROVE  c \in TaskPurgers /\ c \notin RunPurgers /\ \A d \in Callers \ {c} : caller[d].pc = "idle"
<1>1. PICK t \in TaskPurgers : team = {t}
  BY DEF SoloTask
<1>2. \A d \in Callers : caller[d].pc # "idle" => d \in team
  BY Facts DEF Grounded
<1> QED
  BY <1>1, <1>2, PurgeAssumptions

\* The records of the purge in hand are in no other plan, and no other invocation has the purge in hand.
LEMMA Alone ==
  ASSUME Typed, Apart, NEW c \in Callers, caller[c].pc # "idle"
  PROVE  /\ \A d \in Callers \ {c} : ~Busy(d, caller[c].purge)
         /\ \A d \in Callers \ {c} : caller[d].pc # "idle" => caller[d].plan.parts \cap caller[c].plan.parts = {}
         /\ \A s \in Purges \ {caller[c].purge} : plan[s] # NoPlan => plan[s].parts \cap caller[c].plan.parts = {}
<1>1. \A d \in Callers : caller[d] \in Caller /\ Grounded(d, caller[d])
  BY Facts
<1>2. CASE SoloTask
  <2>1. c \in team /\ caller[c].purge = Task
    BY <1>1, <1>2, SoloIdle DEF Grounded
  <2> QED
    BY <1>2, <2>1, SoloIdle DEF Busy, Apart, PlansFit
<1>3. CASE RunsOnly
  <2>1. \A d \in Callers : caller[d].pc # "idle" => caller[d].purge \in Runs
    <3>1. \A d \in Callers : caller[d].pc # "idle" => d \in RunPurgers
      BY <1>1, <1>3 DEF Grounded, RunsOnly, Callers
    <3> QED
      BY <1>1, <3>1 DEF Grounded
  <2>2. \A r \in Runs : RunInv(r)
    BY <1>3 DEF Apart, AllRuns
  <2>3. \A d \in Callers : caller[d].pc # "idle" =>
          caller[d].plan.parts \subseteq {QueuePart(caller[d].purge), ExecPart(caller[d].purge)}
    BY <2>1, <2>2 DEF RunInv, OnCourse, Good, Busy
  <2>4. \A d \in Callers \ {c} : ~Busy(d, caller[c].purge)
    BY <2>1, <2>2 DEF RunInv, Busy
  <2>5. \A s \in Purges : plan[s] # NoPlan => s \in Runs /\ plan[s].parts \subseteq {QueuePart(s), ExecPart(s)}
    BY <1>3, <2>2 DEF RunInv, Good, Apart, PlansFit
  <2>6. \A r, s : r # s => {QueuePart(r), ExecPart(r)} \cap {QueuePart(s), ExecPart(s)} = {}
    BY DEF QueuePart, ExecPart
  <2>7. ASSUME NEW d \in Callers \ {c}, caller[d].pc # "idle" PROVE caller[d].plan.parts \cap caller[c].plan.parts = {}
    <3>1. caller[d].purge # caller[c].purge
      BY <2>4, <2>7 DEF Busy
    <3> QED
      BY <2>3, <2>6, <2>7, <3>1
  <2>8. ASSUME NEW s \in Purges \ {caller[c].purge}, plan[s] # NoPlan PROVE plan[s].parts \cap caller[c].plan.parts = {}
    BY <2>3, <2>5, <2>6, <2>8
  <2> QED
    BY <2>4, <2>7, <2>8
<1> QED
  BY <1>2, <1>3 DEF Apart

LEMMA KeptStays ==
  ASSUME NEW p, NEW pl, Kept(p, pl), \A q \in pl.parts : InRegistry(q) => InRegistry(q)', staged[p] \subseteq staged'[p]
  PROVE  Kept(p, pl)'
BY DEF Kept

\* A step of c that is about purge p leaves what others rely on.
LEMMA OwnPurgeStep ==
  ASSUME Typed, KeptInv, NEW c \in Callers, NEW y, Go(c, y), NEW p \in Purges,
         \A d \in Callers \ {c} : ~Busy(d, p),
         \A s \in Purges \ {p} : plan'[s] = plan[s] /\ staged'[s] = staged[s],
         \A s \in Purges \ {p} : plan[s] # NoPlan => \A q \in plan[s].parts : InRegistry(q) => InRegistry(q)',
         \A d \in Callers \ {c} : caller[d].pc # "idle" => \A q \in caller[d].plan.parts : InRegistry(q) => InRegistry(q)',
         (plan[p] # NoPlan => Kept(p, plan[p]))',
         KeptBy(y)'
  PROVE  KeptInv'
<1>1. ASSUME NEW s \in Purges, plan'[s] # NoPlan PROVE Kept(s, plan[s])'
  <2>1. CASE s = p
    BY <1>1, <2>1
  <2>2. CASE s # p
    <3>1. PICK pl : pl = plan[s]
      OBVIOUS
    <3>2. Kept(s, pl) /\ plan'[s] = pl /\ staged'[s] = staged[s] /\ \A q \in pl.parts : InRegistry(q) => InRegistry(q)'
      BY <1>1, <2>2, <3>1 DEF KeptInv
    <3>3. Kept(s, pl)'
      BY <3>2, KeptStays
    <3> QED
      BY <3>2, <3>3
  <2> QED
    BY <2>1, <2>2
<1>2. ASSUME NEW d \in Callers PROVE KeptBy(caller[d])'
  <2>1. CASE d = c
    <3>1. caller'[d] = y
      BY <2>1, WentOn
    <3> QED
      BY <3>1
  <2>2. CASE d # c
    <3>1. PICK x : x = caller[d]
      OBVIOUS
    <3>2. caller'[d] = x /\ KeptBy(x)
      BY <2>2, <3>1, WentOn DEF KeptInv
    <3>3. CASE x.pc # "idle"
      <4>1. x.purge \in Purges \ {p}
        BY <2>2, <3>1, <3>3, Facts DEF Busy, Caller
      <4>2. PICK s : s = x.purge
        OBVIOUS
      <4>3. PICK pl : pl = x.plan
        OBVIOUS
      <4>4. plan'[s] = plan[s] /\ staged'[s] = staged[s]
        BY <4>1, <4>2
      <4>5. \A q \in pl.parts : InRegistry(q) => InRegistry(q)'
        BY <2>2, <3>1, <3>3, <4>3
      <4>6. Kept(s, pl)'
        BY <3>2, <3>3, <4>2, <4>3, <4>4, <4>5, KeptStays DEF KeptBy
      <4>7. KeptBy(x)'
        BY <3>2, <3>3, <4>2, <4>3, <4>4, <4>6 DEF KeptBy, AllStaged
      <4> QED
        BY <3>2, <4>7
    <3>4. CASE x.pc = "idle"
      BY <3>2, <3>4 DEF KeptBy
    <3> QED
      BY <3>3, <3>4
  <2> QED
    BY <2>1, <2>2
<1> QED
  BY <1>1, <1>2 DEF KeptInv

\* Whatever else goes on, a record leaves the registry only by being staged.
LEMMA RegistryGrows ==
  ASSUME Typed, Surroundings \/ \E c \in Callers : Middle(c) \/ (Bookkeeping(c) /\ ~Stage(c)), NEW q \in Parts, InRegistry(q)
  PROVE  InRegistry(q)'
<1>0. /\ queue \in [Runs -> QueueStatuses] /\ exec \in [Runs -> ExecStatuses]
      /\ q[1] \in Runs
  BY TypedParts DEF WorldOK, Parts
<1>1. SUFFICES \A r \in Runs : (InQueue(r) => InQueue(r)') /\ (Registered(r) => Registered(r)')
  BY <1>0 DEF InRegistry
<1>2. TAKE r \in Runs
<1>3. CASE Surroundings
  <2>1. ASSUME NEW s \in Runs, Prepare(s) \/ Submit(s) \/ Reserve(s) \/ Finish(s)
        PROVE  (InQueue(r) => InQueue(r)') /\ (Registered(r) => Registered(r)')
    BY <1>0, <2>1 DEF Prepare, Submit, Reserve, Finish, InQueue, Registered
  <2>2. ASSUME NEW s \in Runs, Launches(s)
        PROVE  (InQueue(r) => InQueue(r)') /\ (Registered(r) => Registered(r)')
    <3>1. PICK e \in ExecStatuses, q1 \in {"dispatched", "failed"} : Launched(s, e, q1) /\ ~Registered(s)
      BY <2>2 DEF Launches, Launch, LaunchFails, ExecStatuses
    <3> QED
      BY <1>0, <3>1 DEF Launched, InQueue, Registered
  <2>3. ASSUME StrayRemoves \/ ExpireMaintenance PROVE UNCHANGED <<queue, exec>>
    BY <2>3 DEF StrayRemoves, ExpireMaintenance, records
  <2> QED
    BY <1>3, <2>1, <2>2, <2>3 DEF Surroundings, InQueue, Registered
<1>4. ASSUME NEW c \in Callers, Middle(c) PROVE UNCHANGED <<queue, exec>>
  BY <1>4, MiddleLeaves
<1>5. ASSUME NEW c \in Callers, Bookkeeping(c), ~Stage(c), ~StopRecord(c) PROVE UNCHANGED <<queue, exec>>
  BY <1>5 DEF Bookkeeping, BeginRun, BeginTask, Resume, CreateTombstone, Freeze, CreatePlan, Persist,
     CompactEvents, Erase, CompleteTombstone, Clean, records
<1>6. ASSUME NEW c \in Callers, StopRecord(c)
      PROVE  (InQueue(r) => InQueue(r)') /\ (Registered(r) => Registered(r)')
  BY <1>0, <1>6 DEF StopRecord, InQueue, Registered
<1> QED
  BY <1>4, <1>5, <1>6, <1>3 DEF InQueue, Registered

LEMMA PlanParts ==
  ASSUME Typed
  PROVE  /\ \A p \in Purges : plan[p] # NoPlan => plan[p] \in Plan /\ plan[p].parts \subseteq Parts
         /\ \A c \in Callers : caller[c].pc # "idle" => caller[c].plan \in Plan /\ caller[c].plan.parts \subseteq Parts
         /\ \A c \in Callers : caller[c].purge \in Purges
BY TypedParts DEF WorldOK, Grounded, Plan, Caller

LEMMA SurroundingsKept ==
  ASSUME Typed, KeptInv, Surroundings
  PROVE  KeptInv'
<1>1. UNCHANGED <<caller, plan, staged>>
  BY DEF Surroundings, Prepare, Submit, Reserve, Launches, Launch, LaunchFails, Launched, Finish, StrayRemoves,
     ExpireMaintenance, Outside
<1>2. \A q \in Parts : InRegistry(q) => InRegistry(q)'
  BY RegistryGrows
<1>3. ASSUME NEW p \in Purges, NEW pl, pl.parts \subseteq Parts, Kept(p, pl) PROVE Kept(p, pl)'
  BY <1>1, <1>2, <1>3, KeptStays
<1>4. ASSUME NEW p \in Purges, plan[p] # NoPlan PROVE Kept(p, plan[p])'
  <2>1. PICK pl : pl = plan[p]
    OBVIOUS
  <2>2. Kept(p, pl)'
    BY <1>3, <1>4, <2>1, PlanParts DEF KeptInv
  <2> QED
    BY <1>1, <2>1, <2>2
<1>5. ASSUME NEW c \in Callers PROVE KeptBy(caller[c])'
  <2>1. PICK x : x = caller[c]
    OBVIOUS
  <2>2. PICK p : p = x.purge
    OBVIOUS
  <2>3. PICK pl : pl = x.plan
    OBVIOUS
  <2>4. KeptBy(x)
    BY <2>1 DEF KeptInv
  <2>5. x.pc # "idle" => Kept(p, pl)'
    BY <1>3, <2>1, <2>2, <2>3, <2>4, PlanParts DEF KeptBy
  <2>6. KeptBy(x)'
    BY <1>1, <2>2, <2>3, <2>4, <2>5 DEF KeptBy, AllStaged
  <2> QED
    BY <1>1, <2>1, <2>6
<1> QED
  BY <1>1, <1>4, <1>5 DEF KeptInv

LEMMA IdleKept == KeptBy(Idle)
BY DEF KeptBy, Idle

\* An invocation goes on, while records, plans and staging directories stay as they are.
LEMMA MiddleKept ==
  ASSUME Typed, KeptInv, NEW c \in Callers, Middle(c)
  PROVE  KeptInv'
<1>1. UNCHANGED <<queue, exec, plan, staged>>
  BY MiddleLeaves
<1>2. PICK y \in Caller : Go(c, y) /\ Carries(c, caller[c], y) /\ Grounded(c, y)
  BY MiddleGoes DEF GoesOn
<1>3. PICK x : x = caller[c]
  OBVIOUS
<1>4. x.pc # "idle" /\ KeptBy(x)
  BY <1>3, <1>2 DEF KeptInv, Middle, CheckOverlap, PurgeSync, NextArtifact, Recheck, Removed, ReleaseArtifact,
     ArtifactsDone, LeaseForWorktree, RemoveWorktree, ReleaseWorktree, Lost, Hindered, Dies, At
<1>5. caller'[c] = y
  BY <1>2, WentOn
<1>6. ASSUME y # Idle PROVE AllStaged(y)
  <2>0. /\ y.purge = x.purge /\ y.plan.parts = x.plan.parts /\ y.plan.staged = x.plan.staged
        /\ x.pc \in MiddlePcs
    BY <1>2, <1>3, <1>6 DEF Carries
  <2>1. CASE x.pc # "overlap" \/ x.purge # Task
    BY <1>4, <2>0, <2>1 DEF KeptBy, AllStaged, Eff, MiddlePcs
  <2>2. CASE x.pc = "overlap" /\ x.purge = Task
    <3>1. CheckOverlap(c) /\ ~GiveUp(c)
      <4>1. ~GiveUp(c)
        BY <1>5, <1>6, WentOn DEF GiveUp
      <4> QED
        BY <1>3, <2>2, <4>1 DEF Middle, CheckOverlap, PurgeSync, NextArtifact, Recheck, Removed, ReleaseArtifact,
           ArtifactsDone, LeaseForWorktree, RemoveWorktree, ReleaseWorktree, Lost, Hindered, Dies, At
    <3>2. Go(c, [x EXCEPT !.pc = ToStage(Task, x.plan), !.shared = Retained(x.plan) # {}])
      BY <1>3, <2>2, <3>1 DEF CheckOverlap
    <3>3. y = [x EXCEPT !.pc = ToStage(Task, x.plan), !.shared = Retained(x.plan) # {}]
      BY <1>5, <3>2, WentOn
    <3>4. x \in Caller /\ x.plan \in Plan
      BY <1>3, <1>4, Facts DEF Grounded
    <3>5. y.pc = ToStage(Task, x.plan)
      BY <3>3, <3>4 DEF Caller
    <3>6. y.pc = "stage" \/ NextToStage(x.plan) = {}
      BY <3>5 DEF ToStage
    <3>7. Eff(y) = y.pc
      BY <3>5, ToStageSomewhere DEF Eff
    <3> QED
      BY <2>0, <3>4, <3>6, <3>7, NothingLeft DEF AllStaged
  <2> QED
    BY <2>1, <2>2
<1>7. KeptBy(y)
  <2>1. CASE y = Idle
    BY <2>1, IdleKept
  <2>2. CASE y # Idle
    BY <1>2, <1>3, <1>4, <1>6, <2>2 DEF Carries, KeptBy, Kept, MiddlePcs, Eff
  <2> QED
    BY <2>1, <2>2
<1>8. ASSUME NEW d \in Callers PROVE KeptBy(caller'[d])
  BY <1>2, <1>7, WentOn, <1>8 DEF KeptInv
<1>9. ASSUME NEW d, KeptBy(d) PROVE KeptBy(d)'
  BY <1>1, <1>9 DEF KeptBy, Kept, AllStaged, InRegistry, InQueue, Registered
<1>10. ASSUME NEW d \in Callers PROVE KeptBy(caller[d])'
  <2>1. PICK z : z = caller'[d]
    OBVIOUS
  <2> QED
    BY <1>8, <1>9, <2>1
<1>11. ASSUME NEW p \in Purges, plan[p] # NoPlan PROVE Kept(p, plan[p])'
  BY <1>1, <1>11 DEF KeptInv, Kept, InRegistry, InQueue, Registered
<1> QED
  BY <1>1, <1>10, <1>11 DEF KeptInv

\* A step that is about purge p and moves no record.
LEMMA PlanStep ==
  ASSUME Typed, KeptInv, NEW c \in Callers, Bookkeeping(c), ~Stage(c), NEW y, Go(c, y), NEW p \in Purges,
         \A d \in Callers \ {c} : ~Busy(d, p),
         \A s \in Purges \ {p} : plan'[s] = plan[s] /\ staged'[s] = staged[s],
         (plan[p] # NoPlan => Kept(p, plan[p]))',
         KeptBy(y)'
  PROVE  KeptInv'
<1>1. \A q \in Parts : InRegistry(q) => InRegistry(q)'
  BY RegistryGrows
<1>2. \A s \in Purges : plan[s] # NoPlan => \A q \in plan[s].parts : InRegistry(q) => InRegistry(q)'
  BY <1>1, PlanParts
<1>3. \A d \in Callers : caller[d].pc # "idle" => \A q \in caller[d].plan.parts : InRegistry(q) => InRegistry(q)'
  BY <1>1, PlanParts
<1> QED
  BY <1>2, <1>3, OwnPurgeStep

LEMMA BeginsKept ==
  ASSUME Typed, Apart, KeptInv, NEW c \in Callers,
         (\E r \in Runs : BeginRun(c, r)) \/ BeginTask(c)
  PROVE  KeptInv'
<1>0. UNCHANGED <<queue, exec, plan, staged>> /\ c \in team /\ Bookkeeping(c) /\ ~Stage(c)
  BY DEF BeginRun, BeginTask, records, Bookkeeping, At, Stage
<1>1. ASSUME NEW p \in Purges PROVE (plan[p] # NoPlan => Kept(p, plan[p]))'
  BY <1>0, <1>1 DEF KeptInv, Kept, InRegistry, InQueue, Registered
<1>2. ASSUME NEW r \in Runs, BeginRun(c, r) PROVE KeptInv'
  <2>1. PICK delete \in BOOLEAN, y \in Caller :
          Go(c, y) /\ y.pc = "tombstone" /\ y.purge = r /\ y.plan = FreshPlan(PartsOf({r}), delete)
    BY <1>2, BeginRunGoes
  <2>2. RunsOnly
    BY <1>0, <1>2, SoloIdle DEF BeginRun, Apart
  <2>3. \A d \in Callers \ {c} : ~Busy(d, r)
    BY <1>2, <2>2, LockFree DEF BeginRun
  <2>4. y.plan.parts = PartsOf({r})
    BY <2>1 DEF FreshPlan
  <2>5. \A q \in PartsOf({r}) : InRegistry(q)
    BY DEF PartsOf, InRegistry, QueuePart, ExecPart
  <2>6. KeptBy(y)
    BY <2>1, <2>4, <2>5 DEF KeptBy, Kept, AllStaged, Eff
  <2>7. KeptBy(y)'
    BY <1>0, <2>6 DEF KeptBy, Kept, AllStaged, InRegistry, InQueue, Registered
  <2> QED
    BY <1>0, <1>1, <2>1, <2>3, <2>7, PlanStep DEF Purges
<1>3. ASSUME BeginTask(c) PROVE KeptInv'
  <2>0. PICK todo : todo = {r \in Runs : InQueue(r) \/ Registered(r)}
    OBVIOUS
  <2>1. PICK delete \in BOOLEAN : Go(c, [Idle EXCEPT !.pc = "stopping", !.plan = FreshPlan({}, delete), !.todo = todo])
    BY <1>3, <2>0 DEF BeginTask
  <2>2. PICK y : y = [Idle EXCEPT !.pc = "stopping", !.plan = FreshPlan({}, delete), !.todo = todo]
    OBVIOUS
  <2>3. y.pc = "stopping" /\ y.plan = FreshPlan({}, delete)
    BY <2>2 DEF Idle
  <2>4. y.plan.parts = {}
    BY <2>3 DEF FreshPlan
  <2>5. KeptBy(y)'
    BY <2>3, <2>4 DEF KeptBy, Kept, AllStaged, Eff
  <2>6. SoloTask
    BY <1>0, <1>3 DEF BeginTask, Apart, RunsOnly
  <2>7. \A d \in Callers \ {c} : ~Busy(d, Task)
    BY <1>0, <2>6, SoloIdle DEF Busy
  <2> QED
    BY <1>0, <1>1, <1>3, <2>1, <2>2, <2>5, <2>7, PlanStep DEF Purges
<1> QED
  BY <1>2, <1>3

LEMMA ResumeKept ==
  ASSUME Typed, Apart, KeptInv, NEW c \in Callers, NEW p \in Purges, Resume(c, p)
  PROVE  KeptInv'
<1>0. UNCHANGED <<queue, exec>> /\ c \in team /\ Bookkeeping(c) /\ ~Stage(c) /\ plan[p] # NoPlan /\ caller[c].pc = "idle"
  BY DEF Resume, records, Bookkeeping, At, Stage
<1>1. \A d \in Callers \ {c} : ~Busy(d, p)
  <2>1. CASE SoloTask
    BY <1>0, <2>1, SoloIdle DEF Busy
  <2>2. CASE RunsOnly
    <3>1. p \in Runs /\ ~PurgeLocked(p)
      BY <1>0, <2>2, PurgeAssumptions DEF Resume, RunsOnly, Purges
    <3> QED
      BY <2>2, <3>1, LockFree
  <2> QED
    BY <2>1, <2>2 DEF Apart
<1>2. CASE caller' = caller
  <2>1. PICK y : y = caller[c]
    OBVIOUS
  <2>2. Go(c, y)
    BY <1>2, <2>1, TypedParts DEF Go
  <2>3. KeptBy(y)'
    BY <1>0, <2>1 DEF KeptBy
  <2>4. \/ plan' = [plan EXCEPT ![p] = NoPlan] /\ staged' = [staged EXCEPT ![p] = {}]
        \/ plan' = plan /\ staged' = staged
    BY DEF Resume
  <2>5. (plan[p] # NoPlan => Kept(p, plan[p]))'
    BY <1>0, <2>4, TypedParts DEF WorldOK, KeptInv, Kept, InRegistry, InQueue, Registered
  <2>6. \A s \in Purges \ {p} : plan'[s] = plan[s] /\ staged'[s] = staged[s]
    BY <2>4, TypedParts DEF WorldOK
  <2> QED
    BY <1>0, <1>1, <2>2, <2>3, <2>5, <2>6, PlanStep
<1>3. CASE caller' # caller
  <2>1. PICK y \in Caller :
          /\ Go(c, y) /\ y.purge = p /\ y.plan = plan[p] /\ plan[p] \in Plan
          /\ y.pc = IF p = Task THEN "overlap" ELSE ToStage(p, plan[p])
    BY <1>3, ResumeGoes
  <2>2. UNCHANGED <<plan, staged>>
    BY <1>3 DEF Resume
  <2>3. Kept(p, plan[p])
    BY <1>0 DEF KeptInv
  <2>4. Kept(p, plan[p])'
    BY <1>0, <2>2, <2>3 DEF Kept, InRegistry, InQueue, Registered
  <2>5. y.pc \in {"stage", "events", "sync", "overlap"} /\ Eff(y) = y.pc
    BY <2>1, ToStageSomewhere DEF Eff
  <2>6. AllStaged(y)
    <3>1. CASE p = Task
      BY <2>1, <2>5, <3>1 DEF AllStaged
    <3>2. CASE p # Task
      <4>1. y.pc = "stage" \/ NextToStage(plan[p]) = {}
        BY <2>1, <3>2 DEF ToStage
      <4> QED
        BY <2>1, <2>5, <4>1, NothingLeft DEF AllStaged
    <3> QED
      BY <3>1, <3>2
  <2>7. KeptBy(y)'
    BY <2>1, <2>2, <2>4, <2>5, <2>6 DEF KeptBy, AllStaged
  <2> QED
    BY <1>0, <1>1, <2>1, <2>2, <2>4, <2>7, PlanStep
<1> QED
  BY <1>2, <1>3

LEMMA StoppingKept ==
  ASSUME Typed, Apart, KeptInv, NEW c \in Callers, StopRecord(c) \/ Freeze(c)
  PROVE  KeptInv'
<1> DEFINE x == caller[c]
<1>0. /\ UNCHANGED <<plan, staged>> /\ x.pc = "stopping" /\ Bookkeeping(c) /\ ~Stage(c)
      /\ x \in Caller /\ x.plan \in Plan /\ x.purge \in Purges
  BY Facts DEF StopRecord, Freeze, At, Bookkeeping, Stage, Grounded, Caller
<1>1. PICK p \in Purges : p = x.purge
  BY <1>0
<1>2. \A d \in Callers \ {c} : ~Busy(d, p)
  BY <1>0, <1>1, Alone
<1>3. \A q \in Parts : InRegistry(q) => InRegistry(q)'
  BY <1>0, RegistryGrows
<1>4. (plan[p] # NoPlan => Kept(p, plan[p]))'
  <2>1. PICK pl : pl = plan[p]
    OBVIOUS
  <2>2. pl # NoPlan => Kept(p, pl)'
    BY <1>0, <1>3, <2>1, KeptStays, PlanParts DEF KeptInv
  <2> QED
    BY <1>0, <2>1, <2>2
<1>5. KeptBy(x) /\ x.plan.parts = {}
  BY <1>0 DEF KeptInv, KeptBy, Eff
<1>6. ASSUME NEW y, Go(c, y), KeptBy(y)' PROVE KeptInv'
  BY <1>0, <1>2, <1>4, <1>6, PlanStep
<1>7. CASE StopRecord(c)
  <2>0. PICK r \in x.todo : Go(c, [x EXCEPT !.todo = @ \ {r}, !.failed = @ \/ queue[r] = "dispatching"])
    BY <1>7 DEF StopRecord
  <2>1. PICK y : y = [x EXCEPT !.todo = @ \ {r}, !.failed = @ \/ queue[r] = "dispatching"]
    OBVIOUS
  <2>3. y.pc = "stopping" /\ y.plan = x.plan
    BY <1>0, <2>1 DEF Caller
  <2>4. KeptBy(y)'
    BY <1>5, <2>3 DEF KeptBy, Kept, AllStaged, Eff
  <2> QED
    BY <1>6, <2>0, <2>1, <2>4
<1>8. CASE Freeze(c)
  <2>1. CASE GiveUp(c)
    <3>1. KeptBy(Idle)'
      BY DEF KeptBy, Idle
    <3> QED
      BY <1>6, <2>1, <3>1 DEF GiveUp
  <2>2. CASE Go(c, [x EXCEPT !.pc = "create", !.plan.parts = PartsOf(Runs)])
    <3>1. PICK known : known = [x.plan EXCEPT !.parts = PartsOf(Runs)]
      OBVIOUS
    <3>2. known.parts = PartsOf(Runs)
      BY <1>0, <3>1 DEF Plan
    <3>3. PICK y : y = [x EXCEPT !.pc = "create", !.plan = known]
      OBVIOUS
    <3>4. Go(c, y)
      BY <1>0, <2>2, <3>1, <3>3 DEF Caller
    <3>5. y.pc = "create" /\ y.plan = known
      BY <1>0, <3>3 DEF Caller
    <3>6. \A q \in PartsOf(Runs) : InRegistry(q)
      BY DEF PartsOf, InRegistry, QueuePart, ExecPart
    <3>7. \A q \in PartsOf(Runs) : InRegistry(q)'
      BY <1>3, <3>6, PartsType
    <3>8. KeptBy(y)'
      BY <3>2, <3>5, <3>7 DEF KeptBy, Kept, AllStaged, Eff
    <3> QED
      BY <1>6, <3>4, <3>8
  <2> QED
    BY <1>8, <2>1, <2>2 DEF Freeze
<1> QED
  BY <1>7, <1>8

\* An invocation goes on with the plan it has, writing it or not.
LEMMA WritingKept ==
  ASSUME Typed, Apart, KeptInv, NEW c \in Callers,
         CreateTombstone(c) \/ CreatePlan(c) \/ Persist(c) \/ CompactEvents(c) \/ Erase(c) \/ CompleteTombstone(c) \/ Clean(c)
  PROVE  KeptInv'
<1>0. /\ UNCHANGED <<queue, exec>> /\ Bookkeeping(c) /\ ~Stage(c) /\ caller[c].pc # "idle"
      /\ caller[c] \in Caller /\ caller[c].plan \in Plan /\ caller[c].purge \in Purges
  BY Facts DEF CreateTombstone, CreatePlan, Persist, CompactEvents, Erase, CompleteTombstone, Clean, At, Bookkeeping,
     Stage, Grounded, Caller, records
<1>x. PICK x \in Caller : x = caller[c]
  BY <1>0
<1>p. PICK p \in Purges : p = x.purge
  BY <1>0, <1>x
<1>l. PICK pl \in Plan : pl = x.plan
  BY <1>0, <1>x
<1>1. \A d \in Callers \ {c} : ~Busy(d, p)
  BY <1>0, <1>x, <1>p, Alone
<1>2. KeptBy(x) /\ x.pc # "idle" /\ Kept(p, pl) /\ (plan[p] # NoPlan => Kept(p, plan[p]))
  BY <1>0, <1>x, <1>p, <1>l DEF KeptInv, KeptBy
<1>3. /\ plan \in [Purges -> Plan \cup {NoPlan}] /\ staged \in [Purges -> SUBSET Parts]
  BY TypedParts DEF WorldOK
<1>4. UNCHANGED <<plan, staged>> \/ (plan' = [plan EXCEPT ![p] = pl] /\ staged' = staged)
        => (Kept(p, pl))' /\ (plan[p] # NoPlan => Kept(p, plan[p]))'
  BY <1>0, <1>2, <1>3 DEF Kept, InRegistry, InQueue, Registered
<1>5. CASE CreateTombstone(c) \/ CompleteTombstone(c)
  <2>1. PICK pc \in {"create", "clean"} : KeepsPlan(c, pc) /\ (pc = "clean" => x.pc = "complete")
    BY <1>5, <1>x, BookkeepingGoes DEF CompleteTombstone, At
  <2>2. PICK y \in Caller : Go(c, y) /\ y.pc = pc /\ y.purge = p /\ y.plan = pl
    BY <2>1, <1>x, <1>p, <1>l DEF KeepsPlan
  <2>3. UNCHANGED <<plan, staged>>
    BY <1>5 DEF CreateTombstone, CompleteTombstone
  <2>4. AllStaged(y)
    BY <1>2, <1>l, <2>1, <2>2 DEF KeptBy, AllStaged, Eff
  <2>5. pc = "clean" => plan[p] = pl
    BY <1>2, <1>p, <1>l, <2>1 DEF KeptBy
  <2>6. KeptBy(y)'
    BY <1>4, <2>1, <2>2, <2>3, <2>4, <2>5 DEF KeptBy, AllStaged, Eff
  <2> QED
    BY <1>0, <1>1, <1>4, <2>2, <2>3, <2>6, PlanStep
<1>6. CASE CreatePlan(c) \/ Persist(c)
  <2>1. plan' = [plan EXCEPT ![p] = pl] /\ staged' = staged
    BY <1>6, <1>x, <1>p, <1>l DEF CreatePlan, Persist
  <2>2. CASE CreatePlan(c)
    <3>1. KeepsPlan(c, IF p = Task THEN "overlap" ELSE "stage")
      BY <2>2, <1>x, <1>p, BookkeepingGoes
    <3>2. PICK y \in Caller : Go(c, y) /\ y.pc = (IF p = Task THEN "overlap" ELSE "stage") /\ y.purge = p /\ y.plan = pl
      BY <3>1, <1>x, <1>p, <1>l DEF KeepsPlan
    <3>3. KeptBy(y)'
      BY <1>3, <1>4, <2>1, <3>2 DEF KeptBy, AllStaged, Eff
    <3> QED
      BY <1>0, <1>1, <1>3, <1>4, <2>1, <3>2, <3>3, PlanStep
  <2>3. CASE Persist(c)
    <3>1. KeepsPlan(c, x.next) /\ x.pc = "persist"
      BY <2>3, <1>x, BookkeepingGoes DEF Persist, At
    <3>2. PICK y \in Caller : Go(c, y) /\ y.pc = x.next /\ y.next = x.next /\ y.purge = p /\ y.plan = pl
      BY <3>1, <1>x, <1>p, <1>l DEF KeepsPlan
    <3>3. Eff(y) = Eff(x) /\ AllStaged(x)
      BY <1>2, <3>1, <3>2 DEF Eff, KeptBy
    <3>4. KeptBy(y)'
      BY <1>2, <1>3, <1>4, <1>p, <1>l, <2>1, <3>2, <3>3 DEF KeptBy, AllStaged
    <3> QED
      BY <1>0, <1>1, <1>3, <1>4, <2>1, <3>2, <3>4, PlanStep
  <2> QED
    BY <1>6, <2>2, <2>3
<1>7. CASE CompactEvents(c)
  <2>1. PICK known : known = [pl EXCEPT !.events = TRUE]
    OBVIOUS
  <2>2. known.parts = pl.parts /\ known.staged = pl.staged
    BY <2>1 DEF Plan
  <2>3. WillPersist(c, known, "erase") /\ x.pc = "events"
    BY <1>7, <1>x, <1>l, <2>1, BookkeepingGoes DEF CompactEvents, At
  <2>4. PICK y \in Caller : Go(c, y) /\ y.pc = "persist" /\ y.next = "erase" /\ y.purge = p /\ y.plan = known
    BY <1>x, <1>p, <2>3 DEF WillPersist
  <2>5. UNCHANGED <<plan, staged>>
    BY <1>7 DEF CompactEvents
  <2>6. pl.parts \subseteq pl.staged
    BY <1>2, <1>l, <2>3 DEF KeptBy, AllStaged, Eff
  <2>7. KeptBy(y)'
    BY <2>2, <2>4, <2>6 DEF KeptBy, Kept, AllStaged, Eff
  <2> QED
    BY <1>0, <1>1, <1>4, <2>4, <2>5, <2>7, PlanStep
<1>8. CASE Erase(c)
  <2>1. PICK pc \in {"clean", "complete"} : KeepsPlan(c, pc)
    BY <1>8, BookkeepingGoes
  <2>2. PICK y \in Caller : Go(c, y) /\ y.pc = pc /\ y.purge = p /\ y.plan = pl
    BY <2>1, <1>x, <1>p, <1>l DEF KeepsPlan
  <2>3. plan' = plan /\ staged' = [staged EXCEPT ![p] = {}] /\ x.pc = "erase"
    BY <1>8, <1>x, <1>p DEF Erase, At
  <2>4. pl.parts \subseteq pl.staged /\ plan[p] = pl
    BY <1>2, <1>p, <1>l, <2>3 DEF KeptBy, AllStaged, Eff
  <2>5. Kept(p, pl)' /\ (plan[p] # NoPlan => Kept(p, plan[p]))'
    BY <2>3, <2>4 DEF Kept
  <2>6. KeptBy(y)'
    BY <2>1, <2>2, <2>3, <2>4, <2>5 DEF KeptBy, AllStaged, Eff
  <2>7. \A s \in Purges \ {p} : plan'[s] = plan[s] /\ staged'[s] = staged[s]
    BY <1>3, <2>3
  <2> QED
    BY <1>0, <1>1, <2>2, <2>5, <2>6, <2>7, PlanStep
<1>9. CASE Clean(c)
  <2>1. plan' = [plan EXCEPT ![p] = NoPlan] /\ staged' = [staged EXCEPT ![p] = {}] /\ Go(c, Idle)
    BY <1>9, <1>x, <1>p DEF Clean, GiveUp
  <2>2. (plan[p] # NoPlan => Kept(p, plan[p]))'
    BY <1>3, <2>1
  <2>3. KeptBy(Idle)'
    BY DEF KeptBy, Idle
  <2>4. \A s \in Purges \ {p} : plan'[s] = plan[s] /\ staged'[s] = staged[s]
    BY <1>3, <2>1
  <2> QED
    BY <1>0, <1>1, <2>1, <2>2, <2>3, <2>4, PlanStep
<1> QED
  BY <1>5, <1>6, <1>7, <1>8, <1>9

\* A record moves from the registry to the staging directory of the one purge that counts on it.
LEMMA StageKept ==
  ASSUME Typed, Apart, KeptInv, NEW c \in Callers, Stage(c)
  PROVE  KeptInv'
<1>0. /\ caller[c].pc = "stage" /\ caller[c] \in Caller /\ caller[c].plan \in Plan /\ caller[c].purge \in Purges
      /\ plan' = plan
  BY Facts DEF Stage, At, Grounded, Caller
<1>x. PICK x \in Caller : x = caller[c]
  BY <1>0
<1>p. PICK p \in Purges : p = x.purge
  BY <1>0, <1>x
<1>l. PICK pl \in Plan : pl = x.plan
  BY <1>0, <1>x
<1>1. \A d \in Callers \ {c} : ~Busy(d, p)
  BY <1>0, <1>x, <1>p, Alone
<1>2. x.pc = "stage" /\ Kept(p, pl) /\ plan[p] = pl
  BY <1>0, <1>x, <1>p, <1>l DEF KeptInv, KeptBy
<1>3. /\ queue \in [Runs -> QueueStatuses] /\ exec \in [Runs -> ExecStatuses] /\ staged \in [Purges -> SUBSET Parts]
  BY TypedParts DEF WorldOK
<1> DEFINE known(q) == [pl EXCEPT !.staged = @ \cup {q}]
<1>4. PICK q \in NextToStage(pl) :
        \/ /\ staged' = [staged EXCEPT ![p] = @ \cup {q}]
           /\ queue' = IF q[2] = "queue" THEN [queue EXCEPT ![q[1]] = "absent"] ELSE queue
           /\ exec' = IF q[2] = "exec" THEN [exec EXCEPT ![q[1]] = "absent"] ELSE exec
           /\ GoPersist(c, known(q), ToStage(p, known(q)))
        \/ /\ UNCHANGED <<staged, queue, exec>>
           /\ GoPersist(c, known(q), ToStage(p, known(q)))
        \/ UNCHANGED <<staged, queue, exec>> /\ Go(c, Idle)
  BY <1>x, <1>p, <1>l DEF Stage, records, GiveUp
<1>5. q \in pl.parts \ pl.staged /\ q \in Parts
  BY <1>4, NextToStageParts DEF Plan
<1>6. ASSUME NEW s \in Parts \ {q}, InRegistry(s) PROVE InRegistry(s)'
  <2>1. /\ s[1] \in Runs /\ s[2] \in {"queue", "exec"} /\ q[1] \in Runs /\ q[2] \in {"queue", "exec"}
        /\ s[1] # q[1] \/ s[2] # q[2]
    BY <1>5 DEF Parts
  <2>2. CASE UNCHANGED <<queue, exec>>
    BY <1>6, <2>2 DEF InRegistry, InQueue, Registered
  <2>3. CASE /\ queue' = IF q[2] = "queue" THEN [queue EXCEPT ![q[1]] = "absent"] ELSE queue
             /\ exec' = IF q[2] = "exec" THEN [exec EXCEPT ![q[1]] = "absent"] ELSE exec
    <3>1. s[2] = "queue" => queue'[s[1]] = queue[s[1]]
      BY <1>3, <2>1, <2>3
    <3>2. s[2] = "exec" => exec'[s[1]] = exec[s[1]]
      BY <1>3, <2>1, <2>3
    <3> QED
      BY <1>6, <2>1, <3>1, <3>2 DEF InRegistry, InQueue, Registered
  <2> QED
    BY <1>4, <2>2, <2>3
<1>7. \A s \in Purges \ {p} : plan[s] # NoPlan => \A k \in plan[s].parts : InRegistry(k) => InRegistry(k)'
  <2>1. \A s \in Purges \ {p} : plan[s] # NoPlan => plan[s].parts \subseteq Parts \ {q}
    BY <1>0, <1>x, <1>p, <1>l, <1>5, Alone, PlanParts
  <2> QED
    BY <1>6, <2>1
<1>8. \A d \in Callers \ {c} : caller[d].pc # "idle" => \A k \in caller[d].plan.parts : InRegistry(k) => InRegistry(k)'
  <2>1. \A d \in Callers \ {c} : caller[d].pc # "idle" => caller[d].plan.parts \subseteq Parts \ {q}
    BY <1>0, <1>x, <1>l, <1>5, Alone, PlanParts
  <2> QED
    BY <1>6, <2>1
<1>9. \A s \in Purges \ {p} : plan'[s] = plan[s] /\ staged'[s] = staged[s]
  BY <1>0, <1>3, <1>4
<1>10. staged[p] \subseteq staged'[p]
  BY <1>3, <1>4
<1>11. \A k \in pl.parts \ (pl.staged \cup {q}) : InRegistry(k)' \/ k \in staged'[p]
  <2>1. \A k \in pl.parts \ (pl.staged \cup {q}) : k \in Parts \ {q} /\ (InRegistry(k) \/ k \in staged[p])
    BY <1>2 DEF Plan, Kept
  <2> QED
    BY <1>6, <1>10, <2>1
<1>12. Kept(p, pl)'
  <2>1. InRegistry(q)' \/ q \in staged'[p]
    <3>1. CASE staged' = [staged EXCEPT ![p] = @ \cup {q}]
      BY <1>3, <3>1
    <3>2. CASE UNCHANGED <<staged, queue, exec>>
      BY <1>2, <1>5, <3>2 DEF Kept, InRegistry, InQueue, Registered
    <3> QED
      BY <1>4, <3>1, <3>2
  <2> QED
    BY <1>11, <2>1 DEF Kept
<1>13. (plan[p] # NoPlan => Kept(p, plan[p]))'
  BY <1>0, <1>2, <1>12
<1>14. ASSUME NEW y, Go(c, y), KeptBy(y)' PROVE KeptInv'
  BY <1>1, <1>7, <1>8, <1>9, <1>13, <1>14, OwnPurgeStep
<1>15. CASE Go(c, Idle)
  <2>1. KeptBy(Idle)'
    BY DEF KeptBy, Idle
  <2> QED
    BY <1>14, <1>15, <2>1
<1>16. CASE GoPersist(c, known(q), ToStage(p, known(q)))
  <2>1. PICK new : new = known(q)
    OBVIOUS
  <2>2. new \in Plan /\ new.parts = pl.parts /\ new.staged = pl.staged \cup {q}
    BY <1>5, <2>1 DEF Plan
  <2>3. PICK pc : pc = ToStage(p, new)
    OBVIOUS
  <2>4. pc \in {"stage", "events", "sync", "overlap"} /\ (pc = "stage" \/ NextToStage(new) = {})
    BY <2>3, ToStageSomewhere DEF ToStage
  <2>5. PICK y : y = [x EXCEPT !.plan = new, !.pc = "persist", !.next = pc]
    OBVIOUS
  <2>6. Go(c, y)
    BY <1>16, <1>x, <2>1, <2>3, <2>5 DEF GoPersist
  <2>7. y.pc = "persist" /\ y.next = pc /\ y.purge = p /\ y.plan = new
    BY <1>p, <2>5 DEF Caller
  <2>8. AllStaged(y)
    BY <2>2, <2>4, <2>7, NothingLeft DEF AllStaged, Eff
  <2>9. KeptBy(y)'
    BY <1>11, <2>2, <2>4, <2>7, <2>8 DEF KeptBy, Kept, AllStaged, Eff
  <2> QED
    BY <1>14, <2>6, <2>9
<1> QED
  BY <1>4, <1>15, <1>16

LEMMA KeptKept ==
  ASSUME Typed, Apart, KeptInv, [Next]_vars
  PROVE  KeptInv'
<1>1. CASE UNCHANGED vars
  BY <1>1 DEF vars, records, KeptInv, KeptBy, Kept, AllStaged, Eff, InRegistry, InQueue, Registered
<1>2. ASSUME NEW c \in Callers, Bookkeeping(c) PROVE KeptInv'
  BY <1>2, BeginsKept, ResumeKept, StoppingKept, WritingKept, StageKept DEF Bookkeeping
<1> QED
  BY <1>1, <1>2, SurroundingsKept, MiddleKept, NextParts

\* Only purge-run writes the plan of a run, only purge-task that of the task.
LEMMA PlansFitKept ==
  ASSUME Typed, PlansFit, [Next]_vars
  PROVE  PlansFit'
<1>0. plan \in [Purges -> Plan \cup {NoPlan}]
  BY TypedParts DEF WorldOK
<1>1. team' = team
  BY TeamStays
<1>2. ASSUME NEW p \in Purges, plan'[p] # NoPlan
      PROVE  (RunsOnly => p \in Runs) /\ (SoloTask => p = Task)
  <2>1. CASE plan'[p] = plan[p]
    BY <1>2, <2>1 DEF PlansFit
  <2>2. CASE plan'[p] # plan[p]
    <3>1. Next
      BY <2>2 DEF vars
    <3>2. PICK c \in Callers : CreatePlan(c) \/ Persist(c)
      BY <1>2, <2>2, <3>1, PlanWritten
    <3>3. caller[c].purge = p /\ c \in team /\ caller[c].pc # "idle"
      BY <1>0, <2>2, <3>2 DEF CreatePlan, Persist, At
    <3>4. (c \in RunPurgers => p \in Runs) /\ (c \notin RunPurgers => p = Task)
      BY <3>3, Facts DEF Grounded
    <3>5. RunsOnly => c \in RunPurgers
      BY <3>3 DEF RunsOnly, Callers
    <3>6. SoloTask => c \notin RunPurgers
      BY <3>3, SoloIdle
    <3> QED
      BY <3>4, <3>5, <3>6
  <2> QED
    BY <2>1, <2>2
<1> QED
  BY <1>1, <1>2 DEF PlansFit, RunsOnly, SoloTask

\* A purge that has died can be resumed from its plan, wherever it died and whatever was
\* submitted and dispatched since: each record that it has yet to stage is in the registry
\* or in its own staging directory.  So it is while the purges are invocations of purge-run,
\* any number of them, or one purge-task.  purge-task takes no lock: of two invocations the
\* slower one may write its plan again after the faster one has erased the records.
THEOREM PlansResume ==
  ASSUME \A T \in Teams : T \cap TaskPurgers = {} \/ \E t \in TaskPurgers : T = {t}
  PROVE  Spec => []Resumable
<1> DEFINE Inv == PurgeInv /\ Apart /\ KeptInv
<1>1. Init => Inv
  <2> SUFFICES ASSUME Init PROVE Inv
    OBVIOUS
  <2>1. PurgeInv /\ team \in Teams
    BY PurgeInit DEF Init
  <2>2. \A p \in Purges : plan[p] = NoPlan
    BY DEF Init
  <2>3. RunsOnly \/ SoloTask
    BY <2>1 DEF RunsOnly, SoloTask
  <2>4. \A c \in Callers : KeptBy(caller[c])
    BY IdleKept DEF Init
  <2> QED
    BY <2>1, <2>2, <2>3, <2>4 DEF PurgeInv, Apart, PlansFit, KeptInv
<1>2. Inv /\ [Next]_vars => Inv'
  <2> SUFFICES ASSUME Inv, [Next]_vars PROVE Inv'
    OBVIOUS
  <2>1. PurgeInv' /\ KeptInv' /\ PlansFit'
    BY PurgeStep, KeptKept, PlansFitKept DEF PurgeInv, Apart
  <2>2. team' = team
    BY TeamStays DEF PurgeInv
  <2> QED
    BY <2>1, <2>2 DEF PurgeInv, Apart, RunsOnly, SoloTask
<1>3. Inv => Resumable
  BY DEF KeptInv, Kept, Resumable
<1> QED
  BY <1>1, <1>2, <1>3, PTL DEF Spec
=============================================================================
