------------------------------- MODULE Queue -------------------------------
(***************************************************************************)
(* The queue of a project: its entries, of two files each (the job and its *)
(* state), the commands that edit and reserve them under the queue lock,   *)
(* and a dispatcher that lists them without it, plans a batch, and marks   *)
(* the jobs of its plan.  Leases and launches are modelled in Dispatch.    *)
(***************************************************************************)
EXTENDS Naturals, FiniteSets, Sequences, SequencesExt

CONSTANTS
  Jobs,
  NoJob,            \* "no job in hand"
  Machines,
  Clients,          \* users of queue control
  NoClient,         \* "no placement update"
  NoPlace,          \* "not dispatched"
  Initial,          \* job -> the machines that it was prepared on for its submission
  Requests,         \* bound: the edits that are asked for, sets of kinds
  MaxEdits,         \* bound: edits that are written
  MaxReservations,  \* bound: placement updates that are reserved
  MaxRecoveries,    \* bound: dispatches that are interrupted
  MaxBatches,       \* bound: batches that are planned
  MaxListed,        \* bound: jobs that are submitted in a behaviour with a batch
  MaxTears,         \* bound: commands that die among their writes
  MaxEvents         \* bound: all of these together

Classes == {"standard", "test"}
Priorities == {"normal", "urgent"}
Kinds == {"up", "down", "first", "class", "priority", "servers"}

ASSUME QueueAssumptions ==
  /\ NoJob \notin Jobs /\ NoClient \notin Clients
  /\ NoPlace \notin [machine: Machines, class: Classes]
  /\ Initial \in [Jobs -> (SUBSET Machines) \ {{}}]
  /\ Requests \subseteq SUBSET Kinds
  /\ {MaxEdits, MaxReservations, MaxRecoveries, MaxBatches, MaxListed, MaxTears, MaxEvents} \subseteq Nat

VARIABLES
  job,         \* run -> job.yaml
  state,       \* run -> state.yaml
  placed,      \* run -> the machine and class it is dispatched with
  writing,     \* files that the holder of the queue lock has still to write
  submitted,   \* runs in the order of their submission
  client,      \* client -> where its request stands
  dispatcher,  \* what the dispatcher has listed and planned
  history,     \* of jobs whose place has changed, see below
  budget

files == <<job, state, writing>>
vars == <<files, placed, submitted, client, dispatcher, history, budget>>

Spacing == 1024             \* between the last job of a lane and one put behind it
Instant == 1000 * Spacing   \* between two submissions: longer than edits reach

JobFile == [class: Classes, priority: Priorities, position: Nat,
            prepared: SUBSET Machines, eligible: SUBSET Machines, locked: BOOLEAN]
Blank == [class |-> "standard", priority |-> "normal", position |-> 0,
          prepared |-> {}, eligible |-> {}, locked |-> FALSE]

\* update: whose placement update is noted; live: its time is not over.
StateFile == [status: {"absent", "queued", "dispatching", "dispatched", "stopped"},
              revision: Nat, update: Clients \cup {NoClient}, live: BOOLEAN]
Absent == [status |-> "absent", revision |-> 0, update |-> NoClient, live |-> FALSE]

Nothing == [j \in {} |-> Blank]
NothingToWrite == [jobs |-> Nothing, states |-> Nothing]
NoRequest == [pc |-> "idle", job |-> NoJob, revision |-> 0, want |-> {}]
Idle == [pc |-> "idle", left |-> {}, reading |-> NoJob, file |-> Blank,
         rows |-> Nothing, room |-> Nothing, drained |-> {}, plan |-> Nothing,
         batch |-> Nothing]

\* wrote: jobs whose place the command that writes has changed; mixed: those whose row in
\* the dispatcher's list may say another place than the revisions it goes with, for they
\* were moved while the list was read, or by a command that died among its writes.
NoHistory == [wrote |-> {}, mixed |-> {}]

TypeOK ==
  /\ job \in [Jobs -> JobFile]
  /\ state \in [Jobs -> StateFile]
  /\ \A j \in Jobs : job[j].eligible \subseteq job[j].prepared
  /\ \A j \in Jobs : (placed[j] = NoPlace) <=> (state[j].status \notin {"dispatching", "dispatched"})
  /\ DOMAIN writing.jobs \cup DOMAIN writing.states \subseteq Jobs
  /\ submitted \in Seq(Jobs)
  /\ client \in [Clients -> [pc: {"idle", "looked", "reserved", "extended", "release"},
                             job: Jobs \cup {NoJob}, revision: Nat, want: SUBSET Machines]]
  /\ dispatcher.pc \in {"idle", "list", "plan", "mark"}
  /\ DOMAIN dispatcher.plan \subseteq Jobs /\ DOMAIN dispatcher.rows \subseteq Jobs
  /\ history \in [wrote: SUBSET Jobs, mixed: SUBSET Jobs]
  /\ budget \in [{"edits", "reservations", "recoveries", "batches", "tears", "events"} -> Nat]

Init ==
  /\ job = [j \in Jobs |-> Blank]
  /\ state = [j \in Jobs |-> Absent]
  /\ placed = [j \in Jobs |-> NoPlace]
  /\ writing = NothingToWrite
  /\ submitted = <<>>
  /\ client = [c \in Clients |-> NoRequest]
  /\ dispatcher = Idle
  /\ history = NoHistory
  /\ budget = [edits |-> MaxEdits, reservations |-> MaxReservations, recoveries |-> MaxRecoveries,
               batches |-> MaxBatches, tears |-> MaxTears, events |-> MaxEvents]

Spend(what) ==
  /\ budget[what] > 0 /\ budget["events"] > 0
  /\ budget' = [budget EXCEPT ![what] = @ - 1, !["events"] = @ - 1]

LockFree == writing = NothingToWrite
On(pc) == dispatcher.pc = pc
Queued == {j \in Jobs : state[j].status = "queued"}
Active(s) == s.update # NoClient /\ s.live
With(old, new) == [j \in DOMAIN old |-> IF j \in DOMAIN new THEN new[j] ELSE old[j]]
Minus(f, j) == [i \in DOMAIN f \ {j} |-> f[i]]
Plus(f, j, x) == [i \in DOMAIN f \cup {j} |-> IF i = j THEN x ELSE f[i]]
Only(j, x) == Plus(Nothing, j, x)
Index(s, e) == CHOOSE k \in DOMAIN s : s[k] = e

\* The order of list_queued; created_at breaks ties.
Rank(p) == IF p = "urgent" THEN 1 ELSE 0
Before(f, i, j) ==
  \/ Rank(f[i].priority) > Rank(f[j].priority)
  \/ /\ f[i].priority = f[j].priority
     /\ \/ f[i].position < f[j].position
        \/ f[i].position = f[j].position /\ Index(submitted, i) < Index(submitted, j)
InLine(f, who) ==
  [k \in 1 .. Cardinality(who) |-> CHOOSE j \in who : Cardinality({i \in who : Before(f, i, j)}) = k - 1]

(***************************************************************************)
(* Submission, and how a job leaves the queue and comes back.              *)
(***************************************************************************)
Submit(j) ==
  /\ state[j].status = "absent" /\ LockFree
  /\ budget["batches"] < MaxBatches => Len(submitted) < MaxListed
  /\ \E c \in Classes, p \in Priorities :
       /\ ({"class"} \notin Requests => c = "standard") /\ ({"priority"} \notin Requests => p = "normal")
       /\ job' = [job EXCEPT ![j] = [class |-> c, priority |-> p, position |-> Instant * (Len(submitted) + 1),
                                     prepared |-> Initial[j], eligible |-> Initial[j], locked |-> FALSE]]
  /\ state' = [state EXCEPT ![j].status = "queued"]
  /\ submitted' = Append(submitted, j)
  /\ UNCHANGED <<placed, writing, client, dispatcher, history, budget>>

Moves(j, from, to) ==
  /\ state[j].status = from /\ LockFree
  /\ state' = [state EXCEPT ![j].status = to, ![j].revision = @ + 1]
  /\ UNCHANGED <<job, writing, submitted, client, history>>

StopQueued(j) == Moves(j, "queued", "stopped") /\ UNCHANGED <<placed, dispatcher, budget>>
Launched(j) == Moves(j, "dispatching", "dispatched") /\ UNCHANGED <<placed, dispatcher, budget>>

\* A dispatcher that finds the job of a dead one.
Recover(j) ==
  /\ dispatcher.pc = "idle" /\ Spend("recoveries")
  /\ Moves(j, "dispatching", "queued")
  /\ placed' = [placed EXCEPT ![j] = NoPlace]
  /\ UNCHANGED dispatcher

(***************************************************************************)
(* Edits: what update_queued_job computes and writes under the lock.       *)
(***************************************************************************)
SameLane(a, b) == a.class = b.class /\ a.priority = b.priority
SamePlace(a, b) == SameLane(a, b) /\ a.position = b.position
Other(set, x) == CHOOSE y \in set : y # x

\* Behind every queued job of the lane.
PutLast(j, new) ==
  LET positions == {job[i].position : i \in {k \in Queued \ {j} : SameLane(job[k], new)}}
  IN [new EXCEPT !.position = (IF positions = {} THEN 0 ELSE Max(positions)) + Spacing]

Changed(j, kinds, servers) ==
  LET a == IF "servers" \in kinds THEN [job[j] EXCEPT !.eligible = servers, !.locked = TRUE] ELSE job[j]
      b == IF "class" \in kinds THEN PutLast(j, [a EXCEPT !.class = Other(Classes, @)]) ELSE a
  IN IF "priority" \in kinds THEN PutLast(j, [b EXCEPT !.priority = Other(Priorities, @)]) ELSE b

Respaced(f, line) ==
  LET base == Min({f[i].position : i \in ToSet(line)})
  IN [i \in ToSet(line) |-> [f[i] EXCEPT !.position = base + 2 * (Index(line, i) - 1)]]

\* Two neighbours change places.
Swapped(f, line, j, i) ==
  LET g == IF f[j].position = f[i].position THEN With(f, Respaced(f, line)) ELSE f
      swap == Plus(Only(i, [g[i] EXCEPT !.position = g[j].position]), j, [g[j] EXCEPT !.position = g[i].position])
  IN IF g = f THEN swap ELSE With(Respaced(f, line), swap)

\* Mutant of LineOf: the lane is not sorted.
LineUnsorted(f, file) == SelectSeq(submitted, LAMBDA i : i \in Queued /\ SameLane(f[i], file))

LineOf(f, file) == InLine(f, {i \in Queued : SameLane(f[i], file)})

\* The job files that a move writes.
Move(j, new, kinds) ==
  LET f == [job EXCEPT ![j] = new]
      line == LineOf(f, new)
      k == Index(line, j)
  IN CASE "first" \in kinds /\ k > 1 -> Respaced(f, <<j>> \o RemoveAt(line, k))
       [] "up" \in kinds /\ k > 1 -> Swapped(f, line, j, line[k - 1])
       [] "down" \in kinds /\ k < Len(line) -> Swapped(f, line, j, line[k + 1])
       [] OTHER -> Only(j, new)

\* Mutant of Bumped: only the record that was edited.
BumpedAlone(j, new) == {j}

\* A change of the order invalidates what anybody has seen of the whole queue.
Bumped(j, new) ==
  IF \E i \in DOMAIN new : ~SamePlace(new[i], job[i]) THEN Queued ELSE {j}

Bump(j, bumped) ==
  [i \in bumped |->
     IF i = j /\ Active(state[j])
       THEN [state[i] EXCEPT !.revision = @ + 1, !.update = NoClient, !.live = FALSE]
       ELSE [state[i] EXCEPT !.revision = @ + 1]]

\* The job files come first, then the states, each file on its own.
Write(jobs, states) == writing' = [jobs |-> jobs, states |-> states] /\ UNCHANGED <<job, state>>

Update(j, kinds, servers) ==
  LET new == Move(j, Changed(j, kinds, servers), kinds) IN
  IF new = Only(j, job[j]) /\ ~Active(state[j])
    THEN UNCHANGED files /\ UNCHANGED budget
    ELSE Write(new, Bump(j, Bumped(j, new))) /\ Spend("edits")

WriteJob ==
  /\ \E j \in DOMAIN writing.jobs :
       /\ job' = [job EXCEPT ![j] = writing.jobs[j]] /\ writing' = [writing EXCEPT !.jobs = Minus(writing.jobs, j)]
       /\ history' = IF SamePlace(writing.jobs[j], job[j]) THEN history
                     ELSE [wrote |-> history.wrote \cup {j},
                           mixed |-> history.mixed \cup (IF On("list") THEN {j} \ dispatcher.left ELSE {})]
  /\ UNCHANGED <<state, placed, submitted, client, dispatcher, budget>>

WriteState ==
  /\ DOMAIN writing.jobs = {}
  /\ \E j \in DOMAIN writing.states :
       state' = [state EXCEPT ![j] = writing.states[j]] /\ writing' = [writing EXCEPT !.states = Minus(writing.states, j)]
  /\ history' = IF writing' = NothingToWrite THEN [history EXCEPT !.wrote = {}] ELSE history
  /\ UNCHANGED <<job, placed, submitted, client, dispatcher, budget>>

\* The command that holds the lock dies.
EditTears ==
  /\ ~LockFree /\ Spend("tears")
  /\ writing' = NothingToWrite
  /\ history' = [wrote |-> {}, mixed |-> history.mixed \cup history.wrote]
  /\ UNCHANGED <<job, state, placed, submitted, client, dispatcher>>

(***************************************************************************)
(* Queue control: a client looks at a job and asks for an edit of what it  *)
(* saw; machines that the job is not prepared for are prepared first,      *)
(* under a placement update that is reserved for a limited time.           *)
(***************************************************************************)
Rest == <<placed, submitted, dispatcher, history>>
Asks(c, new) == client' = [client EXCEPT ![c] = new]
At(c, pc) == client[c].pc = pc

\* As it was seen, and not held by the placement update of somebody else.
Editable(c, j, expected) ==
  /\ j \in Queued /\ state[j].revision = expected
  /\ Active(state[j]) => state[j].update = c

Look(c, j) ==
  /\ At(c, "idle") /\ j \in Queued /\ budget["edits"] + budget["reservations"] > 0
  /\ Asks(c, [NoRequest EXCEPT !.pc = "looked", !.job = j, !.revision = state[j].revision])
  /\ UNCHANGED <<Rest, files, budget>>

Edit(c) ==
  LET j == client[c].job IN
  /\ At(c, "looked") /\ LockFree
  /\ Asks(c, NoRequest)
  /\ IF Editable(c, j, client[c].revision) /\ ~Active(state[j])
       THEN \E kinds \in Requests :
              \E servers \in IF "servers" \in kinds THEN (SUBSET job[j].prepared) \ {{}} ELSE {{}} :
                Update(j, kinds, servers)
       ELSE UNCHANGED <<files, budget>>
  /\ UNCHANGED Rest

\* Mutant of Reserve: the reservation leaves the revision as it is.
ReserveUnseen(c) ==
  LET j == client[c].job IN
  /\ At(c, "looked") /\ LockFree /\ {"servers"} \in Requests
  /\ IF Editable(c, j, client[c].revision) /\ ~Active(state[j])
       THEN /\ Spend("reservations")
            /\ \E want \in SUBSET Machines :
                 /\ want \ job[j].prepared # {}
                 /\ Asks(c, [client[c] EXCEPT !.pc = "reserved", !.want = want])
            /\ state' = [state EXCEPT ![j].update = c, ![j].live = TRUE]
       ELSE Asks(c, NoRequest) /\ UNCHANGED <<state, budget>>
  /\ UNCHANGED <<Rest, job, writing>>

Reserve(c) ==
  LET j == client[c].job IN
  /\ At(c, "looked") /\ LockFree /\ {"servers"} \in Requests
  /\ IF Editable(c, j, client[c].revision) /\ ~Active(state[j])
       THEN /\ Spend("reservations")
            /\ \E want \in SUBSET Machines :
                 /\ want \ job[j].prepared # {}
                 /\ Asks(c, [client[c] EXCEPT !.pc = "reserved", !.revision = @ + 1, !.want = want])
            /\ state' = [state EXCEPT ![j].revision = @ + 1, ![j].update = c, ![j].live = TRUE]
       ELSE Asks(c, NoRequest) /\ UNCHANGED <<state, budget>>
  /\ UNCHANGED <<Rest, job, writing>>

Holds(c) == state[client[c].job].update = c /\ state[client[c].job].live

\* Mutant of Prepare: the machines are made eligible and not noted as prepared.
PrepareUnlisted(j, servers) ==
  job' = [job EXCEPT ![j].eligible = IF job[j].locked THEN @ ELSE job[j].prepared \cup servers]

Prepare(j, servers) ==
  job' = [job EXCEPT ![j].prepared = @ \cup servers,
                     ![j].eligible = IF job[j].locked THEN @ ELSE job[j].prepared \cup servers]

\* extend_queued_job with the token, after the preparation of the machines.
Extend(c) ==
  LET j == client[c].job IN
  /\ At(c, "reserved") /\ LockFree
  /\ IF j \in Queued /\ Holds(c)
       THEN Prepare(j, client[c].want) /\ Asks(c, [client[c] EXCEPT !.pc = "extended"])
       ELSE Asks(c, [client[c] EXCEPT !.pc = "release"]) /\ UNCHANGED job
  /\ UNCHANGED <<Rest, state, writing, budget>>

PreparationFails(c) ==
  /\ At(c, "reserved")
  /\ Asks(c, [client[c] EXCEPT !.pc = "release"])
  /\ UNCHANGED <<Rest, files, budget>>

Commit(c) ==
  LET j == client[c].job IN
  /\ At(c, "extended") /\ LockFree
  /\ IF Holds(c) /\ Editable(c, j, client[c].revision)
       THEN Asks(c, NoRequest) /\ \E kinds \in {k \in Requests : "servers" \in k} : Update(j, kinds, client[c].want)
       ELSE Asks(c, [client[c] EXCEPT !.pc = "release"]) /\ UNCHANGED <<files, budget>>
  /\ UNCHANGED Rest

Release(c) ==
  LET j == client[c].job IN
  /\ At(c, "release") /\ LockFree
  /\ Asks(c, NoRequest)
  /\ state' = IF state[j].update = c
                THEN [state EXCEPT ![j].update = NoClient, ![j].live = FALSE, ![j].revision = @ + 1]
                ELSE state
  /\ UNCHANGED <<Rest, job, writing, budget>>

ClientDies(c) ==
  /\ client[c].pc \in {"reserved", "extended", "release"}
  /\ Asks(c, NoRequest)
  /\ UNCHANGED <<Rest, files, budget>>

ExpireUpdate(j) ==
  /\ state[j].live /\ LockFree
  /\ state' = [state EXCEPT ![j].live = FALSE]
  /\ UNCHANGED <<Rest, client, job, writing, budget>>

\* The synchronisation of the pool, and a machine added by hand.
ExtendAll(j) ==
  /\ {"servers"} \in Requests
  /\ j \in Queued /\ ~Active(state[j]) /\ LockFree
  /\ \E m \in Machines \ job[j].prepared : Prepare(j, {m})
  /\ UNCHANGED <<Rest, client, state, writing, budget>>

(***************************************************************************)
(* The dispatcher: it lists the queue without the lock, entry by entry and *)
(* file by file, plans, and marks what it could reserve a machine for.     *)
(***************************************************************************)
Users == <<job, writing, submitted, client, history, budget>>
Runs(new) == dispatcher' = new

Row(file, s) == [file |-> file, revision |-> s.revision]
Listed(s) == s.status = "queued" /\ ~Active(s)

List ==
  /\ On("idle") /\ Queued # {} /\ Len(submitted) <= MaxListed /\ Spend("batches")
  /\ Runs([Idle EXCEPT !.pc = "list", !.left = Queued])
  /\ history' = [history EXCEPT !.mixed = {}]
  /\ UNCHANGED <<job, writing, submitted, client, state, placed>>

ReadJob ==
  /\ On("list") /\ dispatcher.reading = NoJob
  /\ \E j \in dispatcher.left :
       Runs([dispatcher EXCEPT !.left = @ \ {j}, !.reading = j, !.file = job[j]])
  /\ UNCHANGED <<Users, state, placed>>

ReadState ==
  LET j == dispatcher.reading
      rows == IF Listed(state[j]) THEN Plus(dispatcher.rows, j, Row(dispatcher.file, state[j])) ELSE dispatcher.rows
  IN
  /\ On("list") /\ j # NoJob
  /\ Runs([dispatcher EXCEPT !.rows = rows, !.reading = NoJob, !.file = Blank,
                             !.pc = IF dispatcher.left = {} THEN "plan" ELSE "list"])
  /\ UNCHANGED <<Users, state, placed>>

\* The machines that have room for each job, at the probe, and the drained ones.
Probe ==
  /\ On("plan") /\ dispatcher.room = Nothing /\ dispatcher.rows # Nothing
  /\ \E drained \in SUBSET Machines :
       \E room \in [DOMAIN dispatcher.rows -> SUBSET Machines] :
         /\ \A j \in DOMAIN room : room[j] \subseteq dispatcher.rows[j].file.eligible \ drained
         /\ Runs([dispatcher EXCEPT !.room = room, !.drained = drained])
  /\ UNCHANGED <<Users, state, placed>>

RowFiles == [j \in DOMAIN dispatcher.rows |-> dispatcher.rows[j].file]
Usable(j) == dispatcher.rows[j].file.eligible \ dispatcher.drained
MachinesOf(plan) == {plan[j].machine : j \in DOMAIN plan}

\* What is left of the lane of a class, in its order.
Lane(c) ==
  InLine(RowFiles, {j \in DOMAIN dispatcher.rows \ DOMAIN dispatcher.plan : dispatcher.rows[j].file.class = c})

\* Blocked jobs reserve every machine they could use.
Protected(line, k) == UNION {Usable(line[i]) : i \in 1 .. k - 1}

\* The machines that the k-th job of the line may take now.
Candidates(line, k) == (dispatcher.room[line[k]] \ MachinesOf(dispatcher.plan)) \ Protected(line, k)
Placeable(line) == {k \in DOMAIN line : Candidates(line, k) # {}}

\* The head of a lane, the standard one first, or else one that can be backfilled.
PlanChoice ==
  LET standard == Lane("standard")
      test == Lane("test")
      s == Placeable(standard)
      t == Placeable(test)
      Best(line, k) == [job |-> line[k], machines |-> Candidates(line, k)]
  IN CASE 1 \in s -> {Best(standard, 1)}
       [] 1 \notin s /\ 1 \in t -> {Best(test, 1)}
       [] 1 \notin s \cup t /\ s # {} -> {Best(standard, Min(s))}
       [] 1 \notin s \cup t /\ s = {} /\ t # {} -> {Best(test, Min(t))}
       [] OTHER -> {}

PlanNext ==
  /\ On("plan") /\ dispatcher.room # Nothing
  /\ \E best \in PlanChoice : \E m \in best.machines :
       Runs([dispatcher EXCEPT !.plan = Plus(@, best.job, [machine |-> m, others |-> best.machines \ {m}])])
  /\ UNCHANGED <<Users, state, placed>>

Planned ==
  /\ On("plan")
  /\ IF dispatcher.rows = Nothing
       THEN Runs(Idle)
       ELSE /\ dispatcher.room # Nothing
            /\ PlanChoice = {}
            /\ Runs([dispatcher EXCEPT !.pc = "mark", !.batch = dispatcher.plan, !.room = Nothing])
  /\ UNCHANGED <<Users, state, placed>>

\* No machine of the plan could be leased, or none has room any more.
Unreserved(j) ==
  /\ On("mark") /\ j \in DOMAIN dispatcher.plan
  /\ Runs([dispatcher EXCEPT !.plan = Minus(dispatcher.plan, j)])
  /\ UNCHANGED <<Users, state, placed>>

Unchanged(j) == j \in Queued /\ state[j].revision = dispatcher.rows[j].revision

Mark(j) ==
  /\ On("mark") /\ j \in DOMAIN dispatcher.plan /\ LockFree
  /\ Runs([dispatcher EXCEPT !.plan = Minus(dispatcher.plan, j)])
  /\ IF Unchanged(j)
       THEN /\ state' = [state EXCEPT ![j].status = "dispatching", ![j].revision = @ + 1]
            /\ \E m \in {dispatcher.plan[j].machine} \cup (dispatcher.plan[j].others \ MachinesOf(dispatcher.batch)) :
                 placed' = [placed EXCEPT ![j] = [machine |-> m, class |-> dispatcher.rows[j].file.class]]
       ELSE UNCHANGED <<state, placed>>
  /\ UNCHANGED Users

EndBatch ==
  /\ On("mark") /\ dispatcher.plan = Nothing
  /\ Runs(Idle)
  /\ UNCHANGED <<Users, state, placed>>

(***************************************************************************)
(* Specification                                                           *)
(***************************************************************************)
Next ==
  \/ \E j \in Jobs : Submit(j) \/ StopQueued(j) \/ Launched(j) \/ Recover(j) \/ ExpireUpdate(j) \/ ExtendAll(j)
  \/ WriteJob \/ WriteState \/ EditTears
  \/ \E c \in Clients :
       \/ \E j \in Jobs : Look(c, j)
       \/ Edit(c) \/ Reserve(c) \/ Extend(c) \/ PreparationFails(c) \/ Commit(c) \/ Release(c) \/ ClientDies(c)
  \/ List \/ ReadJob \/ ReadState \/ Probe \/ PlanNext \/ Planned \/ EndBatch
  \/ \E j \in Jobs : Unreserved(j) \/ Mark(j)

Spec == Init /\ [][Next]_vars

(***************************************************************************)
(* Properties                                                              *)
(***************************************************************************)

\* Users see lanes in which each edit has exactly the effect that was asked for; an
\* edit counts from the moment its files are known.
Current == With(job, writing.jobs)
Lanes == Classes \X Priorities
Lines(f, who) == [l \in Lanes |-> InLine(f, {j \in who : <<f[j].class, f[j].priority>> = l})]
Alike == {p \in Queued \X Queued : p[1] # p[2] /\ SamePlace(Current[p[1]], Current[p[2]])}
QueueUsers == INSTANCE QueueLanes WITH lanes <- Lines(Current, Queued), alike <- Alike, lives <- budget["tears"]
EditsAreExact == QueueUsers!InOrder

\* Backfilling delays nobody: a job is not dispatched to a machine that a job could
\* use that was listed, and left out of the plan, and waits before it in its lane when
\* it is dispatched.
Taken(j) == state[j].status = "queued" /\ state'[j].status = "dispatching"
NobodyOvertaken ==
  [][\A j \in Jobs : Taken(j) =>
       \A i \in (DOMAIN dispatcher.rows \ DOMAIN dispatcher.batch) \cap Queued :
         {i, j} \cap history.mixed = {} /\ job[i].class = job[j].class /\ Before(job, i, j) => placed'[j].machine \notin Usable(i)]_vars

\* A placement update holds its job: while it lasts, no dispatcher takes the job, and
\* nobody else changes where it may run.
Placement(f) == [class |-> f.class, priority |-> f.priority, eligible |-> f.eligible, prepared |-> f.prepared]
UpdateHoldsJob ==
  [][\A j \in Jobs : Active(state[j]) =>
       /\ state'[j].status # "dispatching"
       /\ LockFree /\ Placement(Current'[j]) # Placement(Current[j]) => client'[state[j].update] # client[state[j].update]]_vars
=============================================================================
