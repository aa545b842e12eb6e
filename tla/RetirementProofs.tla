-------------------------- MODULE RetirementProofs --------------------------
(***************************************************************************)
(* Theorems about the retirement of a server, for any number of runs,      *)
(* projects, clients and failures.                                         *)
(***************************************************************************)
EXTENDS Retirement, TLAPS

LEMMA NoRetirerType == NoRetirer \in RetirerStates
BY DEF NoRetirer, RetirerStates, RetirerPcs

LEMMA InitType == Init => TypeOK
<1> SUFFICES ASSUME Init PROVE TypeOK
  OBVIOUS
<1>1. file \in [Files -> FileStates] /\ archive \in ArchiveStates
  BY DEF Init, FileStates, ArchiveStates
<1>2. budget \in [Bounded -> Nat]
  <2>1. [faults |-> MaxFaults, edits |-> MaxEdits] \in [Bounded -> Nat]
    BY RetirementAssumptions DEF Bounded
  <2> QED
    BY <2>1 DEF Init
<1> QED
  BY <1>1, <1>2, NoRetirerType DEF Init, TypeOK

LEMMA SpendType ==
  ASSUME TypeOK, NEW what \in Bounded, Spend(what)
  PROVE  budget' \in [Bounded -> Nat]
BY DEF TypeOK, Spend

LEMMA DispatchersType == TypeOK /\ Dispatchers => TypeOK'
<1> SUFFICES ASSUME TypeOK, NEW r \in Runs,
                    \/ DispatchElsewhere(r) \/ ReadPlacement(r) \/ PlanNothing(r) \/ Acquire(r) \/ Mark(r)
                    \/ MarkConflicts(r) \/ Register(r) \/ Launch(r) \/ LaunchUnknown(r) \/ LaunchFails(r)
                    \/ EndDispatch(r) \/ Recover(r) \/ ReconcileLease(r)
             PROVE  TypeOK'
  BY DEF Dispatchers
<1> USE RetirementAssumptions DEF TypeOK, Aside, records, links, history, Goto, SetQueue, Terminal, LiveStatuses
<1>1. CASE DispatchElsewhere(r) \/ ReadPlacement(r) \/ PlanNothing(r) \/ Acquire(r) \/ Mark(r)
          \/ MarkConflicts(r)
  BY <1>1 DEF DispatchElsewhere, ReadPlacement, PlanNothing, Acquire, Mark, MarkConflicts
<1>2. CASE Register(r) \/ Launch(r)
  BY <1>2 DEF Register, Launch
<1>3. CASE LaunchUnknown(r)
  BY <1>3, SpendType DEF LaunchUnknown, Bounded
<1>4. CASE LaunchFails(r)
  BY <1>4 DEF LaunchFails, Ends
<1>5. CASE EndDispatch(r)
  BY <1>5 DEF EndDispatch
<1>6. CASE Recover(r) \/ ReconcileLease(r)
  BY <1>6 DEF Recover, ReconcileLease
<1> QED
  BY <1>1, <1>2, <1>3, <1>4, <1>5, <1>6

LEMMA WorkloadsType == TypeOK /\ (Workloads \/ Closure) => TypeOK'
<1> SUFFICES ASSUME TypeOK, Workloads \/ Closure PROVE TypeOK'
  OBVIOUS
<1> USE RetirementAssumptions DEF TypeOK, Aside, jobs, records, links, history, Terminal, LiveStatuses
<1>1. CASE MachineChanges
  BY <1>1, SpendType DEF MachineChanges, Bounded
<1>2. ASSUME NEW r \in Runs, ProcessEnds(r) PROVE TypeOK'
  BY <1>2 DEF ProcessEnds
<1>3. ASSUME NEW r \in Runs, Monitor(r) PROVE TypeOK'
  BY <1>3 DEF Monitor, Ends
<1>4. ASSUME NEW r \in Runs, Enqueue(r) \/ Pull(r) PROVE TypeOK'
  BY <1>4 DEF Enqueue, Pull
<1>5. ASSUME NEW r \in Runs, InspectClosure(r) \/ ApplyClosure(r) PROVE TypeOK'
  BY <1>5 DEF InspectClosure, ApplyClosure
<1> QED
  BY <1>1, <1>2, <1>3, <1>4, <1>5 DEF Workloads, Closure

\* What the retiring command becomes is a state of it.
LEMMA UnlistedType ==
  ASSUME NEW files \in [Files -> FileStates], NEW f \in Files
  PROVE  [files EXCEPT ![f].listed = FALSE] \in [Files -> FileStates]
<1>1. files[f] \in [listed: BOOLEAN, edits: Nat]
  BY DEF FileStates
<1>2. [files[f] EXCEPT !.listed = FALSE] \in [listed: BOOLEAN, edits: Nat]
  BY <1>1
<1> QED
  BY <1>2 DEF FileStates

LEMMA RetirerSteps ==
  ASSUME retirer \in RetirerStates, NEW pc \in RetirerPcs
  PROVE  [retirer EXCEPT !.pc = pc] \in RetirerStates
BY DEF RetirerStates

LEMMA RetirerLists ==
  ASSUME NEW was \in RetirerStates, NEW pc \in RetirerPcs
  PROVE  /\ \A todo \in SUBSET Projects : [was EXCEPT !.pc = pc, !.todo = todo] \in RetirerStates
         /\ \A left \in SUBSET Runs : [was EXCEPT !.pc = pc, !.left = left] \in RetirerStates
         /\ \A digest \in Nat : [was EXCEPT !.pc = pc, !.digest = digest] \in RetirerStates
<1> USE DEF RetirerStates
<1>1. ASSUME NEW todo \in SUBSET Projects PROVE [was EXCEPT !.pc = pc, !.todo = todo] \in RetirerStates
  OBVIOUS
<1>2. ASSUME NEW left \in SUBSET Runs PROVE [was EXCEPT !.pc = pc, !.left = left] \in RetirerStates
  OBVIOUS
<1>3. ASSUME NEW digest \in Nat PROVE [was EXCEPT !.pc = pc, !.digest = digest] \in RetirerStates
  OBVIOUS
<1> QED
  BY <1>1, <1>2, <1>3

LEMMA RetirerReads ==
  ASSUME NEW was \in RetirerStates, NEW r \in Runs
  PROVE  [was EXCEPT !.left = @ \ {r}] \in RetirerStates
<1>1. was.left \ {r} \in SUBSET Runs
  BY DEF RetirerStates
<1>2. \A left \in SUBSET Runs : [was EXCEPT !.left = left] \in RetirerStates
  BY DEF RetirerStates
<1> QED
  BY <1>1, <1>2

LEMMA RetireType == TypeOK /\ Retire => TypeOK'
<1> SUFFICES ASSUME TypeOK, Retire PROVE TypeOK'
  OBVIOUS
<1> USE RetirementAssumptions, NoRetirerType
    DEF World, jobs, records, links, history, At, Advance, Abandon
<1>0. retirer' \in RetirerStates
  <2>1. CASE Drain \/ CheckFiles \/ ReplaceRegistry \/ ReplaceProject \/ Revoke \/ CleanArchive
    BY <2>1, RetirerSteps DEF Drain, CheckFiles, Reads, ReplaceRegistry, ReplaceProject, Revoke, CleanArchive,
                              TypeOK, RetirerPcs
  <2>0. retirer \in RetirerStates /\ {"list", "queue", "exec", "revoke"} \subseteq RetirerPcs
    BY DEF TypeOK, RetirerPcs
  <2>2. CASE Probe
    <3>1. [retirer EXCEPT !.pc = "list", !.todo = Projects] \in RetirerStates
      BY <2>0, RetirerLists
    <3> QED
      BY <2>2, <3>1 DEF Probe
  <2>3. CASE ListQueue
    <3>1. {r \in OwnRuns : queue[r] # "absent"} \in SUBSET Runs
      BY DEF OwnRuns
    <3>2. \A left \in SUBSET Runs : [retirer EXCEPT !.pc = "queue", !.left = left] \in RetirerStates
      BY <2>0, RetirerLists
    <3> QED
      BY <2>3, <3>1, <3>2 DEF ListQueue
  <2>4. CASE ListRows
    <3>1. {r \in OwnRuns : exec[r] # "none"} \in SUBSET Runs
      BY DEF OwnRuns
    <3>2. \A left \in SUBSET Runs : [retirer EXCEPT !.pc = "exec", !.left = left] \in RetirerStates
      BY <2>0, RetirerLists
    <3> QED
      BY <2>4, <3>1, <3>2 DEF ListRows
  <2>5. CASE ReadPending
    <3>1. retirer.todo \ {Assessed} \in SUBSET Projects
      BY DEF TypeOK, RetirerStates
    <3>2. \A pc \in RetirerPcs : [retirer EXCEPT !.todo = @ \ {Assessed}, !.pc = pc] \in RetirerStates
      BY <3>1 DEF TypeOK, RetirerStates
    <3>3. (IF retirer.todo = {Assessed} THEN "inspect" ELSE "list") \in RetirerPcs
      BY DEF RetirerPcs
    <3> QED
      BY <2>5, <3>2, <3>3 DEF ReadPending
  <2>6. CASE InspectArchive
    <3>1. archive.edits \in Nat
      BY DEF TypeOK, ArchiveStates
    <3>2. [retirer EXCEPT !.pc = "revoke", !.digest = archive.edits] \in RetirerStates
      BY <2>0, <3>1, RetirerLists
    <3> QED
      BY <2>6, <3>2 DEF InspectArchive
  <2>9. CASE ReadBytes
    <3>1. [f \in Files |-> file[f].edits] \in [Files -> Nat]
      BY DEF TypeOK, FileStates
    <3>2. \A known \in [Files -> Nat] : [retirer EXCEPT !.pc = "drain", !.known = known] \in RetirerStates
      BY DEF TypeOK, RetirerStates, RetirerPcs
    <3> QED
      BY <2>9, <3>1, <3>2 DEF ReadBytes
  <2>7. ASSUME NEW r \in Runs, ReadJob(r) PROVE retirer' \in RetirerStates
    <3>1. [retirer EXCEPT !.left = @ \ {r}] \in RetirerStates
      BY <2>0, RetirerReads
    <3> QED
      BY <2>7, <3>1 DEF ReadJob
  <2>8. ASSUME NEW r \in Runs, ReadRow(r) PROVE retirer' \in RetirerStates
    <3>1. [retirer EXCEPT !.left = @ \ {r}] \in RetirerStates
      BY <2>0, RetirerReads
    <3> QED
      BY <2>8, <3>1 DEF ReadRow
  <2> QED
    BY <2>1, <2>2, <2>3, <2>4, <2>5, <2>6, <2>7, <2>8, <2>9 DEF Retire
<1> USE SpendType DEF TypeOK, Bounded
<1>1. CASE ReadBytes \/ Drain \/ Probe
  BY <1>0, <1>1 DEF ReadBytes, Drain, Probe
<1>2. CASE ListQueue \/ ListRows
  BY <1>0, <1>2 DEF ListQueue, ListRows
<1>3. CASE ReadPending \/ InspectArchive
  BY <1>0, <1>3 DEF ReadPending, InspectArchive
<1>4. CASE Revoke
  <2>1. archive' \in ArchiveStates
    BY <1>4 DEF Revoke, ArchiveStates
  <2> QED
    BY <1>0, <1>4, <2>1 DEF Revoke
<1>5. CASE CleanArchive
  <2>1. archive' \in ArchiveStates
    BY <1>5 DEF CleanArchive, ArchiveStates
  <2> QED
    BY <1>0, <1>5, <2>1 DEF CleanArchive
<1>6. CASE CheckFiles
  BY <1>0, <1>6 DEF CheckFiles, Reads
<1>7. CASE ReplaceRegistry \/ ReplaceProject
  <2>1. file' \in [Files -> FileStates]
    <3>1. ASSUME NEW f \in Files PROVE [file EXCEPT ![f].listed = FALSE] \in [Files -> FileStates]
      BY UnlistedType
    <3>2. {"registry", "project"} \subseteq Files
      BY DEF Files
    <3> QED
      BY <1>7, <3>1, <3>2 DEF ReplaceRegistry, ReplaceProject
  <2> QED
    BY <1>0, <1>7, <2>1 DEF ReplaceRegistry, ReplaceProject
<1>8. ASSUME NEW r \in Runs, ReadJob(r) \/ ReadRow(r) PROVE TypeOK'
  BY <1>0, <1>8 DEF ReadJob, ReadRow
<1> QED
  BY <1>1, <1>2, <1>3, <1>4, <1>5, <1>6, <1>7, <1>8 DEF Retire

LEMMA OthersType == TypeOK /\ Others => TypeOK'
<1> SUFFICES ASSUME TypeOK, Others PROVE TypeOK'
  OBVIOUS
<1> USE RetirementAssumptions, NoRetirerType, SpendType DEF TypeOK, Bounded, Aside, World, jobs, records,
                                                            links, history
<1>1. CASE ResumeServer
  BY <1>1 DEF ResumeServer
<1>2. CASE EditArchive
  <2>1. archive' \in ArchiveStates
    BY <1>2 DEF EditArchive, ArchiveStates
  <2> QED
    BY <1>2, <2>1 DEF EditArchive
<1>3. CASE RetirerDies
  BY <1>3 DEF RetirerDies, Abandon
<1>4. CASE DispatcherDies
  BY <1>4 DEF DispatcherDies
<1>5. ASSUME NEW f \in Files, EditFile(f) PROVE TypeOK'
  <2>1. file' \in [Files -> FileStates]
    BY <1>5 DEF EditFile, FileStates
  <2> QED
    BY <1>5, <2>1 DEF EditFile
<1>6. ASSUME NEW allow \in BOOLEAN, Begin(allow) PROVE TypeOK'
  <2>1. [f \in Files |-> file[f].edits] \in [Files -> Nat]
    BY DEF FileStates
  <2>2. retirer' \in RetirerStates
    BY <1>6, <2>1 DEF Begin, RetirerStates, RetirerPcs, NoRetirer
  <2> QED
    BY <1>6, <2>2 DEF Begin
<1>7. ASSUME NEW r \in Runs, Submit(r) \/ Edit(r) \/ EditDies(r) \/ StopQueued(r) PROVE TypeOK'
  BY <1>7 DEF Submit, Edit, EditDies, Places, Unedited, StopQueued, SetQueue
<1>8. ASSUME NEW r \in Runs, Stop(r) PROVE TypeOK'
  BY <1>8 DEF Stop, Ends, Terminal, LiveStatuses
<1> QED
  BY <1>1, <1>2, <1>3, <1>4, <1>5, <1>6, <1>7, <1>8 DEF Others

LEMMA NextType == TypeOK /\ [Next]_vars => TypeOK'
<1> SUFFICES ASSUME TypeOK, [Next]_vars PROVE TypeOK'
  OBVIOUS
<1>1. CASE UNCHANGED vars
  BY <1>1 DEF vars, jobs, records, links, history, TypeOK
<1> QED
  BY <1>1, DispatchersType, WorkloadsType, RetireType, OthersType DEF Next

\* Every reachable state is well typed, and a dispatcher works on a run only under the lease of the machine.
THEOREM TypeCorrect == Spec => []TypeOK
BY InitType, NextType, PTL DEF Spec

(***************************************************************************)
(* The configuration files, and the key of the archive.                    *)
(***************************************************************************)
FilesKnown ==
  \A f \in Files :
    f \notin late =>
      /\ At("loaded") => file[f].edits = retirer.proposal[f]
      /\ ~At("idle") /\ ~At("loaded") => retirer.known[f] = retirer.proposal[f]
      /\ At("registry") \/ At("project") => file[f].edits = retirer.known[f]
KeyKnown ==
  /\ retirer.allow => lenient
  /\ At("clean") \/ At("check") \/ At("registry") \/ At("project") =>
       ~archive.alias \/ ~archive.authorised \/ lenient

LinksInv == TypeOK /\ FilesKnown /\ KeyKnown /\ KeyIsRevoked

LEMMA InitLinks == Init => LinksInv
BY InitType DEF Init, LinksInv, FilesKnown, KeyKnown, KeyIsRevoked, At, NoRetirer

\* The retirement only reads, and keeps its permission to go on without the server.
LEMMA ReadingSteps ==
  ASSUME TypeOK, Probe \/ ListQueue \/ ListRows \/ ReadPending \/ InspectArchive
  PROVE  /\ retirer'.pc \in {"idle", "list", "queue", "exec", "inspect", "revoke"}
         /\ retirer'.allow => retirer.allow
         /\ retirer' = NoRetirer \/ UNCHANGED <<retirer.proposal, retirer.known>>
<1>0. retirer \in RetirerStates
  BY DEF TypeOK
<1>1. CASE Probe
  <2>1. retirer' = NoRetirer \/ retirer' = [retirer EXCEPT !.pc = "list", !.todo = Projects]
    BY <1>1 DEF Probe, Abandon
  <2>2. CASE retirer' = NoRetirer
    BY <2>2 DEF NoRetirer
  <2>3. CASE retirer' = [retirer EXCEPT !.pc = "list", !.todo = Projects]
    BY <1>0, <2>3 DEF RetirerStates
  <2> QED
    BY <2>1, <2>2, <2>3
<1>2. CASE ListQueue
  BY <1>0, <1>2 DEF ListQueue, RetirerStates
<1>3. CASE ListRows
  BY <1>0, <1>3 DEF ListRows, RetirerStates
<1>4. CASE ReadPending
  <2>1. \/ retirer' = NoRetirer
        \/ \E pc \in {"inspect", "list"} : retirer' = [retirer EXCEPT !.todo = @ \ {Assessed}, !.pc = pc]
    BY <1>4 DEF ReadPending, Abandon
  <2>2. CASE retirer' = NoRetirer
    BY <2>2 DEF NoRetirer
  <2>3. ASSUME NEW pc \in {"inspect", "list"}, retirer' = [retirer EXCEPT !.todo = @ \ {Assessed}, !.pc = pc]
        PROVE  retirer'.pc = pc /\ UNCHANGED <<retirer.allow, retirer.proposal, retirer.known>>
    BY <1>0, <2>3 DEF RetirerStates
  <2> QED
    BY <2>1, <2>2, <2>3
<1>5. CASE InspectArchive
  BY <1>0, <1>5 DEF InspectArchive, RetirerStates
<1> QED
  BY <1>1, <1>2, <1>3, <1>4, <1>5

LEMMA NextLinks == LinksInv /\ [Next]_vars => LinksInv'
<1> SUFFICES ASSUME LinksInv, [Next]_vars PROVE LinksInv'
  OBVIOUS
<1>0. TypeOK'
  BY NextType DEF LinksInv
<1> USE <1>0 DEF LinksInv, FilesKnown, KeyKnown, KeyIsRevoked, At
<1>1. CASE UNCHANGED <<file, archive, retirer, late, lenient>>
  BY <1>1
<1>2. CASE Drain
  BY <1>2 DEF Drain, At, Advance, links, TypeOK, RetirerStates
<1>16. CASE ReadBytes
  <2>1. /\ At("loaded") /\ UNCHANGED <<file, archive, late, lenient>>
        /\ retirer'.pc = "drain" /\ UNCHANGED <<retirer.allow, retirer.proposal>>
        /\ \A f \in Files : retirer'.known[f] = file[f].edits
    BY <1>16 DEF ReadBytes, links, history, TypeOK, RetirerStates
  <2> QED
    BY <2>1
<1>3. CASE Probe \/ ListQueue \/ ListRows \/ ReadPending \/ InspectArchive
  BY <1>3, ReadingSteps DEF NoRetirer, Probe, ListQueue, ListRows, ReadPending, InspectArchive, links, history
<1>4. ASSUME NEW r \in Runs, ReadJob(r) \/ ReadRow(r) PROVE LinksInv'
  BY <1>4 DEF ReadJob, ReadRow, Abandon, NoRetirer, links, history, TypeOK, RetirerStates
<1>5. CASE Revoke
  BY <1>5 DEF Revoke, Advance, Abandon, NoRetirer, history, TypeOK, RetirerStates, ArchiveStates
<1>6. CASE CleanArchive
  BY <1>6 DEF CleanArchive, Advance, Abandon, NoRetirer, history, TypeOK, RetirerStates, ArchiveStates
<1>7. CASE CheckFiles
  BY <1>7 DEF CheckFiles, Reads, Advance, Abandon, NoRetirer, links, history, TypeOK, RetirerStates
<1>8. CASE ReplaceRegistry
  BY <1>8 DEF ReplaceRegistry, Advance, history, TypeOK, RetirerStates, FileStates, Files
<1>9. CASE ReplaceProject \/ RetirerDies
  BY <1>9 DEF ReplaceProject, RetirerDies, Abandon, NoRetirer, links, history
<1>10. ASSUME NEW f \in Files, EditFile(f) PROVE LinksInv'
  BY <1>10 DEF EditFile, TypeOK, FileStates
<1>11. CASE EditArchive
  BY <1>11 DEF EditArchive, history, TypeOK, ArchiveStates
<1>12. ASSUME NEW allow \in BOOLEAN, Begin(allow) PROVE LinksInv'
  BY <1>12 DEF Begin, NoRetirer, links
<1>13. CASE Dispatchers \/ Workloads \/ Closure
  <2>1. UNCHANGED <<file, archive, retirer, late, lenient>>
    BY <1>13 DEF Dispatchers, Workloads, Closure, DispatchElsewhere, ReadPlacement, PlanNothing, Acquire,
                 Mark, MarkConflicts, Register,
                 Launch, LaunchUnknown, LaunchFails, EndDispatch, Recover, ReconcileLease, MachineChanges,
                 ProcessEnds, Monitor, Enqueue, Pull, InspectClosure, ApplyClosure, Aside, links, history
  <2> QED
    BY <2>1, <1>1
<1>14. CASE ResumeServer \/ DispatcherDies \/ \E r \in Runs : Submit(r) \/ Edit(r) \/ EditDies(r)
                                                             \/ StopQueued(r) \/ Stop(r)
  <2>1. UNCHANGED <<file, archive, retirer, late, lenient>>
    BY <1>14 DEF ResumeServer, DispatcherDies, Submit, Edit, EditDies, Places, Unedited, StopQueued, Stop,
                 Aside, links, history
  <2> QED
    BY <2>1, <1>1
<1>15. CASE UNCHANGED vars
  BY <1>15, <1>1 DEF vars, links, history
<1> QED
  BY <1>2, <1>3, <1>4, <1>5, <1>6, <1>7, <1>8, <1>9, <1>10, <1>11, <1>12, <1>13, <1>14, <1>15, <1>16
     DEF Next, Retire, Others

LEMMA LinksAlways == Spec => []LinksInv
BY InitLinks, NextLinks, PTL DEF Spec

\* Whatever fails or dies, and however often the retirement is tried again, the archive host does not forget
\* the key of the server's alias while the server still accepts it, unless it was told to.
THEOREM KeyRevoked == Spec => []KeyIsRevoked
<1>1. LinksInv => KeyIsRevoked
  BY DEF LinksInv
<1> QED
  BY <1>1, LinksAlways, PTL

\* A configuration file is replaced by what was derived from it as it stands, but for edits before the
\* bytes to compare are read and after _unchanged has compared them.
THEOREM LateEditsOnly == Spec => OnlyLateEditsLost
<1> DEFINE Replaced == \A f \in Files : file[f].listed /\ ~file'[f].listed =>
                                       file[f].edits = retirer.proposal[f] \/ f \in late
<1>1. LinksInv /\ [Next]_vars => [Replaced]_vars
  <2> SUFFICES ASSUME LinksInv, Next, NEW f \in Files, file[f].listed, ~file'[f].listed
               PROVE  At("registry") \/ At("project")
    BY DEF LinksInv, FilesKnown, At
  <2>1. CASE Retire
    BY <2>1 DEF Retire, ReadBytes, Drain, Probe, ListQueue, ListRows, ReadPending, InspectArchive, Revoke,
                CleanArchive,
                CheckFiles, Reads, ReplaceRegistry, ReplaceProject, ReadJob, ReadRow, links, At
  <2>2. CASE Others
    <3>1. ASSUME NEW g \in Files, EditFile(g) PROVE FALSE
      BY <3>1 DEF EditFile, LinksInv, TypeOK, FileStates
    <3> QED
      BY <2>2, <3>1 DEF Others, ResumeServer, EditArchive, RetirerDies, DispatcherDies, Begin, Submit,
                        Edit, EditDies, Places, Unedited,
                        StopQueued, Stop, Aside, links
  <2>3. CASE Dispatchers \/ Workloads \/ Closure
    BY <2>3 DEF Dispatchers, Workloads, Closure, DispatchElsewhere, ReadPlacement, PlanNothing, Acquire,
                Mark, MarkConflicts, Register,
                Launch, LaunchUnknown, LaunchFails, EndDispatch, Recover, ReconcileLease, MachineChanges,
                ProcessEnds, Monitor, Enqueue, Pull, InspectClosure, ApplyClosure, Aside, links
  <2> QED
    BY <2>1, <2>2, <2>3 DEF Next
<1> QED
  BY <1>1, LinksAlways, PTL DEF Spec, OnlyLateEditsLost

(***************************************************************************)
(* The assessment.  On a drained machine nobody begins to dispatch, so a   *)
(* run on which no dispatcher works stays so, then its record, once it is  *)
(* ended, stays ended, and then its intent, once it is gone, stays gone:   *)
(* this is why the assessment reads queue, records and intents in that     *)
(* order.                                                                  *)
(***************************************************************************)
Threads ==
  \A r \in Runs :
    /\ thread[r] = "reading" => queue[r] # "absent" /\ ("here" \in eligible[r] \/ r \in torn)
    /\ thread[r] = "leased" => queue[r] = "queued" /\ ("here" \in eligible[r] \/ r \in torn)
    /\ Here(r) => queue[r] = "dispatching" /\ ("here" \in eligible[r] \/ r \in torn)

\* The runs that the assessment finds wherever they are.
Known(r) == Named(r) /\ r \notin torn
Quiet(r) == thread[r] \in {"idle", "reading", "stale"}
Past(r) ==
  /\ exec[r] \notin LiveStatuses
  /\ exec[r] = "succeeded" /\ ProjectOf[r] \in Archiving => sync[r] = "completed"
Clear(r) == Quiet(r) /\ Past(r) /\ sync[r] # "pending"

Assessing == At("list") \/ At("queue") \/ At("exec")
Seen ==
  /\ Assessing => \A r \in Runs : Known(r) /\ ProjectOf[r] \notin retirer.todo => Clear(r)
  /\ At("queue") => \A r \in OwnRuns : Known(r) /\ r \notin retirer.left => Quiet(r)
  /\ At("exec") => \A r \in OwnRuns : Known(r) => Quiet(r) /\ (r \notin retirer.left => Past(r))
  /\ Taking => \A r \in Runs : Known(r) => Clear(r)

ScanInv ==
  /\ TypeOK /\ Threads
  /\ Assessing => retirer.todo # {}
  /\ ~resumed /\ ~At("idle") /\ ~At("loaded") /\ ~At("drain") => drained
  /\ ~resumed => Seen

LEMMA InitScan == Init => ScanInv
BY InitType DEF Init, ScanInv, Threads, Here, Assessing, Seen, Taking, At, NoRetirer

LEMMA NextThreads == TypeOK /\ Threads /\ [Next]_vars => Threads'
<1> SUFFICES ASSUME TypeOK, Threads, [Next]_vars PROVE Threads'
  OBVIOUS
<1> USE DEF Threads, Here, Goto, SetQueue
<1>1. CASE UNCHANGED <<jobs, torn>>
  BY <1>1 DEF jobs
<1>2. CASE Dispatchers
  <2> SUFFICES ASSUME NEW r \in Runs,
                      \/ DispatchElsewhere(r) \/ ReadPlacement(r) \/ PlanNothing(r) \/ Acquire(r) \/ Mark(r)
                      \/ MarkConflicts(r) \/ Register(r) \/ Launch(r) \/ LaunchUnknown(r) \/ LaunchFails(r)
                      \/ EndDispatch(r) \/ Recover(r) \/ ReconcileLease(r)
               PROVE  Threads'
    BY <1>2 DEF Dispatchers
  <2>1. CASE DispatchElsewhere(r) \/ ReadPlacement(r) \/ PlanNothing(r) \/ Acquire(r) \/ Mark(r)
            \/ MarkConflicts(r)
    BY <2>1 DEF DispatchElsewhere, ReadPlacement, PlanNothing, Acquire, Mark, MarkConflicts, TypeOK, Aside,
                history
  <2>2. CASE Register(r) \/ Launch(r) \/ LaunchFails(r)
    BY <2>2 DEF Register, Launch, LaunchFails, TypeOK, Aside, history
  <2>3. CASE LaunchUnknown(r) \/ EndDispatch(r)
    BY <2>3 DEF LaunchUnknown, EndDispatch, TypeOK, Aside, history
  <2>4. CASE Recover(r) \/ ReconcileLease(r)
    BY <2>4 DEF Recover, ReconcileLease, TypeOK, Aside, history
  <2> QED
    BY <2>1, <2>2, <2>3, <2>4
<1>3. CASE DispatcherDies \/ \E r \in Runs : Submit(r) \/ Edit(r) \/ EditDies(r) \/ StopQueued(r)
  BY <1>3 DEF DispatcherDies, Submit, Edit, EditDies, Places, Unedited, StopQueued, TypeOK, Aside, history
<1>4. CASE Workloads \/ Closure \/ Retire
  <2>1. UNCHANGED <<jobs, torn>>
    BY <1>4 DEF Workloads, Closure, Retire, MachineChanges, ProcessEnds, Monitor, Enqueue, Pull, InspectClosure,
                ApplyClosure, ReadBytes, Drain, Probe, ListQueue, ListRows, ReadPending, InspectArchive, Revoke, CleanArchive,
                CheckFiles, Reads, ReplaceRegistry, ReplaceProject, ReadJob, ReadRow, World, jobs, Aside, history
  <2> QED
    BY <1>1, <2>1
<1>5. CASE Others
  <2>1. CASE \/ ResumeServer \/ EditArchive \/ RetirerDies \/ \E f \in Files : EditFile(f)
             \/ (\E allow \in BOOLEAN : Begin(allow)) \/ \E r \in Runs : Stop(r)
    <3>1. UNCHANGED <<jobs, torn>>
      BY <2>1 DEF ResumeServer, EditArchive, RetirerDies, EditFile, Begin, Stop, World, Aside, jobs, history
    <3> QED
      BY <1>1, <3>1
  <2> QED
    BY <1>5, <1>3, <2>1 DEF Others
<1> QED
  BY <1>1, <1>2, <1>4, <1>5 DEF Next, vars, history

\* On a drained machine no dispatch begins.
LEMMA QuietStays ==
  ASSUME TypeOK, drained, Dispatchers \/ Others, NEW r \in Runs, Quiet(r)
  PROVE  Quiet(r)'
<1> USE DEF Quiet, Goto, TypeOK
<1>1. CASE Dispatchers
  <2>1. ASSUME NEW s \in Runs, DispatchElsewhere(s) \/ ReadPlacement(s) \/ PlanNothing(s) \/ Acquire(s)
                               \/ Mark(s) \/ MarkConflicts(s) \/ Register(s)
        PROVE  Quiet(r)'
    BY <2>1 DEF DispatchElsewhere, ReadPlacement, PlanNothing, Acquire, Mark, MarkConflicts, Register
  <2>2. ASSUME NEW s \in Runs, Launch(s) \/ LaunchUnknown(s) \/ LaunchFails(s) \/ EndDispatch(s) \/ Recover(s)
        PROVE  Quiet(r)'
    BY <2>2 DEF Launch, LaunchUnknown, LaunchFails, EndDispatch, Recover
  <2>3. ASSUME NEW s \in Runs, ReconcileLease(s) PROVE Quiet(r)'
    BY <2>3 DEF ReconcileLease
  <2> QED
    BY <1>1, <2>1, <2>2, <2>3 DEF Dispatchers
<1>2. CASE Others
  <2>1. ASSUME NEW s \in Runs, Submit(s) \/ Edit(s) \/ EditDies(s) \/ StopQueued(s) PROVE Quiet(r)'
    BY <2>1 DEF Submit, Edit, EditDies, Places, Unedited, StopQueued
  <2>2. CASE DispatcherDies
    BY <2>2 DEF DispatcherDies
  <2>3. CASE \/ ResumeServer \/ EditArchive \/ RetirerDies \/ \E f \in Files : EditFile(f)
             \/ (\E allow \in BOOLEAN : Begin(allow)) \/ \E s \in Runs : Stop(s)
    <3>1. UNCHANGED jobs
      BY <2>3 DEF ResumeServer, EditArchive, RetirerDies, EditFile, Begin, Stop, World, jobs
    <3> QED
      BY <3>1 DEF jobs
  <2> QED
    BY <1>2, <2>1, <2>2, <2>3 DEF Others
<1> QED
  BY <1>1, <1>2

\* The record of a run on which nobody works, once past, stays past.
LEMMA PastStays ==
  ASSUME TypeOK, Dispatchers \/ Workloads \/ Closure \/ Others, NEW r \in Runs, Quiet(r), Past(r)
  PROVE  /\ Past(r)'
         /\ sync[r] # "pending" => sync'[r] # "pending"
<1> USE DEF Quiet, Past, TypeOK, LiveStatuses, Terminal
<1> DEFINE Kept == Past(r)' /\ (sync[r] # "pending" => sync'[r] # "pending")
<1>0. UNCHANGED records => Kept
  BY DEF records
<1>1. CASE Dispatchers
  <2>1. ASSUME NEW s \in Runs, DispatchElsewhere(s) \/ ReadPlacement(s) \/ PlanNothing(s) \/ Acquire(s)
                               \/ Mark(s) \/ MarkConflicts(s) \/ Recover(s)
                                \/ ReconcileLease(s)
        PROVE  UNCHANGED records
    BY <2>1 DEF DispatchElsewhere, ReadPlacement, PlanNothing, Acquire, Mark, MarkConflicts, Recover,
                ReconcileLease
  <2>2. ASSUME NEW s \in Runs, Register(s) \/ Launch(s) \/ LaunchUnknown(s) PROVE Kept
    BY <2>2 DEF Register, Launch, LaunchUnknown, records
  <2>3. ASSUME NEW s \in Runs, LaunchFails(s) \/ EndDispatch(s) PROVE Kept
    BY <2>3 DEF LaunchFails, Ends, EndDispatch, records
  <2> QED
    BY <1>0, <1>1, <2>1, <2>2, <2>3 DEF Dispatchers
<1>2. CASE Workloads
  BY <1>2 DEF Workloads, MachineChanges, ProcessEnds, Monitor, Ends, Enqueue, Pull
<1>3. CASE Closure
  BY <1>3 DEF Closure, InspectClosure, ApplyClosure, Closable, records
<1>4. CASE Others
  <2>1. ASSUME NEW s \in Runs, Stop(s) PROVE Kept
    BY <2>1 DEF Stop, Ends
  <2>2. CASE \/ ResumeServer \/ EditArchive \/ RetirerDies \/ DispatcherDies \/ (\E f \in Files : EditFile(f))
             \/ (\E allow \in BOOLEAN : Begin(allow)) \/ \E s \in Runs : Submit(s) \/ Edit(s)
                                                                        \/ EditDies(s) \/ StopQueued(s)
    <3>1. UNCHANGED records
      BY <2>2 DEF ResumeServer, EditArchive, RetirerDies, DispatcherDies, EditFile, Begin, Submit, Edit,
                  EditDies, Places, Unedited,
                  StopQueued, World
    <3> QED
      BY <1>0, <3>1
  <2> QED
    BY <1>4, <2>1, <2>2 DEF Others
<1> QED
  BY <1>1, <1>2, <1>3, <1>4

\* Runs only cease to be known.
LEMMA TornGrows == [Next]_vars => torn \subseteq torn'
<1> SUFFICES ASSUME [Next]_vars PROVE torn \subseteq torn'
  OBVIOUS
<1> USE DEF Aside, World, history
<1>1. CASE Dispatchers \/ Workloads \/ Closure
  BY <1>1 DEF Dispatchers, Workloads, Closure, DispatchElsewhere, ReadPlacement, PlanNothing, Acquire, Mark,
              MarkConflicts, Register, Launch, LaunchUnknown, LaunchFails, EndDispatch, Recover, ReconcileLease,
              MachineChanges, ProcessEnds, Monitor, Enqueue, Pull, InspectClosure, ApplyClosure
<1>2. CASE Retire
  BY <1>2 DEF Retire, ReadBytes, Drain, Probe, ListQueue, ListRows, ReadPending, InspectArchive, Revoke,
              CleanArchive, CheckFiles, Reads, ReplaceRegistry, ReplaceProject, ReadJob, ReadRow
<1>3. CASE Others
  BY <1>3 DEF Others, ResumeServer, EditArchive, RetirerDies, DispatcherDies, EditFile, Begin, Submit, Edit,
              EditDies, Unedited, StopQueued, Stop
<1> QED
  BY <1>1, <1>2, <1>3 DEF Next, vars

\* What the retirement has seen stays true while others go on.
LEMMA SeenStays ==
  ASSUME ScanInv, Dispatchers \/ Workloads \/ Closure \/ Others, UNCHANGED <<retirer, drained, resumed>>
  PROVE  ScanInv'
<1>1. TypeOK' /\ Threads'
  BY NextType, NextThreads DEF ScanInv, Next
<1> SUFFICES ASSUME ~resumed, drained, Seen PROVE Seen'
  BY <1>1 DEF ScanInv, Assessing, At, Seen, Taking
<1>2. TypeOK
  BY DEF ScanInv
<1>3. ASSUME NEW r \in Runs, Quiet(r) PROVE Quiet(r)'
  <2>1. CASE Dispatchers \/ Others
    BY <1>2, <1>3, <2>1, QuietStays
  <2>2. CASE Workloads \/ Closure
    BY <1>3, <2>2 DEF Workloads, Closure, MachineChanges, ProcessEnds, Monitor, Enqueue, Pull, InspectClosure,
                      ApplyClosure, jobs, Quiet
  <2> QED
    BY <2>1, <2>2
<1>4. ASSUME NEW r \in Runs, Quiet(r), Past(r) PROVE Past(r)'
  BY <1>2, <1>4, PastStays
<1>5. ASSUME NEW r \in Runs, Clear(r) PROVE Clear(r)'
  BY <1>2, <1>3, <1>5, PastStays DEF Clear
<1>6. Assessed' = Assessed /\ OwnRuns' = OwnRuns
  BY DEF Assessed, OwnRuns
<1>7. ASSUME NEW r \in Runs, Known(r)' PROVE Known(r)
  BY <1>7, TornGrows DEF Known, Named, Next
<1> QED
  BY <1>3, <1>4, <1>5, <1>6, <1>7 DEF Seen, Assessing, At, Taking, OwnRuns

LEMMA OthersScan == ScanInv /\ (Dispatchers \/ Workloads \/ Closure \/ Others) => ScanInv'
<1> SUFFICES ASSUME ScanInv, Dispatchers \/ Workloads \/ Closure \/ Others PROVE ScanInv'
  OBVIOUS
<1>1. TypeOK' /\ Threads'
  BY NextType, NextThreads DEF ScanInv, Next
<1>2. CASE UNCHANGED <<retirer, drained, resumed>>
  BY <1>2, SeenStays
<1>3. CASE ResumeServer
  BY <1>1, <1>3 DEF ResumeServer, ScanInv, Assessing, At
<1>4. CASE RetirerDies \/ \E allow \in BOOLEAN : Begin(allow)
  <2>1. retirer'.pc \in {"idle", "loaded"}
    <3>1. CASE RetirerDies
      BY <3>1 DEF RetirerDies, Abandon, NoRetirer
    <3>2. ASSUME NEW allow \in BOOLEAN, Begin(allow) PROVE retirer'.pc = "loaded"
      BY <3>2 DEF Begin, NoRetirer
    <3> QED
      BY <1>4, <3>1, <3>2
  <2> QED
    BY <1>1, <2>1 DEF ScanInv, Assessing, Seen, Taking, At
<1>5. CASE Dispatchers \/ Workloads \/ Closure
  <2>1. UNCHANGED <<retirer, drained, resumed>>
    BY <1>5 DEF Dispatchers, Workloads, Closure, DispatchElsewhere, ReadPlacement, PlanNothing, Acquire,
                Mark, MarkConflicts, Register,
                Launch, LaunchUnknown, LaunchFails, EndDispatch, Recover, ReconcileLease, MachineChanges,
                ProcessEnds, Monitor, Enqueue, Pull, InspectClosure, ApplyClosure, Aside, history
  <2> QED
    BY <1>2, <2>1
<1>6. CASE \/ EditArchive \/ DispatcherDies \/ (\E f \in Files : EditFile(f))
           \/ \E r \in Runs : Submit(r) \/ Edit(r) \/ EditDies(r) \/ StopQueued(r) \/ Stop(r)
  <2>1. UNCHANGED <<retirer, drained, resumed>>
    BY <1>6 DEF EditArchive, DispatcherDies, EditFile, Submit, Edit, EditDies, Places, Unedited,
                StopQueued, Stop, Aside, history
  <2> QED
    BY <1>2, <2>1
<1> QED
  BY <1>3, <1>4, <1>5, <1>6 DEF Others

LEMMA AssessedInTodo == retirer.todo # {} => Assessed \in retirer.todo
BY DEF Assessed

LEMMA RetireScan == ScanInv /\ Retire => ScanInv'
<1> SUFFICES ASSUME ScanInv, Retire PROVE ScanInv'
  OBVIOUS
<1>0. TypeOK' /\ Threads' /\ retirer \in RetirerStates
  BY NextType, NextThreads DEF ScanInv, Next, TypeOK
<1>k. \A r \in Runs : Known(r)' => Known(r)
  BY TornGrows DEF Known, Named, Next
<1>1. ASSUME retirer' = NoRetirer PROVE ScanInv'
  BY <1>0, <1>1 DEF ScanInv, Assessing, Seen, Taking, At, NoRetirer
<1>10. CASE ReadBytes
  <2>1. retirer'.pc = "drain"
    BY <1>0, <1>10 DEF ReadBytes, RetirerStates
  <2> QED
    BY <1>0, <1>10, <2>1 DEF ScanInv, Assessing, Seen, Taking, At
<1>2. CASE Drain
  <2>1. retirer'.pc = "probe"
    BY <1>0, <1>2 DEF Drain, Advance, RetirerStates
  <2> QED
    BY <1>0, <1>2, <2>1 DEF Drain, ScanInv, Assessing, Seen, Taking, At
<1>3. CASE Probe
  <2>1. CASE retirer' = [retirer EXCEPT !.pc = "list", !.todo = Projects]
    <3>1. retirer'.pc = "list" /\ retirer'.todo = Projects
      BY <1>0, <2>1 DEF RetirerStates
    <3> QED
      BY <1>0, <1>3, <3>1, RetirementAssumptions DEF Probe, ScanInv, Assessing, Seen, Taking, At, history
  <2> QED
    BY <1>1, <1>3, <2>1 DEF Probe, Abandon
<1>4. CASE ListQueue
  <2>1. retirer'.pc = "queue" /\ retirer'.todo = retirer.todo
        /\ retirer'.left = {r \in OwnRuns : queue[r] # "absent"}
    BY <1>0, <1>4 DEF ListQueue, RetirerStates
  <2>2. OwnRuns' = OwnRuns
    BY <2>1 DEF OwnRuns, Assessed
  <2>3. \A r \in Runs : queue[r] = "absent" => Quiet(r)
    BY DEF ScanInv, Threads, Here, Quiet, TypeOK
  <2> QED
    BY <1>0, <1>k, <1>4, <2>1, <2>2, <2>3
       DEF ListQueue, ScanInv, Assessing, Seen, Taking, At, World, jobs, records, history, Clear, Quiet,
           Past, OwnRuns
<1>5. ASSUME NEW r \in Runs, ReadJob(r) PROVE ScanInv'
  <2>1. CASE /\ retirer' = [retirer EXCEPT !.left = @ \ {r}]
             /\ ~(queue[r] \in {"queued", "dispatching"} /\ "here" \in eligible[r] /\ Named(r))
    <3>1. retirer'.pc = "queue" /\ retirer'.todo = retirer.todo /\ retirer'.left = retirer.left \ {r}
      BY <1>0, <1>5, <2>1 DEF ReadJob, At, RetirerStates
    <3>2. OwnRuns' = OwnRuns
      BY <3>1 DEF OwnRuns, Assessed
    <3>3. Known(r) => Quiet(r)
      BY <2>1 DEF ScanInv, Threads, Here, Known, Quiet, TypeOK
    <3> QED
      BY <1>0, <1>k, <1>5, <3>1, <3>2, <3>3
         DEF ReadJob, ScanInv, Assessing, Seen, Taking, At, World, jobs, records, history, Clear, Quiet,
             Past, OwnRuns
  <2> QED
    BY <1>1, <1>5, <2>1 DEF ReadJob, Abandon
<1>6. CASE ListRows
  <2>1. retirer'.pc = "exec" /\ retirer'.todo = retirer.todo
        /\ retirer'.left = {r \in OwnRuns : exec[r] # "none"}
    BY <1>0, <1>6 DEF ListRows, RetirerStates
  <2>2. OwnRuns' = OwnRuns
    BY <2>1 DEF OwnRuns, Assessed
  <2>3. \A r \in Runs : exec[r] = "none" => Past(r)
    BY DEF Past, LiveStatuses
  <2> QED
    BY <1>0, <1>k, <1>6, <2>1, <2>2, <2>3
       DEF ListRows, ScanInv, Assessing, Seen, Taking, At, World, jobs, records, history, Clear, Quiet,
           Past, OwnRuns
<1>7. ASSUME NEW r \in Runs, ReadRow(r) PROVE ScanInv'
  <2>1. CASE retirer' = [retirer EXCEPT !.left = @ \ {r}] /\ (Known(r) => Past(r))
    <3>1. retirer'.pc = "exec" /\ retirer'.todo = retirer.todo /\ retirer'.left = retirer.left \ {r}
      BY <1>0, <1>7, <2>1 DEF ReadRow, At, RetirerStates
    <3>2. OwnRuns' = OwnRuns
      BY <3>1 DEF OwnRuns, Assessed
    <3> QED
      BY <1>0, <1>k, <1>7, <2>1, <3>1, <3>2
         DEF ReadRow, ScanInv, Assessing, Seen, Taking, At, World, jobs, records, history, Clear, Quiet,
             Past, OwnRuns
  <2> QED
    BY <1>1, <1>7, <2>1 DEF ReadRow, Abandon, Past, Known
<1>8. CASE ReadPending
  <2>1. CASE /\ ~\E r \in OwnRuns : sync[r] = "pending" /\ Named(r)
             /\ retirer' = [retirer EXCEPT !.todo = @ \ {Assessed},
                                           !.pc = IF retirer.todo = {Assessed} THEN "inspect" ELSE "list"]
    <3>1. /\ retirer'.todo = retirer.todo \ {Assessed}
          /\ retirer'.pc = IF retirer.todo = {Assessed} THEN "inspect" ELSE "list"
      BY <1>0, <2>1 DEF RetirerStates
    <3>2. ~resumed => \A r \in Runs : Known(r) /\ ProjectOf[r] \notin retirer'.todo => Clear(r)
      BY <1>8, <2>1, <3>1 DEF Known, ReadPending, ScanInv, Seen, Assessing, At, Clear, OwnRuns
    <3>3. retirer.todo # {} /\ Assessed \in retirer.todo
      BY <1>8, AssessedInTodo DEF ReadPending, ScanInv, Assessing, At
    <3>4. UNCHANGED <<thread, exec, sync, drained, resumed>>
      BY <1>8 DEF ReadPending, World, jobs, records, history
    <3>5. \A r \in Runs : Clear(r) => Clear(r)'
      BY <3>4 DEF Clear, Quiet, Past
    <3>6. ~resumed => drained
      BY <1>8 DEF ReadPending, ScanInv, At
    <3>7. CASE retirer.todo = {Assessed}
      <4>1. retirer'.pc = "inspect" /\ retirer'.todo = {}
        BY <3>1, <3>7
      <4> QED
        BY <1>0, <1>k, <3>2, <3>4, <3>5, <3>6, <4>1 DEF ScanInv, Seen, Assessing, Taking, At
    <3>8. CASE retirer.todo # {Assessed}
      <4>1. retirer'.pc = "list" /\ retirer'.todo # {}
        BY <3>1, <3>3, <3>8
      <4> QED
        BY <1>0, <1>k, <3>2, <3>4, <3>5, <3>6, <4>1 DEF ScanInv, Seen, Assessing, Taking, At
    <3> QED
      BY <3>7, <3>8
  <2> QED
    BY <1>1, <1>8, <2>1 DEF ReadPending, Abandon
<1>9. CASE InspectArchive \/ Revoke \/ CleanArchive \/ CheckFiles \/ ReplaceRegistry \/ ReplaceProject
  <2>1. Taking /\ UNCHANGED <<thread, exec, sync, drained, resumed>>
    BY <1>9 DEF InspectArchive, Revoke, CleanArchive, CheckFiles, Reads, ReplaceRegistry, ReplaceProject,
                At, Taking,
                World, jobs, records, history
  <2>2. retirer'.pc \in {"idle", "revoke", "clean", "check", "registry", "project"}
    <3>1. CASE InspectArchive
      BY <1>0, <3>1 DEF InspectArchive, RetirerStates
    <3>2. CASE Revoke \/ CleanArchive
      BY <1>0, <3>2 DEF Revoke, CleanArchive, Advance, Abandon, NoRetirer, RetirerStates
    <3>3. CASE CheckFiles \/ ReplaceRegistry \/ ReplaceProject
      BY <1>0, <3>3 DEF CheckFiles, Reads, ReplaceRegistry, ReplaceProject, Advance, Abandon, NoRetirer,
                        RetirerStates
    <3> QED
      BY <1>9, <3>1, <3>2, <3>3
  <2>3. \A r \in Runs : Clear(r) => Clear(r)'
    BY <2>1 DEF Clear, Quiet, Past
  <2>4. ~resumed => drained /\ \A r \in Runs : Known(r) => Clear(r)
    BY <2>1 DEF ScanInv, Seen, Taking, At
  <2> QED
    BY <1>0, <1>k, <2>1, <2>2, <2>3, <2>4 DEF ScanInv, Seen, Assessing, Taking, At
<1> QED
  BY <1>2, <1>3, <1>4, <1>5, <1>6, <1>7, <1>8, <1>9, <1>10 DEF Retire

LEMMA NextScan == ScanInv /\ [Next]_vars => ScanInv'
<1> SUFFICES ASSUME ScanInv, UNCHANGED vars PROVE ScanInv'
  BY OthersScan, RetireScan DEF Next
<1> QED
  BY NextType, NextThreads
     DEF vars, jobs, records, history, ScanInv, Seen, Assessing, Taking, At, Known, Named, Clear, Quiet,
         Past, OwnRuns, Assessed

\* Unless somebody resumes the server, a retirement takes nothing away from it while a run is on it or on its
\* way to it, or while it has output that is still to be archived: for every run but those of a project with
\* another name for the machine, and those whose job was edited between the two files a dispatcher reads.
THEOREM NothingLeftBehind == Spec => []NothingBehind
<1>1. ScanInv => NothingBehind
  BY DEF ScanInv, Seen, NothingBehind, Taking, Known, Clear, Quiet, Past, Here
<1> QED
  BY <1>1, InitScan, NextScan, PTL DEF Spec
=============================================================================
