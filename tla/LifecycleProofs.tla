-------------------------- MODULE LifecycleProofs --------------------------
(***************************************************************************)
(* Theorems about the dispatcher's lifecycle, for any number of jobs,      *)
(* editors, watchers and failures.                                         *)
(***************************************************************************)
EXTENDS Lifecycle, TLAPS

\* The job in hand is a job and, while it is being dispatched, holds its lease:
\* the heartbeat keeps it live, and nobody else releases a live lease.
InHand ==
  /\ loop.pc \in LaunchPcs \cup {"recover"} => loop.job \in Jobs
  /\ loop.pc \in LaunchPcs => lease[loop.job] = "live"

Inv == TypeOK /\ InHand /\ ActivationInterruptsNothing

Loops == [pc: LoopPcs, job: Jobs \cup {NoJob}, active: BOOLEAN, idle: BOOLEAN]
ClientStates == [pc: ClientPcs, job: Jobs \cup {NoJob}]

LEMMA InitInv == Init => Inv
<1> SUFFICES ASSUME Init PROVE Inv
  OBVIOUS
<1>1. NoLoop \in Loops /\ NoClient \in ClientStates
  BY DEF NoLoop, NoClient, Loops, ClientStates, LoopPcs, ClientPcs
<1>2. TypeOK
  BY <1>1 DEF Init, TypeOK, JobStates, LeaseStates, Loops, ClientStates
<1> QED
  BY <1>2 DEF Init, Inv, InHand, ActivationInterruptsNothing, SchedulerLocked, NoLoop, LaunchPcs

\* What a command becomes has the type of a command.
LEMMA BecomeType ==
  ASSUME TypeOK, NEW c \in Clients, NEW pc \in ClientPcs, Become(c, pc)
  PROVE  client' \in [Clients -> ClientStates]
<1>1. [NoClient EXCEPT !.pc = pc] \in ClientStates
  BY DEF NoClient, ClientStates
<1> QED
  BY <1>1 DEF TypeOK, Become, ClientStates

LEMMA LoopStepInv == Inv /\ LoopStep => Inv'
<1> SUFFICES ASSUME Inv, LoopStep PROVE Inv'
  OBVIOUS
<1> USE DEF Inv, InHand, ActivationInterruptsNothing, SchedulerLocked, TypeOK, LoopPcs, LaunchPcs,
            JobStates, LeaseStates, leases, Released
<1>1. CASE Monitor \/ BatchBusy \/ BatchRaises \/ BatchIdle \/ BatchWaits \/ Decide \/ Wake
  <2>1. CASE Monitor \/ BatchBusy \/ BatchRaises \/ BatchIdle
    <3>1. loop' \in Loops /\ loop'.pc \notin LaunchPcs \cup {"recover"}
      BY <2>1 DEF Monitor, BatchBusy, BatchRaises, BatchIdle, Loops
    <3>2. CASE Monitor
      BY <3>1, <3>2 DEF Monitor
    <3>3. CASE BatchBusy \/ BatchRaises \/ BatchIdle
      BY <3>1, <3>3 DEF BatchBusy, BatchRaises, BatchIdle
    <3> QED
      BY <2>1, <3>2, <3>3
  <2>2. CASE BatchWaits \/ Decide \/ Wake
    <3>1. loop' \in Loops /\ loop'.pc \notin LaunchPcs \cup {"recover"}
      BY <2>2 DEF BatchWaits, Decide, Wake, Loops
    <3> QED
      BY <2>2, <3>1 DEF BatchWaits, Decide, Wake, Loops
  <2> QED
    BY <1>1, <2>1, <2>2
<1>11. CASE CycleFails
  BY <1>11, LifecycleAssumptions DEF CycleFails
<1>2. CASE PutBack
  BY <1>2 DEF PutBack
<1>3. CASE Mark
  BY <1>3 DEF Mark
<1>4. CASE MarkConflicts
  BY <1>4 DEF MarkConflicts
<1>5. CASE Launch
  BY <1>5 DEF Launch
<1>12. CASE LaunchUnknown
  BY <1>12 DEF LaunchUnknown
<1>13. CASE LaunchFails
  BY <1>13 DEF LaunchFails
<1>6. CASE ReleaseLease
  BY <1>6 DEF ReleaseLease
<1>7. CASE Return
  BY <1>7 DEF Return, NoLoop
<1>8. ASSUME NEW j \in Jobs, BatchRecover(j) PROVE Inv'
  BY <1>8 DEF BatchRecover, Dispatching
<1>9. ASSUME NEW j \in Jobs, BatchReserves(j) PROVE Inv'
  BY <1>9 DEF BatchReserves, Takes
<1>10. ASSUME NEW j \in Jobs, ReconcileLease(j) PROVE Inv'
  BY <1>10 DEF ReconcileLease
<1> QED
  BY <1>1, <1>2, <1>3, <1>4, <1>5, <1>6, <1>7, <1>8, <1>9, <1>10, <1>11, <1>12, <1>13
     DEF LoopStep

LEMMA ActivationInv == Inv /\ Activation => Inv'
<1> SUFFICES ASSUME Inv, Activation PROVE Inv'
  OBVIOUS
<1> USE DEF Inv, InHand, ActivationInterruptsNothing, SchedulerLocked, TypeOK, LaunchPcs, leases
<1>1. CASE CheckLeases
  BY <1>1 DEF CheckLeases
<1>2. CASE StopWorkers
  BY <1>2 DEF StopWorkers, NoLoop, LoopPcs
<1>3. CASE SwitchCurrent
  BY <1>3 DEF SwitchCurrent
<1>4. CASE ActivationFails
  BY <1>4 DEF ActivationFails
<1> QED
  BY <1>1, <1>2, <1>3, <1>4 DEF Activation

\* A command changes neither leases nor the gate; it may create a session.
LEMMA CommandInv ==
  ASSUME Inv, NEW c \in Clients,
         \/ Ensure(c) \/ EndUpdate(c) \/ ClientDies(c) \/ Poll(c)
         \/ \E j \in Jobs : Submit(c, j) \/ ReserveUpdate(c, j)
  PROVE  Inv'
<1> USE DEF Inv, InHand, ActivationInterruptsNothing, SchedulerLocked, LaunchPcs, leases
<1>1. CASE Ask(c) \/ ClientDies(c) \/ Poll(c)
  <2>1. client' \in [Clients -> ClientStates]
    BY <1>1, BecomeType DEF Ask, ClientDies, Poll, ClientPcs
  <2> QED
    BY <1>1, <2>1 DEF Ask, ClientDies, Poll, TypeOK, ClientStates
<1>2. CASE NewSession(c)
  <2>1. client' \in [Clients -> ClientStates]
    BY <1>2, BecomeType DEF NewSession, ClientPcs
  <2>2. loop' = loop \/ loop' = [NoLoop EXCEPT !.pc = "monitor"]
    BY <1>2 DEF NewSession
  <2>3. [NoLoop EXCEPT !.pc = "monitor"] \in Loops
    BY DEF NoLoop, Loops, LoopPcs
  <2> QED
    BY <1>2, <2>1, <2>2, <2>3 DEF NewSession, TypeOK, ClientStates, Loops, NoLoop
<1>3. CASE EndUpdate(c)
  <2>1. client' \in [Clients -> ClientStates]
    BY <1>3, BecomeType DEF EndUpdate, ClientPcs
  <2>2. job' \in [Jobs -> JobStates]
    BY <1>3 DEF EndUpdate, TypeOK, JobStates
  <2> QED
    BY <1>3, <2>1, <2>2 DEF EndUpdate, TypeOK, ClientStates
<1>4. ASSUME NEW j \in Jobs, Submit(c, j) PROVE Inv'
  <2>1. client' \in [Clients -> ClientStates]
    BY <1>4, BecomeType DEF Submit, ClientPcs
  <2> QED
    BY <1>4, <2>1 DEF Submit, TypeOK, ClientStates, JobStates
<1>5. ASSUME NEW j \in Jobs, ReserveUpdate(c, j) PROVE Inv'
  <2>1. client' \in [Clients -> ClientStates]
    BY <1>5 DEF ReserveUpdate, TypeOK, ClientStates, ClientPcs
  <2> QED
    BY <1>5, <2>1 DEF ReserveUpdate, TypeOK, ClientStates, JobStates
<1> QED
  BY <1>1, <1>2, <1>3, <1>4, <1>5 DEF Ensure

LEMMA SurroundingsInv ==
  ASSUME Inv, NEW j \in Jobs,
         StopQueued(j) \/ Finish(j) \/ ExpireUpdate(j) \/ ExpireLease(j) \/ Drain(j)
  PROVE  Inv'
<1> USE DEF Inv, InHand, ActivationInterruptsNothing, SchedulerLocked, LaunchPcs, TypeOK, leases
<1>1. CASE StopQueued(j) \/ Finish(j)
  BY <1>1 DEF StopQueued, Finish, JobStates
<1>2. CASE ExpireUpdate(j)
  BY <1>2 DEF ExpireUpdate, JobStates, ClientPcs
<1>3. CASE ExpireLease(j)
  BY <1>3 DEF ExpireLease, LeaseStates
<1>4. CASE Drain(j)
  BY <1>4 DEF Drain
<1> QED
  BY <1>1, <1>2, <1>3, <1>4

LEMMA LoopDiesInv == Inv /\ LoopDies => Inv'
  BY DEF Inv, InHand, ActivationInterruptsNothing, SchedulerLocked, LaunchPcs, TypeOK, LoopDies,
         NoLoop, LoopPcs, leases

LEMMA StepInv == Inv /\ [Next]_vars => Inv'
<1> SUFFICES ASSUME Inv, [Next]_vars PROVE Inv'
  OBVIOUS
<1>1. CASE Next
  BY <1>1, LoopStepInv, ActivationInv, CommandInv, SurroundingsInv, LoopDiesInv DEF Next
<1>2. CASE UNCHANGED vars
  BY <1>2 DEF vars, leases, Inv, TypeOK, InHand, ActivationInterruptsNothing, SchedulerLocked
<1> QED
  BY <1>1, <1>2

\* The type invariant of the lifecycle, in every reachable state.
THEOREM LifecycleTypes == Spec => []TypeOK
<1>1. Inv => TypeOK
  BY DEF Inv
<1> QED
  BY <1>1, InitInv, StepInv, PTL DEF Spec

\* activate_release never kills a dispatcher that has a job in hand, and none gets
\* one until the release is switched.
THEOREM ActivationSafe == Spec => []ActivationInterruptsNothing
<1>1. Inv => ActivationInterruptsNothing
  BY DEF Inv
<1> QED
  BY <1>1, InitInv, StepInv, PTL DEF Spec
=============================================================================
