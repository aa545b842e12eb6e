----------------------------- MODULE MCDispatch -----------------------------
(***************************************************************************)
(* Small instances of Dispatch: two runs, r1 and r2, and two machines at   *)
(* most.  The configurations choose among the values defined here.         *)
(***************************************************************************)
EXTENDS Dispatch

CONSTANTS r1, r2, m1, m2, d1, d2

\* Both runs in one project, or each in its own.
OneProject == [r \in Runs |-> "p1"]
TwoProjects == [r \in Runs |-> IF r = r1 THEN "p1" ELSE "p2"]
ServesOne == [d \in Dispatchers |-> "p1"]
ServesTwo == [d \in Dispatchers |-> IF d = d1 THEN "p1" ELSE "p2"]

Anywhere == [r \in Runs |-> Machines]

AllStandard == [r \in Runs |-> "standard"]

\* Three cores, two standard slots: a run that takes the whole machine does not fit
\* beside another.
WholeAndOne == [r \in Runs |-> IF r = r1 THEN 0 ELSE 1]
ThreeCores == [m \in Machines |-> 3]
TwoSlots == [m \in Machines |-> [standard |-> 2, test |-> 0]]
OneSlot == [m \in Machines |-> [standard |-> 1, test |-> 0]]
=============================================================================
