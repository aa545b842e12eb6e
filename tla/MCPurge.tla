------------------------------ MODULE MCPurge ------------------------------
(***************************************************************************)
(* Small instances of Purge: two runs of one task whose outputs overlap.   *)
(***************************************************************************)
EXTENDS Purge

CONSTANTS r1, r2, p1

\* Each output path lies in the other's tree.
Nested == [r \in Runs |-> Runs \ {r}]
\* Both invocations may meet at run r1; only one of them goes on to r2.
BothAtR1 == [c \in RunPurgers |-> IF c = p1 THEN {r1} ELSE Runs]
=============================================================================
