------------------------------- MODULE MCQueue -------------------------------
(***************************************************************************)
(* Small instances of Queue.                                               *)
(***************************************************************************)
EXTENDS Queue

CONSTANTS j1, j2, j3, m1, m2

OnOne == [j \in Jobs |-> {m1}]

OnAll == [j \in Jobs |-> Machines]
AlikeAll == Permutations(Jobs) \cup Permutations(Machines)

Moving == {{"up"}, {"down"}, {"first"}}
Placing == {{"servers"}, {"class", "servers"}, {"priority", "servers"}}
=============================================================================
