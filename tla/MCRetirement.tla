---------------------------- MODULE MCRetirement ----------------------------
(* Instances of Retirement for TLC. *)
EXTENDS Retirement, TLC

CONSTANTS r1, r2, p1, p2

TwoProjects == r1 :> p1 @@ r2 :> p2
OneProject == r1 :> p1
HereOnly == {{"here"}}
HereOrThere == {{"here"}, {"there"}}
=============================================================================
