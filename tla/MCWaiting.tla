----------------------------- MODULE MCWaiting -----------------------------
(***************************************************************************)
(* Small instances of Waiting.                                             *)
(***************************************************************************)
EXTENDS Waiting

CONSTANTS r1, w1

WaitFor(rs, until) == [runs |-> rs, until |-> until]
SingleWaits == {WaitFor(<<r1>>, until) : until \in {"terminal", "reportable"}}
=============================================================================
