---------------------------- MODULE MCOutputSync ----------------------------
(***************************************************************************)
(* Small instances of OutputSync.                                          *)
(***************************************************************************)
EXTENDS OutputSync

CONSTANTS r1, r2

\* The output of r2 lies within that of r1.
Within == [r \in Runs |-> IF r = r1 THEN Runs \ {r1} ELSE {}]
=============================================================================
