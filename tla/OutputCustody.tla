--------------------------- MODULE OutputCustody ---------------------------
(***************************************************************************)
(* What output synchronisation promises: a finished output lies on its     *)
(* source, is then also in the archive, and may then leave the source; its *)
(* last copy goes only when somebody asks to delete the run's artifacts,   *)
(* or when nothing protects it from what happens around it.                *)
(***************************************************************************)
CONSTANT Runs

VARIABLES
  copies,     \* run -> where its finished output lies
  condemned,  \* runs whose artifacts somebody asked to delete
  unguarded   \* runs whose output on the source nothing protects

custody == <<copies, condemned, unguarded>>

Places == {"source", "archive"}

CustodyInit ==
  /\ copies = [r \in Runs |-> {}]
  /\ condemned = {}
  /\ unguarded \in SUBSET Runs

Produced(r) == copies[r] = {} /\ copies'[r] = {"source"}
Archived(r) == "source" \in copies[r] /\ copies'[r] = Places
Pruned(r) == "archive" \in copies[r] /\ copies'[r] = {"archive"}
Destroyed(r) == r \in condemned /\ copies'[r] \subseteq Places
Swept(r) == r \in unguarded /\ copies'[r] = copies[r] \ {"source"}

\* One program may touch the outputs of several runs.
Move ==
  /\ copies' \in [Runs -> SUBSET Places]
  /\ \A r \in Runs : copies'[r] = copies[r] \/ Produced(r) \/ Archived(r) \/ Pruned(r) \/ Destroyed(r) \/ Swept(r)
  /\ UNCHANGED condemned

Condemn(r) == condemned' = condemned \cup {r} /\ UNCHANGED copies

CustodyNext ==
  /\ Move \/ \E r \in Runs : Condemn(r)
  /\ unguarded' \in SUBSET Runs

Custody == CustodyInit /\ [][CustodyNext]_custody
=============================================================================
