------------------------------- MODULE Leases -------------------------------
(***************************************************************************)
(* The controller-wide lease table of                                      *)
(* src/src/remote_runner/_internal/controller/registry.py: one lease file  *)
(* per physical machine, shared by the dispatchers of every project, each  *)
(* operation atomic under the scheduler file lock.                         *)
(*                                                                         *)
(* Wall-clock time is abstracted to one bit per lease: a lease is fresh    *)
(* until its TTL passes (Expire), and a renewal makes it fresh again.      *)
(* The 256-bit random owner token is a number no lease and no process      *)
(* remembers: Acquire takes the token to use, its caller chooses it.       *)
(***************************************************************************)
EXTENDS Naturals, FiniteSets

CONSTANTS
  Machines,   \* canonical machine identities
  Owners,     \* who may own a lease: a (project, run) pair or a purge operation
  Tokens,     \* owner tokens
  NoLease     \* "no lease file for this machine"

Kinds == {"dispatch", "maintenance"}

Lease == [owner: Owners, token: Tokens, kind: Kinds, expired: BOOLEAN]

ASSUME TokensAreNumbers == Tokens \subseteq Nat
ASSUME NoLeaseAssumption == NoLease \notin Lease

VARIABLES
  lease,      \* machine -> the content of its lease file
  drained     \* machines closed to new dispatch leases

LeaseTypeOK ==
  /\ lease \in [Machines -> Lease \cup {NoLease}]
  /\ drained \in SUBSET Machines

LeaseInit ==
  /\ lease = [m \in Machines |-> NoLease]
  /\ drained = {}

(***************************************************************************)
(* release_dispatch_lease and renew_dispatch_lease identify a lease by     *)
(* owner and token.                                                        *)
(***************************************************************************)
Holds(m, o, t) ==
  /\ lease[m] # NoLease
  /\ lease[m].owner = o
  /\ lease[m].token = t

LeasesOf(o) ==
  {m \in Machines : lease[m] # NoLease /\ lease[m].kind = "dispatch" /\ lease[m].owner = o}

HasUnexpired(o) == \E m \in LeasesOf(o) : ~lease[m].expired

\* Mutant of Refuses: the owner of an expired lease is refused like any other.
RefusesOwner(m, o, gone) ==
  /\ lease[m] # NoLease
  /\ \/ ~lease[m].expired
     \/ lease[m].kind = "dispatch" /\ lease[m].owner \notin gone

(***************************************************************************)
(* An existing lease refuses a new owner o while it is unexpired and, if   *)
(* it is a dispatch lease, even after expiry, unless o already owned it or *)
(* the records of its owner are gone.                                      *)
(***************************************************************************)
Refuses(m, o, gone) ==
  /\ lease[m] # NoLease
  /\ \/ ~lease[m].expired
     \/ /\ lease[m].kind = "dispatch"
        /\ lease[m].owner # o
        /\ lease[m].owner \notin gone

CanAcquire(m, o, kind, gone) ==
  /\ kind = "dispatch" => m \notin drained
  /\ ~Refuses(m, o, gone)

Acquire(m, o, kind, t, gone) ==
  /\ CanAcquire(m, o, kind, gone)
  /\ lease' = [lease EXCEPT ![m] =
                 [owner |-> o, token |-> t, kind |-> kind, expired |-> FALSE]]

Renew(m, o, t) ==
  /\ Holds(m, o, t)
  /\ lease[m].kind = "dispatch"
  /\ lease' = [lease EXCEPT ![m].expired = FALSE]

(***************************************************************************)
(* Releasing with a token that no longer matches removes nothing.          *)
(***************************************************************************)
Release(m, o, t) ==
  lease' = IF Holds(m, o, t) THEN [lease EXCEPT ![m] = NoLease] ELSE lease

Expire(m) ==
  /\ lease[m] # NoLease
  /\ ~lease[m].expired
  /\ lease' = [lease EXCEPT ![m].expired = TRUE]

SetDrained(m, closed) ==
  drained' = IF closed THEN drained \cup {m} ELSE drained \ {m}
=============================================================================
