----------------------------- MODULE QueueLanes -----------------------------
(***************************************************************************)
(* The queue as its users see it: in each lane the jobs wait one behind    *)
(* the other.  A job comes or goes; or it moves: to the front of its lane, *)
(* behind the last job of another one, or past its neighbour.  The others  *)
(* keep their order.  A job that moves past another one also passes those  *)
(* that share a position with it.                                          *)
(***************************************************************************)
EXTENDS Naturals, Sequences, SequencesExt

CONSTANTS Jobs, Lanes

VARIABLES
  lanes,   \* lane -> the jobs that wait in it, the next one first
  alike,   \* the pairs of jobs that share a position in a lane
  lives    \* how many commands may still die in the middle of a move

LanesInit == lanes = [l \in Lanes |-> <<>>]

Place(s, j) == CHOOSE k \in DOMAIN s : s[k] = j
Without(s, j) == IF j \in ToSet(s) THEN RemoveAt(s, Place(s, j)) ELSE s
Ahead(s, a, b) == {a, b} \subseteq ToSet(s) /\ Place(s, a) < Place(s, b)

\* A job comes anywhere, goes, stays where it is, comes to the front of its lane, or
\* is put behind the last job of another one.
Step(q, r, j) ==
  /\ \A l \in Lanes : Without(r[l], j) = Without(q[l], j)
  /\ \A k, l \in Lanes : j \in ToSet(q[k]) /\ j \in ToSet(r[l]) =>
       Place(r[l], j) \in {1, IF k = l THEN Place(q[k], j) ELSE Len(r[l])}

\* In the lane s, y was the next one behind x, and is now before it.
Exchange(s, t, x, y) ==
  /\ Ahead(s, x, y) /\ Place(s, y) = Place(s, x) + 1
  /\ Ahead(t, y, x) /\ ToSet(t) = ToSet(s)
  /\ \A a, b \in ToSet(s) : Ahead(s, a, b) /\ Ahead(t, b, a) =>
       \/ a = x /\ (b = y \/ <<b, y>> \in alike)
       \/ b = y /\ <<a, x>> \in alike

\* A job passes a neighbour, in its own lane or in the one that it is put in.
Pass(q, r, j) ==
  \E l \in Lanes :
    /\ \A k \in Lanes \ {l} : r[k] = Without(q[k], j)
    /\ LET s == IF j \in ToSet(q[l]) THEN q[l] ELSE Append(q[l], j)
       IN \E i \in ToSet(q[l]) : Exchange(s, r[l], i, j) \/ Exchange(s, r[l], j, i)

\* A command dies: the order of one lane may change, and no job is lost.
Torn(q, r, j) ==
  \E l \in Lanes :
    /\ \A k \in Lanes \ {l} : Without(r[k], j) = Without(q[k], j)
    /\ ToSet(r[l]) \ {j} = ToSet(q[l]) \ {j}

LanesNext ==
  LET q == lanes  r == lanes' IN
  \/ q = r
  \/ lives' = lives /\ \E j \in Jobs : Step(q, r, j) \/ Pass(q, r, j)
  \/ lives' < lives /\ \E j \in Jobs : Torn(q, r, j)

InOrder == LanesInit /\ [][LanesNext]_lanes
=============================================================================
