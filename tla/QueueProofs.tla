---------------------------- MODULE QueueProofs ----------------------------
(***************************************************************************)
(* Theorems about the queue of a project, for any number of jobs, clients, *)
(* machines and edits.                                                     *)
(***************************************************************************)
EXTENDS Queue, FiniteSetTheorems, SequenceTheorems, WellFoundedInduction, TLAPS

(***************************************************************************)
(* Finite sets in a strict total order, given as a set of pairs: there is  *)
(* exactly one element of each rank.                                       *)
(***************************************************************************)
StrictOrder(R, S) ==
  /\ \A x \in S : <<x, x>> \notin R
  /\ \A x, y, z \in S : <<x, y>> \in R /\ <<y, z>> \in R => <<x, z>> \in R
  /\ \A x, y \in S : x # y => <<x, y>> \in R \/ <<y, x>> \in R

Below(R, S, x) == {y \in S : <<y, x>> \in R}
RankOf(R, S, x) == Cardinality(Below(R, S, x))

LEMMA RanksGrow ==
  ASSUME NEW S, IsFiniteSet(S), NEW R, StrictOrder(R, S)
  PROVE  /\ \A x \in S : RankOf(R, S, x) \in Nat /\ RankOf(R, S, x) < Cardinality(S)
         /\ \A x, y \in S : <<x, y>> \in R <=> RankOf(R, S, x) < RankOf(R, S, y)
<1>0. \A x \in S : /\ IsFiniteSet(Below(R, S, x)) /\ Below(R, S, x) \in SUBSET S
                   /\ RankOf(R, S, x) \in Nat
  <2> TAKE x \in S
  <2>1. Below(R, S, x) \in SUBSET S
    BY DEF Below
  <2>2. IsFiniteSet(Below(R, S, x))
    BY <2>1, FS_Subset
  <2> QED
    BY <2>1, <2>2, FS_CardinalityType DEF RankOf
<1>1. ASSUME NEW x \in S PROVE RankOf(R, S, x) < Cardinality(S)
  <2>1. x \notin Below(R, S, x)
    BY DEF Below, StrictOrder
  <2>2. RankOf(R, S, x) <= Cardinality(S) /\ RankOf(R, S, x) # Cardinality(S)
    BY <1>0, <2>1, FS_Subset DEF RankOf
  <2>3. Cardinality(S) \in Nat
    BY FS_CardinalityType
  <2> QED
    BY <1>0, <2>2, <2>3
<1>2. ASSUME NEW x \in S, NEW y \in S, <<x, y>> \in R PROVE RankOf(R, S, x) < RankOf(R, S, y)
  <2>1. Below(R, S, x) \in SUBSET Below(R, S, y)
    BY <1>2 DEF Below, StrictOrder
  <2>2. x \in Below(R, S, y) /\ x \notin Below(R, S, x)
    BY <1>2 DEF Below, StrictOrder
  <2>3. RankOf(R, S, x) <= RankOf(R, S, y) /\ RankOf(R, S, x) # RankOf(R, S, y)
    BY <1>0, <2>1, <2>2, FS_Subset DEF RankOf
  <2> QED
    BY <1>0, <2>3
<1>3. ASSUME NEW x \in S, NEW y \in S, RankOf(R, S, x) < RankOf(R, S, y) PROVE <<x, y>> \in R
  <2>1. x # y /\ ~(RankOf(R, S, y) < RankOf(R, S, x))
    BY <1>0, <1>3
  <2>2. <<y, x>> \notin R
    BY <1>2, <2>1
  <2> QED
    BY <2>1, <2>2 DEF StrictOrder
<1> QED
  BY <1>0, <1>1, <1>2, <1>3

LEMMA RankTaken ==
  ASSUME NEW S, IsFiniteSet(S), NEW R, StrictOrder(R, S), NEW k \in Nat, k < Cardinality(S)
  PROVE  \E x \in S : RankOf(R, S, x) = k
<1> SUFFICES ASSUME \A x \in S : RankOf(R, S, x) # k PROVE FALSE
  OBVIOUS
<1> DEFINE n == Cardinality(S)
           T == (0 .. n - 1) \ {k}
           f == [x \in S |-> RankOf(R, S, x)]
<1>1. n \in Nat /\ 0 \in Int /\ n - 1 \in Int
  BY FS_CardinalityType
<1>2. IsFiniteSet(0 .. n - 1) /\ Cardinality(0 .. n - 1) = n
  BY <1>1, FS_Interval
<1>3. IsFiniteSet(T) /\ Cardinality(T) = n - 1
  <2>1. k \in 0 .. n - 1
    BY <1>1
  <2> QED
    BY <1>2, <2>1, FS_RemoveElement
<1>4. f \in [S -> T]
  BY <1>1, RanksGrow
<1>5. PICK x, y \in S : x # y /\ f[x] = f[y]
  <2>1. Cardinality(T) < Cardinality(S)
    BY <1>1, <1>3
  <2> HIDE DEF T, f, n
  <2> QED
    BY <1>3, <1>4, <2>1, FS_PigeonHole
<1>6. RankOf(R, S, x) = RankOf(R, S, y) /\ RankOf(R, S, x) \in Nat
  BY <1>5, RanksGrow
<1>7. <<x, y>> \in R \/ <<y, x>> \in R
  BY <1>5 DEF StrictOrder
<1> QED
  BY <1>6, <1>7, RanksGrow

(***************************************************************************)
(* The least and the greatest of a set of numbers.                         *)
(***************************************************************************)
LEMMA LeastOf ==
  ASSUME NEW T, T \subseteq Nat, T # {}
  PROVE  Min(T) \in T /\ \A y \in T : Min(T) <= y
<1> DEFINE R == OpToRel(<, Nat)
<1>1. IsWellFoundedOn(R, Nat)
  BY NatLessThanWellFounded
<1>2. \A x, y \in Nat : <<x, y>> \in R <=> x < y
  BY DEF OpToRel
<1> HIDE DEF R
<1>3. PICK x \in T : \A y \in T : ~(<<y, x>> \in R)
  BY <1>1, WFMin
<1>4. ASSUME NEW y \in T PROVE x <= y
  <2>1. x \in Nat /\ y \in Nat
    OBVIOUS
  <2>2. ~(y < x)
    BY <1>2, <1>3, <2>1
  <2> QED
    BY <2>1, <2>2
<1> QED
  BY <1>4 DEF Min

LEMMA GreatestOf ==
  ASSUME NEW T, T \subseteq Nat, T # {}, IsFiniteSet(T)
  PROVE  Max(T) \in T /\ \A y \in T : y <= Max(T)
<1> DEFINE R == {p \in Nat \X Nat : p[1] < p[2]}
           n == Cardinality(T)
<1>1. \A x, y \in Nat : <<x, y>> \in R <=> x < y
  OBVIOUS
<1>2. StrictOrder(R, T)
  <2> HIDE DEF R
  <2> QED
    BY <1>1 DEF StrictOrder
<1> HIDE DEF R
<1>3. n \in Nat /\ n # 0
  BY FS_CardinalityType, FS_EmptySet
<1>4. PICK x \in T : RankOf(R, T, x) = n - 1
  BY <1>2, <1>3, RankTaken
<1>5. ASSUME NEW y \in T PROVE x >= y
  <2>1. RankOf(R, T, y) \in Nat /\ RankOf(R, T, y) < n
    BY <1>2, RanksGrow
  <2>2. ~(RankOf(R, T, x) < RankOf(R, T, y))
    BY <1>3, <1>4, <2>1
  <2>3. <<x, y>> \notin R
    BY <1>2, <2>2, RanksGrow
  <2>4. x \in Nat /\ y \in Nat
    OBVIOUS
  <2> QED
    BY <1>1, <2>3, <2>4
<1>6. Max(T) \in T /\ \A y \in T : Max(T) >= y
  BY <1>5 DEF Max
<1> QED
  BY <1>6

(***************************************************************************)
(* The order of the queue, and the lines that it makes.                    *)
(***************************************************************************)
LEMMA IndexOf ==
  ASSUME NEW s, NEW e \in ToSet(s)
  PROVE  Index(s, e) \in DOMAIN s /\ s[Index(s, e)] = e
BY DEF ToSet, Index

Ranked(f, who) == \A i \in who : f[i].priority \in Priorities /\ f[i].position \in Nat
BeforePairs(f, who) == {p \in who \X who : Before(f, p[1], p[2])}

LEMMA QueuesAreOrdered ==
  ASSUME submitted \in Seq(Jobs), NEW who, who \subseteq ToSet(submitted), NEW f, Ranked(f, who)
  PROVE  StrictOrder(BeforePairs(f, who), who)
<1> DEFINE R == BeforePairs(f, who)
<1>1. \A i, j \in who : <<i, j>> \in R <=> Before(f, i, j)
  BY DEF BeforePairs
<1> HIDE DEF R
<1>2. \A i \in who : Index(submitted, i) \in Nat
  <2> TAKE i \in who
  <2>1. Index(submitted, i) \in DOMAIN submitted
    BY IndexOf
  <2> QED
    BY <2>1
<1>3. \A i, j \in who : i # j => Index(submitted, i) # Index(submitted, j)
  BY IndexOf
<1>4. \A i \in who : f[i].position \in Nat /\ (f[i].priority = "urgent" \/ f[i].priority = "normal")
  BY DEF Ranked, Priorities
<1>5. ASSUME NEW i \in who PROVE ~Before(f, i, i)
  <2>1. \A n \in Nat : ~(n < n) /\ ~(n > n)
    OBVIOUS
  <2>2. Rank(f[i].priority) \in Nat
    BY DEF Rank
  <2> QED
    BY <1>2, <1>4, <2>1, <2>2 DEF Before
<1>6. ASSUME NEW i \in who, NEW j \in who, NEW k \in who, Before(f, i, j), Before(f, j, k)
      PROVE  Before(f, i, k)
  BY <1>2, <1>4, <1>6 DEF Before, Rank
<1>7. ASSUME NEW i \in who, NEW j \in who, i # j PROVE Before(f, i, j) \/ Before(f, j, i)
  BY <1>2, <1>3, <1>4, <1>7 DEF Before, Rank
<1>8. StrictOrder(R, who)
  BY <1>1, <1>5, <1>6, <1>7 DEF StrictOrder
<1> QED
  BY <1>8 DEF R

LEMMA SubmittedAreFinite ==
  ASSUME submitted \in Seq(Jobs), NEW who, who \subseteq ToSet(submitted)
  PROVE  IsFiniteSet(who)
<1> DEFINE n == Len(submitted)
           g == [k \in 1 .. n |-> submitted[k]]
<1>1. n \in Nat /\ DOMAIN submitted = 1 .. n
  OBVIOUS
<1>2. IsFiniteSet(1 .. n)
  BY <1>1, FS_Interval
<1>3. g \in Surjection(1 .. n, ToSet(submitted))
  BY <1>1 DEF Surjection, ToSet
<1> HIDE DEF n, g
<1>4. IsFiniteSet(ToSet(submitted))
  BY <1>2, <1>3, FS_Surjection
<1> QED
  BY <1>4, FS_Subset

LEMMA LinesInOrder ==
  ASSUME submitted \in Seq(Jobs), NEW who, who \subseteq ToSet(submitted), NEW f, Ranked(f, who)
  PROVE  /\ InLine(f, who) \in Seq(who)
         /\ Len(InLine(f, who)) = Cardinality(who)
         /\ \A i \in who : \E k \in DOMAIN InLine(f, who) : InLine(f, who)[k] = i
         /\ \A k, l \in DOMAIN InLine(f, who) : Before(f, InLine(f, who)[k], InLine(f, who)[l]) <=> k < l
<1> DEFINE R == BeforePairs(f, who)
           n == Cardinality(who)
           L == InLine(f, who)
<1>1. IsFiniteSet(who) /\ StrictOrder(R, who)
  BY SubmittedAreFinite, QueuesAreOrdered
<1>2. n \in Nat
  BY <1>1, FS_CardinalityType
<1>3. \A i, j \in who : <<i, j>> \in R <=> Before(f, i, j)
  BY DEF BeforePairs
<1>4. \A j \in who : {i \in who : Before(f, i, j)} = Below(R, who, j)
  BY <1>3 DEF Below
<1>5. \A j \in who : Cardinality({i \in who : Before(f, i, j)}) = RankOf(R, who, j)
  BY <1>4 DEF RankOf
<1>6. /\ \A i \in who : RankOf(R, who, i) \in Nat /\ RankOf(R, who, i) < n
      /\ \A i, j \in who : <<i, j>> \in R <=> RankOf(R, who, i) < RankOf(R, who, j)
  <2> HIDE DEF R
  <2> QED
    BY <1>1, RanksGrow
<1>7. ASSUME NEW k \in 1 .. n PROVE L[k] \in who /\ RankOf(R, who, L[k]) = k - 1
  <2>1. k - 1 \in Nat /\ k - 1 < n
    BY <1>2
  <2>2. \E x \in who : RankOf(R, who, x) = k - 1
    <3> HIDE DEF R, n
    <3> QED
      BY <1>1, <2>1, RankTaken DEF n
  <2>3. \E x \in who : Cardinality({i \in who : Before(f, i, x)}) = k - 1
    BY <1>5, <2>2
  <2>4. L[k] = CHOOSE j \in who : Cardinality({i \in who : Before(f, i, j)}) = k - 1
    BY DEF InLine
  <2>5. L[k] \in who /\ Cardinality({i \in who : Before(f, i, L[k])}) = k - 1
    BY <2>3, <2>4
  <2> QED
    BY <1>5, <2>5
<1>8. DOMAIN L = 1 .. n
  BY DEF InLine
<1>9. L \in Seq(who) /\ Len(L) = n
  <2> DEFINE nth(k) == CHOOSE j \in who : Cardinality({i \in who : Before(f, i, j)}) = k - 1
  <2>1. L = [k \in 1 .. n |-> nth(k)]
    BY DEF InLine
  <2> HIDE DEF L, n, nth
  <2>2. L \in [1 .. n -> who]
    BY <1>7, <2>1
  <2> QED
    BY <1>2, <1>8, <2>2
<1>10. \A i, j \in who : RankOf(R, who, i) = RankOf(R, who, j) => i = j
  <2> TAKE i, j \in who
  <2>1. <<i, j>> \in R \/ <<j, i>> \in R \/ i = j
    BY <1>1 DEF StrictOrder
  <2> QED
    BY <1>6, <2>1
<1>11. ASSUME NEW i \in who PROVE \E k \in DOMAIN L : L[k] = i
  <2> DEFINE k == RankOf(R, who, i) + 1
  <2> HIDE DEF R, n, L
  <2>1. k \in 1 .. n /\ k - 1 = RankOf(R, who, i)
    BY <1>2, <1>6
  <2> HIDE DEF k
  <2>2. L[k] = i
    BY <1>7, <1>10, <2>1
  <2> QED
    BY <1>8, <2>1, <2>2
<1>12. ASSUME NEW k \in DOMAIN L, NEW l \in DOMAIN L PROVE Before(f, L[k], L[l]) <=> k < l
  <2> HIDE DEF R, n, L
  <2>1. Before(f, L[k], L[l]) <=> RankOf(R, who, L[k]) < RankOf(R, who, L[l])
    BY <1>3, <1>6, <1>7, <1>8
  <2>2. RankOf(R, who, L[k]) = k - 1 /\ RankOf(R, who, L[l]) = l - 1
    BY <1>7, <1>8
  <2>3. k \in Int /\ l \in Int
    BY <1>8
  <2> QED
    BY <2>1, <2>2, <2>3
<1> QED
  BY <1>9, <1>11, <1>12

(***************************************************************************)
(* Functions on some of the jobs.                                          *)
(***************************************************************************)
Partial(T) == UNION {[D -> T] : D \in SUBSET Jobs}

LEMMA PartialIs ==
  ASSUME NEW T, NEW f
  PROVE  f \in Partial(T) <=>
           /\ f = [x \in DOMAIN f |-> f[x]]
           /\ DOMAIN f \subseteq Jobs
           /\ \A x \in DOMAIN f : f[x] \in T
<1>1. ASSUME f \in Partial(T)
      PROVE  f = [x \in DOMAIN f |-> f[x]] /\ DOMAIN f \subseteq Jobs /\ \A x \in DOMAIN f : f[x] \in T
  <2>1. PICK D \in SUBSET Jobs : f \in [D -> T]
    BY <1>1 DEF Partial
  <2> QED
    BY <2>1
<1>2. ASSUME f = [x \in DOMAIN f |-> f[x]], DOMAIN f \subseteq Jobs, \A x \in DOMAIN f : f[x] \in T
      PROVE  f \in Partial(T)
  <2>1. f \in [DOMAIN f -> T] /\ DOMAIN f \in SUBSET Jobs
    BY <1>2
  <2> QED
    BY <2>1 DEF Partial
<1> QED
  BY <1>1, <1>2

LEMMA NothingIsPartial ==
  ASSUME NEW T
  PROVE  Nothing \in Partial(T) /\ DOMAIN Nothing = {}
<1>1. DOMAIN Nothing = {} /\ Nothing = [x \in DOMAIN Nothing |-> Nothing[x]]
  BY DEF Nothing
<1> QED
  BY <1>1, PartialIs

LEMMA EmptyIsNothing ==
  ASSUME NEW T, NEW f \in Partial(T)
  PROVE  (DOMAIN f = {}) <=> (f = Nothing)
<1>1. f = [x \in DOMAIN f |-> f[x]]
  BY PartialIs
<1>2. ASSUME DOMAIN f = {} PROVE f = Nothing
  BY <1>1, <1>2 DEF Nothing
<1> QED
  BY <1>2, NothingIsPartial

LEMMA LessOne ==
  ASSUME NEW T, NEW f \in Partial(T), NEW j
  PROVE  /\ Minus(f, j) \in Partial(T)
         /\ DOMAIN Minus(f, j) = DOMAIN f \ {j}
         /\ \A i \in DOMAIN f \ {j} : Minus(f, j)[i] = f[i]
<1>1. DOMAIN f \subseteq Jobs /\ \A x \in DOMAIN f : f[x] \in T
  BY PartialIs
<1>2. DOMAIN Minus(f, j) = DOMAIN f \ {j} /\ \A i \in DOMAIN f \ {j} : Minus(f, j)[i] = f[i]
  BY DEF Minus
<1>3. Minus(f, j) \in [DOMAIN f \ {j} -> T] /\ DOMAIN f \ {j} \in SUBSET Jobs
  BY <1>1 DEF Minus
<1>4. Minus(f, j) \in Partial(T)
  BY <1>3 DEF Partial
<1> QED
  BY <1>2, <1>4

LEMMA OneMore ==
  ASSUME NEW T, NEW f \in Partial(T), NEW j \in Jobs, NEW x \in T
  PROVE  Plus(f, j, x) \in Partial(T)
<1>1. DOMAIN f \subseteq Jobs /\ \A i \in DOMAIN f : f[i] \in T
  BY PartialIs
<1>2. Plus(f, j, x) \in [DOMAIN f \cup {j} -> T] /\ DOMAIN f \cup {j} \in SUBSET Jobs
  BY <1>1 DEF Plus
<1> QED
  BY <1>2 DEF Partial

LEMMA OnlyOne ==
  ASSUME NEW T, NEW j \in Jobs, NEW x \in T
  PROVE  Only(j, x) \in Partial(T) /\ DOMAIN Only(j, x) = {j} /\ Only(j, x)[j] = x
<1>1. Nothing \in Partial(T) /\ DOMAIN Nothing = {}
  BY NothingIsPartial
<1> HIDE DEF Nothing
<1>2. \A f \in Partial(T) : Plus(f, j, x) \in Partial(T)
  BY OneMore
<1>3. DOMAIN Plus(Nothing, j, x) = {j} /\ Plus(Nothing, j, x)[j] = x
  BY <1>1 DEF Plus
<1> QED
  BY <1>1, <1>2, <1>3 DEF Only

LEMMA WithFiles ==
  ASSUME NEW T, NEW old \in [Jobs -> T], NEW new \in Partial(T)
  PROVE  /\ With(old, new) \in [Jobs -> T]
         /\ \A i \in Jobs : With(old, new)[i] = IF i \in DOMAIN new THEN new[i] ELSE old[i]
<1>1. \A i \in DOMAIN new : new[i] \in T
  BY PartialIs
<1> QED
  BY <1>1 DEF With

(***************************************************************************)
(* The files: what holds of them between any two steps.                    *)
(***************************************************************************)
FilesOK ==
  /\ job \in [Jobs -> JobFile] /\ state \in [Jobs -> StateFile] /\ submitted \in Seq(Jobs)
  /\ \A j \in Jobs : job[j].eligible \subseteq job[j].prepared
  /\ \A j \in Jobs : state[j].status # "absent" => j \in ToSet(submitted)
  /\ \A j \in Jobs : Active(state[j]) => state[j].status \in {"queued", "stopped"}

LEMMA QueuedJobs ==
  ASSUME FilesOK
  PROVE  Queued \subseteq Jobs /\ Queued \subseteq ToSet(submitted)
BY DEF FilesOK, Queued

(***************************************************************************)
(* An edit: the files that it writes of the jobs in the queue.             *)
(***************************************************************************)
SameButPosition(a, b) == \A part \in {"class", "priority", "prepared", "eligible", "locked"} : a[part] = b[part]
Repositioned(m, f) == \A i \in DOMAIN m : i \in Queued /\ SameButPosition(m[i], f[i])

LEMMA PutBehind ==
  ASSUME FilesOK, NEW j, NEW new \in JobFile
  PROVE  PutLast(j, new) \in JobFile /\ SameButPosition(PutLast(j, new), new)
<1> DEFINE lane == {k \in Queued \ {j} : SameLane(job[k], new)}
           positions == {job[i].position : i \in lane}
<1>1. IsFiniteSet(lane) /\ lane \subseteq Jobs
  BY QueuedJobs, SubmittedAreFinite DEF FilesOK
<1>2. positions \subseteq Nat
  BY <1>1 DEF FilesOK, JobFile
<1>3. IsFiniteSet(positions)
  <2> DEFINE at == [i \in lane |-> job[i].position]
  <2>1. at \in Surjection(lane, positions)
    BY DEF Surjection
  <2> HIDE DEF lane, positions, at
  <2> QED
    BY <1>1, <2>1, FS_Surjection
<1>4. positions # {} => Max(positions) \in Nat
  <2> HIDE DEF positions
  <2> QED
    BY <1>2, <1>3, GreatestOf
<1>5. (IF positions = {} THEN 0 ELSE Max(positions)) + Spacing \in Nat
  <2> HIDE DEF positions
  <2> QED
    BY <1>4 DEF Spacing
<1>6. PICK p \in Nat : PutLast(j, new) = [new EXCEPT !.position = p]
  BY <1>5 DEF PutLast
<1> QED
  BY <1>6 DEF JobFile, SameButPosition

LEMMA ChangedFile ==
  ASSUME FilesOK, NEW j \in Jobs, NEW kinds, NEW servers \in SUBSET job[j].prepared
  PROVE  /\ Changed(j, kinds, servers) \in JobFile
         /\ Changed(j, kinds, servers).prepared = job[j].prepared
         /\ Changed(j, kinds, servers).eligible \subseteq job[j].prepared
<1> DEFINE a == IF "servers" \in kinds THEN [job[j] EXCEPT !.eligible = servers, !.locked = TRUE] ELSE job[j]
           other == [a EXCEPT !.class = Other(Classes, @)]
           b == IF "class" \in kinds THEN PutLast(j, other) ELSE a
           rest == [b EXCEPT !.priority = Other(Priorities, @)]
           c == IF "priority" \in kinds THEN PutLast(j, rest) ELSE b
           Fits(x) == x \in JobFile /\ x.prepared = job[j].prepared /\ x.eligible \subseteq job[j].prepared
<1>1. Fits(a)
  <2>1. job[j] \in JobFile /\ job[j].eligible \subseteq job[j].prepared
    BY DEF FilesOK
  <2>2. servers \in SUBSET Machines
    BY <2>1 DEF JobFile
  <2> QED
    BY <2>1, <2>2 DEF JobFile
<1>2. \A x \in Classes : Other(Classes, x) \in Classes
  <2> TAKE x \in Classes
  <2>1. \E y \in Classes : y # x
    BY DEF Classes
  <2> QED
    BY <2>1 DEF Other
<1>3. \A x \in Priorities : Other(Priorities, x) \in Priorities
  <2> TAKE x \in Priorities
  <2>1. \E y \in Priorities : y # x
    BY DEF Priorities
  <2> QED
    BY <2>1 DEF Other
<1> HIDE DEF a
<1>4. Fits(other)
  BY <1>1, <1>2 DEF JobFile
<1>5. Fits(b)
  <2> HIDE DEF other
  <2> QED
    BY <1>1, <1>4, PutBehind DEF SameButPosition
<1> HIDE DEF b
<1>6. Fits(rest)
  BY <1>3, <1>5 DEF JobFile
<1>7. Fits(c)
  <2> HIDE DEF rest
  <2> QED
    BY <1>5, <1>6, PutBehind DEF SameButPosition
<1> QED
  BY <1>7 DEF Changed, a, b

LEMMA LineOfQueued ==
  ASSUME FilesOK, NEW f \in [Jobs -> JobFile], NEW j \in Queued
  PROVE  /\ LineOf(f, f[j]) \in Seq(Queued)
         /\ \A i \in DOMAIN LineOf(f, f[j]) : SameLane(f[LineOf(f, f[j])[i]], f[j])
         /\ Index(LineOf(f, f[j]), j) \in 1 .. Len(LineOf(f, f[j]))
         /\ LineOf(f, f[j])[Index(LineOf(f, f[j]), j)] = j
<1> DEFINE who == {i \in Queued : SameLane(f[i], f[j])}
           L == InLine(f, who)
<1>1. who \subseteq ToSet(submitted) /\ Ranked(f, who)
  BY QueuedJobs DEF Ranked, JobFile
<1>2. j \in who /\ who \subseteq Queued
  BY DEF SameLane
<1>3. \A i \in who : SameLane(f[i], f[j])
  OBVIOUS
<1> HIDE DEF who
<1>4. L \in Seq(who) /\ \E k \in DOMAIN L : L[k] = j
  BY <1>1, <1>2, LinesInOrder DEF FilesOK
<1> HIDE DEF L
<1>5. L \in Seq(Queued) /\ DOMAIN L = 1 .. Len(L) /\ \A i \in DOMAIN L : L[i] \in who
  BY <1>2, <1>4
<1>6. Index(L, j) \in DOMAIN L /\ L[Index(L, j)] = j
  BY <1>4 DEF Index
<1>7. LineOf(f, f[j]) = L
  BY DEF LineOf, L, who
<1> QED
  BY <1>3, <1>5, <1>6, <1>7

LEMMA RespacedFiles ==
  ASSUME FilesOK, NEW f \in [Jobs -> JobFile], NEW line \in Seq(Queued), Len(line) > 0
  PROVE  /\ Respaced(f, line) \in Partial(JobFile)
         /\ DOMAIN Respaced(f, line) = ToSet(line)
         /\ Repositioned(Respaced(f, line), f)
<1> DEFINE positions == {f[i].position : i \in ToSet(line)}
           base == Min(positions)
           at(i) == base + 2 * (Index(line, i) - 1)
<1>1. ToSet(line) \subseteq Queued /\ ToSet(line) \subseteq Jobs
  BY QueuedJobs DEF ToSet
<1>2. line[1] \in ToSet(line)
  BY DEF ToSet
<1>3. positions \subseteq Nat /\ positions # {}
  BY <1>1, <1>2 DEF JobFile
<1>4. base \in Nat
  <2> HIDE DEF positions
  <2> QED
    BY <1>3, LeastOf
<1>5. \A i \in ToSet(line) : at(i) \in Nat
  <2> HIDE DEF base
  <2> TAKE i \in ToSet(line)
  <2>1. Index(line, i) \in DOMAIN line /\ DOMAIN line = 1 .. Len(line)
    BY IndexOf
  <2>2. Index(line, i) - 1 \in Nat
    BY <2>1
  <2> HIDE DEF at
  <2>3. at(i) = base + 2 * (Index(line, i) - 1)
    BY DEF at
  <2> QED
    BY <1>4, <2>2, <2>3
<1>6. Respaced(f, line) = [i \in ToSet(line) |-> [f[i] EXCEPT !.position = at(i)]]
  BY DEF Respaced
<1> HIDE DEF at
<1>7. \A i \in ToSet(line) : /\ [f[i] EXCEPT !.position = at(i)] \in JobFile
                             /\ SameButPosition([f[i] EXCEPT !.position = at(i)], f[i])
  <2> TAKE i \in ToSet(line)
  <2>1. f[i] \in JobFile /\ at(i) \in Nat
    BY <1>1, <1>5
  <2> QED
    BY <2>1 DEF JobFile, SameButPosition
<1>8. DOMAIN Respaced(f, line) = ToSet(line) /\ Respaced(f, line) \in [ToSet(line) -> JobFile]
  BY <1>6, <1>7
<1>9. Respaced(f, line) \in Partial(JobFile)
  BY <1>1, <1>8 DEF Partial
<1>10. Repositioned(Respaced(f, line), f)
  BY <1>1, <1>6, <1>7, <1>8 DEF Repositioned
<1> QED
  BY <1>8, <1>9, <1>10

LEMMA WithPartial ==
  ASSUME NEW T, NEW m \in Partial(T), NEW new \in Partial(T)
  PROVE  /\ With(m, new) \in Partial(T) /\ DOMAIN With(m, new) = DOMAIN m
         /\ \A i \in DOMAIN m : With(m, new)[i] = IF i \in DOMAIN new THEN new[i] ELSE m[i]
<1>1. /\ \A i \in DOMAIN new : new[i] \in T
      /\ DOMAIN m \subseteq Jobs /\ \A i \in DOMAIN m : m[i] \in T
  BY PartialIs
<1>2. With(m, new) \in [DOMAIN m -> T] /\ DOMAIN m \in SUBSET Jobs
  BY <1>1 DEF With
<1>3. With(m, new) \in Partial(T)
  BY <1>2 DEF Partial
<1> QED
  BY <1>3 DEF With

LEMMA SwappedFiles ==
  ASSUME FilesOK, NEW f \in [Jobs -> JobFile], NEW line \in Seq(Queued), Len(line) > 0,
         NEW j \in Queued, NEW i \in Queued
  PROVE  /\ Swapped(f, line, j, i) \in Partial(JobFile)
         /\ Repositioned(Swapped(f, line, j, i), f)
<1> DEFINE r == Respaced(f, line)
           g == IF f[j].position = f[i].position THEN With(f, r) ELSE f
           one == [g[i] EXCEPT !.position = g[j].position]
           two == [g[j] EXCEPT !.position = g[i].position]
           swap == Plus(Only(i, one), j, two)
<1>1. r \in Partial(JobFile) /\ Repositioned(r, f)
  BY RespacedFiles
<1>2. i \in Jobs /\ j \in Jobs
  BY QueuedJobs
<1> HIDE DEF r
<1>3. /\ With(f, r) \in [Jobs -> JobFile]
      /\ \A x \in Jobs : With(f, r)[x] = IF x \in DOMAIN r THEN r[x] ELSE f[x]
  BY <1>1, WithFiles
<1>4. g \in [Jobs -> JobFile] /\ \A x \in Jobs : SameButPosition(g[x], f[x])
  BY <1>1, <1>3 DEF Repositioned, SameButPosition
<1> HIDE DEF g
<1>5. /\ one \in JobFile /\ SameButPosition(one, f[i])
      /\ two \in JobFile /\ SameButPosition(two, f[j])
  <2>1. /\ g[i] \in JobFile /\ g[j] \in JobFile
        /\ SameButPosition(g[i], f[i]) /\ SameButPosition(g[j], f[j])
    BY <1>2, <1>4
  <2>2. g[i].position \in Nat /\ g[j].position \in Nat
    BY <2>1 DEF JobFile
  <2> QED
    BY <2>1, <2>2 DEF JobFile, SameButPosition
<1> HIDE DEF one, two
<1>6. Only(i, one) \in Partial(JobFile) /\ DOMAIN Only(i, one) = {i} /\ Only(i, one)[i] = one
  BY <1>2, <1>5, OnlyOne
<1>7. /\ swap \in Partial(JobFile) /\ DOMAIN swap = {j} \cup {i}
      /\ swap[j] = two /\ \A x \in {i} \ {j} : swap[x] = one
  <2> DEFINE o == Only(i, one)
  <2>1. \A x \in {i} \ {j} : o[x] = one
    BY <1>6
  <2>2. o \in Partial(JobFile) /\ DOMAIN o = {i}
    BY <1>6
  <2> HIDE DEF o
  <2>3. Plus(o, j, two) \in Partial(JobFile)
    BY <1>2, <1>5, <2>2, OneMore
  <2>4. /\ DOMAIN Plus(o, j, two) = {j} \cup {i} /\ Plus(o, j, two)[j] = two
        /\ \A x \in {i} \ {j} : Plus(o, j, two)[x] = one
    BY <2>1, <2>2 DEF Plus
  <2> QED
    BY <2>3, <2>4 DEF o
<1> HIDE DEF swap
<1>8. Repositioned(swap, f)
  BY <1>5, <1>7 DEF Repositioned
<1>9. /\ With(r, swap) \in Partial(JobFile) /\ DOMAIN With(r, swap) = DOMAIN r
      /\ \A x \in DOMAIN r : With(r, swap)[x] = IF x \in DOMAIN swap THEN swap[x] ELSE r[x]
  BY <1>1, <1>7, WithPartial
<1>10. Repositioned(With(r, swap), f)
  BY <1>1, <1>8, <1>9 DEF Repositioned
<1>11. Swapped(f, line, j, i) = IF g = f THEN swap ELSE With(r, swap)
  BY DEF Swapped, swap, one, two, g, r
<1> QED
  BY <1>7, <1>8, <1>9, <1>10, <1>11

\* What an edit of a job to new writes, whatever was asked for.
LEMMA MovedFiles ==
  ASSUME FilesOK, NEW j \in Queued, NEW new \in JobFile, NEW kinds
  PROVE  /\ Move(j, new, kinds) \in Partial(JobFile)
         /\ Repositioned(Move(j, new, kinds), [job EXCEPT ![j] = new])
<1> DEFINE f == [job EXCEPT ![j] = new]
           line == LineOf(f, new)
           k == Index(line, j)
           M == Move(j, new, kinds)
<1>1. j \in Jobs
  BY QueuedJobs
<1>2. f \in [Jobs -> JobFile] /\ f[j] = new
  BY <1>1 DEF FilesOK
<1>3. M = CASE "first" \in kinds /\ k > 1 -> Respaced(f, <<j>> \o RemoveAt(line, k))
            [] "up" \in kinds /\ k > 1 -> Swapped(f, line, j, line[k - 1])
            [] "down" \in kinds /\ k < Len(line) -> Swapped(f, line, j, line[k + 1])
            [] OTHER -> Only(j, new)
  BY DEF Move
<1> HIDE DEF f
<1>4. line \in Seq(Queued) /\ k \in 1 .. Len(line) /\ Len(line) > 0
  <2>1. LineOf(f, f[j]) = line
    BY <1>2
  <2>2. LineOf(f, f[j]) \in Seq(Queued) /\ Index(LineOf(f, f[j]), j) \in 1 .. Len(LineOf(f, f[j]))
    BY <1>2, LineOfQueued
  <2> HIDE DEF line, k
  <2>3. line \in Seq(Queued) /\ Index(line, j) \in 1 .. Len(line)
    BY <2>1, <2>2
  <2>4. k = Index(line, j)
    BY DEF k
  <2>5. Len(line) \in Nat
    BY <2>3
  <2> QED
    BY <2>3, <2>4, <2>5
<1> HIDE DEF line, k, M
<1> DEFINE front == <<j>> \o RemoveAt(line, k)
<1>5. front \in Seq(Queued) /\ Len(front) > 0
  <2>1. SubSeq(line, 1, k - 1) \in Seq(Queued)
    BY <1>4
  <2>2. SubSeq(line, k + 1, Len(line)) \in Seq(Queued)
    BY <1>4
  <2>3. RemoveAt(line, k) \in Seq(Queued)
    BY <2>1, <2>2, ConcatProperties DEF RemoveAt
  <2>4. <<j>> \in Seq(Queued) /\ Len(<<j>>) = 1
    OBVIOUS
  <2>5. Len(RemoveAt(line, k)) \in Nat
    BY <2>3
  <2> QED
    BY <2>3, <2>4, <2>5, ConcatProperties
<1> HIDE DEF front
<1>6. Respaced(f, front) \in Partial(JobFile) /\ Repositioned(Respaced(f, front), f)
  BY <1>2, <1>5, RespacedFiles
<1>7. k > 1 => /\ Swapped(f, line, j, line[k - 1]) \in Partial(JobFile)
               /\ Repositioned(Swapped(f, line, j, line[k - 1]), f)
  <2> HAVE k > 1
  <2>1. line[k - 1] \in Queued
    BY <1>4
  <2> QED
    BY <1>2, <1>4, <2>1, SwappedFiles
<1>8. k < Len(line) => /\ Swapped(f, line, j, line[k + 1]) \in Partial(JobFile)
                       /\ Repositioned(Swapped(f, line, j, line[k + 1]), f)
  <2> HAVE k < Len(line)
  <2>1. line[k + 1] \in Queued
    BY <1>4
  <2> QED
    BY <1>2, <1>4, <2>1, SwappedFiles
<1>9. Only(j, new) \in Partial(JobFile) /\ Repositioned(Only(j, new), f)
  <2>1. Only(j, new) \in Partial(JobFile) /\ DOMAIN Only(j, new) = {j} /\ Only(j, new)[j] = new
    BY <1>1, OnlyOne
  <2> QED
    BY <1>2, <2>1 DEF Repositioned, SameButPosition
<1>10. M \in Partial(JobFile) /\ Repositioned(M, f)
  BY <1>3, <1>6, <1>7, <1>8, <1>9 DEF front
<1> QED
  BY <1>10 DEF M, f

\* Of other jobs an edit changes the position only, and either it changes no lane and
\* no position or it bumps every revision in the queue.
EditOf(j, m, s) ==
  /\ m \in Partial(JobFile) /\ s \in Partial(StateFile)
  /\ \A i \in DOMAIN m : /\ i \in Queued /\ m[i].prepared = job[i].prepared
                         /\ m[i].eligible \subseteq m[i].prepared
                         /\ i # j => SameButPosition(m[i], job[i])
  /\ \A i \in DOMAIN s : i \in Queued /\ s[i].status = "queued" /\ s[i].revision = state[i].revision + 1
  /\ \/ DOMAIN s = Queued
     \/ \A i \in DOMAIN m : SamePlace(m[i], job[i])

LEMMA BumpedFiles ==
  ASSUME FilesOK, NEW j \in Queued, NEW bumped \in SUBSET Queued
  PROVE  /\ Bump(j, bumped) \in Partial(StateFile) /\ DOMAIN Bump(j, bumped) = bumped
         /\ \A i \in bumped : /\ Bump(j, bumped)[i].status = "queued"
                              /\ Bump(j, bumped)[i].revision = state[i].revision + 1
<1> DEFINE next(i) == IF i = j /\ Active(state[j])
                        THEN [state[i] EXCEPT !.revision = @ + 1, !.update = NoClient, !.live = FALSE]
                        ELSE [state[i] EXCEPT !.revision = @ + 1]
<1>1. \A i \in bumped : /\ next(i) \in StateFile /\ next(i).status = "queued"
                        /\ next(i).revision = state[i].revision + 1
  <2> TAKE i \in bumped
  <2>1. i \in Jobs /\ state[i] \in StateFile /\ state[i].status = "queued"
    BY QueuedJobs DEF FilesOK, Queued
  <2>2. PICK n \in Nat : n = state[i].revision + 1
    BY <2>1 DEF StateFile
  <2> DEFINE one == [state[i] EXCEPT !.revision = n, !.update = NoClient, !.live = FALSE]
             two == [state[i] EXCEPT !.revision = n]
  <2>3. one \in StateFile /\ one.status = "queued" /\ one.revision = n
    BY <2>1 DEF StateFile
  <2>4. two \in StateFile /\ two.status = "queued" /\ two.revision = n
    BY <2>1 DEF StateFile
  <2>5. next(i) = IF i = j /\ Active(state[j]) THEN one ELSE two
    BY <2>2
  <2> HIDE DEF one, two, next
  <2> QED
    BY <2>2, <2>3, <2>4, <2>5
<1>2. Bump(j, bumped) = [i \in bumped |-> next(i)]
  BY DEF Bump
<1> HIDE DEF next
<1>3. Bump(j, bumped) \in [bumped -> StateFile] /\ bumped \in SUBSET Jobs
  BY <1>1, <1>2, QueuedJobs
<1>4. Bump(j, bumped) \in Partial(StateFile)
  BY <1>3 DEF Partial
<1> QED
  BY <1>1, <1>2, <1>4

LEMMA EditsWrite ==
  ASSUME FilesOK, NEW j \in Queued, NEW kinds, NEW servers \in SUBSET job[j].prepared,
         Update(j, kinds, servers)
  PROVE  \/ UNCHANGED files /\ UNCHANGED budget
         \/ Spend("edits") /\ \E m, s : EditOf(j, m, s) /\ Write(m, s)
<1> DEFINE new == Changed(j, kinds, servers)
           f == [job EXCEPT ![j] = new]
           m == Move(j, new, kinds)
           bumped == Bumped(j, m)
           s == Bump(j, bumped)
<1>1. j \in Jobs
  BY QueuedJobs
<1>2. new \in JobFile /\ new.prepared = job[j].prepared /\ new.eligible \subseteq job[j].prepared
  BY <1>1, ChangedFile
<1>3. \/ UNCHANGED files /\ UNCHANGED budget
      \/ Write(m, s) /\ Spend("edits")
  BY DEF Update
<1> HIDE DEF new
<1>4. m \in Partial(JobFile) /\ Repositioned(m, f)
  BY <1>2, MovedFiles
<1>5. f[j] = new /\ \A i \in Jobs : i # j => f[i] = job[i]
  BY <1>1 DEF FilesOK
<1>6. bumped \in SUBSET Queued
  BY DEF Bumped
<1>7. \/ bumped = Queued
      \/ \A i \in DOMAIN m : SamePlace(m[i], job[i])
  BY DEF Bumped
<1> HIDE DEF f, m, bumped
<1>8. /\ s \in Partial(StateFile) /\ DOMAIN s = bumped
      /\ \A i \in bumped : s[i].status = "queued" /\ s[i].revision = state[i].revision + 1
  BY <1>6, BumpedFiles
<1> HIDE DEF s
<1>9. ASSUME NEW i \in DOMAIN m
      PROVE  /\ i \in Queued /\ m[i].prepared = job[i].prepared /\ m[i].eligible \subseteq m[i].prepared
             /\ i # j => SameButPosition(m[i], job[i])
  <2>1. i \in Queued /\ i \in Jobs /\ SameButPosition(m[i], f[i])
    BY <1>4, QueuedJobs DEF Repositioned
  <2>2. m[i].prepared = f[i].prepared /\ m[i].eligible = f[i].eligible
    BY <2>1 DEF SameButPosition
  <2>3. CASE i = j
    BY <1>2, <1>5, <2>1, <2>2, <2>3
  <2>4. CASE i # j
    <3>1. f[i] = job[i] /\ job[i].eligible \subseteq job[i].prepared
      BY <1>5, <2>1, <2>4 DEF FilesOK
    <3> QED
      BY <2>1, <2>2, <3>1
  <2> QED
    BY <2>3, <2>4
<1>10. EditOf(j, m, s)
  BY <1>4, <1>6, <1>7, <1>8, <1>9 DEF EditOf
<1> QED
  BY <1>3, <1>10

(***************************************************************************)
(* The inductive invariant.                                                *)
(***************************************************************************)
Places == [machine: Machines, class: Classes]
Picks == [machine: Machines, others: SUBSET Machines]
RowTypes == [file: JobFile, revision: Nat]
Wishes == [pc: {"idle", "looked", "reserved", "extended", "release"},
           job: Jobs \cup {NoJob}, revision: Nat, want: SUBSET Machines]
Dispatchers == [pc: {"idle", "list", "plan", "mark"}, left: SUBSET Jobs, reading: Jobs \cup {NoJob},
                file: JobFile, rows: Partial(RowTypes), room: Partial(SUBSET Machines),
                drained: SUBSET Machines, plan: Partial(Picks), batch: Partial(Picks)]
Histories == [wrote: SUBSET Jobs, mixed: SUBSET Jobs]
Budgets == [{"edits", "reservations", "recoveries", "batches", "tears", "events"} -> Nat]

PlacedOK ==
  /\ placed \in [Jobs -> Places \cup {NoPlace}]
  /\ \A j \in Jobs : (placed[j] = NoPlace) <=> (state[j].status \notin {"dispatching", "dispatched"})

\* No job is submitted twice.
SubmittedOK ==
  /\ \A k, l \in DOMAIN submitted : submitted[k] = submitted[l] => k = l
  /\ \A j \in ToSet(submitted) : state[j].status # "absent"

\* What the holder of the queue lock has still to write is about jobs that nobody else
\* changes meanwhile, one revision on; where it moves a job, about all that wait.
WritingOK ==
  /\ writing \in [jobs: Partial(JobFile), states: Partial(StateFile)]
  /\ \A i \in DOMAIN writing.jobs :
       /\ i \in Queued /\ writing.jobs[i].prepared = job[i].prepared
       /\ writing.jobs[i].eligible \subseteq writing.jobs[i].prepared
  /\ \A i \in DOMAIN writing.states :
       /\ i \in Queued /\ writing.states[i].status = "queued"
       /\ writing.states[i].revision = state[i].revision + 1
  /\ Queued \subseteq DOMAIN writing.states \/ \A i \in DOMAIN writing.jobs : SamePlace(writing.jobs[i], job[i])

ClientsOK ==
  /\ client \in [Clients -> Wishes]
  /\ \A c \in Clients : client[c].pc # "idle" => client[c].job \in Jobs /\ state[client[c].job].status # "absent"
  /\ \A c \in Clients : client[c].pc = "extended" => client[c].want \subseteq job[client[c].job].prepared

DispatcherOK ==
  /\ dispatcher \in Dispatchers
  /\ DOMAIN dispatcher.plan \subseteq DOMAIN dispatcher.rows
  /\ DOMAIN dispatcher.batch \subseteq DOMAIN dispatcher.rows
  /\ dispatcher.pc # "mark" /\ dispatcher.room = Nothing => dispatcher.plan = Nothing
  /\ dispatcher.pc = "idle" => dispatcher.rows = Nothing
  /\ dispatcher.room # Nothing => dispatcher.pc = "plan" /\ DOMAIN dispatcher.room = DOMAIN dispatcher.rows

\* A job that is still as it was listed is under no placement update.
RowsOK ==
  \A j \in DOMAIN dispatcher.rows :
    /\ state[j].status # "absent" /\ dispatcher.rows[j].revision <= state[j].revision
    /\ dispatcher.rows[j].revision = state[j].revision /\ j \in Queued => ~Active(state[j])

\* While a list is read, the files that it has are those that there are, but for jobs
\* that have been moved meanwhile.
ListsOK ==
  dispatcher.pc = "list" =>
    /\ dispatcher.left \cap DOMAIN dispatcher.rows = {} /\ dispatcher.reading \notin dispatcher.left
    /\ \A j \in Jobs : j \in dispatcher.left \/ j = dispatcher.reading => state[j].status # "absent"
    /\ \A j \in DOMAIN dispatcher.rows \ history.mixed : SamePlace(dispatcher.rows[j].file, job[j])
    /\ dispatcher.reading \in Jobs \ history.mixed => SamePlace(dispatcher.file, job[dispatcher.reading])

\* A job waits where it was listed, or every job that was listed is behind its revision
\* or about to be.
Elsewhere(i) ==
  \A k \in DOMAIN dispatcher.rows \cap Queued :
    dispatcher.rows[k].revision < state[k].revision \/ (i \in history.wrote /\ k \in DOMAIN writing.states)
PlacesOK ==
  \A i \in DOMAIN dispatcher.rows \ history.mixed : SamePlace(dispatcher.rows[i].file, job[i]) \/ Elsewhere(i)

OrderKnown == history \in Histories /\ ListsOK /\ PlacesOK

\* What is planned leaves the machines alone that a job could use that is not planned
\* and was listed before it in its lane.
Respects(plan) ==
  \A j \in DOMAIN plan : \A i \in DOMAIN dispatcher.rows \ DOMAIN plan :
    dispatcher.rows[i].file.class = dispatcher.rows[j].file.class /\ Before(RowFiles, i, j) =>
      plan[j].machine \notin Usable(i) /\ plan[j].others \cap Usable(i) = {}
PlansOK ==
  /\ dispatcher.pc = "plan" => Respects(dispatcher.plan)
  /\ dispatcher.pc = "mark" =>
       /\ Respects(dispatcher.batch)
       /\ \A j \in DOMAIN dispatcher.plan : j \in DOMAIN dispatcher.batch /\ dispatcher.plan[j] = dispatcher.batch[j]

IInv ==
  /\ FilesOK /\ PlacedOK /\ SubmittedOK /\ WritingOK /\ ClientsOK /\ budget \in Budgets
  /\ DispatcherOK /\ RowsOK /\ OrderKnown /\ PlansOK

LEMMA InvariantIsTyped ==
  ASSUME IInv
  PROVE  TypeOK
<1>1. DOMAIN writing.jobs \subseteq Jobs /\ DOMAIN writing.states \subseteq Jobs
  BY PartialIs DEF IInv, WritingOK
<1>2. DOMAIN dispatcher.plan \subseteq Jobs /\ DOMAIN dispatcher.rows \subseteq Jobs
  BY PartialIs DEF IInv, DispatcherOK, Dispatchers
<1>3. dispatcher.pc \in {"idle", "list", "plan", "mark"}
  BY DEF IInv, DispatcherOK, Dispatchers
<1> QED
  BY <1>1, <1>2, <1>3 DEF IInv, TypeOK, FilesOK, PlacedOK, ClientsOK, Wishes, Budgets, OrderKnown, Histories

LEMMA Idling ==
  Idle \in Dispatchers /\ Idle.rows = Nothing /\ Idle.room = Nothing /\ Idle.plan = Nothing /\ Idle.batch = Nothing /\ Idle.pc = "idle"
<1>1. Blank \in JobFile
  BY DEF Blank, JobFile, Classes, Priorities
<1>2. /\ Nothing \in Partial(RowTypes) /\ Nothing \in Partial(SUBSET Machines)
      /\ Nothing \in Partial(Picks)
  BY NothingIsPartial
<1> HIDE DEF Nothing, Blank
<1> QED
  BY <1>1, <1>2 DEF Idle, Dispatchers

\* No job is submitted, no command runs and nothing is listed when the queue starts:
\* its first state satisfies the invariant.
THEOREM Starts ==
  Init => IInv
<1> SUFFICES ASSUME Init PROVE IInv
  OBVIOUS
<1> USE QueueAssumptions DEF Init
<1>1. FilesOK
  <2>1. Blank \in JobFile /\ Blank.eligible \subseteq Blank.prepared
    BY DEF Blank, JobFile, Classes, Priorities
  <2>2. Absent \in StateFile /\ ~Active(Absent)
    BY DEF Absent, StateFile, Active
  <2>3. \A j \in Jobs : Absent.status = "absent"
    BY DEF Absent
  <2> QED
    BY <2>1, <2>2, <2>3 DEF FilesOK
<1>2. PlacedOK
  BY DEF PlacedOK, Absent
<1>3. SubmittedOK
  BY DEF SubmittedOK, ToSet
<1>4. WritingOK
  <2>1. Nothing \in Partial(JobFile) /\ Nothing \in Partial(StateFile) /\ DOMAIN Nothing = {}
    BY NothingIsPartial
  <2>2. writing.jobs = Nothing /\ writing.states = Nothing /\ LockFree
    BY DEF NothingToWrite, LockFree
  <2>3. writing \in [jobs: Partial(JobFile), states: Partial(StateFile)]
    BY <2>1 DEF NothingToWrite
  <2> QED
    BY <2>1, <2>2, <2>3 DEF WritingOK
<1>5. ClientsOK
  BY DEF ClientsOK, NoRequest, Wishes
<1>6. budget \in Budgets
  <2>1. \A what \in {"edits", "reservations", "recoveries", "batches", "tears", "events"} : budget[what] \in Nat
    OBVIOUS
  <2>2. budget = [what \in {"edits", "reservations", "recoveries", "batches", "tears", "events"} |-> budget[what]]
    OBVIOUS
  <2> QED
    BY <2>1, <2>2 DEF Budgets
<1>7. DispatcherOK
  <2>1. DOMAIN Nothing = {}
    BY NothingIsPartial
  <2> QED
    BY <2>1, Idling DEF DispatcherOK
<1>8. DOMAIN dispatcher.rows = {} /\ dispatcher.pc = "idle"
  BY NothingIsPartial, Idling
<1>9. RowsOK /\ OrderKnown /\ PlansOK
  <2>1. history \in Histories
    BY DEF NoHistory, Histories
  <2> QED
    BY <1>8, <2>1 DEF RowsOK, OrderKnown, ListsOK, PlacesOK, PlansOK
<1> QED
  BY <1>1, <1>2, <1>3, <1>4, <1>5, <1>6, <1>7, <1>9 DEF IInv

(***************************************************************************)
(* What a step does with the files of the jobs that there are already, and *)
(* what then stays true of what others have seen of them.                  *)
(***************************************************************************)
Lasts ==
  \A j \in Jobs : state[j].status # "absent" =>
    state'[j].status # "absent" /\ job[j].prepared \subseteq job'[j].prepared

Ages ==
  \A j \in Jobs : state[j].status # "absent" =>
    /\ state'[j].revision >= state[j].revision
    /\ state'[j].status = "queued" => state[j].status = "queued"
    /\ state'[j].revision = state[j].revision /\ Active(state'[j]) => Active(state[j])

Orderly ==
  /\ \A j \in Jobs : state[j].status # "absent" => SamePlace(job'[j], job[j])
  /\ LockFree \/ UNCHANGED files

Appends == submitted' = submitted \/ \E j \in Jobs : state[j].status = "absent" /\ submitted' = Append(submitted, j)

LEMMA ClientsKeep ==
  ASSUME IInv, Lasts, client' \in [Clients -> Wishes],
         \A c \in Clients : \/ client'[c] = client[c]
                            \/ client'[c].pc = "idle"
                            \/ /\ client'[c].job \in Jobs /\ state[client'[c].job].status # "absent"
                               /\ client'[c].pc = "extended" => client'[c].want \subseteq job'[client'[c].job].prepared
  PROVE  ClientsOK'
<1>1. ASSUME NEW c \in Clients
      PROVE  /\ client'[c].pc # "idle" => client'[c].job \in Jobs /\ state'[client'[c].job].status # "absent"
             /\ client'[c].pc = "extended" => client'[c].want \subseteq job'[client'[c].job].prepared
  <2>1. CASE client'[c] = client[c]
    <3>1. client[c].pc # "idle" => client[c].job \in Jobs /\ state[client[c].job].status # "absent"
      BY DEF IInv, ClientsOK
    <3>2. client[c].pc = "extended" => client[c].want \subseteq job[client[c].job].prepared
      BY DEF IInv, ClientsOK
    <3> QED
      BY <2>1, <3>1, <3>2 DEF Lasts
  <2>2. CASE client'[c].pc = "idle"
    BY <2>2
  <2>3. CASE /\ client'[c].job \in Jobs /\ state[client'[c].job].status # "absent"
             /\ client'[c].pc = "extended" => client'[c].want \subseteq job'[client'[c].job].prepared
    BY <2>3 DEF Lasts
  <2> QED
    BY <2>1, <2>2, <2>3
<1> QED
  BY <1>1 DEF ClientsOK

LEMMA RowsAreJobs ==
  ASSUME IInv
  PROVE  /\ DOMAIN dispatcher.rows \subseteq Jobs /\ DOMAIN dispatcher.rows \subseteq ToSet(submitted)
         /\ \A j \in DOMAIN dispatcher.rows : dispatcher.rows[j].file \in JobFile /\ dispatcher.rows[j].revision \in Nat
<1>1. dispatcher.rows \in Partial(RowTypes)
  BY DEF IInv, DispatcherOK, Dispatchers
<1>2. DOMAIN dispatcher.rows \subseteq Jobs /\ \A j \in DOMAIN dispatcher.rows : dispatcher.rows[j] \in RowTypes
  BY <1>1, PartialIs
<1>3. \A j \in DOMAIN dispatcher.rows : j \in ToSet(submitted)
  BY <1>2 DEF IInv, RowsOK, FilesOK
<1> QED
  BY <1>2, <1>3 DEF RowTypes

LEMMA IndexStands ==
  ASSUME IInv, Appends, NEW i \in ToSet(submitted)
  PROVE  Index(submitted', i) = Index(submitted, i)
<1>1. CASE submitted' = submitted
  BY <1>1
<1>2. CASE \E x \in Jobs : state[x].status = "absent" /\ submitted' = Append(submitted, x)
  <2>1. PICK x \in Jobs : state[x].status = "absent" /\ submitted' = Append(submitted, x)
    BY <1>2
  <2>2. PICK s \in Seq(Jobs) : s = submitted
    BY DEF IInv, FilesOK
  <2>3. /\ \A k, l \in DOMAIN s : s[k] = s[l] => k = l
        /\ i \in ToSet(s) /\ x \notin ToSet(s)
    BY <2>1, <2>2 DEF IInv, SubmittedOK
  <2>4. PICK k \in DOMAIN s : s[k] = i
    BY <2>3 DEF ToSet
  <2>5. PICK t : t = Append(s, x)
    OBVIOUS
  <2>6. /\ DOMAIN s = 1 .. Len(s) /\ DOMAIN t = 1 .. Len(s) + 1 /\ Len(s) \in Nat
        /\ \A n \in DOMAIN s : t[n] = s[n]
        /\ t[Len(s) + 1] = x
    BY <2>1, <2>2, <2>5
  <2>7. i # x
    BY <2>3
  <2>8. ASSUME NEW n \in DOMAIN t, t[n] = i PROVE n = k
    <3>1. n # Len(s) + 1
      BY <2>6, <2>7, <2>8
    <3>2. n \in DOMAIN s
      BY <2>6, <3>1
    <3>3. s[n] = i
      BY <2>6, <2>8, <3>2
    <3> QED
      BY <2>3, <2>4, <3>2, <3>3
  <2>9. k \in DOMAIN t /\ t[k] = i
    BY <2>4, <2>6
  <2>10. Index(t, i) = k
    BY <2>8, <2>9 DEF Index
  <2>11. Index(s, i) = k
    BY <2>3, <2>4 DEF Index
  <2> QED
    BY <2>1, <2>2, <2>5, <2>10, <2>11
<1> QED
  BY <1>1, <1>2 DEF Appends

LEMMA PlanKeeps ==
  ASSUME IInv, FilesOK', Lasts, Ages, Appends, dispatcher' \in Dispatchers,
         \A part \in {"pc", "rows", "room", "drained", "batch"} : dispatcher'[part] = dispatcher[part],
         \/ dispatcher'.plan = dispatcher.plan
         \/ /\ dispatcher.pc = "mark" /\ DOMAIN dispatcher'.plan \subseteq DOMAIN dispatcher.plan
            /\ \A i \in DOMAIN dispatcher'.plan : dispatcher'.plan[i] = dispatcher.plan[i]
  PROVE  DispatcherOK' /\ RowsOK' /\ PlansOK'
<1>0. /\ dispatcher'.pc = dispatcher.pc /\ dispatcher'.rows = dispatcher.rows /\ dispatcher'.room = dispatcher.room
      /\ dispatcher'.drained = dispatcher.drained /\ dispatcher'.batch = dispatcher.batch
  OBVIOUS
<1>1. DispatcherOK'
  BY <1>0 DEF IInv, DispatcherOK
<1>2. \A j \in DOMAIN dispatcher.rows :
        /\ j \in Jobs /\ state[j].status # "absent"
        /\ dispatcher.rows[j].revision \in Nat /\ state[j].revision \in Nat /\ state'[j].revision \in Nat
        /\ dispatcher.rows[j].revision <= state[j].revision
  BY RowsAreJobs DEF IInv, RowsOK, FilesOK, StateFile
<1>3. ASSUME NEW j \in DOMAIN dispatcher.rows
      PROVE  /\ state'[j].status # "absent" /\ dispatcher.rows[j].revision <= state'[j].revision
             /\ dispatcher.rows[j].revision = state'[j].revision =>
                  state[j].revision = state'[j].revision /\ dispatcher.rows[j].revision = state[j].revision
  <2>1. state'[j].status # "absent" /\ state'[j].revision >= state[j].revision
    BY <1>2 DEF Lasts, Ages
  <2> QED
    BY <1>2, <2>1
<1>4. ASSUME NEW j \in DOMAIN dispatcher.rows, state'[j].status = "queued" PROVE j \in Queued
  BY <1>2, <1>4 DEF Ages, Queued
<1>5. RowsOK'
  <2>1. ASSUME NEW j \in DOMAIN dispatcher.rows, dispatcher.rows[j].revision = state'[j].revision,
               state'[j].status = "queued"
        PROVE  ~Active(state'[j])
    <3>1. j \in Queued /\ ~Active(state[j])
      BY <1>3, <1>4, <2>1 DEF IInv, RowsOK
    <3> QED
      BY <1>2, <1>3, <2>1, <3>1 DEF Ages
  <2> QED
    BY <1>0, <1>3, <2>1 DEF RowsOK, Queued
<1>7. \A i, j \in DOMAIN dispatcher.rows : Before(RowFiles, i, j)' <=> Before(RowFiles, i, j)
  <2> TAKE i, j \in DOMAIN dispatcher.rows
  <2>1. Index(submitted', i) = Index(submitted, i) /\ Index(submitted', j) = Index(submitted, j)
    BY RowsAreJobs, IndexStands
  <2>2. RowFiles' = RowFiles
    BY <1>0 DEF RowFiles
  <2> QED
    BY <2>1, <2>2 DEF Before
<1>8. RowFiles' = RowFiles /\ \A i \in DOMAIN dispatcher.rows : Usable(i)' = Usable(i)
  BY <1>0 DEF RowFiles, Usable
<1>9. ASSUME dispatcher.pc = "plan" PROVE Respects(dispatcher.plan)'
  <2>1. Respects(dispatcher.plan) /\ DOMAIN dispatcher.plan \subseteq DOMAIN dispatcher.rows
    BY <1>9 DEF IInv, PlansOK, DispatcherOK
  <2>2. dispatcher'.plan = dispatcher.plan
    BY <1>9
  <2> QED
    BY <1>0, <1>7, <1>8, <2>1, <2>2 DEF Respects
<1>10. ASSUME dispatcher.pc = "mark" PROVE Respects(dispatcher.batch)'
  <2>1. Respects(dispatcher.batch) /\ DOMAIN dispatcher.batch \subseteq DOMAIN dispatcher.rows
    BY <1>10 DEF IInv, PlansOK, DispatcherOK
  <2> QED
    BY <1>0, <1>7, <1>8, <2>1 DEF Respects
<1>11. PlansOK'
  BY <1>0, <1>9, <1>10 DEF IInv, PlansOK
<1> QED
  BY <1>1, <1>5, <1>11

LEMMA RowsKeep ==
  ASSUME IInv, FilesOK', Lasts, Ages, Appends, UNCHANGED dispatcher
  PROVE  DispatcherOK' /\ RowsOK' /\ PlansOK'
<1>1. dispatcher' \in Dispatchers
  BY DEF IInv, DispatcherOK
<1> QED
  BY <1>1, PlanKeeps

LEMMA HeldFiles ==
  ASSUME LockFree
  PROVE  writing.jobs = Nothing /\ writing.states = Nothing /\ DOMAIN writing.jobs = {} /\ DOMAIN writing.states = {}
BY NothingIsPartial DEF LockFree, NothingToWrite

\* Who leaves the places of all jobs as they are leaves the list as good as it is.
LEMMA PlacesKeep ==
  ASSUME IInv, FilesOK', Lasts, Ages, Orderly, UNCHANGED history,
         \A part \in {"pc", "left", "reading", "file", "rows"} : dispatcher'[part] = dispatcher[part]
  PROVE  OrderKnown'
<1>0. /\ dispatcher'.pc = dispatcher.pc /\ dispatcher'.left = dispatcher.left /\ dispatcher'.reading = dispatcher.reading
      /\ dispatcher'.file = dispatcher.file /\ dispatcher'.rows = dispatcher.rows
  OBVIOUS
<1>1. history' \in Histories
  BY DEF IInv, OrderKnown
<1>2. \A j \in DOMAIN dispatcher.rows :
        j \in Jobs /\ state[j].status # "absent" /\ dispatcher.rows[j].revision \in Nat /\ state[j].revision \in Nat
  BY RowsAreJobs DEF IInv, RowsOK, FilesOK, StateFile
<1>3. \A j \in Jobs : state[j].status # "absent" => SamePlace(job'[j], job[j]) /\ state'[j].status # "absent"
  BY DEF Orderly, Lasts
<1>4. ListsOK'
  <2> SUFFICES ASSUME dispatcher.pc = "list"
               PROVE  /\ \A j \in DOMAIN dispatcher.rows \ history.mixed : SamePlace(dispatcher.rows[j].file, job'[j])
                      /\ dispatcher.reading \in Jobs \ history.mixed =>
                           SamePlace(dispatcher.file, job'[dispatcher.reading])
    BY <1>0, <1>3 DEF IInv, OrderKnown, ListsOK
  <2>1. ASSUME NEW j \in DOMAIN dispatcher.rows \ history.mixed
        PROVE  SamePlace(dispatcher.rows[j].file, job'[j])
    <3>1. SamePlace(dispatcher.rows[j].file, job[j]) /\ SamePlace(job'[j], job[j])
      BY <1>2, <1>3 DEF IInv, OrderKnown, ListsOK
    <3> QED
      BY <3>1 DEF SamePlace, SameLane
  <2>2. ASSUME dispatcher.reading \in Jobs \ history.mixed
        PROVE  SamePlace(dispatcher.file, job'[dispatcher.reading])
    <3>1. /\ SamePlace(dispatcher.file, job[dispatcher.reading])
          /\ SamePlace(job'[dispatcher.reading], job[dispatcher.reading])
      BY <1>3, <2>2 DEF IInv, OrderKnown, ListsOK
    <3> QED
      BY <3>1 DEF SamePlace, SameLane
  <2> QED
    BY <2>1, <2>2
<1>5. PlacesOK'
  <2> SUFFICES ASSUME NEW i \in DOMAIN dispatcher.rows \ history.mixed
               PROVE  SamePlace(dispatcher.rows[i].file, job'[i]) \/ Elsewhere(i)'
    BY <1>0 DEF PlacesOK
  <2>1. CASE SamePlace(dispatcher.rows[i].file, job[i])
    <3>1. SamePlace(job'[i], job[i])
      BY <1>2, <1>3
    <3> QED
      BY <2>1, <3>1 DEF SamePlace, SameLane
  <2>2. CASE Elsewhere(i)
    <3> SUFFICES ASSUME NEW k \in DOMAIN dispatcher.rows, state'[k].status = "queued"
                 PROVE  dispatcher.rows[k].revision < state'[k].revision
                        \/ (i \in history.wrote /\ k \in DOMAIN writing'.states)
      BY <1>0 DEF Elsewhere, Queued
    <3>1. /\ k \in Queued /\ state'[k].revision >= state[k].revision
      BY <1>2 DEF Ages, Queued
    <3>2. \/ dispatcher.rows[k].revision < state[k].revision
          \/ i \in history.wrote /\ k \in DOMAIN writing.states
      BY <2>2, <3>1 DEF Elsewhere
    <3>3. CASE LockFree
      <4>1. dispatcher.rows[k].revision < state[k].revision
        BY <3>2, <3>3, HeldFiles
      <4>2. state'[k].revision \in Nat
        BY <1>2 DEF FilesOK, StateFile
      <4> QED
        BY <1>2, <3>1, <4>1, <4>2
    <3>4. CASE UNCHANGED files
      BY <3>2, <3>4 DEF files
    <3> QED
      BY <3>3, <3>4 DEF Orderly
  <2> QED
    BY <2>1, <2>2 DEF IInv, OrderKnown, PlacesOK
<1> QED
  BY <1>1, <1>4, <1>5 DEF OrderKnown

LEMMA FilesAlone ==
  ASSUME IInv, UNCHANGED <<files, placed, submitted>>
  PROVE  FilesOK' /\ PlacedOK' /\ SubmittedOK' /\ WritingOK' /\ Lasts /\ Ages /\ Orderly /\ Appends
<1> USE DEF files
<1>1. FilesOK' /\ PlacedOK' /\ SubmittedOK'
  BY DEF IInv, FilesOK, PlacedOK, SubmittedOK
<1>2. WritingOK'
  BY DEF IInv, WritingOK, LockFree, Queued
<1>3. Lasts /\ Orderly /\ Appends
  BY DEF Lasts, Orderly, Appends, SamePlace, SameLane
<1>4. Ages
  BY DEF IInv, FilesOK, StateFile, Ages
<1> QED
  BY <1>1, <1>2, <1>3, <1>4

LEMMA Spending ==
  ASSUME IInv, NEW what \in {"edits", "reservations", "recoveries", "batches", "tears", "events"}, Spend(what)
  PROVE  budget' \in Budgets
<1>1. budget \in [{"edits", "reservations", "recoveries", "batches", "tears", "events"} -> Nat]
  BY DEF IInv, Budgets
<1>2. PICK m \in Nat, n \in Nat : m = budget[what] - 1 /\ n = budget["events"] - 1
  BY <1>1 DEF Spend
<1>3. \/ budget' = [budget EXCEPT ![what] = m, !["events"] = n]
      \/ budget' = [budget EXCEPT !["events"] = n - 1]
  BY <1>1, <1>2 DEF Spend
<1> QED
  BY <1>1, <1>2, <1>3 DEF Spend, Budgets

(***************************************************************************)
(* The steps of the dispatcher that no file notices.                       *)
(***************************************************************************)
LEMMA ListKeeps ==
  ASSUME IInv, List
  PROVE  IInv'
<1>1. UNCHANGED <<files, placed, submitted, client>>
  BY DEF List, files
<1>2. FilesOK' /\ PlacedOK' /\ SubmittedOK' /\ WritingOK' /\ ClientsOK' /\ budget' \in Budgets
  <2>1. budget' \in Budgets
    BY Spending DEF List
  <2>2. ClientsOK'
    BY <1>1 DEF IInv, ClientsOK, files
  <2> QED
    BY <1>1, <2>1, <2>2, FilesAlone
<1>3. dispatcher' = [Idle EXCEPT !.pc = "list", !.left = Queued]
  BY DEF List, Runs
<1>4. Queued \in SUBSET Jobs
  BY DEF Queued
<1>5. /\ dispatcher' \in Dispatchers /\ dispatcher'.pc = "list" /\ dispatcher'.plan = Nothing
      /\ dispatcher'.rows = Nothing /\ dispatcher'.room = Nothing /\ dispatcher'.batch = Nothing
  BY <1>3, <1>4, Idling DEF Dispatchers
<1>6. DOMAIN Nothing = {}
  BY NothingIsPartial
<1>7. DispatcherOK'
  BY <1>5 DEF DispatcherOK
<1>8. RowsOK' /\ PlansOK'
  BY <1>5, <1>6 DEF RowsOK, PlansOK
<1>9. dispatcher'.left = Queued /\ dispatcher'.reading = NoJob
  BY <1>3 DEF Idle
<1>10. history' \in Histories
  BY DEF List, IInv, OrderKnown, Histories
<1>11. OrderKnown'
  BY <1>1, <1>4, <1>5, <1>6, <1>9, <1>10, QueueAssumptions DEF OrderKnown, ListsOK, PlacesOK, Queued, files
<1> QED
  BY <1>2, <1>7, <1>8, <1>11 DEF IInv

LEMMA ReadJobKeeps ==
  ASSUME IInv, ReadJob
  PROVE  IInv'
<1>1. UNCHANGED <<files, placed, submitted, client, history, budget>>
  BY DEF ReadJob, Users, files
<1>2. FilesOK' /\ PlacedOK' /\ SubmittedOK' /\ WritingOK' /\ ClientsOK' /\ budget' \in Budgets
  <2>1. ClientsOK' /\ budget' \in Budgets
    BY <1>1 DEF IInv, ClientsOK, files
  <2> QED
    BY <1>1, <2>1, FilesAlone
<1>3. PICK j \in dispatcher.left :
        dispatcher' = [dispatcher EXCEPT !.left = @ \ {j}, !.reading = j, !.file = job[j]]
  BY DEF ReadJob, Runs
<1>4. j \in Jobs /\ dispatcher \in Dispatchers /\ dispatcher.pc = "list"
  BY DEF IInv, DispatcherOK, Dispatchers, ReadJob, On
<1>5. job[j] \in JobFile
  BY <1>4 DEF IInv, FilesOK
<1>6. /\ dispatcher' \in Dispatchers /\ dispatcher'.pc = dispatcher.pc /\ dispatcher'.plan = dispatcher.plan
      /\ dispatcher'.rows = dispatcher.rows /\ dispatcher'.room = dispatcher.room
      /\ dispatcher'.batch = dispatcher.batch
  BY <1>3, <1>4, <1>5 DEF Dispatchers
<1>7. DispatcherOK'
  BY <1>6 DEF IInv, DispatcherOK
<1>8. RowsOK' /\ PlansOK'
  BY <1>1, <1>4, <1>6 DEF IInv, RowsOK, PlansOK, Queued, files
<1>9. /\ dispatcher'.left = dispatcher.left \ {j} /\ dispatcher'.reading = j /\ dispatcher'.file = job[j]
      /\ UNCHANGED <<job, state, writing, history>>
  BY <1>1, <1>3, <1>4 DEF Dispatchers, files
<1>10. ListsOK'
  <2>1. ListsOK /\ SamePlace(job[j], job[j])
    BY DEF IInv, OrderKnown, SamePlace, SameLane
  <2> QED
    BY <1>4, <1>6, <1>9, <2>1 DEF ListsOK
<1>11. OrderKnown'
  BY <1>6, <1>9, <1>10 DEF IInv, OrderKnown, PlacesOK, Elsewhere, Queued
<1> QED
  BY <1>2, <1>7, <1>8, <1>11 DEF IInv

LEMMA ReadStateKeeps ==
  ASSUME IInv, ReadState
  PROVE  IInv'
<1> DEFINE j == dispatcher.reading
           rows == IF Listed(state[j]) THEN Plus(dispatcher.rows, j, Row(dispatcher.file, state[j])) ELSE dispatcher.rows
<1>1. UNCHANGED <<files, placed, submitted, client, history, budget>>
  BY DEF ReadState, Users, files
<1>2. FilesOK' /\ PlacedOK' /\ SubmittedOK' /\ WritingOK' /\ ClientsOK' /\ budget' \in Budgets
  <2>1. ClientsOK' /\ budget' \in Budgets
    BY <1>1 DEF IInv, ClientsOK, files
  <2> QED
    BY <1>1, <2>1, FilesAlone
<1>3. dispatcher' = [dispatcher EXCEPT !.rows = rows, !.reading = NoJob, !.file = Blank,
                                       !.pc = IF dispatcher.left = {} THEN "plan" ELSE "list"]
  BY DEF ReadState, Runs
<1>4. j \in Jobs /\ dispatcher \in Dispatchers /\ dispatcher.pc = "list"
  BY DEF IInv, DispatcherOK, Dispatchers, ReadState, On
<1>5. state[j].revision \in Nat /\ dispatcher.file \in JobFile /\ dispatcher.rows \in Partial(RowTypes)
  BY <1>4 DEF IInv, FilesOK, StateFile, Dispatchers
<1>6. Row(dispatcher.file, state[j]) \in RowTypes
  BY <1>5 DEF Row, RowTypes
<1>7. /\ rows \in Partial(RowTypes) /\ DOMAIN dispatcher.rows \subseteq DOMAIN rows
      /\ \A i \in DOMAIN rows : \/ i \in DOMAIN dispatcher.rows /\ rows[i] = dispatcher.rows[i]
                                \/ /\ i = j /\ Listed(state[j]) /\ rows[i].revision = state[j].revision
                                   /\ rows[i].file = dispatcher.file
  <2>1. CASE Listed(state[j])
    <3>1. Plus(dispatcher.rows, j, Row(dispatcher.file, state[j])) \in Partial(RowTypes)
      BY <1>4, <1>5, <1>6, OneMore
    <3> QED
      BY <2>1, <3>1 DEF Plus, Row
  <2>2. CASE ~Listed(state[j])
    BY <1>5, <2>2
  <2> QED
    BY <2>1, <2>2
<1> HIDE DEF rows, j
<1>8. Blank \in JobFile
  BY <1>4 DEF IInv, DispatcherOK, Blank, JobFile, Classes, Priorities
<1>9. /\ dispatcher' \in Dispatchers /\ dispatcher'.pc \in {"plan", "list"} /\ dispatcher'.plan = dispatcher.plan
      /\ dispatcher'.rows = rows /\ dispatcher'.room = dispatcher.room /\ dispatcher'.batch = dispatcher.batch
  <2> HIDE DEF Blank
  <2> QED
    BY <1>3, <1>4, <1>7, <1>8 DEF Dispatchers
<1>10. dispatcher.plan = Nothing /\ dispatcher.room = Nothing /\ DOMAIN Nothing = {}
  BY <1>4, NothingIsPartial DEF IInv, DispatcherOK
<1>11. DispatcherOK'
  BY <1>7, <1>8, <1>9, <1>10 DEF IInv, DispatcherOK
<1>12. RowsOK'
  <2> SUFFICES ASSUME NEW i \in DOMAIN rows
               PROVE  /\ state[i].status # "absent" /\ rows[i].revision <= state[i].revision
                      /\ rows[i].revision = state[i].revision /\ i \in Queued => ~Active(state[i])
    BY <1>1, <1>9 DEF RowsOK, Queued, files
  <2>1. CASE i \in DOMAIN dispatcher.rows /\ rows[i] = dispatcher.rows[i]
    BY <2>1 DEF IInv, RowsOK
  <2>2. CASE i = j /\ Listed(state[j]) /\ rows[i].revision = state[j].revision
    BY <1>5, <2>2 DEF Listed
  <2> QED
    BY <1>7, <2>1, <2>2
<1>13. PlansOK'
  BY <1>8, <1>9, <1>10 DEF PlansOK, Respects
<1>14. /\ dispatcher'.left = dispatcher.left /\ dispatcher'.reading = NoJob
       /\ UNCHANGED <<job, state, writing, history>>
  BY <1>1, <1>3, <1>4 DEF Dispatchers, files
<1>15. DOMAIN rows \subseteq DOMAIN dispatcher.rows \cup {j}
  BY <1>7
<1>16. ASSUME NEW i \in DOMAIN rows \ history.mixed PROVE SamePlace(rows[i].file, job[i])
  <2>1. \A k \in DOMAIN dispatcher.rows \ history.mixed : SamePlace(dispatcher.rows[k].file, job[k])
    BY <1>4 DEF IInv, OrderKnown, ListsOK
  <2>2. j \notin history.mixed => SamePlace(dispatcher.file, job[j])
    BY <1>4 DEF IInv, OrderKnown, ListsOK, j
  <2> QED
    BY <1>7, <1>16, <2>1, <2>2
<1>17. ListsOK'
  <2>1. /\ dispatcher.left \cap DOMAIN dispatcher.rows = {} /\ j \notin dispatcher.left
        /\ dispatcher.left \subseteq Jobs /\ NoJob \notin Jobs
        /\ \A i \in dispatcher.left : state[i].status # "absent"
    BY <1>4, QueueAssumptions DEF IInv, OrderKnown, ListsOK, Dispatchers, j
  <2> QED
    BY <1>9, <1>14, <1>15, <1>16, <2>1 DEF ListsOK
<1>18. OrderKnown'
  BY <1>9, <1>14, <1>16, <1>17 DEF IInv, OrderKnown, PlacesOK
<1> QED
  BY <1>2, <1>11, <1>12, <1>13, <1>18 DEF IInv

LEMMA ProbeKeeps ==
  ASSUME IInv, Probe
  PROVE  IInv'
<1>1. UNCHANGED <<files, placed, submitted, client, history, budget>>
  BY DEF Probe, Users, files
<1>2. FilesOK' /\ PlacedOK' /\ SubmittedOK' /\ WritingOK' /\ ClientsOK' /\ budget' \in Budgets
  <2>1. ClientsOK' /\ budget' \in Budgets
    BY <1>1 DEF IInv, ClientsOK, files
  <2> QED
    BY <1>1, <2>1, FilesAlone
<1>3. PICK drained \in SUBSET Machines, room \in [DOMAIN dispatcher.rows -> SUBSET Machines] :
        dispatcher' = [dispatcher EXCEPT !.room = room, !.drained = drained]
  <2>1. PICK drained \in SUBSET Machines : \E room \in [DOMAIN dispatcher.rows -> SUBSET Machines] :
          dispatcher' = [dispatcher EXCEPT !.room = room, !.drained = drained]
    BY DEF Probe, Runs
  <2> QED
    BY <2>1
<1>4. dispatcher \in Dispatchers /\ dispatcher.pc = "plan"
  BY DEF IInv, DispatcherOK, Probe, On
<1>5. room \in Partial(SUBSET Machines) /\ DOMAIN room = DOMAIN dispatcher.rows
  BY RowsAreJobs DEF Partial
<1>6. /\ dispatcher' \in Dispatchers /\ dispatcher'.pc = dispatcher.pc /\ dispatcher'.plan = dispatcher.plan
      /\ dispatcher'.rows = dispatcher.rows /\ dispatcher'.room = room
      /\ dispatcher'.batch = dispatcher.batch
  BY <1>3, <1>4, <1>5 DEF Dispatchers
<1>7. dispatcher.plan = Nothing /\ DOMAIN Nothing = {}
  BY <1>4, NothingIsPartial DEF IInv, DispatcherOK, Probe
<1>8. DispatcherOK'
  BY <1>4, <1>5, <1>6, <1>7 DEF IInv, DispatcherOK
<1>9. RowsOK' /\ OrderKnown'
  <2>1. dispatcher'.pc = "plan" /\ dispatcher'.rows = dispatcher.rows /\ UNCHANGED <<job, state, writing, history>>
    BY <1>1, <1>6, <1>4 DEF files
  <2> QED
    BY <2>1 DEF IInv, RowsOK, OrderKnown, ListsOK, PlacesOK, Elsewhere, Queued
<1>10. PlansOK'
  BY <1>4, <1>6, <1>7 DEF PlansOK, Respects
<1> QED
  BY <1>2, <1>8, <1>9, <1>10 DEF IInv

(***************************************************************************)
(* The plan: whatever job is chosen next, it takes machines that no job    *)
(* before it in its lane could use.                                        *)
(***************************************************************************)
LaneJobs(c) == {j \in DOMAIN dispatcher.rows \ DOMAIN dispatcher.plan : dispatcher.rows[j].file.class = c}

LEMMA LanesInOrder ==
  ASSUME IInv, NEW c
  PROVE  /\ Lane(c) \in Seq(LaneJobs(c))
         /\ \A i \in LaneJobs(c) : \E k \in DOMAIN Lane(c) : Lane(c)[k] = i
         /\ \A k, l \in DOMAIN Lane(c) : Before(RowFiles, Lane(c)[k], Lane(c)[l]) <=> k < l
<1> DEFINE f == RowFiles
           who == LaneJobs(c)
<1>1. Lane(c) = InLine(f, who)
  BY DEF Lane, LaneJobs
<1>2. submitted \in Seq(Jobs) /\ who \subseteq ToSet(submitted)
  BY RowsAreJobs DEF IInv, FilesOK, LaneJobs
<1>3. \A i \in who : i \in DOMAIN dispatcher.rows /\ f[i] = dispatcher.rows[i].file
  BY DEF LaneJobs, RowFiles
<1>4. Ranked(f, who)
  BY <1>3, RowsAreJobs DEF Ranked, JobFile
<1> HIDE DEF f, who
<1>5. /\ InLine(f, who) \in Seq(who)
      /\ \A i \in who : \E k \in DOMAIN InLine(f, who) : InLine(f, who)[k] = i
      /\ \A k, l \in DOMAIN InLine(f, who) : Before(f, InLine(f, who)[k], InLine(f, who)[l]) <=> k < l
  BY <1>2, <1>4, LinesInOrder
<1> QED
  BY <1>1, <1>5 DEF f, who

LEMMA ChoicesOfLanes ==
  ASSUME IInv, NEW best \in PlanChoice
  PROVE  \E c \in Classes : \E k \in DOMAIN Lane(c) :
           best.job = Lane(c)[k] /\ best.machines = Candidates(Lane(c), k)
<1> DEFINE standard == Lane("standard")
           test == Lane("test")
           s == Placeable(standard)
           t == Placeable(test)
           Best(line, k) == [job |-> line[k], machines |-> Candidates(line, k)]
<1>1. \/ 1 \in s /\ best = Best(standard, 1)
      \/ 1 \in t /\ best = Best(test, 1)
      \/ s # {} /\ best = Best(standard, Min(s))
      \/ t # {} /\ best = Best(test, Min(t))
  BY DEF PlanChoice
<1>2. s \subseteq DOMAIN standard /\ t \subseteq DOMAIN test
  BY DEF Placeable
<1>3. s \subseteq Nat /\ t \subseteq Nat
  <2>1. standard \in Seq(LaneJobs("standard")) /\ test \in Seq(LaneJobs("test"))
    BY LanesInOrder
  <2> HIDE DEF standard, test, s, t
  <2>2. DOMAIN standard \subseteq Nat /\ DOMAIN test \subseteq Nat
    BY <2>1
  <2> QED
    BY <1>2, <2>2
<1>4. (s # {} => Min(s) \in s) /\ (t # {} => Min(t) \in t)
  <2> HIDE DEF s, t
  <2> QED
    BY <1>3, LeastOf
<1> HIDE DEF s, t, standard, test
<1>5. \/ \E k \in DOMAIN standard : best = Best(standard, k)
      \/ \E k \in DOMAIN test : best = Best(test, k)
  <2> HIDE DEF Best
  <2> QED
    BY <1>1, <1>2, <1>4
<1>6. CASE \E k \in DOMAIN standard : best = Best(standard, k)
  BY <1>6 DEF standard, Classes
<1>7. CASE \E k \in DOMAIN test : best = Best(test, k)
  BY <1>7 DEF test, Classes
<1> QED
  BY <1>5, <1>6, <1>7

LEMMA PlanNextKeeps ==
  ASSUME IInv, PlanNext
  PROVE  IInv'
<1>1. UNCHANGED <<files, placed, submitted, client, history, budget>>
  BY DEF PlanNext, Users, files
<1>2. FilesOK' /\ PlacedOK' /\ SubmittedOK' /\ WritingOK' /\ ClientsOK' /\ budget' \in Budgets
  <2>1. ClientsOK' /\ budget' \in Budgets
    BY <1>1 DEF IInv, ClientsOK, files
  <2> QED
    BY <1>1, <2>1, FilesAlone
<1>3. PICK best \in PlanChoice : \E m \in best.machines :
        dispatcher' = [dispatcher EXCEPT !.plan = Plus(@, best.job, [machine |-> m, others |-> best.machines \ {m}])]
  BY DEF PlanNext, Runs
<1>4. PICK m \in best.machines :
        dispatcher' = [dispatcher EXCEPT !.plan = Plus(@, best.job, [machine |-> m, others |-> best.machines \ {m}])]
  BY <1>3
<1>5. PICK c \in Classes : \E k \in DOMAIN Lane(c) :
        best.job = Lane(c)[k] /\ best.machines = Candidates(Lane(c), k)
  BY ChoicesOfLanes
<1>6. PICK k \in DOMAIN Lane(c) : best.job = Lane(c)[k] /\ best.machines = Candidates(Lane(c), k)
  BY <1>5
<1> DEFINE j == best.job
           choice == [machine |-> m, others |-> best.machines \ {m}]
           plan == Plus(dispatcher.plan, j, choice)
<1>7. j \in DOMAIN dispatcher.rows \ DOMAIN dispatcher.plan /\ dispatcher.rows[j].file.class = c
  <2>1. Lane(c) \in Seq(LaneJobs(c))
    BY LanesInOrder
  <2>2. Lane(c)[k] \in LaneJobs(c)
    BY <2>1
  <2> QED
    BY <1>6, <2>2 DEF LaneJobs
<1>8. /\ dispatcher \in Dispatchers /\ dispatcher.pc = "plan" /\ dispatcher.room # Nothing
      /\ DOMAIN dispatcher.room = DOMAIN dispatcher.rows
      /\ dispatcher.room \in Partial(SUBSET Machines) /\ dispatcher.plan \in Partial(Picks)
  BY DEF IInv, DispatcherOK, Dispatchers, PlanNext, On
<1>9. best.machines \in SUBSET Machines
  <2>1. dispatcher.room[j] \in SUBSET Machines
    BY <1>7, <1>8, PartialIs
  <2> QED
    BY <1>6, <2>1 DEF Candidates
<1>10. choice \in Picks
  BY <1>9 DEF Picks
<1>11. plan \in Partial(Picks) /\ DOMAIN plan = DOMAIN dispatcher.plan \cup {j}
  <2>1. j \in Jobs
    BY <1>7, RowsAreJobs
  <2> HIDE DEF choice, j
  <2>2. plan \in Partial(Picks)
    BY <1>8, <1>10, <2>1, OneMore
  <2> QED
    BY <2>2 DEF Plus
<1>12. /\ plan[j].machine \in best.machines /\ plan[j].others \subseteq best.machines
       /\ \A i \in DOMAIN dispatcher.plan : i # j => plan[i] = dispatcher.plan[i]
  BY DEF Plus
<1> HIDE DEF plan, choice, j
<1>13. /\ dispatcher' \in Dispatchers /\ dispatcher'.pc = dispatcher.pc /\ dispatcher'.plan = plan
       /\ dispatcher'.rows = dispatcher.rows /\ dispatcher'.room = dispatcher.room
       /\ dispatcher'.batch = dispatcher.batch /\ dispatcher'.drained = dispatcher.drained
  <2>1. dispatcher' = [dispatcher EXCEPT !.plan = plan]
    BY <1>4 DEF plan, choice, j
  <2> QED
    BY <1>8, <1>11, <2>1 DEF Dispatchers
<1>14. DispatcherOK'
  BY <1>7, <1>8, <1>11, <1>13 DEF IInv, DispatcherOK
<1>15. RowsOK' /\ OrderKnown'
  <2>1. dispatcher'.pc = "plan" /\ dispatcher'.rows = dispatcher.rows /\ UNCHANGED <<job, state, writing, history>>
    BY <1>1, <1>13, <1>8 DEF files
  <2> QED
    BY <2>1 DEF IInv, RowsOK, OrderKnown, ListsOK, PlacesOK, Elsewhere, Queued
<1>16. ASSUME NEW i \in DOMAIN dispatcher.rows \ DOMAIN plan, dispatcher.rows[i].file.class = c,
              Before(RowFiles, i, j)
       PROVE  best.machines \cap Usable(i) = {}
  <2>1. i \in LaneJobs(c)
    BY <1>11, <1>16 DEF LaneJobs
  <2>2. PICK l \in DOMAIN Lane(c) : Lane(c)[l] = i
    BY <2>1, LanesInOrder
  <2>3. l < k
    BY <1>6, <1>16, <2>2, LanesInOrder DEF j
  <2>4. l \in 1 .. k - 1
    <3>1. Lane(c) \in Seq(LaneJobs(c))
      BY LanesInOrder
    <3>2. k \in Nat /\ l \in Nat /\ l >= 1
      BY <3>1
    <3> QED
      BY <2>3, <3>2
  <2>5. Usable(i) \subseteq Protected(Lane(c), k)
    BY <2>2, <2>4 DEF Protected
  <2> QED
    BY <1>6, <2>5 DEF Candidates
<1>17. Respects(dispatcher.plan)
  BY <1>8 DEF IInv, PlansOK
<1>18. RowFiles' = RowFiles /\ \A i \in DOMAIN dispatcher.rows : Usable(i)' = Usable(i)
  BY <1>13 DEF RowFiles, Usable
<1>19. ASSUME NEW h \in DOMAIN plan, NEW i \in DOMAIN dispatcher.rows \ DOMAIN plan,
              dispatcher.rows[i].file.class = dispatcher.rows[h].file.class, Before(RowFiles, i, h)
       PROVE  plan[h].machine \notin Usable(i) /\ plan[h].others \cap Usable(i) = {}
  <2>1. CASE h = j
    <3>1. best.machines \cap Usable(i) = {}
      BY <1>7, <1>16, <1>19, <2>1
    <3> QED
      BY <1>12, <2>1, <3>1
  <2>2. CASE h # j
    <3>1. h \in DOMAIN dispatcher.plan /\ plan[h] = dispatcher.plan[h] /\ i \notin DOMAIN dispatcher.plan
      BY <1>11, <1>12, <2>2
    <3> QED
      BY <1>17, <1>19, <3>1 DEF Respects
  <2> QED
    BY <2>1, <2>2
<1>20. \A i, h \in DOMAIN dispatcher.rows : Before(RowFiles, i, h)' <=> Before(RowFiles, i, h)
  BY <1>1, <1>18 DEF Before
<1>21. Respects(dispatcher.plan)'
  <2>1. DOMAIN plan \subseteq DOMAIN dispatcher.rows
    BY <1>13, <1>14 DEF DispatcherOK
  <2> QED
    BY <1>13, <1>18, <1>19, <1>20, <2>1 DEF Respects
<1>22. PlansOK'
  BY <1>8, <1>13, <1>21 DEF PlansOK
<1> QED
  BY <1>2, <1>14, <1>15, <1>22 DEF IInv

LEMMA PlannedKeeps ==
  ASSUME IInv, Planned
  PROVE  IInv'
<1>1. UNCHANGED <<files, placed, submitted, client, history, budget>>
  BY DEF Planned, Users, files
<1>2. FilesOK' /\ PlacedOK' /\ SubmittedOK' /\ WritingOK' /\ ClientsOK' /\ budget' \in Budgets
  <2>1. ClientsOK' /\ budget' \in Budgets
    BY <1>1 DEF IInv, ClientsOK, files
  <2> QED
    BY <1>1, <2>1, FilesAlone
<1>3. CASE dispatcher.rows = Nothing
  <2>1. dispatcher' = Idle
    BY <1>3 DEF Planned, Runs
  <2>2. DOMAIN Nothing = {}
    BY NothingIsPartial
  <2>3. DispatcherOK'
    BY <2>1, <2>2, Idling DEF DispatcherOK
  <2>4. RowsOK' /\ OrderKnown' /\ PlansOK'
    BY <1>1, <2>1, <2>2, Idling DEF IInv, RowsOK, OrderKnown, ListsOK, PlacesOK, PlansOK
  <2> QED
    BY <1>2, <2>3, <2>4 DEF IInv
<1>4. CASE dispatcher.rows # Nothing
  <2>1. dispatcher' = [dispatcher EXCEPT !.pc = "mark", !.batch = dispatcher.plan, !.room = Nothing]
    BY <1>4 DEF Planned, Runs
  <2>2. dispatcher \in Dispatchers /\ dispatcher.pc = "plan"
    BY DEF IInv, DispatcherOK, Planned, On
  <2>3. Nothing \in Partial(SUBSET Machines)
    BY NothingIsPartial
  <2>4. /\ dispatcher' \in Dispatchers /\ dispatcher'.pc = "mark" /\ dispatcher'.plan = dispatcher.plan
        /\ dispatcher'.rows = dispatcher.rows /\ dispatcher'.room = Nothing
        /\ dispatcher'.batch = dispatcher.plan /\ dispatcher'.drained = dispatcher.drained
    <3> HIDE DEF Nothing
    <3> QED
      BY <2>1, <2>2, <2>3 DEF Dispatchers
  <2>5. DispatcherOK'
    BY <2>4 DEF IInv, DispatcherOK
  <2>6. RowsOK' /\ OrderKnown'
    <3>1. dispatcher'.pc = "mark" /\ dispatcher'.rows = dispatcher.rows /\ UNCHANGED <<job, state, writing, history>>
      BY <1>1, <2>4, <2>2 DEF files
    <3> QED
      BY <3>1 DEF IInv, RowsOK, OrderKnown, ListsOK, PlacesOK, Elsewhere, Queued
  <2>7. RowFiles' = RowFiles /\ \A i \in DOMAIN dispatcher.rows : Usable(i)' = Usable(i)
    BY <2>4 DEF RowFiles, Usable
  <2>8. \A i, h \in DOMAIN dispatcher.rows : Before(RowFiles, i, h)' <=> Before(RowFiles, i, h)
    BY <1>1, <2>7 DEF Before
  <2>9. Respects(dispatcher.plan) /\ DOMAIN dispatcher.plan \subseteq DOMAIN dispatcher.rows
    BY <2>2 DEF IInv, PlansOK, DispatcherOK
  <2>10. Respects(dispatcher.batch)'
    BY <2>4, <2>7, <2>8, <2>9 DEF Respects
  <2>11. PlansOK'
    BY <2>4, <2>10 DEF PlansOK
  <2> QED
    BY <1>2, <2>5, <2>6, <2>11 DEF IInv
<1> QED
  BY <1>3, <1>4

LEMMA StillFree ==
  ASSUME IInv, LockFree, UNCHANGED writing
  PROVE  WritingOK'
<1>1. Nothing \in Partial(JobFile) /\ Nothing \in Partial(StateFile) /\ DOMAIN Nothing = {}
  BY NothingIsPartial
<1>2. writing' = NothingToWrite /\ LockFree'
  BY DEF LockFree
<1> HIDE DEF Nothing
<1>3. /\ writing'.jobs = Nothing /\ writing'.states = Nothing
      /\ writing' \in [jobs: Partial(JobFile), states: Partial(StateFile)]
  BY <1>1, <1>2 DEF NothingToWrite
<1> QED
  BY <1>1, <1>2, <1>3 DEF WritingOK

\* A job is taken from the plan.
LEMMA PlanShrinks ==
  ASSUME IInv, FilesOK', Lasts, Ages, Orderly, Appends, UNCHANGED history, NEW j \in Jobs,
         dispatcher.pc = "mark", dispatcher' = [dispatcher EXCEPT !.plan = Minus(dispatcher.plan, j)]
  PROVE  DispatcherOK' /\ RowsOK' /\ OrderKnown' /\ PlansOK'
<1>1. dispatcher \in Dispatchers /\ dispatcher.plan \in Partial(Picks)
  BY DEF IInv, DispatcherOK, Dispatchers
<1> DEFINE plan == Minus(dispatcher.plan, j)
<1>2. plan \in Partial(Picks)
  BY <1>1, LessOne
<1>3. DOMAIN plan \subseteq DOMAIN dispatcher.plan /\ \A i \in DOMAIN plan : plan[i] = dispatcher.plan[i]
  BY DEF Minus
<1> HIDE DEF plan
<1>4. dispatcher' = [dispatcher EXCEPT !.plan = plan]
  BY DEF plan
<1>5. /\ dispatcher' \in Dispatchers /\ dispatcher'.plan = plan
      /\ \A part \in {"pc", "left", "reading", "file", "rows", "room", "drained", "batch"} : dispatcher'[part] = dispatcher[part]
  BY <1>1, <1>2, <1>4 DEF Dispatchers
<1> QED
  BY <1>3, <1>5, PlanKeeps, PlacesKeep

LEMMA UnreservedKeeps ==
  ASSUME IInv, NEW j \in Jobs, Unreserved(j)
  PROVE  IInv'
<1>1. UNCHANGED <<files, placed, submitted, client, history, budget>>
  BY DEF Unreserved, Users, files
<1>2. FilesOK' /\ PlacedOK' /\ SubmittedOK' /\ WritingOK' /\ ClientsOK' /\ budget' \in Budgets
  <2>1. ClientsOK' /\ budget' \in Budgets
    BY <1>1 DEF IInv, ClientsOK, files
  <2> QED
    BY <1>1, <2>1, FilesAlone
<1>3. DispatcherOK' /\ RowsOK' /\ OrderKnown' /\ PlansOK'
  <2> USE DEF Unreserved, On, Runs
  <2>1. Lasts /\ Ages /\ Orderly /\ Appends
    BY <1>1, FilesAlone
  <2> QED
    BY <1>1, <1>2, <2>1, PlanShrinks
<1> QED
  BY <1>2, <1>3 DEF IInv

LEMMA EndBatchKeeps ==
  ASSUME IInv, EndBatch
  PROVE  IInv'
<1>1. UNCHANGED <<files, placed, submitted, client, history, budget>>
  BY DEF EndBatch, Users, files
<1>2. FilesOK' /\ PlacedOK' /\ SubmittedOK' /\ WritingOK' /\ ClientsOK' /\ budget' \in Budgets
  <2>1. ClientsOK' /\ budget' \in Budgets
    BY <1>1 DEF IInv, ClientsOK, files
  <2> QED
    BY <1>1, <2>1, FilesAlone
<1>3. dispatcher' = Idle
  BY DEF EndBatch, Runs
<1>4. DOMAIN Nothing = {}
  BY NothingIsPartial
<1>5. DispatcherOK'
  BY <1>3, <1>4, Idling DEF DispatcherOK
<1>6. RowsOK' /\ OrderKnown' /\ PlansOK'
  BY <1>1, <1>3, <1>4, Idling DEF IInv, RowsOK, OrderKnown, ListsOK, PlacesOK, PlansOK
<1> QED
  BY <1>2, <1>5, <1>6 DEF IInv

(***************************************************************************)
(* The steps that change the state of one job under the queue lock.        *)
(***************************************************************************)
LEMMA OneState ==
  ASSUME IInv, LockFree, NEW j \in Jobs, state[j].status # "absent",
         state' \in [Jobs -> StateFile], \A i \in Jobs : i # j => state'[i] = state[i],
         state'[j].status # "absent", state'[j].revision >= state[j].revision,
         Active(state'[j]) => state'[j].status \in {"queued", "stopped"},
         UNCHANGED <<job, writing, submitted>>
  PROVE  /\ FilesOK' /\ SubmittedOK' /\ WritingOK' /\ Lasts /\ Orderly /\ Appends
         /\ /\ state'[j].status = "queued" => state[j].status = "queued"
            /\ state'[j].revision = state[j].revision /\ Active(state'[j]) => Active(state[j])
            => Ages
<1>1. FilesOK'
  <2>1. \A i \in Jobs : Active(state'[i]) => state'[i].status \in {"queued", "stopped"}
    BY DEF IInv, FilesOK
  <2>2. \A i \in Jobs : state'[i].status # "absent" => i \in ToSet(submitted)
    BY DEF IInv, FilesOK
  <2> QED
    BY <2>1, <2>2 DEF IInv, FilesOK
<1>2. SubmittedOK'
  <2>1. ASSUME NEW i \in ToSet(submitted) PROVE state'[i].status # "absent"
    <3>1. i \in Jobs /\ state[i].status # "absent"
      BY DEF IInv, FilesOK, SubmittedOK, ToSet
    <3> QED
      BY <3>1
  <2> QED
    BY <2>1 DEF IInv, SubmittedOK
<1>3. WritingOK'
  BY StillFree
<1>4. Lasts /\ Orderly /\ Appends
  BY DEF Lasts, Orderly, Appends, SamePlace, SameLane
<1>5. \A i \in Jobs : state[i].revision \in Nat
  BY DEF IInv, FilesOK, StateFile
<1>6. ASSUME /\ state'[j].status = "queued" => state[j].status = "queued"
             /\ state'[j].revision = state[j].revision /\ Active(state'[j]) => Active(state[j])
      PROVE  Ages
  BY <1>5, <1>6 DEF Ages
<1> QED
  BY <1>1, <1>2, <1>3, <1>4, <1>6

LEMMA MovedState ==
  ASSUME IInv, NEW j \in Jobs, NEW from, NEW to \in {"queued", "dispatching", "dispatched", "stopped"},
         Moves(j, from, to)
  PROVE  /\ LockFree /\ state[j].status = from /\ UNCHANGED <<job, writing, submitted, client, history>>
         /\ state' \in [Jobs -> StateFile] /\ \A i \in Jobs : i # j => state'[i] = state[i]
         /\ state'[j].status = to /\ state'[j].revision = state[j].revision + 1
         /\ Active(state'[j]) <=> Active(state[j])
<1>1. LockFree /\ state[j].status = from /\ UNCHANGED <<job, writing, submitted, client, history>>
  BY DEF Moves
<1>2. state \in [Jobs -> StateFile] /\ state[j] \in StateFile
  BY DEF IInv, FilesOK
<1>3. PICK n \in Nat : n = state[j].revision + 1
  BY <1>2 DEF StateFile
<1> DEFINE x == [state[j] EXCEPT !.status = to, !.revision = n]
<1>4. x \in StateFile /\ x.status = to /\ x.revision = n /\ x.update = state[j].update /\ x.live = state[j].live
  BY <1>2 DEF StateFile
<1>5. state' = [state EXCEPT ![j] = x]
  BY <1>2, <1>3 DEF Moves
<1> HIDE DEF x
<1>6. state' \in [Jobs -> StateFile] /\ state'[j] = x /\ \A i \in Jobs : i # j => state'[i] = state[i]
  BY <1>2, <1>4, <1>5
<1> QED
  BY <1>1, <1>3, <1>4, <1>6 DEF Active

\* The steps that leave the users' requests and the dispatcher alone.
LEMMA OthersKeep ==
  ASSUME IInv, FilesOK', PlacedOK', SubmittedOK', WritingOK', Lasts, Ages, Orderly, Appends,
         UNCHANGED <<client, dispatcher, history>>, budget' \in Budgets
  PROVE  IInv'
<1>1. client' \in [Clients -> Wishes] /\ \A c \in Clients : client'[c] = client[c]
  BY DEF IInv, ClientsOK
<1>2. ClientsOK'
  BY <1>1, ClientsKeep
<1>3. DispatcherOK' /\ RowsOK' /\ OrderKnown' /\ PlansOK'
  BY RowsKeep, PlacesKeep
<1> QED
  BY <1>2, <1>3 DEF IInv

\* Those that write the files of an edit are no different but for the places of jobs.
LEMMA WritersKeep ==
  ASSUME IInv, FilesOK', PlacedOK', SubmittedOK', WritingOK', Lasts, Ages, Appends, OrderKnown',
         UNCHANGED <<client, dispatcher>>, budget' \in Budgets
  PROVE  IInv'
<1>1. client' \in [Clients -> Wishes] /\ \A c \in Clients : client'[c] = client[c]
  BY DEF IInv, ClientsOK
<1>2. ClientsOK'
  BY <1>1, ClientsKeep
<1>3. DispatcherOK' /\ RowsOK' /\ PlansOK'
  BY RowsKeep
<1> QED
  BY <1>2, <1>3 DEF IInv

LEMMA StopQueuedKeeps ==
  ASSUME IInv, NEW j \in Jobs, StopQueued(j)
  PROVE  IInv'
<1>1. Moves(j, "queued", "stopped") /\ UNCHANGED <<placed, dispatcher, budget>>
  BY DEF StopQueued
<1>2. /\ LockFree /\ state[j].status = "queued" /\ UNCHANGED <<job, writing, submitted, client, history>>
      /\ state' \in [Jobs -> StateFile] /\ \A i \in Jobs : i # j => state'[i] = state[i]
      /\ state'[j].status = "stopped" /\ state'[j].revision = state[j].revision + 1
      /\ Active(state'[j]) <=> Active(state[j])
  BY <1>1, MovedState
<1>3. state[j].revision \in Nat
  BY DEF IInv, FilesOK, StateFile
<1>4. FilesOK' /\ SubmittedOK' /\ WritingOK' /\ Lasts /\ Orderly /\ Appends /\ Ages
  BY <1>2, <1>3, OneState
<1>5. PlacedOK'
  BY <1>1, <1>2 DEF IInv, PlacedOK
<1>6. budget' \in Budgets
  BY <1>1 DEF IInv
<1> QED
  BY <1>1, <1>2, <1>4, <1>5, <1>6, OthersKeep

LEMMA LaunchedKeeps ==
  ASSUME IInv, NEW j \in Jobs, Launched(j)
  PROVE  IInv'
<1>1. Moves(j, "dispatching", "dispatched") /\ UNCHANGED <<placed, dispatcher, budget>>
  BY DEF Launched
<1>2. /\ LockFree /\ state[j].status = "dispatching" /\ UNCHANGED <<job, writing, submitted, client, history>>
      /\ state' \in [Jobs -> StateFile] /\ \A i \in Jobs : i # j => state'[i] = state[i]
      /\ state'[j].status = "dispatched" /\ state'[j].revision = state[j].revision + 1
      /\ Active(state'[j]) <=> Active(state[j])
  BY <1>1, MovedState
<1>3. state[j].revision \in Nat /\ ~Active(state[j])
  BY <1>2 DEF IInv, FilesOK, StateFile
<1>4. FilesOK' /\ SubmittedOK' /\ WritingOK' /\ Lasts /\ Orderly /\ Appends /\ Ages
  BY <1>2, <1>3, OneState
<1>5. PlacedOK'
  BY <1>1, <1>2 DEF IInv, PlacedOK
<1>6. budget' \in Budgets
  BY <1>1 DEF IInv
<1> QED
  BY <1>1, <1>2, <1>4, <1>5, <1>6, OthersKeep

LEMMA RecoverKeeps ==
  ASSUME IInv, NEW j \in Jobs, Recover(j)
  PROVE  IInv'
<1>1. Moves(j, "dispatching", "queued") /\ placed' = [placed EXCEPT ![j] = NoPlace] /\ UNCHANGED dispatcher
  BY DEF Recover
<1>2. /\ LockFree /\ state[j].status = "dispatching" /\ UNCHANGED <<job, writing, submitted, client, history>>
      /\ state' \in [Jobs -> StateFile] /\ \A i \in Jobs : i # j => state'[i] = state[i]
      /\ state'[j].status = "queued" /\ state'[j].revision = state[j].revision + 1
      /\ Active(state'[j]) <=> Active(state[j])
  BY <1>1, MovedState
<1>3. state[j].revision \in Nat /\ ~Active(state[j])
  BY <1>2 DEF IInv, FilesOK, StateFile
<1>4. FilesOK' /\ SubmittedOK' /\ WritingOK' /\ Lasts /\ Orderly /\ Appends
  BY <1>2, <1>3, OneState
<1>5. PlacedOK'
  BY <1>1, <1>2 DEF IInv, PlacedOK
<1>6. budget' \in Budgets
  BY Spending DEF Recover
<1>7. ClientsOK'
  <2>1. client' \in [Clients -> Wishes] /\ \A c \in Clients : client'[c] = client[c]
    BY <1>2 DEF IInv, ClientsOK
  <2> QED
    BY <1>4, <2>1, ClientsKeep
<1>8. dispatcher.pc = "idle" /\ dispatcher.rows = Nothing /\ DOMAIN Nothing = {}
  BY NothingIsPartial DEF IInv, DispatcherOK, Recover
<1>9. DispatcherOK' /\ RowsOK' /\ OrderKnown' /\ PlansOK'
  BY <1>1, <1>2, <1>8 DEF IInv, DispatcherOK, RowsOK, OrderKnown, ListsOK, PlacesOK, PlansOK
<1> QED
  BY <1>4, <1>5, <1>6, <1>7, <1>9 DEF IInv

LEMMA MarkKeeps ==
  ASSUME IInv, NEW j \in Jobs, Mark(j)
  PROVE  IInv'
<1>1. /\ dispatcher.pc = "mark" /\ j \in DOMAIN dispatcher.plan /\ LockFree
      /\ dispatcher' = [dispatcher EXCEPT !.plan = Minus(dispatcher.plan, j)]
      /\ UNCHANGED <<job, writing, submitted, client, history, budget>>
  BY DEF Mark, On, Runs, Users
<1>2. client' \in [Clients -> Wishes] /\ \A c \in Clients : client'[c] = client[c]
  BY <1>1 DEF IInv, ClientsOK
<1>3. budget' \in Budgets
  BY <1>1 DEF IInv
<1>4. CASE ~Unchanged(j)
  <2>1. UNCHANGED <<files, placed, submitted>>
    BY <1>1, <1>4 DEF Mark, files
  <2>2. FilesOK' /\ PlacedOK' /\ SubmittedOK' /\ WritingOK' /\ Lasts /\ Ages /\ Orderly /\ Appends
    BY <2>1, FilesAlone
  <2>3. ClientsOK'
    BY <1>2, <2>2, ClientsKeep
  <2>4. DispatcherOK' /\ RowsOK' /\ OrderKnown' /\ PlansOK'
    BY <1>1, <2>2, PlanShrinks
  <2> QED
    BY <1>3, <2>2, <2>3, <2>4 DEF IInv
<1>5. CASE Unchanged(j)
  <2>1. state' = [state EXCEPT ![j].status = "dispatching", ![j].revision = @ + 1]
    BY <1>5 DEF Mark
  <2>2. state[j].status = "queued" /\ state[j].revision = dispatcher.rows[j].revision
    BY <1>5 DEF Unchanged, Queued
  <2>3. Moves(j, "queued", "dispatching")
    BY <1>1, <2>1, <2>2 DEF Moves
  <2>4. /\ state' \in [Jobs -> StateFile] /\ \A i \in Jobs : i # j => state'[i] = state[i]
        /\ state'[j].status = "dispatching" /\ state'[j].revision = state[j].revision + 1
        /\ Active(state'[j]) <=> Active(state[j])
    BY <2>3, MovedState
  <2>5. j \in DOMAIN dispatcher.rows /\ j \in Queued
    BY <1>1, <2>2 DEF IInv, DispatcherOK, Queued
  <2>6. ~Active(state[j]) /\ state[j].revision \in Nat
    BY <2>2, <2>5 DEF IInv, RowsOK, FilesOK, StateFile
  <2>7. FilesOK' /\ SubmittedOK' /\ WritingOK' /\ Lasts /\ Orderly /\ Appends /\ Ages
    BY <1>1, <2>2, <2>4, <2>6, OneState
  <2>8. PICK m \in {dispatcher.plan[j].machine} \cup (dispatcher.plan[j].others \ MachinesOf(dispatcher.batch)) :
          placed' = [placed EXCEPT ![j] = [machine |-> m, class |-> dispatcher.rows[j].file.class]]
    BY <1>5 DEF Mark
  <2>9. dispatcher.plan[j] \in Picks
    BY <1>1, PartialIs DEF IInv, DispatcherOK, Dispatchers
  <2> DEFINE place == [machine |-> m, class |-> dispatcher.rows[j].file.class]
  <2>10. place \in Places
    <3>1. m \in Machines
      BY <2>9 DEF Picks
    <3>2. dispatcher.rows[j].file.class \in Classes
      BY <2>5, RowsAreJobs DEF JobFile
    <3> QED
      BY <3>1, <3>2 DEF Places
  <2>11. place # NoPlace
    BY <2>10, QueueAssumptions DEF Places
  <2> HIDE DEF place
  <2>12. placed' = [placed EXCEPT ![j] = place]
    BY <2>8 DEF place
  <2>13. PlacedOK'
    BY <2>4, <2>10, <2>11, <2>12 DEF IInv, PlacedOK
  <2>14. ClientsOK'
    BY <1>2, <2>7, ClientsKeep
  <2>15. DispatcherOK' /\ RowsOK' /\ OrderKnown' /\ PlansOK'
    BY <1>1, <2>7, PlanShrinks
  <2> QED
    BY <1>3, <2>7, <2>13, <2>14, <2>15 DEF IInv
<1> QED
  BY <1>4, <1>5

LEMMA ExpireUpdateKeeps ==
  ASSUME IInv, NEW j \in Jobs, ExpireUpdate(j)
  PROVE  IInv'
<1>1. /\ state[j].live /\ LockFree /\ state' = [state EXCEPT ![j].live = FALSE]
      /\ UNCHANGED <<placed, submitted, dispatcher, client, job, writing, history, budget>>
  BY DEF ExpireUpdate, Rest
<1>2. state \in [Jobs -> StateFile] /\ state[j] \in StateFile
  BY DEF IInv, FilesOK
<1> DEFINE x == [state[j] EXCEPT !.live = FALSE]
<1>3. /\ x \in StateFile /\ x.status = state[j].status /\ x.revision = state[j].revision
      /\ ~x.live /\ x.revision \in Nat
  BY <1>2 DEF StateFile
<1>4. state' = [state EXCEPT ![j] = x]
  BY <1>1, <1>2
<1> HIDE DEF x
<1>5. state' \in [Jobs -> StateFile] /\ state'[j] = x /\ \A i \in Jobs : i # j => state'[i] = state[i]
  BY <1>2, <1>3, <1>4
<1>6. CASE state[j].status # "absent"
  <2>0. /\ state'[j].status # "absent" /\ state'[j].revision >= state[j].revision /\ ~Active(state'[j])
        /\ state'[j].status = "queued" => state[j].status = "queued"
    BY <1>3, <1>5, <1>6 DEF Active
  <2>1. FilesOK' /\ SubmittedOK' /\ WritingOK' /\ Lasts /\ Orderly /\ Appends /\ Ages
    BY <1>1, <1>5, <1>6, <2>0, OneState
  <2>2. PlacedOK'
    BY <1>1, <1>3, <1>5 DEF IInv, PlacedOK
  <2>3. budget' \in Budgets
    BY <1>1 DEF IInv
  <2> QED
    BY <1>1, <2>1, <2>2, <2>3, OthersKeep
<1>7. CASE state[j].status = "absent"
  <2>1. FilesOK'
    BY <1>1, <1>3, <1>5, <1>7 DEF IInv, FilesOK, Active
  <2>2. SubmittedOK'
    <3>1. ASSUME NEW i \in ToSet(submitted) PROVE state'[i].status # "absent"
      <4>1. i \in Jobs /\ state[i].status # "absent"
        BY DEF IInv, FilesOK, SubmittedOK, ToSet
      <4> QED
        BY <1>5, <1>7, <4>1
    <3> QED
      BY <1>1, <3>1 DEF IInv, SubmittedOK
  <2>3. PlacedOK' /\ budget' \in Budgets
    BY <1>1, <1>3, <1>5 DEF IInv, PlacedOK
  <2>4. WritingOK'
    BY <1>1, StillFree
  <2>5. Lasts /\ Orderly /\ Appends
    BY <1>1, <1>5, <1>7 DEF Lasts, Orderly, Appends, SamePlace, SameLane
  <2>6. \A i \in Jobs : state[i].revision \in Nat
    BY DEF IInv, FilesOK, StateFile
  <2>7. Ages
    BY <1>5, <1>7, <2>6 DEF Ages
  <2> QED
    BY <1>1, <2>1, <2>2, <2>3, <2>4, <2>5, <2>7, OthersKeep
<1> QED
  BY <1>6, <1>7

LEMMA SubmitKeeps ==
  ASSUME IInv, NEW j \in Jobs, Submit(j)
  PROVE  IInv'
<1>1. /\ state[j].status = "absent" /\ LockFree
      /\ state' = [state EXCEPT ![j].status = "queued"]
      /\ submitted' = Append(submitted, j)
      /\ UNCHANGED <<placed, writing, client, dispatcher, history, budget>>
  BY DEF Submit
<1>2. PICK c \in Classes, p \in Priorities :
        job' = [job EXCEPT ![j] = [class |-> c, priority |-> p, position |-> Instant * (Len(submitted) + 1),
                                   prepared |-> Initial[j], eligible |-> Initial[j], locked |-> FALSE]]
  BY DEF Submit
<1>3. /\ state \in [Jobs -> StateFile] /\ state[j] \in StateFile /\ job \in [Jobs -> JobFile]
      /\ submitted \in Seq(Jobs)
  BY DEF IInv, FilesOK
<1>4. j \notin ToSet(submitted)
  BY <1>1 DEF IInv, SubmittedOK
<1> DEFINE x == [state[j] EXCEPT !.status = "queued"]
<1>5. x \in StateFile /\ x.status = "queued" /\ x.update = state[j].update /\ x.live = state[j].live
  BY <1>3 DEF StateFile
<1>6. state' = [state EXCEPT ![j] = x]
  BY <1>1, <1>3
<1> HIDE DEF x
<1>7. state' \in [Jobs -> StateFile] /\ state'[j] = x /\ \A i \in Jobs : i # j => state'[i] = state[i]
  BY <1>3, <1>5, <1>6
<1> DEFINE y == [class |-> c, priority |-> p, position |-> Instant * (Len(submitted) + 1),
                 prepared |-> Initial[j], eligible |-> Initial[j], locked |-> FALSE]
<1>8. y \in JobFile /\ y.eligible \subseteq y.prepared
  <2>1. PICK n \in Nat : n = Instant * (Len(submitted) + 1)
    <3>1. Len(submitted) \in Nat
      BY <1>3
    <3>2. Instant \in Nat
      BY DEF Instant, Spacing
    <3> QED
      BY <3>1, <3>2
  <2>2. Initial[j] \in SUBSET Machines
    BY QueueAssumptions
  <2>3. y = [class |-> c, priority |-> p, position |-> n,
             prepared |-> Initial[j], eligible |-> Initial[j], locked |-> FALSE]
    BY <2>1
  <2> HIDE DEF y
  <2> QED
    BY <2>2, <2>3 DEF JobFile
<1>9. job' = [job EXCEPT ![j] = y]
  BY <1>2
<1> HIDE DEF y
<1>10. job' \in [Jobs -> JobFile] /\ job'[j] = y /\ \A i \in Jobs : i # j => job'[i] = job[i]
  BY <1>3, <1>8, <1>9
<1>11. /\ submitted' \in Seq(Jobs) /\ ToSet(submitted') = ToSet(submitted) \cup {j}
       /\ \A k, l \in DOMAIN submitted' : submitted'[k] = submitted'[l] => k = l
  <2>1. PICK s \in Seq(Jobs) : s = submitted
    BY <1>3
  <2>2. PICK t : t = Append(s, j)
    OBVIOUS
  <2>3. /\ DOMAIN s = 1 .. Len(s) /\ DOMAIN t = 1 .. Len(s) + 1 /\ Len(s) \in Nat
        /\ \A n \in DOMAIN s : t[n] = s[n]
        /\ t[Len(s) + 1] = j /\ t \in Seq(Jobs)
    BY <2>1, <2>2
  <2>4. \A n \in DOMAIN t : n \in DOMAIN s \/ n = Len(s) + 1
    BY <2>3
  <2>5. \A n \in DOMAIN s : s[n] # j
    BY <1>4, <2>1 DEF ToSet
  <2>6. \A k, l \in DOMAIN s : s[k] = s[l] => k = l
    BY <2>1 DEF IInv, SubmittedOK
  <2>7. \A k, l \in DOMAIN t : t[k] = t[l] => k = l
    BY <2>3, <2>4, <2>5, <2>6
  <2>8. ToSet(t) = ToSet(s) \cup {j}
    <3>1. DOMAIN s \subseteq DOMAIN t /\ Len(s) + 1 \in DOMAIN t
      BY <2>3
    <3> QED
      BY <2>3, <2>4, <3>1 DEF ToSet
  <2> QED
    BY <1>1, <2>1, <2>2, <2>3, <2>7, <2>8
<1>12. ~Active(state[j])
  BY <1>1 DEF IInv, FilesOK
<1>13. FilesOK'
  <2>1. \A i \in Jobs : job'[i].eligible \subseteq job'[i].prepared
    BY <1>8, <1>10 DEF IInv, FilesOK
  <2>2. \A i \in Jobs : state'[i].status # "absent" => i \in ToSet(submitted')
    BY <1>7, <1>11 DEF IInv, FilesOK
  <2>3. \A i \in Jobs : Active(state'[i]) => state'[i].status \in {"queued", "stopped"}
    BY <1>5, <1>7 DEF IInv, FilesOK
  <2> QED
    BY <1>7, <1>10, <1>11, <2>1, <2>2, <2>3 DEF FilesOK
<1>14. SubmittedOK'
  <2>1. ASSUME NEW i \in ToSet(submitted') PROVE state'[i].status # "absent"
    <3>1. CASE i = j
      BY <1>5, <1>7, <3>1
    <3>2. CASE i # j
      <4>0. i \in ToSet(submitted)
        BY <1>11, <3>2
      <4>1. i \in ToSet(submitted) /\ i \in Jobs
        BY <1>3, <4>0 DEF ToSet
      <4> QED
        BY <1>7, <3>2, <4>1 DEF IInv, SubmittedOK
    <3> QED
      BY <3>1, <3>2
  <2> QED
    BY <1>11, <2>1 DEF SubmittedOK
<1>15. PlacedOK'
  BY <1>1, <1>5, <1>7 DEF IInv, PlacedOK
<1>16. WritingOK'
  BY <1>1, StillFree
<1>17. Lasts /\ Orderly /\ Appends
  BY <1>1, <1>7, <1>10 DEF Lasts, Orderly, Appends, SamePlace, SameLane
<1>18. \A i \in Jobs : state[i].revision \in Nat
  BY DEF IInv, FilesOK, StateFile
<1>19. Ages
  BY <1>1, <1>7, <1>18 DEF Ages
<1>20. budget' \in Budgets
  BY <1>1 DEF IInv
<1> QED
  BY <1>1, <1>13, <1>14, <1>15, <1>16, <1>17, <1>19, <1>20, OthersKeep

(***************************************************************************)
(* The requests of users.                                                  *)
(***************************************************************************)
LEMMA AskersKeep ==
  ASSUME IInv, FilesOK', PlacedOK', SubmittedOK', WritingOK', Lasts, Ages, Orderly, Appends,
         UNCHANGED <<dispatcher, history>>, budget' \in Budgets, NEW c \in Clients, NEW new \in Wishes, Asks(c, new),
         \/ new.pc = "idle"
         \/ /\ new.job \in Jobs /\ state[new.job].status # "absent"
            /\ new.pc = "extended" => new.want \subseteq job'[new.job].prepared
  PROVE  IInv'
<1>1. client \in [Clients -> Wishes]
  BY DEF IInv, ClientsOK
<1>2. client' \in [Clients -> Wishes] /\ client'[c] = new /\ \A d \in Clients : d # c => client'[d] = client[d]
  BY <1>1 DEF Asks
<1>3. ClientsOK'
  BY <1>2, ClientsKeep
<1>4. DispatcherOK' /\ RowsOK' /\ OrderKnown' /\ PlansOK'
  BY RowsKeep, PlacesKeep
<1> QED
  BY <1>3, <1>4 DEF IInv

LEMMA NoWish ==
  NoRequest \in Wishes /\ NoRequest.pc = "idle"
BY DEF NoRequest, Wishes

LEMMA Wished ==
  ASSUME IInv, NEW c \in Clients, client[c].pc # "idle"
  PROVE  /\ client[c] \in Wishes /\ client[c].job \in Jobs /\ state[client[c].job].status # "absent"
         /\ client[c].want \in SUBSET Machines /\ client[c].revision \in Nat
BY DEF IInv, ClientsOK, Wishes

LEMMA LookKeeps ==
  ASSUME IInv, NEW c \in Clients, NEW j \in Jobs, Look(c, j)
  PROVE  IInv'
<1> DEFINE new == [NoRequest EXCEPT !.pc = "looked", !.job = j, !.revision = state[j].revision]
<1>1. /\ Asks(c, new) /\ state[j].status = "queued"
      /\ UNCHANGED <<files, placed, submitted, dispatcher, history, budget>>
  BY DEF Look, Rest, Queued
<1>2. state[j].revision \in Nat
  BY DEF IInv, FilesOK, StateFile
<1>3. new \in Wishes /\ new.pc = "looked" /\ new.job = j
  BY <1>2 DEF NoRequest, Wishes
<1> HIDE DEF new
<1>4. FilesOK' /\ PlacedOK' /\ SubmittedOK' /\ WritingOK' /\ Lasts /\ Ages /\ Orderly /\ Appends
  BY <1>1, FilesAlone
<1>5. budget' \in Budgets
  BY <1>1 DEF IInv
<1> QED
  BY <1>1, <1>3, <1>4, <1>5, AskersKeep

LEMMA PreparationFailsKeeps ==
  ASSUME IInv, NEW c \in Clients, PreparationFails(c)
  PROVE  IInv'
<1> DEFINE new == [client[c] EXCEPT !.pc = "release"]
<1>1. /\ Asks(c, new) /\ client[c].pc = "reserved"
      /\ UNCHANGED <<files, placed, submitted, dispatcher, history, budget>>
  BY DEF PreparationFails, Rest, At
<1>2. client[c] \in Wishes /\ client[c].job \in Jobs /\ state[client[c].job].status # "absent"
  BY <1>1, Wished
<1>3. new \in Wishes /\ new.pc = "release" /\ new.job = client[c].job
  BY <1>2 DEF Wishes
<1> HIDE DEF new
<1>4. FilesOK' /\ PlacedOK' /\ SubmittedOK' /\ WritingOK' /\ Lasts /\ Ages /\ Orderly /\ Appends
  BY <1>1, FilesAlone
<1>5. budget' \in Budgets
  BY <1>1 DEF IInv
<1> QED
  BY <1>1, <1>2, <1>3, <1>4, <1>5, AskersKeep

LEMMA ClientDiesKeeps ==
  ASSUME IInv, NEW c \in Clients, ClientDies(c)
  PROVE  IInv'
<1>1. Asks(c, NoRequest) /\ UNCHANGED <<files, placed, submitted, dispatcher, history, budget>>
  BY DEF ClientDies, Rest
<1>2. FilesOK' /\ PlacedOK' /\ SubmittedOK' /\ WritingOK' /\ Lasts /\ Ages /\ Orderly /\ Appends
  BY <1>1, FilesAlone
<1>3. budget' \in Budgets
  BY <1>1 DEF IInv
<1> QED
  BY <1>1, <1>2, <1>3, NoWish, AskersKeep

LEMMA ReserveKeeps ==
  ASSUME IInv, NEW c \in Clients, Reserve(c)
  PROVE  IInv'
<1> DEFINE j == client[c].job
<1>1. client[c].pc = "looked" /\ LockFree /\ UNCHANGED <<placed, submitted, dispatcher, history, job, writing>>
  BY DEF Reserve, Rest, At
<1>2. client[c] \in Wishes /\ j \in Jobs /\ state[j].status # "absent" /\ client[c].revision \in Nat
  BY <1>1, Wished
<1> HIDE DEF j
<1>3. CASE Editable(c, j, client[c].revision) /\ ~Active(state[j])
  <2>1. /\ Spend("reservations")
        /\ \E want \in SUBSET Machines :
             Asks(c, [client[c] EXCEPT !.pc = "reserved", !.revision = @ + 1, !.want = want])
        /\ state' = [state EXCEPT ![j].revision = @ + 1, ![j].update = c, ![j].live = TRUE]
    BY <1>3 DEF Reserve, j
  <2>2. PICK want \in SUBSET Machines :
          Asks(c, [client[c] EXCEPT !.pc = "reserved", !.revision = @ + 1, !.want = want])
    BY <2>1
  <2>3. PICK n \in Nat : n = client[c].revision + 1
    BY <1>2
  <2> DEFINE new == [client[c] EXCEPT !.pc = "reserved", !.revision = n, !.want = want]
  <2>4. new \in Wishes /\ new.pc = "reserved" /\ new.job = j
    BY <1>2 DEF Wishes, j
  <2>5. Asks(c, new)
    BY <2>2, <2>3
  <2> HIDE DEF new
  <2>6. state \in [Jobs -> StateFile] /\ state[j] \in StateFile /\ state[j].status = "queued"
    BY <1>2, <1>3 DEF IInv, FilesOK, Editable, Queued
  <2>7. PICK r \in Nat : r = state[j].revision + 1 /\ state[j].revision \in Nat
    BY <2>6 DEF StateFile
  <2> DEFINE x == [state[j] EXCEPT !.revision = r, !.update = c, !.live = TRUE]
  <2>8. x \in StateFile /\ x.status = "queued" /\ x.revision = r
    BY <2>6 DEF StateFile
  <2>9. state' = [state EXCEPT ![j] = x]
    BY <1>2, <2>1, <2>6, <2>7
  <2> HIDE DEF x
  <2>10. state' \in [Jobs -> StateFile] /\ state'[j] = x /\ \A i \in Jobs : i # j => state'[i] = state[i]
    BY <1>2, <2>6, <2>8, <2>9
  <2>11. FilesOK' /\ SubmittedOK' /\ WritingOK' /\ Lasts /\ Orderly /\ Appends /\ Ages
    BY <1>1, <1>2, <2>6, <2>7, <2>8, <2>10, OneState
  <2>12. PlacedOK'
    BY <1>1, <1>2, <2>6, <2>8, <2>10 DEF IInv, PlacedOK
  <2>13. budget' \in Budgets
    BY <2>1, Spending
  <2> QED
    BY <1>1, <1>2, <2>4, <2>5, <2>11, <2>12, <2>13, AskersKeep
<1>4. CASE ~(Editable(c, j, client[c].revision) /\ ~Active(state[j]))
  <2>1. Asks(c, NoRequest) /\ UNCHANGED <<state, budget>>
    BY <1>4 DEF Reserve, j
  <2>2. FilesOK' /\ PlacedOK' /\ SubmittedOK' /\ WritingOK' /\ Lasts /\ Ages /\ Orderly /\ Appends
    BY <1>1, <2>1, FilesAlone DEF files
  <2>3. budget' \in Budgets
    BY <2>1 DEF IInv
  <2> QED
    BY <1>1, <2>1, <2>2, <2>3, NoWish, AskersKeep
<1> QED
  BY <1>3, <1>4

LEMMA ReleaseKeeps ==
  ASSUME IInv, NEW c \in Clients, Release(c)
  PROVE  IInv'
<1> DEFINE j == client[c].job
<1>1. /\ client[c].pc = "release" /\ LockFree /\ Asks(c, NoRequest)
      /\ UNCHANGED <<placed, submitted, dispatcher, history, job, writing, budget>>
  BY DEF Release, Rest, At
<1>2. j \in Jobs /\ state[j].status # "absent"
  BY <1>1, Wished
<1> HIDE DEF j
<1>3. budget' \in Budgets
  BY <1>1 DEF IInv
<1>4. CASE state[j].update = c
  <2>1. state' = [state EXCEPT ![j].update = NoClient, ![j].live = FALSE, ![j].revision = @ + 1]
    BY <1>4 DEF Release, j
  <2>2. state \in [Jobs -> StateFile] /\ state[j] \in StateFile
    BY <1>2 DEF IInv, FilesOK
  <2>3. PICK r \in Nat : r = state[j].revision + 1 /\ state[j].revision \in Nat
    BY <2>2 DEF StateFile
  <2> DEFINE x == [state[j] EXCEPT !.update = NoClient, !.live = FALSE, !.revision = r]
  <2>4. x \in StateFile /\ x.status = state[j].status /\ x.revision = r /\ ~x.live
    BY <2>2 DEF StateFile
  <2>5. state' = [state EXCEPT ![j] = x]
    BY <1>2, <2>1, <2>2, <2>3
  <2> HIDE DEF x
  <2>6. state' \in [Jobs -> StateFile] /\ state'[j] = x /\ \A i \in Jobs : i # j => state'[i] = state[i]
    BY <1>2, <2>2, <2>4, <2>5
  <2>7. /\ state'[j].status # "absent" /\ state'[j].revision >= state[j].revision /\ ~Active(state'[j])
        /\ state'[j].status = "queued" => state[j].status = "queued"
    BY <1>2, <2>3, <2>4, <2>6 DEF Active
  <2>8. FilesOK' /\ SubmittedOK' /\ WritingOK' /\ Lasts /\ Orderly /\ Appends /\ Ages
    BY <1>1, <1>2, <2>6, <2>7, OneState
  <2>9. PlacedOK'
    BY <1>1, <1>2, <2>4, <2>6 DEF IInv, PlacedOK
  <2> QED
    BY <1>1, <1>3, <2>8, <2>9, NoWish, AskersKeep
<1>5. CASE state[j].update # c
  <2>1. UNCHANGED state
    BY <1>5 DEF Release, j
  <2>2. FilesOK' /\ PlacedOK' /\ SubmittedOK' /\ WritingOK' /\ Lasts /\ Ages /\ Orderly /\ Appends
    BY <1>1, <2>1, FilesAlone DEF files
  <2> QED
    BY <1>1, <1>3, <2>2, NoWish, AskersKeep
<1> QED
  BY <1>4, <1>5

(***************************************************************************)
(* Machines that are prepared for a job.                                   *)
(***************************************************************************)
LEMMA PreparedFiles ==
  ASSUME IInv, LockFree, NEW j \in Queued, NEW servers \in SUBSET Machines, Prepare(j, servers),
         UNCHANGED <<state, placed, submitted, writing>>
  PROVE  /\ FilesOK' /\ PlacedOK' /\ SubmittedOK' /\ WritingOK' /\ Lasts /\ Ages /\ Orderly /\ Appends
         /\ servers \subseteq job'[j].prepared
<1>1. j \in Jobs /\ job \in [Jobs -> JobFile] /\ job[j] \in JobFile /\ job[j].eligible \subseteq job[j].prepared
  BY DEF Queued, IInv, FilesOK
<1> DEFINE all == job[j].prepared \cup servers
           may == IF job[j].locked THEN job[j].eligible ELSE all
           x == [job[j] EXCEPT !.prepared = all, !.eligible = may]
<1>2. all \in SUBSET Machines /\ may \subseteq all
  BY <1>1 DEF JobFile
<1>3. job' = [job EXCEPT ![j] = x]
  BY <1>1 DEF Prepare
<1> HIDE DEF may
<1>4. /\ x \in JobFile /\ x.prepared = all /\ x.eligible \subseteq x.prepared
      /\ x.class = job[j].class /\ x.priority = job[j].priority /\ x.position = job[j].position
  BY <1>1, <1>2 DEF JobFile
<1> HIDE DEF x
<1>5. job' \in [Jobs -> JobFile] /\ job'[j] = x /\ \A i \in Jobs : i # j => job'[i] = job[i]
  BY <1>1, <1>3, <1>4
<1>6. FilesOK'
  BY <1>4, <1>5 DEF IInv, FilesOK
<1>7. PlacedOK' /\ SubmittedOK' /\ Appends
  BY DEF IInv, PlacedOK, SubmittedOK, Appends
<1>8. WritingOK'
  BY StillFree
<1>9. Lasts
  BY <1>4, <1>5 DEF Lasts
<1>10. Ages
  <2>1. \A i \in Jobs : state[i].revision \in Nat
    BY DEF IInv, FilesOK, StateFile
  <2> QED
    BY <2>1 DEF Ages
<1>11. Orderly
  BY <1>4, <1>5 DEF Orderly, SamePlace, SameLane
<1> QED
  BY <1>4, <1>5, <1>6, <1>7, <1>8, <1>9, <1>10, <1>11

LEMMA ExtendKeeps ==
  ASSUME IInv, NEW c \in Clients, Extend(c)
  PROVE  IInv'
<1> DEFINE j == client[c].job
           want == client[c].want
<1>1. /\ client[c].pc = "reserved" /\ LockFree
      /\ UNCHANGED <<placed, submitted, dispatcher, history, state, writing, budget>>
  BY DEF Extend, Rest, At
<1>2. client[c] \in Wishes /\ j \in Jobs /\ state[j].status # "absent" /\ want \in SUBSET Machines
  BY <1>1, Wished
<1> HIDE DEF j, want
<1>3. budget' \in Budgets
  BY <1>1 DEF IInv
<1>4. CASE j \in Queued /\ Holds(c)
  <2> DEFINE new == [client[c] EXCEPT !.pc = "extended"]
  <2>1. Prepare(j, want) /\ Asks(c, new)
    BY <1>4 DEF Extend, j, want
  <2>2. new \in Wishes /\ new.pc = "extended" /\ new.job = j /\ new.want = want
    BY <1>2 DEF Wishes, j, want
  <2> HIDE DEF new
  <2>3. /\ FilesOK' /\ PlacedOK' /\ SubmittedOK' /\ WritingOK' /\ Lasts /\ Ages /\ Orderly /\ Appends
        /\ want \subseteq job'[j].prepared
    BY <1>1, <1>2, <1>4, <2>1, PreparedFiles
  <2> QED
    BY <1>1, <1>2, <1>3, <2>1, <2>2, <2>3, AskersKeep
<1>5. CASE ~(j \in Queued /\ Holds(c))
  <2> DEFINE new == [client[c] EXCEPT !.pc = "release"]
  <2>1. Asks(c, new) /\ UNCHANGED job
    BY <1>5 DEF Extend, j
  <2>2. new \in Wishes /\ new.pc = "release" /\ new.job = j
    BY <1>2 DEF Wishes, j
  <2> HIDE DEF new
  <2>3. FilesOK' /\ PlacedOK' /\ SubmittedOK' /\ WritingOK' /\ Lasts /\ Ages /\ Orderly /\ Appends
    BY <1>1, <2>1, FilesAlone DEF files
  <2> QED
    BY <1>1, <1>2, <1>3, <2>1, <2>2, <2>3, AskersKeep
<1> QED
  BY <1>4, <1>5

LEMMA ExtendAllKeeps ==
  ASSUME IInv, NEW j \in Jobs, ExtendAll(j)
  PROVE  IInv'
<1>1. /\ j \in Queued /\ LockFree
      /\ UNCHANGED <<placed, submitted, dispatcher, history, client, state, writing, budget>>
  BY DEF ExtendAll, Rest
<1>2. PICK m \in Machines \ job[j].prepared : Prepare(j, {m})
  BY DEF ExtendAll
<1>3. {m} \in SUBSET Machines
  OBVIOUS
<1>4. FilesOK' /\ PlacedOK' /\ SubmittedOK' /\ WritingOK' /\ Lasts /\ Ages /\ Orderly /\ Appends
  BY <1>1, <1>2, <1>3, PreparedFiles
<1>5. budget' \in Budgets
  BY <1>1 DEF IInv
<1> QED
  BY <1>1, <1>4, <1>5, OthersKeep

(***************************************************************************)
(* Writing the files of an edit.                                           *)
(***************************************************************************)
LEMMA WritesKeep ==
  ASSUME IInv, LockFree, NEW j \in Queued, NEW m, NEW s, EditOf(j, m, s), Write(m, s),
         UNCHANGED <<placed, submitted>>
  PROVE  FilesOK' /\ PlacedOK' /\ SubmittedOK' /\ WritingOK' /\ Lasts /\ Ages /\ Orderly /\ Appends
<1>1. /\ m \in Partial(JobFile) /\ s \in Partial(StateFile)
      /\ \A i \in DOMAIN m : i \in Queued /\ m[i].prepared = job[i].prepared /\ m[i].eligible \subseteq m[i].prepared
      /\ \A i \in DOMAIN s : i \in Queued /\ s[i].status = "queued" /\ s[i].revision = state[i].revision + 1
  BY DEF EditOf
<1>2. job \in [Jobs -> JobFile] /\ state \in [Jobs -> StateFile] /\ \A i \in Jobs : state[i].revision \in Nat
  BY DEF IInv, FilesOK, StateFile
<1>3. Appends /\ \A i \in Queued : i \in Jobs /\ state[i].status = "queued"
  BY DEF Appends, Queued
<1>4. writing' = [jobs |-> m, states |-> s] /\ UNCHANGED <<job, state>>
  BY DEF Write
<1>5. FilesOK' /\ PlacedOK' /\ SubmittedOK'
  BY <1>4 DEF IInv, FilesOK, PlacedOK, SubmittedOK
<1>6. /\ writing'.jobs = m /\ writing'.states = s
      /\ writing' \in [jobs: Partial(JobFile), states: Partial(StateFile)]
  BY <1>1, <1>4
<1>7. Queued' = Queued
  BY <1>4 DEF Queued
<1>8. WritingOK'
  <2>1. Queued \subseteq DOMAIN s \/ \A i \in DOMAIN m : SamePlace(m[i], job[i])
    BY DEF EditOf
  <2> QED
    BY <1>1, <1>4, <1>6, <1>7, <2>1 DEF WritingOK
<1>9. Lasts /\ Orderly
  BY <1>4 DEF Lasts, Orderly, SamePlace, SameLane
<1>10. Ages
  BY <1>2, <1>4 DEF Ages
<1> QED
  BY <1>3, <1>5, <1>8, <1>9, <1>10

LEMMA UpdateKeeps ==
  ASSUME IInv, LockFree, NEW j \in Queued, NEW kinds, NEW servers \in SUBSET job[j].prepared,
         Update(j, kinds, servers), UNCHANGED <<placed, submitted>>
  PROVE  /\ FilesOK' /\ PlacedOK' /\ SubmittedOK' /\ WritingOK' /\ Lasts /\ Ages /\ Orderly /\ Appends
         /\ budget' \in Budgets
<1>1. \/ UNCHANGED files /\ UNCHANGED budget
      \/ Spend("edits") /\ \E m, s : EditOf(j, m, s) /\ Write(m, s)
  BY EditsWrite DEF IInv
<1>2. CASE UNCHANGED files /\ UNCHANGED budget
  <2>1. budget' \in Budgets
    BY <1>2 DEF IInv
  <2> QED
    BY <1>2, <2>1, FilesAlone
<1>3. CASE Spend("edits") /\ \E m, s : EditOf(j, m, s) /\ Write(m, s)
  <2>1. budget' \in Budgets
    BY <1>3, Spending
  <2>2. PICK m, s : EditOf(j, m, s) /\ Write(m, s)
    BY <1>3
  <2>3. FilesOK' /\ PlacedOK' /\ SubmittedOK' /\ WritingOK' /\ Lasts /\ Ages /\ Orderly /\ Appends
    BY <2>2, WritesKeep
  <2> QED
    BY <2>1, <2>3
<1> QED
  BY <1>1, <1>2, <1>3

LEMMA EditKeeps ==
  ASSUME IInv, NEW c \in Clients, Edit(c)
  PROVE  IInv'
<1> DEFINE j == client[c].job
<1>1. LockFree /\ Asks(c, NoRequest) /\ UNCHANGED <<placed, submitted, dispatcher, history>>
  BY DEF Edit, Rest
<1> HIDE DEF j
<1>2. CASE Editable(c, j, client[c].revision) /\ ~Active(state[j])
  <2>1. \E kinds \in Requests :
          \E servers \in IF "servers" \in kinds THEN (SUBSET job[j].prepared) \ {{}} ELSE {{}} :
            Update(j, kinds, servers)
    BY <1>2 DEF Edit, j
  <2>2. PICK kinds \in Requests :
          \E servers \in IF "servers" \in kinds THEN (SUBSET job[j].prepared) \ {{}} ELSE {{}} :
            Update(j, kinds, servers)
    BY <2>1
  <2>3. PICK servers \in IF "servers" \in kinds THEN (SUBSET job[j].prepared) \ {{}} ELSE {{}} :
          Update(j, kinds, servers)
    BY <2>2
  <2>4. servers \in SUBSET job[j].prepared /\ j \in Queued
    BY <1>2 DEF Editable
  <2>5. /\ FilesOK' /\ PlacedOK' /\ SubmittedOK' /\ WritingOK' /\ Lasts /\ Ages /\ Orderly /\ Appends
        /\ budget' \in Budgets
    BY <1>1, <2>3, <2>4, UpdateKeeps
  <2> QED
    BY <1>1, <2>5, NoWish, AskersKeep
<1>3. CASE ~(Editable(c, j, client[c].revision) /\ ~Active(state[j]))
  <2>1. UNCHANGED <<files, budget>>
    BY <1>3 DEF Edit, j
  <2>2. FilesOK' /\ PlacedOK' /\ SubmittedOK' /\ WritingOK' /\ Lasts /\ Ages /\ Orderly /\ Appends
    BY <1>1, <2>1, FilesAlone
  <2>3. budget' \in Budgets
    BY <2>1 DEF IInv
  <2> QED
    BY <1>1, <2>2, <2>3, NoWish, AskersKeep
<1> QED
  BY <1>2, <1>3

LEMMA CommitKeeps ==
  ASSUME IInv, NEW c \in Clients, Commit(c)
  PROVE  IInv'
<1> DEFINE j == client[c].job
<1>1. LockFree /\ client[c].pc = "extended" /\ UNCHANGED <<placed, submitted, dispatcher, history>>
  BY DEF Commit, Rest, At
<1>2. /\ client[c] \in Wishes /\ j \in Jobs /\ state[j].status # "absent"
      /\ client[c].want \subseteq job[j].prepared
  BY <1>1, Wished DEF IInv, ClientsOK
<1> HIDE DEF j
<1>3. CASE Holds(c) /\ Editable(c, j, client[c].revision)
  <2>1. Asks(c, NoRequest) /\ \E kinds \in {k \in Requests : "servers" \in k} : Update(j, kinds, client[c].want)
    BY <1>3 DEF Commit, j
  <2>2. PICK kinds \in {k \in Requests : "servers" \in k} : Update(j, kinds, client[c].want)
    BY <2>1
  <2>3. client[c].want \in SUBSET job[j].prepared /\ j \in Queued
    BY <1>2, <1>3 DEF Editable
  <2>4. /\ FilesOK' /\ PlacedOK' /\ SubmittedOK' /\ WritingOK' /\ Lasts /\ Ages /\ Orderly /\ Appends
        /\ budget' \in Budgets
    BY <1>1, <2>2, <2>3, UpdateKeeps
  <2> QED
    BY <1>1, <2>1, <2>4, NoWish, AskersKeep
<1>4. CASE ~(Holds(c) /\ Editable(c, j, client[c].revision))
  <2> DEFINE new == [client[c] EXCEPT !.pc = "release"]
  <2>1. Asks(c, new) /\ UNCHANGED <<files, budget>>
    BY <1>4 DEF Commit, j
  <2>2. new \in Wishes /\ new.pc = "release" /\ new.job = j
    BY <1>2 DEF Wishes, j
  <2> HIDE DEF new
  <2>3. FilesOK' /\ PlacedOK' /\ SubmittedOK' /\ WritingOK' /\ Lasts /\ Ages /\ Orderly /\ Appends
    BY <1>1, <2>1, FilesAlone
  <2>4. budget' \in Budgets
    BY <2>1 DEF IInv
  <2> QED
    BY <1>1, <1>2, <2>1, <2>2, <2>3, <2>4, AskersKeep
<1> QED
  BY <1>3, <1>4

LEMMA WriteJobKeeps ==
  ASSUME IInv, WriteJob
  PROVE  IInv'
<1>1. UNCHANGED <<state, placed, submitted, client, dispatcher, budget>>
  BY DEF WriteJob
<1>2. PICK j \in DOMAIN writing.jobs :
        /\ job' = [job EXCEPT ![j] = writing.jobs[j]]
        /\ writing' = [writing EXCEPT !.jobs = Minus(writing.jobs, j)]
        /\ history' = IF SamePlace(writing.jobs[j], job[j]) THEN history
                      ELSE [wrote |-> history.wrote \cup {j},
                            mixed |-> history.mixed \cup (IF On("list") THEN {j} \ dispatcher.left ELSE {})]
  BY DEF WriteJob
<1>3. /\ writing \in [jobs: Partial(JobFile), states: Partial(StateFile)]
      /\ writing.jobs \in Partial(JobFile)
  BY DEF IInv, WritingOK
<1>4. /\ j \in Queued /\ j \in Jobs /\ writing.jobs[j] \in JobFile
      /\ writing.jobs[j].prepared = job[j].prepared
      /\ writing.jobs[j].eligible \subseteq writing.jobs[j].prepared
  BY <1>3, PartialIs DEF IInv, WritingOK, Queued
<1>5. job \in [Jobs -> JobFile]
  BY DEF IInv, FilesOK
<1>6. job' \in [Jobs -> JobFile] /\ job'[j] = writing.jobs[j] /\ \A i \in Jobs : i # j => job'[i] = job[i]
  BY <1>2, <1>4, <1>5
<1>7. \A i \in Jobs : job'[i].prepared = job[i].prepared
  BY <1>4, <1>6
<1>8. FilesOK'
  BY <1>1, <1>4, <1>6 DEF IInv, FilesOK
<1>9. PlacedOK' /\ SubmittedOK' /\ Appends /\ budget' \in Budgets
  BY <1>1 DEF IInv, PlacedOK, SubmittedOK, Appends
<1>10. Lasts
  BY <1>1, <1>7 DEF Lasts
<1>11. Ages
  BY <1>1 DEF IInv, FilesOK, StateFile, Ages
<1>12. WritingOK'
  <2> DEFINE left == Minus(writing.jobs, j)
  <2>1. left \in Partial(JobFile) /\ DOMAIN left = DOMAIN writing.jobs \ {j} /\ \A i \in DOMAIN left : left[i] = writing.jobs[i]
    BY <1>3, LessOne DEF Minus
  <2> HIDE DEF left
  <2>2. /\ writing' \in [jobs: Partial(JobFile), states: Partial(StateFile)]
        /\ writing'.jobs = left /\ writing'.states = writing.states
    BY <1>2, <1>3, <2>1 DEF left
  <2>3. \A i \in Queued : i \in Jobs
    BY DEF Queued
  <2>4. \A i \in DOMAIN left : i # j /\ i \in Jobs
    BY <1>3, <2>1, PartialIs
  <2>5. \A i \in DOMAIN left : job'[i] = job[i]
    BY <1>6, <2>4
  <2>6. \/ Queued \subseteq DOMAIN writing.states
        \/ \A i \in DOMAIN left : SamePlace(left[i], job'[i])
    BY <2>1, <2>5 DEF IInv, WritingOK
  <2> QED
    BY <1>1, <1>3, <1>7, <2>1, <2>2, <2>3, <2>6 DEF IInv, WritingOK, Queued
<1>13. /\ dispatcher' = dispatcher /\ Queued' = Queued /\ writing'.states = writing.states
       /\ state' = state /\ dispatcher \in Dispatchers /\ history \in Histories /\ ListsOK /\ PlacesOK
  BY <1>1, <1>2, <1>3 DEF Queued, IInv, OrderKnown, DispatcherOK
<1>14. history' \in Histories
  BY <1>2, <1>4, <1>13 DEF Histories
<1>15. DOMAIN dispatcher.rows \subseteq Jobs
  BY RowsAreJobs
<1>16. CASE SamePlace(writing.jobs[j], job[j])
  <2>1. history' = history /\ \A i \in Jobs : SamePlace(job'[i], job[i])
    BY <1>2, <1>6, <1>16 DEF SamePlace, SameLane
  <2>2. \A i \in Jobs : \A f : SamePlace(f, job[i]) => SamePlace(f, job'[i])
    BY <2>1 DEF SamePlace, SameLane
  <2>3. ListsOK'
    BY <1>13, <1>15, <2>1, <2>2 DEF ListsOK
  <2>4. PlacesOK'
    BY <1>13, <1>15, <2>1, <2>2 DEF PlacesOK, Elsewhere
  <2> QED
    BY <1>14, <2>3, <2>4, <1>1, <1>8, <1>9, <1>10, <1>11, <1>12, WritersKeep DEF OrderKnown
<1>17. CASE ~SamePlace(writing.jobs[j], job[j])
  <2>1. /\ history'.wrote = history.wrote \cup {j}
        /\ history'.mixed = history.mixed \cup (IF On("list") THEN {j} \ dispatcher.left ELSE {})
    BY <1>2, <1>17
  <2>2. history.mixed \subseteq history'.mixed
    BY <2>1
  <2>3. \A i \in Jobs : i # j => job'[i] = job[i]
    BY <1>6
  <2>4. ListsOK'
    <3> SUFFICES ASSUME dispatcher.pc = "list"
                 PROVE  /\ \A i \in DOMAIN dispatcher.rows \ history'.mixed : SamePlace(dispatcher.rows[i].file, job'[i])
                        /\ dispatcher.reading \in Jobs \ history'.mixed =>
                             SamePlace(dispatcher.file, job'[dispatcher.reading])
      BY <1>13 DEF ListsOK
    <3>1. j \in DOMAIN dispatcher.rows \cup {dispatcher.reading} => j \in history'.mixed
      BY <1>13, <2>1 DEF ListsOK, On
    <3> QED
      BY <1>13, <1>15, <2>2, <2>3, <3>1 DEF ListsOK
  <2>5. Queued \subseteq DOMAIN writing.states
    BY <1>17 DEF IInv, WritingOK
  <2>6. ASSUME NEW i \in DOMAIN dispatcher.rows \ history'.mixed
        PROVE  SamePlace(dispatcher.rows[i].file, job'[i]) \/ Elsewhere(i)'
    <3>1. CASE i = j
      BY <1>13, <2>1, <2>5, <3>1 DEF Elsewhere
    <3>2. CASE i # j
      <4>1. SamePlace(dispatcher.rows[i].file, job[i]) \/ Elsewhere(i)
        BY <1>13, <2>2 DEF PlacesOK
      <4> QED
        BY <1>13, <1>15, <2>1, <2>3, <3>2, <4>1 DEF Elsewhere
    <3> QED
      BY <3>1, <3>2
  <2>7. PlacesOK'
    BY <1>13, <2>6 DEF PlacesOK
  <2> QED
    BY <1>14, <2>4, <2>7, <1>1, <1>8, <1>9, <1>10, <1>11, <1>12, WritersKeep DEF OrderKnown
<1> QED
  BY <1>16, <1>17

LEMMA WriteStateKeeps ==
  ASSUME IInv, WriteState
  PROVE  IInv'
<1>1. UNCHANGED <<job, placed, submitted, client, dispatcher, budget>> /\ DOMAIN writing.jobs = {}
  BY DEF WriteState
<1>2. PICK j \in DOMAIN writing.states :
        /\ state' = [state EXCEPT ![j] = writing.states[j]]
        /\ writing' = [writing EXCEPT !.states = Minus(writing.states, j)]
  BY DEF WriteState
<1>3. /\ writing \in [jobs: Partial(JobFile), states: Partial(StateFile)]
      /\ writing.states \in Partial(StateFile)
  BY DEF IInv, WritingOK
<1>4. /\ j \in Queued /\ writing.states[j] \in StateFile
      /\ writing.states[j].status = "queued" /\ writing.states[j].revision = state[j].revision + 1
  BY <1>3, PartialIs DEF IInv, WritingOK
<1>5. j \in Jobs /\ state[j].status = "queued" /\ state[j].revision \in Nat /\ state \in [Jobs -> StateFile]
  BY <1>4 DEF IInv, FilesOK, StateFile, Queued
<1>6. /\ state' \in [Jobs -> StateFile] /\ state'[j] = writing.states[j]
      /\ \A i \in Jobs : i # j => state'[i] = state[i]
  BY <1>2, <1>4, <1>5
<1>7. \A i \in Jobs : state'[i].status = state[i].status
  BY <1>4, <1>5, <1>6
<1>8. FilesOK'
  <2>1. \A i \in Jobs : Active(state'[i]) => state'[i].status \in {"queued", "stopped"}
    BY <1>4, <1>6 DEF IInv, FilesOK
  <2>2. \A i \in Jobs : state'[i].status # "absent" => i \in ToSet(submitted)
    BY <1>7 DEF IInv, FilesOK
  <2> QED
    BY <1>1, <1>6, <2>1, <2>2 DEF IInv, FilesOK
<1>9. PlacedOK' /\ Appends /\ budget' \in Budgets
  BY <1>1, <1>7 DEF IInv, PlacedOK, Appends
<1>10. SubmittedOK'
  <2>1. ASSUME NEW i \in ToSet(submitted) PROVE state'[i].status # "absent"
    <3>1. i \in Jobs /\ state[i].status # "absent"
      BY DEF IInv, FilesOK, SubmittedOK, ToSet
    <3> QED
      BY <1>7, <3>1
  <2> QED
    BY <1>1, <2>1 DEF IInv, SubmittedOK
<1>11. Lasts
  BY <1>1, <1>7 DEF Lasts
<1>12. Ages
  <2>1. \A i \in Jobs : state[i].revision \in Nat
    BY DEF IInv, FilesOK, StateFile
  <2> QED
    BY <1>4, <1>6, <1>7, <2>1 DEF Ages
<1>13. WritingOK'
  <2> DEFINE left == Minus(writing.states, j)
  <2>1. /\ left \in Partial(StateFile) /\ DOMAIN left = DOMAIN writing.states \ {j}
        /\ \A i \in DOMAIN left : left[i] = writing.states[i]
    BY <1>3, LessOne DEF Minus
  <2> HIDE DEF left
  <2>2. /\ writing' \in [jobs: Partial(JobFile), states: Partial(StateFile)]
        /\ writing'.states = left /\ writing'.jobs = writing.jobs
    BY <1>2, <1>3, <2>1 DEF left
  <2>3. Queued' = Queued /\ \A i \in Queued : i \in Jobs
    BY <1>7 DEF Queued
  <2> QED
    BY <1>1, <1>3, <1>6, <2>1, <2>2, <2>3 DEF WritingOK, IInv
<1>14. /\ history' \in Histories /\ history'.mixed = history.mixed
       /\ history'.wrote = history.wrote \/ writing'.states = Nothing
  <2>1. history' = IF writing' = NothingToWrite THEN [history EXCEPT !.wrote = {}] ELSE history
    BY DEF WriteState
  <2> QED
    BY <2>1 DEF IInv, OrderKnown, Histories, NothingToWrite
<1>15. /\ dispatcher' = dispatcher /\ Queued' = Queued /\ job' = job
       /\ DOMAIN dispatcher.rows \subseteq Jobs /\ ListsOK /\ PlacesOK
  BY <1>1, <1>7, RowsAreJobs DEF Queued, IInv, OrderKnown
<1>16. ListsOK'
  BY <1>7, <1>14, <1>15 DEF ListsOK
<1>17. DOMAIN writing'.states = DOMAIN writing.states \ {j}
  <2>1. DOMAIN Minus(writing.states, j) = DOMAIN writing.states \ {j}
    BY DEF Minus
  <2> QED
    BY <1>2, <1>3, <2>1
<1>18. ASSUME NEW i, Elsewhere(i) PROVE Elsewhere(i)'
  <2> SUFFICES ASSUME NEW k \in DOMAIN dispatcher.rows \cap Queued
               PROVE  \/ dispatcher.rows[k].revision < state'[k].revision
                      \/ i \in history'.wrote /\ k \in DOMAIN writing'.states
    BY <1>15 DEF Elsewhere
  <2>1. /\ dispatcher.rows[k].revision < state[k].revision \/ (i \in history.wrote /\ k \in DOMAIN writing.states)
        /\ dispatcher.rows[k].revision \in Nat /\ dispatcher.rows[k].revision <= state[k].revision
        /\ state[k].revision \in Nat
    BY <1>15, <1>18, RowsAreJobs DEF Elsewhere, IInv, RowsOK, FilesOK, StateFile
  <2>2. CASE k = j
    BY <1>4, <1>5, <1>6, <2>1, <2>2
  <2>3. CASE k # j
    <3>1. state'[k] = state[k]
      BY <1>6, <1>15, <2>3
    <3>2. k \in DOMAIN writing.states => k \in DOMAIN writing'.states
      BY <1>17, <2>3
    <3>3. DOMAIN Nothing = {}
      BY NothingIsPartial
    <3> QED
      BY <1>14, <2>1, <3>1, <3>2, <3>3
  <2> QED
    BY <2>2, <2>3
<1>19. PlacesOK'
  BY <1>14, <1>15, <1>18 DEF PlacesOK
<1> QED
  BY <1>1, <1>8, <1>9, <1>10, <1>11, <1>12, <1>13, <1>14, <1>16, <1>19, WritersKeep DEF OrderKnown

LEMMA EditTearsKeeps ==
  ASSUME IInv, EditTears
  PROVE  IInv'
<1>1. writing' = NothingToWrite /\ UNCHANGED <<job, state, placed, submitted, client, dispatcher>>
  BY DEF EditTears
<1>2. FilesOK' /\ PlacedOK' /\ SubmittedOK' /\ Appends
  BY <1>1 DEF IInv, FilesOK, PlacedOK, SubmittedOK, Appends
<1>3. Lasts
  BY <1>1 DEF Lasts
<1>4. Ages
  BY <1>1 DEF IInv, FilesOK, StateFile, Ages
<1>5. WritingOK'
  <2>1. Nothing \in Partial(JobFile) /\ Nothing \in Partial(StateFile) /\ DOMAIN Nothing = {}
    BY NothingIsPartial
  <2> HIDE DEF Nothing
  <2>2. /\ writing'.jobs = Nothing /\ writing'.states = Nothing /\ LockFree'
        /\ writing' \in [jobs: Partial(JobFile), states: Partial(StateFile)]
    BY <1>1, <2>1 DEF NothingToWrite, LockFree
  <2> QED
    BY <2>1, <2>2 DEF WritingOK
<1>6. budget' \in Budgets
  BY Spending DEF EditTears
<1>7. /\ history' \in Histories /\ history'.mixed = history.mixed \cup history.wrote
      /\ ListsOK /\ PlacesOK
  BY DEF EditTears, IInv, OrderKnown, Histories
<1>8. ListsOK'
  BY <1>1, <1>7 DEF ListsOK
<1>9. PlacesOK'
  BY <1>1, <1>7 DEF PlacesOK, Elsewhere, Queued
<1> QED
  BY <1>1, <1>2, <1>3, <1>4, <1>5, <1>6, <1>7, <1>8, <1>9, WritersKeep DEF OrderKnown

(***************************************************************************)
(* Every step keeps the invariant.                                         *)
(***************************************************************************)
\* Every handler of the queue, and every death among the writes of one, keeps the
\* invariant.
THEOREM StepsKeep ==
  IInv /\ [Next]_vars => IInv'
<1> SUFFICES ASSUME IInv, [Next]_vars PROVE IInv'
  OBVIOUS
<1>1. ASSUME NEW j \in Jobs, Submit(j) \/ StopQueued(j) \/ Launched(j) \/ Recover(j) \/ ExpireUpdate(j) \/ ExtendAll(j)
      PROVE  IInv'
  BY <1>1, SubmitKeeps, StopQueuedKeeps, LaunchedKeeps, RecoverKeeps, ExpireUpdateKeeps, ExtendAllKeeps
<1>2. CASE WriteJob \/ WriteState \/ EditTears
  BY <1>2, WriteJobKeeps, WriteStateKeeps, EditTearsKeeps
<1>3. ASSUME NEW c \in Clients, NEW j \in Jobs, Look(c, j) PROVE IInv'
  BY <1>3, LookKeeps
<1>4. ASSUME NEW c \in Clients,
             Edit(c) \/ Reserve(c) \/ Extend(c) \/ PreparationFails(c) \/ Commit(c) \/ Release(c) \/ ClientDies(c)
      PROVE  IInv'
  BY <1>4, EditKeeps, ReserveKeeps, ExtendKeeps, PreparationFailsKeeps, CommitKeeps, ReleaseKeeps, ClientDiesKeeps
<1>5. CASE List \/ ReadJob \/ ReadState \/ Probe \/ PlanNext \/ Planned \/ EndBatch
  BY <1>5, ListKeeps, ReadJobKeeps, ReadStateKeeps, ProbeKeeps, PlanNextKeeps, PlannedKeeps, EndBatchKeeps
<1>6. ASSUME NEW j \in Jobs, Unreserved(j) \/ Mark(j) PROVE IInv'
  BY <1>6, UnreservedKeeps, MarkKeeps
<1>7. CASE UNCHANGED vars
  <2>1. UNCHANGED <<files, placed, submitted, client, dispatcher, history, budget>>
    BY <1>7 DEF vars
  <2>2. FilesOK' /\ PlacedOK' /\ SubmittedOK' /\ WritingOK' /\ Lasts /\ Ages /\ Orderly /\ Appends
    BY <2>1, FilesAlone
  <2>3. budget' \in Budgets
    BY <2>1 DEF IInv
  <2> QED
    BY <2>1, <2>2, <2>3, OthersKeep
<1> QED
  BY <1>1, <1>2, <1>3, <1>4, <1>5, <1>6, <1>7 DEF Next

\* The invariant holds in every state that the queue reaches.
THEOREM Invariance ==
  Spec => []IInv
<1> QED
  BY Starts, StepsKeep, PTL DEF Spec

\* Type correctness: in every state of the queue its files have the form that the code
\* gives them, a job may run only where it was prepared, and it has a place exactly
\* while it is dispatched.
THEOREM TypeCorrect ==
  Spec => []TypeOK
<1> QED
  BY Invariance, InvariantIsTyped, PTL

(***************************************************************************)
(* A placement update holds its job.                                       *)
(***************************************************************************)
Held(j) ==
  /\ state'[j].status # "dispatching"
  /\ LockFree /\ Placement(Current'[j]) # Placement(Current[j]) => client'[state[j].update] # client[state[j].update]

LEMMA CurrentIs ==
  ASSUME IInv, NEW j \in Jobs
  PROVE  Current[j] = IF j \in DOMAIN writing.jobs THEN writing.jobs[j] ELSE job[j]
<1>1. job \in [Jobs -> JobFile] /\ writing.jobs \in Partial(JobFile)
  BY DEF IInv, FilesOK, WritingOK
<1> QED
  BY <1>1, WithFiles DEF Current

LEMMA HeldAlone ==
  ASSUME IInv, NEW j \in Jobs, Active(state[j]), UNCHANGED <<job, writing>>, state'[j].status # "dispatching"
  PROVE  Held(j)
BY DEF Held, Current

LEMMA ActiveIsQueued ==
  ASSUME IInv, NEW j \in Jobs, Active(state[j])
  PROVE  state[j].status \in {"queued", "stopped"} /\ state[j].update \in Clients
BY DEF IInv, FilesOK, Active, StateFile

\* An edit says nothing new about where other jobs may run.
LEMMA EditsHoldOthers ==
  ASSUME IInv, IInv', LockFree, NEW i \in Queued, NEW kinds, NEW servers \in SUBSET job[i].prepared,
         Update(i, kinds, servers), NEW j \in Jobs, Active(state[j])
  PROVE  state'[j].status # "dispatching" /\ (i # j => Placement(Current'[j]) = Placement(Current[j]))
<1>1. \/ UNCHANGED files /\ UNCHANGED budget
      \/ Spend("edits") /\ \E m, s : EditOf(i, m, s) /\ Write(m, s)
  BY EditsWrite DEF IInv
<1>2. CASE UNCHANGED files
  BY <1>2, ActiveIsQueued DEF files, Current
<1>3. CASE \E m, s : EditOf(i, m, s) /\ Write(m, s)
  <2>1. PICK m, s : EditOf(i, m, s) /\ Write(m, s)
    BY <1>3
  <2>2. /\ m \in Partial(JobFile) /\ s \in Partial(StateFile)
        /\ \A k \in DOMAIN m : k # i => SameButPosition(m[k], job[k])
        /\ \A k \in DOMAIN s : s[k].status = "queued"
    BY <2>1 DEF EditOf
  <2>3. job \in [Jobs -> JobFile] /\ state \in [Jobs -> StateFile] /\ state[j].status # "dispatching"
    BY ActiveIsQueued DEF IInv, FilesOK
  <2>4. Current[j] = job[j]
    <3>1. DOMAIN Nothing = {}
      BY NothingIsPartial
    <3>2. DOMAIN writing.jobs = {}
      BY <3>1 DEF LockFree, NothingToWrite
    <3> QED
      BY <3>2, CurrentIs
  <2>5. Current'[j] = (IF j \in DOMAIN m THEN m[j] ELSE job[j]) /\ state'[j].status # "dispatching"
    <3>1. writing' = [jobs |-> m, states |-> s] /\ UNCHANGED <<job, state>>
      BY <2>1 DEF Write
    <3>2. Current' = With(job, m)
      BY <3>1 DEF Current
    <3> QED
      BY <2>2, <2>3, <3>1, <3>2, WithFiles
  <2>6. ASSUME i # j PROVE Placement(Current'[j]) = Placement(Current[j])
    <3>1. CASE j \in DOMAIN m
      <4>1. SameButPosition(m[j], job[j])
        BY <2>2, <2>6, <3>1
      <4>2. /\ m[j].class = job[j].class /\ m[j].priority = job[j].priority
            /\ m[j].eligible = job[j].eligible /\ m[j].prepared = job[j].prepared
        BY <4>1 DEF SameButPosition
      <4> QED
        BY <2>4, <2>5, <3>1, <4>2 DEF Placement
    <3>2. CASE j \notin DOMAIN m
      BY <2>4, <2>5, <3>2
    <3> QED
      BY <3>1, <3>2
  <2> QED
    BY <2>5, <2>6
<1> QED
  BY <1>1, <1>2, <1>3

LEMMA PreparationHolds ==
  ASSUME IInv, NEW i \in Queued, NEW servers, Prepare(i, servers), UNCHANGED writing,
         NEW j \in Jobs, j # i
  PROVE  Current'[j] = Current[j]
<1>1. job \in [Jobs -> JobFile] /\ i \in Jobs
  BY DEF IInv, FilesOK, Queued
<1>2. DOMAIN job' = Jobs /\ job'[j] = job[j] /\ DOMAIN job = Jobs
  BY <1>1 DEF Prepare
<1> QED
  BY <1>2 DEF Current, With

LEMMA ClientsHold ==
  ASSUME IInv, IInv', NEW j \in Jobs, Active(state[j]), NEW c \in Clients,
         Edit(c) \/ Reserve(c) \/ Extend(c) \/ PreparationFails(c) \/ Commit(c) \/ Release(c) \/ ClientDies(c)
  PROVE  Held(j)
<1>0. state[j].status # "dispatching" /\ state[j].update \in Clients
  BY ActiveIsQueued
<1> DEFINE i == client[c].job
<1>1. CASE Edit(c)
  <2>1. LockFree /\ At(c, "looked")
    BY <1>1 DEF Edit
  <2>2. CASE Editable(c, i, client[c].revision) /\ ~Active(state[i])
    <3> HIDE DEF i
    <3>1. PICK kinds \in Requests :
            \E servers \in IF "servers" \in kinds THEN (SUBSET job[i].prepared) \ {{}} ELSE {{}} :
              Update(i, kinds, servers)
      BY <1>1, <2>2 DEF Edit, i
    <3>2. PICK servers \in IF "servers" \in kinds THEN (SUBSET job[i].prepared) \ {{}} ELSE {{}} :
            Update(i, kinds, servers)
      BY <3>1
    <3>3. servers \in SUBSET job[i].prepared /\ i \in Queued
      BY <2>2 DEF Editable
    <3>4. state'[j].status # "dispatching" /\ (i # j => Placement(Current'[j]) = Placement(Current[j]))
      BY <2>1, <3>2, <3>3, EditsHoldOthers
    <3> QED
      BY <2>2, <3>4 DEF Held
  <2>3. CASE ~(Editable(c, i, client[c].revision) /\ ~Active(state[i]))
    <3>1. UNCHANGED files
      BY <1>1, <2>3 DEF Edit
    <3> QED
      BY <1>0, <3>1, HeldAlone DEF files
  <2> QED
    BY <2>2, <2>3
<1>2. CASE Reserve(c)
  <2>1. /\ UNCHANGED <<job, writing>>
        /\ \/ UNCHANGED state
           \/ state' = [state EXCEPT ![i].revision = @ + 1, ![i].update = c, ![i].live = TRUE]
    BY <1>2 DEF Reserve
  <2>2. i \in Jobs /\ state \in [Jobs -> StateFile]
    BY <1>2, Wished DEF Reserve, At, IInv, FilesOK
  <2>3. CASE UNCHANGED state
    BY <1>0, <2>1, <2>3, HeldAlone
  <2>4. CASE state' = [state EXCEPT ![i].revision = @ + 1, ![i].update = c, ![i].live = TRUE]
    <3> DEFINE x == [state[i] EXCEPT !.revision = @ + 1, !.update = c, !.live = TRUE]
    <3>1. state[i] \in StateFile
      BY <2>2
    <3>2. x.status = state[i].status
      BY <3>1 DEF StateFile
    <3> HIDE DEF i
    <3>3. state' = [state EXCEPT ![i] = x]
      BY <2>2, <2>4
    <3> HIDE DEF x
    <3>4. state'[j].status = state[j].status
      BY <2>2, <3>2, <3>3
    <3> QED
      BY <1>0, <2>1, <3>4, HeldAlone
  <2> QED
    BY <2>1, <2>3, <2>4
<1>3. CASE Extend(c)
  <2>1. LockFree /\ client[c].pc = "reserved" /\ UNCHANGED <<state, writing>>
    BY <1>3 DEF Extend, At
  <2>2. CASE i \in Queued /\ Holds(c)
    <3>1. Prepare(i, client[c].want) /\ Asks(c, [client[c] EXCEPT !.pc = "extended"])
      BY <1>3, <2>2 DEF Extend
    <3>2. CASE i = j
      <4>1. state[j].update = c
        BY <2>2, <3>2 DEF Holds
      <4>2. client'[c].pc = "extended"
        BY <3>1 DEF Asks, IInv, ClientsOK, Wishes
      <4>3. client'[c] # client[c]
        BY <2>1, <4>2
      <4> QED
        BY <1>0, <2>1, <4>1, <4>3 DEF Held
    <3>3. CASE i # j
      <4>1. Current'[j] = Current[j]
        BY <2>1, <2>2, <3>1, <3>3, PreparationHolds
      <4> QED
        BY <1>0, <2>1, <4>1 DEF Held
    <3> QED
      BY <3>2, <3>3
  <2>3. CASE ~(i \in Queued /\ Holds(c))
    <3>1. UNCHANGED job
      BY <1>3, <2>3 DEF Extend
    <3> QED
      BY <1>0, <2>1, <3>1, HeldAlone
  <2> QED
    BY <2>2, <2>3
<1>4. CASE Commit(c)
  <2>1. LockFree /\ client[c].pc = "extended"
    BY <1>4 DEF Commit, At
  <2>2. CASE Holds(c) /\ Editable(c, i, client[c].revision)
    <3>1. Asks(c, NoRequest) /\ \E kinds \in {k \in Requests : "servers" \in k} : Update(i, kinds, client[c].want)
      BY <1>4, <2>2 DEF Commit
    <3>2. PICK kinds \in {k \in Requests : "servers" \in k} : Update(i, kinds, client[c].want)
      BY <3>1
    <3>3. client[c].want \in SUBSET job[i].prepared /\ i \in Queued
      BY <2>1, <2>2 DEF IInv, ClientsOK, Editable
    <3>4. state'[j].status # "dispatching" /\ (i # j => Placement(Current'[j]) = Placement(Current[j]))
      <4> HIDE DEF i
      <4> QED
        BY <2>1, <3>2, <3>3, EditsHoldOthers
    <3>5. CASE i = j
      <4>1. state[j].update = c
        BY <2>2, <3>5 DEF Holds
      <4>2. client'[c].pc = "idle"
        BY <3>1, NoWish DEF Asks, IInv, ClientsOK
      <4>3. client'[c] # client[c]
        BY <2>1, <4>2
      <4> QED
        BY <3>4, <4>1, <4>3 DEF Held
    <3>6. CASE i # j
      BY <3>4, <3>6 DEF Held
    <3> QED
      BY <3>5, <3>6
  <2>3. CASE ~(Holds(c) /\ Editable(c, i, client[c].revision))
    <3>1. UNCHANGED files
      BY <1>4, <2>3 DEF Commit
    <3> QED
      BY <1>0, <3>1, HeldAlone DEF files
  <2> QED
    BY <2>2, <2>3
<1>5. CASE Release(c)
  <2>1. /\ UNCHANGED <<job, writing>>
        /\ \/ UNCHANGED state
           \/ state' = [state EXCEPT ![i].update = NoClient, ![i].live = FALSE, ![i].revision = @ + 1]
    BY <1>5 DEF Release
  <2>2. i \in Jobs /\ state \in [Jobs -> StateFile]
    BY <1>5, Wished DEF Release, At, IInv, FilesOK
  <2>3. CASE UNCHANGED state
    BY <1>0, <2>1, <2>3, HeldAlone
  <2>4. CASE state' = [state EXCEPT ![i].update = NoClient, ![i].live = FALSE, ![i].revision = @ + 1]
    <3> DEFINE x == [state[i] EXCEPT !.update = NoClient, !.live = FALSE, !.revision = @ + 1]
    <3>1. state[i] \in StateFile
      BY <2>2
    <3>2. x.status = state[i].status
      BY <3>1 DEF StateFile
    <3> HIDE DEF i
    <3>3. state' = [state EXCEPT ![i] = x]
      BY <2>2, <2>4
    <3> HIDE DEF x
    <3>4. state'[j].status = state[j].status
      BY <2>2, <3>2, <3>3
    <3> QED
      BY <1>0, <2>1, <3>4, HeldAlone
  <2> QED
    BY <2>1, <2>3, <2>4
<1>6. CASE PreparationFails(c) \/ ClientDies(c)
  <2>1. UNCHANGED files
    BY <1>6 DEF PreparationFails, ClientDies
  <2> QED
    BY <1>0, <2>1, HeldAlone DEF files
<1> QED
  BY <1>1, <1>2, <1>3, <1>4, <1>5, <1>6

LEMMA OthersHold ==
  ASSUME IInv, IInv', NEW j \in Jobs, Active(state[j]), NEW i \in Jobs,
         \/ Submit(i) \/ StopQueued(i) \/ Launched(i) \/ Recover(i) \/ ExpireUpdate(i) \/ ExtendAll(i)
         \/ Unreserved(i) \/ Mark(i)
  PROVE  Held(j)
<1>0. state[j].status \in {"queued", "stopped"} /\ state[j].update \in Clients
  BY ActiveIsQueued
<1>1. CASE Submit(i)
  <2>1. state[i].status = "absent" /\ state' = [state EXCEPT ![i].status = "queued"] /\ UNCHANGED writing
    BY <1>1 DEF Submit
  <2>2. i # j
    BY <1>0, <2>1
  <2>3. state'[j] = state[j]
    BY <2>1, <2>2 DEF IInv, FilesOK
  <2>4. PICK f : job' = [job EXCEPT ![i] = f]
    BY <1>1 DEF Submit
  <2>5. job'[j] = job[j] /\ DOMAIN job' = Jobs /\ DOMAIN job = Jobs
    BY <2>2, <2>4 DEF IInv, FilesOK
  <2>6. Current'[j] = Current[j]
    BY <2>1, <2>5 DEF Current, With
  <2> QED
    BY <1>0, <2>3, <2>6 DEF Held
<1>2. ASSUME NEW from, NEW to \in {"queued", "dispatched", "stopped"}, Moves(i, from, to) PROVE Held(j)
  <2>1. /\ UNCHANGED <<job, writing>> /\ state'[i].status = to
        /\ \A k \in Jobs : k # i => state'[k] = state[k]
    BY <1>2, MovedState
  <2>2. state'[j].status # "dispatching"
    BY <1>0, <2>1
  <2> QED
    BY <2>1, <2>2, HeldAlone
<1>3. CASE StopQueued(i) \/ Launched(i) \/ Recover(i)
  BY <1>2, <1>3 DEF StopQueued, Launched, Recover
<1>4. CASE ExpireUpdate(i)
  <2>1. UNCHANGED <<job, writing>> /\ state' = [state EXCEPT ![i].live = FALSE]
    BY <1>4 DEF ExpireUpdate
  <2>2. state'[j].status = state[j].status
    BY <2>1 DEF IInv, FilesOK, StateFile
  <2> QED
    BY <1>0, <2>1, <2>2, HeldAlone
<1>5. CASE ExtendAll(i)
  <2>1. i \in Queued /\ ~Active(state[i]) /\ UNCHANGED <<state, writing>>
    BY <1>5 DEF ExtendAll
  <2>2. PICK m \in Machines \ job[i].prepared : Prepare(i, {m})
    BY <1>5 DEF ExtendAll
  <2>3. Current'[j] = Current[j]
    BY <2>1, <2>2, PreparationHolds
  <2> QED
    BY <1>0, <2>1, <2>3 DEF Held
<1>6. CASE Unreserved(i)
  <2>1. UNCHANGED <<job, writing, state>>
    BY <1>6 DEF Unreserved, Users
  <2> QED
    BY <1>0, <2>1, HeldAlone
<1>7. CASE Mark(i)
  <2>1. UNCHANGED <<job, writing>> /\ i \in DOMAIN dispatcher.rows
    BY <1>7 DEF Mark, Users, IInv, DispatcherOK
  <2>2. CASE Unchanged(i)
    <3>1. i # j
      BY <2>1, <2>2 DEF Unchanged, IInv, RowsOK
    <3>2. state' = [state EXCEPT ![i].status = "dispatching", ![i].revision = @ + 1]
      BY <1>7, <2>2 DEF Mark
    <3>3. state'[j] = state[j]
      BY <3>1, <3>2 DEF IInv, FilesOK
    <3> QED
      BY <1>0, <2>1, <3>3, HeldAlone
  <2>3. CASE ~Unchanged(i)
    <3>1. UNCHANGED state
      BY <1>7, <2>3 DEF Mark
    <3> QED
      BY <1>0, <2>1, <3>1, HeldAlone
  <2> QED
    BY <2>2, <2>3
<1> QED
  BY <1>1, <1>3, <1>4, <1>5, <1>6, <1>7

LEMMA StepsHold ==
  ASSUME IInv, IInv', [Next]_vars, NEW j \in Jobs, Active(state[j])
  PROVE  Held(j)
<1>0. state[j].status \in {"queued", "stopped"}
  BY ActiveIsQueued
<1>1. CASE WriteJob
  <2>1. DOMAIN writing.jobs # {} /\ UNCHANGED state
    BY <1>1 DEF WriteJob
  <2>2. ~LockFree
    BY <2>1, NothingIsPartial DEF LockFree, NothingToWrite
  <2> QED
    BY <1>0, <2>1, <2>2 DEF Held
<1>2. CASE WriteState
  <2>1. PICK i \in DOMAIN writing.states : state' = [state EXCEPT ![i] = writing.states[i]]
    BY <1>2 DEF WriteState
  <2>2. DOMAIN writing.states # {}
    BY <2>1
  <2>3. ~LockFree
    BY <2>2, NothingIsPartial DEF LockFree, NothingToWrite
  <2>4. state'[j].status # "dispatching"
    BY <1>0, <2>1 DEF IInv, FilesOK, WritingOK, Queued
  <2> QED
    BY <2>3, <2>4 DEF Held
<1>3. CASE EditTears
  <2>1. ~LockFree /\ UNCHANGED state
    BY <1>3 DEF EditTears
  <2> QED
    BY <1>0, <2>1 DEF Held
<1>4. CASE List \/ ReadJob \/ ReadState \/ Probe \/ PlanNext \/ Planned \/ EndBatch
  <2>1. UNCHANGED <<job, writing, state>>
    BY <1>4 DEF List, ReadJob, ReadState, Probe, PlanNext, Planned, EndBatch, Users
  <2> QED
    BY <1>0, <2>1, HeldAlone
<1>5. ASSUME NEW c \in Clients, NEW i \in Jobs, Look(c, i) PROVE Held(j)
  <2>1. UNCHANGED files
    BY <1>5 DEF Look
  <2> QED
    BY <1>0, <2>1, HeldAlone DEF files
<1>6. CASE UNCHANGED vars
  BY <1>0, <1>6, HeldAlone DEF vars, files
<1> QED
  BY <1>1, <1>2, <1>3, <1>4, <1>5, <1>6, ClientsHold, OthersHold DEF Next

\* A placement update holds its job: while it lasts no dispatcher takes the job, and
\* where the job may run changes only at the hand of the client that holds the update,
\* in a queue of any size under any edits, deaths and expiries.
THEOREM UpdateKeepsJob ==
  Spec => UpdateHoldsJob
<1>1. ASSUME IInv, IInv', [Next]_vars
      PROVE  [\A j \in Jobs : Active(state[j]) =>
                /\ state'[j].status # "dispatching"
                /\ LockFree /\ Placement(Current'[j]) # Placement(Current[j]) =>
                     client'[state[j].update] # client[state[j].update]]_vars
  BY <1>1, StepsHold DEF Held
<1> QED
  BY <1>1, Invariance, PTL DEF Spec, UpdateHoldsJob

(***************************************************************************)
(* Nobody is overtaken.                                                    *)
(***************************************************************************)
LEMMA EditsTakeNobody ==
  ASSUME IInv, NEW i \in Queued, NEW kinds, NEW servers \in SUBSET job[i].prepared,
         Update(i, kinds, servers), NEW j \in Jobs, state[j].status = "queued"
  PROVE  state'[j].status = "queued"
<1>1. \/ UNCHANGED files /\ UNCHANGED budget
      \/ Spend("edits") /\ \E m, s : EditOf(i, m, s) /\ Write(m, s)
  BY EditsWrite DEF IInv
<1>2. CASE UNCHANGED files
  BY <1>2 DEF files
<1>3. CASE \E m, s : EditOf(i, m, s) /\ Write(m, s)
  <2>1. PICK m, s : EditOf(i, m, s) /\ Write(m, s)
    BY <1>3
  <2>2. s \in Partial(StateFile) /\ \A k \in DOMAIN s : s[k].status = "queued"
    BY <2>1 DEF EditOf
  <2>3. state \in [Jobs -> StateFile]
    BY DEF IInv, FilesOK
  <2> QED
    BY <2>1 DEF Write
<1> QED
  BY <1>1, <1>2, <1>3

LEMMA ClientsTakeNobody ==
  ASSUME IInv, NEW j \in Jobs, state[j].status = "queued", NEW c \in Clients,
         Edit(c) \/ Reserve(c) \/ Extend(c) \/ PreparationFails(c) \/ Commit(c) \/ Release(c) \/ ClientDies(c)
  PROVE  state'[j].status = "queued"
<1> DEFINE i == client[c].job
<1>0. state \in [Jobs -> StateFile]
  BY DEF IInv, FilesOK
<1>1. CASE Edit(c)
  <2>1. CASE Editable(c, i, client[c].revision) /\ ~Active(state[i])
    <3> HIDE DEF i
    <3>1. PICK kinds \in Requests :
            \E servers \in IF "servers" \in kinds THEN (SUBSET job[i].prepared) \ {{}} ELSE {{}} :
              Update(i, kinds, servers)
      BY <1>1, <2>1 DEF Edit, i
    <3>2. PICK servers \in IF "servers" \in kinds THEN (SUBSET job[i].prepared) \ {{}} ELSE {{}} :
            Update(i, kinds, servers)
      BY <3>1
    <3>3. servers \in SUBSET job[i].prepared /\ i \in Queued
      BY <2>1 DEF Editable
    <3> QED
      BY <3>2, <3>3, EditsTakeNobody
  <2>2. CASE ~(Editable(c, i, client[c].revision) /\ ~Active(state[i]))
    BY <1>1, <2>2 DEF Edit, files
  <2> QED
    BY <2>1, <2>2
<1>2. CASE Reserve(c)
  <2>1. i \in Jobs
    BY <1>2, Wished DEF Reserve, At
  <2>2. \/ UNCHANGED state
        \/ state' = [state EXCEPT ![i].revision = @ + 1, ![i].update = c, ![i].live = TRUE]
    BY <1>2 DEF Reserve
  <2>3. CASE state' = [state EXCEPT ![i].revision = @ + 1, ![i].update = c, ![i].live = TRUE]
    <3> DEFINE x == [state[i] EXCEPT !.revision = @ + 1, !.update = c, !.live = TRUE]
    <3>1. x.status = state[i].status
      BY <1>0, <2>1 DEF StateFile
    <3> HIDE DEF i
    <3>2. state' = [state EXCEPT ![i] = x]
      BY <1>0, <2>1, <2>3
    <3> HIDE DEF x
    <3> QED
      BY <1>0, <2>1, <3>1, <3>2
  <2> QED
    BY <2>2, <2>3
<1>3. CASE Commit(c)
  <2>1. CASE Holds(c) /\ Editable(c, i, client[c].revision)
    <3>1. PICK kinds \in {k \in Requests : "servers" \in k} : Update(i, kinds, client[c].want)
      BY <1>3, <2>1 DEF Commit
    <3>2. client[c].want \in SUBSET job[i].prepared /\ i \in Queued
      BY <1>3, <2>1 DEF Commit, At, IInv, ClientsOK, Editable
    <3> HIDE DEF i
    <3> QED
      BY <3>1, <3>2, EditsTakeNobody
  <2>2. CASE ~(Holds(c) /\ Editable(c, i, client[c].revision))
    BY <1>3, <2>2 DEF Commit, files
  <2> QED
    BY <2>1, <2>2
<1>4. CASE Release(c)
  <2>1. i \in Jobs
    BY <1>4, Wished DEF Release, At
  <2>2. \/ UNCHANGED state
        \/ state' = [state EXCEPT ![i].update = NoClient, ![i].live = FALSE, ![i].revision = @ + 1]
    BY <1>4 DEF Release
  <2>3. CASE state' = [state EXCEPT ![i].update = NoClient, ![i].live = FALSE, ![i].revision = @ + 1]
    <3> DEFINE x == [state[i] EXCEPT !.update = NoClient, !.live = FALSE, !.revision = @ + 1]
    <3>1. x.status = state[i].status
      BY <1>0, <2>1 DEF StateFile
    <3> HIDE DEF i
    <3>2. state' = [state EXCEPT ![i] = x]
      BY <1>0, <2>1, <2>3
    <3> HIDE DEF x
    <3> QED
      BY <1>0, <2>1, <3>1, <3>2
  <2> QED
    BY <2>2, <2>3
<1>5. CASE Extend(c) \/ PreparationFails(c) \/ ClientDies(c)
  BY <1>5 DEF Extend, PreparationFails, ClientDies, files
<1> QED
  BY <1>1, <1>2, <1>3, <1>4, <1>5

LEMMA OthersTakeNobody ==
  ASSUME IInv, NEW j \in Jobs, state[j].status = "queued", NEW i \in Jobs,
         \/ Submit(i) \/ StopQueued(i) \/ Launched(i) \/ Recover(i) \/ ExpireUpdate(i) \/ ExtendAll(i)
         \/ Unreserved(i)
  PROVE  state'[j].status # "dispatching"
<1>0. state \in [Jobs -> StateFile]
  BY DEF IInv, FilesOK
<1>1. CASE Submit(i)
  <2>1. state[i].status = "absent" /\ state' = [state EXCEPT ![i].status = "queued"]
    BY <1>1 DEF Submit
  <2>2. i # j
    BY <2>1
  <2> QED
    BY <1>0, <2>1, <2>2
<1>2. ASSUME NEW from, NEW to \in {"queued", "dispatched", "stopped"}, Moves(i, from, to)
      PROVE  state'[j].status # "dispatching"
  <2>1. state'[i].status = to /\ \A k \in Jobs : k # i => state'[k] = state[k]
    BY <1>2, MovedState
  <2> QED
    BY <2>1
<1>3. CASE StopQueued(i) \/ Launched(i) \/ Recover(i)
  BY <1>2, <1>3 DEF StopQueued, Launched, Recover
<1>4. CASE ExpireUpdate(i)
  <2>1. state' = [state EXCEPT ![i].live = FALSE]
    BY <1>4 DEF ExpireUpdate
  <2>2. state'[j].status = state[j].status
    BY <1>0, <2>1 DEF StateFile
  <2> QED
    BY <2>2
<1>5. CASE ExtendAll(i) \/ Unreserved(i)
  BY <1>5 DEF ExtendAll, Unreserved
<1> QED
  BY <1>1, <1>3, <1>4, <1>5

\* A job leaves the queue for a machine by no other step than the dispatcher's mark.
LEMMA OnlyMarksTake ==
  ASSUME IInv, [Next]_vars, NEW j \in Jobs, Taken(j)
  PROVE  Mark(j) /\ Unchanged(j)
<1>0. state[j].status = "queued" /\ state'[j].status = "dispatching" /\ state \in [Jobs -> StateFile]
  BY DEF Taken, IInv, FilesOK
<1>1. ~WriteJob /\ ~EditTears /\ ~UNCHANGED vars
  BY <1>0 DEF WriteJob, EditTears, vars, files
<1>2. ~WriteState
  <2> SUFFICES ASSUME WriteState PROVE FALSE
    OBVIOUS
  <2>1. PICK i \in DOMAIN writing.states : state' = [state EXCEPT ![i] = writing.states[i]]
    BY DEF WriteState
  <2>2. writing.states[i].status = "queued"
    BY DEF IInv, WritingOK
  <2> QED
    BY <1>0, <2>1, <2>2
<1>3. ~(List \/ ReadJob \/ ReadState \/ Probe \/ PlanNext \/ Planned \/ EndBatch)
  BY <1>0 DEF List, ReadJob, ReadState, Probe, PlanNext, Planned, EndBatch
<1>4. \A c \in Clients, i \in Jobs : ~Look(c, i)
  BY <1>0 DEF Look, files
<1>5. PICK i \in Jobs : Mark(i)
  BY <1>0, <1>1, <1>2, <1>3, <1>4, ClientsTakeNobody, OthersTakeNobody DEF Next
<1>6. Unchanged(i) /\ state' = [state EXCEPT ![i].status = "dispatching", ![i].revision = @ + 1]
  BY <1>0, <1>5 DEF Mark
<1>7. i = j
  BY <1>0, <1>6
<1> QED
  BY <1>5, <1>6, <1>7

LEMMA MarksRespectTheLine ==
  ASSUME IInv, NEW j \in Jobs, Mark(j), Unchanged(j),
         NEW i \in (DOMAIN dispatcher.rows \ DOMAIN dispatcher.batch) \cap Queued,
         {i, j} \cap history.mixed = {}, job[i].class = job[j].class, Before(job, i, j)
  PROVE  placed'[j].machine \notin Usable(i)
<1>1. dispatcher.pc = "mark" /\ j \in DOMAIN dispatcher.plan
  BY DEF Mark, On
<1>2. j \in DOMAIN dispatcher.rows /\ j \in Queued /\ dispatcher.rows[j].revision = state[j].revision
  BY <1>1 DEF IInv, DispatcherOK, Unchanged
<1>3. SamePlace(dispatcher.rows[i].file, job[i]) /\ SamePlace(dispatcher.rows[j].file, job[j])
  <2>1. /\ SamePlace(dispatcher.rows[i].file, job[i]) \/ Elsewhere(i)
        /\ SamePlace(dispatcher.rows[j].file, job[j]) \/ Elsewhere(j)
    BY <1>2 DEF IInv, OrderKnown, PlacesOK
  <2>2. DOMAIN writing.states = {} /\ state[j].revision \in Nat
    BY <1>2, HeldFiles DEF Mark, IInv, FilesOK, StateFile
  <2>3. \A h : ~Elsewhere(h)
    BY <1>2, <2>2 DEF Elsewhere
  <2> QED
    BY <2>1, <2>3
<1>4. RowFiles[i] = dispatcher.rows[i].file /\ RowFiles[j] = dispatcher.rows[j].file
  BY <1>2 DEF RowFiles
<1>5. Before(RowFiles, i, j) /\ dispatcher.rows[i].file.class = dispatcher.rows[j].file.class
  BY <1>3, <1>4 DEF SamePlace, SameLane, Before
<1>6. Respects(dispatcher.batch) /\ j \in DOMAIN dispatcher.batch /\ dispatcher.plan[j] = dispatcher.batch[j]
  BY <1>1 DEF IInv, PlansOK
<1>7. dispatcher.plan[j].machine \notin Usable(i) /\ dispatcher.plan[j].others \cap Usable(i) = {}
  BY <1>5, <1>6 DEF Respects
<1>8. PICK m \in {dispatcher.plan[j].machine} \cup (dispatcher.plan[j].others \ MachinesOf(dispatcher.batch)) :
        placed' = [placed EXCEPT ![j] = [machine |-> m, class |-> dispatcher.rows[j].file.class]]
  BY DEF Mark
<1>9. placed'[j].machine = m
  BY <1>8 DEF IInv, PlacedOK
<1>10. m \notin Usable(i)
  BY <1>7, <1>8
<1> QED
  BY <1>9, <1>10

\* Backfilling delays nobody: no job is dispatched to a machine that a job could use that
\* was listed, left out of the plan, and still waits before it in its lane, where neither
\* of the two was moved while the list was read or by a command that died among its
\* writes.  For any number of jobs, machines and batches, with edits and lists file by
\* file.
THEOREM NobodyIsOvertaken ==
  Spec => NobodyOvertaken
<1>1. ASSUME IInv, [Next]_vars
      PROVE  [\A j \in Jobs : Taken(j) =>
                \A i \in (DOMAIN dispatcher.rows \ DOMAIN dispatcher.batch) \cap Queued :
                  {i, j} \cap history.mixed = {} /\ job[i].class = job[j].class /\ Before(job, i, j) =>
                    placed'[j].machine \notin Usable(i)]_vars
  BY <1>1, OnlyMarksTake, MarksRespectTheLine
<1> QED
  BY <1>1, Invariance, PTL DEF Spec, NobodyOvertaken

=============================================================================
