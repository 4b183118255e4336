-------------------------- MODULE WorkerAdmissionProofs --------------------------
(***************************************************************************)
(* Proofs about WorkerAdmission for any sessions, capacity and presence.   *)
(* drain() is a loop, so Drained is a recursive function: it is shown to   *)
(* have a solution (every turn of the loop takes a lane, and there are     *)
(* Limit of them), and to keep what one turn keeps. Induction is stated    *)
(* over sets, which the provers can instantiate.                           *)
(***************************************************************************)
EXTENDS WorkerAdmission, SequenceTheorems, FiniteSetTheorems, TLAPS

USE GateAssumption

------------------------------------------------------------------------------
\* Numbers and sequences.

LEMMA LeastExists ==
  ASSUME NEW I, I \subseteq Nat, I # {}
  PROVE  \E j \in I : \A k \in I : j <= k
<1> DEFINE R == StrictSubsetOrdering(Nat)
           W == {1..m : m \in I}
<1>1. W \subseteq FiniteSubsetsOf(Nat)
  <2>1. ASSUME NEW w \in W PROVE w \in FiniteSubsetsOf(Nat)
    <3>1. PICK m \in I : w = 1..m
      OBVIOUS
    <3>2. m \in Nat /\ 1..m \subseteq Nat
      OBVIOUS
    <3>3. IsFiniteSet(1..m)
      BY <3>2, FS_Interval
    <3> QED BY <3>1, <3>2, <3>3 DEF FiniteSubsetsOf
  <2> QED BY <2>1
<1>2. W # {}
  <2>1. PICK m \in I : TRUE
    OBVIOUS
  <2>2. 1..m \in W
    OBVIOUS
  <2> QED BY <2>2
<1>3. IsWellFoundedOn(R, FiniteSubsetsOf(Nat))
  BY FS_StrictSubsetOrderingWellFounded
<1> HIDE DEF R
<1>4. PICK x \in W : \A y \in W : <<y, x>> \notin R
  BY <1>1, <1>2, <1>3, WFMin
<1>5. PICK m \in I : x = 1..m
  BY <1>4
<1>6. ASSUME NEW k \in I, ~(m <= k) PROVE FALSE
  <2>1. m \in Nat /\ k \in Nat /\ k < m
    BY <1>6
  <2>2. 1..k \in SUBSET Nat /\ 1..m \in SUBSET Nat /\ 1..k \subseteq 1..m /\ 1..k # 1..m
    BY <2>1
  <2>3. <<1..k, 1..m>> \in R
    BY <2>2 DEF R, StrictSubsetOrdering
  <2> QED BY <1>4, <1>5, <2>3
<1> QED BY <1>6

\* Induction over the natural numbers, for a set of them.
LEMMA SetInduction ==
  ASSUME NEW S, S \subseteq Nat, 0 \in S, \A n \in S : n + 1 \in S
  PROVE  \A n \in Nat : n \in S
<1> DEFINE T == Nat \ S
<1>1. CASE T = {}
  BY <1>1
<1>2. CASE T # {}
  <2>1. PICK j \in T : \A k \in T : j <= k
    BY <1>2, LeastExists
  <2>2. j \in Nat /\ j # 0
    BY <2>1
  <2>3. j - 1 \in Nat /\ j - 1 \notin T
    BY <2>1, <2>2
  <2>4. (j - 1) + 1 \in S
    BY <2>3
  <2>5. (j - 1) + 1 = j
    BY <2>2
  <2> QED BY <2>1, <2>4, <2>5
<1> QED BY <1>1, <1>2

LEMMA AppendFacts ==
  ASSUME NEW S, NEW s \in Seq(S), NEW e \in S
  PROVE  /\ Append(s, e) \in Seq(S) /\ Len(Append(s, e)) = Len(s) + 1 /\ Len(s) \in Nat
         /\ DOMAIN s = 1..Len(s) /\ DOMAIN Append(s, e) = 1..(Len(s) + 1)
         /\ \A i \in 1..Len(s) : Append(s, e)[i] = s[i]
         /\ Append(s, e)[Len(s) + 1] = e
<1>1. /\ Append(s, e) \in Seq(S) /\ Len(Append(s, e)) = Len(s) + 1
      /\ \A i \in 1..Len(s) : Append(s, e)[i] = s[i]
      /\ Append(s, e)[Len(s) + 1] = e
  BY AppendProperties
<1> QED BY <1>1, LenProperties

\* Where the elements of RemoveAt(s, k) are from.
From(k, i) == IF i < k THEN i ELSE i + 1

LEMMA RemoveFacts ==
  ASSUME NEW S, NEW s \in Seq(S), NEW k \in DOMAIN s
  PROVE  /\ RemoveAt(s, k) \in Seq(S) /\ Len(RemoveAt(s, k)) = Len(s) - 1
         /\ Len(s) \in Nat /\ DOMAIN s = 1..Len(s) /\ DOMAIN RemoveAt(s, k) = 1..(Len(s) - 1)
         /\ \A i \in 1..(Len(s) - 1) : RemoveAt(s, k)[i] = s[From(k, i)]
         /\ \A i \in 1..(Len(s) - 1) : From(k, i) \in DOMAIN s /\ From(k, i) # k
<1> DEFINE r == RemoveAt(s, k)
           a == SubSeq(s, 1, k - 1)
           b == SubSeq(s, k + 1, Len(s))
<1>0. Len(s) \in Nat /\ DOMAIN s = 1..Len(s) /\ k \in 1..Len(s)
  BY LenProperties
<1>1. /\ a \in Seq(S) /\ Len(a) = k - 1 /\ \A i \in 1..(k - 1) : a[i] = s[i]
  BY <1>0, SubSeqProperties
<1>2. /\ b \in Seq(S) /\ Len(b) = Len(s) - k /\ \A i \in 1..(Len(s) - k) : b[i] = s[k + i]
  BY <1>0, SubSeqProperties
<1>3. r = a \o b
  BY DEF RemoveAt
<1> HIDE DEF r, a, b
<1>4. /\ r \in Seq(S) /\ Len(r) = Len(a) + Len(b)
      /\ \A i \in 1..(Len(a) + Len(b)) : r[i] = IF i <= Len(a) THEN a[i] ELSE b[i - Len(a)]
  BY <1>1, <1>2, <1>3, ConcatProperties
<1>5. Len(r) = Len(s) - 1 /\ DOMAIN r = 1..(Len(s) - 1)
  BY <1>0, <1>1, <1>2, <1>4, LenProperties
<1>6. ASSUME NEW i \in 1..(Len(s) - 1)
      PROVE  r[i] = s[From(k, i)] /\ From(k, i) \in DOMAIN s /\ From(k, i) # k
  <2>1. CASE i < k
    <3>1. i \in 1..(k - 1) /\ i \in 1..(Len(a) + Len(b)) /\ i <= Len(a)
      BY <1>0, <1>1, <1>2, <2>1
    <3>2. r[i] = a[i] /\ a[i] = s[i]
      BY <1>1, <1>4, <3>1
    <3> QED BY <1>0, <2>1, <3>1, <3>2 DEF From
  <2>2. CASE ~(i < k)
    <3> DEFINE j == i - Len(a)
    <3>1. i \in 1..(Len(a) + Len(b)) /\ ~(i <= Len(a)) /\ j \in 1..(Len(s) - k) /\ k + j = i + 1
      BY <1>0, <1>1, <1>2, <2>2
    <3>2. r[i] = b[j]
      BY <1>4, <3>1
    <3> HIDE DEF j
    <3>3. b[j] = s[k + j]
      BY <1>2, <3>1
    <3> QED BY <1>0, <2>2, <3>1, <3>2, <3>3 DEF From
  <2> QED BY <2>1, <2>2
<1> QED BY <1>0, <1>4, <1>5, <1>6 DEF r

------------------------------------------------------------------------------
\* The loop of drain().

Rank(p) == CHOOSE n \in 1..3 : Priorities[n] = p

LEMMA RankIs == \A p \in Classes : Rank(p) \in 1..3
<1>1. /\ 1 \in 1..3 /\ 2 \in 1..3 /\ 3 \in 1..3
      /\ Priorities[1] = "governing" /\ Priorities[2] = "interactive" /\ Priorities[3] = "batch"
  BY DEF Priorities
<1>2. \A p \in Classes : \E n \in 1..3 : Priorities[n] = p
  BY <1>1 DEF Classes
<1> QED BY <1>2 DEF Rank

\* nextIndex() finds a waiter that can be admitted, if there is one.
LEMMA NextFacts ==
  ASSUME NEW q \in Seq(WaiterRec), NEW leases
  PROVE  /\ NextIndex(q, leases) = 0 =>
              \A i \in DOMAIN q : ~CanAdmit(q[i].priority, leases)
         /\ NextIndex(q, leases) # 0 =>
              /\ NextIndex(q, leases) \in DOMAIN q
              /\ CanAdmit(q[NextIndex(q, leases)].priority, leases)
         /\ NextIndex(q, leases) \in {0} \cup DOMAIN q
<1> DEFINE ready == {i \in DOMAIN q : CanAdmit(q[i].priority, leases)}
           rank(i) == Rank(q[i].priority)
           Best(i) == \A j \in ready \ {i} : rank(i) < rank(j) \/ (rank(i) = rank(j) /\ i < j)
<1>1. DOMAIN q = 1..Len(q) /\ Len(q) \in Nat
  BY LenProperties
<1>2. NextIndex(q, leases) = IF ready = {} THEN 0 ELSE CHOOSE i \in ready : Best(i)
  BY DEF NextIndex, Rank
<1>3. CASE ready = {}
  BY <1>2, <1>3
<1>4. CASE ready # {}
  <2>1. \A i \in ready : rank(i) \in Nat /\ i \in Nat
    <3>1. ASSUME NEW i \in DOMAIN q PROVE q[i].priority \in Classes
      <4>1. q[i] \in WaiterRec
        BY <1>1, ElementOfSeq
      <4> QED BY <4>1 DEF WaiterRec
    <3> QED BY <1>1, <3>1, RankIs
  <2> HIDE DEF rank
  <2> DEFINE ranks == {rank(i) : i \in ready}
  <2>2. ranks \subseteq Nat /\ ranks # {}
    BY <1>4, <2>1
  <2>3. PICK r \in ranks : \A k \in ranks : r <= k
    BY <2>2, LeastExists
  <2> DEFINE first == {i \in ready : rank(i) = r}
  <2>4. first \subseteq Nat /\ first # {}
    BY <2>1, <2>3
  <2>5. PICK i \in first : \A j \in first : i <= j
    BY <2>4, LeastExists
  <2>6. Best(i)
    <3>1. ASSUME NEW j \in ready, j # i PROVE rank(i) < rank(j) \/ (rank(i) = rank(j) /\ i < j)
      <4>1. rank(j) \in ranks /\ rank(i) = r /\ r <= rank(j)
        BY <2>3, <2>5
      <4>2. CASE rank(j) = r
        BY <2>1, <2>5, <3>1, <4>1, <4>2
      <4>3. CASE rank(j) # r
        BY <2>1, <2>5, <4>1, <4>3
      <4> QED BY <4>2, <4>3
    <3> QED BY <3>1
  <2> HIDE DEF Best
  <2>7. \E k \in ready : Best(k)
    BY <2>5, <2>6
  <2>8. NextIndex(q, leases) \in ready
    BY <1>2, <1>4, <2>7
  <2> QED BY <1>1, <2>8
<1> QED BY <1>3, <1>4

\* One turn of the loop, if it has one.
Next1(g) == NextIndex(g.waiting, g.active)

LEMMA GrantFacts ==
  ASSUME NEW g \in Gates, Next1(g) # 0
  PROVE  LET h == Grant(g, Next1(g))
             w == g.waiting[Next1(g)]
         IN /\ Next1(g) \in DOMAIN g.waiting /\ w \in WaiterRec /\ CanAdmit(w.priority, g.active)
            /\ h \in Gates
            /\ h.active = Append(g.active, [session |-> w.session, priority |-> w.priority,
                                            held |-> w.awaited])
            /\ h.waiting = RemoveAt(g.waiting, Next1(g))
            /\ h.phase = IF w.awaited THEN [g.phase EXCEPT ![w.session] = "running"] ELSE g.phase
            /\ Len(h.active) = Len(g.active) + 1 /\ Len(g.active) \in Nat
            /\ Len(h.waiting) = Len(g.waiting) - 1 /\ Len(g.waiting) \in Nat
<1> DEFINE n == Next1(g)
           h == Grant(g, n)
           w == g.waiting[n]
           e == [session |-> w.session, priority |-> w.priority, held |-> w.awaited]
<1>1. /\ g.active \in Seq(LeaseRec) /\ g.waiting \in Seq(WaiterRec)
      /\ g.phase \in [Sessions -> {"idle", "waiting", "running"}]
  BY DEF Gates
<1>2. n \in DOMAIN g.waiting /\ CanAdmit(w.priority, g.active)
  BY <1>1, NextFacts DEF Next1
<1>3. w \in WaiterRec
  BY <1>1, <1>2, ElementOfSeq, LenProperties
<1>4. e \in LeaseRec
  BY <1>3 DEF LeaseRec, WaiterRec
<1>5. /\ h.active = Append(g.active, e) /\ h.waiting = RemoveAt(g.waiting, n)
      /\ h.phase = IF w.awaited THEN [g.phase EXCEPT ![w.session] = "running"] ELSE g.phase
      /\ h = [active |-> h.active, waiting |-> h.waiting, phase |-> h.phase]
  BY DEF Grant
<1> HIDE DEF h, e, n
<1>6. h.active \in Seq(LeaseRec) /\ Len(h.active) = Len(g.active) + 1 /\ Len(g.active) \in Nat
  BY <1>1, <1>4, <1>5, AppendFacts
<1>7. h.waiting \in Seq(WaiterRec) /\ Len(h.waiting) = Len(g.waiting) - 1 /\ Len(g.waiting) \in Nat
  <2> DEFINE q == g.waiting
  <2>1. q \in Seq(WaiterRec) /\ n \in DOMAIN q
    BY <1>1, <1>2
  <2> HIDE DEF q
  <2>2. /\ RemoveAt(q, n) \in Seq(WaiterRec) /\ Len(RemoveAt(q, n)) = Len(q) - 1
        /\ Len(q) \in Nat
    BY <2>1, RemoveFacts
  <2> QED BY <1>5, <2>2 DEF q
<1>8. h.phase \in [Sessions -> {"idle", "waiting", "running"}]
  BY <1>1, <1>3, <1>5 DEF WaiterRec
<1>9. h \in Gates
  BY <1>5, <1>6, <1>7, <1>8 DEF Gates
<1> QED BY <1>2, <1>3, <1>5, <1>6, <1>7, <1>9 DEF h, e, n

\* The gates with at most n free lanes.
Level(n) == {g \in Gates : Limit <= Len(g.active) + n}

Solves(f, G) == f = [g \in G |-> IF Next1(g) = 0 THEN g ELSE f[Grant(g, Next1(g))]]

LEMMA LevelFacts ==
  /\ \A g \in Level(0) : Next1(g) = 0
  /\ \A n \in Nat : \A g \in Level(n + 1) : Next1(g) # 0 => Grant(g, Next1(g)) \in Level(n)
  /\ \A n \in Nat : Level(n) \subseteq Level(n + 1)
  /\ Level(Limit) = Gates
<1>1. ASSUME NEW g \in Level(0), Next1(g) # 0 PROVE FALSE
  <2>1. g \in Gates /\ Limit <= Len(g.active) + 0
    BY DEF Level
  <2>2. CanAdmit(g.waiting[Next1(g)].priority, g.active) /\ Len(g.active) \in Nat
    BY <1>1, <2>1, GrantFacts
  <2> QED BY <2>1, <2>2 DEF CanAdmit
<1>2. ASSUME NEW n \in Nat, NEW g \in Level(n + 1), Next1(g) # 0
      PROVE  Grant(g, Next1(g)) \in Level(n)
  <2>1. g \in Gates /\ Limit <= Len(g.active) + (n + 1)
    BY DEF Level
  <2>2. /\ Grant(g, Next1(g)) \in Gates /\ Len(g.active) \in Nat
        /\ Len(Grant(g, Next1(g)).active) = Len(g.active) + 1
    BY <1>2, <2>1, GrantFacts
  <2>3. PICK k \in Nat : k = Len(g.active)
    BY <2>2
  <2>4. Limit <= k + (n + 1) /\ Limit \in Nat
    BY <2>1, <2>3
  <2>5. Limit <= (k + 1) + n
    BY <2>4
  <2> QED BY <2>2, <2>3, <2>5 DEF Level
<1>3. \A g \in Gates : Len(g.active) \in Nat
  BY LenProperties DEF Gates
<1>4. ASSUME NEW n \in Nat, NEW g \in Level(n) PROVE g \in Level(n + 1)
  <2>1. Limit <= Len(g.active) + n /\ g \in Gates /\ Len(g.active) \in Nat
    BY <1>3 DEF Level
  <2>2. PICK k \in Nat : k = Len(g.active)
    BY <2>1
  <2>3. Limit <= k + n /\ Limit \in Nat
    BY <2>1, <2>2
  <2>4. Limit <= k + (n + 1)
    BY <2>3
  <2> QED BY <2>1, <2>2, <2>4 DEF Level
<1>5. Level(Limit) = Gates
  <2>1. \A g \in Gates : Limit <= Len(g.active) + Limit
    BY <1>3
  <2> QED BY <2>1 DEF Level
<1> QED BY <1>1, <1>2, <1>4, <1>5

\* The loop ends: the recursive definition has a solution.
LEMMA DrainHasSolution == \E f : Solves(f, Gates)
<1> DEFINE S == {n \in Nat : \E f : Solves(f, Level(n))}
<1>1. 0 \in S
  <2> DEFINE f == [g \in Level(0) |-> g]
  <2>1. Solves(f, Level(0))
    BY LevelFacts DEF Solves
  <2> QED BY <2>1
<1>2. ASSUME NEW n \in S PROVE n + 1 \in S
  <2>1. PICK f : Solves(f, Level(n))
    OBVIOUS
  <2> DEFINE e == [g \in Level(n + 1) |-> IF Next1(g) = 0 THEN g ELSE f[Grant(g, Next1(g))]]
  <2>2. ASSUME NEW g \in Level(n) PROVE e[g] = f[g]
    <3>1. f[g] = IF Next1(g) = 0 THEN g ELSE f[Grant(g, Next1(g))]
      BY <2>1 DEF Solves
    <3>2. g \in Level(n + 1)
      BY LevelFacts
    <3> QED BY <3>1, <3>2
  <2>3. ASSUME NEW g \in Level(n + 1), Next1(g) # 0
        PROVE  e[Grant(g, Next1(g))] = f[Grant(g, Next1(g))]
    BY <2>2, <2>3, LevelFacts
  <2>4. Solves(e, Level(n + 1))
    BY <2>3 DEF Solves
  <2> HIDE DEF e
  <2> QED BY <2>4
<1>3. Limit \in S
  <2> HIDE DEF S
  <2>1. S \subseteq Nat
    BY DEF S
  <2> QED BY <1>1, <1>2, <2>1, SetInduction
<1> QED BY <1>3, LevelFacts

LEMMA DrainedDef ==
  \A g \in Gates : Drained[g] = IF Next1(g) = 0 THEN g ELSE Drained[Grant(g, Next1(g))]
<1>1. Drained = CHOOSE f : Solves(f, Gates)
  BY DEF Drained, Solves, Next1
<1>2. Solves(Drained, Gates)
  BY <1>1, DrainHasSolution
<1> QED BY <1>2 DEF Solves

\* What each turn keeps the loop keeps; in the end nobody can be admitted, and nobody was
\* added to the queue.
LEMMA DrainInduction ==
  ASSUME NEW A, A \subseteq Gates, \A g \in A : Next1(g) # 0 => Grant(g, Next1(g)) \in A
  PROVE  \A g \in A : /\ Drained[g] \in A /\ Next1(Drained[g]) = 0
                      /\ Len(Drained[g].waiting) <= Len(g.waiting)
<1> DEFINE Good(g) == /\ Drained[g] \in A /\ Next1(Drained[g]) = 0
                      /\ Len(Drained[g].waiting) <= Len(g.waiting)
           S == {n \in Nat : \A g \in A \cap Level(n) : Good(g)}
<1>1. ASSUME NEW g \in A, Next1(g) = 0 PROVE Good(g)
  <2>1. Drained[g] = g
    BY <1>1, DrainedDef
  <2>2. Len(g.waiting) \in Nat
    BY LenProperties DEF Gates
  <2> QED BY <1>1, <2>1, <2>2
<1>2. ASSUME NEW g \in A, Next1(g) # 0, Good(Grant(g, Next1(g))) PROVE Good(g)
  <2>1. Drained[g] = Drained[Grant(g, Next1(g))]
    BY <1>2, DrainedDef
  <2>2. g \in Gates /\ Drained[g] \in Gates
    BY <1>2, <2>1
  <2>3. /\ Len(Grant(g, Next1(g)).waiting) = Len(g.waiting) - 1 /\ Len(g.waiting) \in Nat
    BY <1>2, <2>2, GrantFacts
  <2>4. Len(Drained[g].waiting) \in Nat
    BY <2>2, LenProperties DEF Gates
  <2> QED BY <1>2, <2>1, <2>3, <2>4
<1> HIDE DEF Good
<1>3. 0 \in S
  BY <1>1, LevelFacts
<1>4. ASSUME NEW n \in S PROVE n + 1 \in S
  <2>1. ASSUME NEW g \in A \cap Level(n + 1) PROVE Good(g)
    <3>1. CASE Next1(g) = 0
      BY <1>1, <3>1
    <3>2. CASE Next1(g) # 0
      <4>1. Grant(g, Next1(g)) \in A \cap Level(n)
        BY <3>2, LevelFacts
      <4> QED BY <1>2, <3>2, <4>1
    <3> QED BY <3>1, <3>2
  <2> QED BY <2>1
<1>5. Limit \in S
  <2> HIDE DEF S
  <2>1. S \subseteq Nat
    BY DEF S
  <2> QED BY <1>3, <1>4, <2>1, SetInduction
<1> QED BY <1>5, LevelFacts DEF Good

------------------------------------------------------------------------------
\* Counting the positions of a sequence that has grown or shrunk by one.

LEMMA PositionsFinite ==
  ASSUME NEW n \in Nat, NEW X, X \subseteq 1..n
  PROVE  IsFiniteSet(X) /\ Cardinality(X) \in Nat
<1>1. IsFiniteSet(1..n)
  BY FS_Interval
<1> QED BY <1>1, FS_Subset, FS_CardinalityType

LEMMA GrownBy ==
  ASSUME NEW n \in Nat, NEW X, X \subseteq 1..n
  PROVE  Cardinality(X \cup {n + 1}) = Cardinality(X) + 1
<1>1. IsFiniteSet(X) /\ Cardinality(X) \in Nat
  BY PositionsFinite
<1>2. n + 1 \notin 1..n
  OBVIOUS
<1>3. n + 1 \notin X
  BY <1>2
<1> QED BY <1>1, <1>3, FS_AddElement

\* The positions of the elements of l that are in P.
At(l, P) == {i \in DOMAIN l : l[i] \in P}

LEMMA AtIsFinite ==
  ASSUME NEW S, NEW l \in Seq(S), NEW P
  PROVE  /\ At(l, P) \subseteq 1..Len(l) /\ IsFiniteSet(At(l, P)) /\ Cardinality(At(l, P)) \in Nat
         /\ Cardinality(At(l, P)) = 0 <=> At(l, P) = {}
<1>1. Len(l) \in Nat /\ At(l, P) \subseteq 1..Len(l)
  BY LenProperties DEF At
<1>2. IsFiniteSet(At(l, P)) /\ Cardinality(At(l, P)) \in Nat
  BY <1>1, PositionsFinite
<1> QED BY <1>1, <1>2, FS_EmptySet

LEMMA AtAppend ==
  ASSUME NEW S, NEW l \in Seq(S), NEW e \in S, NEW P
  PROVE  Cardinality(At(Append(l, e), P)) = Cardinality(At(l, P)) + (IF e \in P THEN 1 ELSE 0)
<1> DEFINE h == Append(l, e)
           X == At(l, P)
<1>1. /\ Len(l) \in Nat /\ DOMAIN l = 1..Len(l) /\ DOMAIN h = 1..(Len(l) + 1)
      /\ \A i \in 1..Len(l) : h[i] = l[i]
      /\ h[Len(l) + 1] = e
  BY AppendFacts
<1> HIDE DEF h
<1>2. PICK n \in Nat : n = Len(l)
  BY <1>1
<1>3. X \subseteq 1..n
  BY <1>1, <1>2 DEF At
<1>4. \A i \in 1..(n + 1) : i \in 1..n \/ i = n + 1
  OBVIOUS
<1>5. n + 1 \in 1..(n + 1) /\ 1..n \subseteq 1..(n + 1)
  OBVIOUS
<1>6. At(h, P) = IF e \in P THEN X \cup {n + 1} ELSE X
  BY <1>1, <1>2, <1>4, <1>5 DEF At
<1> HIDE DEF X
<1>7. Cardinality(X) \in Nat
  BY <1>3, PositionsFinite
<1>8. Cardinality(X \cup {n + 1}) = Cardinality(X) + 1
  BY <1>3, GrownBy
<1>9. Cardinality(At(h, P)) = Cardinality(X) + (IF e \in P THEN 1 ELSE 0)
  BY <1>6, <1>7, <1>8
<1> QED BY <1>9 DEF X, h

LEMMA AtRemove ==
  ASSUME NEW S, NEW l \in Seq(S), NEW k \in DOMAIN l, NEW P
  PROVE  Cardinality(At(RemoveAt(l, k), P)) = Cardinality(At(l, P)) - (IF l[k] \in P THEN 1 ELSE 0)
<1> DEFINE h == RemoveAt(l, k)
           X == At(l, P)
           Y == At(h, P)
           f == [i \in Y |-> From(k, i)]
           Z == X \ {k}
<1>1. /\ h \in Seq(S) /\ Len(l) \in Nat /\ DOMAIN l = 1..Len(l) /\ DOMAIN h = 1..(Len(l) - 1)
      /\ \A i \in 1..(Len(l) - 1) : h[i] = l[From(k, i)]
      /\ \A i \in 1..(Len(l) - 1) : From(k, i) \in DOMAIN l
  BY RemoveFacts
<1> HIDE DEF h
<1>2. PICK n \in Nat : n = Len(l)
  BY <1>1
<1>3. X \subseteq 1..n /\ k \in 1..n /\ Y \subseteq 1..(n - 1)
  BY <1>1, <1>2 DEF At
<1>4. \A i \in 1..(n - 1) : i \in Y <=> From(k, i) \in X
  BY <1>1, <1>2 DEF At
<1>5. k \in X <=> l[k] \in P
  BY DEF At
<1>6. IsFiniteSet(X) /\ Cardinality(X) \in Nat /\ IsFiniteSet(Y)
  BY <1>1, AtIsFinite
<1> HIDE DEF X, Y
<1>7. IsFiniteSet(Z) /\ Cardinality(Z) = Cardinality(X) - (IF k \in X THEN 1 ELSE 0)
  <2>1. /\ IsFiniteSet(X \ {k})
        /\ Cardinality(X \ {k}) = IF k \in X THEN Cardinality(X) - 1 ELSE Cardinality(X)
    BY <1>6, FS_RemoveElement
  <2> QED BY <1>6, <2>1
<1>8. \A i \in Y : f[i] \in Z
  BY <1>3, <1>4 DEF From
<1>9. \A i, j \in Y : f[i] = f[j] => i = j
  BY <1>3 DEF From
<1>10. ASSUME NEW m \in Z PROVE \E i \in Y : f[i] = m
  <2>1. m \in 1..n /\ m # k /\ k \in 1..n
    BY <1>3
  <2>2. CASE m < k
    <3>1. m \in 1..(n - 1) /\ From(k, m) = m
      BY <2>1, <2>2 DEF From
    <3> QED BY <1>4, <3>1
  <2>3. CASE ~(m < k)
    <3>1. m - 1 \in 1..(n - 1) /\ From(k, m - 1) = m
      BY <2>1, <2>3 DEF From
    <3> QED BY <1>4, <3>1
  <2> QED BY <2>2, <2>3
<1> HIDE DEF f, Z
<1>11. f \in [Y -> Z]
  BY <1>8 DEF f
<1>12. f \in Bijection(Y, Z)
  BY <1>9, <1>10, <1>11 DEF Bijection, Injection, IsInjective, Surjection
<1>13. Cardinality(Z) = Cardinality(Y)
  BY <1>6, <1>12, FS_Bijection DEF ExistsBijection
<1> QED BY <1>5, <1>7, <1>13 DEF X, Y, h

\* The leases of a class.
OfClass(p) == {e \in LeaseRec : e.priority = p}

LEMMA CountIs ==
  ASSUME NEW l \in Seq(LeaseRec), NEW p
  PROVE  /\ Count(l, p) = Cardinality(At(l, OfClass(p))) /\ Count(l, p) \in Nat
         /\ Len(l) \in Nat
<1>1. \A i \in DOMAIN l : l[i] \in LeaseRec
  BY ElementOfSeq, LenProperties
<1>2. At(l, OfClass(p)) = {i \in DOMAIN l : l[i].priority = p}
  BY <1>1 DEF At, OfClass
<1> QED BY <1>2, AtIsFinite, LenProperties DEF Count

LEMMA CountAppend ==
  ASSUME NEW l \in Seq(LeaseRec), NEW e \in LeaseRec, NEW p
  PROVE  Count(Append(l, e), p) = Count(l, p) + (IF e.priority = p THEN 1 ELSE 0)
<1>1. Append(l, e) \in Seq(LeaseRec)
  BY AppendFacts
<1>2. e \in OfClass(p) <=> e.priority = p
  BY DEF OfClass
<1>3. Cardinality(At(Append(l, e), OfClass(p)))
        = Cardinality(At(l, OfClass(p))) + (IF e \in OfClass(p) THEN 1 ELSE 0)
  BY AtAppend
<1> QED BY <1>1, <1>2, <1>3, CountIs

LEMMA CountRemove ==
  ASSUME NEW l \in Seq(LeaseRec), NEW k \in DOMAIN l, NEW p
  PROVE  Count(RemoveAt(l, k), p) = Count(l, p) - (IF l[k].priority = p THEN 1 ELSE 0)
<1>1. RemoveAt(l, k) \in Seq(LeaseRec) /\ l[k] \in LeaseRec
  BY RemoveFacts, ElementOfSeq, LenProperties
<1>2. l[k] \in OfClass(p) <=> l[k].priority = p
  BY <1>1 DEF OfClass
<1>3. Cardinality(At(RemoveAt(l, k), OfClass(p)))
        = Cardinality(At(l, OfClass(p))) - (IF l[k] \in OfClass(p) THEN 1 ELSE 0)
  BY AtRemove
<1> QED BY <1>1, <1>2, <1>3, CountIs

LEMMA ElementsOf ==
  ASSUME NEW S, NEW l \in Seq(S)
  PROVE  /\ \A e \in S : ToSet(Append(l, e)) = ToSet(l) \cup {e}
         /\ \A k \in DOMAIN l : ToSet(RemoveAt(l, k)) \subseteq ToSet(l)
         /\ ToSet(l) \subseteq S /\ \A k \in DOMAIN l : l[k] \in ToSet(l)
<1>1. ASSUME NEW e \in S PROVE ToSet(Append(l, e)) = ToSet(l) \cup {e}
  <2> DEFINE h == Append(l, e)
  <2>1. /\ Len(l) \in Nat /\ DOMAIN l = 1..Len(l) /\ DOMAIN h = 1..(Len(l) + 1)
        /\ \A i \in 1..Len(l) : h[i] = l[i]
        /\ h[Len(l) + 1] = e
    BY AppendFacts
  <2> HIDE DEF h
  <2>2. PICK n \in Nat : n = Len(l)
    BY <2>1
  <2>3. \A i \in 1..(n + 1) : i \in 1..n \/ i = n + 1
    OBVIOUS
  <2>4. n + 1 \in 1..(n + 1) /\ 1..n \subseteq 1..(n + 1)
    OBVIOUS
  <2>5. ToSet(h) = ToSet(l) \cup {e}
    BY <2>1, <2>2, <2>3, <2>4 DEF ToSet
  <2> QED BY <2>5 DEF h
<1>2. ASSUME NEW k \in DOMAIN l PROVE ToSet(RemoveAt(l, k)) \subseteq ToSet(l)
  <2> DEFINE h == RemoveAt(l, k)
  <2>1. /\ DOMAIN h = 1..(Len(l) - 1)
        /\ \A i \in 1..(Len(l) - 1) : h[i] = l[From(k, i)] /\ From(k, i) \in DOMAIN l
    BY RemoveFacts
  <2> HIDE DEF h
  <2>2. ToSet(h) \subseteq ToSet(l)
    BY <2>1 DEF ToSet
  <2> QED BY <2>2 DEF h
<1>3. ToSet(l) \subseteq S /\ \A k \in DOMAIN l : l[k] \in ToSet(l)
  BY ElementOfSeq, LenProperties DEF ToSet
<1> QED BY <1>1, <1>2, <1>3

\* What a gate with more leases refuses one with fewer refuses.
LEMMA RefusedStays ==
  ASSUME NEW l \in Seq(LeaseRec), NEW e \in LeaseRec, NEW p, ~CanAdmit(p, l)
  PROVE  ~CanAdmit(p, Append(l, e))
<1>1. Len(Append(l, e)) = Len(l) + 1 /\ Len(l) \in Nat
  BY AppendFacts
<1>2. /\ Count(l, "governing") \in Nat /\ Count(l, "batch") \in Nat
      /\ Count(Append(l, e), "governing") = Count(l, "governing") + (IF e.priority = "governing" THEN 1 ELSE 0)
      /\ Count(Append(l, e), "batch") = Count(l, "batch") + (IF e.priority = "batch" THEN 1 ELSE 0)
  BY CountIs, CountAppend
<1>3. BatchLimit \in Int /\ NonGoverningLimit \in Int
  BY DEF BatchLimit, NonGoverningLimit, Reserve
<1> QED BY <1>1, <1>2, <1>3 DEF CanAdmit

------------------------------------------------------------------------------
\* What every operation of the gate keeps.

HeldBy(s) == {e \in LeaseRec : e.session = s /\ e.held}
AwaitedBy(s) == {w \in WaiterRec : w.session = s /\ w.awaited}
Governing(e) == e.priority = "governing" <=> e.session \in Nova

Reserved(l) == /\ Len(l) <= Limit
               /\ Len(l) - Count(l, "governing") <= NonGoverningLimit

\* A drain inside the gate holds one lane; a drain that waits has one place.
Matched(g, s) ==
  /\ Cardinality(At(g.active, HeldBy(s))) = IF g.phase[s] = "running" THEN 1 ELSE 0
  /\ Cardinality(At(g.waiting, AwaitedBy(s))) = IF g.phase[s] = "waiting" THEN 1 ELSE 0

GateOK(g) ==
  /\ g \in Gates
  /\ Reserved(g.active)
  /\ \A e \in ToSet(g.active) \cup ToSet(g.waiting) : Governing(e)
  /\ \A w \in ToSet(g.waiting) : w.awaited \/ ~w.original
  /\ \A s \in Sessions : Matched(g, s)

LEMMA LimitsAreInts == Limit \in Nat /\ NonGoverningLimit \in Int /\ BatchLimit \in Int
BY DEF NonGoverningLimit, BatchLimit, Reserve

\* A lane is taken only where canAdmit() leaves the reserve.
LEMMA ReserveKept ==
  ASSUME NEW l \in Seq(LeaseRec), NEW e \in LeaseRec, Reserved(l), CanAdmit(e.priority, l)
  PROVE  Reserved(Append(l, e))
<1>1. /\ Len(Append(l, e)) = Len(l) + 1 /\ Len(l) \in Nat
      /\ Count(l, "governing") \in Nat
      /\ Count(Append(l, e), "governing")
           = Count(l, "governing") + (IF e.priority = "governing" THEN 1 ELSE 0)
  BY AppendFacts, CountIs, CountAppend
<1> QED BY <1>1, LimitsAreInts DEF Reserved, CanAdmit

LEMMA ReserveFreed ==
  ASSUME NEW l \in Seq(LeaseRec), NEW k \in DOMAIN l, Reserved(l)
  PROVE  Reserved(RemoveAt(l, k))
<1>1. /\ Len(RemoveAt(l, k)) = Len(l) - 1 /\ Len(l) \in Nat
      /\ Count(l, "governing") \in Nat
      /\ Count(RemoveAt(l, k), "governing")
           = Count(l, "governing") - (IF l[k].priority = "governing" THEN 1 ELSE 0)
  BY RemoveFacts, CountIs, CountRemove
<1> QED BY <1>1, LimitsAreInts DEF Reserved

LEMMA GrantKeeps ==
  ASSUME NEW g \in Gates, GateOK(g), Next1(g) # 0
  PROVE  GateOK(Grant(g, Next1(g)))
<1> DEFINE n == Next1(g)
           h == Grant(g, n)
           w == g.waiting[n]
           e == [session |-> w.session, priority |-> w.priority, held |-> w.awaited]
<1>1. /\ n \in DOMAIN g.waiting /\ w \in WaiterRec /\ CanAdmit(w.priority, g.active)
      /\ h \in Gates /\ h.active = Append(g.active, e) /\ h.waiting = RemoveAt(g.waiting, n)
      /\ h.phase = IF w.awaited THEN [g.phase EXCEPT ![w.session] = "running"] ELSE g.phase
  BY GrantFacts
<1>2. /\ g.active \in Seq(LeaseRec) /\ g.waiting \in Seq(WaiterRec)
      /\ g.phase \in [Sessions -> {"idle", "waiting", "running"}]
  BY DEF Gates
<1>3. /\ e \in LeaseRec /\ e.session = w.session /\ e.priority = w.priority /\ e.held = w.awaited
      /\ w.session \in Sessions /\ w.awaited \in BOOLEAN
  BY <1>1 DEF LeaseRec, WaiterRec
<1> HIDE DEF h, e, n
<1>4. /\ ToSet(h.active) = ToSet(g.active) \cup {e} /\ ToSet(h.waiting) \subseteq ToSet(g.waiting)
      /\ w \in ToSet(g.waiting)
  <2>1. ToSet(Append(g.active, e)) = ToSet(g.active) \cup {e}
    BY <1>2, <1>3, ElementsOf
  <2> DEFINE q == g.waiting
  <2>2. q \in Seq(WaiterRec) /\ n \in DOMAIN q
    BY <1>1, <1>2
  <2> HIDE DEF q
  <2>3. ToSet(RemoveAt(q, n)) \subseteq ToSet(q) /\ q[n] \in ToSet(q)
    BY <2>2, ElementsOf
  <2> QED BY <1>1, <2>1, <2>3 DEF q
<1>5. Reserved(h.active)
  BY <1>1, <1>2, <1>3, ReserveKept DEF GateOK
<1>6. \A x \in ToSet(h.active) \cup ToSet(h.waiting) : Governing(x)
  <2>1. Governing(e)
    BY <1>3, <1>4 DEF GateOK, Governing
  <2> QED BY <1>4, <2>1 DEF GateOK
<1>7. \A x \in ToSet(h.waiting) : x.awaited \/ ~x.original
  BY <1>4 DEF GateOK
<1>8. ASSUME NEW s \in Sessions PROVE Matched(h, s)
  <2> DEFINE H == Cardinality(At(g.active, HeldBy(s)))
             W == Cardinality(At(g.waiting, AwaitedBy(s)))
             mine == w.session = s /\ w.awaited
  <2>1. H \in Nat /\ W \in Nat /\ (W = 0 <=> At(g.waiting, AwaitedBy(s)) = {})
    BY <1>2, AtIsFinite
  <2>2. /\ H = IF g.phase[s] = "running" THEN 1 ELSE 0
        /\ W = IF g.phase[s] = "waiting" THEN 1 ELSE 0
    BY DEF GateOK, Matched
  <2>3. (e \in HeldBy(s) <=> mine) /\ (w \in AwaitedBy(s) <=> mine)
    BY <1>1, <1>3 DEF HeldBy, AwaitedBy
  <2>4. Cardinality(At(h.active, HeldBy(s))) = H + (IF e \in HeldBy(s) THEN 1 ELSE 0)
    BY <1>1, <1>2, <1>3, AtAppend
  <2>5. Cardinality(At(h.waiting, AwaitedBy(s))) = W - (IF w \in AwaitedBy(s) THEN 1 ELSE 0)
    BY <1>1, <1>2, AtRemove
  <2>6. mine => W # 0
    BY <1>1, <2>1, <2>3 DEF At
  <2>7. h.phase[s] = IF mine THEN "running" ELSE g.phase[s]
    BY <1>1, <1>2, <1>3
  <2> HIDE DEF H, W, mine
  <2> QED BY <2>1, <2>2, <2>3, <2>4, <2>5, <2>6, <2>7 DEF Matched
<1>9. GateOK(h)
  BY <1>1, <1>5, <1>6, <1>7, <1>8 DEF GateOK
<1> QED BY <1>9 DEF h, n

\* drain() keeps it, and leaves nobody who could be admitted.
LEMMA DrainKeeps ==
  ASSUME NEW g, GateOK(g)
  PROVE  /\ GateOK(Drained[g])
         /\ \A i \in DOMAIN Drained[g].waiting :
              ~CanAdmit(Drained[g].waiting[i].priority, Drained[g].active)
         /\ Len(Drained[g].waiting) <= Len(g.waiting)
<1> DEFINE A == {x \in Gates : GateOK(x)}
<1>1. \A x \in A : Next1(x) # 0 => Grant(x, Next1(x)) \in A
  BY GrantKeeps DEF GateOK
<1>2. g \in A
  BY DEF GateOK
<1>3. /\ Drained[g] \in A /\ Next1(Drained[g]) = 0
      /\ Len(Drained[g].waiting) <= Len(g.waiting)
  <2> HIDE DEF A
  <2>1. A \subseteq Gates
    BY DEF A
  <2> QED BY <1>1, <1>2, <2>1, DrainInduction
<1>4. Drained[g].waiting \in Seq(WaiterRec)
  BY <1>3 DEF Gates
<1> QED BY <1>3, <1>4, NextFacts DEF Next1

\* release() gives back one lane of the drain that holds one.
LEMMA GivenBackKeeps ==
  ASSUME NEW g, GateOK(g), NEW s \in Sessions, g.phase[s] = "running"
  PROVE  /\ GateOK(GivenBack(g, s)) /\ GivenBack(g, s).waiting = g.waiting
         /\ \E k \in DOMAIN g.active :
              /\ g.active[k].session = s /\ g.active[k].held
              /\ GivenBack(g, s).active = RemoveAt(g.active, k)
<1> DEFINE h == GivenBack(g, s)
           k == CHOOSE n \in DOMAIN g.active : g.active[n].session = s /\ g.active[n].held
<1>1. /\ g \in Gates /\ g.active \in Seq(LeaseRec) /\ g.waiting \in Seq(WaiterRec)
      /\ g.phase \in [Sessions -> {"idle", "waiting", "running"}]
  BY DEF GateOK, Gates
<1>2. \A i \in DOMAIN g.active : g.active[i] \in LeaseRec
  BY <1>1, ElementOfSeq, LenProperties
<1>3. \E n \in DOMAIN g.active : g.active[n].session = s /\ g.active[n].held
  <2>1. Cardinality(At(g.active, HeldBy(s))) = 1
    BY DEF GateOK, Matched
  <2>2. At(g.active, HeldBy(s)) # {}
    BY <1>1, <2>1, AtIsFinite
  <2> QED BY <2>2 DEF At, HeldBy
<1>4. k \in DOMAIN g.active /\ g.active[k].session = s /\ g.active[k].held
  BY <1>3
<1>5. /\ h.active = RemoveAt(g.active, k) /\ h.waiting = g.waiting
      /\ h.phase = [g.phase EXCEPT ![s] = "idle"]
      /\ h = [active |-> h.active, waiting |-> h.waiting, phase |-> h.phase]
  BY DEF GivenBack
<1> HIDE DEF h, k
<1>6. PICK l \in Seq(LeaseRec) : l = g.active
  BY <1>1
<1>7. PICK j \in DOMAIN l : j = k
  BY <1>4, <1>6
<1>8. RemoveAt(l, j) \in Seq(LeaseRec) /\ ToSet(RemoveAt(l, j)) \subseteq ToSet(l)
  BY RemoveFacts, ElementsOf
<1>9. h \in Gates
  BY <1>1, <1>5, <1>6, <1>7, <1>8 DEF Gates
<1>10. Reserved(h.active)
  <2>1. Reserved(l)
    BY <1>6 DEF GateOK
  <2>2. Reserved(RemoveAt(l, j))
    BY <2>1, ReserveFreed
  <2> QED BY <1>5, <1>6, <1>7, <2>2
<1>11. \A t \in Sessions : Matched(h, t)
  <2> SUFFICES ASSUME NEW t \in Sessions PROVE Matched(h, t)
    OBVIOUS
  <2> DEFINE H == Cardinality(At(l, HeldBy(t)))
  <2>1. H \in Nat
    BY AtIsFinite
  <2>2. /\ H = IF g.phase[t] = "running" THEN 1 ELSE 0
        /\ Cardinality(At(g.waiting, AwaitedBy(t))) = IF g.phase[t] = "waiting" THEN 1 ELSE 0
    BY <1>6 DEF GateOK, Matched
  <2>3. l[j] \in HeldBy(t) <=> t = s
    BY <1>2, <1>4, <1>6, <1>7 DEF HeldBy
  <2>4. Cardinality(At(RemoveAt(l, j), HeldBy(t))) = H - (IF l[j] \in HeldBy(t) THEN 1 ELSE 0)
    BY AtRemove
  <2> HIDE DEF H
  <2>5. Cardinality(At(h.active, HeldBy(t))) = IF h.phase[t] = "running" THEN 1 ELSE 0
    BY <1>1, <1>5, <1>6, <1>7, <2>1, <2>2, <2>3, <2>4
  <2>6. Cardinality(At(h.waiting, AwaitedBy(t))) = IF h.phase[t] = "waiting" THEN 1 ELSE 0
    BY <1>1, <1>5, <2>2
  <2> QED BY <2>5, <2>6 DEF Matched
<1>12. GateOK(h)
  BY <1>5, <1>6, <1>7, <1>8, <1>9, <1>10, <1>11 DEF GateOK
<1> QED BY <1>4, <1>5, <1>12 DEF h

\* reprioritize() before it drains.
Reclassified(g, s, p) ==
  [g EXCEPT
     !.active = [n \in DOMAIN g.active |->
        IF g.active[n].session = s THEN [g.active[n] EXCEPT !.priority = p] ELSE g.active[n]],
     !.waiting = [n \in DOMAIN g.waiting |->
        IF g.waiting[n].session = s /\ g.waiting[n].priority # p
          THEN [g.waiting[n] EXCEPT !.priority = p, !.original = FALSE]
          ELSE g.waiting[n]]]

LEMMA ReclassifiedKeeps ==
  ASSUME NEW g, GateOK(g), NEW s \in Sessions, NEW p \in Classes, p = "governing" <=> s \in Nova
  PROVE  GateOK(Reclassified(g, s, p))
<1> DEFINE h == Reclassified(g, s, p)
           L(e) == IF e.session = s THEN [e EXCEPT !.priority = p] ELSE e
           Q(w) == IF w.session = s /\ w.priority # p
                     THEN [w EXCEPT !.priority = p, !.original = FALSE]
                     ELSE w
           leases == [n \in DOMAIN g.active |-> L(g.active[n])]
           queue == [n \in DOMAIN g.waiting |-> Q(g.waiting[n])]
<1>1. /\ g \in Gates /\ g.active \in Seq(LeaseRec) /\ g.waiting \in Seq(WaiterRec)
      /\ g.phase \in [Sessions -> {"idle", "waiting", "running"}]
  BY DEF GateOK, Gates
<1>2. /\ h.active = leases /\ h.waiting = queue /\ h.phase = g.phase
      /\ h = [active |-> h.active, waiting |-> h.waiting, phase |-> h.phase]
  <2>1. h = [g EXCEPT !.active = leases, !.waiting = queue]
    BY DEF Reclassified
  <2> HIDE DEF h, leases, queue
  <2> QED BY <1>1, <2>1 DEF Gates
<1> HIDE DEF h
<1>3. /\ \A i \in DOMAIN g.active : g.active[i] \in LeaseRec /\ Governing(g.active[i])
      /\ \A i \in DOMAIN g.waiting : g.waiting[i] \in WaiterRec /\ Governing(g.waiting[i])
           /\ (g.waiting[i].awaited \/ ~g.waiting[i].original)
  <2>1. /\ \A i \in DOMAIN g.active : g.active[i] \in ToSet(g.active)
        /\ \A i \in DOMAIN g.waiting : g.waiting[i] \in ToSet(g.waiting)
        /\ ToSet(g.active) \subseteq LeaseRec /\ ToSet(g.waiting) \subseteq WaiterRec
    BY <1>1, ElementsOf
  <2> QED BY <2>1 DEF GateOK
<1>4. ASSUME NEW i \in DOMAIN g.active
      PROVE  /\ h.active[i] \in LeaseRec /\ Governing(h.active[i])
             /\ h.active[i].session = g.active[i].session /\ h.active[i].held = g.active[i].held
             /\ h.active[i].priority = "governing" <=> g.active[i].priority = "governing"
  <2>1. PICK e \in LeaseRec : e = g.active[i] /\ Governing(e)
    BY <1>3
  <2>2. h.active[i] = L(e)
    BY <1>2, <2>1
  <2>3. /\ L(e) \in LeaseRec /\ Governing(L(e)) /\ L(e).session = e.session /\ L(e).held = e.held
        /\ L(e).priority = "governing" <=> e.priority = "governing"
    BY <2>1 DEF LeaseRec, Governing
  <2> HIDE DEF L, leases
  <2> QED BY <2>1, <2>2, <2>3
<1>5. ASSUME NEW i \in DOMAIN g.waiting
      PROVE  /\ h.waiting[i] \in WaiterRec /\ Governing(h.waiting[i])
             /\ h.waiting[i].session = g.waiting[i].session
             /\ h.waiting[i].awaited = g.waiting[i].awaited
             /\ (h.waiting[i].awaited \/ ~h.waiting[i].original)
  <2>1. PICK w \in WaiterRec : w = g.waiting[i] /\ Governing(w) /\ (w.awaited \/ ~w.original)
    BY <1>3
  <2>2. h.waiting[i] = Q(w)
    BY <1>2, <2>1
  <2>3. /\ Q(w) \in WaiterRec /\ Governing(Q(w)) /\ Q(w).session = w.session
        /\ Q(w).awaited = w.awaited /\ (Q(w).awaited \/ ~Q(w).original)
    BY <2>1 DEF WaiterRec, Governing
  <2> HIDE DEF Q, queue
  <2> QED BY <2>1, <2>2, <2>3
<1>6. DOMAIN h.active = DOMAIN g.active /\ DOMAIN h.waiting = DOMAIN g.waiting
  BY <1>2
<1>7. /\ h.active \in Seq(LeaseRec) /\ Len(h.active) = Len(g.active)
      /\ h.waiting \in Seq(WaiterRec) /\ Len(h.waiting) = Len(g.waiting)
  <2>1. /\ DOMAIN g.active = 1..Len(g.active) /\ Len(g.active) \in Nat
        /\ DOMAIN g.waiting = 1..Len(g.waiting) /\ Len(g.waiting) \in Nat
    BY <1>1, LenProperties
  <2>2. PICK m \in Nat, n \in Nat : m = Len(g.active) /\ n = Len(g.waiting)
    BY <2>1
  <2>3. h.active \in [1..m -> LeaseRec] /\ h.waiting \in [1..n -> WaiterRec]
    BY <1>2, <1>4, <1>5, <2>1, <2>2
  <2>4. h.active \in Seq(LeaseRec) /\ h.waiting \in Seq(WaiterRec)
    BY <2>3, SeqDef
  <2> QED BY <1>6, <2>1, <2>4, LenProperties
<1>8. h \in Gates
  BY <1>1, <1>2, <1>7 DEF Gates
<1>9. At(h.active, OfClass("governing")) = At(g.active, OfClass("governing"))
  BY <1>3, <1>4, <1>6 DEF At, OfClass
<1>10. Reserved(h.active)
  BY <1>1, <1>7, <1>9, CountIs DEF GateOK, Reserved
<1>11. ASSUME NEW t \in Sessions PROVE Matched(h, t)
  <2>1. At(h.active, HeldBy(t)) = At(g.active, HeldBy(t))
    BY <1>3, <1>4, <1>6 DEF At, HeldBy
  <2>2. At(h.waiting, AwaitedBy(t)) = At(g.waiting, AwaitedBy(t))
    BY <1>3, <1>5, <1>6 DEF At, AwaitedBy
  <2> QED BY <1>2, <2>1, <2>2 DEF GateOK, Matched
<1>12. /\ \A e \in ToSet(h.active) \cup ToSet(h.waiting) : Governing(e)
       /\ \A w \in ToSet(h.waiting) : w.awaited \/ ~w.original
  BY <1>4, <1>5, <1>6 DEF ToSet
<1>13. GateOK(h)
  BY <1>8, <1>10, <1>11, <1>12 DEF GateOK
<1> QED BY <1>13 DEF h

\* acquire() with a lane at once.
LEMMA AdmittedKeeps ==
  ASSUME NEW g, GateOK(g), NEW s \in Sessions, NEW p \in Classes, p = "governing" <=> s \in Nova,
         g.phase[s] = "idle", CanAdmit(p, g.active)
  PROVE  GateOK([active |-> Append(g.active, [session |-> s, priority |-> p, held |-> TRUE]),
                 waiting |-> g.waiting, phase |-> [g.phase EXCEPT ![s] = "running"]])
<1> DEFINE e == [session |-> s, priority |-> p, held |-> TRUE]
           h == [active |-> Append(g.active, e), waiting |-> g.waiting,
                 phase |-> [g.phase EXCEPT ![s] = "running"]]
<1>1. /\ g \in Gates /\ g.active \in Seq(LeaseRec) /\ g.waiting \in Seq(WaiterRec)
      /\ g.phase \in [Sessions -> {"idle", "waiting", "running"}]
  BY DEF GateOK, Gates
<1>2. e \in LeaseRec /\ e.session = s /\ e.priority = p /\ e.held
  BY DEF LeaseRec
<1>3. /\ h.active = Append(g.active, e) /\ h.waiting = g.waiting
      /\ h.phase = [g.phase EXCEPT ![s] = "running"]
      /\ h = [active |-> h.active, waiting |-> h.waiting, phase |-> h.phase]
  OBVIOUS
<1> HIDE DEF h, e
<1>4. /\ Append(g.active, e) \in Seq(LeaseRec)
      /\ ToSet(Append(g.active, e)) = ToSet(g.active) \cup {e}
  BY <1>1, <1>2, AppendFacts, ElementsOf
<1>5. h \in Gates
  BY <1>1, <1>3, <1>4 DEF Gates
<1>6. Reserved(h.active)
  BY <1>1, <1>2, <1>3, ReserveKept DEF GateOK
<1>7. \A x \in ToSet(h.active) \cup ToSet(h.waiting) : Governing(x)
  BY <1>2, <1>3, <1>4 DEF GateOK, Governing
<1>8. ASSUME NEW t \in Sessions PROVE Matched(h, t)
  <2> DEFINE H == Cardinality(At(g.active, HeldBy(t)))
  <2>1. H \in Nat
    BY <1>1, AtIsFinite
  <2>2. /\ H = IF g.phase[t] = "running" THEN 1 ELSE 0
        /\ Cardinality(At(g.waiting, AwaitedBy(t))) = IF g.phase[t] = "waiting" THEN 1 ELSE 0
    BY DEF GateOK, Matched
  <2>3. e \in HeldBy(t) <=> t = s
    BY <1>2 DEF HeldBy
  <2>4. Cardinality(At(h.active, HeldBy(t))) = H + (IF e \in HeldBy(t) THEN 1 ELSE 0)
    BY <1>1, <1>2, <1>3, AtAppend
  <2> HIDE DEF H
  <2>5. Cardinality(At(h.active, HeldBy(t))) = IF h.phase[t] = "running" THEN 1 ELSE 0
    BY <1>1, <1>3, <2>1, <2>2, <2>3, <2>4
  <2>6. Cardinality(At(h.waiting, AwaitedBy(t))) = IF h.phase[t] = "waiting" THEN 1 ELSE 0
    BY <1>1, <1>3, <2>2
  <2> QED BY <2>5, <2>6 DEF Matched
<1>9. GateOK(h)
  BY <1>3, <1>5, <1>6, <1>7, <1>8 DEF GateOK
<1> QED BY <1>9 DEF h, e

\* acquire() with a place in the queue.
LEMMA QueuedKeeps ==
  ASSUME NEW g, GateOK(g), NEW s \in Sessions, NEW p \in Classes, p = "governing" <=> s \in Nova,
         g.phase[s] = "idle"
  PROVE  GateOK([active |-> g.active,
                 waiting |-> Append(g.waiting, [session |-> s, priority |-> p,
                                                original |-> TRUE, awaited |-> TRUE]),
                 phase |-> [g.phase EXCEPT ![s] = "waiting"]])
<1> DEFINE w == [session |-> s, priority |-> p, original |-> TRUE, awaited |-> TRUE]
           h == [active |-> g.active, waiting |-> Append(g.waiting, w),
                 phase |-> [g.phase EXCEPT ![s] = "waiting"]]
<1>1. /\ g \in Gates /\ g.active \in Seq(LeaseRec) /\ g.waiting \in Seq(WaiterRec)
      /\ g.phase \in [Sessions -> {"idle", "waiting", "running"}]
  BY DEF GateOK, Gates
<1>2. w \in WaiterRec /\ w.session = s /\ w.priority = p /\ w.awaited
  BY DEF WaiterRec
<1>3. /\ h.active = g.active /\ h.waiting = Append(g.waiting, w)
      /\ h.phase = [g.phase EXCEPT ![s] = "waiting"]
      /\ h = [active |-> h.active, waiting |-> h.waiting, phase |-> h.phase]
  OBVIOUS
<1> HIDE DEF h, w
<1>4. /\ Append(g.waiting, w) \in Seq(WaiterRec)
      /\ ToSet(Append(g.waiting, w)) = ToSet(g.waiting) \cup {w}
  BY <1>1, <1>2, AppendFacts, ElementsOf
<1>5. h \in Gates
  BY <1>1, <1>3, <1>4 DEF Gates
<1>6. /\ \A x \in ToSet(h.active) \cup ToSet(h.waiting) : Governing(x)
      /\ \A x \in ToSet(h.waiting) : x.awaited \/ ~x.original
  BY <1>2, <1>3, <1>4 DEF GateOK, Governing
<1>7. ASSUME NEW t \in Sessions PROVE Matched(h, t)
  <2> DEFINE W == Cardinality(At(g.waiting, AwaitedBy(t)))
  <2>1. W \in Nat
    BY <1>1, AtIsFinite
  <2>2. /\ Cardinality(At(g.active, HeldBy(t))) = IF g.phase[t] = "running" THEN 1 ELSE 0
        /\ W = IF g.phase[t] = "waiting" THEN 1 ELSE 0
    BY DEF GateOK, Matched
  <2>3. w \in AwaitedBy(t) <=> t = s
    BY <1>2 DEF AwaitedBy
  <2>4. Cardinality(At(h.waiting, AwaitedBy(t))) = W + (IF w \in AwaitedBy(t) THEN 1 ELSE 0)
    BY <1>1, <1>2, <1>3, AtAppend
  <2> HIDE DEF W
  <2>5. Cardinality(At(h.waiting, AwaitedBy(t))) = IF h.phase[t] = "waiting" THEN 1 ELSE 0
    BY <1>1, <1>3, <2>1, <2>2, <2>3, <2>4
  <2>6. Cardinality(At(h.active, HeldBy(t))) = IF h.phase[t] = "running" THEN 1 ELSE 0
    BY <1>1, <1>3, <2>2
  <2> QED BY <2>5, <2>6 DEF Matched
<1>8. GateOK(h)
  BY <1>3, <1>5, <1>6, <1>7 DEF GateOK
<1> QED BY <1>8 DEF h, w

\* The cleanup of an interrupted waiter: it is gone, or nobody waits on it any more.
LEMMA CleanedKeeps ==
  ASSUME NEW g, GateOK(g), NEW s \in Sessions, g.phase[s] = "waiting"
  PROVE  /\ GateOK([active |-> g.active, waiting |-> Cleaned(g.waiting, s),
                    phase |-> [g.phase EXCEPT ![s] = "idle"]])
         /\ \A x \in ToSet(Cleaned(g.waiting, s)) :
              \E y \in ToSet(g.waiting) : x.priority = y.priority
<1> DEFINE k == Place(g.waiting, s)
           c == Cleaned(g.waiting, s)
           h == [active |-> g.active, waiting |-> c, phase |-> [g.phase EXCEPT ![s] = "idle"]]
<1>1. /\ g \in Gates /\ g.active \in Seq(LeaseRec) /\ g.waiting \in Seq(WaiterRec)
      /\ g.phase \in [Sessions -> {"idle", "waiting", "running"}]
  BY DEF GateOK, Gates
<1>2. PICK q \in Seq(WaiterRec) : q = g.waiting
  BY <1>1
<1>3. /\ \A i \in DOMAIN q : q[i] \in WaiterRec /\ Governing(q[i])
           /\ (q[i].awaited \/ ~q[i].original)
      /\ ToSet(q) \subseteq WaiterRec
      /\ \A i \in DOMAIN q : q[i] \in ToSet(q)
  <2>1. ToSet(q) \subseteq WaiterRec /\ \A i \in DOMAIN q : q[i] \in ToSet(q)
    BY ElementsOf
  <2> QED BY <1>2, <2>1 DEF GateOK
<1>4. k \in DOMAIN q /\ q[k].session = s /\ q[k].awaited
  <2>1. Cardinality(At(q, AwaitedBy(s))) = 1
    BY <1>2 DEF GateOK, Matched
  <2>2. At(q, AwaitedBy(s)) # {}
    BY <2>1, AtIsFinite
  <2>3. \E n \in DOMAIN q : q[n].session = s /\ q[n].awaited
    BY <2>2 DEF At, AwaitedBy
  <2> QED BY <1>2, <2>3 DEF Place
<1>5. c = IF q[k].original THEN RemoveAt(q, k) ELSE [q EXCEPT ![k].awaited = FALSE]
  BY <1>2 DEF Cleaned
<1> HIDE DEF c, k
<1>6. PICK j \in DOMAIN q : j = k
  BY <1>4
<1>7. /\ c \in Seq(WaiterRec)
      /\ \A x \in ToSet(c) : /\ Governing(x) /\ (x.awaited \/ ~x.original)
                             /\ \E y \in ToSet(q) : x.priority = y.priority
      /\ \A t \in Sessions : Cardinality(At(c, AwaitedBy(t)))
           = Cardinality(At(q, AwaitedBy(t))) - (IF t = s THEN 1 ELSE 0)
  <2>1. CASE q[j].original
    <3>1. c = RemoveAt(q, j)
      BY <1>5, <1>6, <2>1
    <3>2. c \in Seq(WaiterRec) /\ ToSet(c) \subseteq ToSet(q)
      BY <3>1, RemoveFacts, ElementsOf
    <3>3. ASSUME NEW t \in Sessions
          PROVE  Cardinality(At(c, AwaitedBy(t)))
                   = Cardinality(At(q, AwaitedBy(t))) - (IF t = s THEN 1 ELSE 0)
      <4>1. q[j] \in AwaitedBy(t) <=> t = s
        BY <1>3, <1>4, <1>6 DEF AwaitedBy
      <4>2. Cardinality(At(c, AwaitedBy(t)))
              = Cardinality(At(q, AwaitedBy(t))) - (IF q[j] \in AwaitedBy(t) THEN 1 ELSE 0)
        BY <3>1, AtRemove
      <4> QED BY <4>1, <4>2
    <3> QED BY <1>2, <3>2, <3>3 DEF GateOK
  <2>2. CASE ~q[j].original
    <3> DEFINE d == [q[j] EXCEPT !.awaited = FALSE]
    <3>1. c = [q EXCEPT ![j] = d]
      BY <1>5, <1>6, <2>2
    <3>2. /\ d \in WaiterRec /\ ~d.awaited /\ ~d.original /\ Governing(d)
          /\ d.priority = q[j].priority
      BY <1>3, <2>2 DEF WaiterRec, Governing
    <3> HIDE DEF d
    <3>3. PICK n \in Nat : n = Len(q)
      BY LenProperties
    <3>4. DOMAIN q = 1..n /\ q \in [1..n -> WaiterRec]
      BY <3>3, LenProperties
    <3>5. DOMAIN c = 1..n /\ c \in [1..n -> WaiterRec] /\ c[j] = d
          /\ \A i \in 1..n : i # j => c[i] = q[i]
      BY <3>1, <3>2, <3>4
    <3>6. c \in Seq(WaiterRec)
      BY <3>5, SeqDef
    <3>7. ASSUME NEW x \in ToSet(c)
          PROVE  /\ Governing(x) /\ (x.awaited \/ ~x.original)
                 /\ \E y \in ToSet(q) : x.priority = y.priority
      <4>1. PICK i \in 1..n : x = c[i]
        BY <3>5 DEF ToSet
      <4>2. CASE i = j
        BY <1>3, <3>2, <3>5, <4>1, <4>2
      <4>3. CASE i # j
        BY <1>3, <3>4, <3>5, <4>1, <4>3
      <4> QED BY <4>2, <4>3
    <3>8. ASSUME NEW t \in Sessions
          PROVE  Cardinality(At(c, AwaitedBy(t)))
                   = Cardinality(At(q, AwaitedBy(t))) - (IF t = s THEN 1 ELSE 0)
      <4> DEFINE X == At(q, AwaitedBy(t))
      <4>1. IsFiniteSet(X) /\ Cardinality(X) \in Nat
        BY AtIsFinite
      <4>2. j \in X <=> t = s
        BY <1>3, <1>4, <1>6 DEF At, AwaitedBy
      <4>3. At(c, AwaitedBy(t)) = X \ {j}
        BY <3>2, <3>4, <3>5 DEF At, AwaitedBy
      <4> HIDE DEF X
      <4>4. Cardinality(X \ {j}) = IF j \in X THEN Cardinality(X) - 1 ELSE Cardinality(X)
        BY <4>1, FS_RemoveElement
      <4>5. Cardinality(X \ {j}) = Cardinality(X) - (IF t = s THEN 1 ELSE 0)
        BY <4>1, <4>2, <4>4
      <4> QED BY <4>3, <4>5 DEF X
    <3> QED BY <3>6, <3>7, <3>8
  <2> QED BY <2>1, <2>2
<1>8. /\ h.active = g.active /\ h.waiting = c /\ h.phase = [g.phase EXCEPT ![s] = "idle"]
      /\ h = [active |-> h.active, waiting |-> h.waiting, phase |-> h.phase]
  OBVIOUS
<1> HIDE DEF h
<1>9. h \in Gates
  BY <1>1, <1>7, <1>8 DEF Gates
<1>10. ASSUME NEW t \in Sessions PROVE Matched(h, t)
  <2> DEFINE W == Cardinality(At(q, AwaitedBy(t)))
  <2>1. /\ Cardinality(At(g.active, HeldBy(t))) = IF g.phase[t] = "running" THEN 1 ELSE 0
        /\ W = IF g.phase[t] = "waiting" THEN 1 ELSE 0
    BY <1>2 DEF GateOK, Matched
  <2>2. Cardinality(At(h.waiting, AwaitedBy(t))) = W - (IF t = s THEN 1 ELSE 0)
    BY <1>7, <1>8
  <2> HIDE DEF W
  <2>3. Cardinality(At(h.waiting, AwaitedBy(t))) = IF h.phase[t] = "waiting" THEN 1 ELSE 0
    BY <1>1, <1>8, <2>1, <2>2
  <2>4. Cardinality(At(h.active, HeldBy(t))) = IF h.phase[t] = "running" THEN 1 ELSE 0
    BY <1>1, <1>8, <2>1
  <2> QED BY <2>3, <2>4 DEF Matched
<1>11. GateOK(h)
  BY <1>7, <1>8, <1>9, <1>10 DEF GateOK
<1>12. /\ GateOK(h)
       /\ \A x \in ToSet(c) : \E y \in ToSet(g.waiting) : x.priority = y.priority
  BY <1>2, <1>7, <1>11
<1> QED BY <1>12 DEF h, c

------------------------------------------------------------------------------
\* The inductive invariant: the gate is in order, and the queue is drained.
IInv ==
  /\ GateOK(Gate)
  /\ NobodyWaitsInVain
  /\ viewed \in [Sessions -> BOOLEAN]
  /\ news \in Seq([session : Sessions, human : BOOLEAN])
  /\ changes \in 0..MaxChanges

\* The gate is what the variables say, and a step that installs g makes it g.
LEMMA GateIs ==
  /\ Gate.active = active /\ Gate.waiting = waiting /\ Gate.phase = phase
  /\ \A g \in Gates : g = [active |-> g.active, waiting |-> g.waiting, phase |-> g.phase]
BY DEF Gate, Gates

LEMMA ClassIs ==
  ASSUME NEW s \in Sessions, NEW human \in BOOLEAN
  PROVE  ClassOf(s, human) \in Classes /\ (ClassOf(s, human) = "governing" <=> s \in Nova)
BY DEF ClassOf, Classes

LEMMA InitIInv == Init => IInv
<1> SUFFICES ASSUME Init PROVE IInv
  OBVIOUS
<1>1. active = <<>> /\ waiting = <<>> /\ phase = [s \in Sessions |-> "idle"]
  BY DEF Init
<1>2. /\ <<>> \in Seq(LeaseRec) /\ <<>> \in Seq(WaiterRec) /\ Len(<<>>) = 0
      /\ <<>> \in Seq([session : Sessions, human : BOOLEAN])
      /\ ToSet(<<>>) = {} /\ \A P : At(<<>>, P) = {}
  BY DEF ToSet, At
<1>3. Gate \in Gates
  BY <1>1, <1>2 DEF Gate, Gates
<1>4. Reserved(active)
  <2>1. Count(active, "governing") = 0
    BY <1>1, <1>2, CountIs, FS_EmptySet
  <2>2. 0 <= Limit /\ 0 <= NonGoverningLimit
    BY DEF NonGoverningLimit, Reserve
  <2> QED BY <1>1, <1>2, <2>1, <2>2, LimitsAreInts DEF Reserved
<1>5. \A s \in Sessions : Matched(Gate, s)
  BY <1>1, <1>2, GateIs, FS_EmptySet DEF Matched
<1>6. GateOK(Gate)
  BY <1>1, <1>2, <1>3, <1>4, <1>5, GateIs DEF GateOK
<1>7. NobodyWaitsInVain
  BY <1>1 DEF NobodyWaitsInVain
<1> QED BY <1>1, <1>2, <1>6, <1>7 DEF Init, IInv

LEMMA AcquireKeeps ==
  ASSUME NEW s \in Sessions, IInv, Acquire(s)
  PROVE  GateOK(Gate') /\ NobodyWaitsInVain'
<1> DEFINE p == ClassOf(s, viewed[s])
           e == [session |-> s, priority |-> p, held |-> TRUE]
           w == [session |-> s, priority |-> p, original |-> TRUE, awaited |-> TRUE]
<1>1. /\ GateOK(Gate) /\ phase[s] = "idle" /\ active \in Seq(LeaseRec) /\ waiting \in Seq(WaiterRec)
      /\ \A n \in DOMAIN waiting : ~CanAdmit(waiting[n].priority, active)
  BY DEF IInv, Acquire, GateOK, Gate, Gates, NobodyWaitsInVain
<1>2. p \in Classes /\ (p = "governing" <=> s \in Nova)
  BY ClassIs DEF IInv
<1>3. CASE CanAdmit(p, active)
  <2>1. /\ active' = Append(active, e) /\ phase' = [phase EXCEPT ![s] = "running"]
        /\ waiting' = waiting
    BY <1>3 DEF Acquire
  <2>2. e \in LeaseRec
    BY <1>2 DEF LeaseRec
  <2> HIDE DEF p
  <2>3. GateOK([active |-> Append(Gate.active, e), waiting |-> Gate.waiting,
                phase |-> [Gate.phase EXCEPT ![s] = "running"]])
    BY <1>1, <1>2, <1>3, GateIs, AdmittedKeeps
  <2>4. GateOK(Gate')
    BY <2>1, <2>3 DEF Gate
  <2> HIDE DEF e
  <2>5. ASSUME NEW n \in DOMAIN waiting PROVE ~CanAdmit(waiting[n].priority, Append(active, e))
    BY <1>1, <2>2, RefusedStays
  <2> QED BY <2>1, <2>4, <2>5 DEF NobodyWaitsInVain
<1>4. CASE ~CanAdmit(p, active)
  <2>1. /\ waiting' = Append(waiting, w) /\ phase' = [phase EXCEPT ![s] = "waiting"]
        /\ active' = active
    BY <1>4 DEF Acquire
  <2>2. w \in WaiterRec /\ w.priority = p
    BY <1>2 DEF WaiterRec
  <2> HIDE DEF p
  <2>3. GateOK([active |-> Gate.active, waiting |-> Append(Gate.waiting, w),
                phase |-> [Gate.phase EXCEPT ![s] = "waiting"]])
    BY <1>1, <1>2, GateIs, QueuedKeeps
  <2>4. GateOK(Gate')
    BY <2>1, <2>3 DEF Gate
  <2> HIDE DEF w
  <2>5. ASSUME NEW n \in DOMAIN waiting' PROVE ~CanAdmit(waiting'[n].priority, active)
    <3>1. /\ Len(waiting) \in Nat /\ DOMAIN waiting = 1..Len(waiting)
          /\ DOMAIN waiting' = 1..(Len(waiting) + 1)
          /\ \A i \in 1..Len(waiting) : waiting'[i] = waiting[i]
          /\ waiting'[Len(waiting) + 1] = w
      BY <1>1, <2>1, <2>2, AppendFacts
    <3>2. n \in 1..Len(waiting) \/ n = Len(waiting) + 1
      BY <3>1
    <3> QED BY <1>1, <1>4, <2>2, <3>1, <3>2
  <2> QED BY <2>1, <2>4, <2>5 DEF NobodyWaitsInVain
<1> QED BY <1>3, <1>4

LEMMA InterruptKeeps ==
  ASSUME NEW s \in Sessions, IInv, Interrupt(s)
  PROVE  GateOK(Gate') /\ NobodyWaitsInVain'
<1>1. GateOK(Gate) /\ waiting \in Seq(WaiterRec)
  BY DEF IInv, GateOK, Gate, Gates
<1>2. /\ active' = active /\ waiting' = Cleaned(waiting, s) /\ phase[s] = "waiting"
      /\ phase' = [phase EXCEPT ![s] = "idle"]
  BY DEF Interrupt
<1>3. /\ GateOK([active |-> Gate.active, waiting |-> Cleaned(Gate.waiting, s),
                 phase |-> [Gate.phase EXCEPT ![s] = "idle"]])
      /\ \A x \in ToSet(Cleaned(Gate.waiting, s)) :
           \E y \in ToSet(Gate.waiting) : x.priority = y.priority
  BY <1>1, <1>2, GateIs, CleanedKeeps
<1>4. GateOK(Gate')
  BY <1>2, <1>3 DEF Gate
<1>5. \A x \in ToSet(waiting') : \E y \in ToSet(waiting) : x.priority = y.priority
  BY <1>2, <1>3, GateIs
<1>6. \A y \in ToSet(waiting) : ~CanAdmit(y.priority, active)
  BY DEF ToSet, IInv, NobodyWaitsInVain
<1>7. \A n \in DOMAIN waiting' : waiting'[n] \in ToSet(waiting')
  BY DEF ToSet
<1> QED BY <1>2, <1>4, <1>5, <1>6, <1>7 DEF NobodyWaitsInVain

LEMMA DrainedStep ==
  ASSUME NEW g, GateOK(g), Become(Drained[g])
  PROVE  GateOK(Gate') /\ NobodyWaitsInVain'
<1>1. PICK d \in Gates : /\ d = Drained[g] /\ GateOK(d)
                         /\ \A i \in DOMAIN d.waiting : ~CanAdmit(d.waiting[i].priority, d.active)
  BY DrainKeeps DEF GateOK
<1>2. active' = d.active /\ waiting' = d.waiting /\ phase' = d.phase
  BY <1>1 DEF Become
<1>3. Gate' = d
  BY <1>2, GateIs DEF Gate
<1> QED BY <1>1, <1>2, <1>3 DEF NobodyWaitsInVain

LEMMA FinishKeeps ==
  ASSUME NEW s \in Sessions, IInv, Finish(s)
  PROVE  GateOK(Gate') /\ NobodyWaitsInVain'
<1>1. phase[s] = "running" /\ Become(Drained[GivenBack(Gate, s)])
  BY DEF Finish, Released
<1>2. GateOK(GivenBack(Gate, s))
  BY <1>1, GateIs, GivenBackKeeps DEF IInv
<1> QED BY <1>1, <1>2, DrainedStep

LEMMA HearKeeps ==
  ASSUME IInv, Hear
  PROVE  GateOK(Gate') /\ NobodyWaitsInVain' /\ news' \in Seq([session : Sessions, human : BOOLEAN])
<1>1. PICK u : u = Head(news)
  OBVIOUS
<1>2. u \in [session : Sessions, human : BOOLEAN]
      /\ news' \in Seq([session : Sessions, human : BOOLEAN])
  BY <1>1, HeadTailProperties DEF IInv, Hear
<1>3. PICK p \in Classes : p = ClassOf(u.session, u.human) /\ (p = "governing" <=> u.session \in Nova)
  BY <1>2, ClassIs
<1>4. Become(Drained[Reclassified(Gate, u.session, p)])
  BY <1>1, <1>3 DEF Hear, Reprioritized, Reclassified
<1>5. GateOK(Reclassified(Gate, u.session, p))
  BY <1>2, <1>3, ReclassifiedKeeps DEF IInv
<1> QED BY <1>2, <1>4, <1>5, DrainedStep

LEMMA NextIInv == IInv /\ [Next]_vars => IInv'
<1> SUFFICES ASSUME IInv, [Next]_vars PROVE IInv'
  OBVIOUS
<1>1. ASSUME NEW s \in Sessions, Acquire(s) PROVE IInv'
  <2>1. viewed' = viewed /\ news' = news /\ changes' = changes
    BY <1>1 DEF Acquire
  <2> QED BY <1>1, <2>1, AcquireKeeps DEF IInv
<1>2. ASSUME NEW s \in Sessions, Interrupt(s) PROVE IInv'
  <2>1. viewed' = viewed /\ news' = news /\ changes' = changes
    BY <1>2 DEF Interrupt
  <2> QED BY <1>2, <2>1, InterruptKeeps DEF IInv
<1>3. ASSUME NEW s \in Sessions, Finish(s) PROVE IInv'
  <2>1. viewed' = viewed /\ news' = news /\ changes' = changes
    BY <1>3 DEF Finish
  <2> QED BY <1>3, <2>1, FinishKeeps DEF IInv
<1>4. ASSUME NEW s \in Sessions, View(s) PROVE IInv'
  <2>1. Gate' = Gate /\ active' = active /\ waiting' = waiting
    BY <1>4 DEF View, Gate
  <2>2. /\ viewed' \in [Sessions -> BOOLEAN] /\ changes' \in 0..MaxChanges
        /\ news' = Append(news, [session |-> s, human |-> ~viewed[s]])
    BY <1>4 DEF View, IInv
  <2>3. [session |-> s, human |-> ~viewed[s]] \in [session : Sessions, human : BOOLEAN]
    OBVIOUS
  <2>4. news' \in Seq([session : Sessions, human : BOOLEAN])
    BY <2>2, <2>3, AppendProperties DEF IInv
  <2> QED BY <2>1, <2>2, <2>4 DEF IInv, NobodyWaitsInVain
<1>5. ASSUME Hear PROVE IInv'
  <2>1. viewed' = viewed /\ changes' = changes
    BY <1>5 DEF Hear
  <2> QED BY <1>5, <2>1, HearKeeps DEF IInv
<1>6. CASE UNCHANGED vars
  <2>1. Gate' = Gate
    BY <1>6 DEF vars, Gate
  <2> QED BY <1>6, <2>1 DEF vars, IInv, NobodyWaitsInVain
<1> QED BY <1>1, <1>2, <1>3, <1>4, <1>5, <1>6 DEF Next

\* In every state the gate is in order and its queue is drained.
THEOREM Invariance == Spec => []IInv
BY InitIInv, NextIInv, PTL DEF Spec

\* The types of the variables, and the capacity: there are never more leases than lanes.
THEOREM TypeCorrect == Spec => []TypeOK
<1>1. IInv => TypeOK
  BY DEF IInv, GateOK, Reserved, Gate, TypeOK
<1> QED BY <1>1, Invariance, PTL

\* Every drain inside the gate holds one lane and every queued drain has one place, in any
\* order of stops, releases and reclassifications (admission.ts acquire, release,
\* reprioritize).
THEOREM LanesAreMatched == Spec => []LanesMatchDrains
<1>1. ASSUME IInv PROVE LanesMatchDrains
  <2>1. GateOK(Gate) /\ active \in Seq(LeaseRec) /\ waiting \in Seq(WaiterRec)
    BY <1>1 DEF IInv, GateOK, Gate, Gates
  <2>2. /\ \A i \in DOMAIN active : active[i] \in LeaseRec
        /\ \A i \in DOMAIN waiting : waiting[i] \in WaiterRec /\ waiting[i] \in ToSet(waiting)
    BY <2>1, ElementOfSeq, LenProperties DEF ToSet
  <2>3. \A i \in DOMAIN waiting : waiting[i].awaited \/ ~waiting[i].original
    BY <2>1, <2>2, GateIs DEF GateOK
  <2>4. ASSUME NEW s \in Sessions
        PROVE  /\ Cardinality({n \in Leases(s) : active[n].held})
                    = IF phase[s] = "running" THEN 1 ELSE 0
               /\ Cardinality({n \in DOMAIN waiting : waiting[n].session = s /\ waiting[n].awaited})
                    = IF phase[s] = "waiting" THEN 1 ELSE 0
    <3>1. At(active, HeldBy(s)) = {n \in Leases(s) : active[n].held}
      BY <2>2 DEF At, HeldBy, Leases
    <3>2. At(waiting, AwaitedBy(s))
            = {n \in DOMAIN waiting : waiting[n].session = s /\ waiting[n].awaited}
      BY <2>2 DEF At, AwaitedBy
    <3>3. Matched(Gate, s)
      BY <2>1 DEF GateOK
    <3> QED BY <3>1, <3>2, <3>3, GateIs DEF Matched
  <2> QED BY <2>3, <2>4 DEF LanesMatchDrains
<1> QED BY <1>1, Invariance, PTL

\* Nobody is left in the queue who could be admitted: acquire() queues only whom it refuses,
\* and release() and reprioritize() drain.
THEOREM NobodyIsForgotten == Spec => []NobodyWaitsInVain
<1>1. IInv => NobodyWaitsInVain
  BY DEF IInv
<1> QED BY <1>1, Invariance, PTL

\* A fleet of four lanes or more never gives its last one to a session that is not Nova's,
\* whatever presence changes in between: a reclassification moves no session into or out of
\* the governing class.
THEOREM ALaneForNova == Spec => []NovaHasALane
<1>1. ASSUME IInv PROVE NovaHasALane
  <2>1. Reserved(active) /\ active \in Seq(LeaseRec)
    BY <1>1, GateIs DEF IInv, GateOK, Gate, Gates
  <2>2. Count(active, "governing") \in Nat /\ Len(active) \in Nat
    BY <2>1, CountIs
  <2>3. Limit >= 4 => NonGoverningLimit = Limit - 1
    BY DEF NonGoverningLimit, Reserve
  <2> QED BY <2>1, <2>2, <2>3, LimitsAreInts DEF Reserved, NovaHasALane
<1> QED BY <1>1, Invariance, PTL

\* A worker that is asked to yield (shouldYield) does not yield for nothing: its lane, given
\* back, shortens the queue.
THEOREM YieldingHelps == Spec => []YieldHandsOver
<1>1. ASSUME IInv, NEW s \in Sessions, phase[s] = "running", Cardinality(Leases(s)) = 1,
             ShouldYield(Gate, s)
      PROVE  Len(Released(Gate, s).waiting) < Len(waiting)
  <2> DEFINE b == GivenBack(Gate, s)
             mine == {n \in DOMAIN active : active[n].session = s}
             first == CHOOSE n \in mine : \A m \in mine : n <= m
  <2>1. GateOK(Gate) /\ active \in Seq(LeaseRec) /\ waiting \in Seq(WaiterRec)
    BY <1>1 DEF IInv, GateOK, Gate, Gates
  <2>2. /\ mine # {}
        /\ \E n \in DOMAIN waiting : CanAdmit(waiting[n].priority, RemoveAt(active, first))
    BY <1>1, GateIs DEF ShouldYield
  <2>3. PICK k \in DOMAIN active : active[k].session = s /\ b.active = RemoveAt(active, k)
    BY <1>1, <2>1, GateIs, GivenBackKeeps
  <2>4. GateOK(b) /\ b.waiting = waiting
    BY <1>1, <2>1, GateIs, GivenBackKeeps
  <2>5. first = k
    <3>1. mine = Leases(s) /\ k \in mine
      BY <2>3 DEF Leases
    <3>2. mine \subseteq 1..Len(active) /\ Len(active) \in Nat
      BY <2>1, LenProperties
    <3>3. IsFiniteSet(mine)
      BY <3>2, PositionsFinite
    <3>4. PICK x : mine = {x}
      BY <1>1, <3>1, <3>3, FS_Singleton
    <3>5. mine = {k} /\ k <= k
      BY <3>1, <3>2, <3>4
    <3> QED BY <3>5
  <2> HIDE DEF b, mine, first
  <2>6. \E n \in DOMAIN b.waiting : CanAdmit(b.waiting[n].priority, b.active)
    BY <2>2, <2>3, <2>4, <2>5
  <2>7. b \in Gates /\ b.waiting \in Seq(WaiterRec)
    BY <2>1, <2>4 DEF GateOK
  <2>8. Next1(b) # 0
    BY <2>6, <2>7, NextFacts DEF Next1
  <2>9. PICK h \in Gates : h = Grant(b, Next1(b)) /\ GateOK(h)
    BY <2>4, <2>7, <2>8, GrantKeeps DEF GateOK
  <2>10. Drained[b] = Drained[h]
    BY <2>7, <2>8, <2>9, DrainedDef
  <2>11. Len(h.waiting) = Len(b.waiting) - 1 /\ Len(b.waiting) \in Nat
    BY <2>7, <2>8, <2>9, GrantFacts
  <2>12. Len(Drained[h].waiting) <= Len(h.waiting) /\ GateOK(Drained[h])
    BY <2>9, DrainKeeps
  <2>13. Len(Drained[h].waiting) \in Nat
    BY <2>12, LenProperties DEF GateOK, Gates
  <2>14. Len(Drained[b].waiting) < Len(waiting)
    BY <2>4, <2>10, <2>11, <2>12, <2>13
  <2> QED BY <2>14 DEF Released, b
<1>2. IInv => YieldHandsOver
  BY <1>1 DEF YieldHandsOver
<1> QED BY <1>2, Invariance, PTL

==============================================================================
