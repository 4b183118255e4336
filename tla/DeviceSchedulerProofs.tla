-------------------------- MODULE DeviceSchedulerProofs --------------------------
(***************************************************************************)
(* Proofs about DeviceScheduler for any sessions, caps and reloads. The    *)
(* scheduler's operations are compositions of a few transformations of     *)
(* the gate of one device; what each of them keeps or establishes is shown *)
(* once, and the turns follow from whom they may touch.                    *)
(***************************************************************************)
EXTENDS DeviceScheduler, FiniteSetTheorems, TLAPS

USE DeviceAssumption

\* Nobody runs and waits at once.
Apart(g) == \A i \in Ids : g.flight[i] = "none" \/ g.queue[i] = "none"

\* The gate's part of NobodyWaitsInVain, MaintenanceYields and ExcessIsRevoked.
Served(g) == Waiting(g) # {} => ~HasRoom(g) \/ Choosable(g) = {}
Yielding(g) == ~Quiet(g) => Maintaining(g) \subseteq g.preempted
Few(g) == Cardinality(Watched(g)) <= g.cap

GateOK(g) == g \in Gates /\ Apart(g) /\ Served(g) /\ Yielding(g) /\ Few(g)

\* Whatever a transformation of gate g into h does to an id that is not in X.
Spares(g, h, X) ==
  \A i \in Ids \ X :
    /\ h.flight[i] # "none" => g.flight[i] # "none" \/ g.queue[i] # "none"
    /\ h.queue[i] # "none" => g.queue[i] # "none"
    /\ g.flight[i] # "none" \/ g.queue[i] # "none" => h.flight[i] # "none" \/ h.queue[i] # "none"
    /\ h.watch[i] # "none" => g.watch[i] # "none"

------------------------------------------------------------------------------
LEMMA GateFields ==
  ASSUME NEW g \in Gates
  PROVE  /\ g.cap \in 1..MaxCap /\ g.cap \in Nat
         /\ g.flight \in [Ids -> Kinds \cup {"none"}] /\ g.queue \in [Ids -> Kinds \cup {"none"}]
         /\ g.watch \in [Ids -> {"none", "open", "fired"}] /\ g.preempted \subseteq Ids
BY DEF Gates

LEMMA IdsFinite == IsFiniteSet(Ids)
<1>1. IsFiniteSet({"turn"})
  BY FS_Singleton
<1>2. IsFiniteSet({"turn"} \cup {"task"})
  BY <1>1, FS_AddElement
<1>3. {"turn"} \cup {"task"} = {"turn", "task"}
  OBVIOUS
<1> QED BY <1>2, <1>3, FS_Product DEF Ids

\* The sets of a gate are finite.
LEMMA Counts ==
  ASSUME NEW g \in Gates, NEW S \in SUBSET Ids
  PROVE  IsFiniteSet(S) /\ Cardinality(S) \in Nat
BY IdsFinite, FS_Subset, FS_CardinalityType

LEMMA LeastOfTwo ==
  ASSUME NEW a \in Nat, NEW b \in Nat
  PROVE  Min({a, b}) \in {a, b} /\ Min({a, b}) <= a /\ Min({a, b}) <= b
<1>1. \E x \in {a, b} : \A y \in {a, b} : x =< y
  OBVIOUS
<1>2. Min({a, b}) \in {a, b} /\ \A y \in {a, b} : Min({a, b}) =< y
  BY <1>1 DEF Min
<1> QED BY <1>2

LEMMA SparesTwice ==
  ASSUME NEW g, NEW h, NEW k, NEW X, Spares(g, h, X), Spares(h, k, X)
  PROVE  Spares(g, k, X)
BY DEF Spares

LEMMA SparesLess ==
  ASSUME NEW g, NEW h, NEW X, NEW Y, Spares(g, h, X), X \subseteq Y
  PROVE  Spares(g, h, Y)
BY DEF Spares

------------------------------------------------------------------------------
\* revokeExcess() leaves no more than the cap unrevoked, whatever it finds.
LEMMA RevokedKeeps ==
  ASSUME NEW g \in Gates, NEW r \in Revoked(g)
  PROVE  /\ r \in Gates /\ Few(r) /\ r.flight = g.flight /\ r.queue = g.queue /\ r.cap = g.cap
         /\ g.preempted \subseteq r.preempted
         /\ \A i \in Ids : r.watch[i] # "none" <=> g.watch[i] # "none"
<1>1. PICK V \in Excess(g) :
        r = [g EXCEPT !.watch = [i \in Ids |-> IF i \in V THEN "fired" ELSE @[i]],
                      !.preempted = @ \cup (V \cap Maintaining(g))]
  BY DEF Revoked
<1>2. V \subseteq Watched(g) /\ Watched(g) \subseteq InFlight(g) /\ InFlight(g) \subseteq Ids
  BY DEF Excess, Watched, InFlight
<1>3. /\ r.flight = g.flight /\ r.queue = g.queue /\ r.cap = g.cap
      /\ r.watch = [i \in Ids |-> IF i \in V THEN "fired" ELSE g.watch[i]]
      /\ r.preempted = g.preempted \cup (V \cap Maintaining(g))
  BY <1>1 DEF Gates
<1>4. r \in Gates
  BY <1>1, GateFields DEF Gates, Maintaining
<1>5. \A i \in Ids : r.watch[i] # "none" <=> g.watch[i] # "none"
  BY <1>2, <1>3 DEF Watched
<1>6. Few(r)
  <2>1. Watched(r) = Watched(g) \ V
    BY <1>2, <1>3 DEF Watched, InFlight
  <2>2. /\ IsFiniteSet(Watched(g)) /\ Cardinality(Watched(g)) \in Nat
        /\ IsFiniteSet(InFlight(g)) /\ Cardinality(InFlight(g)) \in Nat
        /\ Cardinality(V) \in Nat /\ Cardinality(Watched(g)) <= Cardinality(InFlight(g))
    BY <1>2, Counts, FS_Subset
  <2>3. Cardinality(Watched(r)) = Cardinality(Watched(g)) - Cardinality(V)
    <3>1. Watched(g) \cap V = V
      BY <1>2
    <3> QED BY <2>1, <2>2, <3>1, FS_Difference
  <2>4. g.cap \in Nat /\ r.cap = g.cap
    BY <1>3, GateFields
  <2>5. CASE HasRoom(g)
    <3>1. Cardinality(V) = 0
      BY <2>5, FS_EmptySet DEF Excess
    <3> QED BY <2>2, <2>3, <2>4, <2>5, <3>1 DEF Few, HasRoom
  <2>6. CASE ~HasRoom(g)
    <3> DEFINE a == Cardinality(InFlight(g)) - g.cap
               b == Cardinality(Watched(g))
    <3>1. Cardinality(V) = Min({a, b})
      BY <2>6 DEF Excess
    <3>2. a \in Nat /\ b \in Nat
      BY <2>2, <2>4, <2>6 DEF HasRoom
    <3>3. Cardinality(V) = a \/ Cardinality(V) = b
      <4> HIDE DEF a, b
      <4> QED BY <3>1, <3>2, LeastOfTwo
    <3> QED BY <2>2, <2>3, <2>4, <3>3 DEF Few
  <2> QED BY <2>5, <2>6
<1> QED BY <1>3, <1>4, <1>5, <1>6

\* A gate that changes in no other way stays in order.
LEMMA RevokedOK ==
  ASSUME NEW g, GateOK(g), NEW r \in Revoked(g)
  PROVE  GateOK(r) /\ Spares(g, r, {})
<1>1. g \in Gates /\ Apart(g) /\ Served(g) /\ Yielding(g)
  BY DEF GateOK
<1>2. /\ r \in Gates /\ Few(r) /\ r.flight = g.flight /\ r.queue = g.queue /\ r.cap = g.cap
      /\ g.preempted \subseteq r.preempted
      /\ \A i \in Ids : r.watch[i] # "none" <=> g.watch[i] # "none"
  BY <1>1, RevokedKeeps
<1>3. /\ InFlight(r) = InFlight(g) /\ Waiting(r) = Waiting(g) /\ Foreground(r) = Foreground(g)
      /\ Maintaining(r) = Maintaining(g) /\ (Quiet(r) <=> Quiet(g)) /\ (HasRoom(r) <=> HasRoom(g))
  BY <1>2 DEF InFlight, Waiting, Foreground, Maintaining, Quiet, HasRoom
<1>4. Choosable(r) = Choosable(g)
  BY <1>3 DEF Choosable
<1>5. Apart(r) /\ Served(r) /\ Yielding(r)
  BY <1>1, <1>2, <1>3, <1>4 DEF Apart, Served, Yielding
<1>6. Spares(g, r, {})
  BY <1>2 DEF Spares
<1> QED BY <1>2, <1>5, <1>6 DEF GateOK

------------------------------------------------------------------------------
\* What drain() grants.
LEMMA GrantedFields ==
  ASSUME NEW g \in Gates, Apart(g), NEW P \in SUBSET Waiting(g)
  PROVE  LET r == Granted(g, P) IN
         /\ r \in Gates /\ r.cap = g.cap /\ r.watch = g.watch /\ r.preempted = g.preempted
         /\ \A i \in Ids : /\ r.flight[i] = IF i \in P THEN g.queue[i] ELSE g.flight[i]
                           /\ r.queue[i] = IF i \in P THEN "none" ELSE g.queue[i]
         /\ Apart(r) /\ Spares(g, r, {})
         /\ InFlight(r) = InFlight(g) \cup P /\ InFlight(g) \cap P = {}
         /\ Waiting(r) = Waiting(g) \ P
<1> DEFINE r == Granted(g, P)
<1>1. /\ g.flight \in [Ids -> Kinds \cup {"none"}] /\ g.queue \in [Ids -> Kinds \cup {"none"}]
      /\ Waiting(g) \subseteq Ids /\ P \subseteq Ids
  BY GateFields DEF Waiting
<1>2. /\ r.cap = g.cap /\ r.watch = g.watch /\ r.preempted = g.preempted
      /\ r.flight = [i \in Ids |-> IF i \in P THEN g.queue[i] ELSE g.flight[i]]
      /\ r.queue = [i \in Ids |-> IF i \in P THEN "none" ELSE g.queue[i]]
  BY DEF Granted, Gates
<1>3. r \in Gates
  BY <1>1 DEF Granted, Gates
<1>4. \A i \in Ids : /\ r.flight[i] = IF i \in P THEN g.queue[i] ELSE g.flight[i]
                     /\ r.queue[i] = IF i \in P THEN "none" ELSE g.queue[i]
  BY <1>2
<1> HIDE DEF r
<1>5. \A i \in P : g.queue[i] # "none" /\ g.flight[i] = "none"
  BY <1>1 DEF Waiting, Apart
<1>6. Apart(r)
  BY <1>4 DEF Apart
<1>7. Spares(g, r, {})
  BY <1>2, <1>4, <1>5 DEF Spares
<1>8. InFlight(r) = InFlight(g) \cup P /\ InFlight(g) \cap P = {} /\ Waiting(r) = Waiting(g) \ P
  BY <1>1, <1>4, <1>5 DEF InFlight, Waiting
<1> QED BY <1>2, <1>3, <1>4, <1>6, <1>7, <1>8 DEF r

\* drain() leaves nobody waiting in vain, whatever it finds.
LEMMA DrainedOK ==
  ASSUME NEW g \in Gates, Apart(g), Yielding(g), Few(g), NEW r \in Drained(g)
  PROVE  GateOK(r) /\ Spares(g, r, {})
<1>1. PICK P \in Grants(g) : r = Granted(g, P)
  BY DEF Drained
<1>2. Choosable(g) \subseteq Waiting(g) /\ Waiting(g) \subseteq Ids /\ P \subseteq Choosable(g)
  BY DEF Choosable, Foreground, Waiting, Grants
<1>3. /\ r \in Gates /\ r.cap = g.cap /\ r.watch = g.watch /\ r.preempted = g.preempted
      /\ \A i \in Ids : /\ r.flight[i] = IF i \in P THEN g.queue[i] ELSE g.flight[i]
                        /\ r.queue[i] = IF i \in P THEN "none" ELSE g.queue[i]
      /\ Apart(r) /\ Spares(g, r, {})
      /\ InFlight(r) = InFlight(g) \cup P /\ InFlight(g) \cap P = {}
      /\ Waiting(r) = Waiting(g) \ P
  BY <1>1, <1>2, GrantedFields
<1>4. /\ IsFiniteSet(InFlight(g)) /\ Cardinality(InFlight(g)) \in Nat
      /\ IsFiniteSet(P) /\ Cardinality(P) \in Nat
      /\ IsFiniteSet(Choosable(g)) /\ Cardinality(Choosable(g)) \in Nat
      /\ g.cap \in Nat
  <2>1. InFlight(g) \subseteq Ids /\ P \subseteq Ids /\ Choosable(g) \subseteq Ids
    BY <1>2 DEF InFlight
  <2>2. g.cap \in Nat
    BY GateFields
  <2>3. IsFiniteSet(InFlight(g)) /\ Cardinality(InFlight(g)) \in Nat
    BY <2>1, Counts
  <2>4. IsFiniteSet(P) /\ Cardinality(P) \in Nat
    BY <2>1, Counts
  <2>5. IsFiniteSet(Choosable(g)) /\ Cardinality(Choosable(g)) \in Nat
    BY <2>1, Counts
  <2> QED BY <2>2, <2>3, <2>4, <2>5
<1>5. Cardinality(InFlight(r)) = Cardinality(InFlight(g)) + Cardinality(P)
  <2>1. Cardinality(InFlight(g) \cup P) =
          Cardinality(InFlight(g)) + Cardinality(P) - Cardinality(InFlight(g) \cap P)
    BY <1>4, FS_Union
  <2>2. Cardinality(InFlight(g) \cap P) = 0
    BY <1>3, FS_EmptySet
  <2> QED BY <1>3, <1>4, <2>1, <2>2
<1>6. HasRoom(g) => \/ Cardinality(P) = g.cap - Cardinality(InFlight(g))
                    \/ P = Choosable(g) /\ Cardinality(P) <= g.cap - Cardinality(InFlight(g))
  <2> SUFFICES ASSUME HasRoom(g)
               PROVE  \/ Cardinality(P) = g.cap - Cardinality(InFlight(g))
                      \/ P = Choosable(g) /\ Cardinality(P) <= g.cap - Cardinality(InFlight(g))
    OBVIOUS
  <2> DEFINE a == g.cap - Cardinality(InFlight(g))
             b == Cardinality(Choosable(g))
  <2>1. a \in Nat /\ b \in Nat
    BY <1>4 DEF HasRoom
  <2>2. Cardinality(P) = Min({a, b})
    BY DEF Grants
  <2>3. Cardinality(P) = a \/ (Cardinality(P) = b /\ b <= a)
    <3> HIDE DEF a, b
    <3> QED BY <2>1, <2>2, LeastOfTwo
  <2>4. Cardinality(P) = b => P = Choosable(g)
    BY <1>2, <1>4, FS_Subset
  <2> QED BY <2>3, <2>4
<1>7. ~HasRoom(g) => P = {}
  BY DEF Grants
<1>8. Served(r)
  <2> SUFFICES ASSUME HasRoom(r) PROVE Waiting(r) = {} \/ Choosable(r) = {}
    BY DEF Served
  <2>1. HasRoom(g)
    BY <1>3, <1>4, <1>5 DEF HasRoom
  <2>2. P = Choosable(g)
    BY <1>3, <1>4, <1>5, <1>6, <2>1 DEF HasRoom
  <2>3. CASE Foreground(g) # {}
    <3>1. P = Foreground(g)
      BY <2>2, <2>3 DEF Choosable
    <3>2. Foreground(r) = {}
      BY <1>3, <3>1 DEF Foreground
    <3>3. ~Quiet(r)
      BY <1>3, <2>3, <3>1 DEF Foreground, Quiet
    <3> QED BY <3>2, <3>3 DEF Choosable
  <2>4. CASE Foreground(g) = {} /\ Quiet(g)
    BY <1>3, <2>2, <2>4 DEF Choosable
  <2>5. CASE Foreground(g) = {} /\ ~Quiet(g)
    <3>1. P = {}
      BY <2>2, <2>5 DEF Choosable
    <3>2. Foreground(r) = {} /\ ~Quiet(r)
      BY <1>3, <2>5, <3>1 DEF Foreground, Quiet
    <3> QED BY <3>2 DEF Choosable
  <2> QED BY <2>3, <2>4, <2>5
<1>9. Yielding(r)
  <2> SUFFICES ASSUME ~Quiet(r) PROVE Maintaining(r) \subseteq r.preempted
    BY DEF Yielding
  <2>1. CASE Foreground(g) # {}
    <3>1. P \subseteq Foreground(g) /\ ~Quiet(g)
      BY <1>2, <2>1 DEF Choosable, Quiet
    <3>2. Maintaining(r) \subseteq Maintaining(g)
      BY <1>3, <3>1 DEF Maintaining, Foreground
    <3> QED BY <1>3, <3>1, <3>2 DEF Yielding
  <2>2. CASE Foreground(g) = {}
    <3>1. ~Quiet(g)
      BY <1>3, <2>2 DEF Foreground, Quiet
    <3>2. P = {}
      BY <1>2, <2>2, <3>1 DEF Choosable
    <3> QED BY <1>3, <3>1, <3>2 DEF Yielding, Maintaining
  <2> QED BY <2>1, <2>2
<1>10. Few(r)
  <2>1. CASE P = {}
    <3>1. Watched(r) = Watched(g)
      BY <1>3, <2>1 DEF Watched
    <3> QED BY <1>3, <3>1 DEF Few
  <2>2. CASE P # {}
    <3>1. Cardinality(InFlight(r)) <= r.cap
      BY <1>3, <1>4, <1>5, <1>6, <1>7, <2>2
    <3>2. Cardinality(Watched(r)) <= Cardinality(InFlight(r)) /\ Cardinality(Watched(r)) \in Nat
          /\ Cardinality(InFlight(r)) \in Nat /\ r.cap \in Nat
      <4>1. Watched(r) \subseteq InFlight(r) /\ InFlight(r) \subseteq Ids
        BY DEF Watched, InFlight
      <4> QED BY <1>3, <4>1, Counts, FS_Subset, GateFields
    <3> QED BY <3>1, <3>2 DEF Few
  <2> QED BY <2>1, <2>2
<1> QED BY <1>3, <1>8, <1>9, <1>10 DEF GateOK

------------------------------------------------------------------------------
\* The end of an admission of somebody who neither waits nor runs, or runs already.
LEMMA PlacedOK ==
  ASSUME NEW g, GateOK(g), NEW i \in Ids, NEW kind \in Kinds, g.queue[i] = "none"
  PROVE  LET p == Placed(g, i, kind) IN
         /\ GateOK(p) /\ Spares(g, p, {i})
         /\ p.flight[i] # "none" \/ p.queue[i] # "none"
<1>0. /\ g \in Gates /\ Apart(g) /\ Served(g) /\ Yielding(g) /\ Few(g)
      /\ g.cap \in Nat
      /\ g.flight \in [Ids -> Kinds \cup {"none"}] /\ g.queue \in [Ids -> Kinds \cup {"none"}]
      /\ g.watch \in [Ids -> {"none", "open", "fired"}] /\ g.preempted \subseteq Ids
  BY GateFields DEF GateOK
<1>1. CASE g.flight[i] # "none"
  BY <1>1 DEF Placed, Spares
<1>2. CASE g.flight[i] = "none"
  <2> DEFINE w == [g EXCEPT !.watch[i] = IF @ = "none" THEN "open" ELSE @,
                            !.preempted = @ \cup Asked(g, kind)]
             f == [w EXCEPT !.flight[i] = kind]
             q == [w EXCEPT !.queue[i] = kind]
             goes == HasRoom(g) /\ (kind = "interactive" \/ Quiet(g))
  <2>1. Placed(g, i, kind) = IF goes THEN f ELSE q
    BY <1>2 DEF Placed
  <2>2. Asked(g, kind) \subseteq Ids /\ kind # "none"
    BY DEF Asked, Maintaining, Kinds
  <2>3. /\ w \in Gates /\ w.cap = g.cap /\ w.flight = g.flight /\ w.queue = g.queue
        /\ w.preempted = g.preempted \cup Asked(g, kind)
        /\ \A j \in Ids \ {i} : w.watch[j] = g.watch[j]
    BY <1>0, <2>2 DEF Gates
  <2> HIDE DEF w
  <2>4. /\ f \in Gates /\ f.cap = g.cap /\ f.queue = g.queue
        /\ f.preempted = g.preempted \cup Asked(g, kind)
        /\ f.flight = [g.flight EXCEPT ![i] = kind] /\ f.watch = w.watch
    BY <1>0, <2>3 DEF Gates
  <2>5. /\ q \in Gates /\ q.cap = g.cap /\ q.flight = g.flight
        /\ q.preempted = g.preempted \cup Asked(g, kind)
        /\ q.queue = [g.queue EXCEPT ![i] = kind] /\ q.watch = w.watch
    BY <1>0, <2>3 DEF Gates
  <2> HIDE DEF f, q
  <2>6. ASSUME goes
        PROVE  GateOK(f) /\ Spares(g, f, {i}) /\ f.flight[i] # "none"
    <3>1. f.flight[i] = kind /\ \A j \in Ids \ {i} : f.flight[j] = g.flight[j]
      BY <1>0, <2>4
    <3>2. Apart(f)
      BY <1>0, <2>4, <3>1 DEF Apart
    <3>3. Spares(g, f, {i})
      BY <2>3, <2>4, <3>1 DEF Spares
    <3>4. /\ InFlight(f) = InFlight(g) \cup {i} /\ Waiting(f) = Waiting(g)
          /\ Foreground(f) = Foreground(g)
      BY <1>2, <2>2, <2>4, <3>1 DEF InFlight, Waiting, Foreground
    <3>5. Yielding(f)
      <4>1. CASE kind = "interactive"
        <5>1. Asked(g, kind) = Maintaining(g) /\ Maintaining(f) = Maintaining(g)
          BY <1>2, <3>1, <4>1 DEF Asked, Maintaining
        <5> QED BY <2>4, <5>1 DEF Yielding
      <4>2. CASE kind # "interactive"
        <5>1. Quiet(f)
          BY <2>6, <3>1, <3>4, <4>2 DEF Quiet
        <5> QED BY <5>1 DEF Yielding
      <4> QED BY <4>1, <4>2
    <3>6. Cardinality(InFlight(f)) <= f.cap
      <4>1. InFlight(g) \subseteq Ids
        BY DEF InFlight
      <4>2. IsFiniteSet(InFlight(g)) /\ Cardinality(InFlight(g)) \in Nat
        BY <1>0, <4>1, Counts
      <4>3. Cardinality(InFlight(f)) <= Cardinality(InFlight(g)) + 1
            /\ Cardinality(InFlight(f)) \in Nat
        <5>1. InFlight(f) \subseteq Ids
          BY DEF InFlight
        <5>2. Cardinality(InFlight(f)) \in Nat
          BY <2>4, <5>1, Counts
        <5>3. Cardinality(InFlight(g) \cup {i}) =
                IF i \in InFlight(g) THEN Cardinality(InFlight(g)) ELSE Cardinality(InFlight(g)) + 1
          BY <4>2, FS_AddElement
        <5> QED BY <3>4, <4>2, <5>2, <5>3
      <4> QED BY <1>0, <2>4, <2>6, <4>2, <4>3 DEF HasRoom
    <3>7. Few(f)
      <4>1. Watched(f) \subseteq InFlight(f) /\ InFlight(f) \subseteq Ids
        BY DEF Watched, InFlight
      <4>2. Cardinality(Watched(f)) <= Cardinality(InFlight(f)) /\ Cardinality(Watched(f)) \in Nat
            /\ Cardinality(InFlight(f)) \in Nat
        BY <2>4, <4>1, Counts, FS_Subset
      <4> QED BY <1>0, <2>4, <3>6, <4>2 DEF Few
    <3>8. Served(f)
      <4>1. CASE kind = "interactive"
        <5>1. Waiting(g) # {} => Choosable(g) = {}
          BY <1>0, <2>6 DEF Served
        <5>2. Foreground(g) = {}
          <6>1. Foreground(g) \subseteq Waiting(g)
            BY DEF Foreground, Waiting
          <6> QED BY <5>1, <6>1 DEF Choosable
        <5>3. ~Quiet(f)
          BY <3>1, <4>1 DEF Quiet
        <5> QED BY <3>4, <5>2, <5>3 DEF Served, Choosable
      <4>2. CASE kind # "interactive"
        <5>1. Quiet(g) /\ HasRoom(g)
          BY <2>6, <4>2
        <5>2. Choosable(g) = Waiting(g)
          BY <5>1 DEF Choosable, Quiet
        <5> QED BY <1>0, <3>4, <5>1, <5>2 DEF Served
      <4> QED BY <4>1, <4>2
    <3> QED BY <2>2, <2>4, <3>1, <3>2, <3>3, <3>5, <3>7, <3>8 DEF GateOK
  <2>7. ASSUME ~goes
        PROVE  GateOK(q) /\ Spares(g, q, {i}) /\ q.queue[i] # "none"
    <3>1. q.queue[i] = kind /\ \A j \in Ids \ {i} : q.queue[j] = g.queue[j]
      BY <1>0, <2>5
    <3>2. Apart(q)
      BY <1>0, <1>2, <2>5, <3>1 DEF Apart
    <3>3. Spares(g, q, {i})
      BY <2>3, <2>5, <3>1 DEF Spares
    <3>4. /\ InFlight(q) = InFlight(g) /\ (HasRoom(q) <=> HasRoom(g))
          /\ Maintaining(q) = Maintaining(g)
      BY <2>5 DEF InFlight, HasRoom, Maintaining
    <3>5. kind # "interactive" => Foreground(q) = Foreground(g) /\ (Quiet(q) <=> Quiet(g))
      <4> SUFFICES ASSUME kind # "interactive"
                   PROVE  Foreground(q) = Foreground(g) /\ (Quiet(q) <=> Quiet(g))
        OBVIOUS
      <4>1. \A j \in Ids : q.queue[j] = "interactive" <=> g.queue[j] = "interactive"
        BY <3>1
      <4> QED BY <2>5, <4>1 DEF Foreground, Quiet
    <3>6. Yielding(q)
      <4>1. CASE kind = "interactive"
        BY <2>5, <3>4, <4>1 DEF Asked, Yielding
      <4>2. CASE kind # "interactive"
        BY <1>0, <2>5, <3>4, <3>5, <4>2 DEF Yielding
      <4> QED BY <4>1, <4>2
    <3>7. Few(q)
      <4>1. Watched(q) = Watched(g)
        BY <1>2, <2>3, <2>5 DEF Watched, InFlight
      <4> QED BY <1>0, <2>5, <4>1 DEF Few
    <3>8. Served(q)
      <4> SUFFICES ASSUME HasRoom(g) PROVE Choosable(q) = {}
        BY <3>4 DEF Served
      <4>1. kind # "interactive" /\ ~Quiet(g)
        BY <2>7
      <4>2. Foreground(g) = {}
        <5>1. Foreground(g) \subseteq Waiting(g)
          BY DEF Foreground, Waiting
        <5> QED BY <1>0, <5>1 DEF Served, Choosable
      <4> QED BY <3>5, <4>1, <4>2 DEF Choosable
    <3> QED BY <2>2, <2>5, <3>1, <3>2, <3>3, <3>6, <3>7, <3>8 DEF GateOK
  <2> HIDE DEF goes
  <2> QED BY <2>1, <2>6, <2>7
<1> QED BY <1>1, <1>2

\* admitKind(): whoever asks is in flight or waits.
LEMMA AdmissionsOK ==
  ASSUME NEW g, GateOK(g), NEW i \in Ids, NEW kind \in Kinds, g.queue[i] = "none",
         NEW p \in Admissions(g, i, kind)
  PROVE  GateOK(p) /\ Spares(g, p, {i}) /\ (p.flight[i] # "none" \/ p.queue[i] # "none")
<1>1. PICK r \in Revoked(g) :
        IF kind = "interactive" THEN p = Placed(r, i, kind)
        ELSE \E e \in Drained(r) : p = Placed(e, i, kind)
  BY DEF Admissions
<1>2. GateOK(r) /\ Spares(g, r, {}) /\ r.queue[i] = "none"
  <2>1. r.queue = g.queue
    BY RevokedKeeps DEF GateOK
  <2> QED BY <2>1, RevokedOK
<1>3. \E e : GateOK(e) /\ Spares(g, e, {}) /\ e.queue[i] = "none" /\ p = Placed(e, i, kind)
  <2>1. CASE kind = "interactive"
    BY <1>1, <1>2, <2>1
  <2>2. CASE kind # "interactive"
    <3>1. PICK e \in Drained(r) : p = Placed(e, i, kind)
      BY <1>1, <2>2
    <3>2. GateOK(e) /\ Spares(r, e, {})
      BY <1>2, DrainedOK DEF GateOK
    <3>3. e.queue[i] = "none"
      BY <1>2, <3>2 DEF Spares
    <3>4. Spares(g, e, {})
      BY <1>2, <3>2, SparesTwice
    <3> QED BY <3>1, <3>2, <3>3, <3>4
  <2> QED BY <2>1, <2>2
<1>4. PICK e : GateOK(e) /\ Spares(g, e, {}) /\ e.queue[i] = "none" /\ p = Placed(e, i, kind)
  BY <1>3
<1>5. GateOK(p) /\ Spares(e, p, {i}) /\ (p.flight[i] # "none" \/ p.queue[i] # "none")
  BY <1>4, PlacedOK
<1>6. Spares(g, p, {i})
  BY <1>4, <1>5 DEF Spares
<1> QED BY <1>5, <1>6

------------------------------------------------------------------------------
\* A gate loses the ids in X.
Loses(g, h, X) ==
  /\ h \in Gates /\ h.cap = g.cap /\ h.preempted = g.preempted \ X
  /\ \A i \in Ids : /\ h.flight[i] = IF i \in X THEN "none" ELSE g.flight[i]
                    /\ h.queue[i] = IF i \in X THEN "none" ELSE g.queue[i]
                    /\ i \notin X => h.watch[i] = g.watch[i]

LEMMA LosesKeeps ==
  ASSUME NEW g, GateOK(g), NEW h, NEW X, Loses(g, h, X)
  PROVE  h \in Gates /\ Apart(h) /\ Yielding(h) /\ Few(h) /\ Spares(g, h, X)
<1>0. g \in Gates /\ Apart(g) /\ Yielding(g) /\ Few(g) /\ h \in Gates
  BY DEF GateOK, Loses
<1>1. Apart(h)
  BY <1>0 DEF Loses, Apart
<1>2. Spares(g, h, X)
  BY DEF Loses, Spares
<1>3. Yielding(h)
  <2>1. ~Quiet(h) => ~Quiet(g)
    BY DEF Loses, Quiet, Foreground
  <2>2. Maintaining(h) = Maintaining(g) \ X
    BY DEF Loses, Maintaining
  <2> QED BY <1>0, <2>1, <2>2 DEF Yielding, Loses
<1>4. Few(h)
  <2>1. Watched(h) \subseteq Watched(g) /\ Watched(g) \subseteq Ids /\ Watched(h) \subseteq Ids
    BY DEF Loses, Watched, InFlight
  <2>2. IsFiniteSet(Watched(g)) /\ Cardinality(Watched(g)) \in Nat
    BY <1>0, <2>1, Counts
  <2>3. Cardinality(Watched(h)) \in Nat
    BY <1>0, <2>1, Counts
  <2>4. Cardinality(Watched(h)) <= Cardinality(Watched(g))
    BY <2>1, <2>2, FS_Subset
  <2>5. h.cap = g.cap /\ g.cap \in Nat
    BY <1>0, GateFields DEF Loses
  <2> QED BY <1>0, <2>2, <2>3, <2>4, <2>5 DEF Few
<1> QED BY <1>0, <1>1, <1>2, <1>3, <1>4

\* releaseSlot(): whoever gives its slot back is neither in flight nor, unless it lends the
\* device, watched.
LEMMA ReleasedOK ==
  ASSUME NEW g, GateOK(g), NEW i \in Ids, NEW transferring \in BOOLEAN,
         NEW r \in Released(g, i, transferring)
  PROVE  /\ GateOK(r) /\ Spares(g, r, {i})
         /\ g.queue[i] = "none" => r.flight[i] = "none" /\ r.queue[i] = "none"
         /\ g.flight[i] # "none" /\ ~transferring => r.watch[i] = "none"
         /\ g.flight[i] = "none" => r = g
<1>0. g \in Gates /\ Apart(g)
  BY DEF GateOK
<1>1. CASE g.flight[i] = "none"
  <2>1. r = g
    BY <1>1 DEF Released
  <2> QED BY <1>1, <2>1 DEF Spares
<1>2. CASE g.flight[i] # "none"
  <2> DEFINE h == [g EXCEPT !.flight[i] = "none",
                            !.watch[i] = IF transferring THEN @ ELSE "none",
                            !.preempted = @ \ {i}]
  <2>1. r \in Drained(h)
    BY <1>2 DEF Released
  <2>2. g.queue[i] = "none"
    BY <1>0, <1>2 DEF Apart
  <2>3. /\ h \in Gates /\ h.cap = g.cap /\ h.preempted = g.preempted \ {i} /\ h.queue = g.queue
        /\ h.flight = [g.flight EXCEPT ![i] = "none"]
        /\ h.watch = [g.watch EXCEPT ![i] = IF transferring THEN @ ELSE "none"]
    BY <1>0, GateFields DEF Gates
  <2> HIDE DEF h
  <2>4. Loses(g, h, {i}) /\ h.flight[i] = "none" /\ h.queue[i] = "none"
        /\ (~transferring => h.watch[i] = "none")
    <3>1. /\ g.flight \in [Ids -> Kinds \cup {"none"}] /\ g.watch \in [Ids -> {"none", "open", "fired"}]
      BY <1>0, GateFields
    <3> QED BY <2>2, <2>3, <3>1 DEF Loses
  <2>5. GateOK(r) /\ Spares(h, r, {})
    BY <2>1, <2>4, LosesKeeps, DrainedOK
  <2>6. Spares(g, h, {i})
    BY <2>4, LosesKeeps
  <2>7. Spares(g, r, {i})
    BY <2>5, <2>6 DEF Spares
  <2>8. r.flight[i] = "none" /\ r.queue[i] = "none" /\ (~transferring => r.watch[i] = "none")
    BY <2>4, <2>5 DEF Spares
  <2> QED BY <1>2, <2>5, <2>7, <2>8
<1> QED BY <1>1, <1>2

\* evict(): nothing is left of a session.
LEMMA EvictedOK ==
  ASSUME NEW d, GateOK(devices[d]), NEW s \in Sessions, NEW r \in Evicted(d, s)
  PROVE  /\ GateOK(r) /\ Spares(devices[d], r, {i \in Ids : i[1] = s})
         /\ \A i \in Ids : i[1] = s =>
              r.flight[i] = "none" /\ r.queue[i] = "none" /\ r.watch[i] = "none"
<1> DEFINE g == devices[d]
           X == {i \in Ids : i[1] = s}
           h == Forgotten(g, s)
<1>0. g \in Gates
  BY DEF GateOK
<1>1. r \in Drained(h)
  BY DEF Evicted
<1>2. /\ h \in Gates /\ h.cap = g.cap /\ h.preempted = g.preempted \ X
      /\ h.flight = [i \in Ids |-> IF i[1] = s THEN "none" ELSE g.flight[i]]
      /\ h.queue = [i \in Ids |-> IF i[1] = s THEN "none" ELSE g.queue[i]]
      /\ h.watch = [i \in Ids |-> IF i[1] = s THEN "none" ELSE g.watch[i]]
  <2>1. /\ g.flight \in [Ids -> Kinds \cup {"none"}] /\ g.queue \in [Ids -> Kinds \cup {"none"}]
        /\ g.watch \in [Ids -> {"none", "open", "fired"}] /\ g.preempted \subseteq Ids
    BY <1>0, GateFields
  <2> QED BY <1>0, <2>1 DEF Forgotten, Gates
<1> HIDE DEF h, g
<1>3. Loses(g, h, X)
  BY <1>2 DEF Loses
<1>4. GateOK(r) /\ Spares(h, r, {})
  BY <1>1, <1>3, LosesKeeps, DrainedOK DEF g
<1>5. Spares(g, h, X)
  BY <1>3, LosesKeeps DEF g
<1>6. Spares(g, r, X)
  BY <1>4, <1>5 DEF Spares
<1>7. \A i \in Ids : i[1] = s =>
        r.flight[i] = "none" /\ r.queue[i] = "none" /\ r.watch[i] = "none"
  BY <1>2, <1>4 DEF Spares
<1> QED BY <1>4, <1>6, <1>7 DEF g

\* syncDevices(): the excess under the new cap is revoked, and the waiters are looked at.
LEMMA SyncedOK ==
  ASSUME NEW g, GateOK(g), NEW cap \in 1..MaxCap, NEW r \in Revoked([g EXCEPT !.cap = cap]),
         NEW h \in Drained(r)
  PROVE  GateOK(h) /\ Spares(g, h, {})
<1> DEFINE e == [g EXCEPT !.cap = cap]
<1>0. g \in Gates /\ Apart(g) /\ Yielding(g)
  BY DEF GateOK
<1>1. /\ e \in Gates /\ e.flight = g.flight /\ e.queue = g.queue /\ e.watch = g.watch
      /\ e.preempted = g.preempted
  BY <1>0 DEF Gates
<1> HIDE DEF e
<1>2. /\ r \in Gates /\ Few(r) /\ r.flight = g.flight /\ r.queue = g.queue
      /\ g.preempted \subseteq r.preempted
      /\ \A i \in Ids : r.watch[i] # "none" <=> g.watch[i] # "none"
  <2>1. r \in Revoked(e)
    BY DEF e
  <2> QED BY <1>1, <2>1, RevokedKeeps
<1>3. Apart(r) /\ Yielding(r) /\ Spares(g, r, {})
  BY <1>0, <1>2 DEF Apart, Yielding, Quiet, Foreground, Maintaining, Spares
<1>4. GateOK(h) /\ Spares(r, h, {})
  BY <1>2, <1>3, DrainedOK
<1> QED BY <1>3, <1>4, SparesTwice

------------------------------------------------------------------------------
Present(g, i) == g.flight[i] # "none" \/ g.queue[i] # "none"

\* Main is lent for the reasoning phase.
Lent == {"left", "thinkQ", "think", "backing"}

\* What a turn that was not interrupted has of the devices; and no turn has anything of the
\* device that it lends.
TurnOK(s) ==
  /\ turns[s].phase = "idle" => ~turns[s].cut
  /\ \A d \in Devices : devices[d].flight[Turn(s)] # "none" => UsesDevice(s, d) \/ turns[s].cut
  /\ \A d \in Devices : devices[d].queue[Turn(s)] # "none" => WaitsAt(s, d) \/ turns[s].cut
  /\ turns[s].phase \in Lent => ~Present(devices[Main], Turn(s))

WatchOK(i) ==
  \A d \in Devices :
    devices[d].watch[i] # "none" =>
      \/ Present(devices[d], i)
      \/ d = Main /\ i[2] = "turn" /\ turns[i[1]].phase \in Lent

IInv ==
  /\ TypeOK
  /\ \A d \in Devices : GateOK(devices[d])
  /\ \A s \in Sessions : TurnOK(s)
  /\ \A i \in Ids : WatchOK(i)

LEMMA Fields ==
  ASSUME TypeOK, NEW s \in Sessions
  PROVE  /\ turns[s] \in TurnRec /\ turns[s].phase \in Phases /\ turns[s].cut \in BOOLEAN
         /\ turns[s].thought \in BOOLEAN /\ Turn(s) \in Ids /\ Task(s) \in Ids /\ Turn(s) # Task(s)
         /\ Turn(s)[1] = s /\ Turn(s)[2] = "turn" /\ Task(s)[1] = s /\ Task(s)[2] = "task"
BY DEF TypeOK, TurnRec, Turn, Task, Ids

\* An id is the turn or the task of its session.
LEMMA IdForms ==
  ASSUME NEW i \in Ids
  PROVE  i[1] \in Sessions /\ i[2] \in {"turn", "task"} /\ i = <<i[1], i[2]>>
BY DEF Ids

LEMMA AdmittedRec ==
  ASSUME NEW r \in TurnRec
  PROVE  /\ Admitted(r) \in TurnRec /\ Admitted(r).cut = r.cut
         /\ Admitted(r).phase = IF r.phase = "thinkQ" THEN "think" ELSE "home"
BY DEF Admitted, TurnRec, Phases

\* Turn u goes on if its admission was completed, and stands still otherwise.
GoesOn(u) ==
  \/ /\ turns'[u] = Admitted(turns[u])
     /\ \E d \in Devices : WaitsAt(u, d) /\ devices'[d].flight[Turn(u)] # "none"
  \/ /\ turns'[u] = turns[u]
     /\ \A d \in Devices : devices'[d] # devices[d] =>
          ~(WaitsAt(u, d) /\ devices'[d].flight[Turn(u)] # "none")

\* The devices change, but not for the ids outside of X.
Changed(X) ==
  \A d \in Devices : GateOK(devices'[d]) /\ Spares(devices[d], devices'[d], X)

\* A turn that a step is not about.
LEMMA OtherTurn ==
  ASSUME IInv, NEW X, Changed(X), NEW u \in Sessions, Turn(u) \notin X, GoesOn(u)
  PROVE  /\ TurnOK(u)'
         /\ turns[u].phase \in Lent => turns'[u].phase \in Lent
<1>0. /\ turns[u] \in TurnRec /\ turns[u].phase \in Phases /\ Turn(u) \in Ids /\ TurnOK(u)
      /\ \A d \in Devices : Apart(devices'[d])
  BY Fields DEF IInv, Changed, GateOK
<1> DEFINE i == Turn(u)
<1>1. \A d \in Devices :
        /\ devices'[d].flight[i] # "none" => devices[d].flight[i] # "none" \/ devices[d].queue[i] # "none"
        /\ devices'[d].queue[i] # "none" => devices[d].queue[i] # "none"
  BY <1>0 DEF Changed, Spares
<1>2. turns[u].phase \in Lent => ~Present(devices'[Main], i)
  BY <1>0, <1>1 DEF TurnOK, Present, Devices
<1>3. CASE /\ turns'[u] = Admitted(turns[u])
           /\ \E d \in Devices : WaitsAt(u, d) /\ devices'[d].flight[i] # "none"
  <2>1. PICK b \in Devices : WaitsAt(u, b) /\ devices'[b].flight[i] # "none"
    BY <1>3
  <2>2. /\ turns'[u] \in TurnRec /\ turns'[u].cut = turns[u].cut
        /\ turns'[u].phase = IF turns[u].phase = "thinkQ" THEN "think" ELSE "home"
    BY <1>0, <1>3, AdmittedRec
  <2>3. UsesDevice(u, b)' /\ turns[u].phase \in {"homeQ", "thinkQ", "backQ"}
        /\ (turns[u].phase = "thinkQ" <=> b = Side)
    BY <2>1, <2>2 DEF UsesDevice, WaitsAt, Devices
  <2>4. turns[u].phase \in Lent <=> turns'[u].phase \in Lent
    BY <2>2, <2>3 DEF Lent
  <2>5. ASSUME NEW d \in Devices, devices'[d].flight[i] # "none" PROVE UsesDevice(u, d)' \/ turns'[u].cut
    <3>1. CASE d = b
      BY <2>3, <3>1
    <3>2. CASE d # b
      <4>1. ~UsesDevice(u, d) /\ ~WaitsAt(u, d)
        BY <2>1, <2>3, <3>2 DEF UsesDevice, WaitsAt, Devices
      <4> QED BY <1>0, <1>1, <2>2, <2>5, <4>1 DEF TurnOK
    <3> QED BY <3>1, <3>2
  <2>6. ASSUME NEW d \in Devices, devices'[d].queue[i] # "none" PROVE turns'[u].cut
    <3>1. d # b
      BY <1>0, <2>1, <2>6 DEF Apart
    <3>2. ~WaitsAt(u, d)
      BY <2>1, <2>3, <3>1 DEF WaitsAt, Devices
    <3> QED BY <1>0, <1>1, <2>2, <2>6, <3>2 DEF TurnOK
  <2>7. turns'[u].phase # "idle"
    BY <2>2
  <2> QED BY <1>2, <2>2, <2>4, <2>5, <2>6, <2>7 DEF TurnOK
<1>4. CASE /\ turns'[u] = turns[u]
           /\ \A d \in Devices : devices'[d] # devices[d] =>
                ~(WaitsAt(u, d) /\ devices'[d].flight[i] # "none")
  <2>1. ASSUME NEW d \in Devices
        PROVE  (UsesDevice(u, d)' <=> UsesDevice(u, d)) /\ (WaitsAt(u, d)' <=> WaitsAt(u, d))
    BY <1>4 DEF UsesDevice, WaitsAt
  <2>2. ASSUME NEW d \in Devices, devices'[d].flight[i] # "none" PROVE UsesDevice(u, d) \/ turns[u].cut
    <3>1. CASE devices[d].flight[i] # "none"
      BY <1>0, <3>1 DEF TurnOK
    <3>2. CASE devices[d].flight[i] = "none"
      <4>1. devices[d].queue[i] # "none" /\ devices'[d] # devices[d]
        BY <1>1, <2>2, <3>2
      <4> QED BY <1>0, <1>4, <2>2, <4>1 DEF TurnOK
    <3> QED BY <3>1, <3>2
  <2>3. ASSUME NEW d \in Devices, devices'[d].queue[i] # "none" PROVE WaitsAt(u, d) \/ turns[u].cut
    BY <1>0, <1>1, <2>3 DEF TurnOK
  <2> QED BY <1>0, <1>2, <1>4, <2>1, <2>2, <2>3 DEF TurnOK
<1> QED BY <1>3, <1>4 DEF GoesOn

\* A revocation that a step is not about.
LEMMA OtherWatch ==
  ASSUME IInv, NEW X, Changed(X), NEW i \in Ids \ X,
         i[2] = "turn" /\ turns[i[1]].phase \in Lent => turns'[i[1]].phase \in Lent
  PROVE  WatchOK(i)'
<1> SUFFICES ASSUME NEW d \in Devices, devices'[d].watch[i] # "none"
             PROVE  \/ Present(devices'[d], i)
                    \/ d = Main /\ i[2] = "turn" /\ turns'[i[1]].phase \in Lent
  BY DEF WatchOK
<1>1. Spares(devices[d], devices'[d], X) /\ WatchOK(i)
  BY DEF Changed, IInv
<1> QED BY <1>1 DEF Spares, WatchOK, Present

\* A step about the turn and the task of session t, or about one of them.
LEMMA StepOK ==
  ASSUME IInv, NEW t, NEW X \in SUBSET {Turn(t), Task(t)}, Changed(X),
         devices' = [d \in Devices |-> devices'[d]], turns' \in [Sessions -> TurnRec],
         edits' \in 0..MaxEdits,
         \A u \in Sessions : u # t \/ X \subseteq {Task(t)} => GoesOn(u),
         Turn(t) \in X => TurnOK(t)',
         \A i \in X : WatchOK(i)'
  PROVE  IInv'
<1>0. TypeOK
  BY DEF IInv
<1>1. \A u \in Sessions : TurnOK(u)'
  <2> SUFFICES ASSUME NEW u \in Sessions PROVE TurnOK(u)'
    OBVIOUS
  <2>1. CASE Turn(u) \in X
    <3>1. u = t
      BY <2>1 DEF Turn, Task
    <3> QED BY <2>1, <3>1
  <2>2. CASE Turn(u) \notin X
    <3>1. u # t \/ X \subseteq {Task(t)}
      BY <2>2
    <3> QED BY <2>2, <3>1, OtherTurn
  <2> QED BY <2>1, <2>2
<1>2. \A i \in Ids : WatchOK(i)'
  <2> SUFFICES ASSUME NEW i \in Ids \ X PROVE WatchOK(i)'
    OBVIOUS
  <2>1. i[2] = "turn" => i = Turn(i[1]) /\ i[1] \in Sessions
    BY IdForms DEF Turn
  <2>2. i[2] = "turn" /\ turns[i[1]].phase \in Lent => turns'[i[1]].phase \in Lent
    <3> SUFFICES ASSUME i[2] = "turn", turns[i[1]].phase \in Lent PROVE turns'[i[1]].phase \in Lent
      OBVIOUS
    <3>1. i[1] # t \/ X \subseteq {Task(t)}
      BY <2>1
    <3> QED BY <2>1, <3>1, OtherTurn
  <2> QED BY <2>2, OtherWatch
<1>3. TypeOK'
  <2>1. devices' \in [Devices -> Gates]
    BY DEF Changed, GateOK
  <2> QED BY <2>1 DEF TypeOK
<1> QED BY <1>1, <1>2, <1>3 DEF IInv, Changed

\* A step about the turn of session t.
LEMMA TurnStepOK ==
  ASSUME IInv, NEW t \in Sessions, Changed({Turn(t)}),
         devices' = [d \in Devices |-> devices'[d]], turns' \in [Sessions -> TurnRec],
         edits' \in 0..MaxEdits, \A u \in Sessions : u # t => GoesOn(u),
         TurnOK(t)', WatchOK(Turn(t))'
  PROVE  IInv'
<1> DEFINE X == {Turn(t)}
<1>1. X \in SUBSET {Turn(t), Task(t)} /\ ~(X \subseteq {Task(t)})
  BY DEF Turn, Task
<1>2. \A u \in Sessions : u # t \/ X \subseteq {Task(t)} => GoesOn(u)
  BY <1>1
<1>3. (Turn(t) \in X => TurnOK(t)') /\ \A i \in X : WatchOK(i)'
  OBVIOUS
<1>4. Changed(X)
  OBVIOUS
<1> HIDE DEF X
<1> QED BY <1>1, <1>2, <1>3, <1>4, StepOK

\* A step on one device.
LEMMA OneDevice ==
  ASSUME IInv, NEW d \in Devices, NEW g, GateOK(g), NEW X, Spares(devices[d], g, X),
         devices' = [devices EXCEPT ![d] = g]
  PROVE  /\ Changed(X) /\ devices' = [c \in Devices |-> devices'[c]]
         /\ devices'[d] = g /\ \A c \in Devices \ {d} : devices'[c] = devices[c]
         /\ \A u \in Sessions :
              turns'[u] = (IF WaitsAt(u, d) /\ g.flight[Turn(u)] # "none"
                             THEN Admitted(turns[u]) ELSE turns[u]) => GoesOn(u)
<1>0. devices \in [Devices -> Gates]
  BY DEF IInv, TypeOK
<1>1. devices'[d] = g /\ \A c \in Devices \ {d} : devices'[c] = devices[c]
  BY <1>0
<1>2. devices' = [c \in Devices |-> devices'[c]]
  BY <1>0
<1>3. Changed(X)
  <2> SUFFICES ASSUME NEW c \in Devices
               PROVE  GateOK(devices'[c]) /\ Spares(devices[c], devices'[c], X)
    BY DEF Changed
  <2>1. CASE c = d
    BY <1>1, <2>1
  <2>2. CASE c # d
    BY <1>1, <2>2 DEF IInv, Spares
  <2> QED BY <2>1, <2>2
<1>4. \A u \in Sessions :
        turns'[u] = (IF WaitsAt(u, d) /\ g.flight[Turn(u)] # "none"
                       THEN Admitted(turns[u]) ELSE turns[u]) => GoesOn(u)
  BY <1>1 DEF GoesOn
<1> QED BY <1>1, <1>2, <1>3, <1>4

\* Who neither runs nor waits on a device asks for it.
LEMMA AskIInv ==
  ASSUME IInv, NEW t \in Sessions, NEW d \in Devices, NEW q \in Phases,
         q \in (IF d = Main THEN {"homeQ", "backQ"} ELSE {"thinkQ"}),
         turns[t].phase \in {"idle", "left", "backing"}, d = Side => turns[t].phase = "left",
         devices[d].queue[Turn(t)] = "none", Ask(t, d, q)
  PROVE  IInv'
<1> DEFINE i == Turn(t)
           asked == [turns[t] EXCEPT !.phase = q]
<1>0. /\ turns[t] \in TurnRec /\ i \in Ids /\ TurnOK(t) /\ WatchOK(i) /\ GateOK(devices[d])
      /\ i[1] = t /\ i[2] = "turn" /\ Main # Side /\ Devices = {Main, Side}
  BY Fields DEF IInv, Devices
<1>a. PICK kind \in {"interactive", "batch"} : \E g \in Admissions(devices[d], i, kind) :
        LET in == g.flight[i] # "none"
        IN /\ devices' = [devices EXCEPT ![d] = g]
           /\ turns' = [u \in Sessions |->
                IF u = t THEN (IF in THEN Admitted(asked) ELSE asked)
                ELSE IF WaitsAt(u, d) /\ g.flight[Turn(u)] # "none" THEN Admitted(turns[u])
                ELSE turns[u]]
           /\ UNCHANGED edits
  BY DEF Ask
<1>1. PICK g \in Admissions(devices[d], i, kind) :
        LET in == g.flight[i] # "none"
        IN /\ devices' = [devices EXCEPT ![d] = g]
           /\ turns' = [u \in Sessions |->
                IF u = t THEN (IF in THEN Admitted(asked) ELSE asked)
                ELSE IF WaitsAt(u, d) /\ g.flight[Turn(u)] # "none" THEN Admitted(turns[u])
                ELSE turns[u]]
           /\ UNCHANGED edits
  BY <1>a
<1>2. GateOK(g) /\ Spares(devices[d], g, {i}) /\ Present(g, i) /\ Apart(g)
  <2>1. kind \in Kinds
    BY DEF Kinds
  <2> QED BY <1>0, <2>1, AdmissionsOK DEF Present, GateOK
<1>3. /\ Changed({i}) /\ devices' = [c \in Devices |-> devices'[c]]
      /\ devices'[d] = g /\ \A c \in Devices \ {d} : devices'[c] = devices[c]
      /\ \A u \in Sessions : u # t => GoesOn(u)
  BY <1>1, <1>2, OneDevice
<1>4. asked \in TurnRec /\ asked.phase = q /\ asked.cut = turns[t].cut
  BY <1>0 DEF TurnRec
<1>5. turns'[t] = IF g.flight[i] # "none" THEN Admitted(asked) ELSE asked
  BY <1>1
<1> HIDE DEF asked
<1>6. /\ turns'[t] \in TurnRec /\ turns'[t].cut = turns[t].cut
      /\ g.flight[i] = "none" => turns'[t].phase = q
      /\ g.flight[i] # "none" => turns'[t].phase = IF d = Main THEN "home" ELSE "think"
  BY <1>0, <1>4, <1>5, AdmittedRec
<1>7. \A c \in Devices \ {d} : Present(devices[c], i) => turns[t].cut
  BY <1>0 DEF TurnOK, Present, UsesDevice, WaitsAt
<1>8. TurnOK(t)'
  <2>1. turns'[t].phase # "idle"
    BY <1>0, <1>6
  <2>2. ASSUME NEW c \in Devices, devices'[c].flight[i] # "none" PROVE UsesDevice(t, c)' \/ turns'[t].cut
    <3>1. CASE c = d
      BY <1>3, <1>6, <2>2, <3>1 DEF UsesDevice
    <3>2. CASE c # d
      BY <1>3, <1>6, <1>7, <2>2, <3>2 DEF Present
    <3> QED BY <3>1, <3>2
  <2>3. ASSUME NEW c \in Devices, devices'[c].queue[i] # "none" PROVE WaitsAt(t, c)' \/ turns'[t].cut
    <3>1. CASE c = d
      <4>1. g.flight[i] = "none"
        BY <1>0, <1>2, <1>3, <2>3, <3>1 DEF Apart
      <4> QED BY <1>0, <1>6, <3>1, <4>1 DEF WaitsAt
    <3>2. CASE c # d
      BY <1>3, <1>6, <1>7, <2>3, <3>2 DEF Present
    <3> QED BY <3>1, <3>2
  <2>4. turns'[t].phase \in Lent => ~Present(devices'[Main], i)
    <3>1. CASE d = Main
      BY <1>6, <3>1 DEF Lent
    <3>2. CASE d # Main
      <4>1. devices'[Main] = devices[Main] /\ turns[t].phase = "left"
        BY <1>0, <1>3, <3>2
      <4> QED BY <1>0, <4>1 DEF TurnOK, Lent
    <3> QED BY <3>1, <3>2
  <2> QED BY <2>1, <2>2, <2>3, <2>4 DEF TurnOK
<1>9. WatchOK(i)'
  <2> SUFFICES ASSUME NEW c \in Devices, devices'[c].watch[i] # "none"
               PROVE  Present(devices'[c], i) \/ (c = Main /\ turns'[t].phase \in Lent)
    BY <1>0 DEF WatchOK
  <2>1. CASE c = d
    BY <1>2, <1>3, <2>1
  <2>2. CASE c = Main /\ d = Side
    BY <1>0, <1>6, <2>2 DEF Lent
  <2>3. CASE c = Side /\ d = Main
    BY <1>0, <1>3, <2>3 DEF WatchOK, Present
  <2> QED BY <1>0, <2>1, <2>2, <2>3
<1>10. edits' \in 0..MaxEdits /\ turns' \in [Sessions -> TurnRec]
  <2>1. edits' \in 0..MaxEdits
    BY <1>1 DEF IInv, TypeOK
  <2>2. \A r \in TurnRec : Admitted(r) \in TurnRec
    BY AdmittedRec
  <2>3. \A u \in Sessions : turns[u] \in TurnRec
    BY DEF IInv, TypeOK
  <2>4. turns' = [u \in Sessions |->
          IF u = t THEN (IF g.flight[i] # "none" THEN Admitted(asked) ELSE asked)
          ELSE IF WaitsAt(u, d) /\ g.flight[Turn(u)] # "none" THEN Admitted(turns[u])
          ELSE turns[u]]
    BY <1>1
  <2>5. turns' \in [Sessions -> TurnRec]
    BY <1>4, <2>2, <2>3, <2>4
  <2> QED BY <2>1, <2>5
<1> QED BY <1>3, <1>6, <1>8, <1>9, <1>10, TurnStepOK

\* Who gives Main back or lends it generates there; who gives Side back has lent Main.
LEMMA GiveBackIInv ==
  ASSUME IInv, NEW t \in Sessions, NEW d \in Devices, NEW transferring \in BOOLEAN,
         NEW r \in TurnRec, GiveBack(t, d, transferring, r),
         r.cut = turns[t].cut, r.phase \in {"idle", "left", "backing", "done"},
         r.phase = "idle" => ~r.cut, transferring => r.phase \in Lent,
         ~turns[t].cut => UsesDevice(t, d),
         d = Main => turns[t].phase = "home" /\ (r.phase \in Lent => ~r.cut),
         d = Side => turns[t].phase \in Lent /\ r.phase \in Lent,
         transferring => d = Main
  PROVE  IInv'
<1> DEFINE i == Turn(t)
<1>0. /\ turns[t] \in TurnRec /\ i \in Ids /\ TurnOK(t) /\ WatchOK(i) /\ GateOK(devices[d])
      /\ i[1] = t /\ i[2] = "turn" /\ Main # Side /\ Devices = {Main, Side}
  BY Fields DEF IInv, Devices
<1>1. PICK g \in Released(devices[d], i, transferring) :
        /\ devices' = [devices EXCEPT ![d] = g]
        /\ turns' = [u \in Sessions |->
             IF u = t THEN r
             ELSE IF WaitsAt(u, d) /\ g.flight[Turn(u)] # "none" THEN Admitted(turns[u])
             ELSE turns[u]]
        /\ UNCHANGED edits
  BY DEF GiveBack
<1>2. /\ GateOK(g) /\ Spares(devices[d], g, {i})
      /\ devices[d].queue[i] = "none" => ~Present(g, i)
      /\ devices[d].flight[i] # "none" /\ ~transferring => g.watch[i] = "none"
      /\ devices[d].flight[i] = "none" => g = devices[d]
  <2>1. /\ GateOK(g) /\ Spares(devices[d], g, {i})
        /\ devices[d].queue[i] = "none" => g.flight[i] = "none" /\ g.queue[i] = "none"
        /\ devices[d].flight[i] # "none" /\ ~transferring => g.watch[i] = "none"
        /\ devices[d].flight[i] = "none" => g = devices[d]
    BY <1>0, ReleasedOK
  <2> QED BY <2>1 DEF Present
<1>3. /\ Changed({i}) /\ devices' = [c \in Devices |-> devices'[c]]
      /\ devices'[d] = g /\ \A c \in Devices \ {d} : devices'[c] = devices[c]
      /\ \A u \in Sessions : u # t => GoesOn(u)
  BY <1>1, <1>2, OneDevice
<1>4. turns'[t] = r
  BY <1>1
<1>5. ~r.cut => \A c \in Devices : ~Present(devices'[c], i)
  <2> SUFFICES ASSUME ~turns[t].cut, NEW c \in Devices PROVE ~Present(devices'[c], i)
    OBVIOUS
  <2>1. UsesDevice(t, d) /\ ~WaitsAt(t, d)
    BY <1>0 DEF UsesDevice, WaitsAt
  <2>2. CASE c = d
    BY <1>0, <1>2, <1>3, <2>1, <2>2 DEF TurnOK
  <2>3. CASE c # d
    BY <1>0, <1>3, <2>1, <2>3 DEF TurnOK, UsesDevice, WaitsAt, Present
  <2> QED BY <2>2, <2>3
<1>6. TurnOK(t)'
  <2>1. r.phase \in Lent => ~Present(devices'[Main], i)
    <3>1. CASE d = Main
      BY <1>0, <1>5, <3>1
    <3>2. CASE d = Side
      BY <1>0, <1>3, <3>2 DEF TurnOK
    <3> QED BY <1>0, <3>1, <3>2
  <2> QED BY <1>4, <1>5, <2>1 DEF TurnOK, Present
<1>7. WatchOK(i)'
  <2> SUFFICES ASSUME NEW c \in Devices, devices'[c].watch[i] # "none"
               PROVE  Present(devices'[c], i) \/ (c = Main /\ r.phase \in Lent)
    BY <1>0, <1>4 DEF WatchOK
  <2>1. CASE c = d /\ transferring
    BY <2>1
  <2>2. CASE c = d /\ ~transferring
    <3>1. g = devices[d]
      BY <1>2, <1>3, <2>2
    <3>2. Present(devices[d], i) \/ (d = Main /\ turns[t].phase \in Lent)
      BY <1>0, <1>3, <2>2, <3>1 DEF WatchOK
    <3> QED BY <1>3, <2>2, <3>1, <3>2 DEF Lent
  <2>3. CASE c = Main /\ d = Side
    BY <2>3
  <2>4. CASE c = Side /\ d = Main
    BY <1>0, <1>3, <2>4 DEF WatchOK
  <2> QED BY <1>0, <2>1, <2>2, <2>3, <2>4
<1>8. edits' \in 0..MaxEdits /\ turns' \in [Sessions -> TurnRec]
  <2>1. edits' \in 0..MaxEdits
    BY <1>1 DEF IInv, TypeOK
  <2>2. \A s \in TurnRec : Admitted(s) \in TurnRec
    BY AdmittedRec
  <2>3. \A u \in Sessions : turns[u] \in TurnRec
    BY DEF IInv, TypeOK
  <2>4. turns' = [u \in Sessions |->
          IF u = t THEN r
          ELSE IF WaitsAt(u, d) /\ g.flight[Turn(u)] # "none" THEN Admitted(turns[u])
          ELSE turns[u]]
    BY <1>1
  <2>5. turns' \in [Sessions -> TurnRec]
    BY <2>2, <2>3, <2>4
  <2> QED BY <2>1, <2>5
<1> QED BY <1>3, <1>4, <1>6, <1>7, <1>8, TurnStepOK

LEMMA TurnIInv ==
  ASSUME IInv, NEW t \in Sessions,
         Begin(t) \/ End(t) \/ Lend(t) \/ Think(t) \/ Thought(t) \/ Return(t)
  PROVE  IInv'
<1>0. /\ turns[t] \in TurnRec /\ TurnOK(t) /\ Main \in Devices /\ Side \in Devices /\ Main # Side
      /\ turns[t].cut \in BOOLEAN
  BY Fields DEF IInv, Devices
<1>1. CASE Begin(t)
  <2>1. devices[Main].queue[Turn(t)] = "none"
    BY <1>0, <1>1 DEF Begin, TurnOK, WaitsAt
  <2> QED BY <1>0, <1>1, <2>1, AskIInv DEF Begin, Phases
<1>2. CASE Think(t)
  <2>1. devices[Side].queue[Turn(t)] = "none"
    BY <1>0, <1>2 DEF Think, TurnOK, WaitsAt
  <2> QED BY <1>0, <1>2, <2>1, AskIInv DEF Think, Phases
<1>3. CASE Return(t)
  <2>1. devices[Main].queue[Turn(t)] = "none"
    BY <1>0, <1>3 DEF Return, TurnOK, Lent, Present
  <2> QED BY <1>0, <1>3, <2>1, AskIInv DEF Return, Phases
<1>4. CASE End(t)
  <2> DEFINE r == IF turns[t].cut THEN [turns[t] EXCEPT !.phase = "done"] ELSE NoTurn
  <2>1. /\ r \in TurnRec /\ r.cut = turns[t].cut /\ r.phase \in {"idle", "done"}
        /\ r.phase = "idle" => ~r.cut
    BY <1>0 DEF TurnRec, Phases, NoTurn
  <2>2. GiveBack(t, Main, FALSE, r) /\ turns[t].phase = "home" /\ UsesDevice(t, Main)
    BY <1>4 DEF End, UsesDevice
  <2> HIDE DEF r
  <2>3. r.phase \notin Lent
    BY <2>1 DEF Lent
  <2> QED BY <1>0, <2>1, <2>2, <2>3, GiveBackIInv
<1>5. CASE Lend(t)
  <2> DEFINE r == [turns[t] EXCEPT !.phase = "left"]
  <2>1. r \in TurnRec /\ r.cut = turns[t].cut /\ r.phase = "left"
    BY <1>0 DEF TurnRec, Phases
  <2>2. /\ GiveBack(t, Main, TRUE, r) /\ turns[t].phase = "home" /\ UsesDevice(t, Main)
        /\ ~turns[t].cut
    BY <1>5 DEF Lend, UsesDevice
  <2> HIDE DEF r
  <2>3. r.phase \in Lent
    BY <2>1 DEF Lent
  <2> QED BY <1>0, <2>1, <2>2, <2>3, GiveBackIInv
<1>6. CASE Thought(t)
  <2> DEFINE r == [turns[t] EXCEPT !.phase = "backing", !.thought = TRUE]
  <2>1. r \in TurnRec /\ r.cut = turns[t].cut /\ r.phase = "backing"
    BY <1>0 DEF TurnRec, Phases
  <2>2. /\ GiveBack(t, Side, FALSE, r) /\ turns[t].phase \in Lent
        /\ ~turns[t].cut => UsesDevice(t, Side)
    BY <1>0, <1>6 DEF Thought, UsesDevice, Lent
  <2> HIDE DEF r
  <2>3. r.phase \in Lent
    BY <2>1 DEF Lent
  <2> QED BY <1>0, <2>1, <2>2, <2>3, GiveBackIInv
<1> QED BY <1>1, <1>2, <1>3, <1>4, <1>5, <1>6

LEMMA CutIInv == ASSUME IInv, NEW t \in Sessions, Cut(t) PROVE IInv'
<1> DEFINE r == [turns[t] EXCEPT !.cut = TRUE, !.phase = IF @ = "homeQ" THEN "done" ELSE @]
<1>0. /\ turns \in [Sessions -> TurnRec] /\ turns[t] \in TurnRec
      /\ devices' = devices /\ edits' = edits
      /\ turns[t].phase \notin {"idle", "done"} /\ TypeOK
  BY DEF IInv, TypeOK, Cut
<1>1. turns' = [turns EXCEPT ![t] = r]
  BY <1>0 DEF Cut
<1>2. /\ r \in TurnRec /\ r.cut = TRUE
      /\ r.phase = IF turns[t].phase = "homeQ" THEN "done" ELSE turns[t].phase
  BY <1>0 DEF TurnRec, Phases
<1> HIDE DEF r
<1>3. turns' \in [Sessions -> TurnRec] /\ turns'[t] = r /\ \A u \in Sessions \ {t} : turns'[u] = turns[u]
  BY <1>0, <1>1, <1>2
<1>4. \A u \in Sessions : turns[u].phase \in Lent <=> turns'[u].phase \in Lent
  BY <1>2, <1>3 DEF Lent
<1>5. TypeOK' /\ \A d \in Devices : GateOK(devices'[d])
  BY <1>0, <1>3 DEF TypeOK, IInv
<1>6. ASSUME NEW u \in Sessions PROVE TurnOK(u)'
  <2>1. CASE u = t
    BY <1>0, <1>2, <1>3, <1>4, <2>1 DEF IInv, TurnOK
  <2>2. CASE u # t
    BY <1>0, <1>3, <2>2 DEF IInv, TurnOK, UsesDevice, WaitsAt
  <2> QED BY <2>1, <2>2
<1>7. ASSUME NEW i \in Ids PROVE WatchOK(i)'
  BY <1>0, <1>4, IdForms DEF IInv, WatchOK
<1> QED BY <1>5, <1>6, <1>7 DEF IInv

\* Another attempt: the turn stays where it is, and keeps what it has.
LEMMA RetryIInv == ASSUME IInv, NEW t \in Sessions, Retry(t) PROVE IInv'
<1>0. /\ turns \in [Sessions -> TurnRec] /\ turns[t] \in TurnRec
      /\ devices' = devices /\ edits' = edits /\ TypeOK
      /\ turns' = [turns EXCEPT ![t].thought = FALSE]
  BY DEF IInv, TypeOK, Retry
<1>1. /\ turns' \in [Sessions -> TurnRec]
      /\ \A u \in Sessions : turns'[u].phase = turns[u].phase /\ turns'[u].cut = turns[u].cut
  BY <1>0 DEF TurnRec
<1>2. TypeOK' /\ \A d \in Devices : GateOK(devices'[d])
  BY <1>0, <1>1 DEF TypeOK, IInv
<1>3. ASSUME NEW u \in Sessions PROVE TurnOK(u)'
  BY <1>0, <1>1 DEF IInv, TurnOK, UsesDevice, WaitsAt
<1>4. ASSUME NEW i \in Ids PROVE WatchOK(i)'
  BY <1>0, <1>1, IdForms DEF IInv, WatchOK
<1> QED BY <1>2, <1>3, <1>4 DEF IInv

\* A step of the maintenance of session s on Main.
LEMMA TaskStepOK ==
  ASSUME IInv, NEW s \in Sessions, NEW g, GateOK(g), Spares(devices[Main], g, {Task(s)}),
         Become(Main, g), edits' = edits,
         g.watch[Task(s)] # "none" => Present(g, Task(s))
  PROVE  IInv'
<1> DEFINE X == {Task(s)}
<1>0. /\ Main \in Devices /\ devices' = [devices EXCEPT ![Main] = g]
      /\ turns' = [t \in Sessions |->
           IF WaitsAt(t, Main) /\ g.flight[Turn(t)] # "none" THEN Admitted(turns[t]) ELSE turns[t]]
  BY DEF Become, Devices
<1>1. /\ Changed(X) /\ devices' = [c \in Devices |-> devices'[c]]
      /\ devices'[Main] = g /\ \A c \in Devices \ {Main} : devices'[c] = devices[c]
      /\ \A u \in Sessions : GoesOn(u)
  BY <1>0, OneDevice
<1>2. WatchOK(Task(s))'
  <2> SUFFICES ASSUME NEW c \in Devices, devices'[c].watch[Task(s)] # "none"
               PROVE  Present(devices'[c], Task(s))
    BY DEF WatchOK
  <2>1. CASE c = Main
    BY <1>1, <2>1
  <2>2. CASE c # Main
    BY <1>1, <2>2, Fields DEF IInv, WatchOK
  <2> QED BY <2>1, <2>2
<1>3. X \in SUBSET {Turn(s), Task(s)} /\ Turn(s) \notin X /\ \A i \in X : WatchOK(i)'
  BY <1>2 DEF Turn, Task
<1>4. edits' \in 0..MaxEdits
  BY DEF IInv, TypeOK
<1>5. turns' \in [Sessions -> TurnRec]
  <2>1. \A r \in TurnRec : Admitted(r) \in TurnRec
    BY AdmittedRec
  <2>2. \A u \in Sessions : turns[u] \in TurnRec
    BY DEF IInv, TypeOK
  <2> QED BY <1>0, <2>1, <2>2
<1> HIDE DEF X
<1> QED BY <1>1, <1>3, <1>4, <1>5, StepOK

LEMMA MaintenanceIInv ==
  ASSUME IInv, NEW s \in Sessions, Maintain(s) \/ Maintained(s) PROVE IInv'
<1>0. /\ Task(s) \in Ids /\ Main \in Devices /\ GateOK(devices[Main]) /\ edits' = edits
  BY Fields DEF IInv, Devices, Maintain, Maintained
<1>1. CASE Maintain(s)
  <2>1. PICK g \in Admissions(devices[Main], Task(s), "maintenance") : Become(Main, g)
    BY <1>1 DEF Maintain
  <2>2. devices[Main].queue[Task(s)] = "none"
    BY <1>0, <1>1 DEF Maintain, Waiting
  <2>3. "maintenance" \in Kinds
    BY DEF Kinds
  <2>4. GateOK(g) /\ Spares(devices[Main], g, {Task(s)}) /\ Present(g, Task(s))
    BY <1>0, <2>2, <2>3, AdmissionsOK DEF Present
  <2> QED BY <1>0, <2>1, <2>4, TaskStepOK
<1>2. CASE Maintained(s)
  <2>1. PICK g \in Released(devices[Main], Task(s), FALSE) : Become(Main, g)
    BY <1>2 DEF Maintained
  <2>2. devices[Main].flight[Task(s)] # "none"
    BY <1>2 DEF Maintained, InFlight
  <2>3. GateOK(g) /\ Spares(devices[Main], g, {Task(s)}) /\ g.watch[Task(s)] = "none"
    BY <1>0, <2>2, ReleasedOK
  <2> QED BY <1>0, <2>1, <2>3, TaskStepOK
<1> QED BY <1>1, <1>2

LEMMA SyncIInv ==
  ASSUME IInv, NEW caps \in [Devices -> 1..MaxCap], Sync(caps) PROVE IInv'
<1>0. /\ Main \in Devices /\ Side \in Devices /\ Devices = {Main, Side} /\ Main # Side
      /\ caps[Main] \in 1..MaxCap /\ caps[Side] \in 1..MaxCap
      /\ GateOK(devices[Main]) /\ GateOK(devices[Side])
  BY DEF Devices, IInv
<1>1. PICK m \in Synced(devices[Main], caps[Main]) :
        \E e \in Synced(devices[Side], caps[Side]) : BecomeBoth(m, e, {})
  BY DEF Sync
<1>2. PICK e \in Synced(devices[Side], caps[Side]) : BecomeBoth(m, e, {})
  BY <1>1
<1>3. GateOK(m) /\ Spares(devices[Main], m, {})
  <2>1. PICK r \in Revoked([devices[Main] EXCEPT !.cap = caps[Main]]) : m \in Drained(r)
    BY <1>1 DEF Synced
  <2> QED BY <1>0, <2>1, SyncedOK
<1>4. GateOK(e) /\ Spares(devices[Side], e, {})
  <2>1. PICK r \in Revoked([devices[Side] EXCEPT !.cap = caps[Side]]) : e \in Drained(r)
    BY <1>2 DEF Synced
  <2> QED BY <1>0, <2>1, SyncedOK
<1>5. /\ devices' = [d \in Devices |-> IF d = Main THEN m ELSE e]
      /\ turns' = [t \in Sessions |->
           IF \E d \in Devices : WaitsAt(t, d) /\ devices'[d].flight[Turn(t)] # "none"
             THEN Admitted(turns[t]) ELSE turns[t]]
  BY <1>2 DEF BecomeBoth
<1>6. /\ devices' = [d \in Devices |-> devices'[d]]
      /\ devices'[Main] = m /\ devices'[Side] = e
  BY <1>0, <1>5
<1>7. Changed({})
  BY <1>0, <1>3, <1>4, <1>6 DEF Changed
<1>8. \A u \in Sessions : GoesOn(u)
  BY <1>5 DEF GoesOn
<1>9. edits' \in 0..MaxEdits
  BY DEF IInv, TypeOK, Sync
<1>10. turns' \in [Sessions -> TurnRec]
  <2>1. \A s \in TurnRec : Admitted(s) \in TurnRec
    BY AdmittedRec
  <2>2. \A u \in Sessions : turns[u] \in TurnRec
    BY DEF IInv, TypeOK
  <2> QED BY <1>5, <2>1, <2>2
<1> QED BY <1>6, <1>7, <1>8, <1>9, <1>10, StepOK

LEMMA WorkerExitsIInv == ASSUME IInv, NEW s \in Sessions, WorkerExits(s) PROVE IInv'
<1> DEFINE X == {Turn(s), Task(s)}
<1>1. PICK m \in Evicted(Main, s) : \E e \in Evicted(Side, s) :
        /\ devices' = [d \in Devices |-> IF d = Main THEN m ELSE e]
        /\ turns' = [t \in Sessions |->
             IF t = s THEN NoTurn
             ELSE IF \E d \in Devices : WaitsAt(t, d) /\ devices'[d].flight[Turn(t)] # "none"
               THEN Admitted(turns[t])
             ELSE turns[t]]
  BY DEF WorkerExits, BecomeBoth
<1>2. PICK e \in Evicted(Side, s) :
        /\ devices' = [d \in Devices |-> IF d = Main THEN m ELSE e]
        /\ turns' = [t \in Sessions |->
             IF t = s THEN NoTurn
             ELSE IF \E d \in Devices : WaitsAt(t, d) /\ devices'[d].flight[Turn(t)] # "none"
               THEN Admitted(turns[t])
             ELSE turns[t]]
  BY <1>1
<1>3. /\ devices' = [d \in Devices |-> devices'[d]] /\ Devices = {Main, Side} /\ Main # Side
      /\ devices'[Main] = m /\ devices'[Side] = e
      /\ GateOK(devices[Main]) /\ GateOK(devices[Side])
  BY <1>2 DEF Devices, IInv
<1>4. {i \in Ids : i[1] = s} = X
  <2>1. \A i \in Ids : i[1] = s => i \in X
    BY IdForms DEF Turn, Task
  <2>2. Turn(s) \in Ids /\ Task(s) \in Ids /\ Turn(s)[1] = s /\ Task(s)[1] = s
    BY DEF Turn, Task, Ids
  <2> QED BY <2>1, <2>2
<1>5. /\ GateOK(m) /\ Spares(devices[Main], m, X)
      /\ \A i \in X : m.flight[i] = "none" /\ m.queue[i] = "none" /\ m.watch[i] = "none"
  <2>1. /\ GateOK(m) /\ Spares(devices[Main], m, {i \in Ids : i[1] = s})
        /\ \A i \in Ids : i[1] = s =>
             m.flight[i] = "none" /\ m.queue[i] = "none" /\ m.watch[i] = "none"
    <3>1. m \in Evicted(Main, s)
      BY <1>1
    <3>2. GateOK(devices[Main])
      BY <1>3
    <3> QED BY <3>1, <3>2, EvictedOK
  <2> HIDE DEF X
  <2> QED BY <1>4, <2>1
<1>6. /\ GateOK(e) /\ Spares(devices[Side], e, X)
      /\ \A i \in X : e.flight[i] = "none" /\ e.queue[i] = "none" /\ e.watch[i] = "none"
  <2>1. /\ GateOK(e) /\ Spares(devices[Side], e, {i \in Ids : i[1] = s})
        /\ \A i \in Ids : i[1] = s =>
             e.flight[i] = "none" /\ e.queue[i] = "none" /\ e.watch[i] = "none"
    <3>1. e \in Evicted(Side, s)
      BY <1>2
    <3>2. GateOK(devices[Side])
      BY <1>3
    <3> QED BY <3>1, <3>2, EvictedOK
  <2> HIDE DEF X
  <2> QED BY <1>4, <2>1
<1>7. Changed(X)
  BY <1>3, <1>5, <1>6 DEF Changed
<1>8. \A i \in X : WatchOK(i)'
  BY <1>3, <1>5, <1>6 DEF WatchOK
<1>9. turns'[s] = NoTurn
  BY <1>2
<1>10. TurnOK(s)'
  BY <1>3, <1>5, <1>6, <1>9 DEF TurnOK, NoTurn, Lent
<1>11. \A u \in Sessions : u # s => GoesOn(u)
  BY <1>2 DEF GoesOn
<1>12. turns' \in [Sessions -> TurnRec]
  <2>1. \A r \in TurnRec : Admitted(r) \in TurnRec
    BY AdmittedRec
  <2>2. \A u \in Sessions : turns[u] \in TurnRec
    BY DEF IInv, TypeOK
  <2>3. NoTurn \in TurnRec
    BY DEF NoTurn, TurnRec, Phases
  <2> QED BY <1>2, <2>1, <2>2, <2>3
<1>13. edits' \in 0..MaxEdits
  BY DEF IInv, TypeOK, WorkerExits
<1>14. X \in SUBSET {Turn(s), Task(s)} /\ ~(X \subseteq {Task(s)})
  BY DEF Turn, Task
<1> HIDE DEF X
<1> QED BY <1>3, <1>7, <1>8, <1>10, <1>11, <1>12, <1>13, <1>14, StepOK

\* The devices are free.
LEMMA InitIInv == Init => IInv
<1> SUFFICES ASSUME Init PROVE IInv
  OBVIOUS
<1> DEFINE g == [cap |-> MaxCap, flight |-> [i \in Ids |-> "none"], queue |-> [i \in Ids |-> "none"],
                 watch |-> [i \in Ids |-> "none"], preempted |-> {}]
<1>1. /\ devices = [d \in Devices |-> g] /\ edits = 0
      /\ turns \in [Sessions -> TurnRec] /\ \A s \in Sessions : turns[s] = NoTurn
  BY DEF Init, TurnRec, NoTurn, Phases
<1>2. /\ g \in Gates /\ g.cap = MaxCap
      /\ \A i \in Ids : g.flight[i] = "none" /\ g.queue[i] = "none" /\ g.watch[i] = "none"
  BY DEF Gates
<1> HIDE DEF g
<1>3. GateOK(g)
  <2>1. Watched(g) = {} /\ Waiting(g) = {} /\ Maintaining(g) = {}
    BY <1>2 DEF Watched, InFlight, Waiting, Maintaining
  <2>2. Cardinality(Watched(g)) = 0
    BY <2>1, FS_EmptySet
  <2> QED BY <1>2, <2>1, <2>2 DEF GateOK, Apart, Served, Yielding, Few
<1>4. TypeOK
  BY <1>1, <1>2 DEF TypeOK
<1>5. \A s \in Sessions : TurnOK(s)
  BY <1>1, <1>2, Fields, <1>4 DEF TurnOK, NoTurn, Lent
<1>6. \A i \in Ids : WatchOK(i)
  BY <1>1, <1>2 DEF WatchOK
<1> QED BY <1>1, <1>3, <1>4, <1>5, <1>6 DEF IInv

LEMMA NextIInv == IInv /\ [Next]_vars => IInv'
<1> SUFFICES ASSUME IInv, [Next]_vars PROVE IInv'
  OBVIOUS
<1>1. CASE UNCHANGED vars
  <2>1. devices' = devices /\ turns' = turns /\ edits' = edits
    BY <1>1 DEF vars
  <2> QED BY <2>1 DEF IInv, TypeOK, TurnOK, WatchOK, UsesDevice, WaitsAt
<1>2. ASSUME NEW t \in Sessions,
             \/ Begin(t) \/ End(t) \/ Lend(t) \/ Think(t) \/ Thought(t) \/ Return(t)
             \/ Retry(t) \/ Cut(t)
      PROVE  IInv'
  BY <1>2, TurnIInv, RetryIInv, CutIInv
<1>3. ASSUME NEW s \in Sessions, Maintain(s) \/ Maintained(s) \/ WorkerExits(s) PROVE IInv'
  BY <1>3, MaintenanceIInv, WorkerExitsIInv
<1>4. ASSUME NEW caps \in [Devices -> 1..MaxCap], Sync(caps) PROVE IInv'
  BY <1>4, SyncIInv
<1> QED BY <1>1, <1>2, <1>3, <1>4 DEF Next

LEMMA Invariance == Spec => []IInv
BY InitIInv, NextIInv, PTL DEF Spec

\* scheduler.ts: the gates, turns and reloads have their types.
THEOREM TypeCorrect == Spec => []TypeOK
<1>1. IInv => TypeOK
  BY DEF IInv
<1> QED BY <1>1, Invariance, PTL

\* revokeExcess(): whatever admissions, transfers, evictions and reloads come in whatever order,
\* no more generations than the cap run unrevoked.
THEOREM CapHolds == Spec => []ExcessIsRevoked
<1>1. IInv => ExcessIsRevoked
  BY DEF IInv, GateOK, Few, ExcessIsRevoked
<1> QED BY <1>1, Invariance, PTL

\* drain(): nobody waits for a device that could take a waiter.
THEOREM WakesAreNotLost == Spec => []NobodyWaitsInVain
<1>1. IInv => NobodyWaitsInVain
  BY DEF IInv, GateOK, Served, NobodyWaitsInVain
<1> QED BY <1>1, Invariance, PTL

\* admitKind(): maintenance beside a turn that a human watches was asked to yield.
THEOREM HumansFirst == Spec => []MaintenanceYields
<1>1. IInv => MaintenanceYields
  BY DEF IInv, GateOK, Yielding, MaintenanceYields
<1> QED BY <1>1, Invariance, PTL

\* dispatch(): a slot belongs to a turn that generates on that device, or that was
\* interrupted.
THEOREM NoSlotLeaks == Spec => []SlotsHaveTurns
<1>1. IInv => SlotsHaveTurns
  BY DEF IInv, TurnOK, SlotsHaveTurns, InFlight
<1> QED BY <1>1, Invariance, PTL

\* transferRelease(): a revocation that a lent device keeps is gone when the turn is.
THEOREM NoStaleRevocation == Spec => []WatchesEnd
<1>1. IInv => WatchesEnd
  BY DEF IInv, WatchOK, WatchesEnd, Present, InFlight, Waiting, Lent
<1> QED BY <1>1, Invariance, PTL
====
