--------------------------- MODULE WorkerAdmission ---------------------------
(***************************************************************************)
(* packages/novaclaw/src/session-worker/admission.ts: the process gate of  *)
(* an instance. Every session's drain takes a lane before its worker is    *)
(* spawned and keeps it until the worker is gone. Its callers are modelled *)
(* with it: execution.ts runs one drain of a session at a time inside the  *)
(* gate, and its presence listener reclassifies sessions.                  *)
(*                                                                         *)
(* A lease id and a Deferred are object identities. A lease keeps `held`   *)
(* (the drain that took it still runs), a waiter keeps `awaited` (a drain  *)
(* still waits on its Deferred) and `original` (it is the very object that *)
(* acquire() pushed, the one its cleanup looks for).                       *)
(***************************************************************************)
EXTENDS Naturals, Sequences, FiniteSets, SequencesExt

CONSTANTS
  Sessions,
  Nova,       \* the sessions of the agent nova
  Watched,    \* the sessions whose viewers come and go
  Followed,   \* the sessions ForegroundServed follows, one for each that is like it
  Limit,      \* capacity()
  MaxChanges  \* bound on presence changes

ASSUME GateAssumption ==
  /\ Nova \subseteq Sessions
  /\ Watched \subseteq Sessions \ Nova
  /\ Followed \subseteq Sessions
  /\ Limit \in Nat \ {0}
  /\ MaxChanges \in Nat

VARIABLES
  active,   \* the leases, in insertion order
  waiting,  \* the queue
  phase,    \* the drain of each session
  viewed,   \* does a human view the session
  news,     \* presence updates published and not yet handled
  changes   \* presence changes so far

vars == <<active, waiting, phase, viewed, news, changes>>

Priorities == <<"governing", "interactive", "batch">>
Classes == {"governing", "interactive", "batch"}

\* The class of a session, from its agent and who views it.
ClassOf(s, human) ==
  IF s \in Nova THEN "governing" ELSE IF human THEN "interactive" ELSE "batch"

LeaseRec == [session : Sessions, priority : Classes, held : BOOLEAN]
WaiterRec == [session : Sessions, priority : Classes, original : BOOLEAN, awaited : BOOLEAN]

\* What the gate and the drains around it know.
Gates == [active : Seq(LeaseRec), waiting : Seq(WaiterRec),
          phase : [Sessions -> {"idle", "waiting", "running"}]]
Gate == [active |-> active, waiting |-> waiting, phase |-> phase]

TypeOK ==
  /\ Gate \in Gates
  /\ Len(active) <= Limit
  /\ viewed \in [Sessions -> BOOLEAN]
  /\ news \in Seq([session : Sessions, human : BOOLEAN])
  /\ changes \in 0..MaxChanges

Init ==
  /\ active = <<>>
  /\ waiting = <<>>
  /\ phase = [s \in Sessions |-> "idle"]
  /\ viewed \in {v \in [Sessions -> BOOLEAN] : \A s \in Nova : ~v[s]}
  /\ news = <<>>
  /\ changes = 0

------------------------------------------------------------------------------
\* Small fleets reserve no lanes.
Reserve == IF Limit >= 4 THEN 1 ELSE 0
NonGoverningLimit == Limit - Reserve
BatchLimit == Limit - 2 * Reserve

Count(leases, p) == Cardinality({i \in DOMAIN leases : leases[i].priority = p})

\* Fault: admission counts the lanes and forgets the reserves.
AdmitsUnreserved(p, leases) == Len(leases) < Limit

\* Fault: one lane too many.
AdmitsOneMore(p, leases) == Len(leases) <= Limit

\* canAdmit() with the leases that would remain.
CanAdmit(p, leases) ==
  /\ Len(leases) < Limit
  /\ p # "governing" => Len(leases) - Count(leases, "governing") < NonGoverningLimit
  /\ p = "batch" => Count(leases, "batch") < BatchLimit

\* nextIndex(): the first waiter of the highest class that has an admissible one.
NextIndex(q, leases) ==
  LET ready == {i \in DOMAIN q : CanAdmit(q[i].priority, leases)}
      Rank(i) == CHOOSE n \in 1..3 : Priorities[n] = q[i].priority
  IN IF ready = {} THEN 0
     ELSE CHOOSE i \in ready :
            \A j \in ready \ {i} : Rank(i) < Rank(j) \/ (Rank(i) = Rank(j) /\ i < j)

\* One turn of drain()'s loop: a lease for the waiter, its Deferred resolved.
Grant(g, n) ==
  LET w == g.waiting[n]
  IN [active |-> Append(g.active, [session |-> w.session, priority |-> w.priority,
                                   held |-> w.awaited]),
      waiting |-> RemoveAt(g.waiting, n),
      phase |-> IF w.awaited THEN [g.phase EXCEPT ![w.session] = "running"] ELSE g.phase]

\* drain(): until nobody can be admitted.
Drained[g \in Gates] ==
  LET n == NextIndex(g.waiting, g.active)
  IN IF n = 0 THEN g ELSE Drained[Grant(g, n)]

Become(g) == active' = g.active /\ waiting' = g.waiting /\ phase' = g.phase

\* acquire(): a lane at once, though others may wait, or a place in the queue.
\* The class is read from presence in the same step.
Acquire(s) ==
  LET p == ClassOf(s, viewed[s])
  IN /\ phase[s] = "idle"
     /\ IF CanAdmit(p, active)
          THEN /\ active' = Append(active, [session |-> s, priority |-> p, held |-> TRUE])
               /\ phase' = [phase EXCEPT ![s] = "running"]
               /\ UNCHANGED waiting
          ELSE /\ waiting' = Append(waiting, [session |-> s, priority |-> p,
                                              original |-> TRUE, awaited |-> TRUE])
               /\ phase' = [phase EXCEPT ![s] = "waiting"]
               /\ UNCHANGED active
  /\ UNCHANGED <<viewed, news, changes>>

\* The place of the waiter that the drain of s waits on.
Place(q, s) == CHOOSE n \in DOMAIN q : q[n].session = s /\ q[n].awaited

\* Fault: it finds the waiter by its session.
CleanedBySession(q, s) ==
  IF q[Place(q, s)].original
    THEN RemoveAt(q, CHOOSE n \in DOMAIN q :
           q[n].session = s /\ \A m \in 1..(n - 1) : q[m].session # s)
    ELSE [q EXCEPT ![Place(q, s)].awaited = FALSE]

\* The cleanup of an interrupted waiter: indexOf() finds the object that
\* acquire() pushed, or nothing.
Cleaned(q, s) ==
  IF q[Place(q, s)].original THEN RemoveAt(q, Place(q, s))
  ELSE [q EXCEPT ![Place(q, s)].awaited = FALSE]

\* A stop reaches a drain that is still queued.
Interrupt(s) ==
  /\ phase[s] = "waiting"
  /\ waiting' = Cleaned(waiting, s)
  /\ phase' = [phase EXCEPT ![s] = "idle"]
  /\ UNCHANGED <<active, viewed, news, changes>>

\* The gate without the lease of the drain of s.
GivenBack(g, s) ==
  [active |-> RemoveAt(g.active, CHOOSE n \in DOMAIN g.active :
                         g.active[n].session = s /\ g.active[n].held),
   waiting |-> g.waiting,
   phase |-> [g.phase EXCEPT ![s] = "idle"]]

\* Fault: a lane is given back and nobody in the queue is told.
ReleasedQuietly(g, s) == GivenBack(g, s)

\* release(): the lane goes back, and the queue is drained.
Released(g, s) == Drained[GivenBack(g, s)]

\* The drain inside the gate succeeds, fails, yields or is interrupted.
Finish(s) ==
  /\ phase[s] = "running"
  /\ \E g \in {Released(Gate, s)} : Become(g)
  /\ UNCHANGED <<viewed, news, changes>>

\* reprioritize(): leases keep their identity; a waiter that changes class is
\* replaced by a copy.
Reprioritized(g, s, p) ==
  Drained[
    [g EXCEPT
       !.active = [n \in DOMAIN g.active |->
          IF g.active[n].session = s THEN [g.active[n] EXCEPT !.priority = p] ELSE g.active[n]],
       !.waiting = [n \in DOMAIN g.waiting |->
          IF g.waiting[n].session = s /\ g.waiting[n].priority # p
            THEN [g.waiting[n] EXCEPT !.priority = p, !.original = FALSE]
            ELSE g.waiting[n]]]]

\* A human opens or leaves the chat: presence changes, and the update is published.
\* Who views a session of Nova makes no difference to the gate.
View(s) ==
  /\ s \in Watched
  /\ changes < MaxChanges
  /\ changes' = changes + 1
  /\ viewed' = [viewed EXCEPT ![s] = ~@]
  /\ news' = Append(news, [session |-> s, human |-> ~viewed[s]])
  /\ UNCHANGED <<active, waiting, phase>>

\* The listener handles an update, from what the update says.
Hear ==
  /\ news # <<>>
  /\ LET u == Head(news)
     IN \E g \in {Reprioritized(Gate, u.session, ClassOf(u.session, u.human))} : Become(g)
  /\ news' = Tail(news)
  /\ UNCHANGED <<viewed, changes>>

Next == Hear \/ \E s \in Sessions : Acquire(s) \/ Interrupt(s) \/ Finish(s) \/ View(s)

Spec == Init /\ [][Next]_vars

\* A drain inside the gate ends, and a published update is handled.
FairSpec == Spec /\ WF_vars(Hear) /\ \A s \in Sessions : WF_vars(Finish(s))

------------------------------------------------------------------------------
\* Fault: a worker yields whenever somebody waits.
YieldsToAnyone(g, s) == g.waiting # <<>> /\ \E n \in DOMAIN g.active : g.active[n].session = s

\* shouldYield(): would the first lease of s, given back, admit a waiter?
ShouldYield(g, s) ==
  LET mine == {n \in DOMAIN g.active : g.active[n].session = s}
      first == CHOOSE n \in mine : \A m \in mine : n <= m
  IN /\ mine # {}
     /\ \E n \in DOMAIN g.waiting : CanAdmit(g.waiting[n].priority, RemoveAt(g.active, first))

Leases(s) == {n \in DOMAIN active : active[n].session = s}
Leaked == \E n \in DOMAIN active : ~active[n].held

\* Every drain inside the gate holds exactly one lane, and every drain outside it
\* that waits has exactly one place in the queue and no lane, whatever the order of
\* stops, releases and updates. An interrupted waiter leaves the queue, unless it was
\* reclassified while it waited.
LanesMatchDrains ==
  \A s \in Sessions :
    /\ Cardinality({n \in Leases(s) : active[n].held}) = IF phase[s] = "running" THEN 1 ELSE 0
    /\ Cardinality({n \in DOMAIN waiting : waiting[n].session = s /\ waiting[n].awaited})
         = IF phase[s] = "waiting" THEN 1 ELSE 0
    /\ \A n \in DOMAIN waiting : waiting[n].awaited \/ ~waiting[n].original

\* Nobody waits for a lane the gate would give it: every step that could make a
\* waiter admissible drains the queue.
NobodyWaitsInVain ==
  \A n \in DOMAIN waiting : ~CanAdmit(waiting[n].priority, active)

\* In a fleet with reserves background and opened chats leave a lane to Nova,
\* whatever is reclassified in between.
NovaHasALane ==
  Limit >= 4 => Len(active) - Count(active, "governing") < Limit

\* A worker is asked to yield only when its lane, given back, lets a waiter in.
YieldHandsOver ==
  \A s \in Sessions :
    phase[s] = "running" /\ Cardinality(Leases(s)) = 1 /\ ShouldYield(Gate, s)
      => Len(Released(Gate, s).waiting) < Len(waiting)

\* Opened chats and Nova are served: as long as workers end and no lane has
\* leaked, a foreground drain in the queue gets its lane, or is stopped.
ForegroundServed ==
  \A s \in Followed :
    phase[s] = "waiting" /\ ClassOf(s, viewed[s]) # "batch"
      ~> phase[s] # "waiting" \/ ClassOf(s, viewed[s]) = "batch" \/ Leaked

\* "an interrupted waiter leaks no permit" (admission.test.ts): a lease belongs to
\* a drain that is inside the gate.
InterruptedWaiterLeaksNoPermit == ~Leaked
==============================================================================
