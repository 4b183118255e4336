---------------------------- MODULE DeviceScheduler ----------------------------
(***************************************************************************)
(* packages/core/src/session/scheduler.ts: admission of provider turns and *)
(* of maintenance passes to the devices that generate for them, with the   *)
(* callers that make it hard: the dispatch bracket of a turn, which lends  *)
(* its device while a private reasoning phase runs on another one, the     *)
(* workers that call over RPC (an interrupted worker fiber does not take   *)
(* its admission back), and the eviction of a session whose worker exits.  *)
(* A session has one turn at a time: racing generations of one turn, which *)
(* share its slot, are left out.                                           *)
(*                                                                         *)
(* Every operation of the scheduler is one synchronous stretch, a step     *)
(* here. The EEVDF ledger and the warm cohort choose among the waiters     *)
(* that may run; the choice is left open.                                  *)
(***************************************************************************)
EXTENDS Naturals, FiniteSets, FiniteSetsExt

CONSTANTS
  Sessions,
  Main, Side,  \* two devices; turns generate on Main
  Thinkers,    \* the sessions whose reasoning model is on Side
  Keepers,     \* the sessions that have maintenance to do, on Main
  MaxCap,      \* the largest concurrency of a device
  MaxEdits     \* bound on reloads of the settings

ASSUME DeviceAssumption ==
  /\ Main # Side
  /\ Thinkers \subseteq Sessions /\ Keepers \subseteq Sessions
  /\ IsFiniteSet(Sessions)
  /\ MaxCap \in Nat \ {0} /\ MaxEdits \in Nat

VARIABLES
  devices,  \* the gate of each device
  turns,    \* where the turn of each session is
  edits     \* reloads so far

vars == <<devices, turns, edits>>

Devices == {Main, Side}

\* The scheduler knows a turn by its session, and a maintenance pass by an id of its own.
Ids == Sessions \X {"turn", "task"}
Turn(s) == <<s, "turn">>
Task(s) == <<s, "task">>

Kinds == {"interactive", "batch", "maintenance"}

\* flight: the three in-flight sets; queue: the waiters; watch: the
\* revocations (open, or fired: completed with true); preempted: the passes that
\* were asked to yield.
Gates == [cap : 1..MaxCap, flight : [Ids -> Kinds \cup {"none"}],
          queue : [Ids -> Kinds \cup {"none"}],
          watch : [Ids -> {"none", "open", "fired"}], preempted : SUBSET Ids]

\* home: generating on Main. left: Main was lent, Side not yet asked. backing: Side
\* is released, Main not yet asked. done: the turn was interrupted, its worker is about to
\* exit.
Phases == {"idle", "homeQ", "home", "left", "thinkQ", "think", "backing", "backQ", "done"}
TurnRec == [phase : Phases, thought : BOOLEAN, cut : BOOLEAN]
NoTurn == [phase |-> "idle", thought |-> FALSE, cut |-> FALSE]

TypeOK ==
  /\ devices \in [Devices -> Gates]
  /\ turns \in [Sessions -> TurnRec]
  /\ edits \in 0..MaxEdits

Init ==
  /\ devices = [d \in Devices |->
       [cap |-> MaxCap, flight |-> [i \in Ids |-> "none"], queue |-> [i \in Ids |-> "none"],
        watch |-> [i \in Ids |-> "none"], preempted |-> {}]]
  /\ turns = [t \in Sessions |-> NoTurn]
  /\ edits = 0

------------------------------------------------------------------------------
InFlight(g) == {i \in Ids : g.flight[i] # "none"}
Waiting(g) == {i \in Ids : g.queue[i] # "none"}
Foreground(g) == {i \in Ids : g.queue[i] = "interactive"}
Maintaining(g) == {i \in Ids : g.flight[i] = "maintenance"}
Watched(g) == {i \in InFlight(g) : g.watch[i] = "open"}

HasRoom(g) == Cardinality(InFlight(g)) < g.cap

\* batchCapacity(), less its room: no interactive turn runs and none waits.
Quiet(g) == Foreground(g) = {} /\ \A i \in Ids : g.flight[i] # "interactive"

\* The waiters drain() may choose from.
Choosable(g) ==
  IF Foreground(g) # {} THEN Foreground(g) ELSE IF Quiet(g) THEN Waiting(g) ELSE {}

\* drain(): it fills the device with as many of them as there are. An interactive
\* turn that it starts closes the device to the others.
Grants(g) ==
  {P \in SUBSET Choosable(g) :
     IF HasRoom(g)
       THEN Cardinality(P) = Min({g.cap - Cardinality(InFlight(g)), Cardinality(Choosable(g))})
       ELSE P = {}}

Granted(g, P) ==
  [g EXCEPT !.flight = [i \in Ids |-> IF i \in P THEN g.queue[i] ELSE @[i]],
            !.queue = [i \in Ids |-> IF i \in P THEN "none" ELSE @[i]]]

Drained(g) == {Granted(g, P) : P \in Grants(g)}

Rank(k) == CASE k = "maintenance" -> 1 [] k = "batch" -> 2 [] OTHER -> 3

\* The generations revokeExcess() revokes: as many as there are too many in flight,
\* maintenance first, interactive last, of those not revoked before.
Excess(g) ==
  {V \in SUBSET Watched(g) :
     /\ IF HasRoom(g) THEN V = {}
        ELSE Cardinality(V) = Min({Cardinality(InFlight(g)) - g.cap, Cardinality(Watched(g))})
     /\ \A v \in V, u \in Watched(g) \ V : Rank(g.flight[v]) <= Rank(g.flight[u])}

\* Fault: foreground turns are never revoked.
RevokedBackground(g) ==
  {[g EXCEPT !.watch = [i \in Ids |->
      IF i \in V /\ g.flight[i] # "interactive" THEN "fired" ELSE @[i]]] : V \in Excess(g)}

\* revokeExcess(): a maintenance pass is asked to yield with it.
Revoked(g) ==
  {[g EXCEPT !.watch = [i \in Ids |-> IF i \in V THEN "fired" ELSE @[i]],
             !.preempted = @ \cup (V \cap Maintaining(g))] : V \in Excess(g)}

------------------------------------------------------------------------------
\* A turn that waits for device d, and where its admission takes it.
WaitsAt(t, d) == turns[t].phase \in (IF d = Main THEN {"homeQ", "backQ"} ELSE {"thinkQ"})
UsesDevice(t, d) == turns[t].phase = (IF d = Main THEN "home" ELSE "think")

Admitted(r) == [r EXCEPT !.phase = IF r.phase = "thinkQ" THEN "think" ELSE "home"]

\* Device d becomes g: the turns whose admission was completed go on.
Become(d, g) ==
  /\ devices' = [devices EXCEPT ![d] = g]
  /\ turns' = [t \in Sessions |->
       IF WaitsAt(t, d) /\ g.flight[Turn(t)] # "none" THEN Admitted(turns[t]) ELSE turns[t]]

\* Main becomes m and Side becomes e; the turns of the sessions in Gone are over.
BecomeBoth(m, e, Gone) ==
  /\ devices' = [d \in Devices |-> IF d = Main THEN m ELSE e]
  /\ turns' = [t \in Sessions |->
       IF t \in Gone THEN NoTurn
       ELSE IF \E d \in Devices : WaitsAt(t, d) /\ devices'[d].flight[Turn(t)] # "none"
         THEN Admitted(turns[t])
       ELSE turns[t]]

\* Fault: the preemptions are looked up by the owner of the pass.
AskedByOwner(g, kind) == IF kind = "interactive" THEN {m[1] : m \in Maintaining(g)} ELSE {}

\* Fault: a focused turn that must wait asks nobody.
AskedIfRoom(g, kind) == IF kind = "interactive" /\ HasRoom(g) THEN Maintaining(g) ELSE {}

\* The maintenance that an admission asks to yield.
Asked(g, kind) == IF kind = "interactive" THEN Maintaining(g) ELSE {}

\* The end of admitKind(): at once if the session holds a slot of the device, else a
\* slot or a place among the waiters. A revocation that a transfer kept is used again.
Placed(g, i, kind) ==
  IF g.flight[i] # "none" THEN g
  ELSE LET w == [g EXCEPT !.watch[i] = IF @ = "none" THEN "open" ELSE @,
                          !.preempted = @ \cup Asked(g, kind)]
       IN IF HasRoom(g) /\ (kind = "interactive" \/ Quiet(g))
            THEN [w EXCEPT !.flight[i] = kind]
            ELSE [w EXCEPT !.queue[i] = kind]

\* admitKind(): the excess revoked, the other waiters first if it is background. The
\* settings list both devices, so the cap an admission carries is not looked at.
Admissions(g, i, kind) ==
  UNION {IF kind = "interactive" THEN {Placed(r, i, kind)}
         ELSE {Placed(e, i, kind) : e \in Drained(r)} : r \in Revoked(g)}

\* Turn t asks for device d and waits in phase q unless it is admitted at once.
Ask(t, d, q) ==
  \E kind \in {"interactive", "batch"} : \E g \in Admissions(devices[d], Turn(t), kind) :
    LET in == g.flight[Turn(t)] # "none"
        asked == [turns[t] EXCEPT !.phase = q]
    IN /\ devices' = [devices EXCEPT ![d] = g]
       /\ turns' = [u \in Sessions |->
            IF u = t THEN (IF in THEN Admitted(asked) ELSE asked)
            ELSE IF WaitsAt(u, d) /\ g.flight[Turn(u)] # "none" THEN Admitted(turns[u])
            ELSE turns[u]]
       /\ UNCHANGED edits

\* Fault: every release keeps the revocation, as transferRelease() does.
ReleasedKept(g, i, transferring) ==
  IF g.flight[i] = "none" THEN {g} ELSE Drained([g EXCEPT !.flight[i] = "none"])

\* Fault: release() frees the slot and wakes nobody.
ReleasedQuietly(g, i, transferring) ==
  IF g.flight[i] = "none" THEN {g}
  ELSE {[g EXCEPT !.flight[i] = "none", !.watch[i] = IF transferring THEN @ ELSE "none"]}

\* releaseSlot(): nothing if the slot is not held. A transfer keeps the revocation.
Released(g, i, transferring) ==
  IF g.flight[i] = "none" THEN {g}
  ELSE Drained([g EXCEPT !.flight[i] = "none",
                         !.watch[i] = IF transferring THEN @ ELSE "none",
                         !.preempted = @ \ {i}])

\* Turn t gives back or lends device d and goes on as r.
GiveBack(t, d, transferring, r) ==
  \E g \in Released(devices[d], Turn(t), transferring) :
    /\ devices' = [devices EXCEPT ![d] = g]
    /\ turns' = [u \in Sessions |->
         IF u = t THEN r
         ELSE IF WaitsAt(u, d) /\ g.flight[Turn(u)] # "none" THEN Admitted(turns[u])
         ELSE turns[u]]
    /\ UNCHANGED edits

\* dispatch(): admission of a turn.
Begin(t) ==
  /\ turns[t].phase = "idle"
  /\ Ask(t, Main, "homeQ")

\* The attempt is over, completed or interrupted: the in-band release.
End(t) ==
  /\ turns[t].phase = "home"
  /\ turns[t].thought \/ t \notin Thinkers \/ turns[t].cut
  /\ GiveBack(t, Main, FALSE, IF turns[t].cut THEN [turns[t] EXCEPT !.phase = "done"] ELSE NoTurn)

\* The reasoning phase: Main is lent, then Side is asked for, once in an attempt.
Lend(t) ==
  /\ turns[t].phase = "home" /\ t \in Thinkers
  /\ ~turns[t].thought /\ ~turns[t].cut
  /\ GiveBack(t, Main, TRUE, [turns[t] EXCEPT !.phase = "left"])

Think(t) ==
  /\ turns[t].phase = "left" /\ ~turns[t].cut
  /\ Ask(t, Side, "thinkQ")

\* leave(): Side is given back, whatever became of the phase, and Main asked for, not
\* interruptibly.
Thought(t) ==
  /\ \/ turns[t].phase = "think"
     \/ turns[t].phase \in {"left", "thinkQ"} /\ turns[t].cut
  /\ GiveBack(t, Side, FALSE, [turns[t] EXCEPT !.phase = "backing", !.thought = TRUE])

Return(t) == turns[t].phase = "backing" /\ Ask(t, Main, "backQ")

\* dispatch(): an attempt that failed before any output is made again, on the slot that
\* the turn holds, with a reasoning phase of its own. How often is left open.
Retry(t) ==
  /\ turns[t].phase = "home" /\ turns[t].thought /\ ~turns[t].cut
  /\ turns' = [turns EXCEPT ![t].thought = FALSE]
  /\ UNCHANGED <<devices, edits>>

\* A stop, or the revocation of its slot of Main, interrupts the turn: its RPC is
\* not taken back, so an admission still waits at the host.
Cut(t) ==
  /\ turns[t].phase \notin {"idle", "done"} /\ ~turns[t].cut
  /\ turns' = [turns EXCEPT ![t].cut = TRUE,
                            ![t].phase = IF @ = "homeQ" THEN "done" ELSE @]
  /\ UNCHANGED <<devices, edits>>

\* runMaintenance(): one pass of a session at a time here; it is not interrupted
\* while it waits.
Maintain(s) ==
  /\ s \in Keepers
  /\ Task(s) \notin InFlight(devices[Main]) \cup Waiting(devices[Main])
  /\ \E g \in Admissions(devices[Main], Task(s), "maintenance") : Become(Main, g)
  /\ UNCHANGED edits

\* The pass ends, or yields when it was asked to: releaseMaintenance().
Maintained(s) ==
  /\ Task(s) \in InFlight(devices[Main])
  /\ \E g \in Released(devices[Main], Task(s), FALSE) : Become(Main, g)
  /\ UNCHANGED edits

Forgotten(g, s) ==
  [g EXCEPT !.flight = [i \in Ids |-> IF i[1] = s THEN "none" ELSE @[i]],
            !.queue = [i \in Ids |-> IF i[1] = s THEN "none" ELSE @[i]],
            !.watch = [i \in Ids |-> IF i[1] = s THEN "none" ELSE @[i]],
            !.preempted = {i \in @ : i[1] # s}]

\* Fault: eviction looks at the device of the session's turns only.
EvictedHome(d, s) ==
  IF d = Main THEN Drained(Forgotten(devices[d], s)) ELSE {devices[d]}

\* evict() on one device: the turn and the maintenance of the session, then drain().
Evicted(d, s) == Drained(Forgotten(devices[d], s))

\* The worker of a session exits, at any point: its RPCs are aborted and it is evicted.
WorkerExits(s) ==
  /\ \/ turns[s].phase # "idle"
     \/ Task(s) \in InFlight(devices[Main]) \cup Waiting(devices[Main])
  /\ \E m \in Evicted(Main, s), e \in Evicted(Side, s) :
       BecomeBoth(m, e, {s})
  /\ UNCHANGED edits

\* syncDevices() on one device, whether its concurrency changed or not.
Synced(g, cap) == UNION {Drained(r) : r \in Revoked([g EXCEPT !.cap = cap])}

\* syncDevices(): the settings are loaded again, after an edit of any of the devices.
Sync(caps) ==
  /\ edits < MaxEdits
  /\ edits' = edits + 1
  /\ \E m \in Synced(devices[Main], caps[Main]), e \in Synced(devices[Side], caps[Side]) :
       BecomeBoth(m, e, {})

Next ==
  \/ \E t \in Sessions :
       \/ Begin(t) \/ End(t) \/ Lend(t) \/ Think(t) \/ Thought(t) \/ Return(t) \/ Retry(t)
       \/ Cut(t)
  \/ \E s \in Sessions : Maintain(s) \/ Maintained(s) \/ WorkerExits(s)
  \/ \E caps \in [Devices -> 1..MaxCap] : Sync(caps)

Spec == Init /\ [][Next]_vars

------------------------------------------------------------------------------
\* Provider streams end (they are watched), the phases of a turn go on, and a worker that
\* was interrupted exits within its grace.
Proceed(t) == End(t) \/ Lend(t) \/ Think(t) \/ Thought(t) \/ Return(t)
Interrupted(s) == turns[s].phase = "done"

FairSpec ==
  /\ Spec
  /\ \A t \in Sessions : WF_vars(Proceed(t))
  /\ \A s \in Sessions : WF_vars(Maintained(s)) /\ WF_vars(Interrupted(s) /\ WorkerExits(s))

\* A cap that is lowered below what runs reaches every generation that is too many: no
\* more than the cap run that nobody asked to stop, wherever each of them was admitted.
ExcessIsRevoked ==
  \A d \in Devices : Cardinality(Watched(devices[d])) <= devices[d].cap

\* Whoever waits, waits for a full device, or behind an interactive turn.
NobodyWaitsInVain ==
  \A d \in Devices :
    Waiting(devices[d]) # {} => ~HasRoom(devices[d]) \/ Choosable(devices[d]) = {}

\* A turn that a human watches never runs or waits beside a maintenance pass that was not
\* asked to yield, whichever of them came first.
MaintenanceYields ==
  \A d \in Devices :
    ~Quiet(devices[d]) => Maintaining(devices[d]) \subseteq devices[d].preempted

\* A slot in flight belongs to a turn that generates on that device, and so a turn holds
\* one device at most; or to an admission whose turn was interrupted.
SlotsHaveTurns ==
  \A d \in Devices, s \in Sessions :
    Turn(s) \in InFlight(devices[d]) =>
      UsesDevice(s, d) \/ turns[s].cut

\* The revocation of a turn is not found by the next one: outside of the turn's stay on
\* the device, and of the phase for which it lent Main, the device keeps none.
WatchesEnd ==
  \A d \in Devices, i \in Ids :
    devices[d].watch[i] # "none" =>
      \/ i \in InFlight(devices[d]) \cup Waiting(devices[d])
      \/ d = Main /\ turns[i[1]].phase \in {"left", "thinkQ", "think", "backing"}

\* A device that somebody keeps waiting for goes on admitting: no wake is lost on the way
\* through two devices, revocations and evictions.
DevicesServe ==
  \A d \in Devices :
    <>[](Waiting(devices[d]) # {}) =>
      []<><<InFlight(devices'[d]) \ InFlight(devices[d]) # {}>>_vars

\* scheduler.test.ts: "a saved lower cap revokes excess generations". What is not in excess is
\* left alone: a step that revokes leaves as many others as the cap allows.
RevokesOnlyExcess ==
  [][\A d \in Devices :
       Watched(devices[d]) \cap {i \in Ids : devices'[d].watch[i] = "fired"} # {} =>
         Cardinality(Watched(devices'[d])) >= devices'[d].cap]_vars

==============================================================================
