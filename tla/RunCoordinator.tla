---------------------------- MODULE RunCoordinator ----------------------------
(***************************************************************************)
(* packages/core/src/session/run-coordinator.ts: the in-process registry   *)
(* that serializes the drains of each session.                             *)
(*                                                                         *)
(* Every action is one synchronous stretch of the JavaScript event loop.   *)
(* An entry object and a fiber are kept as identities, because settle()    *)
(* works on the entry its fiber captured and not on the one the map holds  *)
(* by then: that the two agree is a property, not an assumption.           *)
(***************************************************************************)
EXTENDS Naturals, FiniteSets

CONSTANTS
  Keys,     \* session ids
  Callers,  \* fibers that call run() and wait for its result
  Entries,  \* identities of Entry objects
  Fibers,   \* identities of drain fibers
  None      \* no entry, no fiber (undefined)

ASSUME CoordinatorAssumption ==
  /\ None \notin Entries
  /\ None \notin Fibers

VARIABLES
  active,    \* the Map<Key, Entry>
  entry,     \* the fields of each Entry object
  fiber,     \* the drain fibers: what they captured and how far they are
  caller,    \* the run() calls
  attached,  \* the wake relay has an executor
  owed       \* history: a wake of k that no drain has begun for, nor a stop forgotten

vars == <<active, entry, fiber, caller, attached, owed>>

Exits == {"ok", "failed", "interrupted"}

EntryRec == [owner : Fibers \cup {None}, pendingWake : BOOLEAN, stopping : BOOLEAN]

FiberRec ==
  [status : {"free", "queued", "draining"}, key : Keys \cup {None},
   entry : Entries \cup {None}, force : BOOLEAN, interrupted : BOOLEAN]

\* "joined": awaits the entry's deferred. "awaitStop": awaits it, to run again.
\* "rerun": the await succeeded, the second run has not looked at the map yet.
CallerRec ==
  [status : {"idle", "joined", "awaitStop", "rerun", "returned"},
   key : Keys \cup {None}, entry : Entries \cup {None},
   exit : Exits \cup {"none", "abandoned"}]

TypeOK ==
  /\ active \in [Keys -> Entries \cup {None}]
  /\ entry \in [Entries -> EntryRec]
  /\ fiber \in [Fibers -> FiberRec]
  /\ caller \in [Callers -> CallerRec]
  /\ attached \in BOOLEAN
  /\ owed \in [Keys -> BOOLEAN]

FreeEntry == [owner |-> None, pendingWake |-> FALSE, stopping |-> FALSE]
FreeFiber ==
  [status |-> "free", key |-> None, entry |-> None, force |-> FALSE, interrupted |-> FALSE]
IdleCaller ==
  [status |-> "idle", key |-> None, entry |-> None, exit |-> "none"]

Init ==
  /\ active = [k \in Keys |-> None]
  /\ entry = [e \in Entries |-> FreeEntry]
  /\ fiber = [f \in Fibers |-> FreeFiber]
  /\ caller = [c \in Callers |-> IdleCaller]
  /\ attached = FALSE
  /\ owed = [k \in Keys |-> FALSE]

------------------------------------------------------------------------------
\* Fault: makeEntry() leaves pendingWake undefined.
MakeEntryUnset(f) == [owner |-> f, pendingWake |-> None, stopping |-> FALSE]

\* makeEntry() with the owner start() stores in it.
MakeEntry(f) == [owner |-> f, pendingWake |-> FALSE, stopping |-> FALSE]

\* start(): a forked fiber that will call drain(key, force). Between the fork
\* and the drain it waits on `ready`, or yields once when it is a successor.
Started(k, e, force) ==
  [status |-> "queued", key |-> k, entry |-> e, force |-> force, interrupted |-> FALSE]

FreeEntries == {e \in Entries : entry[e].owner = None}
FreeFibers == {f \in Fibers : fiber[f].status = "free"}

\* Fault: start() without the look at the map.
LaunchUnguarded(k, e, f, force) ==
  /\ active' = [active EXCEPT ![k] = e]
  /\ entry' = [entry EXCEPT ![e] = MakeEntry(f)]
  /\ fiber' = [fiber EXCEPT ![f] = Started(k, e, force)]

\* A key that has no entry gets one, and a fiber that owns it.
Launch(k, e, f, force) ==
  /\ active[k] = None
  /\ active' = [active EXCEPT ![k] = e]
  /\ entry' = [entry EXCEPT ![e] = MakeEntry(f)]
  /\ fiber' = [fiber EXCEPT ![f] = Started(k, e, force)]

\* Deferred.doneUnsafe(entry.done, exit), seen by every waiter of the entry. A
\* waiter that meant to run again does so only after a success: andThen() is
\* skipped when the awaited deferred failed or was interrupted.
Deliver(e, exit) ==
  [c \in Callers |->
    LET w == caller[c] IN
    IF w.entry # e \/ w.status \notin {"joined", "awaitStop"} THEN w
    ELSE IF w.status = "awaitStop" /\ exit = "ok"
         THEN [w EXCEPT !.status = "rerun", !.entry = None]
         ELSE [w EXCEPT !.status = "returned", !.entry = None, !.exit = exit]]

\* The first branch of settle(): another drain on the same entry.
Restart(f, g) ==
  LET e == fiber[f].entry
      k == fiber[f].key
  IN /\ entry' = [entry EXCEPT ![e] =
          [owner |-> g, pendingWake |-> FALSE, stopping |-> entry[e].stopping]]
     /\ fiber' = [fiber EXCEPT ![f] = FreeFiber, ![g] = Started(k, e, FALSE)]
     /\ UNCHANGED <<active, caller>>

\* Fault: the successor takes over and the old deferred is never completed.
ReplaceSilently(f, exit, d, g) ==
  LET e == fiber[f].entry
      k == fiber[f].key
  IN /\ active' = [active EXCEPT ![k] = d]
     /\ entry' = [entry EXCEPT ![e] = FreeEntry, ![d] = MakeEntry(g)]
     /\ fiber' = [fiber EXCEPT ![f] = FreeFiber, ![g] = Started(k, d, FALSE)]
     /\ UNCHANGED caller

\* settle() with a wake pending that the entry may not serve: a successor entry.
Replace(f, exit, d, g) ==
  LET e == fiber[f].entry
      k == fiber[f].key
  IN /\ active' = [active EXCEPT ![k] = d]
     /\ entry' = [entry EXCEPT ![e] = FreeEntry, ![d] = MakeEntry(g)]
     /\ fiber' = [fiber EXCEPT ![f] = FreeFiber, ![g] = Started(k, d, FALSE)]
     /\ caller' = Deliver(e, exit)

\* settle() with nothing pending: the key leaves the map.
Remove(f, exit) ==
  LET e == fiber[f].entry
      k == fiber[f].key
  IN /\ active' = [active EXCEPT ![k] = None]
     /\ entry' = [entry EXCEPT ![e] = FreeEntry]
     /\ fiber' = [fiber EXCEPT ![f] = FreeFiber]
     /\ caller' = Deliver(e, exit)

\* Fault: a pending wake is honoured only after a success.
SettleDropsWake(f, exit) ==
  LET e == fiber[f].entry
  IN \/ /\ entry[e].pendingWake /\ exit = "ok"
        /\ \E g \in FreeFibers : Restart(f, g)
     \/ /\ ~entry[e].pendingWake \/ exit # "ok"
        /\ Remove(f, exit)

\* Fault: the restart does not ask whether the entry is stopping.
SettleIgnoresStop(f, exit) ==
  LET e == fiber[f].entry
  IN \/ /\ entry[e].pendingWake /\ exit = "ok"
        /\ \E g \in FreeFibers : Restart(f, g)
     \/ /\ entry[e].pendingWake /\ exit # "ok"
        /\ \E g \in FreeFibers, d \in FreeEntries : Replace(f, exit, d, g)
     \/ /\ ~entry[e].pendingWake
        /\ Remove(f, exit)

\* settle(): the three ways a drain's exit leaves its entry.
Settle(f, exit) ==
  LET e == fiber[f].entry
      again == exit = "ok" /\ ~entry[e].stopping
  IN \/ /\ entry[e].pendingWake /\ again
        /\ \E g \in FreeFibers : Restart(f, g)
     \/ /\ entry[e].pendingWake /\ ~again
        /\ \E g \in FreeFibers, d \in FreeEntries : Replace(f, exit, d, g)
     \/ /\ ~entry[e].pendingWake
        /\ Remove(f, exit)

------------------------------------------------------------------------------
\* The fiber enters options.drain.
Begin(f) ==
  /\ fiber[f].status = "queued"
  /\ ~fiber[f].interrupted
  /\ fiber' = [fiber EXCEPT ![f].status = "draining"]
  /\ owed' = [owed EXCEPT ![fiber[f].key] = FALSE]
  /\ UNCHANGED <<active, entry, caller, attached>>

\* The drain returns or fails; after an interrupt its cleanup may also end it
\* as interrupted. onExit runs settle() before the fiber ends.
End(f, exit) ==
  /\ fiber[f].status = "draining"
  /\ exit = "interrupted" => fiber[f].interrupted
  /\ Settle(f, exit)
  /\ UNCHANGED <<attached, owed>>

\* An interrupt that arrives before the drain began still runs onExit.
Cancel(f) ==
  /\ fiber[f].status = "queued"
  /\ fiber[f].interrupted
  /\ Settle(f, "interrupted")
  /\ UNCHANGED <<attached, owed>>

Waiting(c) == caller[c].status \in {"joined", "awaitStop", "rerun"}

\* run(): join the active entry, await a stopping one, or start with force.
Run(c, k) ==
  /\ \/ ~Waiting(c)
     \/ caller[c].status = "rerun" /\ caller[c].key = k
  /\ LET late == active[k] # None /\ entry[active[k]].stopping
         join(status, e) ==
           caller' = [caller EXCEPT ![c] =
             [status |-> status, key |-> k, entry |-> e, exit |-> "none"]]
     IN \/ /\ active[k] # None
           /\ join(IF late THEN "awaitStop" ELSE "joined", active[k])
           /\ UNCHANGED <<active, entry, fiber>>
        \/ \E e \in FreeEntries, f \in FreeFibers :
             Launch(k, e, f, TRUE) /\ join("joined", e)
  /\ UNCHANGED <<attached, owed>>

\* Interrupting a waiter of run() leaves the execution alone.
Abandon(c) ==
  /\ Waiting(c)
  /\ caller' = [caller EXCEPT ![c] =
       [@ EXCEPT !.status = "returned", !.entry = None, !.exit = "abandoned"]]
  /\ UNCHANGED <<active, entry, fiber, attached, owed>>

\* wake(): one coalesced follow-up, or a drain for an idle key.
Wake(k) ==
  /\ \/ /\ active[k] # None
        /\ entry' = [entry EXCEPT ![active[k]].pendingWake = TRUE]
        /\ UNCHANGED <<active, fiber>>
     \/ \E e \in FreeEntries, f \in FreeFibers : Launch(k, e, f, FALSE)
  /\ owed' = [owed EXCEPT ![k] = TRUE]
  /\ UNCHANGED <<caller, attached>>

\* adopt(): a forced drain unless one is under way.
Adopt(k) ==
  /\ \E e \in FreeEntries, f \in FreeFibers : Launch(k, e, f, TRUE)
  /\ UNCHANGED <<caller, attached, owed>>

\* Fault: interrupt() leaves the pending wake in place.
InterruptKeepsWake(k) ==
  /\ active[k] # None
  /\ LET e == active[k]
         f == entry[e].owner
     IN /\ f # None
        /\ entry' = [entry EXCEPT ![e].stopping = TRUE]
        /\ fiber' = [fiber EXCEPT ![f].interrupted = TRUE]
  /\ owed' = [owed EXCEPT ![k] = FALSE]
  /\ UNCHANGED <<active, caller, attached>>

\* interrupt(): mark, forget the pending wake, interrupt the owner fiber.
Interrupt(k) ==
  /\ active[k] # None
  /\ LET e == active[k]
         f == entry[e].owner
     IN /\ f # None
        /\ entry' = [entry EXCEPT ![e] = [owner |-> f, pendingWake |-> FALSE, stopping |-> TRUE]]
        /\ fiber' = [fiber EXCEPT ![f].interrupted = TRUE]
  /\ owed' = [owed EXCEPT ![k] = FALSE]
  /\ UNCHANGED <<active, caller, attached>>

\* The relay the spawner calls: nothing happens until an executor attaches.
Attach == ~attached /\ attached' = TRUE /\ UNCHANGED <<active, entry, fiber, caller, owed>>
RelayWake(k) == attached /\ Wake(k)

FiberStep(f) == Begin(f) \/ Cancel(f) \/ (\E exit \in Exits : End(f, exit))

Next ==
  \/ \E f \in Fibers : FiberStep(f)
  \/ \E c \in Callers, k \in Keys : Run(c, k)
  \/ \E c \in Callers : Abandon(c)
  \/ \E k \in Keys : Wake(k) \/ Adopt(k) \/ Interrupt(k) \/ RelayWake(k)
  \/ Attach

Spec == Init /\ [][Next]_vars

\* A fiber the runtime holds is run: it begins its drain, every drain returns
\* (the runner bounds each of its waits), and a caller that resumed looks again.
Fairness ==
  /\ \A f \in Fibers : WF_vars(FiberStep(f))
  /\ \A c \in Callers :
       WF_vars(caller[c].status = "rerun" /\ \E k \in Keys : Run(c, k))

FairSpec == Spec /\ Fairness

------------------------------------------------------------------------------
Live(f) == fiber[f].status # "free"

\* One drain per session: whatever the order of wakes, runs, stops and
\* settlements, no two fibers are ever bound to the same key.
Serialized ==
  \A f, g \in Fibers : Live(f) /\ Live(g) /\ fiber[f].key = fiber[g].key => f = g

\* A wake is never dropped: until a drain begins for it, or a stop forgets it,
\* the map holds an entry that has a drain still to begin or a follow-up pending.
WakeNotLost ==
  \A k \in Keys : owed[k] =>
    /\ active[k] # None
    /\ \/ entry[active[k]].pendingWake
       \/ fiber[entry[active[k]].owner].status = "queued"

\* A stop is final for its entry: no drain is about to begin under an entry that
\* is stopping unless it has itself been interrupted. Work that arrives after
\* the stop is served by a successor entry.
StopHolds ==
  \A f \in Fibers :
    fiber[f].status = "queued" /\ entry[fiber[f].entry].stopping => fiber[f].interrupted

\* A call of run() only ever waits on an entry that still has a fiber to
\* complete it, across restarts on the same entry and successor entries.
WaitersHaveADrain ==
  \A c \in Callers : caller[c].status \in {"joined", "awaitStop"} =>
    \E f \in Fibers : Live(f) /\ fiber[f].entry = caller[c].entry

\* Once nobody wakes or stops sessions any more, every run() returns: its
\* deferred is completed although settle() restarts drains on the same entry, and
\* a run() that awaits one stop after another gets its turn.
RunReturns ==
  <>[][~\E k \in Keys : Wake(k) \/ Interrupt(k)]_vars =>
    \A c \in Callers : Waiting(c) ~> ~Waiting(c)

\* What SessionDrains sees of a key: the owner fiber and the entry's two flags.
DrainPhase ==
  [k \in Keys |-> IF active[k] = None THEN "idle" ELSE fiber[entry[active[k]].owner].status]
DrainFollowUp == [k \in Keys |-> active[k] # None /\ entry[active[k]].pendingWake]
DrainStopping == [k \in Keys |-> active[k] # None /\ entry[active[k]].stopping]

Drains == INSTANCE SessionDrains WITH
  phase <- DrainPhase, followUp <- DrainFollowUp, stopping <- DrainStopping

\* The coordinator implements the serial drains of SessionDrains: entries,
\* fibers and waiters are implementation detail.
ImplementsDrains == Drains!FairSpec
==============================================================================
