------------------------- MODULE RunCoordinatorProofs -------------------------
(***************************************************************************)
(* Proofs about RunCoordinator for any number of keys, callers, entries    *)
(* and fibers. The strengthening is Ownership: a live fiber, the entry it  *)
(* captured and the map's binding of its key always point at each other.   *)
(***************************************************************************)
EXTENDS RunCoordinator, TLAPS

Owns(f) ==
  /\ fiber[f].key \in Keys
  /\ fiber[f].entry \in Entries
  /\ active[fiber[f].key] = fiber[f].entry
  /\ entry[fiber[f].entry].owner = f
  /\ fiber[f].interrupted = entry[fiber[f].entry].stopping

\* The fiber an entry names as its owner is live and works for that entry.
Owned(e) ==
  /\ entry[e].owner \in Fibers
  /\ Live(entry[e].owner)
  /\ fiber[entry[e].owner].entry = e

\* Map, entries and fibers agree, also while one entry replaces another.
Ownership ==
  /\ \A f \in Fibers : Live(f) => Owns(f)
  /\ \A e \in Entries : entry[e].owner # None => Owned(e)
  /\ \A k \in Keys : active[k] # None =>
       entry[active[k]].owner # None /\ fiber[entry[active[k]].owner].key = k

\* WakeNotLost as it is preserved: a queued drain that was interrupted does not
\* serve a wake, only the follow-up flag does.
OwedInv ==
  \A k \in Keys : owed[k] =>
    /\ active[k] # None
    /\ \/ entry[active[k]].pendingWake
       \/ /\ fiber[entry[active[k]].owner].status = "queued"
          /\ ~fiber[entry[active[k]].owner].interrupted

\* A waiter's entry has an owner.
WaitInv ==
  \A c \in Callers : caller[c].status \in {"joined", "awaitStop"} =>
    caller[c].entry \in Entries /\ entry[caller[c].entry].owner # None

IInv == TypeOK /\ Ownership /\ OwedInv /\ WaitInv

USE CoordinatorAssumption

\* The type invariant and the agreement of map, entries and fibers hold initially.
LEMMA InitIInv == Init => IInv
<1> SUFFICES ASSUME Init PROVE IInv
  OBVIOUS
<1>1. TypeOK
  <2>1. /\ FreeEntry \in EntryRec
        /\ FreeFiber \in FiberRec
        /\ IdleCaller \in CallerRec
    BY DEF FreeEntry, FreeFiber, IdleCaller, EntryRec, FiberRec, CallerRec
  <2> QED BY <2>1 DEF Init, TypeOK
<1>2. Ownership
  BY DEF Init, Ownership, Live, FreeEntry, FreeFiber
<1>3. OwedInv
  BY DEF Init, OwedInv
<1>4. WaitInv
  BY DEF Init, WaitInv, IdleCaller
<1> QED BY <1>1, <1>2, <1>3, <1>4 DEF IInv

\* What delivering an exit does to the callers: their type is kept, and nobody
\* waits on the settled entry any more.
LEMMA DeliverFacts ==
  ASSUME TypeOK, NEW e \in Entries, NEW exit \in Exits
  PROVE  /\ Deliver(e, exit) \in [Callers -> CallerRec]
         /\ \A c \in Callers : Deliver(e, exit)[c].status \in {"joined", "awaitStop"} =>
              /\ Deliver(e, exit)[c] = caller[c]
              /\ Deliver(e, exit)[c].entry # e
<1> DEFINE D == Deliver(e, exit)
<1>1. \A c \in Callers :
        /\ D[c] \in CallerRec
        /\ D[c].status \in {"joined", "awaitStop"} => D[c] = caller[c] /\ D[c].entry # e
  <2> TAKE c \in Callers
  <2>1. caller[c] \in CallerRec
    BY DEF TypeOK
  <2>2. D[c] = IF caller[c].entry # e \/ caller[c].status \notin {"joined", "awaitStop"} THEN caller[c]
               ELSE IF caller[c].status = "awaitStop" /\ exit = "ok"
                    THEN [caller[c] EXCEPT !.status = "rerun", !.entry = None]
                    ELSE [caller[c] EXCEPT !.status = "returned", !.entry = None, !.exit = exit]
    BY DEF Deliver
  <2> QED BY <2>1, <2>2 DEF CallerRec, Exits
<1>2. D = [c \in Callers |-> D[c]]
  BY DEF Deliver
<1> QED BY <1>1, <1>2

\* A new drain for an idle key keeps the agreement.
LEMMA LaunchIInv ==
  ASSUME TypeOK, Ownership, NEW k \in Keys, NEW e \in FreeEntries, NEW f \in FreeFibers,
         NEW force \in BOOLEAN, Launch(k, e, f, force)
  PROVE  /\ active' \in [Keys -> Entries \cup {None}]
         /\ entry' \in [Entries -> EntryRec]
         /\ fiber' \in [Fibers -> FiberRec]
         /\ Ownership'
         /\ \A d \in Entries : entry[d].owner # None => entry'[d] = entry[d]
         /\ \A j \in Keys \ {k} : active'[j] = active[j]
         /\ \A g \in Fibers : Live(g) => fiber'[g] = fiber[g]
         /\ active'[k] = e /\ entry'[e].owner = f
         /\ fiber'[f].status = "queued" /\ ~fiber'[f].interrupted
<1>0. /\ e \in Entries /\ entry[e].owner = None
      /\ f \in Fibers /\ ~Live(f)
      /\ active[k] = None
      /\ active' = [active EXCEPT ![k] = e]
      /\ entry' = [entry EXCEPT ![e] = MakeEntry(f)]
      /\ fiber' = [fiber EXCEPT ![f] = Started(k, e, force)]
  BY DEF Launch, FreeEntries, FreeFibers, Live
<1>1. MakeEntry(f) \in EntryRec /\ Started(k, e, force) \in FiberRec
  BY <1>0 DEF MakeEntry, Started, EntryRec, FiberRec
<1>2. /\ active' \in [Keys -> Entries \cup {None}]
      /\ entry' \in [Entries -> EntryRec]
      /\ fiber' \in [Fibers -> FiberRec]
  BY <1>0, <1>1 DEF TypeOK
<1>3. /\ \A d \in Entries \ {e} : entry'[d] = entry[d]
      /\ \A j \in Keys \ {k} : active'[j] = active[j]
      /\ \A g \in Fibers \ {f} : fiber'[g] = fiber[g]
      /\ active'[k] = e
      /\ entry'[e] = MakeEntry(f)
      /\ fiber'[f] = Started(k, e, force)
  BY <1>0 DEF TypeOK
<1>4. /\ entry'[e].owner = f /\ entry'[e].stopping = FALSE
      /\ fiber'[f].status = "queued" /\ fiber'[f].key = k /\ fiber'[f].entry = e
      /\ fiber'[f].interrupted = FALSE
  BY <1>3 DEF MakeEntry, Started
<1>5. ASSUME NEW g \in Fibers, Live(g)' PROVE Owns(g)'
  <2>1. CASE g = f
    BY <2>1, <1>0, <1>3, <1>4 DEF Owns
  <2>2. CASE g # f
    <3>1. fiber'[g] = fiber[g] /\ Owns(g)
      BY <2>2, <1>3, <1>5 DEF Ownership, Live
    <3>2. fiber[g].key # k /\ fiber[g].entry # e
      BY <3>1, <1>0 DEF Owns
    <3> QED BY <3>1, <3>2, <1>3 DEF Owns
  <2> QED BY <2>1, <2>2
<1>6. \A d \in Entries : entry'[d].owner # None => Owned(d)'
  BY <1>0, <1>3, <1>4 DEF Ownership, Owns, Owned, Live
<1>7. \A j \in Keys : active'[j] # None =>
        entry'[active'[j]].owner # None /\ fiber'[entry'[active'[j]].owner].key = j
  BY <1>0, <1>3, <1>4 DEF Ownership, Owns, Owned, Live, TypeOK
<1>8. Ownership'
  BY <1>5, <1>6, <1>7 DEF Ownership
<1> QED BY <1>0, <1>2, <1>3, <1>4, <1>8 DEF Live

\* Other keys, entries and fibers do not notice a settlement: a live fiber other
\* than f works for another key and another entry.
LEMMA OthersApart ==
  ASSUME TypeOK, Ownership, NEW f \in Fibers, Live(f)
  PROVE  /\ Owns(f)
         /\ \A g \in Fibers \ {f} : Live(g) =>
              Owns(g) /\ fiber[g].key # fiber[f].key /\ fiber[g].entry # fiber[f].entry
         /\ \A d \in Entries \ {fiber[f].entry} : entry[d].owner # None =>
              Owned(d) /\ entry[d].owner # f
         /\ \A j \in Keys \ {fiber[f].key} : active[j] # None =>
              active[j] \in Entries /\ active[j] # fiber[f].entry
<1>1. Owns(f)
  BY DEF Ownership
<1>2. \A g \in Fibers \ {f} : Live(g) =>
        Owns(g) /\ fiber[g].key # fiber[f].key /\ fiber[g].entry # fiber[f].entry
  BY <1>1 DEF Ownership, Owns
<1>3. \A d \in Entries \ {fiber[f].entry} : entry[d].owner # None =>
        Owned(d) /\ entry[d].owner # f
  BY <1>1 DEF Ownership, Owns, Owned
<1>4. \A j \in Keys \ {fiber[f].key} : active[j] # None =>
        active[j] \in Entries /\ active[j] # fiber[f].entry
  BY <1>1 DEF Ownership, Owns, TypeOK
<1> QED BY <1>1, <1>2, <1>3, <1>4

\* settle(), first branch: the entry keeps its place and gets a new owner.
LEMMA RestartIInv ==
  ASSUME IInv, NEW f \in Fibers, Live(f), NEW g \in FreeFibers, Restart(f, g),
         ~entry[fiber[f].entry].stopping, UNCHANGED <<attached, owed>>
  PROVE  IInv'
<1> DEFINE e == fiber[f].entry
           k == fiber[f].key
<1>0. TypeOK /\ Ownership /\ OwedInv /\ WaitInv
  BY DEF IInv
<1>a. /\ Owns(f)
      /\ \A h \in Fibers \ {f} : Live(h) => Owns(h) /\ fiber[h].key # k /\ fiber[h].entry # e
      /\ \A d \in Entries \ {e} : entry[d].owner # None => Owned(d) /\ entry[d].owner # f
      /\ \A j \in Keys \ {k} : active[j] # None => active[j] \in Entries /\ active[j] # e
  BY <1>0, OthersApart
<1>b. g \in Fibers /\ g # f /\ ~Live(g) /\ e \in Entries /\ k \in Keys /\ active[k] = e
  BY <1>a DEF FreeFibers, Live, Owns
<1>c. entry[e].stopping = FALSE
  BY <1>0, <1>b DEF TypeOK, EntryRec
<1>1. /\ entry' = [entry EXCEPT ![e] = [owner |-> g, pendingWake |-> FALSE, stopping |-> FALSE]]
      /\ fiber' = [fiber EXCEPT ![f] = FreeFiber, ![g] = Started(k, e, FALSE)]
      /\ active' = active /\ caller' = caller
  BY <1>c DEF Restart
<1>2. FreeFiber \in FiberRec /\ Started(k, e, FALSE) \in FiberRec
      /\ [owner |-> g, pendingWake |-> FALSE, stopping |-> FALSE] \in EntryRec
  BY <1>b DEF FreeFiber, Started, FiberRec, EntryRec
<1>3. TypeOK'
  BY <1>0, <1>1, <1>2 DEF TypeOK
<1>4. /\ \A d \in Entries \ {e} : entry'[d] = entry[d]
      /\ \A h \in Fibers \ {f, g} : fiber'[h] = fiber[h]
      /\ active' = active
      /\ entry'[e].owner = g /\ entry'[e].stopping = FALSE
      /\ fiber'[f].status = "free"
      /\ fiber'[g].status = "queued" /\ fiber'[g].key = k /\ fiber'[g].entry = e
      /\ fiber'[g].interrupted = FALSE
  BY <1>0, <1>1, <1>b DEF TypeOK, FreeFiber, Started
<1>5. Ownership'
  <2>1. ASSUME NEW h \in Fibers, Live(h)' PROVE Owns(h)'
    <3>1. CASE h = g
      BY <3>1, <1>1, <1>4, <1>b DEF Owns
    <3>2. CASE h # g
      <4>1. fiber'[h] = fiber[h] /\ Owns(h) /\ fiber[h].entry # e
        BY <3>2, <2>1, <1>4, <1>a DEF Live
      <4> QED BY <4>1, <1>1, <1>4 DEF Owns
    <3> QED BY <3>1, <3>2
  <2>2. ASSUME NEW d \in Entries, entry'[d].owner # None PROVE Owned(d)'
    <3>1. CASE d = e
      BY <3>1, <1>4, <1>b DEF Owned, Live
    <3>2. CASE d # e
      BY <3>2, <2>2, <1>4, <1>a, <1>b DEF Owned, Live
    <3> QED BY <3>1, <3>2
  <2>3. ASSUME NEW j \in Keys, active'[j] # None
        PROVE  entry'[active'[j]].owner # None /\ fiber'[entry'[active'[j]].owner].key = j
    <3>1. CASE j = k
      BY <3>1, <1>4, <1>b
    <3>2. CASE j # k
      <4>1. active[j] \in Entries /\ active[j] # e /\ entry[active[j]].owner # None
            /\ fiber[entry[active[j]].owner].key = j
        BY <3>2, <2>3, <1>1, <1>a, <1>0 DEF Ownership
      <4>2. Owned(active[j]) /\ entry[active[j]].owner # f /\ entry[active[j]].owner # g
        BY <4>1, <1>a, <1>b DEF Owned
      <4> QED BY <4>1, <4>2, <1>4 DEF Owned
    <3> QED BY <3>1, <3>2
  <2> QED BY <2>1, <2>2, <2>3 DEF Ownership
<1>6. OwedInv'
  <2> SUFFICES ASSUME NEW j \in Keys, owed[j]
               PROVE  /\ active'[j] # None
                      /\ \/ entry'[active'[j]].pendingWake
                         \/ /\ fiber'[entry'[active'[j]].owner].status = "queued"
                            /\ ~fiber'[entry'[active'[j]].owner].interrupted
    BY DEF OwedInv
  <2>1. CASE j = k
    BY <2>1, <1>4, <1>b
  <2>2. CASE j # k
    <3>1. active[j] \in Entries /\ active[j] # e /\ Owned(active[j])
          /\ entry[active[j]].owner # f /\ entry[active[j]].owner # g
      BY <2>2, <1>0, <1>a, <1>b DEF OwedInv, Ownership, Owned
    <3> QED BY <3>1, <1>0, <1>4 DEF OwedInv, Owned
  <2> QED BY <2>1, <2>2
<1>7. WaitInv'
  BY <1>0, <1>1, <1>4, <1>b DEF WaitInv
<1> QED BY <1>3, <1>5, <1>6, <1>7 DEF IInv

\* settle() with a pending wake it may not serve on this entry: the successor
\* takes the key over, the waiters of the old entry are released.
LEMMA ReplaceIInv ==
  ASSUME IInv, NEW f \in Fibers, Live(f), NEW exit \in Exits,
         NEW d \in FreeEntries, NEW g \in FreeFibers, Replace(f, exit, d, g),
         UNCHANGED <<attached, owed>>
  PROVE  IInv'
<1> DEFINE e == fiber[f].entry
           k == fiber[f].key
<1>0. TypeOK /\ Ownership /\ OwedInv /\ WaitInv
  BY DEF IInv
<1>a. /\ Owns(f)
      /\ \A h \in Fibers \ {f} : Live(h) => Owns(h) /\ fiber[h].key # k /\ fiber[h].entry # e
      /\ \A c \in Entries \ {e} : entry[c].owner # None => Owned(c) /\ entry[c].owner # f
      /\ \A j \in Keys \ {k} : active[j] # None => active[j] \in Entries /\ active[j] # e
  BY <1>0, OthersApart
<1>b. /\ g \in Fibers /\ g # f /\ ~Live(g)
      /\ e \in Entries /\ k \in Keys /\ active[k] = e /\ entry[e].owner = f
      /\ d \in Entries /\ d # e /\ entry[d].owner = None
  BY <1>a DEF FreeFibers, FreeEntries, Live, Owns
<1>1. /\ active' = [active EXCEPT ![k] = d]
      /\ entry' = [entry EXCEPT ![e] = FreeEntry, ![d] = MakeEntry(g)]
      /\ fiber' = [fiber EXCEPT ![f] = FreeFiber, ![g] = Started(k, d, FALSE)]
      /\ caller' = Deliver(e, exit)
  BY DEF Replace
<1>2. /\ FreeFiber \in FiberRec /\ Started(k, d, FALSE) \in FiberRec
      /\ FreeEntry \in EntryRec /\ MakeEntry(g) \in EntryRec
  BY <1>b DEF FreeFiber, Started, FiberRec, EntryRec, FreeEntry, MakeEntry
<1>3. TypeOK'
  <2>1. caller' \in [Callers -> CallerRec]
    BY <1>0, <1>1, <1>b, DeliverFacts
  <2> QED BY <2>1, <1>0, <1>1, <1>2, <1>b DEF TypeOK
<1>4. /\ \A c \in Entries \ {e, d} : entry'[c] = entry[c]
      /\ \A h \in Fibers \ {f, g} : fiber'[h] = fiber[h]
      /\ \A j \in Keys \ {k} : active'[j] = active[j]
      /\ active'[k] = d
      /\ entry'[e].owner = None
      /\ entry'[d].owner = g /\ entry'[d].stopping = FALSE
      /\ fiber'[f].status = "free"
      /\ fiber'[g].status = "queued" /\ fiber'[g].key = k /\ fiber'[g].entry = d
      /\ fiber'[g].interrupted = FALSE
  BY <1>0, <1>1, <1>b DEF TypeOK, FreeFiber, Started, FreeEntry, MakeEntry
<1>5. Ownership'
  <2>1. ASSUME NEW h \in Fibers, Live(h)' PROVE Owns(h)'
    <3>1. CASE h = g
      BY <3>1, <1>4, <1>b DEF Owns
    <3>2. CASE h # g
      <4>1. fiber'[h] = fiber[h] /\ Owns(h) /\ fiber[h].entry # e /\ fiber[h].key # k
        BY <3>2, <2>1, <1>4, <1>a DEF Live
      <4>2. fiber[h].entry # d
        BY <4>1, <1>b DEF Owns
      <4> QED BY <4>1, <4>2, <1>4 DEF Owns
    <3> QED BY <3>1, <3>2
  <2>2. ASSUME NEW c \in Entries, entry'[c].owner # None PROVE Owned(c)'
    <3>1. CASE c = d
      BY <3>1, <1>4, <1>b DEF Owned, Live
    <3>2. CASE c # d
      <4>1. c # e /\ entry'[c] = entry[c] /\ Owned(c) /\ entry[c].owner # f
        BY <3>2, <2>2, <1>4, <1>a
      <4>2. entry[c].owner # g
        BY <4>1, <1>b DEF Owned
      <4> QED BY <4>1, <4>2, <1>4 DEF Owned, Live
    <3> QED BY <3>1, <3>2
  <2>3. ASSUME NEW j \in Keys, active'[j] # None
        PROVE  entry'[active'[j]].owner # None /\ fiber'[entry'[active'[j]].owner].key = j
    <3>1. CASE j = k
      BY <3>1, <1>4, <1>b
    <3>2. CASE j # k
      <4>1. active'[j] = active[j] /\ active[j] \in Entries /\ active[j] # e
            /\ entry[active[j]].owner # None /\ fiber[entry[active[j]].owner].key = j
        BY <3>2, <2>3, <1>4, <1>a, <1>0 DEF Ownership
      <4>2. active[j] # d /\ Owned(active[j])
            /\ entry[active[j]].owner # f /\ entry[active[j]].owner # g
        BY <4>1, <1>a, <1>b DEF Owned
      <4> QED BY <4>1, <4>2, <1>4 DEF Owned
    <3> QED BY <3>1, <3>2
  <2> QED BY <2>1, <2>2, <2>3 DEF Ownership
<1>6. OwedInv'
  <2> SUFFICES ASSUME NEW j \in Keys, owed[j]
               PROVE  /\ active'[j] # None
                      /\ \/ entry'[active'[j]].pendingWake
                         \/ /\ fiber'[entry'[active'[j]].owner].status = "queued"
                            /\ ~fiber'[entry'[active'[j]].owner].interrupted
    BY DEF OwedInv
  <2>1. CASE j = k
    BY <2>1, <1>4, <1>b
  <2>2. CASE j # k
    <3>1. active'[j] = active[j] /\ active[j] \in Entries /\ active[j] # e /\ Owned(active[j])
          /\ entry[active[j]].owner # f
      BY <2>2, <1>0, <1>4, <1>a DEF OwedInv, Ownership
    <3>2. active[j] # d /\ entry[active[j]].owner # g
      BY <3>1, <1>b DEF Owned
    <3> QED BY <3>1, <3>2, <1>0, <1>4 DEF OwedInv, Owned
  <2> QED BY <2>1, <2>2
<1>7. WaitInv'
  <2> SUFFICES ASSUME NEW c \in Callers, caller'[c].status \in {"joined", "awaitStop"}
               PROVE  caller'[c].entry \in Entries /\ entry'[caller'[c].entry].owner # None
    BY DEF WaitInv
  <2>1. caller'[c] = caller[c] /\ caller[c].entry # e
    BY <1>0, <1>1, <1>b, DeliverFacts
  <2>2. caller[c].entry \in Entries /\ entry[caller[c].entry].owner # None
    BY <2>1, <1>0 DEF WaitInv
  <2> QED BY <2>1, <2>2, <1>4, <1>b
<1> QED BY <1>3, <1>5, <1>6, <1>7 DEF IInv

\* settle() with nothing pending: the key leaves the map with its entry and fiber.
LEMMA RemoveIInv ==
  ASSUME IInv, NEW f \in Fibers, Live(f), NEW exit \in Exits, Remove(f, exit),
         ~owed[fiber[f].key], UNCHANGED <<attached, owed>>
  PROVE  IInv'
<1> DEFINE e == fiber[f].entry
           k == fiber[f].key
<1>0. TypeOK /\ Ownership /\ OwedInv /\ WaitInv
  BY DEF IInv
<1>a. /\ Owns(f)
      /\ \A h \in Fibers \ {f} : Live(h) => Owns(h) /\ fiber[h].key # k /\ fiber[h].entry # e
      /\ \A c \in Entries \ {e} : entry[c].owner # None => Owned(c) /\ entry[c].owner # f
      /\ \A j \in Keys \ {k} : active[j] # None => active[j] \in Entries /\ active[j] # e
  BY <1>0, OthersApart
<1>b. e \in Entries /\ k \in Keys /\ active[k] = e /\ entry[e].owner = f
  BY <1>a DEF Owns
<1>1. /\ active' = [active EXCEPT ![k] = None]
      /\ entry' = [entry EXCEPT ![e] = FreeEntry]
      /\ fiber' = [fiber EXCEPT ![f] = FreeFiber]
      /\ caller' = Deliver(e, exit)
  BY DEF Remove
<1>2. FreeFiber \in FiberRec /\ FreeEntry \in EntryRec
  BY DEF FreeFiber, FiberRec, EntryRec, FreeEntry
<1>3. TypeOK'
  <2>1. caller' \in [Callers -> CallerRec]
    BY <1>0, <1>1, <1>b, DeliverFacts
  <2> QED BY <2>1, <1>0, <1>1, <1>2, <1>b DEF TypeOK
<1>4. /\ \A c \in Entries \ {e} : entry'[c] = entry[c]
      /\ \A h \in Fibers \ {f} : fiber'[h] = fiber[h]
      /\ \A j \in Keys \ {k} : active'[j] = active[j]
      /\ active'[k] = None
      /\ entry'[e].owner = None
      /\ fiber'[f].status = "free"
  BY <1>0, <1>1, <1>b DEF TypeOK, FreeFiber, FreeEntry
<1>5. Ownership'
  <2>1. ASSUME NEW h \in Fibers, Live(h)' PROVE Owns(h)'
    <3>1. h # f /\ fiber'[h] = fiber[h] /\ Owns(h) /\ fiber[h].entry # e /\ fiber[h].key # k
      BY <2>1, <1>4, <1>a DEF Live
    <3> QED BY <3>1, <1>4 DEF Owns
  <2>2. ASSUME NEW c \in Entries, entry'[c].owner # None PROVE Owned(c)'
    <3>1. c # e /\ entry'[c] = entry[c] /\ Owned(c) /\ entry[c].owner # f
      BY <2>2, <1>4, <1>a
    <3> QED BY <3>1, <1>4 DEF Owned, Live
  <2>3. ASSUME NEW j \in Keys, active'[j] # None
        PROVE  entry'[active'[j]].owner # None /\ fiber'[entry'[active'[j]].owner].key = j
    <3>1. j # k /\ active'[j] = active[j] /\ active[j] \in Entries /\ active[j] # e
          /\ entry[active[j]].owner # None /\ fiber[entry[active[j]].owner].key = j
      BY <2>3, <1>4, <1>a, <1>0 DEF Ownership
    <3>2. Owned(active[j]) /\ entry[active[j]].owner # f
      BY <3>1, <1>a
    <3> QED BY <3>1, <3>2, <1>4 DEF Owned
  <2> QED BY <2>1, <2>2, <2>3 DEF Ownership
<1>6. OwedInv'
  <2> SUFFICES ASSUME NEW j \in Keys, owed[j]
               PROVE  /\ active'[j] # None
                      /\ \/ entry'[active'[j]].pendingWake
                         \/ /\ fiber'[entry'[active'[j]].owner].status = "queued"
                            /\ ~fiber'[entry'[active'[j]].owner].interrupted
    BY DEF OwedInv
  <2>1. j # k
    OBVIOUS
  <2>2. active'[j] = active[j] /\ active[j] \in Entries /\ active[j] # e /\ Owned(active[j])
        /\ entry[active[j]].owner # f
    BY <2>1, <1>0, <1>4, <1>a DEF OwedInv, Ownership
  <2> QED BY <2>2, <1>0, <1>4 DEF OwedInv, Owned
<1>7. WaitInv'
  <2> SUFFICES ASSUME NEW c \in Callers, caller'[c].status \in {"joined", "awaitStop"}
               PROVE  caller'[c].entry \in Entries /\ entry'[caller'[c].entry].owner # None
    BY DEF WaitInv
  <2>1. caller'[c] = caller[c] /\ caller[c].entry # e
    BY <1>0, <1>1, <1>b, DeliverFacts
  <2>2. caller[c].entry \in Entries /\ entry[caller[c].entry].owner # None
    BY <2>1, <1>0 DEF WaitInv
  <2> QED BY <2>1, <2>2, <1>4
<1> QED BY <1>3, <1>5, <1>6, <1>7 DEF IInv

\* settle() as a whole, for a fiber that no unserved wake still relies on.
LEMMA SettleIInv ==
  ASSUME IInv, NEW f \in Fibers, Live(f), NEW exit \in Exits, Settle(f, exit),
         fiber[f].status = "draining" \/ fiber[f].interrupted,
         UNCHANGED <<attached, owed>>
  PROVE  IInv'
<1>0. TypeOK /\ Ownership /\ OwedInv
  BY DEF IInv
<1>1. Owns(f)
  BY <1>0 DEF Ownership
<1>2. CASE entry[fiber[f].entry].pendingWake /\ exit = "ok" /\ ~entry[fiber[f].entry].stopping
  BY <1>2, RestartIInv DEF Settle
<1>3. CASE entry[fiber[f].entry].pendingWake /\ ~(exit = "ok" /\ ~entry[fiber[f].entry].stopping)
  BY <1>3, ReplaceIInv DEF Settle
<1>4. CASE ~entry[fiber[f].entry].pendingWake
  <2>1. ~owed[fiber[f].key]
    BY <1>0, <1>1, <1>4 DEF OwedInv, Owns
  <2> QED BY <1>4, <2>1, RemoveIInv DEF Settle
<1> QED BY <1>2, <1>3, <1>4

\* Entering the drain serves the wake.
LEMMA BeginIInv ==
  ASSUME IInv, NEW f \in Fibers, Begin(f)
  PROVE  IInv'
<1> DEFINE k == fiber[f].key
<1>0. TypeOK /\ Ownership /\ OwedInv /\ WaitInv
  BY DEF IInv
<1>1. Live(f) /\ Owns(f) /\ fiber[f] \in FiberRec
  BY <1>0 DEF Begin, Ownership, Live, TypeOK
<1>2. /\ active' = active /\ entry' = entry /\ caller' = caller /\ attached' = attached
      /\ fiber' = [fiber EXCEPT ![f].status = "draining"]
      /\ owed' = [owed EXCEPT ![k] = FALSE]
  BY DEF Begin
<1>3. /\ \A h \in Fibers \ {f} : fiber'[h] = fiber[h]
      /\ fiber'[f] = [fiber[f] EXCEPT !.status = "draining"]
  BY <1>0, <1>2 DEF TypeOK
<1>4. /\ fiber'[f] \in FiberRec
      /\ fiber'[f].status = "draining" /\ fiber'[f].key = k /\ fiber'[f].entry = fiber[f].entry
      /\ fiber'[f].interrupted = fiber[f].interrupted
  BY <1>1, <1>3 DEF FiberRec
<1>5. TypeOK'
  <2>1. fiber' \in [Fibers -> FiberRec]
    BY <1>0, <1>2, <1>3, <1>4 DEF TypeOK
  <2> QED BY <2>1, <1>0, <1>1, <1>2 DEF TypeOK, Owns
<1>6. \A h \in Fibers : /\ Live(h)' <=> Live(h)
                        /\ fiber'[h].key = fiber[h].key
                        /\ fiber'[h].entry = fiber[h].entry
                        /\ fiber'[h].interrupted = fiber[h].interrupted
  BY <1>1, <1>3, <1>4 DEF Live
<1>7. Ownership'
  <2>1. \A h \in Fibers : Live(h)' => Owns(h)'
    BY <1>0, <1>2, <1>6 DEF Ownership, Owns
  <2>2. \A d \in Entries : entry'[d].owner # None => Owned(d)'
    BY <1>0, <1>2, <1>6 DEF Ownership, Owned
  <2>3. \A j \in Keys : active'[j] # None =>
          entry'[active'[j]].owner # None /\ fiber'[entry'[active'[j]].owner].key = j
    BY <1>0, <1>2, <1>6 DEF Ownership, Owned, TypeOK
  <2> QED BY <2>1, <2>2, <2>3 DEF Ownership
<1>8. OwedInv'
  <2> SUFFICES ASSUME NEW j \in Keys, owed'[j]
               PROVE  /\ active[j] # None
                      /\ \/ entry[active[j]].pendingWake
                         \/ /\ fiber'[entry[active[j]].owner].status = "queued"
                            /\ ~fiber'[entry[active[j]].owner].interrupted
    BY <1>2 DEF OwedInv
  <2>1. owed[j] /\ j # k
    BY <1>0, <1>1, <1>2 DEF TypeOK, Owns
  <2>2. active[j] # None /\ Owned(active[j]) /\ entry[active[j]].owner # f
    BY <2>1, <1>0, <1>1 DEF OwedInv, Ownership, Owned, TypeOK
  <2> QED BY <2>1, <2>2, <1>0, <1>3 DEF OwedInv, Owned
<1>9. WaitInv'
  BY <1>0, <1>2 DEF WaitInv
<1> QED BY <1>5, <1>7, <1>8, <1>9 DEF IInv

\* A stop marks entry and owner together and forgets the pending wake.
LEMMA InterruptIInv ==
  ASSUME IInv, NEW k \in Keys, Interrupt(k)
  PROVE  IInv'
<1> DEFINE e == active[k]
           f == entry[e].owner
<1>0. TypeOK /\ Ownership /\ OwedInv /\ WaitInv
  BY DEF IInv
<1>1. /\ e \in Entries /\ f \in Fibers /\ Live(f) /\ Owns(f) /\ fiber[f] \in FiberRec
      /\ fiber[f].entry = e /\ fiber[f].key = k
  BY <1>0 DEF Interrupt, Ownership, Owned, TypeOK
<1>2. /\ active' = active /\ caller' = caller /\ attached' = attached
      /\ entry' = [entry EXCEPT ![e] = [owner |-> f, pendingWake |-> FALSE, stopping |-> TRUE]]
      /\ fiber' = [fiber EXCEPT ![f].interrupted = TRUE]
      /\ owed' = [owed EXCEPT ![k] = FALSE]
  BY DEF Interrupt
<1>3. /\ \A h \in Fibers \ {f} : fiber'[h] = fiber[h]
      /\ fiber'[f] = [fiber[f] EXCEPT !.interrupted = TRUE]
      /\ \A d \in Entries \ {e} : entry'[d] = entry[d]
      /\ entry'[e] = [owner |-> f, pendingWake |-> FALSE, stopping |-> TRUE]
  BY <1>0, <1>1, <1>2 DEF TypeOK
<1>4. /\ fiber'[f] \in FiberRec /\ entry'[e] \in EntryRec
      /\ fiber'[f].status = fiber[f].status /\ fiber'[f].key = k /\ fiber'[f].entry = e
      /\ fiber'[f].interrupted = TRUE
      /\ entry'[e].owner = f /\ entry'[e].stopping = TRUE
  <2>1. /\ fiber'[f] \in FiberRec
        /\ fiber'[f].status = fiber[f].status /\ fiber'[f].key = fiber[f].key
        /\ fiber'[f].entry = fiber[f].entry /\ fiber'[f].interrupted = TRUE
    BY <1>1, <1>3 DEF FiberRec
  <2>2. entry'[e] \in EntryRec /\ entry'[e].owner = f /\ entry'[e].stopping = TRUE
    BY <1>1, <1>3 DEF EntryRec
  <2> QED BY <2>1, <2>2, <1>1
<1>5. TypeOK'
  <2>1. fiber' \in [Fibers -> FiberRec] /\ entry' \in [Entries -> EntryRec]
    BY <1>0, <1>2, <1>3, <1>4 DEF TypeOK
  <2> QED BY <2>1, <1>0, <1>2 DEF TypeOK
<1>6. /\ \A h \in Fibers : /\ Live(h)' <=> Live(h)
                           /\ fiber'[h].key = fiber[h].key
                           /\ fiber'[h].entry = fiber[h].entry
      /\ \A d \in Entries : entry'[d].owner = entry[d].owner
  BY <1>1, <1>3, <1>4 DEF Live
<1>7. Ownership'
  <2>1. ASSUME NEW h \in Fibers, Live(h)' PROVE Owns(h)'
    <3>1. CASE h = f
      BY <3>1, <1>1, <1>2, <1>4 DEF Owns
    <3>2. CASE h # f
      <4>1. Owns(h) /\ fiber[h].entry # e
        BY <3>2, <2>1, <1>0, <1>1, <1>6 DEF Ownership, Owns
      <4> QED BY <4>1, <3>2, <1>2, <1>3 DEF Owns
    <3> QED BY <3>1, <3>2
  <2>2. \A d \in Entries : entry'[d].owner # None => Owned(d)'
    BY <1>0, <1>6 DEF Ownership, Owned
  <2>3. \A j \in Keys : active'[j] # None =>
          entry'[active'[j]].owner # None /\ fiber'[entry'[active'[j]].owner].key = j
    BY <1>0, <1>2, <1>6 DEF Ownership, Owned, TypeOK
  <2> QED BY <2>1, <2>2, <2>3 DEF Ownership
<1>8. OwedInv'
  <2> SUFFICES ASSUME NEW j \in Keys, owed'[j]
               PROVE  /\ active[j] # None
                      /\ \/ entry'[active[j]].pendingWake
                         \/ /\ fiber'[entry'[active[j]].owner].status = "queued"
                            /\ ~fiber'[entry'[active[j]].owner].interrupted
    BY <1>2 DEF OwedInv
  <2>1. owed[j] /\ j # k
    BY <1>0, <1>2 DEF TypeOK
  <2>2. active[j] \in Entries /\ Owned(active[j]) /\ entry[active[j]].owner # f /\ active[j] # e
    BY <2>1, <1>0, <1>1 DEF OwedInv, Ownership, Owned, TypeOK
  <2> QED BY <2>1, <2>2, <1>0, <1>3 DEF OwedInv, Owned
<1>9. WaitInv'
  BY <1>0, <1>2, <1>6 DEF WaitInv
<1> QED BY <1>5, <1>7, <1>8, <1>9 DEF IInv

\* A new drain, seen by the parts of the invariant that Launch leaves alone.
LEMMA LaunchKeeps ==
  ASSUME TypeOK, Ownership, OwedInv, WaitInv,
         NEW k \in Keys, NEW e \in FreeEntries, NEW f \in FreeFibers,
         NEW force \in BOOLEAN, Launch(k, e, f, force)
  PROVE  /\ \A j \in Keys : (owed[j] \/ j = k) =>
              /\ active'[j] # None
              /\ \/ entry'[active'[j]].pendingWake
                 \/ /\ fiber'[entry'[active'[j]].owner].status = "queued"
                    /\ ~fiber'[entry'[active'[j]].owner].interrupted
         /\ \A d \in Entries : entry[d].owner # None => entry'[d].owner # None
         /\ e \in Entries /\ active'[k] = e /\ entry'[e].owner # None
<1>1. /\ \A d \in Entries : entry[d].owner # None => entry'[d] = entry[d]
      /\ \A j \in Keys \ {k} : active'[j] = active[j]
      /\ \A g \in Fibers : Live(g) => fiber'[g] = fiber[g]
      /\ active'[k] = e /\ entry'[e].owner = f
      /\ fiber'[f].status = "queued" /\ ~fiber'[f].interrupted
  BY LaunchIInv
<1>2. e \in Entries /\ f \in Fibers
  BY DEF FreeEntries, FreeFibers
<1>3. ASSUME NEW j \in Keys, owed[j], j # k
      PROVE  /\ active'[j] # None
             /\ \/ entry'[active'[j]].pendingWake
                \/ /\ fiber'[entry'[active'[j]].owner].status = "queued"
                   /\ ~fiber'[entry'[active'[j]].owner].interrupted
  <2>1. active'[j] = active[j] /\ active[j] \in Entries /\ entry[active[j]].owner # None
        /\ Owned(active[j])
    BY <1>1, <1>3 DEF OwedInv, Ownership, TypeOK
  <2> QED BY <2>1, <1>1, <1>3 DEF OwedInv, Owned
<1> QED BY <1>1, <1>2, <1>3

\* wake(): the follow-up flag of a live entry, or a new drain.
LEMMA WakeIInv ==
  ASSUME IInv, NEW k \in Keys, Wake(k)
  PROVE  IInv'
<1>0. TypeOK /\ Ownership /\ OwedInv /\ WaitInv
  BY DEF IInv
<1>1. caller' = caller /\ attached' = attached /\ owed' = [owed EXCEPT ![k] = TRUE]
  BY DEF Wake
<1>2. CASE /\ active[k] # None
           /\ entry' = [entry EXCEPT ![active[k]].pendingWake = TRUE]
           /\ UNCHANGED <<active, fiber>>
  <2> DEFINE e == active[k]
  <2>1. e \in Entries /\ entry[e] \in EntryRec
    BY <1>0, <1>2 DEF TypeOK
  <2>2. /\ \A d \in Entries \ {e} : entry'[d] = entry[d]
        /\ entry'[e] = [entry[e] EXCEPT !.pendingWake = TRUE]
    BY <1>0, <1>2, <2>1 DEF TypeOK
  <2>3. /\ entry'[e] \in EntryRec /\ entry'[e].owner = entry[e].owner
        /\ entry'[e].stopping = entry[e].stopping /\ entry'[e].pendingWake = TRUE
    BY <2>1, <2>2 DEF EntryRec
  <2>4. \A d \in Entries : entry'[d].owner = entry[d].owner /\ entry'[d].stopping = entry[d].stopping
    BY <2>2, <2>3
  <2>5. TypeOK'
    <3>1. entry' \in [Entries -> EntryRec]
      BY <1>0, <1>2, <2>2, <2>3 DEF TypeOK
    <3> QED BY <3>1, <1>0, <1>1, <1>2 DEF TypeOK
  <2>6. Ownership'
    <3>1. \A h \in Fibers : Live(h)' => Owns(h)'
      BY <1>0, <1>2, <2>4 DEF Ownership, Owns, Live
    <3>2. \A d \in Entries : entry'[d].owner # None => Owned(d)'
      BY <1>0, <1>2, <2>4 DEF Ownership, Owned, Live
    <3>3. \A j \in Keys : active'[j] # None =>
            entry'[active'[j]].owner # None /\ fiber'[entry'[active'[j]].owner].key = j
      BY <1>0, <1>2, <2>4 DEF Ownership, TypeOK
    <3> QED BY <3>1, <3>2, <3>3 DEF Ownership
  <2>7. OwedInv'
    <3> SUFFICES ASSUME NEW j \in Keys, owed'[j]
                 PROVE  /\ active[j] # None
                        /\ \/ entry'[active[j]].pendingWake
                           \/ /\ fiber[entry'[active[j]].owner].status = "queued"
                              /\ ~fiber[entry'[active[j]].owner].interrupted
      BY <1>2 DEF OwedInv
    <3>1. CASE j = k
      BY <3>1, <1>2, <2>3
    <3>2. CASE j # k
      <4>1. owed[j] /\ active[j] # None /\ active[j] \in Entries
        BY <3>2, <1>0, <1>1 DEF TypeOK, OwedInv
      <4>2. CASE active[j] = e
        BY <4>1, <4>2, <2>3
      <4>3. CASE active[j] # e
        BY <4>1, <4>3, <2>2, <1>0 DEF OwedInv
      <4> QED BY <4>2, <4>3
    <3> QED BY <3>1, <3>2
  <2>8. WaitInv'
    BY <1>0, <1>1, <2>4 DEF WaitInv
  <2> QED BY <2>5, <2>6, <2>7, <2>8 DEF IInv
<1>3. CASE \E e \in FreeEntries, f \in FreeFibers : Launch(k, e, f, FALSE)
  <2>0. PICK e \in FreeEntries, f \in FreeFibers : Launch(k, e, f, FALSE)
    BY <1>3
  <2>1. /\ active' \in [Keys -> Entries \cup {None}]
        /\ entry' \in [Entries -> EntryRec]
        /\ fiber' \in [Fibers -> FiberRec]
        /\ Ownership'
    BY <1>0, <2>0, LaunchIInv
  <2>2. TypeOK'
    BY <1>0, <1>1, <2>1 DEF TypeOK
  <2>3. OwedInv'
    <3>1. \A j \in Keys : owed'[j] => owed[j] \/ j = k
      BY <1>0, <1>1 DEF TypeOK
    <3> QED BY <3>1, <1>0, <2>0, LaunchKeeps DEF OwedInv
  <2>4. WaitInv'
    BY <1>0, <1>1, <2>0, LaunchKeeps DEF WaitInv
  <2> QED BY <2>1, <2>2, <2>3, <2>4 DEF IInv
<1> QED BY <1>2, <1>3 DEF Wake

\* adopt(): a new drain or nothing.
LEMMA AdoptIInv ==
  ASSUME IInv, NEW k \in Keys, Adopt(k)
  PROVE  IInv'
<1>0. TypeOK /\ Ownership /\ OwedInv /\ WaitInv
  BY DEF IInv
<1>1. caller' = caller /\ attached' = attached /\ owed' = owed
  BY DEF Adopt
<1>2. PICK e \in FreeEntries, f \in FreeFibers : Launch(k, e, f, TRUE)
  BY DEF Adopt
<1>3. /\ active' \in [Keys -> Entries \cup {None}]
      /\ entry' \in [Entries -> EntryRec]
      /\ fiber' \in [Fibers -> FiberRec]
      /\ Ownership'
  BY <1>0, <1>2, LaunchIInv
<1>4. TypeOK'
  BY <1>0, <1>1, <1>3 DEF TypeOK
<1>5. OwedInv'
  BY <1>0, <1>1, <1>2, LaunchKeeps DEF OwedInv
<1>6. WaitInv'
  BY <1>0, <1>1, <1>2, LaunchKeeps DEF WaitInv
<1> QED BY <1>3, <1>4, <1>5, <1>6 DEF IInv

\* run(): the caller waits on the entry the map holds, or on a new one.
LEMMA RunIInv ==
  ASSUME IInv, NEW c \in Callers, NEW k \in Keys, Run(c, k)
  PROVE  IInv'
<1> DEFINE late == active[k] # None /\ entry[active[k]].stopping
           Joined(status, e) ==
             [status |-> status, key |-> k, entry |-> e, exit |-> "none"]
<1>0. TypeOK /\ Ownership /\ OwedInv /\ WaitInv
  BY DEF IInv
<1>1. attached' = attached /\ owed' = owed
  BY DEF Run
<1>2. late \in BOOLEAN
  OBVIOUS
<1>3. CASE /\ active[k] # None
           /\ caller' = [caller EXCEPT ![c] = Joined(IF late THEN "awaitStop" ELSE "joined", active[k])]
           /\ UNCHANGED <<active, entry, fiber>>
  <2>1. active[k] \in Entries /\ entry[active[k]].owner # None
    BY <1>0, <1>3 DEF TypeOK, Ownership
  <2>2. Joined(IF late THEN "awaitStop" ELSE "joined", active[k]) \in CallerRec
    BY <2>1, <1>2 DEF CallerRec
  <2>3. TypeOK'
    BY <1>0, <1>1, <1>3, <2>2 DEF TypeOK
  <2>4. Ownership' /\ OwedInv'
    BY <1>0, <1>1, <1>3 DEF Ownership, OwedInv, Owns, Owned, Live
  <2>5. WaitInv'
    BY <1>0, <1>3, <2>1 DEF WaitInv, TypeOK
  <2> QED BY <2>3, <2>4, <2>5 DEF IInv
<1>4. CASE \E e \in FreeEntries, f \in FreeFibers :
             /\ Launch(k, e, f, TRUE)
             /\ caller' = [caller EXCEPT ![c] = Joined("joined", e)]
  <2>0. PICK e \in FreeEntries, f \in FreeFibers :
          /\ Launch(k, e, f, TRUE)
          /\ caller' = [caller EXCEPT ![c] = Joined("joined", e)]
    BY <1>4
  <2>1. /\ active' \in [Keys -> Entries \cup {None}]
        /\ entry' \in [Entries -> EntryRec]
        /\ fiber' \in [Fibers -> FiberRec]
        /\ Ownership'
    BY <1>0, <2>0, LaunchIInv
  <2>2. /\ \A d \in Entries : entry[d].owner # None => entry'[d].owner # None
        /\ e \in Entries /\ active'[k] = e /\ entry'[e].owner # None
    BY <1>0, <2>0, LaunchKeeps
  <2>3. Joined("joined", e) \in CallerRec
    BY <2>2, <1>2 DEF CallerRec
  <2>4. TypeOK'
    BY <1>0, <1>1, <2>0, <2>1, <2>3 DEF TypeOK
  <2>5. OwedInv'
    BY <1>0, <1>1, <2>0, LaunchKeeps DEF OwedInv
  <2>6. WaitInv'
    BY <1>0, <2>0, <2>2 DEF WaitInv, TypeOK
  <2> QED BY <2>1, <2>4, <2>5, <2>6 DEF IInv
<1> QED BY <1>3, <1>4 DEF Run

\* A waiter that goes away releases nothing.
LEMMA AbandonIInv ==
  ASSUME IInv, NEW c \in Callers, Abandon(c)
  PROVE  IInv'
<1>0. TypeOK /\ Ownership /\ OwedInv /\ WaitInv
  BY DEF IInv
<1> DEFINE w == [caller[c] EXCEPT !.status = "returned", !.entry = None, !.exit = "abandoned"]
<1>1. caller' = [caller EXCEPT ![c] = w] /\ UNCHANGED <<active, entry, fiber, attached, owed>>
  BY DEF Abandon
<1>2. caller[c] \in CallerRec
  BY <1>0 DEF TypeOK
<1>3. w \in CallerRec /\ w.status = "returned"
  BY <1>2 DEF CallerRec
<1>4. TypeOK'
  BY <1>0, <1>1, <1>3 DEF TypeOK
<1>5. Ownership' /\ OwedInv'
  BY <1>0, <1>1 DEF Ownership, OwedInv, Owns, Owned, Live
<1>6. WaitInv'
  BY <1>0, <1>1, <1>3 DEF WaitInv, TypeOK
<1> QED BY <1>4, <1>5, <1>6 DEF IInv

\* Every step of the coordinator keeps the invariant.
LEMMA NextIInv == IInv /\ [Next]_vars => IInv'
<1> SUFFICES ASSUME IInv, [Next]_vars PROVE IInv'
  OBVIOUS
<1>1. ASSUME NEW f \in Fibers, Begin(f) PROVE IInv'
  BY <1>1, BeginIInv
<1>2. ASSUME NEW f \in Fibers, Cancel(f) PROVE IInv'
  BY <1>2, SettleIInv DEF Cancel, Live, Exits
<1>3. ASSUME NEW f \in Fibers, NEW exit \in Exits, End(f, exit) PROVE IInv'
  BY <1>3, SettleIInv DEF End, Live
<1>4. ASSUME NEW c \in Callers, NEW k \in Keys, Run(c, k) PROVE IInv'
  BY <1>4, RunIInv
<1>5. ASSUME NEW c \in Callers, Abandon(c) PROVE IInv'
  BY <1>5, AbandonIInv
<1>6. ASSUME NEW k \in Keys, Wake(k) PROVE IInv'
  BY <1>6, WakeIInv
<1>7. ASSUME NEW k \in Keys, Adopt(k) PROVE IInv'
  BY <1>7, AdoptIInv
<1>8. ASSUME NEW k \in Keys, Interrupt(k) PROVE IInv'
  BY <1>8, InterruptIInv
<1>9. CASE Attach
  BY <1>9 DEF Attach, IInv, TypeOK, Ownership, OwedInv, WaitInv, Owns, Owned, Live
<1>10. CASE UNCHANGED vars
  BY <1>10 DEF vars, IInv, TypeOK, Ownership, OwedInv, WaitInv, Owns, Owned, Live
<1> QED BY <1>1, <1>2, <1>3, <1>4, <1>5, <1>6, <1>7, <1>8, <1>9, <1>10
        DEF Next, FiberStep, RelayWake

\* The coordinator always satisfies the inductive invariant.
THEOREM Invariance == Spec => []IInv
BY InitIInv, NextIInv, PTL DEF Spec

\* The coordinator's map, entries, fibers and callers keep their types, whatever the sets.
THEOREM TypeCorrect == Spec => []TypeOK
<1>1. IInv => TypeOK
  BY DEF IInv
<1> QED BY <1>1, Invariance, PTL

\* run-coordinator.ts never has two fibers draining the same session, for any
\* number of sessions, callers, entries and fibers.
THEOREM SerializedHolds == Spec => []Serialized
<1>1. IInv => Serialized
  BY DEF IInv, Ownership, Owns, Serialized
<1> QED BY <1>1, Invariance, PTL

\* A wake that no stop has forgotten always has a drain still to begin.
THEOREM WakeNotLostHolds == Spec => []WakeNotLost
<1>1. IInv => WakeNotLost
  BY DEF IInv, OwedInv, WakeNotLost
<1> QED BY <1>1, Invariance, PTL

\* A stopping entry never gets a fresh drain.
THEOREM StopHoldsHolds == Spec => []StopHolds
<1>1. IInv => StopHolds
  BY DEF IInv, Ownership, Owns, Live, StopHolds
<1> QED BY <1>1, Invariance, PTL

\* A run() call always waits on an entry with a live fiber.
THEOREM WaitersHaveADrainHolds == Spec => []WaitersHaveADrain
<1>1. IInv => WaitersHaveADrain
  BY DEF IInv, Ownership, Owned, WaitInv, WaitersHaveADrain
<1> QED BY <1>1, Invariance, PTL

------------------------------------------------------------------------------
\* What the abstract state of a key is made of.
LEMMA SeenFacts ==
  ASSUME IInv, NEW k \in Keys
  PROVE  /\ active[k] = None =>
              DrainPhase[k] = "idle" /\ DrainFollowUp[k] = FALSE /\ DrainStopping[k] = FALSE
         /\ active[k] # None =>
              /\ DrainPhase[k] = fiber[entry[active[k]].owner].status
              /\ DrainPhase[k] # "idle"
              /\ DrainFollowUp[k] = entry[active[k]].pendingWake
              /\ DrainStopping[k] = entry[active[k]].stopping
              /\ DrainStopping[k] = fiber[entry[active[k]].owner].interrupted
<1>1. active[k] # None =>
        /\ active[k] \in Entries /\ entry[active[k]] \in EntryRec
        /\ entry[active[k]].owner \in Fibers
        /\ fiber[entry[active[k]].owner] \in FiberRec
        /\ fiber[entry[active[k]].owner].interrupted = entry[active[k]].stopping
  BY DEF IInv, TypeOK, Ownership, Owned, Owns
<1>2. DrainFollowUp[k] = (active[k] # None /\ entry[active[k]].pendingWake)
      /\ DrainStopping[k] = (active[k] # None /\ entry[active[k]].stopping)
      /\ DrainPhase[k] = IF active[k] = None THEN "idle" ELSE fiber[entry[active[k]].owner].status
  BY DEF DrainFollowUp, DrainStopping, DrainPhase
<1> QED BY <1>1, <1>2 DEF EntryRec, FiberRec

\* The three mapped functions change at key k only.
Only(k) == \A j \in Keys \ {k} :
  /\ DrainPhase'[j] = DrainPhase[j]
  /\ DrainFollowUp'[j] = DrainFollowUp[j]
  /\ DrainStopping'[j] = DrainStopping[j]

\* Two functions on S that agree except at k.
LEMMA ExceptAt ==
  ASSUME NEW S, NEW k \in S, NEW F, NEW G,
         F = [x \in S |-> F[x]], G = [x \in S |-> G[x]],
         \A j \in S \ {k} : G[j] = F[j]
  PROVE  G = [F EXCEPT ![k] = G[k]]
OBVIOUS

\* When only key k changes, each mapped function changes by one EXCEPT.
LEMMA OnlyEquations ==
  ASSUME NEW k \in Keys, Only(k)
  PROVE  /\ DrainPhase' = [DrainPhase EXCEPT ![k] = DrainPhase'[k]]
         /\ DrainFollowUp' = [DrainFollowUp EXCEPT ![k] = DrainFollowUp'[k]]
         /\ DrainStopping' = [DrainStopping EXCEPT ![k] = DrainStopping'[k]]
<1>1. DrainPhase = [j \in Keys |-> DrainPhase[j]] /\ DrainPhase' = [j \in Keys |-> DrainPhase'[j]]
  BY DEF DrainPhase
<1>2. DrainFollowUp = [j \in Keys |-> DrainFollowUp[j]]
      /\ DrainFollowUp' = [j \in Keys |-> DrainFollowUp'[j]]
  BY DEF DrainFollowUp
<1>3. DrainStopping = [j \in Keys |-> DrainStopping[j]]
      /\ DrainStopping' = [j \in Keys |-> DrainStopping'[j]]
  BY DEF DrainStopping
<1>4. DrainPhase' = [DrainPhase EXCEPT ![k] = DrainPhase'[k]]
  <2>1. \A j \in Keys \ {k} : DrainPhase'[j] = DrainPhase[j]
    BY DEF Only
  <2> QED BY ONLY k \in Keys, <1>1, <2>1, ExceptAt
<1>5. DrainFollowUp' = [DrainFollowUp EXCEPT ![k] = DrainFollowUp'[k]]
  <2>1. \A j \in Keys \ {k} : DrainFollowUp'[j] = DrainFollowUp[j]
    BY DEF Only
  <2> QED BY ONLY k \in Keys, <1>2, <2>1, ExceptAt
<1>6. DrainStopping' = [DrainStopping EXCEPT ![k] = DrainStopping'[k]]
  <2>1. \A j \in Keys \ {k} : DrainStopping'[j] = DrainStopping[j]
    BY DEF Only
  <2> QED BY ONLY k \in Keys, <1>3, <2>1, ExceptAt
<1> QED BY <1>4, <1>5, <1>6

\* Steps that leave the map, the entries and the fibers of other keys alone.
LEMMA OnlyHere ==
  ASSUME NEW k \in Keys,
         \A j \in Keys \ {k} :
           /\ active'[j] = active[j]
           /\ active[j] # None =>
                /\ entry'[active[j]] = entry[active[j]]
                /\ fiber'[entry[active[j]].owner] = fiber[entry[active[j]].owner]
  PROVE  Only(k)
<1> SUFFICES ASSUME NEW j \in Keys \ {k}
             PROVE  /\ DrainPhase'[j] = DrainPhase[j]
                    /\ DrainFollowUp'[j] = DrainFollowUp[j]
                    /\ DrainStopping'[j] = DrainStopping[j]
  BY DEF Only
<1> QED BY DEF DrainPhase, DrainFollowUp, DrainStopping

\* The entry and fiber of another key are not the ones of key k, nor free ones.
LEMMA OtherKeys ==
  ASSUME IInv, NEW k \in Keys, NEW j \in Keys \ {k}, active[j] # None
  PROVE  /\ active[j] \in Entries /\ active[j] \notin FreeEntries
         /\ entry[active[j]].owner \in Fibers /\ entry[active[j]].owner \notin FreeFibers
         /\ active[j] # active[k]
         /\ active[k] # None => entry[active[j]].owner # entry[active[k]].owner
         /\ \A f \in Fibers : Live(f) /\ fiber[f].key = k =>
              active[j] # fiber[f].entry /\ entry[active[j]].owner # f
BY DEF IInv, TypeOK, Ownership, Owned, Owns, Live, FreeEntries, FreeFibers

\* A new drain is a request.
LEMMA LaunchIsRequest ==
  ASSUME IInv, IInv', NEW k \in Keys, NEW e \in FreeEntries, NEW f \in FreeFibers,
         NEW force \in BOOLEAN, Launch(k, e, f, force)
  PROVE  Drains!Request(k)
<1>0. TypeOK /\ Ownership
  BY DEF IInv
<1>1. /\ e \in Entries /\ f \in Fibers /\ active[k] = None
      /\ \A d \in Entries \ {e} : entry'[d] = entry[d]
      /\ \A g \in Fibers \ {f} : fiber'[g] = fiber[g]
      /\ \A j \in Keys \ {k} : active'[j] = active[j]
      /\ active'[k] = e /\ entry'[e] = MakeEntry(f) /\ fiber'[f] = Started(k, e, force)
  BY <1>0 DEF TypeOK, Launch, FreeEntries, FreeFibers
<1>2. Only(k)
  BY <1>1, OtherKeys, OnlyHere
<1>3. DrainPhase[k] = "idle" /\ DrainFollowUp[k] = FALSE /\ DrainStopping[k] = FALSE
  BY <1>1, SeenFacts
<1>4. DrainPhase'[k] = "queued" /\ DrainFollowUp'[k] = FALSE /\ DrainStopping'[k] = FALSE
  <2>1. entry'[e].owner = f /\ entry'[e].pendingWake = FALSE /\ entry'[e].stopping = FALSE
        /\ fiber'[f].status = "queued"
    BY <1>1 DEF MakeEntry, Started
  <2> QED BY <2>1, <1>1 DEF DrainPhase, DrainFollowUp, DrainStopping
<1>5. /\ DrainPhase' = [DrainPhase EXCEPT ![k] = "queued"]
      /\ DrainFollowUp' = [DrainFollowUp EXCEPT ![k] = DrainFollowUp[k]]
      /\ DrainStopping' = [DrainStopping EXCEPT ![k] = DrainStopping[k]]
  BY <1>2, <1>3, <1>4, OnlyEquations
<1>6. DrainFollowUp' = DrainFollowUp /\ DrainStopping' = DrainStopping
  BY <1>5 DEF DrainFollowUp, DrainStopping
<1> QED BY <1>3, <1>5, <1>6 DEF Drains!Request

\* A wake of a busy key is remembered.
LEMMA WakeIsRemember ==
  ASSUME IInv, IInv', NEW k \in Keys, active[k] # None,
         entry' = [entry EXCEPT ![active[k]].pendingWake = TRUE], UNCHANGED <<active, fiber>>
  PROVE  Drains!Remember(k)
<1> DEFINE e == active[k]
<1>0. TypeOK
  BY DEF IInv
<1>1. e \in Entries /\ entry[e] \in EntryRec
  BY <1>0 DEF TypeOK
<1>2. /\ \A d \in Entries \ {e} : entry'[d] = entry[d]
      /\ entry'[e] = [entry[e] EXCEPT !.pendingWake = TRUE]
  BY <1>0, <1>1 DEF TypeOK
<1>3. /\ entry'[e].owner = entry[e].owner /\ entry'[e].stopping = entry[e].stopping
      /\ entry'[e].pendingWake = TRUE
  BY <1>1, <1>2 DEF EntryRec
<1>4. Only(k)
  BY <1>2, OtherKeys, OnlyHere
<1>5. /\ DrainPhase[k] # "idle" /\ DrainPhase'[k] = DrainPhase[k]
      /\ DrainFollowUp'[k] = TRUE /\ DrainStopping'[k] = DrainStopping[k]
  <2>1. DrainPhase[k] # "idle"
    BY SeenFacts
  <2>2. active' = active /\ fiber' = fiber
    OBVIOUS
  <2> HIDE DEF e
  <2>3. active[k] = e /\ e # None
    BY DEF e
  <2>4. DrainPhase'[k] = DrainPhase[k]
    BY <1>3, <2>2, <2>3 DEF DrainPhase
  <2>5. DrainFollowUp'[k] = TRUE
    BY <1>3, <2>2, <2>3 DEF DrainFollowUp
  <2>6. DrainStopping'[k] = DrainStopping[k]
    BY <1>3, <2>2, <2>3 DEF DrainStopping
  <2> QED BY <2>1, <2>4, <2>5, <2>6
<1>6. /\ DrainPhase' = [DrainPhase EXCEPT ![k] = DrainPhase[k]]
      /\ DrainFollowUp' = [DrainFollowUp EXCEPT ![k] = TRUE]
      /\ DrainStopping' = [DrainStopping EXCEPT ![k] = DrainStopping[k]]
  BY <1>4, <1>5, OnlyEquations
<1>7. DrainPhase' = DrainPhase /\ DrainStopping' = DrainStopping
  BY <1>6 DEF DrainPhase, DrainStopping
<1> QED BY <1>5, <1>6, <1>7 DEF Drains!Remember

\* An interrupt is a stop.
LEMMA InterruptIsStop ==
  ASSUME IInv, IInv', NEW k \in Keys, Interrupt(k)
  PROVE  Drains!Stop(k)
<1> DEFINE e == active[k]
           f == entry[e].owner
<1>0. TypeOK /\ Ownership
  BY DEF IInv
<1>1. /\ e # None /\ e \in Entries /\ f \in Fibers /\ fiber[f] \in FiberRec /\ active' = active
      /\ entry' = [entry EXCEPT ![e] = [owner |-> f, pendingWake |-> FALSE, stopping |-> TRUE]]
      /\ fiber' = [fiber EXCEPT ![f].interrupted = TRUE]
  BY <1>0 DEF Interrupt, TypeOK, Ownership, Owned
<1>2. /\ \A d \in Entries \ {e} : entry'[d] = entry[d]
      /\ \A g \in Fibers \ {f} : fiber'[g] = fiber[g]
      /\ entry'[e].owner = f /\ entry'[e].pendingWake = FALSE /\ entry'[e].stopping = TRUE
      /\ fiber'[f] = [fiber[f] EXCEPT !.interrupted = TRUE]
  BY <1>0, <1>1 DEF TypeOK
<1>3. fiber'[f].status = fiber[f].status
  BY <1>1, <1>2 DEF FiberRec
<1>4. Only(k)
  BY <1>1, <1>2, OtherKeys, OnlyHere
<1>5. /\ DrainPhase[k] # "idle" /\ DrainPhase'[k] = DrainPhase[k]
      /\ DrainFollowUp'[k] = FALSE /\ DrainStopping'[k] = TRUE
  <2>1. DrainPhase[k] # "idle"
    BY <1>1, SeenFacts
  <2> QED BY <2>1, <1>1, <1>2, <1>3 DEF DrainPhase, DrainFollowUp, DrainStopping
<1>6. /\ DrainPhase' = [DrainPhase EXCEPT ![k] = DrainPhase[k]]
      /\ DrainFollowUp' = [DrainFollowUp EXCEPT ![k] = FALSE]
      /\ DrainStopping' = [DrainStopping EXCEPT ![k] = TRUE]
  BY <1>4, <1>5, OnlyEquations
<1>7. DrainPhase' = DrainPhase
  BY <1>6 DEF DrainPhase
<1> QED BY <1>5, <1>6, <1>7 DEF Drains!Stop

\* A fiber that enters its drain begins the drain of its key.
LEMMA BeginIsBegin ==
  ASSUME IInv, IInv', NEW f \in Fibers, Begin(f)
  PROVE  Drains!Begin(fiber[f].key)
<1> DEFINE k == fiber[f].key
           e == fiber[f].entry
<1>0. TypeOK /\ Ownership
  BY DEF IInv
<1>1. /\ fiber[f].status = "queued" /\ fiber[f].interrupted = FALSE /\ fiber[f] \in FiberRec
      /\ fiber' = [fiber EXCEPT ![f].status = "draining"] /\ active' = active /\ entry' = entry
  BY <1>0 DEF Begin, TypeOK, FiberRec
<1>2. k \in Keys /\ e \in Entries /\ e # None /\ active[k] = e /\ entry[e].owner = f /\ Live(f)
  BY <1>0, <1>1 DEF Ownership, Owns, Live
<1>3. /\ \A g \in Fibers \ {f} : fiber'[g] = fiber[g]
      /\ fiber'[f] = [fiber[f] EXCEPT !.status = "draining"]
  BY <1>0, <1>1 DEF TypeOK
<1>4. fiber'[f].status = "draining"
  BY <1>1, <1>3 DEF FiberRec
<1>5. Only(k)
  BY <1>1, <1>2, <1>3, OtherKeys, OnlyHere
<1>6. DrainPhase[k] = "queued" /\ DrainStopping[k] = FALSE
  BY <1>1, <1>2, SeenFacts
<1>7. /\ DrainPhase'[k] = "draining" /\ DrainFollowUp'[k] = DrainFollowUp[k]
      /\ DrainStopping'[k] = DrainStopping[k]
  BY <1>1, <1>2, <1>4 DEF DrainPhase, DrainFollowUp, DrainStopping
<1>8. /\ DrainPhase' = [DrainPhase EXCEPT ![k] = "draining"]
      /\ DrainFollowUp' = [DrainFollowUp EXCEPT ![k] = DrainFollowUp[k]]
      /\ DrainStopping' = [DrainStopping EXCEPT ![k] = DrainStopping[k]]
  BY <1>2, <1>5, <1>7, OnlyEquations
<1>9. DrainFollowUp' = DrainFollowUp /\ DrainStopping' = DrainStopping
  BY <1>8 DEF DrainFollowUp, DrainStopping
<1> QED BY <1>6, <1>8, <1>9 DEF Drains!Begin

\* settle() finishes the drain of its key, by whichever branch.
LEMMA SettleIsFinish ==
  ASSUME IInv, IInv', NEW f \in Fibers, NEW exit \in Exits, Settle(f, exit),
         fiber[f].status = "draining" \/ (fiber[f].status = "queued" /\ fiber[f].interrupted)
  PROVE  Drains!Finish(fiber[f].key)
<1> DEFINE k == fiber[f].key
           e == fiber[f].entry
<1>0. TypeOK /\ Ownership /\ TypeOK'
  BY DEF IInv
<1>1. /\ k \in Keys /\ e \in Entries /\ e # None /\ active[k] = e /\ entry[e].owner = f /\ Live(f)
      /\ entry[e] \in EntryRec
  BY <1>0 DEF Ownership, Owns, Live, TypeOK
<1>2. /\ DrainPhase[k] = "draining" \/ (DrainPhase[k] = "queued" /\ DrainStopping[k])
      /\ DrainFollowUp[k] = entry[e].pendingWake
  <2>1. /\ DrainPhase[k] = fiber[f].status
        /\ DrainFollowUp[k] = entry[e].pendingWake
        /\ DrainStopping[k] = fiber[f].interrupted
    <3>1. k \in Keys /\ active[k] # None /\ active[k] = e /\ entry[active[k]].owner = f
      BY <1>1
    <3>2. /\ DrainPhase[k] = fiber[entry[active[k]].owner].status
          /\ DrainFollowUp[k] = entry[active[k]].pendingWake
          /\ DrainStopping[k] = fiber[entry[active[k]].owner].interrupted
      BY <3>1, SeenFacts
    <3> HIDE DEF k, e
    <3> QED BY <3>1, <3>2
  <2> QED BY <2>1
<1>3. /\ Only(k)
      /\ DrainPhase'[k] = IF DrainFollowUp[k] THEN "queued" ELSE "idle"
      /\ DrainFollowUp'[k] = FALSE
      /\ DrainStopping'[k] = FALSE
  <2>1. CASE /\ entry[e].pendingWake
             /\ ~entry[e].stopping
             /\ \E g \in FreeFibers : Restart(f, g)
    <3>0. PICK g \in FreeFibers : Restart(f, g)
      BY <2>1
    <3>1. /\ entry' = [entry EXCEPT ![e] =
               [owner |-> g, pendingWake |-> FALSE, stopping |-> entry[e].stopping]]
          /\ fiber' = [fiber EXCEPT ![f] = FreeFiber, ![g] = Started(k, e, FALSE)]
          /\ active' = active
      BY <3>0 DEF Restart
    <3>2. g \in Fibers /\ g # f /\ entry[e].stopping = FALSE
      BY <1>1, <2>1 DEF FreeFibers, Live, EntryRec
    <3>3. /\ \A d \in Entries \ {e} : entry'[d] = entry[d]
          /\ \A h \in Fibers \ {f, g} : fiber'[h] = fiber[h]
          /\ entry'[e].owner = g /\ entry'[e].pendingWake = FALSE /\ entry'[e].stopping = FALSE
          /\ fiber'[g].status = "queued"
      BY <3>1, <3>2, <1>0, <1>1 DEF TypeOK, Started
    <3>4. Only(k)
      <4>1. \A j \in Keys \ {k} : active[j] # None =>
              /\ active[j] \in Entries \ {e}
              /\ entry[active[j]].owner \in Fibers \ {f, g}
        BY <1>1, OtherKeys
      <4> QED BY <3>1, <3>3, <4>1, <1>1, OnlyHere
    <3> QED BY <3>1, <3>3, <3>4, <1>1, <1>2, <2>1 DEF DrainPhase, DrainFollowUp, DrainStopping
  <2>2. CASE /\ entry[e].pendingWake
             /\ \E g \in FreeFibers, d \in FreeEntries : Replace(f, exit, d, g)
    <3>0. PICK g \in FreeFibers, d \in FreeEntries : Replace(f, exit, d, g)
      BY <2>2
    <3>1. /\ active' = [active EXCEPT ![k] = d]
          /\ entry' = [entry EXCEPT ![e] = FreeEntry, ![d] = MakeEntry(g)]
          /\ fiber' = [fiber EXCEPT ![f] = FreeFiber, ![g] = Started(k, d, FALSE)]
      BY <3>0 DEF Replace
    <3>2. g \in Fibers /\ g # f /\ d \in Entries /\ d # e /\ d # None /\ f # None
      BY <1>1 DEF FreeFibers, FreeEntries, Live
    <3>3. /\ \A c \in Entries \ {e, d} : entry'[c] = entry[c]
          /\ \A h \in Fibers \ {f, g} : fiber'[h] = fiber[h]
          /\ \A j \in Keys \ {k} : active'[j] = active[j]
          /\ active'[k] = d
          /\ entry'[d].owner = g /\ entry'[d].pendingWake = FALSE /\ entry'[d].stopping = FALSE
          /\ fiber'[g].status = "queued"
      BY <3>1, <3>2, <1>0, <1>1 DEF TypeOK, Started, MakeEntry
    <3>4. Only(k)
      BY <3>3, <1>1, OtherKeys, OnlyHere
    <3> QED BY <3>2, <3>3, <3>4, <1>1, <1>2, <2>2 DEF DrainPhase, DrainFollowUp, DrainStopping
  <2>3. CASE ~entry[e].pendingWake /\ Remove(f, exit)
    <3>1. /\ active' = [active EXCEPT ![k] = None]
          /\ entry' = [entry EXCEPT ![e] = FreeEntry]
          /\ fiber' = [fiber EXCEPT ![f] = FreeFiber]
      BY <2>3 DEF Remove
    <3>2. /\ \A c \in Entries \ {e} : entry'[c] = entry[c]
          /\ \A h \in Fibers \ {f} : fiber'[h] = fiber[h]
          /\ \A j \in Keys \ {k} : active'[j] = active[j]
          /\ active'[k] = None
      BY <3>1, <1>0, <1>1 DEF TypeOK
    <3>3. Only(k)
      BY <3>2, <1>1, OtherKeys, OnlyHere
    <3>4. DrainFollowUp[k] = FALSE
      BY <2>3, <1>2, <1>1 DEF EntryRec
    <3> QED BY <3>2, <3>3, <3>4, <1>1 DEF DrainPhase, DrainFollowUp, DrainStopping
  <2> QED BY <2>1, <2>2, <2>3 DEF Settle
<1>4. /\ DrainPhase' = [DrainPhase EXCEPT ![k] = IF DrainFollowUp[k] THEN "queued" ELSE "idle"]
      /\ DrainFollowUp' = [DrainFollowUp EXCEPT ![k] = FALSE]
      /\ DrainStopping' = [DrainStopping EXCEPT ![k] = FALSE]
  BY <1>1, <1>3, OnlyEquations
<1> QED BY <1>1, <1>2, <1>4 DEF Drains!Finish

\* Every step of the coordinator is a step of SessionDrains or invisible to it.
LEMMA NextRefines ==
  ASSUME IInv, IInv', [Next]_vars
  PROVE  [Drains!Next]_(Drains!vars)
<1>1. ASSUME NEW f \in Fibers, Begin(f) PROVE Drains!Next
  <2>1. fiber[f].key \in Keys
    BY <1>1 DEF IInv, Ownership, Owns, Live, Begin
  <2> QED BY <1>1, <2>1, BeginIsBegin DEF Drains!Next
<1>2. ASSUME NEW f \in Fibers, Cancel(f) \/ \E exit \in Exits : End(f, exit) PROVE Drains!Next
  <2>1. fiber[f].key \in Keys
    BY <1>2 DEF IInv, Ownership, Owns, Live, Cancel, End
  <2>2. Drains!Finish(fiber[f].key)
    BY <1>2, SettleIsFinish DEF Cancel, End, Exits
  <2> QED BY <2>1, <2>2 DEF Drains!Next
<1>3. ASSUME NEW k \in Keys, Wake(k) PROVE Drains!Next
  <2>1. Drains!Remember(k) \/ Drains!Request(k)
    BY <1>3, WakeIsRemember, LaunchIsRequest DEF Wake
  <2> QED BY <2>1 DEF Drains!Next
<1>4. ASSUME NEW k \in Keys, Adopt(k) PROVE Drains!Next
  <2>1. Drains!Request(k)
    BY <1>4, LaunchIsRequest DEF Adopt
  <2> QED BY <2>1 DEF Drains!Next
<1>5. ASSUME NEW k \in Keys, Interrupt(k) PROVE Drains!Next
  <2>1. Drains!Stop(k)
    BY <1>5, InterruptIsStop
  <2> QED BY <2>1 DEF Drains!Next
<1>6. ASSUME UNCHANGED <<active, entry, fiber>> PROVE UNCHANGED Drains!vars
  BY <1>6 DEF Drains!vars, DrainPhase, DrainFollowUp, DrainStopping
<1>7. ASSUME NEW c \in Callers, NEW k \in Keys, Run(c, k)
      PROVE  Drains!Next \/ UNCHANGED Drains!vars
  <2>1. UNCHANGED <<active, entry, fiber>> \/ Drains!Request(k)
    BY <1>7, LaunchIsRequest DEF Run
  <2> QED BY <2>1, <1>6 DEF Drains!Next
<1>8. ASSUME NEW c \in Callers, Abandon(c) PROVE UNCHANGED Drains!vars
  BY <1>8, <1>6 DEF Abandon
<1>9. CASE Attach
  BY <1>9, <1>6 DEF Attach
<1>10. CASE UNCHANGED vars
  BY <1>10, <1>6 DEF vars
<1> QED BY <1>1, <1>2, <1>3, <1>4, <1>5, <1>7, <1>8, <1>9, <1>10 DEF Next, FiberStep, RelayWake

\* run-coordinator.ts implements the serial drains its Coordinator interface
\* promises: at most one drain per key, one coalesced follow-up, and a stop that
\* cancels the follow-up recorded before it and no later one.
THEOREM RefinesDrains == Spec => Drains!Spec
<1>1. Init => Drains!Init
  BY DEF Init, Drains!Init, DrainPhase, DrainFollowUp, DrainStopping
<1>2. IInv /\ IInv' /\ [Next]_vars => [Drains!Next]_(Drains!vars)
  BY NextRefines
<1> QED BY <1>1, <1>2, Invariance, PTL DEF Spec, Drains!Spec
==============================================================================
