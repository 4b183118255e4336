---------------------------- MODULE WorkerSupervisor ----------------------------
(***************************************************************************)
(* packages/novaclaw/src/session-worker/supervisor.ts, with the main loop  *)
(* of its child (entrypoint.ts) and the executor that spawns one worker    *)
(* after the other for a session: how a worker ends, and what becomes of   *)
(* the host RPCs it had in flight. An RPC that writes the ordered record   *)
(* asks for the ownership of the row and writes in a later step; the       *)
(* others (spawns, memory) write without asking.                           *)
(*                                                                         *)
(* A line of the child is heard when it is sent, except the last one: the  *)
(* exit of the process may be noticed before it. A spawn that fails and    *)
(* lines of a malformed or foreign worker are left out.                    *)
(***************************************************************************)
EXTENDS Naturals, Sequences

CONSTANTS
  MaxGens,  \* bound on workers
  MaxRpcs   \* bound on the RPCs of the first worker; each one after it has one less

ASSUME SupervisorAssumption == MaxGens \in Nat \ {0} /\ MaxRpcs \in Nat

VARIABLES
  owner,   \* the generation that owns the session's row
  workers, \* each worker and its supervisor
  rpcs,    \* the host RPCs of each worker, in the order they were sent
  record   \* what they wrote

vars == <<owner, workers, rpcs, record>>

Gens == 1..MaxGens

\* settled: or yielded. failed: by the worker, its pipe or an RPC. watchdog: of the monitor,
\* less the memory limit.
Outcomes == {"none", "settled", "failed", "exited", "interrupted", "watchdog", "memory"}

\* ready, asked, sampling: the supervisor's ready, interruptRequested, memorySampleInFlight.
\* outcome: done, and how. resolved: the executor has it. late: without the join.
WorkerRec == [process : {"none", "live", "dead"}, ready : BOOLEAN, asked : BOOLEAN,
              sampling : BOOLEAN, outcome : Outcomes, resolved : BOOLEAN, late : BOOLEAN]
Unborn == [process |-> "none", ready |-> FALSE, asked |-> FALSE, sampling |-> FALSE,
           outcome |-> "none", resolved |-> FALSE, late |-> FALSE]

\* sent: not started. running: its handler runs. fenced: the row was asked. over: written or not.
\* answered: the worker has the reply.
RpcRec == [ordered : BOOLEAN, at : {"sent", "running", "fenced", "over"}, answered : BOOLEAN]

TypeOK ==
  /\ owner \in 0..MaxGens
  /\ workers \in [Gens -> WorkerRec]
  /\ rpcs \in [Gens -> Seq(RpcRec)] /\ \A g \in Gens : Len(rpcs[g]) <= MaxRpcs
  /\ record \in Seq(Gens \X (1..MaxRpcs) \X BOOLEAN)
  /\ \A g \in Gens : workers[g].process # "none" => owner >= g
  /\ \A g \in Gens : workers[g].resolved =>
       workers[g].outcome # "none" /\ (workers[g].process = "dead" \/ workers[g].late)

Init ==
  /\ owner = 0
  /\ workers = [g \in Gens |-> Unborn]
  /\ rpcs = [g \in Gens |-> <<>>]
  /\ record = <<>>

------------------------------------------------------------------------------
Over(g) == workers[g].outcome # "none"
Live(g) == workers[g].process = "live"
Numbers(g) == 1..Len(rpcs[g])

\* finish(): the first outcome wins, and a memory sample in flight is ignored from now on.
Finished(w, outcome) ==
  IF w.outcome = "none" THEN [w EXCEPT !.outcome = outcome, !.sampling = FALSE] ELSE w

Finish(g, outcome) == workers' = [workers EXCEPT ![g] = Finished(@, outcome)]

\* The executor: a worker is spawned after the result of the one before it.
Open(g) ==
  /\ owner = g - 1 /\ (g > 1 => workers[g - 1].resolved)
  /\ owner' = g
  /\ workers' = [workers EXCEPT ![g] = [Unborn EXCEPT !.process = "live"]]
  /\ UNCHANGED <<rpcs, record>>

Ready(g) ==
  /\ Live(g) /\ ~workers[g].ready /\ ~Over(g)
  /\ workers' = [workers EXCEPT ![g].ready = TRUE]
  /\ UNCHANGED <<owner, rpcs, record>>

\* The executor's fiber is interrupted: interrupt().
Interrupt(g) ==
  /\ owner = g /\ ~Over(g) /\ ~workers[g].asked
  /\ workers' = [workers EXCEPT ![g].asked = TRUE]
  /\ UNCHANGED <<owner, rpcs, record>>

\* The worker is done; its drain has the answer of every RPC, unless it failed. The exit of
\* the process may be noticed before its last line.
Concludes(g, outcome) ==
  /\ Live(g) /\ workers[g].ready /\ ~Over(g)
  /\ outcome # "failed" => \A n \in Numbers(g) : rpcs[g][n].answered
  /\ \E heard \in {outcome, IF workers[g].asked THEN "interrupted" ELSE "exited"} :
       workers' = [workers EXCEPT ![g] = [Finished(@, heard) EXCEPT !.process = "dead"]]
  /\ UNCHANGED <<owner, rpcs, record>>

\* The worker dies, or unwinds after the interrupt and says nothing more.
Exits(g) ==
  /\ Live(g) /\ ~Over(g)
  /\ workers' = [workers EXCEPT
       ![g] = [Finished(@, IF @.asked THEN "interrupted" ELSE "exited") EXCEPT !.process = "dead"]]
  /\ UNCHANGED <<owner, rpcs, record>>

\* A write to its closed pipe fails.
BreaksPipe(g) ==
  /\ Live(g) /\ ~Over(g) /\ Finish(g, "failed")
  /\ UNCHANGED <<owner, rpcs, record>>

\* The end of the grace.
Grace(g) ==
  /\ workers[g].asked /\ ~Over(g) /\ Finish(g, "interrupted")
  /\ UNCHANGED <<owner, rpcs, record>>

\* The monitor is silent once a stop was asked for.
Watches(g) == owner = g /\ ~Over(g) /\ ~workers[g].asked

\* Startup, heartbeat, tokens and command launch.
Watchdog(g) ==
  /\ Watches(g) /\ Finish(g, "watchdog")
  /\ UNCHANGED <<owner, rpcs, record>>

\* enforceMemoryLimit(): whether a stop was asked for is asked before the sample and not after it, so
\* the reading may end a worker that was stopped meanwhile.
Sample(g) ==
  /\ Watches(g) /\ workers[g].ready /\ ~workers[g].sampling
  /\ workers' = [workers EXCEPT ![g].sampling = TRUE]
  /\ UNCHANGED <<owner, rpcs, record>>

Sampled(g) ==
  /\ workers[g].sampling
  /\ \E r \in {workers[g], Finished(workers[g], "memory")} :
       workers' = [workers EXCEPT ![g] = [r EXCEPT !.sampling = FALSE]]
  /\ UNCHANGED <<owner, rpcs, record>>

\* killTree().
Killed(g) ==
  /\ Over(g) /\ Live(g)
  /\ workers' = [workers EXCEPT ![g].process = "dead"]
  /\ UNCHANGED <<owner, rpcs, record>>

\* Fault: the kill is not waited for.
CleanAlive(g) == \A n \in Numbers(g) : rpcs[g][n].at = "over"

\* Fault: the RPCs in flight are aborted and not waited for.
CleanUnjoined(g) == ~Live(g)

\* finish(): the cleanup is the end of the process and of every RPC in flight.
Clean(g) == ~Live(g) /\ \A n \in Numbers(g) : rpcs[g][n].at = "over"

Resolve(g) ==
  /\ Over(g) /\ ~workers[g].resolved /\ Clean(g)
  /\ workers' = [workers EXCEPT ![g].resolved = TRUE]
  /\ UNCHANGED <<owner, rpcs, record>>

\* Fault: the deadline waits for the cleanup.
DeadlineJoins(g) ==
  /\ Over(g) /\ ~workers[g].resolved /\ Clean(g)
  /\ workers' = [workers EXCEPT ![g].resolved = TRUE, ![g].late = TRUE]
  /\ UNCHANGED <<owner, rpcs, record>>

\* The cleanup deadline.
Deadline(g) ==
  /\ Over(g) /\ ~workers[g].resolved
  /\ workers' = [workers EXCEPT ![g].resolved = TRUE, ![g].late = TRUE]
  /\ UNCHANGED <<owner, rpcs, record>>

------------------------------------------------------------------------------
Goes(g, n, at) == rpcs' = [rpcs EXCEPT ![g][n].at = at]

\* accept(): nothing is heard of a worker that is done.
Send(g, ordered) ==
  /\ Live(g) /\ workers[g].ready /\ ~Over(g) /\ Len(rpcs[g]) + g <= MaxRpcs
  /\ rpcs' = [rpcs EXCEPT ![g] = Append(@, [ordered |-> ordered, at |-> "sent", answered |-> FALSE])]
  /\ UNCHANGED <<owner, workers, record>>

\* Fault: every RPC goes straight out.
TurnOfAny(g, n) == TRUE

\* dispatchRPC(): an ordered RPC waits for those before it.
TurnOf(g, n) ==
  rpcs[g][n].ordered => \A m \in 1..(n - 1) : rpcs[g][m].ordered => rpcs[g][m].at = "over"

\* Fault: the reply is sent whatever became of the worker meanwhile.
EndsAnswering(g, n) == rpcs' = [rpcs EXCEPT ![g][n].at = "over", ![g][n].answered = TRUE]

\* The end of an RPC: no reply to a worker that is done.
Ends(g, n) == rpcs' = [rpcs EXCEPT ![g][n].at = "over", ![g][n].answered = ~Over(g)]

\* settle(): dropped if the worker is done by now.
Dispatch(g, n) ==
  /\ rpcs[g][n].at = "sent" /\ TurnOf(g, n)
  /\ Goes(g, n, IF Over(g) THEN "over" ELSE "running")
  /\ UNCHANGED <<owner, workers, record>>

\* The handler asks who owns the row; otherwise it rejects, and the worker hears that. The unordered
\* ones do not ask.
Fence(g, n) ==
  /\ rpcs[g][n].at = "running"
  /\ IF owner = g \/ ~rpcs[g][n].ordered THEN Goes(g, n, "fenced") ELSE Ends(g, n)
  /\ UNCHANGED <<owner, workers, record>>

Write(g, n) ==
  /\ rpcs[g][n].at = "fenced" /\ Ends(g, n)
  /\ record' = Append(record, <<g, n, rpcs[g][n].ordered>>)
  /\ UNCHANGED <<owner, workers>>

\* lifetime.abort(): a handler unwinds at an await; its transaction is not one.
Abort(g, n) ==
  /\ Over(g) /\ rpcs[g][n].at \in {"running", "fenced"}
  /\ Goes(g, n, "over")
  /\ UNCHANGED <<owner, workers, record>>

\* A handler fails: that ends the worker.
Fails(g, n) ==
  /\ rpcs[g][n].at \in {"running", "fenced"}
  /\ Goes(g, n, "over") /\ Finish(g, "failed")
  /\ UNCHANGED <<owner, record>>

Next ==
  \E g \in Gens :
    \/ Open(g) \/ Ready(g) \/ Interrupt(g) \/ Exits(g) \/ BreaksPipe(g)
    \/ \E outcome \in {"settled", "failed"} : Concludes(g, outcome)
    \/ Grace(g) \/ Watchdog(g) \/ Sample(g) \/ Sampled(g)
    \/ Killed(g) \/ Resolve(g) \/ Deadline(g)
    \/ \E ordered \in BOOLEAN : Send(g, ordered)
    \/ \E n \in Numbers(g) :
         \/ Dispatch(g, n) \/ Fence(g, n) \/ Write(g, n)
         \/ Abort(g, n) \/ Fails(g, n)

Spec == Init /\ [][Next]_vars

\* Only the host's timers: nothing is assumed of workers, of handlers, or of the kill.
FairSpec == Spec /\ \A g \in Gens : WF_vars(Grace(g)) /\ WF_vars(Deadline(g))

------------------------------------------------------------------------------
\* The ordered writes of a worker are recorded in the order it sent them, although each
\* handler awaits the database twice.
OrderKept ==
  \A i, j \in 1..Len(record) :
    LET a == record[i]  b == record[j]
    IN i < j /\ a[1] = b[1] /\ a[3] /\ b[3] => a[2] < b[2]

\* finish(): "Host RPCs are part of this generation's lifetime too." Once a replacement owns
\* the session, its predecessor neither runs nor writes, unless the cleanup deadline passed.
GenerationsDoNotOverlap ==
  /\ \A g \in Gens : Live(g) => owner = g \/ workers[g].late
  /\ \A i, j \in 1..Len(record) : i < j /\ record[i][1] > record[j][1] => workers[record[j][1]].late

\* A worker goes on from the answers of its RPCs: what was answered stands in the record, once. In
\* particular a handler that finds the row with a successor and rejects has nobody left to tell.
AnsweredIsWritten ==
  \A g \in Gens : \A n \in Numbers(g) :
    LET writes == {i \in 1..Len(record) : record[i][1] = g /\ record[i][2] = n}
    IN /\ rpcs[g][n].answered => writes # {}
       /\ \A i, j \in writes : i = j

\* Whoever stops a worker gets its result, also of a worker that does not listen, a kill that
\* hangs and handlers that never return.
StopReturns == \A g \in Gens : workers[g].asked ~> workers[g].resolved

==============================================================================
