--------------------------- MODULE ExecutionAttempt ---------------------------
(***************************************************************************)
(* The session_execution row under the programs that write it: the runners *)
(* of every generation opened so far, the host that opens and settles      *)
(* attempts, the boot sweep, the stop button and the retry button.         *)
(*                                                                         *)
(* A runner follows the order of session/runner/llm.ts and                 *)
(* publish-llm-event.ts. It keeps writing after its lease was superseded:  *)
(* an orphaned worker or a reply still on the wire looks exactly so. The   *)
(* fences of the row are all that stands between it and the new owner.     *)
(***************************************************************************)
EXTENDS AttemptRow, FiniteSets

CONSTANTS
  Parallel,  \* bound on the tool calls of a turn that are in flight at once
  MaxStops   \* bound on stops, retries and pauses

ASSUME StopsAssumption == MaxStops \in Nat

VARIABLES
  row,      \* the session_execution row
  runner,   \* the runner of each generation
  turns,    \* provider turns opened so far
  acts,     \* operator acts so far (bounded by MaxStops)
  marking,  \* a stop found nothing in progress, and has not left its mark yet
  verdict   \* history: the last recovery decision, and whether a write was uncertain

vars == <<row, runner, turns, acts, marking, verdict>>

\* "fresh": has not looked at the latch. "closing": between the two statements
\* of providerSettled(). "lost": the worker is gone, the host does not know.
RunnerRec ==
  [status : {"off", "fresh", "idle", "turn", "closing", "lost"}, turn : 0..MaxTurns,
   stage : {"silent", "spoke", "finished"}, protocol : BOOLEAN,
   calling : Tools, open : SUBSET Tools]

Off == [status |-> "off", turn |-> 0, stage |-> "silent", protocol |-> FALSE,
        calling |-> NoTool, open |-> {}]

NoVerdict == [action |-> "none", uncertain |-> FALSE]
Verdicts == [action : {"none", "retry", "continue", "inspect"}, uncertain : BOOLEAN]

TypeOK ==
  /\ row \in RowRec
  /\ runner \in [Gens -> RunnerRec]
  /\ turns \in 0..MaxTurns
  /\ acts \in 0..MaxStops
  /\ marking \in BOOLEAN
  /\ verdict \in Verdicts

Init ==
  /\ row = NoRow
  /\ runner = [g \in Gens |-> Off]
  /\ turns = 0
  /\ acts = 0
  /\ marking = FALSE
  /\ verdict = NoVerdict

------------------------------------------------------------------------------
\* The host opens an attempt and spawns its worker. Nothing tells it whether
\* the runner of an earlier generation is really gone.
Start ==
  /\ row.gen < MaxGen
  /\ row' = Started(row)
  /\ runner' = [runner EXCEPT ![row.gen + 1] = [Off EXCEPT !.status = "fresh"]]
  /\ UNCHANGED <<turns, acts, marking, verdict>>

\* A drain reads the latch of its lease first. One left behind by a lost worker
\* is abandoned, which is the first statement of providerSettled() for it.
Enter(g) ==
  /\ runner[g].status = "fresh"
  /\ runner' = [runner EXCEPT ![g] =
       IF row.gen = g /\ row.latch # 0
         THEN [@ EXCEPT !.status = "closing", !.turn = row.latch,
                        !.protocol = row.protocol]
         ELSE [@ EXCEPT !.status = "idle"]]
  /\ UNCHANGED <<row, turns, acts, marking, verdict>>

\* A provider turn begins: the latch is set before the request leaves.
Turn(g) ==
  /\ runner[g].status = "idle"
  /\ turns < MaxTurns
  /\ turns' = turns + 1
  /\ row' = ProviderStarted(row, g, turns + 1)
  /\ runner' = [runner EXCEPT ![g] = [Off EXCEPT !.status = "turn", !.turn = turns + 1]]
  /\ UNCHANGED <<acts, marking, verdict>>

\* The first output marks the provider checkpoint.
Output(g) ==
  /\ runner[g].status = "turn"
  /\ runner[g].stage = "silent"
  /\ runner[g].calling = NoTool
  /\ row' = Advance(row, g, "provider", "mark")
  /\ runner' = [runner EXCEPT ![g].stage = "spoke"]
  /\ UNCHANGED <<turns, acts, marking, verdict>>

\* step-finish marks it again, and the finish event may name the serving process.
\* The tools of the step may still be running.
StepFinish(g) ==
  /\ runner[g].status = "turn"
  /\ runner[g].stage # "finished"
  /\ runner[g].calling = NoTool
  /\ LET r == Advance(row, g, "provider", "mark")
     IN row' = r \/ row' = ServedBy(r, g)
  /\ runner' = [runner EXCEPT ![g].stage = "finished"]
  /\ UNCHANGED <<turns, acts, marking, verdict>>

\* A tool call arrives: its receipt is fenced before it is dispatched ...
Dispatch(g, c, effect) ==
  /\ runner[g].status = "turn"
  /\ runner[g].stage # "finished"
  /\ runner[g].calling = NoTool
  /\ Cardinality(runner[g].open) < Parallel
  /\ c \notin {t.call : t \in runner[g].open}
  /\ row' = Advance(ToolDispatched(row, g, c, effect), g, "tool", "clear")
  /\ runner' = [runner EXCEPT ![g].calling =
       [by |-> g, call |-> c, effect |-> effect, settled |-> FALSE]]
  /\ UNCHANGED <<turns, acts, marking, verdict>>

\* ... and then it runs, in a fiber of its own.
Call(g) ==
  /\ runner[g].status = "turn"
  /\ runner[g].calling # NoTool
  /\ row' = ProviderToolProtocol(row, g)
  /\ runner' = [runner EXCEPT ![g].open = @ \cup {runner[g].calling}, ![g].calling = NoTool]
  /\ UNCHANGED <<turns, acts, marking, verdict>>

\* A tool's result is durable; the publication lock keeps the two writes together.
ToolDone(g, t) ==
  /\ runner[g].status = "turn"
  /\ runner[g].calling = NoTool
  /\ t \in runner[g].open
  /\ row' = ToolSettled(Advance(row, g, "tool", "mark"), g, t.call)
  /\ runner' = [runner EXCEPT ![g].open = @ \ {t}]
  /\ UNCHANGED <<turns, acts, marking, verdict>>

\* A turn is over once its tools are: providerSettled() reads the latch. When it
\* is not this turn's any more there is nothing to write.
EndTurn(g) ==
  /\ runner[g].status = "turn"
  /\ runner[g].calling = NoTool
  /\ runner[g].open = {}
  /\ runner' = [runner EXCEPT ![g] =
       IF row.gen = g /\ row.latch = runner[g].turn
         THEN [@ EXCEPT !.status = "closing", !.protocol = row.protocol]
         ELSE [Off EXCEPT !.status = "idle"]]
  /\ UNCHANGED <<row, turns, acts, marking, verdict>>

\* The second statement of providerSettled().
Close(g) ==
  /\ runner[g].status = "closing"
  /\ row' = ProviderSettled(row, g, runner[g].protocol)
  /\ runner' = [runner EXCEPT ![g] = [Off EXCEPT !.status = "idle"]]
  /\ UNCHANGED <<turns, acts, marking, verdict>>

\* Between turns: a checkpoint, and perhaps the worker is asked to yield.
Boundary(g) ==
  /\ runner[g].status = "idle"
  /\ LET r == Advance(row, g, "drain", "mark")
     IN \/ row' = r /\ UNCHANGED runner
        \/ /\ \E job \in BOOLEAN : MayRequeue(r, g, job)
           /\ row' = Requeued(r)
           /\ runner' = [runner EXCEPT ![g] = Off]
  /\ UNCHANGED <<turns, acts, marking, verdict>>

\* The worker of the current attempt is gone.
WorkerLost == row.gen \in Gens /\ runner[row.gen].status = "lost"

\* A recovery decision: is a write of the lost worker in doubt?
Judged ==
  [action |-> Decide(row),
   uncertain |-> WorkerLost /\ \E t \in runner[row.gen].open : t.effect = "write"]

\* The drain returned, at once when a human has taken the conversation over. The
\* host settles the attempt, and treats work left open as a failure of the worker.
Return(g, finished) ==
  /\ runner[g].status \in {"fresh", "idle"}
  /\ runner' = [runner EXCEPT ![g] = Off]
  /\ LET r == Settled(row, g, finished)
         s == Settlement(row, g, finished)
     IN IF s = "unfinished"
        THEN /\ row' = FailureRecovered(r, g)
             /\ verdict' = Judged
        ELSE /\ row' = r
             /\ verdict' = verdict
  /\ UNCHANGED <<turns, acts, marking>>

\* A worker dies, at any point of its work.
Lose(g) ==
  /\ runner[g].status \notin {"off", "lost"}
  /\ runner' = [runner EXCEPT ![g].status = "lost"]
  /\ UNCHANGED <<row, turns, acts, marking, verdict>>

\* Its host notices.
RecoverFailure(g) ==
  /\ runner[g].status = "lost"
  /\ row' = FailureRecovered(row, g)
  /\ verdict' = IF MayRecover(row, g) THEN Judged ELSE verdict
  /\ runner' = [runner EXCEPT ![g] = Off]
  /\ UNCHANGED <<turns, acts, marking>>

\* Its host is gone too: the sweep of a later boot finds the old heartbeat.
RecoverStale ==
  /\ IsStale(row)
  /\ row' = StaleRecovered(row)
  /\ verdict' = Judged
  /\ UNCHANGED <<runner, turns, acts, marking>>

Beat(g) ==
  /\ runner[g].status \notin {"off", "lost"}
  /\ row.gen = g /\ ~row.beat
  /\ row' = Heartbeat(row, g)
  /\ UNCHANGED <<runner, turns, acts, marking, verdict>>

\* STALE_AFTER_MS go by without a heartbeat.
Age ==
  /\ row.beat
  /\ row' = [row EXCEPT !.beat = FALSE]
  /\ UNCHANGED <<runner, turns, acts, marking, verdict>>

\* The retry button, and a session put on hold.
Operate ==
  /\ acts < MaxStops
  /\ acts' = acts + 1
  /\ row' \in {RetryAuthorized(row), Paused(row, row.gen)}
  /\ UNCHANGED <<runner, turns, marking, verdict>>

\* The stop button, one request at a time ...
Stop ==
  /\ acts < MaxStops /\ ~marking
  /\ acts' = acts + 1
  /\ row' = InterruptRequested(row)
  /\ marking' = (row.state \notin Progressing)
  /\ UNCHANGED <<runner, turns, verdict>>

\* ... whose second statement may meet a row that progresses again.
Mark ==
  /\ marking
  /\ row' = InterruptMarked(row)
  /\ marking' = FALSE
  /\ UNCHANGED <<runner, turns, acts, verdict>>

RunnerStep(g) ==
  \/ Enter(g) \/ Turn(g) \/ Output(g) \/ StepFinish(g) \/ Call(g)
  \/ EndTurn(g) \/ Close(g) \/ Boundary(g)
  \/ \E c \in Calls, effect \in Effects : Dispatch(g, c, effect)
  \/ \E t \in Tools : ToolDone(g, t)
  \/ \E finished \in BOOLEAN : Return(g, finished)
  \/ Lose(g) \/ RecoverFailure(g) \/ Beat(g)

Next == Start \/ RecoverStale \/ Age \/ Operate \/ Stop \/ Mark \/ \E g \in Gens : RunnerStep(g)

Spec == Init /\ [][Next]_vars

------------------------------------------------------------------------------
\* The facts a recovery decision and a receipt are read from belong to the
\* attempt that is current: whatever superseded runners still send, checkpoint,
\* tool receipt and serving identity were written under the row's generation.
FactsAreOwn ==
  /\ row.checkpoint \in {0, row.gen}
  /\ row.tool # NoTool => row.tool.by = row.gen
  /\ row.served \subseteq {row.gen}

\* "A successful terminal state while [a provider latch] exists is illegal at the
\* storage boundary" (settle()): no interleaving leaves a settled row with one.
SettledHasNoLatch == row.state = "settled" => row.latch = 0

\* A step that changes a set latch is one that may.
LatchAction ==
  row.latch # 0 /\ row'.latch # row.latch =>
    /\ row'.latch = 0
    /\ \/ row.state \in Progressing /\ row'.state = "interrupted"
       \/ row.gen \in Gens /\ runner[row.gen].status = "closing"
          /\ runner[row.gen].turn = row.latch

\* The latch is an obligation. It goes away only when the runner of the current
\* lease settles or abandons exactly that turn, or a stop cancels it, and it is
\* never overwritten by another turn.
LatchHonoured == [][LatchAction]_vars

\* "An uncertain tool is never replayed: the replacement turn receives a grounded
\* inspection steer" (recovery-decision.ts): whenever a write of the lost worker
\* was in flight, the decision is to inspect.
UncertainToolInspected == verdict.uncertain => verdict.action = "inspect"

==============================================================================
