--------------------------- MODULE SessionRuntime ---------------------------
(***************************************************************************)
(* One session from the prompt to its reply, across worker losses, yields, *)
(* stops, host crashes and boots: the drain of session-worker/execution.ts *)
(* inside the coordinator's contract (SessionDrains), the row of           *)
(* AttemptRow, the runner's loop at the grain of turns, and the two boot   *)
(* sweeps of session/boot-recovery.ts.                                     *)
(*                                                                         *)
(* A worker is gone before the drain that supervises it opens the next     *)
(* attempt, so one generation stands for all of them (ExecutionAttempt has *)
(* the writers that outlive their lease). The session is neither archived, *)
(* nor on hold, nor with an operator, and its mode lets it be resumed.     *)
(***************************************************************************)
EXTENDS AttemptRow

CONSTANTS
  MaxActs,   \* bound on prompts and stops
  MaxTrials  \* bound on crashes, worker losses, yields and further turns

ASSUME RuntimeAssumption == MaxActs \in Nat /\ MaxTrials \in Nat

VARIABLES
  row,     \* the session_execution row (durable)
  prompt,  \* an admitted prompt is not promoted yet (durable)
  open,    \* the transcript holds a promoted prompt without its final turn (durable)
  result,  \* the session has a result (durable)
  mode,    \* "chat" settles on the reply, "work" on an accepted exit
  up,      \* the host runs
  drain,   \* the coordinator's drain of the session, and how far it is
  wake,    \* its entry's pendingWake
  stopping,\* its entry is stopping
  worker,  \* the worker process of the drain
  call,    \* requests under way: a prompt that has not called wake() yet, and a stop
  boot,    \* the boot sweeps: leftover work each arm has still to adopt, and the window
  acts,    \* prompts and stops so far
  trials,  \* crashes, losses, yields and further turns so far
  hist     \* history: the last user act, and what boot recovery made of it

durable == <<row, prompt, open, result, mode>>
memory == <<drain, wake, stopping, worker, call, boot>>
vars == <<row, prompt, open, result, mode, up, drain, wake, stopping, worker, call, boot,
          acts, trials, hist>>

\* "queued": not begun. "lane": waits for admission. "open": about to open an
\* attempt. "serving": supervises its worker. "yielding": has woken its successor.
\* "backoff": sleeps before a retry.
DrainRec == [at : {"none", "queued", "lane", "open", "serving", "yielding", "backoff"},
             force : BOOLEAN]

\* "fresh": has not looked for work. "ready": about to promote. "promoted": about to
\* ask the provider. "boundary": between turns with more to do. The last three ended.
WorkerAt == {"off", "fresh", "ready", "promoted", "turn", "boundary",
             "returned", "yielded", "dead"}
Alive == worker \in {"fresh", "ready", "promoted", "turn", "boundary"}

\* "marking": found nothing in progress, and has to leave its mark. "marked": about to interrupt.
StopAt == {"none", "marking", "marked"}

\* "owed": found. "cleared": past holdStopped(), not adopted yet.
Arm == {"no", "owed", "cleared"}

TypeOK ==
  /\ row \in RowRec
  /\ prompt \in BOOLEAN /\ open \in BOOLEAN /\ result \in BOOLEAN /\ up \in BOOLEAN
  /\ mode \in {"chat", "work"}
  /\ drain \in DrainRec
  /\ wake \in BOOLEAN /\ stopping \in BOOLEAN
  /\ worker \in WorkerAt
  /\ call \in [wake : BOOLEAN, stop : StopAt]
  /\ boot \in [abandoned : Arm, recovered : Arm, window : BOOLEAN, due : BOOLEAN]
  /\ acts \in 0..MaxActs /\ trials \in 0..MaxTrials
  /\ hist \in [last : {"none", "prompt", "stop"}, held : BOOLEAN, resumed : BOOLEAN,
               mistaken : BOOLEAN, taken : BOOLEAN]

NoDrain == [at |-> "none", force |-> FALSE]
NoCall == [wake |-> FALSE, stop |-> "none"]
NoBoot == [abandoned |-> "no", recovered |-> "no", window |-> FALSE, due |-> FALSE]

Init ==
  /\ row = NoRow
  /\ prompt = FALSE /\ open = FALSE /\ result = FALSE
  /\ mode \in {"chat", "work"}
  /\ up = TRUE
  /\ drain = NoDrain /\ wake = FALSE /\ stopping = FALSE
  /\ worker = "off" /\ call = NoCall /\ boot = NoBoot
  /\ acts = 0 /\ trials = 0
  /\ hist = [last |-> "none", held |-> FALSE, resumed |-> FALSE,
             mistaken |-> FALSE, taken |-> FALSE]

Act == acts < MaxActs /\ acts' = acts + 1 /\ UNCHANGED trials
Trial == trials < MaxTrials /\ trials' = trials + 1 /\ UNCHANGED acts
bounds == <<acts, trials>>

------------------------------------------------------------------------------
\* The coordinator starts a drain for an idle session ...
Launch(force) ==
  /\ drain.at = "none"
  /\ drain' = [at |-> "queued", force |-> force]

\* ... and wake() remembers the call when one is under way.
WakeDrain ==
  \/ Launch(FALSE) /\ UNCHANGED wake
  \/ drain.at # "none" /\ wake' = TRUE /\ UNCHANGED drain

\* Fault: a drain that ends forgets the wake that came during it.
EndedForgetful == drain' = NoDrain /\ wake' = FALSE /\ stopping' = FALSE

\* settle() of the coordinator: the pending wake gets an unforced successor.
Ended ==
  /\ drain' = IF wake THEN [at |-> "queued", force |-> FALSE] ELSE NoDrain
  /\ wake' = FALSE
  /\ stopping' = FALSE

\* The attempt that start() opens. One generation stands for all of them.
Opened(r) == Started([r EXCEPT !.gen = 0])

\* prompt(): admission is durable and starts a new join epoch; the wake follows.
Prompt ==
  /\ up /\ ~prompt /\ Act
  /\ prompt' = TRUE
  /\ result' = FALSE
  /\ call' = [call EXCEPT !.wake = TRUE]
  /\ hist' = [hist EXCEPT !.last = "prompt", !.held = FALSE, !.taken = FALSE]
  /\ UNCHANGED <<row, open, mode, up, drain, wake, stopping, worker, boot>>

CallWake ==
  /\ call.wake
  /\ call' = [call EXCEPT !.wake = FALSE]
  /\ WakeDrain
  /\ UNCHANGED <<durable, up, stopping, worker, boot, bounds, hist>>

\* The stop button: interruptBranch() marks the row first ...
RequestInterrupt ==
  /\ up /\ call.stop = "none" /\ Act
  /\ row' = InterruptRequested(row)
  /\ call' = [call EXCEPT !.stop = IF row.state \in Progressing THEN "marked" ELSE "marking"]
  /\ hist' = [hist EXCEPT !.last = "stop", !.held = FALSE]
  /\ UNCHANGED <<prompt, open, result, mode, up, drain, wake, stopping, worker, boot>>

MarkInterrupt ==
  /\ call.stop = "marking"
  /\ row' = InterruptMarked(row)
  /\ call' = [call EXCEPT !.stop = "marked"]
  /\ UNCHANGED <<prompt, open, result, mode, up, drain, wake, stopping, worker, boot, bounds, hist>>

\* ... and then interrupts the drain, which takes its cleanup to end.
InterruptDrain ==
  /\ call.stop = "marked"
  /\ call' = [call EXCEPT !.stop = "none"]
  /\ wake' = FALSE
  /\ stopping' = (drain.at # "none")
  /\ hist' = [hist EXCEPT !.last = "stop", !.held = FALSE]
  /\ UNCHANGED <<durable, up, drain, worker, boot, bounds>>

------------------------------------------------------------------------------
\* The drain begins, and queues for a lane.
Begin ==
  /\ drain.at = "queued" /\ ~stopping
  /\ drain' = [drain EXCEPT !.at = "lane"]
  /\ UNCHANGED <<durable, up, wake, stopping, worker, call, boot, bounds, hist>>

\* It has its lane, and reads how the previous attempt was left.
TakeLane ==
  /\ drain.at = "lane" /\ ~stopping
  /\ drain' = [at |-> "open", force |-> drain.force \/ row.state \in {"paused", "starting"}]
  /\ UNCHANGED <<durable, up, wake, stopping, worker, call, boot, bounds, hist>>

\* It opens an attempt and spawns the worker.
Open ==
  /\ drain.at = "open" /\ ~stopping
  /\ row' = Opened(row)
  /\ drain' = [drain EXCEPT !.at = "serving"]
  /\ worker' = "fresh"
  /\ boot' = [boot EXCEPT !.due = FALSE]
  /\ UNCHANGED <<prompt, open, result, mode, up, wake, stopping, call, bounds, hist>>

\* Fault: the replacement of a lost worker is not forced to take a turn.
RetriedUnforced == [drain EXCEPT !.at = "backoff"]

\* A retry takes a turn even if nothing is queued.
Retried == [at |-> "backoff", force |-> TRUE]

\* recoverFailure(): a retry after a pause, or the end when the row says so.
Fail ==
  /\ row' = FailureRecovered(row, 1)
  /\ IF MayRecover(row, 1)
       THEN drain' = Retried /\ UNCHANGED <<wake, stopping>>
       ELSE Ended

Finished == mode = "chat" \/ result

\* The worker ended, and the drain acts on its outcome.
Outcome ==
  /\ drain.at = "serving" /\ ~stopping
  /\ worker' = "off"
  /\ \/ worker = "dead" /\ Fail
     \/ /\ worker = "yielded"
        /\ drain' = [drain EXCEPT !.at = "yielding"]
        /\ wake' = TRUE
        /\ UNCHANGED <<row, stopping>>
     \/ /\ worker = "returned"
        /\ LET s == Settlement(row, 1, Finished)
           IN CASE s = "unfinished" -> Fail
                [] s = "recovery-pending" ->
                     /\ row' = Settled(row, 1, Finished)
                     /\ drain' = [drain EXCEPT !.at = "open"]
                     /\ UNCHANGED <<wake, stopping>>
                [] OTHER -> row' = Settled(row, 1, Finished) /\ Ended
  /\ UNCHANGED <<prompt, open, result, mode, up, call, boot, bounds, hist>>

\* After its wake() a drain that yielded returns.
Yield ==
  /\ drain.at = "yielding" /\ ~stopping
  /\ Ended
  /\ UNCHANGED <<durable, up, worker, call, boot, bounds, hist>>

Retry ==
  /\ drain.at = "backoff" /\ ~stopping
  /\ drain' = [drain EXCEPT !.at = "open"]
  /\ UNCHANGED <<durable, up, wake, stopping, worker, call, boot, bounds, hist>>

\* An interrupted drain unwinds. Its worker, told to stop, is gone by then: it
\* is heard until it left, or until the grace is over. On a row with the mark the cleanup
\* settles the turn that a late write has opened, and ignores an error of its own.
Unwind ==
  /\ drain.at # "none" /\ stopping
  /\ worker' = "off"
  /\ \/ row' = row
     \/ /\ drain.at = "serving" /\ row.class = "interrupt" /\ row.latch # 0
        /\ row' = ProviderSettled(row, 1, row.protocol)
  /\ Ended
  /\ UNCHANGED <<prompt, open, result, mode, up, call, boot, bounds, hist>>

------------------------------------------------------------------------------
\* The runner looks for work. A latch is work, and is abandoned first.
Enter ==
  /\ worker = "fresh"
  /\ row' = IF row.latch # 0 THEN ProviderSettled(row, 1, row.protocol) ELSE row
  /\ worker' = IF drain.force \/ prompt \/ row.latch # 0 THEN "ready" ELSE "returned"
  /\ UNCHANGED <<prompt, open, result, mode, up, drain, wake, stopping, call, boot, bounds, hist>>

\* The queued prompt becomes part of the transcript. A worker that is being
\* stopped may still take one that was sent after the stop ...
Promote ==
  /\ worker = "ready"
  /\ worker' = "promoted"
  /\ prompt' = FALSE
  /\ open' = (open \/ prompt)
  /\ hist' = [hist EXCEPT !.taken = @ \/ (prompt /\ stopping)]
  /\ UNCHANGED <<row, result, mode, up, drain, wake, stopping, call, boot, bounds>>

\* ... and the provider is asked.
Turn ==
  /\ worker = "promoted"
  /\ worker' = "turn"
  /\ row' = ProviderStarted(row, 1, 1)
  /\ UNCHANGED <<prompt, open, result, mode, up, drain, wake, stopping, call, boot, bounds, hist>>

\* Output and step-finish mark the provider checkpoint.
Output ==
  /\ worker = "turn"
  /\ row' = Advance(row, 1, "provider", "mark")
  /\ row' # row
  /\ UNCHANGED <<prompt, open, result, mode, memory, up, bounds, hist>>

\* The turn ends: with tool results to continue from, or as the final one. A chat
\* goes on when a prompt is queued; an accepted exit ends the run in any case.
EndTurn ==
  /\ worker = "turn"
  /\ row' = ProviderSettled(row, 1, row.protocol)
  /\ \/ Trial /\ worker' = "boundary" /\ UNCHANGED <<open, result>>
     \/ /\ open' = FALSE
        /\ result' = (result \/ mode = "work")
        /\ worker' = IF mode = "chat" /\ prompt THEN "boundary" ELSE "returned"
        /\ UNCHANGED bounds
  /\ UNCHANGED <<prompt, mode, up, drain, wake, stopping, call, boot, hist>>

\* Between turns: a checkpoint, and the worker may be asked for its lane.
Boundary ==
  /\ worker = "boundary"
  /\ LET r == Advance(row, 1, "drain", "mark")
     IN \/ row' = r /\ worker' = "ready" /\ UNCHANGED bounds
        \/ /\ Trial /\ MayRequeue(r, 1, FALSE)
           /\ row' = Requeued(r)
           /\ worker' = "yielded"
  /\ UNCHANGED <<prompt, open, result, mode, up, drain, wake, stopping, call, boot, hist>>

\* The worker is lost, or could not be spawned.
Lose ==
  /\ Alive /\ Trial
  /\ worker' = "dead"
  /\ UNCHANGED <<durable, up, drain, wake, stopping, call, boot, hist>>

------------------------------------------------------------------------------
Crash ==
  /\ up /\ Trial
  /\ up' = FALSE
  /\ drain' = NoDrain /\ wake' = FALSE /\ stopping' = FALSE
  /\ worker' = "off" /\ call' = NoCall /\ boot' = NoBoot
  /\ UNCHANGED <<durable, hist>>

\* Fault: the snapshot does not ask for prompts that nobody promoted.
AbandonedLatches ==
  \/ row.state = "settled" /\ row.latch # 0
  \/ row.state \in {"paused", "failed", "interrupted", "recovering"} /\ row.class # "interrupt"
  \/ row.state = "settled" /\ ~result /\ mode = "work"

\* abandonedSessions(): work that a dead host left behind.
Abandoned ==
  \/ prompt
  \/ row.state = "settled" /\ row.latch # 0
  \/ row.state \in {"paused", "failed", "interrupted", "recovering"} /\ row.class # "interrupt"
  \/ row.state = "settled" /\ ~result /\ mode = "work"

\* A host boots and takes the snapshot. `due`: the row may belong to a dead owner.
Boot ==
  /\ ~up
  /\ up' = TRUE
  /\ boot' = [abandoned |-> IF Abandoned THEN "owed" ELSE "no", recovered |-> "no",
              window |-> TRUE, due |-> row.state \in Progressing]
  /\ UNCHANGED <<durable, drain, wake, stopping, worker, call, bounds, hist>>

\* STALE_AFTER_MS without a heartbeat. Only a sweep asks.
Age ==
  /\ boot.window /\ row.state \in Progressing /\ row.beat
  /\ row' = [row EXCEPT !.beat = FALSE]
  /\ UNCHANGED <<prompt, open, result, mode, memory, up, bounds, hist>>

\* Fault: the sweep's verdict is dropped.
SweptSilently == [boot EXCEPT !.due = FALSE]

\* What the sweep found is handed to adoptRecovered().
Swept == [boot EXCEPT !.due = FALSE, !.recovered = "owed"]

\* recoverStale(), inside the window. It may meet a drain that is only silent:
\* one that waits for its lane or for a retry, or whose worker's loop is blocked.
Sweep ==
  /\ boot.window /\ boot.recovered = "no"
  /\ IsStale(row)
  /\ row' = StaleRecovered(row)
  /\ boot' = Swept
  /\ hist' = [hist EXCEPT !.mistaken = @ \/ drain.at # "none"]
  /\ UNCHANGED <<prompt, open, result, mode, up, drain, wake, stopping, worker, call, bounds>>

Arms == {"abandoned", "recovered"}

\* holdStopped(), one adoption at a time: what carries the mark of a stop is not
\* adopted ...
Gate(arm) ==
  /\ boot[arm] = "owed"
  /\ \A other \in Arms : boot[other] # "cleared"
  /\ LET stopped == row.class = "interrupt"
     IN /\ boot' = [boot EXCEPT ![arm] = IF stopped THEN "no" ELSE "cleared"]
        /\ hist' = [hist EXCEPT !.held = @ \/ stopped]
  /\ UNCHANGED <<durable, up, drain, wake, stopping, worker, call, bounds>>

\* ... and the rest gets a forced drain, unless it has one.
Adopt(arm) ==
  /\ boot[arm] = "cleared"
  /\ boot' = [boot EXCEPT ![arm] = "no"]
  /\ \/ /\ Launch(TRUE)
        /\ hist' = [hist EXCEPT !.resumed = @ \/ (hist.last = "stop" /\ call.stop = "none")]
     \/ drain.at # "none" /\ UNCHANGED <<drain, hist>>
  /\ UNCHANGED <<durable, up, wake, stopping, worker, call, bounds>>

\* The last pass. The window is twice STALE_AFTER_MS long: a row that nobody
\* touched since the boot was old enough for one of the passes.
CloseWindow ==
  /\ boot.window /\ boot.recovered = "no"
  /\ ~(boot.due /\ row.state \in Progressing)
  /\ boot' = [boot EXCEPT !.window = FALSE, !.due = FALSE]
  /\ UNCHANGED <<durable, up, drain, wake, stopping, worker, call, bounds, hist>>

DrainStep == Begin \/ TakeLane \/ Open \/ Outcome \/ Yield \/ Retry \/ Unwind
WorkerStep == Enter \/ Promote \/ Turn \/ EndTurn \/ Boundary
BootStep == Boot \/ Sweep \/ CloseWindow \/ \E arm \in Arms : Gate(arm) \/ Adopt(arm)

Next ==
  \/ Prompt \/ CallWake \/ RequestInterrupt \/ MarkInterrupt \/ InterruptDrain
  \/ DrainStep \/ WorkerStep \/ Output \/ Lose
  \/ Crash \/ BootStep \/ Age

Spec == Init /\ [][Next]_vars

\* The host's fibers run, a worker that is not lost gets on with its turn, a dead
\* host is restarted, and a row that nobody touches grows old.
Fairness ==
  /\ WF_vars(CallWake) /\ WF_vars(MarkInterrupt) /\ WF_vars(InterruptDrain)
  /\ WF_vars(DrainStep) /\ WF_vars(WorkerStep)
  /\ WF_vars(Boot) /\ WF_vars(Sweep) /\ WF_vars(CloseWindow)
  /\ \A arm \in Arms : WF_vars(Gate(arm)) /\ WF_vars(Adopt(arm))
  /\ WF_vars(drain.at = "none" /\ Age)

FairSpec == Spec /\ Fairness

------------------------------------------------------------------------------
Stopped == hist.last = "stop"

\* Somebody is in charge of a row that says it progresses: a drain, a request about
\* to wake one, or a boot sweep that will find it. After a stop a late write of the
\* worker may leave such a row behind, and so may a sweep that took a silent drain
\* for a dead one.
InCharge ==
  up /\ row.state \in Progressing =>
    \/ drain.at # "none" \/ call.wake
    \/ boot.due \/ boot.recovered # "no"
    \/ Stopped \/ hist.mistaken

\* A prompt the API has accepted is promoted, whatever dies in between: only a stop,
\* or the mark of one, takes it off.
PromptServed == prompt ~> ~prompt \/ Stopped \/ hist.held

\* A promoted prompt gets its final turn, although workers are lost, yield their
\* lane and are restarted with their host. A stop takes down what its worker took.
WorkResumes == open ~> ~open \/ Stopped \/ hist.held \/ hist.mistaken \/ hist.taken

\* A provider latch is consumed: a turn that a lost worker or host left open is
\* abandoned by a later one, never forgotten.
LatchConsumed == row.latch # 0 ~> row.latch = 0 \/ Stopped \/ hist.held \/ hist.mistaken

Drains == INSTANCE SessionDrains WITH
  Keys <- {"session"},
  phase <- [s \in {"session"} |->
     CASE drain.at = "none" -> "idle" [] drain.at = "queued" -> "queued" [] OTHER -> "draining"],
  followUp <- [s \in {"session"} |-> wake],
  stopping <- [s \in {"session"} |-> stopping]

\* Of its coordinator the runtime uses what SessionDrains promises and
\* RunCoordinator implements, for as long as the host lives.
UsesDrains == [][up' => Drains!Next]_(Drains!vars)

\* "Whatever a sweep found, a session someone stopped stays stopped"
\* (boot-recovery.ts, start()): boot adopts no session whose last user act was a stop
\* that is complete.
StoppedStaysStopped == ~hist.resumed
==============================================================================
