------------------------------ MODULE AttemptRow ------------------------------
(***************************************************************************)
(* packages/core/src/session/execution-attempt.ts and recovery-decision.ts *)
(* : the durable session_execution row of one session, and every UPDATE    *)
(* the service makes, as a function from the row to the next row.          *)
(*                                                                         *)
(* start() draws a fresh attempt id with every generation, so the fence    *)
(* (attempt_id, generation) is the generation alone. A timestamp is kept   *)
(* as what readers ask of it: heartbeat_at as `beat` (recent or not), and  *)
(* checkpoint_at as the generation that stamped it (0 for null). The tool  *)
(* columns and served_by carry the generation that wrote them.             *)
(***************************************************************************)
EXTENDS Naturals

CONSTANTS
  Calls,     \* tool call ids
  MaxGen,    \* bound on generations
  MaxTurns,  \* bound on provider turns; a turn is the latch's attemptID
  MaxCount   \* bound at which failure_count saturates

ASSUME RowAssumption ==
  /\ MaxGen \in Nat \ {0}
  /\ MaxTurns \in Nat \ {0}
  /\ MaxCount \in Nat \ {0}

Gens == 1..MaxGen
Turns == 1..MaxTurns

Progressing == {"starting", "busy", "recovering"}
Halted == {"failed", "interrupted", "paused", "settled"}

\* decide() tells "read" apart from every other side effect.
Effects == {"read", "write"}

NoTool == [by |-> 0, call |-> "none", effect |-> "none", settled |-> FALSE]
Tools == {NoTool} \cup [by : Gens, call : Calls, effect : Effects, settled : BOOLEAN]

RowRec ==
  [gen : 0..MaxGen, state : Progressing \cup Halted \cup {"absent"},
   phase : {"drain", "provider", "tool"}, checkpoint : 0..MaxGen,
   class : {"none", "interrupt", "loss"}, count : 0..MaxCount, tool : Tools,
   latch : 0..MaxTurns, protocol : BOOLEAN, served : SUBSET Gens, beat : BOOLEAN]

NoRow ==
  [gen |-> 0, state |-> "absent", phase |-> "drain", checkpoint |-> 0, class |-> "none",
   count |-> 0, tool |-> NoTool, latch |-> 0, protocol |-> FALSE, served |-> {}, beat |-> FALSE]

\* failure_count + 1, up to the bound.
Counted(r) == IF r.count < MaxCount THEN r.count + 1 ELSE r.count

------------------------------------------------------------------------------
\* Fault: start() leaves what the previous attempt knew about its tools.
StartKeepsFacts(r) ==
  [r EXCEPT !.gen = @ + 1, !.state = "busy", !.phase = "drain", !.class = "none", !.beat = TRUE]

\* start(): a new generation. The provider latch and the failure count survive.
Started(r) ==
  [r EXCEPT !.gen = @ + 1, !.state = "busy", !.phase = "drain", !.checkpoint = 0,
            !.class = "none", !.tool = NoTool, !.served = {}, !.beat = TRUE]

Heartbeat(r, g) == IF r.gen = g THEN [r EXCEPT !.beat = TRUE] ELSE r

\* advance(): mark is "mark", "clear" or "keep".
Advance(r, g, phase, mark) ==
  IF r.gen # g THEN r
  ELSE [r EXCEPT !.state = "busy", !.phase = phase, !.beat = TRUE,
                 !.checkpoint = CASE mark = "mark" -> g [] mark = "clear" -> 0 [] OTHER -> @]

ToolDispatched(r, g, c, effect) ==
  IF r.gen # g THEN r
  ELSE [r EXCEPT !.state = "busy", !.phase = "tool", !.checkpoint = 0, !.beat = TRUE,
                 !.tool = [by |-> g, call |-> c, effect |-> effect, settled |-> FALSE]]

ToolSettled(r, g, c) ==
  IF r.gen # g \/ r.tool = NoTool \/ r.tool.call # c THEN r
  ELSE [r EXCEPT !.tool.settled = TRUE, !.checkpoint = g, !.count = 0, !.beat = TRUE]

ProviderStarted(r, g, turn) ==
  IF r.gen # g THEN r
  ELSE [r EXCEPT !.state = "busy", !.phase = "provider", !.checkpoint = 0, !.tool = NoTool,
                 !.latch = turn, !.protocol = FALSE, !.beat = TRUE]

ServedBy(r, g) == IF r.gen = g THEN [r EXCEPT !.served = @ \cup {g}] ELSE r

ProviderToolProtocol(r, g) ==
  IF r.gen # g \/ r.latch = 0 THEN r ELSE [r EXCEPT !.protocol = TRUE]

\* Fault: the update of providerSettled() without the fence of the lease.
ProviderSettledUnfenced(r, g, protocol) ==
  [r EXCEPT !.latch = 0, !.protocol = FALSE, !.count = IF protocol THEN @ ELSE 0]

\* providerSettled() reads the latch and writes later, in two statements: what
\* it read decides whether it writes (the turn) and whether the count restarts.
ProviderSettled(r, g, protocol) ==
  IF r.gen # g THEN r
  ELSE [r EXCEPT !.latch = 0, !.protocol = FALSE, !.count = IF protocol THEN @ ELSE 0]

\* Fault: the commit of settle() does not look at the latch.
SettlementIgnoresLatch(r, g, finished) ==
  IF r.gen # g \/ r.state \notin {"starting", "busy"} THEN "superseded"
  ELSE IF finished THEN "committed" ELSE "unfinished"

\* What settle() answers. finished: the completion is a chat reply, or the
\* session has a result.
Settlement(r, g, finished) ==
  IF r.gen # g \/ r.state \notin {"starting", "busy"} THEN "superseded"
  ELSE IF r.latch # 0 THEN "recovery-pending"
  ELSE IF finished THEN "committed" ELSE "unfinished"

Settled(r, g, finished) ==
  CASE Settlement(r, g, finished) = "committed" ->
         [r EXCEPT !.state = "settled", !.checkpoint = g, !.class = "none", !.count = 0, !.beat = TRUE]
    [] Settlement(r, g, finished) = "recovery-pending" -> [r EXCEPT !.state = "busy", !.beat = TRUE]
    [] OTHER -> r

\* requestInterrupt(): no fence. Its first statement stops a progressing row ...
InterruptRequested(r) ==
  IF r.state \notin Progressing THEN r
  ELSE [r EXCEPT !.state = "interrupted", !.class = "interrupt", !.latch = 0,
                 !.protocol = FALSE, !.beat = TRUE]

\* ... and if it found none, a second one leaves the mark alone, on whatever row there is by then.
InterruptMarked(r) == IF r.state = "absent" THEN r ELSE [r EXCEPT !.class = "interrupt"]

\* decide() of recovery-decision.ts: the action, from the row's boundary.
Decide(r) ==
  IF r.phase = "tool"
    THEN IF r.checkpoint # 0 THEN "continue"
         ELSE IF r.tool # NoTool /\ ~r.tool.settled /\ r.tool.effect = "read" THEN "retry"
         ELSE "inspect"
  ELSE IF r.phase = "provider" /\ r.checkpoint # 0 THEN "continue"
  ELSE "retry"

\* recoverFailure() acts on the row of its lease while it is progressing.
MayRecover(r, g) == r.gen = g /\ r.state \in Progressing
FailureRecovered(r, g) ==
  IF ~MayRecover(r, g) THEN r
  ELSE [r EXCEPT !.state = "recovering", !.class = "loss", !.count = Counted(r), !.beat = TRUE]

\* recoverStale() acts on any progressing row whose heartbeat is old.
IsStale(r) == r.state \in Progressing /\ ~r.beat

\* Fault: the sweep records its own name, which is no class of failure.
StaleUnclassified(r) ==
  [r EXCEPT !.state = "recovering", !.class = "stale", !.count = Counted(r), !.beat = TRUE]

StaleRecovered(r) ==
  [r EXCEPT !.state = "recovering", !.class = "loss", !.count = Counted(r), !.beat = TRUE]

RetryAuthorized(r) ==
  IF r.state = "absent" THEN r
  ELSE [r EXCEPT !.state = "starting", !.class = "none", !.count = 0, !.checkpoint = 0, !.beat = TRUE]

\* pause() and requeue() are fenced, and ask for a state.
Paused(r, g) == IF r.gen = g /\ r.state \in Progressing THEN [r EXCEPT !.state = "paused"] ELSE r

\* job: the session has a background command still running.
MayRequeue(r, g, job) ==
  /\ r.gen = g
  /\ r.state = "busy"
  /\ r.checkpoint # 0
  /\ r.latch = 0
  /\ r.tool = NoTool \/ r.tool.settled
  /\ ~job
\* Fault: requeue() writes a state that no reader classifies.
RequeuedUnclassified(r) == [r EXCEPT !.state = "queued", !.phase = "drain"]

Requeued(r) == [r EXCEPT !.state = "starting", !.phase = "drain"]
==============================================================================
