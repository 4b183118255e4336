------------------------ MODULE ExecutionAttemptProofs ------------------------
(***************************************************************************)
(* Proofs about ExecutionAttempt for any set of calls and all bounds. That *)
(* the row keeps RowInv is shown per UPDATE in AttemptRowProofs; that the  *)
(* latch is an obligation also needs what the current runner knows of it.  *)
(***************************************************************************)
EXTENDS ExecutionAttempt, AttemptRowProofs

USE RowAssumption, StopsAssumption

\* A runner of the current lease that begins a turn finds no latch, and while its
\* turn is open the latch is that turn's or has been cancelled.
LatchInv ==
  \A g \in Gens : g = row.gen =>
    /\ runner[g].status = "idle" => row.latch = 0
    /\ runner[g].status \in {"turn", "closing"} => row.latch \in {0, runner[g].turn}

IInv == TypeOK /\ RowInv(row) /\ LatchInv

------------------------------------------------------------------------------
\* A runner that has let go of its turn, or just begun one.
LEMMA OffRec ==
  /\ Off \in RunnerRec /\ Off.status = "off"
  /\ \A st \in {"fresh", "idle"} :
       [Off EXCEPT !.status = st] \in RunnerRec /\ [Off EXCEPT !.status = st].status = st
  /\ \A t \in 0..MaxTurns :
       /\ [Off EXCEPT !.status = "turn", !.turn = t] \in RunnerRec
       /\ [Off EXCEPT !.status = "turn", !.turn = t].status = "turn"
       /\ [Off EXCEPT !.status = "turn", !.turn = t].turn = t
BY Values DEF Off, RunnerRec

\* A recovery decision is one of decide()'s actions.
LEMMA JudgedType == Judged \in Verdicts
BY DEF Judged, Verdicts, Decide

\* The history variables and bounds of the model.
Others == turns \in 0..MaxTurns /\ acts \in 0..MaxStops /\ marking \in BOOLEAN
          /\ verdict \in Verdicts

\* The shape of every step that leaves the runners alone.
LEMMA RowStep ==
  ASSUME IInv, runner' = runner, RowInv(row'), row'.gen = row.gen,
         row'.latch = row.latch \/ row'.latch = 0, Others'
  PROVE  IInv'
BY DEF IInv, TypeOK, LatchInv, RowInv, Others

\* The shape of every step of one runner.
LEMMA RunnerStepInv ==
  ASSUME IInv, NEW g \in Gens, NEW x \in RunnerRec, runner' = [runner EXCEPT ![g] = x],
         RowInv(row'), row'.gen = row.gen,
         row.gen # g => row'.latch = row.latch,
         row.gen = g /\ x.status = "idle" => row'.latch = 0,
         row.gen = g /\ x.status \in {"turn", "closing"} => row'.latch \in {0, x.turn},
         Others'
  PROVE  IInv'
<1>1. runner \in [Gens -> RunnerRec] /\ LatchInv
  BY DEF IInv, TypeOK
<1>2. runner' \in [Gens -> RunnerRec]
  BY <1>1
<1>3. TypeOK'
  BY <1>2 DEF TypeOK, RowInv, Others
<1>4. LatchInv'
  <2> SUFFICES ASSUME NEW h \in Gens, h = row'.gen
               PROVE  /\ runner'[h].status = "idle" => row'.latch = 0
                      /\ runner'[h].status \in {"turn", "closing"} => row'.latch \in {0, runner'[h].turn}
    BY DEF LatchInv
  <2>1. CASE h = g
    BY <1>1, <2>1
  <2>2. CASE h # g
    BY <1>1, <2>2 DEF LatchInv
  <2> QED BY <2>1, <2>2
<1> QED BY <1>3, <1>4 DEF IInv

\* The initial state satisfies the invariant.
LEMMA InitIInv == Init => IInv
<1> SUFFICES ASSUME Init PROVE IInv
  OBVIOUS
<1>1. RowInv(row)
  BY NoRowInv DEF Init
<1>2. runner \in [Gens -> RunnerRec]
  BY OffRec DEF Init
<1>3. verdict \in Verdicts
  BY DEF Init, NoVerdict, Verdicts
<1>4. TypeOK
  <2>1. marking \in BOOLEAN
    BY Zenon DEF Init
  <2> QED BY <1>1, <1>2, <1>3, <2>1 DEF Init, TypeOK, RowInv
<1>5. LatchInv
  BY DEF Init, LatchInv, NoRow, Gens
<1> QED BY <1>1, <1>4, <1>5 DEF IInv

\* A new attempt begins with a runner that has not looked at the latch.
LEMMA StartIInv == IInv /\ Start => IInv'
<1> SUFFICES ASSUME IInv, Start PROVE IInv'
  OBVIOUS
<1> DEFINE x == [Off EXCEPT !.status = "fresh"]
<1>1. RowInv(row) /\ row.gen \in 0..MaxGen /\ runner \in [Gens -> RunnerRec] /\ Others
  BY DEF IInv, TypeOK, RowRec, Others
<1>2. RowInv(row') /\ row'.gen = row.gen + 1
  BY <1>1, StartedInv DEF Start
<1>3. x \in RunnerRec /\ x.status = "fresh"
  BY OffRec
<1>4. row.gen + 1 \in Gens
  BY <1>1 DEF Start, Gens
<1>5. runner' = [runner EXCEPT ![row.gen + 1] = x]
  BY DEF Start
<1> HIDE DEF x
<1>6. runner' \in [Gens -> RunnerRec] /\ runner'[row.gen + 1].status = "fresh"
  BY <1>1, <1>3, <1>4, <1>5
<1>7. TypeOK'
  BY <1>1, <1>2, <1>6 DEF TypeOK, RowInv, Start, Others
<1>8. LatchInv'
  BY <1>2, <1>6 DEF LatchInv
<1> QED BY <1>2, <1>7, <1>8 DEF IInv

\* Looking at the latch: it is adopted for closing, or there is none.
LEMMA EnterIInv == ASSUME NEW g \in Gens PROVE IInv /\ Enter(g) => IInv'
<1> SUFFICES ASSUME IInv, Enter(g) PROVE IInv'
  OBVIOUS
<1> DEFINE a == [runner[g] EXCEPT !.status = "closing", !.turn = row.latch,
                                  !.protocol = row.protocol]
           b == [runner[g] EXCEPT !.status = "idle"]
           x == IF row.gen = g /\ row.latch # 0 THEN a ELSE b
<1>1. RowInv(row') /\ row' = row /\ runner[g] \in RunnerRec /\ Others' /\ row \in RowRec
  BY DEF IInv, TypeOK, Enter, Others
<1>2. row.latch \in 0..MaxTurns /\ row.protocol \in BOOLEAN
  BY <1>1 DEF RowRec
<1>3. a \in RunnerRec /\ a.status = "closing" /\ a.turn = row.latch
  BY <1>1, <1>2 DEF RunnerRec
<1>4. b \in RunnerRec /\ b.status = "idle"
  BY <1>1 DEF RunnerRec
<1>5. runner' = [runner EXCEPT ![g] = x]
  BY DEF Enter
<1> HIDE DEF a, b
<1>6. x \in RunnerRec
  BY <1>3, <1>4
<1>7. /\ row.gen = g /\ x.status = "idle" => row'.latch = 0
      /\ row.gen = g /\ x.status \in {"turn", "closing"} => row'.latch \in {0, x.turn}
  BY <1>1, <1>3, <1>4
<1> HIDE DEF x
<1> QED BY <1>1, <1>5, <1>6, <1>7, RunnerStepInv

\* A turn begins: the runner remembers the latch it sets.
LEMMA TurnIInv == ASSUME NEW g \in Gens PROVE IInv /\ Turn(g) => IInv'
<1> SUFFICES ASSUME IInv, Turn(g) PROVE IInv'
  OBVIOUS
<1> DEFINE x == [Off EXCEPT !.status = "turn", !.turn = turns + 1]
<1>1. RowInv(row) /\ turns + 1 \in 0..MaxTurns /\ Others'
  BY DEF IInv, TypeOK, Turn, Others
<1>2. RowInv(row') /\ row'.gen = row.gen /\ row'.latch = IF row.gen = g THEN turns + 1 ELSE row.latch
  BY <1>1, ProviderStartedInv DEF Turn
<1>3. x \in RunnerRec /\ x.status = "turn" /\ x.turn = turns + 1
  BY <1>1, OffRec
<1>4. runner' = [runner EXCEPT ![g] = x]
  BY DEF Turn
<1> HIDE DEF x
<1> QED BY <1>1, <1>2, <1>3, <1>4, RunnerStepInv

\* A runner that keeps its status and its turn.
LEMMA SameTurn ==
  ASSUME IInv, NEW g \in Gens, NEW x \in RunnerRec, runner' = [runner EXCEPT ![g] = x],
         x.status = runner[g].status, x.turn = runner[g].turn,
         RowInv(row'), row'.gen = row.gen, row'.latch = row.latch, Others'
  PROVE  IInv'
<1>1. row.gen = g /\ x.status = "idle" => row'.latch = 0
  BY DEF IInv, LatchInv
<1>2. row.gen = g /\ x.status \in {"turn", "closing"} => row'.latch \in {0, x.turn}
  BY DEF IInv, LatchInv
<1> QED BY <1>1, <1>2, RunnerStepInv

\* Output of the provider.
LEMMA OutputIInv == ASSUME NEW g \in Gens PROVE IInv /\ Output(g) => IInv'
<1> SUFFICES ASSUME IInv, Output(g) PROVE IInv'
  OBVIOUS
<1> DEFINE x == [runner[g] EXCEPT !.stage = "spoke"]
<1>1. RowInv(row) /\ runner[g] \in RunnerRec /\ Others'
  BY DEF IInv, TypeOK, Output, Others
<1>2. RowInv(row') /\ row'.gen = row.gen /\ row'.latch = row.latch
  BY <1>1, AdvanceInv DEF Output
<1>3. x \in RunnerRec /\ x.status = runner[g].status /\ x.turn = runner[g].turn
  BY <1>1 DEF RunnerRec
<1>4. runner' = [runner EXCEPT ![g] = x]
  BY DEF Output
<1> HIDE DEF x
<1> QED BY <1>1, <1>2, <1>3, <1>4, SameTurn

\* The end of a step, and the serving identity it may carry.
LEMMA StepFinishIInv == ASSUME NEW g \in Gens PROVE IInv /\ StepFinish(g) => IInv'
<1> SUFFICES ASSUME IInv, StepFinish(g) PROVE IInv'
  OBVIOUS
<1> DEFINE x == [runner[g] EXCEPT !.stage = "finished"]
           r == Advance(row, g, "provider", "mark")
<1>1. RowInv(row) /\ runner[g] \in RunnerRec /\ Others'
  BY DEF IInv, TypeOK, StepFinish, Others
<1>2. RowInv(r) /\ r.gen = row.gen /\ r.latch = row.latch
  BY <1>1, AdvanceInv
<1>3. row' = r \/ row' = ServedBy(r, g)
  BY DEF StepFinish
<1> HIDE DEF r
<1>4. RowInv(row') /\ row'.gen = row.gen /\ row'.latch = row.latch
  <2>1. /\ RowInv(ServedBy(r, g)) /\ ServedBy(r, g).gen = r.gen
        /\ ServedBy(r, g).latch = r.latch
    BY <1>2, ProviderInv, TRUE \in BOOLEAN
  <2> QED BY <1>2, <1>3, <2>1
<1>5. x \in RunnerRec /\ x.status = runner[g].status /\ x.turn = runner[g].turn
  BY <1>1 DEF RunnerRec
<1>6. runner' = [runner EXCEPT ![g] = x]
  BY DEF StepFinish
<1> HIDE DEF x
<1> QED BY <1>1, <1>4, <1>5, <1>6, SameTurn

\* A tool's receipt is fenced.
LEMMA DispatchIInv ==
  ASSUME NEW g \in Gens, NEW c \in Calls, NEW effect \in Effects
  PROVE  IInv /\ Dispatch(g, c, effect) => IInv'
<1> SUFFICES ASSUME IInv, Dispatch(g, c, effect) PROVE IInv'
  OBVIOUS
<1> DEFINE t == [by |-> g, call |-> c, effect |-> effect, settled |-> FALSE]
           x == [runner[g] EXCEPT !.calling = t]
           r == ToolDispatched(row, g, c, effect)
<1>1. RowInv(row) /\ runner[g] \in RunnerRec /\ Others'
  BY DEF IInv, TypeOK, Dispatch, Others
<1>2. RowInv(r) /\ r.gen = row.gen /\ r.latch = row.latch
  BY <1>1, ToolDispatchedInv
<1>3. row' = Advance(r, g, "tool", "clear") /\ runner' = [runner EXCEPT ![g] = x]
  BY DEF Dispatch
<1> HIDE DEF r
<1>4. RowInv(row') /\ row'.gen = row.gen /\ row'.latch = row.latch
  BY <1>2, <1>3, AdvanceInv
<1>5. t \in Tools
  BY DEF Tools
<1> HIDE DEF t
<1>6. x \in RunnerRec /\ x.status = runner[g].status /\ x.turn = runner[g].turn
  BY <1>1, <1>5 DEF RunnerRec
<1> HIDE DEF x
<1> QED BY <1>1, <1>3, <1>4, <1>6, SameTurn

\* The tool runs.
LEMMA CallIInv == ASSUME NEW g \in Gens PROVE IInv /\ Call(g) => IInv'
<1> SUFFICES ASSUME IInv, Call(g) PROVE IInv'
  OBVIOUS
<1> DEFINE o == runner[g].open \cup {runner[g].calling}
           x == [runner[g] EXCEPT !.open = o, !.calling = NoTool]
<1>1. RowInv(row) /\ runner[g] \in RunnerRec /\ runner \in [Gens -> RunnerRec] /\ Others'
  BY DEF IInv, TypeOK, Call, Others
<1>2. RowInv(row') /\ row'.gen = row.gen /\ row'.latch = row.latch
  BY <1>1, ProviderInv DEF Call
<1>3. o \in SUBSET Tools
  BY <1>1 DEF RunnerRec
<1>4. runner' = [runner EXCEPT ![g] = x]
  BY <1>1 DEF Call, RunnerRec
<1> HIDE DEF o
<1>5. x \in RunnerRec /\ x.status = runner[g].status /\ x.turn = runner[g].turn
  BY <1>1, <1>3, Values DEF RunnerRec
<1> HIDE DEF x
<1> QED BY <1>1, <1>2, <1>4, <1>5, SameTurn

\* A tool's result is durable.
LEMMA ToolDoneIInv ==
  ASSUME NEW g \in Gens, NEW t \in Tools PROVE IInv /\ ToolDone(g, t) => IInv'
<1> SUFFICES ASSUME IInv, ToolDone(g, t) PROVE IInv'
  OBVIOUS
<1> DEFINE o == runner[g].open \ {t}
           x == [runner[g] EXCEPT !.open = o]
           r == Advance(row, g, "tool", "mark")
<1>1. RowInv(row) /\ runner[g] \in RunnerRec /\ Others'
  BY DEF IInv, TypeOK, ToolDone, Others
<1>2. RowInv(r) /\ r.gen = row.gen /\ r.latch = row.latch
  BY <1>1, AdvanceInv
<1>3. row' = ToolSettled(r, g, t.call) /\ runner' = [runner EXCEPT ![g] = x]
  BY DEF ToolDone
<1> HIDE DEF r
<1>4. RowInv(row') /\ row'.gen = row.gen /\ row'.latch = row.latch
  BY <1>2, <1>3, ToolSettledInv
<1>5. o \in SUBSET Tools
  BY <1>1 DEF RunnerRec
<1> HIDE DEF o
<1>6. x \in RunnerRec /\ x.status = runner[g].status /\ x.turn = runner[g].turn
  BY <1>1, <1>5 DEF RunnerRec
<1> HIDE DEF x
<1> QED BY <1>1, <1>3, <1>4, <1>6, SameTurn

\* The end of a turn: the latch is still its own, or was cancelled.
LEMMA EndTurnIInv == ASSUME NEW g \in Gens PROVE IInv /\ EndTurn(g) => IInv'
<1> SUFFICES ASSUME IInv, EndTurn(g) PROVE IInv'
  OBVIOUS
<1> DEFINE a == [runner[g] EXCEPT !.status = "closing", !.protocol = row.protocol]
           b == [Off EXCEPT !.status = "idle"]
           x == IF row.gen = g /\ row.latch = runner[g].turn THEN a ELSE b
<1>1. RowInv(row') /\ row' = row /\ runner[g] \in RunnerRec /\ Others' /\ row \in RowRec
  BY DEF IInv, TypeOK, EndTurn, Others
<1>2. row.protocol \in BOOLEAN
  BY <1>1 DEF RowRec
<1>3. a \in RunnerRec /\ a.status = "closing" /\ a.turn = runner[g].turn
  BY <1>1, <1>2 DEF RunnerRec
<1>4. b \in RunnerRec /\ b.status = "idle"
  BY OffRec
<1>5. runner' = [runner EXCEPT ![g] = x]
  BY DEF EndTurn
<1>6. row.gen = g => row.latch \in {0, runner[g].turn}
  BY DEF IInv, LatchInv, EndTurn
<1> HIDE DEF a, b
<1>7. x \in RunnerRec
  BY <1>3, <1>4
<1>8. /\ row.gen = g /\ x.status = "idle" => row'.latch = 0
      /\ row.gen = g /\ x.status \in {"turn", "closing"} => row'.latch \in {0, x.turn}
  BY <1>1, <1>3, <1>4, <1>6
<1> HIDE DEF x
<1> QED BY <1>1, <1>5, <1>7, <1>8, RunnerStepInv

\* The latch is cleared.
LEMMA CloseIInv == ASSUME NEW g \in Gens PROVE IInv /\ Close(g) => IInv'
<1> SUFFICES ASSUME IInv, Close(g) PROVE IInv'
  OBVIOUS
<1> DEFINE x == [Off EXCEPT !.status = "idle"]
<1>1. RowInv(row) /\ runner[g] \in RunnerRec /\ Others'
  BY DEF IInv, TypeOK, Close, Others
<1>2. runner[g].protocol \in BOOLEAN
  BY <1>1 DEF RunnerRec
<1>3. RowInv(row') /\ row'.gen = row.gen /\ row'.latch = IF row.gen = g THEN 0 ELSE row.latch
  BY <1>1, <1>2, ProviderInv DEF Close
<1>4. x \in RunnerRec /\ x.status = "idle"
  BY OffRec
<1>5. runner' = [runner EXCEPT ![g] = x]
  BY DEF Close
<1> HIDE DEF x
<1> QED BY <1>1, <1>3, <1>4, <1>5, RunnerStepInv

\* A checkpoint between turns, and a yield.
LEMMA BoundaryIInv == ASSUME NEW g \in Gens PROVE IInv /\ Boundary(g) => IInv'
<1> SUFFICES ASSUME IInv, Boundary(g) PROVE IInv'
  OBVIOUS
<1> DEFINE r == Advance(row, g, "drain", "mark")
<1>1. RowInv(row) /\ Others'
  BY DEF IInv, TypeOK, Boundary, Others
<1>2. RowInv(r) /\ r.gen = row.gen /\ r.latch = row.latch
  BY <1>1, AdvanceInv
<1>3. \/ row' = r /\ runner' = runner
      \/ row' = Requeued(r) /\ runner' = [runner EXCEPT ![g] = Off]
  BY DEF Boundary
<1> HIDE DEF r
<1>4. RowInv(row') /\ row'.gen = row.gen /\ row'.latch = row.latch
  BY <1>2, <1>3, HandlingInv
<1>5. CASE runner' = runner
  BY <1>1, <1>4, <1>5, RowStep
<1>6. CASE runner' = [runner EXCEPT ![g] = Off]
  <2>1. Off \in RunnerRec /\ Off.status = "off"
    BY OffRec
  <2> QED BY <1>1, <1>4, <1>6, <2>1, RunnerStepInv
<1> QED BY <1>3, <1>5, <1>6

\* The host settles, or counts the unfinished work as a failure.
LEMMA ReturnIInv ==
  ASSUME NEW g \in Gens, NEW finished \in BOOLEAN PROVE IInv /\ Return(g, finished) => IInv'
<1> SUFFICES ASSUME IInv, Return(g, finished) PROVE IInv'
  OBVIOUS
<1> DEFINE r == Settled(row, g, finished)
<1>1. RowInv(row) /\ Others
  BY DEF IInv, TypeOK, Others
<1>2. RowInv(r) /\ r.gen = row.gen /\ r.latch = row.latch
  BY <1>1, SettledInv
<1>3. /\ row' = FailureRecovered(r, g) \/ row' = r
      /\ verdict' = Judged \/ verdict' = verdict
      /\ turns' = turns /\ acts' = acts /\ marking' = marking
      /\ runner' = [runner EXCEPT ![g] = Off]
  BY DEF Return
<1> HIDE DEF r
<1>4. RowInv(row') /\ row'.gen = row.gen /\ row'.latch = row.latch
  BY <1>2, <1>3, RecoveredInv
<1>5. Others'
  BY <1>1, <1>3, JudgedType DEF Others
<1>6. Off \in RunnerRec /\ Off.status = "off"
  BY OffRec
<1> QED BY <1>3, <1>4, <1>5, <1>6, RunnerStepInv

\* A worker dies, and its host notices.
LEMMA LossIInv ==
  ASSUME NEW g \in Gens PROVE IInv /\ (Lose(g) \/ RecoverFailure(g)) => IInv'
<1>1. ASSUME IInv, Lose(g) PROVE IInv'
  <2> DEFINE x == [runner[g] EXCEPT !.status = "lost"]
  <2>1. RowInv(row') /\ row' = row /\ runner[g] \in RunnerRec /\ Others'
    BY <1>1 DEF IInv, TypeOK, Lose, Others
  <2>2. x \in RunnerRec /\ x.status = "lost"
    BY <2>1 DEF RunnerRec
  <2>3. runner' = [runner EXCEPT ![g] = x]
    BY <1>1 DEF Lose
  <2> HIDE DEF x
  <2> QED BY <1>1, <2>1, <2>2, <2>3, RunnerStepInv
<1>2. ASSUME IInv, RecoverFailure(g) PROVE IInv'
  <2>1. RowInv(row) /\ Others
    BY <1>2 DEF IInv, TypeOK, Others
  <2>2. RowInv(row') /\ row'.gen = row.gen /\ row'.latch = row.latch
    BY <1>2, <2>1, RecoveredInv DEF RecoverFailure
  <2>4. Others'
    BY <1>2, <2>1, JudgedType DEF RecoverFailure, Others
  <2>5. runner' = [runner EXCEPT ![g] = Off]
    BY <1>2 DEF RecoverFailure
  <2>6. Off \in RunnerRec /\ Off.status = "off"
    BY OffRec
  <2> QED BY <1>2, <2>2, <2>4, <2>5, <2>6, RunnerStepInv
<1> QED BY <1>1, <1>2

\* The steps that no runner takes, and the heartbeat.
LEMMA EnvironmentIInv ==
  ASSUME NEW g \in Gens
  PROVE  IInv /\ (RecoverStale \/ Beat(g) \/ Age \/ Operate \/ Stop \/ Mark) => IInv'
<1> SUFFICES ASSUME IInv, RecoverStale \/ Beat(g) \/ Age \/ Operate \/ Stop \/ Mark PROVE IInv'
  OBVIOUS
<1>1. RowInv(row) /\ Others
  BY DEF IInv, TypeOK, Others
<1>2. CASE RecoverStale
  <2>1. RowInv(row') /\ row'.gen = row.gen /\ row'.latch = row.latch
    BY <1>1, <1>2, RecoveredInv DEF RecoverStale
  <2>3. Others' /\ runner' = runner
    BY <1>1, <1>2, JudgedType DEF RecoverStale, Others
  <2> QED BY <2>1, <2>3, RowStep
<1>3. CASE Beat(g)
  <2>1. RowInv(row') /\ row'.gen = row.gen /\ row'.latch = row.latch
    BY <1>1, <1>3, HeartbeatInv DEF Beat
  <2>2. Others' /\ runner' = runner
    BY <1>1, <1>3 DEF Beat, Others
  <2> QED BY <2>1, <2>2, RowStep
<1>4. CASE Age
  <2>1. RowInv(row') /\ row'.gen = row.gen /\ row'.latch = row.latch
    BY <1>1, <1>4, HeartbeatInv DEF Age
  <2>2. Others' /\ runner' = runner
    BY <1>1, <1>4 DEF Age, Others
  <2> QED BY <2>1, <2>2, RowStep
<1>5. CASE Operate
  <2>1. row' = RetryAuthorized(row) \/ row' = Paused(row, row.gen)
    BY <1>5 DEF Operate
  <2>2. RowInv(row') /\ row'.gen = row.gen /\ row'.latch = row.latch
    BY <1>1, <2>1, HandlingInv
  <2>4. Others' /\ runner' = runner
    BY <1>1, <1>5 DEF Operate, Others
  <2> QED BY <2>2, <2>4, RowStep
<1>6. CASE Stop \/ Mark
  <2>1. row' = InterruptRequested(row) \/ row' = InterruptMarked(row)
    BY <1>6 DEF Stop, Mark
  <2>2. RowInv(row') /\ row'.gen = row.gen /\ (row'.latch = row.latch \/ row'.latch = 0)
    BY <1>1, <2>1, InterruptInv, MarkInv
  <2>3. Others' /\ runner' = runner
    <3>1. marking' \in BOOLEAN
      BY <1>6, Zenon DEF Stop, Mark
    <3> QED BY <1>1, <1>6, <3>1 DEF Stop, Mark, Others
  <2> QED BY <2>2, <2>3, RowStep
<1> QED BY <1>2, <1>3, <1>4, <1>5, <1>6

\* Every step keeps the invariant.
LEMMA NextIInv == IInv /\ [Next]_vars => IInv'
<1> SUFFICES ASSUME IInv, [Next]_vars PROVE IInv'
  OBVIOUS
<1>1. CASE UNCHANGED vars
  <2>1. RowInv(row') /\ row' = row /\ runner' = runner /\ Others'
    BY <1>1 DEF vars, IInv, TypeOK, Others
  <2> QED BY <2>1, RowStep
<1>2. CASE Start
  BY <1>2, StartIInv
<1>3. CASE RecoverStale \/ Age \/ Operate \/ Stop \/ Mark
  <2>1. 1 \in Gens
    BY DEF Gens
  <2> QED BY <1>3, <2>1, EnvironmentIInv
<1>4. CASE \E g \in Gens : RunnerStep(g)
  <2> PICK g \in Gens : RunnerStep(g)
    BY <1>4
  <2>1. CASE Enter(g)
    BY <2>1, EnterIInv
  <2>2. CASE Turn(g)
    BY <2>2, TurnIInv
  <2>3. CASE Output(g)
    BY <2>3, OutputIInv
  <2>4. CASE StepFinish(g)
    BY <2>4, StepFinishIInv
  <2>5. CASE Call(g)
    BY <2>5, CallIInv
  <2>6. CASE EndTurn(g)
    BY <2>6, EndTurnIInv
  <2>7. CASE Close(g)
    BY <2>7, CloseIInv
  <2>8. CASE Boundary(g)
    BY <2>8, BoundaryIInv
  <2>9. CASE \E c \in Calls, effect \in Effects : Dispatch(g, c, effect)
    BY <2>9, DispatchIInv
  <2>10. CASE \E t \in Tools : ToolDone(g, t)
    BY <2>10, ToolDoneIInv
  <2>11. CASE \E finished \in BOOLEAN : Return(g, finished)
    BY <2>11, ReturnIInv
  <2>12. CASE Lose(g) \/ RecoverFailure(g)
    BY <2>12, LossIInv
  <2>13. CASE Beat(g)
    BY <2>13, EnvironmentIInv
  <2> QED BY <2>1, <2>2, <2>3, <2>4, <2>5, <2>6, <2>7, <2>8, <2>9, <2>10, <2>11, <2>12, <2>13
             DEF RunnerStep
<1> QED BY <1>1, <1>2, <1>3, <1>4 DEF Next

\* The inductive invariant holds of every behaviour.
THEOREM Invariance == Spec => []IInv
<1> QED BY InitIInv, NextIInv, PTL DEF Spec

\* For all bounds: every UPDATE writes values of the row's columns, and every
\* runner stays in its protocol.
THEOREM TypeCorrect == Spec => []TypeOK
<1>1. IInv => TypeOK
  BY DEF IInv
<1> QED BY <1>1, Invariance, PTL

\* For all bounds: checkpoint, tool receipt and serving identity are the current
\* attempt's own, whatever superseded runners still write.
THEOREM FactsAreOwnHolds == Spec => []FactsAreOwn
<1>1. IInv => FactsAreOwn
  BY DEF IInv, RowInv, FactsAreOwn
<1> QED BY <1>1, Invariance, PTL

\* For all bounds: a settled row has no provider latch.
THEOREM SettledHasNoLatchHolds == Spec => []SettledHasNoLatch
<1>1. IInv => SettledHasNoLatch
  BY DEF IInv, RowInv, SettledHasNoLatch
<1> QED BY <1>1, Invariance, PTL

\* Only three steps change the latch.
LEMMA LatchStep == IInv /\ [Next]_vars => [LatchAction]_vars
<1> SUFFICES ASSUME IInv, Next, row.latch # 0, row'.latch # row.latch
             PROVE  LatchAction
  BY DEF LatchAction
<1>1. RowInv(row) /\ LatchInv /\ Others
  BY DEF IInv, TypeOK, Others
<1>2. CASE Start
  <2>1. row'.latch = row.latch
    BY <1>1, <1>2 DEF Start, Started, RowInv, RowRec
  <2> QED BY <2>1
<1>3. CASE RecoverStale
  BY <1>1, <1>3, RecoveredInv DEF RecoverStale
<1>4. CASE Age
  <2>1. 1 \in Gens
    BY DEF Gens
  <2> QED BY <1>1, <1>4, <2>1, HeartbeatInv DEF Age
<1>5. CASE Operate \/ Stop \/ Mark
  <2>1. CASE row' = InterruptRequested(row)
    BY <1>1, <2>1, InterruptInv DEF LatchAction
  <2>2. CASE row' = RetryAuthorized(row) \/ row' = Paused(row, row.gen) \/ row' = InterruptMarked(row)
    BY <1>1, <2>2, HandlingInv, MarkInv
  <2> QED BY <1>5, <2>1, <2>2 DEF Operate, Stop, Mark
<1>6. CASE \E g \in Gens : RunnerStep(g)
  <2> PICK g \in Gens : RunnerStep(g)
    BY <1>6
  <2>1. CASE Enter(g) \/ EndTurn(g) \/ Lose(g)
    BY <2>1 DEF Enter, EndTurn, Lose
  <2>2. CASE Turn(g)
    <3>1. turns + 1 \in 0..MaxTurns
      BY <1>1, <2>2 DEF Turn, Others
    <3>2. row.gen = g
      BY <1>1, <2>2, <3>1, ProviderStartedInv DEF Turn
    <3> QED BY <1>1, <2>2, <3>2 DEF Turn, LatchInv
  <2>3. CASE Output(g)
    BY <1>1, <2>3, AdvanceInv DEF Output
  <2>4. CASE StepFinish(g)
    <3> DEFINE r == Advance(row, g, "provider", "mark")
    <3>1. RowInv(r) /\ r.latch = row.latch
      BY <1>1, AdvanceInv
    <3>2. row' = r \/ row' = ServedBy(r, g)
      BY <2>4 DEF StepFinish
    <3> HIDE DEF r
    <3>3. ServedBy(r, g).latch = r.latch
      BY <3>1, ProviderInv, TRUE \in BOOLEAN
    <3> QED BY <3>1, <3>2, <3>3
  <2>5. CASE Call(g)
    BY <1>1, <2>5, ProviderInv, TRUE \in BOOLEAN DEF Call
  <2>6. CASE Close(g)
    <3>1. runner[g].protocol \in BOOLEAN
      BY DEF IInv, TypeOK, RunnerRec
    <3>2. row' = ProviderSettled(row, g, runner[g].protocol) /\ runner[g].status = "closing"
      BY <2>6 DEF Close
    <3>3. row'.latch = IF row.gen = g THEN 0 ELSE row.latch
      BY <1>1, <3>1, <3>2, ProviderInv
    <3>4. row.gen = g => runner[g].turn = row.latch
      BY <1>1, <3>2 DEF LatchInv
    <3> QED BY <3>2, <3>3, <3>4 DEF LatchAction
  <2>7. CASE Boundary(g)
    <3> DEFINE r == Advance(row, g, "drain", "mark")
    <3>1. RowInv(r) /\ r.latch = row.latch
      BY <1>1, AdvanceInv
    <3>2. row' = r \/ row' = Requeued(r)
      BY <2>7 DEF Boundary
    <3> HIDE DEF r
    <3> QED BY <3>1, <3>2, HandlingInv
  <2>8. CASE \E c \in Calls, effect \in Effects : Dispatch(g, c, effect)
    <3> PICK c \in Calls, effect \in Effects : Dispatch(g, c, effect)
      BY <2>8
    <3> DEFINE r == ToolDispatched(row, g, c, effect)
    <3>1. RowInv(r) /\ r.latch = row.latch
      BY <1>1, ToolDispatchedInv
    <3>2. row' = Advance(r, g, "tool", "clear")
      BY DEF Dispatch
    <3> HIDE DEF r
    <3> QED BY <3>1, <3>2, AdvanceInv
  <2>9. CASE \E t \in Tools : ToolDone(g, t)
    <3> PICK t \in Tools : ToolDone(g, t)
      BY <2>9
    <3> DEFINE r == Advance(row, g, "tool", "mark")
    <3>1. RowInv(r) /\ r.latch = row.latch
      BY <1>1, AdvanceInv
    <3>2. row' = ToolSettled(r, g, t.call)
      BY DEF ToolDone
    <3> HIDE DEF r
    <3> QED BY <3>1, <3>2, ToolSettledInv
  <2>10. CASE \E finished \in BOOLEAN : Return(g, finished)
    <3> PICK finished \in BOOLEAN : Return(g, finished)
      BY <2>10
    <3> DEFINE r == Settled(row, g, finished)
    <3>1. RowInv(r) /\ r.latch = row.latch
      BY <1>1, SettledInv
    <3>2. row' = FailureRecovered(r, g) \/ row' = r
      BY DEF Return
    <3> HIDE DEF r
    <3> QED BY <3>1, <3>2, RecoveredInv
  <2>11. CASE RecoverFailure(g)
    BY <1>1, <2>11, RecoveredInv DEF RecoverFailure
  <2>12. CASE Beat(g)
    BY <1>1, <2>12, HeartbeatInv, TRUE \in BOOLEAN DEF Beat
  <2> QED BY <2>1, <2>2, <2>3, <2>4, <2>5, <2>6, <2>7, <2>8, <2>9, <2>10, <2>11, <2>12
             DEF RunnerStep
<1> QED BY <1>2, <1>3, <1>4, <1>5, <1>6 DEF Next

\* For all bounds: the provider latch goes away only when the runner of the
\* current lease closes exactly that turn, or a stop cancels it.
THEOREM LatchHonouredHolds == Spec => LatchHonoured
<1> QED BY LatchStep, Invariance, PTL DEF Spec, LatchHonoured
==============================================================================
