------------------------- MODULE SessionRuntimeProofs -------------------------
(***************************************************************************)
(* Proofs about SessionRuntime for all bounds: nobody is left in charge of *)
(* a progressing row only by a stop or by a sweep that misjudged a drain,  *)
(* and the drain keeps to what SessionDrains promises.                     *)
(***************************************************************************)
EXTENDS SessionRuntime, AttemptRowProofs

USE RowAssumption, RuntimeAssumption

\* A row that exists is of the one generation.
OneGeneration(r) == r.gen = 1 \/ (r.gen = 0 /\ r.state = "absent")

\* What belongs to a drain is there only while a drain is.
HasDrain ==
  /\ wake => drain.at # "none"
  /\ stopping => drain.at # "none"
  /\ worker # "off" => drain.at = "serving"

\* A drain that yields has woken its successor, or was stopped since.
YieldWakes == drain.at = "yielding" => wake \/ stopping

\* Whoever came after a stop is remembered by the drain that unwinds, or is about
\* to call it.
StopAnswered == stopping => Stopped \/ call.wake \/ wake

\* Only a sweep takes the row away from the drain that serves it.
RecoveringServed == drain.at = "serving" /\ row.state = "recovering" => hist.mistaken

\* Someone other than the adoption of a sweep's verdict, which the mark of a stop
\* calls off, is in charge of the row.
Charged == drain.at # "none" \/ call.wake \/ boot.due \/ Stopped \/ hist.mistaken

\* A progressing row is somebody's; one that also bears the mark of a stop (a late
\* write went over it) does not depend on an adoption.
Charge ==
  up /\ row.state \in Progressing =>
    Charged \/ (boot.recovered # "no" /\ row.class # "interrupt")

\* A row that progresses again before a stop leaves its mark on it is not a sweep's.
MarkCharged ==
  call.stop = "marking" /\ row.state \in Progressing =>
    drain.at # "none" \/ call.wake \/ Stopped \/ hist.mistaken

Control == HasDrain /\ YieldWakes /\ StopAnswered /\ RecoveringServed /\ Charge /\ MarkCharged

IInv == TypeOK /\ RowInv(row) /\ OneGeneration(row) /\ Control

------------------------------------------------------------------------------
\* The row of the one generation is kept, and not handed to a recovery.
Continues(r, s) ==
  /\ RowInv(s)
  /\ OneGeneration(s)
  /\ s.state = "recovering" => r.state = "recovering"

\* An attempt that opens is the row's current one, whatever was there before.
LEMMA OpenedInv ==
  ASSUME NEW r, RowInv(r)
  PROVE  RowInv(Opened(r)) /\ Opened(r).gen = 1 /\ Opened(r).state = "busy"
<1> DEFINE p == [r EXCEPT !.gen = 0]
           s == [p EXCEPT !.gen = 1, !.state = "busy", !.phase = "drain", !.checkpoint = 0,
                          !.class = "none", !.tool = NoTool, !.served = {}, !.beat = TRUE]
<1>1. p \in RowRec /\ p.gen = 0
  BY Values DEF RowInv, RowRec
<1>2. Opened(r) = s
  BY <1>1 DEF Opened, Started
<1>3. 1 \in 0..MaxGen
  OBVIOUS
<1> HIDE DEF p
<1>4. s \in RowRec
  BY <1>1, <1>3, Values DEF RowRec
<1>5. s.gen = 1 /\ s.state = "busy" /\ s.checkpoint = 0 /\ s.tool = NoTool /\ s.served = {}
  BY <1>1 DEF RowRec
<1> HIDE DEF s
<1>6. RowInv(s)
  BY <1>4, <1>5 DEF RowInv
<1> QED BY <1>2, <1>5, <1>6

\* What the worker and the settlement write leaves the attempt in progress.
LEMMA WorkerWrites ==
  ASSUME NEW r, RowInv(r), OneGeneration(r), NEW protocol \in BOOLEAN, NEW finished \in BOOLEAN,
         NEW phase \in {"drain", "provider", "tool"}
  PROVE  /\ Continues(r, ProviderSettled(r, 1, protocol))
         /\ Continues(r, ProviderStarted(r, 1, 1))
         /\ Continues(r, Advance(r, 1, phase, "mark"))
         /\ Continues(r, Settled(r, 1, finished))
         /\ r.gen = 1 => Continues(r, Requeued(r))
<1>1. r \in RowRec /\ 1 \in Gens /\ 1 \in 0..MaxTurns
  BY DEF RowInv, Gens
<1>2. Continues(r, ProviderSettled(r, 1, protocol))
  <2>1. RowInv(ProviderSettled(r, 1, protocol)) /\ ProviderSettled(r, 1, protocol).gen = r.gen
    BY <1>1, ProviderInv
  <2>2. ProviderSettled(r, 1, protocol).state = r.state
    BY <1>1 DEF ProviderSettled, RowRec
  <2> QED BY <2>1, <2>2 DEF Continues, OneGeneration
<1>3. Continues(r, ProviderStarted(r, 1, 1))
  <2>1. RowInv(ProviderStarted(r, 1, 1)) /\ ProviderStarted(r, 1, 1).gen = r.gen
    BY <1>1, ProviderStartedInv
  <2>2. ProviderStarted(r, 1, 1).state = IF r.gen = 1 THEN "busy" ELSE r.state
    BY <1>1 DEF ProviderStarted, RowRec
  <2> QED BY <2>1, <2>2 DEF Continues, OneGeneration
<1>4. Continues(r, Advance(r, 1, phase, "mark"))
  <2>1. RowInv(Advance(r, 1, phase, "mark")) /\ Advance(r, 1, phase, "mark").gen = r.gen
    BY <1>1, AdvanceInv
  <2>2. Advance(r, 1, phase, "mark").state = IF r.gen = 1 THEN "busy" ELSE r.state
    BY <1>1 DEF Advance, RowRec
  <2> QED BY <2>1, <2>2 DEF Continues, OneGeneration
<1>5. Continues(r, Settled(r, 1, finished))
  <2>1. RowInv(Settled(r, 1, finished)) /\ Settled(r, 1, finished).gen = r.gen
    BY <1>1, SettledInv
  <2>2. \/ Settled(r, 1, finished) = r
        \/ r.gen = 1 /\ Settled(r, 1, finished).state \in {"settled", "busy"}
    BY <1>1 DEF Settled, Settlement, RowRec
  <2> QED BY <2>1, <2>2 DEF Continues, OneGeneration
<1>6. r.gen = 1 => Continues(r, Requeued(r))
  <2>1. RowInv(Requeued(r)) /\ Requeued(r).gen = r.gen
    BY HandlingInv
  <2>2. Requeued(r).state = "starting"
    BY <1>1 DEF Requeued, RowRec
  <2> QED BY <2>1, <2>2 DEF Continues, OneGeneration
<1> QED BY <1>2, <1>3, <1>4, <1>5, <1>6

\* A recovery of the drain, of a sweep, and the mark of a stop.
LEMMA HostWrites ==
  ASSUME NEW r, RowInv(r), OneGeneration(r)
  PROVE  /\ RowInv(FailureRecovered(r, 1)) /\ OneGeneration(FailureRecovered(r, 1))
         /\ ~MayRecover(r, 1) => r.state \notin Progressing /\ FailureRecovered(r, 1) = r
         /\ RowInv(InterruptRequested(r)) /\ OneGeneration(InterruptRequested(r))
         /\ InterruptRequested(r).state \notin Progressing
         /\ RowInv(InterruptMarked(r)) /\ OneGeneration(InterruptMarked(r))
         /\ InterruptMarked(r).state = r.state
         /\ r.state \in Progressing =>
              /\ RowInv(StaleRecovered(r)) /\ OneGeneration(StaleRecovered(r))
              /\ StaleRecovered(r).class = "loss"
<1>1. r \in RowRec
  BY DEF RowInv
<1>2. r.state \in Progressing => r.gen = 1
  BY DEF OneGeneration, Progressing
<1>3. ~MayRecover(r, 1) => r.state \notin Progressing /\ FailureRecovered(r, 1) = r
  BY <1>2 DEF MayRecover, FailureRecovered
<1>4. RowInv(FailureRecovered(r, 1)) /\ OneGeneration(FailureRecovered(r, 1))
  <2>1. RowInv(FailureRecovered(r, 1)) /\ FailureRecovered(r, 1).gen = r.gen
    BY RecoveredInv
  <2> QED BY <2>1, <1>3 DEF MayRecover, OneGeneration
<1>5. /\ RowInv(InterruptRequested(r)) /\ OneGeneration(InterruptRequested(r))
      /\ InterruptRequested(r).state \notin Progressing
  <2>1. r.state = "absent" => InterruptRequested(r) = r
    BY DEF InterruptRequested, Progressing
  <2> QED BY <2>1, InterruptInv DEF OneGeneration
<1>6. /\ RowInv(InterruptMarked(r)) /\ OneGeneration(InterruptMarked(r))
      /\ InterruptMarked(r).state = r.state
  BY MarkInv DEF OneGeneration
<1>7. ASSUME r.state \in Progressing
      PROVE  /\ RowInv(StaleRecovered(r)) /\ OneGeneration(StaleRecovered(r))
             /\ StaleRecovered(r).class = "loss"
  <2>1. RowInv(StaleRecovered(r)) /\ StaleRecovered(r).gen = r.gen
    BY RecoveredInv
  <2>2. StaleRecovered(r).class = "loss"
    BY <1>1 DEF StaleRecovered, RowRec
  <2> QED BY <2>1, <2>2, <1>2, <1>7 DEF OneGeneration
<1> QED BY <1>3, <1>4, <1>5, <1>6, <1>7

------------------------------------------------------------------------------
\* A session without work has nobody in charge and needs nobody.
LEMMA InitIInv == Init => IInv
<1> SUFFICES ASSUME Init PROVE IInv
  OBVIOUS
<1>1. RowInv(row) /\ OneGeneration(row) /\ row.state \notin Progressing /\ row \in RowRec
  BY NoRowInv DEF Init, NoRow, OneGeneration, Progressing, RowInv
<1>2. TypeOK
  <2>1. /\ drain \in DrainRec
        /\ call \in [wake : BOOLEAN, stop : StopAt]
        /\ boot \in [abandoned : Arm, recovered : Arm, window : BOOLEAN, due : BOOLEAN]
    BY DEF Init, NoDrain, NoCall, NoBoot, DrainRec, Arm, StopAt
  <2>2. hist \in [last : {"none", "prompt", "stop"}, held : BOOLEAN, resumed : BOOLEAN,
                  mistaken : BOOLEAN, taken : BOOLEAN]
    BY DEF Init
  <2>3. mode \in {"chat", "work"} /\ worker \in WorkerAt /\ acts \in 0..MaxActs
        /\ trials \in 0..MaxTrials
    BY DEF Init, WorkerAt
  <2>4. prompt \in BOOLEAN /\ open \in BOOLEAN /\ result \in BOOLEAN /\ up \in BOOLEAN
        /\ wake \in BOOLEAN /\ stopping \in BOOLEAN
    BY DEF Init
  <2> QED BY <1>1, <2>1, <2>2, <2>3, <2>4 DEF TypeOK
<1>3. Control
  BY <1>1 DEF Init, Control, HasDrain, YieldWakes, StopAnswered, RecoveringServed, Charge, MarkCharged, NoDrain
<1> QED BY <1>1, <1>2, <1>3 DEF IInv

\* The bounds that every step respects.
Bounded == acts \in 0..MaxActs /\ trials \in 0..MaxTrials

\* Every action counts within its bound, or does not count.
LEMMA BoundsInv ==
  ASSUME Bounded, Act \/ Trial \/ UNCHANGED bounds
  PROVE  Bounded'
BY DEF Bounded, Act, Trial, bounds

\* The shape of every step of the worker: it writes the row and nothing the drain
\* or a boot goes by.
LEMMA WorkerStepInv ==
  ASSUME IInv, worker # "off", Continues(row, row'), worker' \in WorkerAt, Bounded',
         prompt' \in BOOLEAN, open' \in BOOLEAN, result' \in BOOLEAN,
         UNCHANGED <<mode, up, drain, wake, stopping, call, boot>>,
         hist' = hist \/ \E b \in BOOLEAN : hist' = [hist EXCEPT !.taken = b]
  PROVE  IInv'
<1>1. /\ hist'.last = hist.last /\ hist'.mistaken = hist.mistaken
      /\ hist' \in [last : {"none", "prompt", "stop"}, held : BOOLEAN, resumed : BOOLEAN,
                     mistaken : BOOLEAN, taken : BOOLEAN]
  BY DEF IInv, TypeOK
<1>2. RowInv(row') /\ OneGeneration(row') /\ row' \in RowRec
  BY DEF Continues, RowInv
<1>3. TypeOK'
  BY <1>1, <1>2 DEF IInv, TypeOK, Bounded
<1>4. Control'
  <2>1. drain.at = "serving"
    BY DEF IInv, Control, HasDrain
  <2> QED BY <1>1, <2>1 DEF IInv, Control, HasDrain, YieldWakes, StopAnswered, RecoveringServed,
                            Charge, MarkCharged, Charged, Stopped, Continues
<1> QED BY <1>2, <1>3, <1>4 DEF IInv

\* The runner's loop.
LEMMA WorkerIInv == IInv /\ (WorkerStep \/ Output \/ Lose) => IInv'
<1> SUFFICES ASSUME IInv, WorkerStep \/ Output \/ Lose PROVE IInv'
  OBVIOUS
<1>1. /\ TypeOK /\ RowInv(row) /\ OneGeneration(row) /\ Bounded
      /\ row.protocol \in BOOLEAN
  BY DEF IInv, TypeOK, Bounded, RowRec
<1>2. Continues(row, row)
  BY <1>1 DEF Continues
<1>3. CASE Enter
  <2>1. Continues(row, row')
    BY <1>1, <1>2, <1>3, WorkerWrites DEF Enter
  <2>2. Bounded'
    BY <1>1, <1>3, BoundsInv DEF Enter
  <2> QED BY <1>1, <1>3, <2>1, <2>2, WorkerStepInv DEF Enter, TypeOK, WorkerAt
<1>4. CASE Promote
  <2>1. Bounded'
    BY <1>1, <1>4, BoundsInv DEF Promote
  <2>2. \E b \in BOOLEAN : hist' = [hist EXCEPT !.taken = b]
    <3> DEFINE b == hist.taken \/ (prompt /\ stopping)
    <3>1. b \in BOOLEAN
      BY <1>1 DEF TypeOK
    <3>2. hist' = [hist EXCEPT !.taken = b]
      BY <1>4 DEF Promote
    <3> QED BY <3>1, <3>2
  <2>3. /\ worker # "off" /\ worker' \in WorkerAt /\ prompt' \in BOOLEAN /\ open' \in BOOLEAN
        /\ row' = row /\ result' \in BOOLEAN
        /\ UNCHANGED <<mode, up, drain, wake, stopping, call, boot>>
    BY <1>1, <1>4 DEF Promote, TypeOK, WorkerAt
  <2> QED BY <1>2, <2>1, <2>2, <2>3, WorkerStepInv
<1>5. CASE Turn
  <2>1. Continues(row, row')
    BY <1>1, <1>5, WorkerWrites DEF Turn
  <2>2. Bounded'
    BY <1>1, <1>5, BoundsInv DEF Turn
  <2> QED BY <1>1, <1>5, <2>1, <2>2, WorkerStepInv DEF Turn, TypeOK, WorkerAt
<1>6. CASE Output
  <2>1. Continues(row, row')
    BY <1>1, <1>6, WorkerWrites DEF Output
  <2>2. Bounded'
    BY <1>1, <1>6, BoundsInv DEF Output
  <2> QED BY <1>1, <1>6, <2>1, <2>2, WorkerStepInv DEF Output, TypeOK, WorkerAt, memory
<1>7. CASE EndTurn
  <2>1. Continues(row, row')
    BY <1>1, <1>7, WorkerWrites DEF EndTurn
  <2>2. Bounded'
    BY <1>1, <1>7, BoundsInv DEF EndTurn
  <2>3. worker' \in WorkerAt /\ open' \in BOOLEAN /\ result' \in BOOLEAN
    BY <1>1, <1>7 DEF EndTurn, TypeOK, WorkerAt
  <2> QED BY <1>1, <1>7, <2>1, <2>2, <2>3, WorkerStepInv DEF EndTurn, TypeOK
<1>8. CASE Boundary
  <2> DEFINE r == Advance(row, 1, "drain", "mark")
  <2>1. Continues(row, r) /\ RowInv(r) /\ OneGeneration(r)
    BY <1>1, WorkerWrites DEF Continues
  <2>2. \/ row' = r /\ UNCHANGED bounds /\ worker' = "ready"
        \/ row' = Requeued(r) /\ r.gen = 1 /\ Trial /\ worker' = "yielded"
    BY <1>8 DEF Boundary, MayRequeue
  <2> HIDE DEF r
  <2>3. r.gen = 1 => RowInv(Requeued(r)) /\ OneGeneration(Requeued(r))
                     /\ Requeued(r).state = "starting"
    <3>1. r \in RowRec
      BY <2>1 DEF RowInv
    <3> QED BY <2>1, <3>1, WorkerWrites DEF Continues, Requeued, RowRec
  <2>4. Continues(row, row')
    BY <2>1, <2>2, <2>3 DEF Continues
  <2>5. Bounded'
    BY <1>1, <2>2, BoundsInv
  <2>6. worker' \in WorkerAt
    BY <2>2 DEF WorkerAt
  <2> QED BY <1>1, <1>8, <2>4, <2>5, <2>6, WorkerStepInv DEF Boundary, TypeOK
<1>9. CASE Lose
  <2>1. Bounded'
    BY <1>1, <1>9, BoundsInv DEF Lose
  <2> QED BY <1>1, <1>2, <1>9, <2>1, WorkerStepInv DEF Lose, TypeOK, WorkerAt, durable, Alive
<1> QED BY <1>3, <1>4, <1>5, <1>6, <1>7, <1>8, <1>9 DEF WorkerStep

\* Requests, from the prompt or the stop to the call that reaches the drain.
LEMMA RequestIInv ==
  IInv /\ (Prompt \/ CallWake \/ RequestInterrupt \/ MarkInterrupt \/ InterruptDrain) => IInv'
<1> SUFFICES ASSUME IInv, Prompt \/ CallWake \/ RequestInterrupt \/ MarkInterrupt \/ InterruptDrain
             PROVE  IInv'
  OBVIOUS
<1>1. TypeOK /\ RowInv(row) /\ OneGeneration(row) /\ Bounded
  BY DEF IInv, TypeOK, Bounded
<1> DEFINE r == InterruptRequested(row)
           m == InterruptMarked(row)
<1>2. /\ RowInv(r) /\ OneGeneration(r) /\ r.state \notin Progressing /\ r \in RowRec
      /\ RowInv(m) /\ OneGeneration(m) /\ m.state = row.state /\ m \in RowRec
  BY <1>1, HostWrites DEF RowInv
<1>3. row' = row \/ row' = r \/ row' = m
  BY DEF Prompt, CallWake, RequestInterrupt, MarkInterrupt, InterruptDrain, durable
<1>4. RowInv(row') /\ OneGeneration(row') /\ row' \in RowRec
  BY <1>1, <1>2, <1>3 DEF TypeOK
<1>5. Bounded'
  BY <1>1, BoundsInv DEF Prompt, CallWake, RequestInterrupt, MarkInterrupt, InterruptDrain
<1>6. CASE Prompt
  <2>1. TypeOK'
    BY <1>1, <1>4, <1>5, <1>6 DEF TypeOK, Prompt, Bounded
  <2>2. call'.wake /\ hist'.mistaken = hist.mistaken
    BY <1>1, <1>6 DEF TypeOK, Prompt
  <2>3. Control'
    BY <1>6, <2>2 DEF IInv, Control, HasDrain, YieldWakes, StopAnswered, RecoveringServed,
                      Charge, MarkCharged, Charged, Prompt
  <2> QED BY <1>4, <2>1, <2>3 DEF IInv
<1>7. CASE CallWake
  <2>1. \/ drain' = [at |-> "queued", force |-> FALSE] /\ wake' = wake
        \/ wake' = TRUE /\ drain' = drain /\ drain.at # "none"
    BY <1>7 DEF CallWake, WakeDrain, Launch
  <2>2. TypeOK'
    <3>0. [at |-> "queued", force |-> FALSE] \in DrainRec
      BY DEF DrainRec
    <3>1. drain' \in DrainRec /\ wake' \in BOOLEAN
      BY <1>1, <2>1, <3>0, Zenon DEF TypeOK
    <3>2. call' \in [wake : BOOLEAN, stop : StopAt]
      BY <1>1, <1>7 DEF TypeOK, CallWake
    <3> QED BY <1>1, <1>4, <1>5, <1>7, <3>1, <3>2 DEF TypeOK, CallWake, Bounded, durable
  <2>3. Control'
    BY <1>7, <2>1 DEF IInv, Control, HasDrain, YieldWakes, StopAnswered, RecoveringServed,
                      Charge, MarkCharged, Charged, CallWake, WakeDrain, Launch, Stopped, durable
  <2> QED BY <1>4, <2>2, <2>3 DEF IInv
<1>8. CASE RequestInterrupt
  <2>1. TypeOK'
    <3>1. call' \in [wake : BOOLEAN, stop : StopAt]
      BY <1>1, <1>8 DEF TypeOK, RequestInterrupt, StopAt
    <3> QED BY <1>1, <1>4, <1>5, <1>8, <3>1 DEF TypeOK, RequestInterrupt, Bounded
  <2>2. row'.state \notin Progressing
    BY <1>2, <1>8 DEF RequestInterrupt
  <2>3. hist'.last = "stop"
    BY <1>1, <1>8 DEF TypeOK, RequestInterrupt
  <2> HIDE DEF r
  <2>4. Control'
    BY <1>8, <2>2, <2>3 DEF IInv, Control, HasDrain, YieldWakes, StopAnswered, RecoveringServed,
                            Charge, MarkCharged, RequestInterrupt, Stopped, Progressing
  <2> QED BY <1>4, <2>1, <2>4 DEF IInv
<1>9. CASE InterruptDrain
  <2>1. TypeOK'
    BY <1>1, <1>4, <1>5, <1>9 DEF TypeOK, InterruptDrain, Bounded, durable, StopAt
  <2>2. hist'.last = "stop" /\ hist'.mistaken = hist.mistaken
    BY <1>1, <1>9 DEF TypeOK, InterruptDrain
  <2>3. stopping' = (drain.at # "none") /\ wake' = FALSE
    BY <1>9 DEF InterruptDrain
  <2>4. Control'
    BY <1>9, <2>2, <2>3 DEF IInv, Control, HasDrain, YieldWakes, StopAnswered, RecoveringServed,
                            Charge, MarkCharged, Charged, InterruptDrain, Stopped, durable
  <2> QED BY <1>4, <2>1, <2>4 DEF IInv
<1>10. CASE MarkInterrupt
  <2>1. call'.stop = "marked" /\ call'.wake = call.wake /\ call' \in [wake : BOOLEAN, stop : StopAt]
    BY <1>1, <1>10 DEF TypeOK, MarkInterrupt, StopAt
  <2>2. TypeOK'
    BY <1>1, <1>4, <1>5, <1>10, <2>1 DEF TypeOK, MarkInterrupt, Bounded
  <2>3. row'.state = row.state
    BY <1>2, <1>10 DEF MarkInterrupt
  <2> HIDE DEF r, m
  <2>4. Control'
    BY <1>10, <2>1, <2>3 DEF IInv, Control, HasDrain, YieldWakes, StopAnswered, RecoveringServed,
                             Charge, MarkCharged, Charged, MarkInterrupt, Stopped
  <2> QED BY <1>4, <2>2, <2>4 DEF IInv
<1> QED BY <1>6, <1>7, <1>8, <1>9, <1>10

\* A drain that ends leaves a follow-up, or a row that nobody needs to take care
\* of, or was stopped.
LEMMA EndedInv ==
  ASSUME IInv, Ended, worker' = "off", RowInv(row'), OneGeneration(row'), Bounded',
         UNCHANGED <<prompt, open, result, mode, up, call, boot, hist>>,
         \/ row'.state \notin Progressing
         \/ row'.state = row.state /\ (stopping \/ wake \/ hist.mistaken)
  PROVE  IInv'
<1>1. /\ wake' = FALSE /\ stopping' = FALSE
      /\ wake => drain'.at = "queued"
      /\ ~wake => drain'.at = "none"
      /\ drain' \in DrainRec
  BY DEF Ended, NoDrain, DrainRec
<1>2. row' \in RowRec
  BY DEF RowInv
<1>3. TypeOK'
  <2>1. wake' \in BOOLEAN /\ stopping' \in BOOLEAN /\ worker' \in WorkerAt
    BY <1>1 DEF WorkerAt
  <2>2. TypeOK
    BY DEF IInv
  <2>3. /\ prompt' = prompt /\ open' = open /\ result' = result /\ mode' = mode
        /\ up' = up /\ call' = call /\ boot' = boot /\ hist' = hist
    OBVIOUS
  <2> QED BY <1>1, <1>2, <2>1, <2>2, <2>3, Zenon DEF TypeOK, Bounded
<1>4. Control'
  BY <1>1 DEF IInv, Control, HasDrain, YieldWakes, StopAnswered, RecoveringServed,
              Charge, MarkCharged, Charged, Stopped
<1> QED BY <1>3, <1>4 DEF IInv

\* The shape of the drain's other steps: it goes on, with or without its worker.
LEMMA DrainGoesOn ==
  ASSUME IInv, RowInv(row'), OneGeneration(row'), drain' \in DrainRec, Bounded', ~stopping,
         drain.at # "none", drain'.at # "none", stopping' = stopping,
         wake' = wake \/ wake' = TRUE, drain'.at = "yielding" => wake' = TRUE,
         worker' \in WorkerAt, worker' # "off" => drain'.at = "serving",
         drain'.at = "serving" => row'.state # "recovering",
         boot' = boot \/ boot' = [boot EXCEPT !.due = FALSE],
         UNCHANGED <<prompt, open, result, mode, up, call, hist>>
  PROVE  IInv'
<1>1. row' \in RowRec
  BY DEF RowInv
<1>2. TypeOK'
  <2>1. TypeOK
    BY DEF IInv
  <2>2. boot' \in [abandoned : Arm, recovered : Arm, window : BOOLEAN, due : BOOLEAN]
    BY <2>1 DEF TypeOK
  <2>3. wake' \in BOOLEAN /\ stopping' \in BOOLEAN
    BY <2>1 DEF TypeOK
  <2>4. /\ prompt' = prompt /\ open' = open /\ result' = result /\ mode' = mode
        /\ up' = up /\ call' = call /\ hist' = hist
    OBVIOUS
  <2> QED BY <1>1, <2>1, <2>2, <2>3, <2>4, Zenon DEF TypeOK, Bounded
<1>3. Control'
  BY DEF IInv, Control, HasDrain, YieldWakes, StopAnswered, RecoveringServed,
         Charge, MarkCharged, Charged, Stopped
<1> QED BY <1>2, <1>3 DEF IInv

\* The drain, from its beginning to its end.
LEMMA DrainIInv == IInv /\ DrainStep => IInv'
<1> SUFFICES ASSUME IInv, DrainStep PROVE IInv'
  OBVIOUS
<1>1. TypeOK /\ RowInv(row) /\ OneGeneration(row) /\ Bounded
  BY DEF IInv, TypeOK, Bounded
<1>2. drain \in DrainRec /\ worker \in WorkerAt
  BY <1>1 DEF TypeOK
<1>3. worker # "off" => drain.at = "serving"
  BY DEF IInv, Control, HasDrain
<1>4. Bounded'
  BY <1>1, BoundsInv DEF DrainStep, Begin, TakeLane, Open, Outcome, Yield, Retry, Unwind
<1>5. \A a \in {"lane", "open", "yielding"} :
        [drain EXCEPT !.at = a] \in DrainRec /\ [drain EXCEPT !.at = a].at = a
  BY <1>2 DEF DrainRec
<1>6. CASE Begin \/ Retry
  <2>1. /\ drain.at \in {"queued", "backoff"} /\ ~stopping
        /\ drain' = [drain EXCEPT !.at = "lane"] \/ drain' = [drain EXCEPT !.at = "open"]
        /\ row' = row /\ worker' = worker /\ boot' = boot /\ wake' = wake /\ stopping' = stopping
        /\ UNCHANGED <<prompt, open, result, mode, up, call, hist>>
    BY <1>6 DEF Begin, Retry, durable
  <2>2. drain' \in DrainRec /\ drain'.at \in {"lane", "open"}
    BY <1>5, <2>1
  <2> QED BY <1>1, <1>2, <1>3, <1>4, <2>1, <2>2, DrainGoesOn
<1>7. CASE TakeLane
  <2> DEFINE f == drain.force \/ row.state \in {"paused", "starting"}
  <2>1. f \in BOOLEAN
    BY <1>2 DEF DrainRec
  <2>2. drain' = [at |-> "open", force |-> f]
    BY <1>7 DEF TakeLane
  <2> HIDE DEF f
  <2>3. drain' \in DrainRec /\ drain'.at = "open"
    BY <2>1, <2>2 DEF DrainRec
  <2>4. /\ drain.at = "lane" /\ ~stopping
        /\ row' = row /\ worker' = worker /\ boot' = boot /\ wake' = wake /\ stopping' = stopping
        /\ UNCHANGED <<prompt, open, result, mode, up, call, hist>>
    BY <1>7 DEF TakeLane, durable
  <2> QED BY <1>1, <1>2, <1>3, <1>4, <2>3, <2>4, DrainGoesOn
<1>8. CASE Open
  <2>1. RowInv(row') /\ OneGeneration(row') /\ row'.state = "busy"
    BY <1>1, <1>8, OpenedInv DEF Open, OneGeneration
  <2>2. [drain EXCEPT !.at = "serving"] \in DrainRec /\ [drain EXCEPT !.at = "serving"].at = "serving"
    BY <1>2 DEF DrainRec
  <2>3. /\ drain.at = "open" /\ ~stopping /\ drain' = [drain EXCEPT !.at = "serving"]
        /\ worker' = "fresh" /\ boot' = [boot EXCEPT !.due = FALSE]
        /\ wake' = wake /\ stopping' = stopping
        /\ UNCHANGED <<prompt, open, result, mode, up, call, hist>>
    BY <1>8 DEF Open
  <2> QED BY <1>4, <2>1, <2>2, <2>3, DrainGoesOn DEF WorkerAt
<1>9. CASE Yield
  <2>1. row' = row /\ worker' = worker /\ Ended /\ drain.at = "yielding" /\ ~stopping
        /\ UNCHANGED <<prompt, open, result, mode, up, call, boot, hist>>
    BY <1>9 DEF Yield, durable
  <2>2. wake
    BY <2>1 DEF IInv, Control, YieldWakes
  <2> QED BY <1>1, <1>3, <1>4, <2>1, <2>2, EndedInv
<1>10. CASE Unwind
  <2>1. worker' = "off" /\ Ended /\ stopping
        /\ UNCHANGED <<prompt, open, result, mode, up, call, boot, hist>>
    BY <1>10 DEF Unwind
  <2>2. row' = row \/ row' = ProviderSettled(row, 1, row.protocol)
    BY <1>10 DEF Unwind
  <2>3. RowInv(row') /\ OneGeneration(row') /\ row'.state = row.state
    <3>1. row \in RowRec /\ row.protocol \in BOOLEAN
      BY <1>1 DEF TypeOK, RowRec
    <3>2. Continues(row, ProviderSettled(row, 1, row.protocol))
      BY <1>1, <3>1, WorkerWrites
    <3>3. ProviderSettled(row, 1, row.protocol).state = row.state
      BY <3>1 DEF ProviderSettled, RowRec
    <3> QED BY <1>1, <2>2, <3>2, <3>3 DEF Continues
  <2> QED BY <1>4, <2>1, <2>3, EndedInv
<1>11. CASE Outcome
  <2>1. /\ drain.at = "serving" /\ ~stopping /\ worker' = "off"
        /\ UNCHANGED <<prompt, open, result, mode, up, call, boot, hist>>
    BY <1>11 DEF Outcome
  <2>2. Finished \in BOOLEAN
    BY <1>1 DEF Finished, TypeOK
  <2>3. CASE Fail
    <3>1. RowInv(row') /\ OneGeneration(row')
      BY <1>1, <2>3, HostWrites DEF Fail
    <3>2. CASE MayRecover(row, 1)
      <4>1. drain' = [at |-> "backoff", force |-> TRUE] /\ wake' = wake /\ stopping' = stopping
        BY <2>3, <3>2 DEF Fail, Retried
      <4>2. drain' \in DrainRec /\ drain'.at = "backoff"
        BY <4>1 DEF DrainRec
      <4> QED BY <1>4, <2>1, <3>1, <4>1, <4>2, DrainGoesOn DEF WorkerAt
    <3>3. CASE ~MayRecover(row, 1)
      <4>1. row'.state \notin Progressing /\ Ended
        BY <1>1, <2>3, <3>3, HostWrites DEF Fail
      <4> QED BY <1>4, <2>1, <3>1, <4>1, EndedInv
    <3> QED BY <3>2, <3>3
  <2>4. CASE /\ drain' = [drain EXCEPT !.at = "yielding"] /\ wake' = TRUE
             /\ row' = row /\ stopping' = stopping
    BY <1>1, <1>4, <1>5, <2>1, <2>4, DrainGoesOn DEF WorkerAt
  <2> DEFINE s == Settlement(row, 1, Finished)
  <2>5. CASE s = "recovery-pending" /\ row' = Settled(row, 1, Finished)
             /\ drain' = [drain EXCEPT !.at = "open"] /\ UNCHANGED <<wake, stopping>>
    <3>1. RowInv(row') /\ OneGeneration(row')
      BY <1>1, <2>2, <2>5, WorkerWrites DEF Continues
    <3> QED BY <1>4, <1>5, <2>1, <2>5, <3>1, DrainGoesOn DEF WorkerAt
  <2>6. CASE s \notin {"unfinished", "recovery-pending"}
             /\ row' = Settled(row, 1, Finished) /\ Ended
    <3>1. RowInv(row') /\ OneGeneration(row')
      BY <1>1, <2>2, <2>6, WorkerWrites DEF Continues
    <3>2. CASE s = "committed"
      <4>1. row'.state = "settled"
        BY <1>1, <2>6, <3>2 DEF Settled, TypeOK, RowRec
      <4> QED BY <1>4, <2>1, <2>6, <3>1, <4>1, EndedInv DEF Progressing
    <3>3. CASE s # "committed"
      <4>1. row' = row
        BY <2>6, <3>3 DEF Settled
      <4>2. row.gen # 1 \/ row.state \notin {"starting", "busy"}
        BY <2>6, <3>3 DEF Settlement
      <4>3. row.state \notin Progressing \/ row.state = "recovering"
        BY <1>1, <4>2 DEF OneGeneration, Progressing
      <4>4. row.state = "recovering" => hist.mistaken
        BY <2>1 DEF IInv, Control, RecoveringServed
      <4> QED BY <1>1, <1>4, <2>1, <2>6, <4>1, <4>3, <4>4, EndedInv
    <3> QED BY <3>2, <3>3
  <2> HIDE DEF s
  <2>7. \/ Fail
        \/ /\ drain' = [drain EXCEPT !.at = "yielding"] /\ wake' = TRUE
           /\ row' = row /\ stopping' = stopping
        \/ s = "recovery-pending" /\ row' = Settled(row, 1, Finished)
           /\ drain' = [drain EXCEPT !.at = "open"] /\ UNCHANGED <<wake, stopping>>
        \/ s \notin {"unfinished", "recovery-pending"} /\ row' = Settled(row, 1, Finished) /\ Ended
    BY <1>11 DEF Outcome, s
  <2> QED BY <2>3, <2>4, <2>5, <2>6, <2>7
<1> QED BY <1>6, <1>7, <1>8, <1>9, <1>10, <1>11 DEF DrainStep

\* Crashes, boots and the boot sweeps.
LEMMA BootIInv == IInv /\ (Crash \/ BootStep \/ Age) => IInv'
<1> SUFFICES ASSUME IInv, Crash \/ BootStep \/ Age PROVE IInv'
  OBVIOUS
<1>1. TypeOK /\ RowInv(row) /\ OneGeneration(row) /\ Bounded
  BY DEF IInv, TypeOK, Bounded
<1>2. row' = row => RowInv(row') /\ OneGeneration(row') /\ row' \in RowRec
  BY <1>1 DEF TypeOK
<1>3. Bounded'
  BY <1>1, BoundsInv DEF Crash, BootStep, Boot, Sweep, CloseWindow, Gate, Adopt, Age
<1>4. CASE Crash
  <2>1. NoDrain \in DrainRec /\ NoDrain.at = "none"
        /\ NoCall \in [wake : BOOLEAN, stop : StopAt] /\ NoCall.stop = "none"
        /\ NoBoot \in [abandoned : Arm, recovered : Arm, window : BOOLEAN, due : BOOLEAN]
        /\ "off" \in WorkerAt
    BY DEF NoDrain, NoCall, NoBoot, DrainRec, Arm, WorkerAt, StopAt
  <2>2. /\ row' = row /\ up' = FALSE /\ drain' = NoDrain /\ wake' = FALSE /\ stopping' = FALSE
        /\ worker' = "off" /\ call' = NoCall /\ boot' = NoBoot
        /\ prompt' = prompt /\ open' = open /\ result' = result /\ mode' = mode /\ hist' = hist
    BY <1>4 DEF Crash, durable
  <2>3. TypeOK'
    <3>1. /\ up' \in BOOLEAN /\ wake' \in BOOLEAN /\ stopping' \in BOOLEAN
          /\ drain' \in DrainRec /\ worker' \in WorkerAt
          /\ call' \in [wake : BOOLEAN, stop : StopAt]
          /\ boot' \in [abandoned : Arm, recovered : Arm, window : BOOLEAN, due : BOOLEAN]
      BY <2>1, <2>2
    <3>2. row' \in RowRec
      BY <1>2, <2>2
    <3> QED BY <1>1, <1>3, <2>2, <3>1, <3>2, Zenon DEF TypeOK, Bounded
  <2>4. Control'
    BY <2>1, <2>2 DEF Control, HasDrain, YieldWakes, StopAnswered, RecoveringServed, Charge, MarkCharged
  <2> QED BY <1>2, <2>2, <2>3, <2>4 DEF IInv
<1>5. CASE Boot
  <2>1. boot' \in [abandoned : Arm, recovered : Arm, window : BOOLEAN, due : BOOLEAN]
        /\ boot'.due = (row.state \in Progressing)
    BY <1>5 DEF Boot, Arm
  <2>2. TypeOK'
    BY <1>1, <1>2, <1>3, <1>5, <2>1 DEF TypeOK, Bounded, Boot, durable
  <2>3. Control'
    BY <1>5, <2>1 DEF IInv, Control, HasDrain, YieldWakes, StopAnswered, RecoveringServed, Charge, MarkCharged,
                      Charged, Boot, durable, Stopped
  <2> QED BY <1>2, <1>5, <2>2, <2>3 DEF IInv, Boot, durable
<1>6. CASE Sweep
  <2>1. row.state \in Progressing /\ row' = StaleRecovered(row)
    BY <1>6 DEF Sweep, IsStale
  <2>2. RowInv(row') /\ OneGeneration(row') /\ row'.class = "loss" /\ row' \in RowRec
    BY <1>1, <2>1, HostWrites DEF RowInv
  <2>3. boot' \in [abandoned : Arm, recovered : Arm, window : BOOLEAN, due : BOOLEAN]
        /\ boot'.recovered = "owed"
    BY <1>1, <1>6 DEF Sweep, Swept, TypeOK, Arm
  <2>4. /\ hist' \in [last : {"none", "prompt", "stop"}, held : BOOLEAN, resumed : BOOLEAN,
                        mistaken : BOOLEAN, taken : BOOLEAN]
        /\ hist'.last = hist.last
        /\ drain.at # "none" \/ hist.mistaken => hist'.mistaken
    BY <1>1, <1>6 DEF Sweep, TypeOK
  <2>5. TypeOK'
    BY <1>1, <1>3, <1>6, <2>2, <2>3, <2>4 DEF TypeOK, Bounded, Sweep
  <2>6. Control'
    BY <1>6, <2>1, <2>2, <2>3, <2>4 DEF IInv, Control, HasDrain, YieldWakes, StopAnswered,
       RecoveringServed, Charge, MarkCharged, Charged, Sweep, Stopped
  <2> QED BY <2>2, <2>5, <2>6 DEF IInv
<1>7. CASE CloseWindow
  <2>1. boot' \in [abandoned : Arm, recovered : Arm, window : BOOLEAN, due : BOOLEAN]
        /\ boot'.recovered = boot.recovered
    BY <1>1, <1>7 DEF CloseWindow, TypeOK
  <2>2. TypeOK'
    BY <1>1, <1>2, <1>3, <1>7, <2>1 DEF TypeOK, Bounded, CloseWindow, durable
  <2>3. Control'
    BY <1>7, <2>1 DEF IInv, Control, HasDrain, YieldWakes, StopAnswered, RecoveringServed, Charge, MarkCharged,
                      Charged, CloseWindow, durable, Stopped
  <2> QED BY <1>2, <1>7, <2>2, <2>3 DEF IInv, CloseWindow, durable
<1>8. ASSUME NEW arm \in Arms, Gate(arm) PROVE IInv'
  <2> DEFINE v == IF row.class = "interrupt" THEN "no" ELSE "cleared"
             h == hist.held \/ row.class = "interrupt"
  <2>1. /\ boot' = [boot EXCEPT ![arm] = v] /\ hist' = [hist EXCEPT !.held = h]
        /\ boot[arm] = "owed"
    BY <1>8 DEF Gate
  <2>2. v \in Arm /\ (row.class # "interrupt" => v # "no") /\ h \in BOOLEAN
    BY <1>1 DEF Arm, TypeOK
  <2> HIDE DEF v, h
  <2>3. /\ boot' \in [abandoned : Arm, recovered : Arm, window : BOOLEAN, due : BOOLEAN]
        /\ boot'.due = boot.due
        /\ boot'.recovered = boot.recovered \/ boot'.recovered = v
    BY <1>1, <2>1, <2>2 DEF TypeOK, Arms
  <2>4. /\ hist' \in [last : {"none", "prompt", "stop"}, held : BOOLEAN, resumed : BOOLEAN,
                        mistaken : BOOLEAN, taken : BOOLEAN]
        /\ hist'.last = hist.last /\ hist'.mistaken = hist.mistaken
    BY <1>1, <2>1, <2>2 DEF TypeOK
  <2>5. TypeOK'
    BY <1>1, <1>2, <1>3, <1>8, <2>3, <2>4 DEF TypeOK, Bounded, Gate, durable
  <2>6. Control'
    BY <1>8, <2>2, <2>3, <2>4 DEF IInv, Control, HasDrain, YieldWakes, StopAnswered,
       RecoveringServed, Charge, MarkCharged, Charged, Gate, durable, Stopped
  <2> QED BY <1>2, <1>8, <2>5, <2>6 DEF IInv, Gate, durable
<1>9. ASSUME NEW arm \in Arms, Adopt(arm) PROVE IInv'
  <2>1. /\ boot' \in [abandoned : Arm, recovered : Arm, window : BOOLEAN, due : BOOLEAN]
        /\ boot'.due = boot.due
    BY <1>1, <1>9 DEF TypeOK, Arms, Arm, Adopt
  <2> DEFINE b == hist.resumed \/ (hist.last = "stop" /\ call.stop = "none")
  <2>2. b \in BOOLEAN
    BY <1>1 DEF TypeOK
  <2>3. \/ drain' = [at |-> "queued", force |-> TRUE] /\ hist' = [hist EXCEPT !.resumed = b]
        \/ drain' = drain /\ hist' = hist
    BY <1>9 DEF Adopt, Launch
  <2> HIDE DEF b
  <2>4. /\ hist' \in [last : {"none", "prompt", "stop"}, held : BOOLEAN, resumed : BOOLEAN,
                        mistaken : BOOLEAN, taken : BOOLEAN]
        /\ hist'.last = hist.last /\ hist'.mistaken = hist.mistaken
    BY <1>1, <2>2, <2>3 DEF TypeOK
  <2>5. [at |-> "queued", force |-> TRUE] \in DrainRec
    BY DEF DrainRec
  <2>6. drain' \in DrainRec /\ drain'.at # "none"
        /\ (drain' = drain \/ (drain.at = "none" /\ drain'.at = "queued"))
    <3>1. drain \in DrainRec
      BY <1>1 DEF TypeOK
    <3>2. CASE Launch(TRUE)
      BY <2>5, <3>2 DEF Launch
    <3>3. CASE drain.at # "none" /\ drain' = drain
      BY <3>1, <3>3
    <3> QED BY <1>9, <3>2, <3>3 DEF Adopt
  <2>7. TypeOK'
    BY <1>1, <1>2, <1>3, <1>9, <2>1, <2>4, <2>6 DEF TypeOK, Bounded, Adopt, durable
  <2>8. Control'
    BY <1>9, <2>1, <2>4, <2>6 DEF IInv, Control, HasDrain, YieldWakes, StopAnswered,
       RecoveringServed, Charge, MarkCharged, Charged, Adopt, durable, Stopped
  <2> QED BY <1>2, <1>9, <2>7, <2>8 DEF IInv, Adopt, durable
<1>10. CASE Age
  <2>1. RowInv(row') /\ row'.gen = row.gen /\ row'.state = row.state /\ row'.class = row.class
        /\ row' \in RowRec
    <3>1. row \in RowRec /\ row' = [row EXCEPT !.beat = FALSE]
      BY <1>10, <1>1 DEF Age, TypeOK
    <3>2. 1 \in Gens
      BY DEF Gens
    <3>3. RowInv([row EXCEPT !.beat = FALSE])
      BY <1>1, <3>2, HeartbeatInv
    <3> QED BY <3>1, <3>3 DEF RowInv, RowRec
  <2>2. TypeOK'
    BY <1>1, <1>3, <1>10, <2>1 DEF TypeOK, Bounded, Age, memory
  <2>3. Control'
    BY <1>10, <2>1 DEF IInv, Control, HasDrain, YieldWakes, StopAnswered, RecoveringServed, Charge, MarkCharged,
                       Charged, Age, memory, Stopped
  <2> QED BY <1>1, <2>1, <2>2, <2>3 DEF IInv, OneGeneration
<1> QED BY <1>4, <1>5, <1>6, <1>7, <1>8, <1>9, <1>10 DEF BootStep

\* Every step keeps the invariant.
LEMMA NextIInv == IInv /\ [Next]_vars => IInv'
<1>1. ASSUME IInv, UNCHANGED vars PROVE IInv'
  BY <1>1 DEF vars, IInv, TypeOK, Control, HasDrain, YieldWakes, StopAnswered, RecoveringServed,
              Charge, MarkCharged, Charged, Stopped
<1> QED BY <1>1, RequestIInv, DrainIInv, WorkerIInv, BootIInv DEF Next

\* The inductive invariant holds of every behaviour.
THEOREM Invariance == Spec => []IInv
<1> QED BY InitIInv, NextIInv, PTL DEF Spec

\* For all bounds: every step of the host, the drain, the worker and the boot
\* sweeps writes values of its variables.
THEOREM TypeCorrect == Spec => []TypeOK
<1>1. IInv => TypeOK
  BY DEF IInv
<1> QED BY <1>1, Invariance, PTL

\* For all bounds: a row that says it progresses is in somebody's charge, unless
\* the user stopped the session or a sweep took a silent drain for a dead one.
THEOREM InChargeHolds == Spec => []InCharge
<1>1. IInv => InCharge
  BY DEF IInv, Control, Charge, Charged, InCharge
<1> QED BY <1>1, Invariance, PTL

------------------------------------------------------------------------------
\* What SessionDrains sees of the runtime.
Phase == CASE drain.at = "none" -> "idle" [] drain.at = "queued" -> "queued" [] OTHER -> "draining"

\* A step that leaves the drain's phase and flags alone is invisible.
LEMMA Invisible ==
  ASSUME Phase' = Phase, wake' = wake, stopping' = stopping
  PROVE  UNCHANGED Drains!vars
BY DEF Drains!vars, Phase

\* A drain launched for an idle session is the contract's Request.
LEMMA IsRequest ==
  ASSUME Phase = "idle", Phase' = "queued", wake' = wake, stopping' = stopping
  PROVE  Drains!Next
<1>1. Drains!Request("session")
  BY DEF Drains!Request, Phase
<1> QED BY <1>1 DEF Drains!Next

\* A wake that meets a drain is Remember.
LEMMA IsRemember ==
  ASSUME Phase # "idle", Phase' = Phase, wake' = TRUE, stopping' = stopping
  PROVE  Drains!Next
<1>1. Drains!Remember("session")
  BY DEF Drains!Remember, Phase
<1> QED BY <1>1 DEF Drains!Next

\* A stop that meets a drain is Stop.
LEMMA IsStop ==
  ASSUME Phase # "idle", Phase' = Phase, wake' = FALSE, stopping' = TRUE
  PROVE  Drains!Next
<1>1. Drains!Stop("session")
  BY DEF Drains!Stop, Phase
<1> QED BY <1>1 DEF Drains!Next

\* A queued drain that begins is Begin.
LEMMA IsBegin ==
  ASSUME Phase = "queued", ~stopping, Phase' = "draining", wake' = wake, stopping' = stopping
  PROVE  Drains!Next
<1>1. Drains!Begin("session")
  BY DEF Drains!Begin, Phase
<1> QED BY <1>1 DEF Drains!Next

\* The end of a drain, with or without a successor, is Finish.
LEMMA IsFinish ==
  ASSUME Phase = "draining" \/ (Phase = "queued" /\ stopping), Ended
  PROVE  Drains!Next
<1>1. Phase' = IF wake THEN "queued" ELSE "idle"
  BY DEF Ended, NoDrain, Phase
<1>2. Drains!Finish("session")
  BY <1>1 DEF Drains!Finish, Phase, Ended
<1> QED BY <1>2 DEF Drains!Next

\* Every step of a host that lives is a step of SessionDrains or invisible to it.
LEMMA NextUsesDrains ==
  ASSUME IInv, [Next]_vars
  PROVE  [up' => Drains!Next]_(Drains!vars)
<1>1. CASE UNCHANGED vars
  BY <1>1, Invisible DEF vars, Phase
<1>2. CASE Prompt \/ RequestInterrupt \/ MarkInterrupt \/ WorkerStep \/ Output \/ Lose \/ Age
  <2>1. drain' = drain /\ wake' = wake /\ stopping' = stopping
    BY <1>2 DEF Prompt, RequestInterrupt, MarkInterrupt, WorkerStep, Enter, Promote, Turn, EndTurn, Boundary,
                Output, Lose, Age, memory
  <2> QED BY <2>1, Invisible DEF Phase
<1>3. CASE CallWake
  <2>1. \/ drain.at = "none" /\ drain'.at = "queued" /\ wake' = wake
        \/ drain.at # "none" /\ drain' = drain /\ wake' = TRUE
    BY <1>3 DEF CallWake, WakeDrain, Launch
  <2>2. stopping' = stopping
    BY <1>3 DEF CallWake
  <2> QED BY <2>1, <2>2, IsRequest, IsRemember DEF Phase
<1>4. CASE InterruptDrain
  <2>1. drain' = drain /\ wake' = FALSE /\ stopping' = (drain.at # "none")
    BY <1>4 DEF InterruptDrain
  <2>2. CASE drain.at = "none"
    <3>1. wake = FALSE /\ stopping = FALSE
      BY <2>2 DEF IInv, TypeOK, Control, HasDrain
    <3> QED BY <2>1, <2>2, <3>1, Invisible DEF Phase
  <2>3. CASE drain.at # "none"
    BY <2>1, <2>3, IsStop DEF Phase
  <2> QED BY <2>2, <2>3
<1>5. CASE Begin
  <2>1. drain.at = "queued" /\ drain'.at = "lane" /\ ~stopping /\ wake' = wake /\ stopping' = stopping
    BY <1>5 DEF Begin, IInv, TypeOK, DrainRec
  <2> QED BY <2>1, IsBegin DEF Phase
<1>6. CASE TakeLane \/ Open \/ Retry
  <2>1. /\ drain.at \in {"lane", "open", "backoff"} /\ drain'.at \in {"open", "serving"}
        /\ wake' = wake /\ stopping' = stopping
    BY <1>6 DEF TakeLane, Open, Retry, IInv, TypeOK, DrainRec
  <2> QED BY <2>1, Invisible DEF Phase
<1>7. CASE Outcome
  <2>1. drain.at = "serving"
    BY <1>7 DEF Outcome
  <2>2. \/ Ended
        \/ drain'.at \in {"backoff", "open"} /\ wake' = wake /\ stopping' = stopping
        \/ drain'.at = "yielding" /\ wake' = TRUE /\ stopping' = stopping
    BY <1>7 DEF Outcome, Fail, Retried, IInv, TypeOK, DrainRec
  <2> QED BY <2>1, <2>2, IsFinish, Invisible, IsRemember DEF Phase
<1>8. CASE Yield \/ Unwind
  <2>1. Ended /\ (drain.at = "yielding" \/ (drain.at # "none" /\ stopping))
    BY <1>8 DEF Yield, Unwind
  <2> QED BY <2>1, IsFinish DEF Phase
<1>9. CASE Crash
  BY <1>9 DEF Crash
<1>10. CASE BootStep
  <2>1. \/ drain' = drain /\ wake' = wake /\ stopping' = stopping
        \/ drain.at = "none" /\ drain'.at = "queued" /\ wake' = wake /\ stopping' = stopping
    BY <1>10 DEF BootStep, Boot, Sweep, CloseWindow, Gate, Adopt, Launch
  <2> QED BY <2>1, Invisible, IsRequest DEF Phase
<1> QED BY <1>1, <1>2, <1>3, <1>4, <1>5, <1>6, <1>7, <1>8, <1>9, <1>10 DEF Next, DrainStep

\* For all bounds: while the host lives, the executor, its callers and the boot
\* sweeps drive the drain of a session only as SessionDrains allows.
THEOREM UsesDrainsHolds == Spec => UsesDrains
<1> QED BY NextUsesDrains, Invariance, PTL DEF Spec, UsesDrains
==============================================================================
