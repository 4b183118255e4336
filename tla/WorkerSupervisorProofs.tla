------------------------- MODULE WorkerSupervisorProofs -------------------------
(***************************************************************************)
(* Proofs about WorkerSupervisor for any number of workers and of RPCs.    *)
(* Four facts carry them: a worker is resolved, without the cleanup        *)
(* deadline, only after its process and all its RPCs are over; a worker is *)
(* replaced only after it is resolved; an ordered RPC that runs has no     *)
(* ordered RPC before it that is not over; and only a write gives an       *)
(* answer, because the one rejection has a successor, and so a worker that *)
(* is done.                                                                *)
(***************************************************************************)
EXTENDS WorkerSupervisor, TLAPS

USE SupervisorAssumption

\* The owner is the last worker that was spawned; those before it were resolved.
Succession ==
  \A g \in Gens :
    /\ g > owner => workers[g] = Unborn /\ rpcs[g] = <<>>
    /\ g <= owner => workers[g].process # "none"
    /\ g < owner => workers[g].resolved

\* A worker that was resolved in time is over, with its RPCs.
Settled ==
  \A g \in Gens : workers[g].resolved /\ ~workers[g].late =>
    workers[g].process = "dead" /\ \A n \in Numbers(g) : rpcs[g][n].at = "over"

\* In a list of RPCs, the ordered ones before n are over.
Clear(rs, n) == \A m \in 1..(n - 1) : rs[m].ordered => rs[m].at = "over"

\* An ordered RPC that runs had its turn.
OneByOne(rs) ==
  \A n \in 1..Len(rs) : rs[n].ordered /\ rs[n].at \in {"running", "fenced"} => Clear(rs, n)

Turns == \A g \in Gens : OneByOne(rpcs[g])

\* An entry of the record was sent and is over; if it is ordered, none sent before it is still
\* to come.
Entered(e) ==
  /\ e[1] <= owner
  /\ e[2] \in Numbers(e[1]) /\ rpcs[e[1]][e[2]].at = "over"
  /\ e[3] => Clear(rpcs[e[1]], e[2] + 1)

Recorded == \A i \in 1..Len(record) : Entered(record[i])

\* An RPC writes once, and what was answered was written.
Once ==
  \A i, j \in 1..Len(record) :
    record[i][1] = record[j][1] /\ record[i][2] = record[j][2] => i = j

Written ==
  \A g \in Gens : \A n \in Numbers(g) : rpcs[g][n].answered =>
    \E i \in 1..Len(record) : record[i][1] = g /\ record[i][2] = n

Runs == TypeOK /\ Succession /\ Settled /\ Turns

IInv == Runs /\ Recorded /\ OrderKept /\ GenerationsDoNotOverlap /\ Once /\ Written

------------------------------------------------------------------------------
LEMMA UnbornRec ==
  /\ Unborn \in WorkerRec /\ Unborn.process = "none" /\ Unborn.ready = FALSE
  /\ Unborn.asked = FALSE /\ Unborn.sampling = FALSE /\ Unborn.outcome = "none"
  /\ Unborn.resolved = FALSE /\ Unborn.late = FALSE
BY DEF Unborn, WorkerRec, Outcomes

\* finish() changes the outcome, once, and the sample in flight.
LEMMA FinishedRec ==
  ASSUME NEW w \in WorkerRec, NEW o \in Outcomes, o # "none"
  PROVE  LET f == Finished(w, o) IN
         /\ f \in WorkerRec /\ f.outcome # "none"
         /\ f.process = w.process /\ f.asked = w.asked
         /\ f.resolved = w.resolved /\ f.late = w.late
         /\ w.outcome # "none" => f = w
         /\ w.outcome = "none" => f.outcome = o
BY DEF Finished, WorkerRec

\* A worker w may follow worker v.
Follows(v, w) ==
  /\ w \in WorkerRec /\ w.process # "none"
  /\ v.resolved => w.resolved
  /\ v.late => w.late
  /\ w.resolved => w.outcome # "none" /\ (w.process = "dead" \/ w.late)

\* The RPCs rs may follow the RPCs qs.
Extends(qs, rs) ==
  /\ rs \in Seq(RpcRec) /\ Len(qs) <= Len(rs) /\ Len(rs) <= MaxRpcs
  /\ \A n \in 1..Len(qs) :
       rs[n].ordered = qs[n].ordered /\ (qs[n].at = "over" => rs[n].at = "over")

\* A spawned worker and its RPCs take a step.
Moves(g, w, rs) ==
  /\ g <= owner /\ owner' = owner
  /\ workers' = [workers EXCEPT ![g] = w] /\ Follows(workers[g], w)
  /\ rpcs' = [rpcs EXCEPT ![g] = rs] /\ Extends(rpcs[g], rs) /\ OneByOne(rs)
  /\ w.resolved /\ ~w.late => w.process = "dead" /\ \A n \in 1..Len(rs) : rs[n].at = "over"

LEMMA MovesRuns ==
  ASSUME Runs, NEW g \in Gens, NEW w, NEW rs, Moves(g, w, rs), record' \in Seq(Gens \X (1..MaxRpcs) \X BOOLEAN)
  PROVE  Runs'
<1>0. /\ workers \in [Gens -> WorkerRec] /\ rpcs \in [Gens -> Seq(RpcRec)]
      /\ owner \in 0..MaxGens /\ owner' = owner /\ g <= owner /\ g \in Nat
  BY DEF Runs, TypeOK, Moves, Gens
<1>1. /\ workers' \in [Gens -> WorkerRec] /\ workers'[g] = w
      /\ \A h \in Gens \ {g} : workers'[h] = workers[h]
  BY <1>0 DEF Moves, Follows
<1>2. /\ rpcs' \in [Gens -> Seq(RpcRec)] /\ rpcs'[g] = rs
      /\ \A h \in Gens \ {g} : rpcs'[h] = rpcs[h]
  BY <1>0 DEF Moves, Extends
<1>3. TypeOK'
  <2>1. \A h \in Gens : Len(rpcs'[h]) <= MaxRpcs
    BY <1>2 DEF Runs, TypeOK, Moves, Extends
  <2>2. \A h \in Gens : workers'[h].process # "none" => owner' >= h
    BY <1>0, <1>1 DEF Runs, TypeOK, Gens
  <2>3. \A h \in Gens : workers'[h].resolved =>
          workers'[h].outcome # "none" /\ (workers'[h].process = "dead" \/ workers'[h].late)
    BY <1>1 DEF Runs, TypeOK, Moves, Follows
  <2> QED BY <1>0, <1>1, <1>2, <2>1, <2>2, <2>3 DEF TypeOK
<1>4. Succession'
  <2> SUFFICES ASSUME NEW h \in Gens
               PROVE  /\ h > owner => workers'[h] = Unborn /\ rpcs'[h] = <<>>
                      /\ h <= owner => workers'[h].process # "none"
                      /\ h < owner => workers'[h].resolved
    BY <1>0 DEF Succession
  <2>1. CASE h = g
    BY <1>0, <1>1, <2>1 DEF Runs, Succession, Moves, Follows
  <2>2. CASE h # g
    BY <1>1, <1>2, <2>2 DEF Runs, Succession
  <2> QED BY <2>1, <2>2
<1>5. Settled'
  BY <1>1, <1>2 DEF Runs, Settled, Moves, Numbers
<1>6. Turns'
  BY <1>2 DEF Runs, Turns, Moves
<1> QED BY <1>3, <1>4, <1>5, <1>6 DEF Runs

Entries == Gens \X (1..MaxRpcs) \X BOOLEAN

\* An entry stays one.
LEMMA MovesEntered ==
  ASSUME Runs, NEW g \in Gens, NEW w, NEW rs, Moves(g, w, rs), NEW e \in Entries, Entered(e)
  PROVE  /\ e[1] <= owner' /\ e[2] \in 1..Len(rpcs'[e[1]]) /\ rpcs'[e[1]][e[2]].at = "over"
         /\ e[3] => Clear(rpcs'[e[1]], e[2] + 1)
<1>1. rpcs \in [Gens -> Seq(RpcRec)] /\ owner' = owner /\ e[1] \in Gens /\ e[2] \in Nat
  BY DEF Runs, TypeOK, Moves, Entries
<1>2. rpcs'[g] = rs /\ \A h \in Gens \ {g} : rpcs'[h] = rpcs[h]
  BY <1>1 DEF Moves
<1>3. CASE e[1] # g
  BY <1>1, <1>2, <1>3 DEF Entered, Numbers
<1>4. CASE e[1] = g
  <2>1. /\ Len(rpcs[g]) \in Nat /\ Len(rs) \in Nat /\ Len(rpcs[g]) <= Len(rs)
        /\ \A n \in 1..Len(rpcs[g]) :
             rs[n].ordered = rpcs[g][n].ordered /\ (rpcs[g][n].at = "over" => rs[n].at = "over")
    BY <1>1 DEF Moves, Extends
  <2>2. /\ e[2] \in 1..Len(rpcs[g]) /\ rpcs[g][e[2]].at = "over"
        /\ e[3] => Clear(rpcs[g], e[2] + 1)
    BY <1>4 DEF Entered, Numbers
  <2>3. e[3] => Clear(rs, e[2] + 1)
    <3> SUFFICES ASSUME e[3], NEW m \in 1..e[2], rs[m].ordered
                 PROVE  rs[m].at = "over"
      BY <1>1 DEF Clear
    <3>1. m \in 1..Len(rpcs[g]) /\ m \in 1..((e[2] + 1) - 1)
      BY <1>1, <2>1, <2>2
    <3> QED BY <2>1, <2>2, <3>1 DEF Clear
  <2> QED BY <1>1, <1>2, <1>4, <2>1, <2>2, <2>3 DEF Entered
<1> QED BY <1>3, <1>4

\* A worker that is not late does not live on after it was replaced.
LEMMA OverlapIsLate ==
  Runs' => \A g \in Gens : Live(g)' => owner' = g \/ workers'[g].late
<1> SUFFICES ASSUME Runs', NEW g \in Gens, workers'[g].process = "live", owner' # g
             PROVE  workers'[g].late
  BY DEF Live
<1>1. ~(g > owner')
  BY UnbornRec DEF Runs, Succession
<1>2. g < owner'
  BY <1>1 DEF Runs, TypeOK, Gens
<1> QED BY <1>2 DEF Runs, Succession, Settled

\* The RPCs rs have no answer that the RPCs qs had not.
Silent(qs, rs) == \A n \in 1..Len(rs) : rs[n].answered => n \in 1..Len(qs) /\ qs[n].answered

\* The record stays in order as long as nothing is written, and nothing answered.
LEMMA MovesIInv ==
  ASSUME IInv, NEW g \in Gens, NEW w, NEW rs, Moves(g, w, rs), Silent(rpcs[g], rs), record' = record
  PROVE  IInv'
<1>0. Runs /\ record \in Seq(Entries) /\ workers \in [Gens -> WorkerRec]
  BY DEF IInv, Runs, TypeOK, Entries
<1>1. Runs'
  BY <1>0, MovesRuns DEF Entries
<1>2. \A i \in 1..Len(record) : record[i] \in Entries /\ record[i][1] \in Gens
  <2> SUFFICES ASSUME NEW i \in 1..Len(record) PROVE record[i] \in Entries /\ record[i][1] \in Gens
    OBVIOUS
  <2>1. record[i] \in Entries
    BY <1>0
  <2> QED BY <2>1 DEF Entries
<1>3. Recorded'
  BY <1>0, <1>2, MovesEntered DEF IInv, Recorded, Entered, Numbers
<1>4. OrderKept'
  BY DEF IInv, OrderKept
<1>5. GenerationsDoNotOverlap'
  <2>1. \A h \in Gens : workers[h].late => workers'[h].late
    BY <1>0 DEF Moves, Follows
  <2>2. \A h \in Gens : Live(h)' => owner' = h \/ workers'[h].late
    BY <1>1, OverlapIsLate
  <2> QED BY <1>2, <2>1, <2>2 DEF IInv, GenerationsDoNotOverlap
<1>6. Once'
  BY DEF IInv, Once
<1>7. Written'
  <2> SUFFICES ASSUME NEW h \in Gens, NEW n \in 1..Len(rpcs'[h]), rpcs'[h][n].answered
               PROVE  \E i \in 1..Len(record) : record[i][1] = h /\ record[i][2] = n
    BY DEF Written, Numbers
  <2>1. /\ rpcs \in [Gens -> Seq(RpcRec)] /\ rpcs' = [rpcs EXCEPT ![g] = rs]
    BY <1>0 DEF Runs, TypeOK, Moves
  <2>2. n \in 1..Len(rpcs[h]) /\ rpcs[h][n].answered
    BY <2>1 DEF Silent
  <2> QED BY <2>2 DEF IInv, Written, Numbers
<1> QED BY <1>1, <1>3, <1>4, <1>5, <1>6, <1>7 DEF IInv

------------------------------------------------------------------------------
\* A worker of which anything is known was spawned.
LEMMA Spawned ==
  ASSUME Runs, NEW g \in Gens,
         \/ workers[g].process # "none" \/ workers[g].asked \/ workers[g].sampling
         \/ workers[g].outcome # "none" \/ rpcs[g] # <<>>
  PROVE  g <= owner /\ workers[g].process # "none" /\ workers[g] \in WorkerRec
<1>1. ~(g > owner)
  BY UnbornRec DEF Runs, Succession
<1>2. g <= owner
  BY <1>1 DEF Gens, Runs, TypeOK
<1> QED BY <1>2 DEF Runs, Succession, TypeOK

\* A worker may take a step that leaves its result and its RPCs alone.
LEMMA SteadyMoves ==
  ASSUME Runs, NEW g \in Gens, NEW w \in WorkerRec, g <= owner,
         workers' = [workers EXCEPT ![g] = w], UNCHANGED <<owner, rpcs>>,
         w.process # "none", w.resolved = workers[g].resolved, w.late = workers[g].late,
         workers[g].process = "dead" => w.process = "dead",
         workers[g].outcome # "none" => w.outcome # "none"
  PROVE  Moves(g, w, rpcs[g])
<1>1. workers[g] \in WorkerRec /\ rpcs \in [Gens -> Seq(RpcRec)]
  BY DEF Runs, TypeOK
<1>2. Follows(workers[g], w)
  BY DEF Follows, Runs, TypeOK
<1>3. rpcs' = [rpcs EXCEPT ![g] = rpcs[g]]
  BY <1>1
<1>4. Extends(rpcs[g], rpcs[g])
  BY <1>1 DEF Extends, Runs, TypeOK
<1>5. OneByOne(rpcs[g])
  BY DEF Runs, Turns
<1>6. w.resolved /\ ~w.late => w.process = "dead" /\ \A n \in 1..Len(rpcs[g]) : rpcs[g][n].at = "over"
  BY DEF Runs, Settled, Numbers
<1> QED BY <1>2, <1>3, <1>4, <1>5, <1>6 DEF Moves

\* The executor gets the result.
LEMMA ResolvedMoves ==
  ASSUME Runs, NEW g \in Gens, NEW w \in WorkerRec, workers[g].outcome # "none",
         w.process = workers[g].process, w.outcome = workers[g].outcome, w.resolved = TRUE,
         workers[g].late => w.late, w.late \/ Clean(g),
         workers' = [workers EXCEPT ![g] = w], UNCHANGED <<owner, rpcs>>
  PROVE  Moves(g, w, rpcs[g])
<1>1. rpcs \in [Gens -> Seq(RpcRec)]
  BY DEF Runs, TypeOK
<1>2. g <= owner /\ workers[g].process # "none" /\ workers[g] \in WorkerRec
  BY Spawned
<1>3. ~w.late => w.process = "dead" /\ \A n \in 1..Len(rpcs[g]) : rpcs[g][n].at = "over"
  BY <1>2 DEF Clean, Live, Numbers, WorkerRec
<1>4. Follows(workers[g], w)
  BY <1>2, <1>3 DEF Follows
<1>5. rpcs' = [rpcs EXCEPT ![g] = rpcs[g]]
  BY <1>1
<1>6. Extends(rpcs[g], rpcs[g]) /\ OneByOne(rpcs[g])
  BY <1>1 DEF Extends, Runs, TypeOK, Turns
<1> QED BY <1>2, <1>3, <1>4, <1>5, <1>6 DEF Moves

\* An RPC in flight may take a step if it had its turn.
LEMMA RpcMoves ==
  ASSUME Runs, NEW g \in Gens, NEW n \in Numbers(g), rpcs[g][n].at # "over",
         NEW r \in RpcRec, r.ordered = rpcs[g][n].ordered,
         r.ordered /\ r.at \in {"running", "fenced"} => Clear(rpcs[g], n),
         NEW w, Follows(workers[g], w), w.resolved = workers[g].resolved, w.late = workers[g].late,
         owner' = owner, workers' = [workers EXCEPT ![g] = w],
         rpcs' = [rpcs EXCEPT ![g] = [rpcs[g] EXCEPT ![n] = r]]
  PROVE  Moves(g, w, [rpcs[g] EXCEPT ![n] = r])
<1> DEFINE qs == rpcs[g]
           rs == [qs EXCEPT ![n] = r]
<1>1. qs \in Seq(RpcRec) /\ n \in 1..Len(qs) /\ Len(qs) <= MaxRpcs
  BY DEF Runs, TypeOK, Numbers
<1>2. rs \in Seq(RpcRec) /\ Len(rs) = Len(qs)
  BY <1>1
<1>3. rs[n] = r /\ \A m \in 1..Len(qs) : m # n => rs[m] = qs[m]
  BY <1>1
<1>4. g <= owner
  BY <1>1, Spawned
<1>5. ~(w.resolved /\ ~w.late)
  BY <1>1 DEF Runs, Settled, Numbers
<1>6. OneByOne(qs) /\ qs[n].at # "over" /\ (r.ordered /\ r.at \in {"running", "fenced"} => Clear(qs, n))
      /\ r.ordered = qs[n].ordered
  BY DEF Runs, Turns
<1> HIDE DEF qs
<1>7. Extends(qs, rs)
  BY <1>1, <1>2, <1>3, <1>6 DEF Extends
<1>8. OneByOne(rs)
  <2> SUFFICES ASSUME NEW m \in 1..Len(qs), rs[m].ordered, rs[m].at \in {"running", "fenced"},
                      NEW k \in 1..(m - 1), rs[k].ordered
               PROVE  rs[k].at = "over"
    BY <1>2 DEF OneByOne, Clear
  <2>1. k \in 1..Len(qs) /\ k # m
    BY <1>1
  <2>2. qs[k].ordered
    BY <1>3, <1>6, <2>1
  <2>3. qs[k].at = "over"
    <3>1. CASE m = n
      BY <1>3, <1>6, <2>2, <3>1 DEF Clear
    <3>2. CASE m # n
      BY <1>3, <1>6, <2>2, <3>2 DEF Clear, OneByOne
    <3> QED BY <3>1, <3>2
  <2> QED BY <1>3, <1>6, <2>1, <2>3
<1> HIDE DEF rs
<1>9. rpcs' = [rpcs EXCEPT ![g] = rs]
  BY DEF qs, rs
<1>10. Moves(g, w, rs)
  BY <1>4, <1>5, <1>7, <1>8, <1>9 DEF Moves, qs
<1> QED BY <1>10 DEF qs, rs

------------------------------------------------------------------------------
\* A step of a spawned worker that answers nothing.
Steps(g) == \E w, rs : Moves(g, w, rs) /\ Silent(rpcs[g], rs)

LEMMA WorkersAreRecords ==
  Runs => \A g \in Gens : workers[g] \in WorkerRec /\ workers[g].outcome \in Outcomes
BY DEF Runs, TypeOK, WorkerRec

LEMMA ReadySteps == ASSUME Runs, NEW g \in Gens, Ready(g) PROVE Steps(g)
<1> DEFINE w == [workers[g] EXCEPT !.ready = TRUE]
<1>1. g <= owner /\ workers[g] \in WorkerRec
  BY Spawned DEF Ready, Live
<1>2. /\ w \in WorkerRec /\ w.process = "live" /\ w.resolved = workers[g].resolved
      /\ w.late = workers[g].late /\ w.outcome = workers[g].outcome
  BY <1>1 DEF WorkerRec, Ready, Live
<1>3. workers' = [workers EXCEPT ![g] = w] /\ UNCHANGED <<owner, rpcs>> /\ workers[g].process = "live"
  BY DEF Ready, Live
<1> HIDE DEF w
<1>4. Moves(g, w, rpcs[g])
  BY <1>1, <1>2, <1>3, SteadyMoves
<1> QED BY <1>4 DEF Steps, Silent

LEMMA InterruptSteps == ASSUME Runs, NEW g \in Gens, Interrupt(g) PROVE Steps(g)
<1> DEFINE w == [workers[g] EXCEPT !.asked = TRUE]
<1>1. g <= owner /\ workers[g] \in WorkerRec /\ workers[g].process # "none"
  BY DEF Interrupt, Runs, TypeOK, Succession, Gens
<1>2. /\ w \in WorkerRec /\ w.process = workers[g].process /\ w.resolved = workers[g].resolved
      /\ w.late = workers[g].late /\ w.outcome = workers[g].outcome
  BY <1>1 DEF WorkerRec
<1>3. workers' = [workers EXCEPT ![g] = w] /\ UNCHANGED <<owner, rpcs>>
  BY DEF Interrupt
<1> HIDE DEF w
<1>4. Moves(g, w, rpcs[g])
  BY <1>1, <1>2, <1>3, SteadyMoves
<1> QED BY <1>4 DEF Steps, Silent

\* finish(), with or without the end of the process.
LEMMA FinishSteps ==
  ASSUME Runs, NEW g \in Gens, g <= owner, NEW o \in Outcomes, o # "none",
         NEW w \in WorkerRec,
         LET f == Finished(workers[g], o)
         IN /\ w.process = f.process \/ w.process = "dead"
            /\ w.asked = f.asked /\ w.outcome = f.outcome
            /\ w.resolved = f.resolved /\ w.late = f.late,
         workers' = [workers EXCEPT ![g] = w], UNCHANGED <<owner, rpcs>>
  PROVE  Steps(g)
<1>1. workers[g] \in WorkerRec /\ workers[g].process # "none"
  BY DEF Runs, TypeOK, Succession
<1>2. /\ w.outcome # "none"
      /\ w.process = workers[g].process \/ w.process = "dead"
      /\ w.resolved = workers[g].resolved /\ w.late = workers[g].late
      /\ w.outcome = workers[g].outcome \/ w.outcome = o
  BY <1>1, FinishedRec
<1>3. Moves(g, w, rpcs[g])
  BY <1>1, <1>2, SteadyMoves
<1> QED BY <1>3 DEF Steps, Silent

\* finish() alone.
LEMMA FinishAloneSteps ==
  ASSUME Runs, NEW g \in Gens, g <= owner, NEW o \in Outcomes, o # "none",
         Finish(g, o), UNCHANGED <<owner, rpcs>>
  PROVE  Steps(g)
<1>1. workers[g] \in WorkerRec
  BY DEF Runs, TypeOK
<1>2. workers' = [workers EXCEPT ![g] = Finished(workers[g], o)]
  BY DEF Finish
<1>3. Finished(workers[g], o) \in WorkerRec
  BY <1>1, FinishedRec
<1> QED BY <1>2, <1>3, FinishSteps

\* finish() with the end of the process.
LEMMA ExitSteps ==
  ASSUME Runs, NEW g \in Gens, Live(g), NEW o \in Outcomes, o # "none",
         workers' = [workers EXCEPT ![g] = [Finished(workers[g], o) EXCEPT !.process = "dead"]],
         UNCHANGED <<owner, rpcs>>
  PROVE  Steps(g)
<1> DEFINE f == Finished(workers[g], o)
           w == [f EXCEPT !.process = "dead"]
<1>1. workers[g] \in WorkerRec /\ g <= owner
  BY Spawned DEF Live
<1>2. f \in WorkerRec
  BY <1>1, FinishedRec
<1>3. /\ w \in WorkerRec /\ w.process = "dead" /\ w.asked = f.asked /\ w.outcome = f.outcome
      /\ w.resolved = f.resolved /\ w.late = f.late
  BY <1>2 DEF WorkerRec
<1> QED BY <1>1, <1>3, FinishSteps

LEMMA EndingSteps ==
  ASSUME Runs, NEW g \in Gens,
         \/ \E outcome \in {"settled", "failed"} : Concludes(g, outcome)
         \/ Exits(g) \/ BreaksPipe(g) \/ Grace(g) \/ Watchdog(g)
  PROVE  Steps(g)
<1>1. ASSUME NEW outcome \in {"settled", "failed"}, Concludes(g, outcome) PROVE Steps(g)
  <2>1. PICK heard \in {outcome, IF workers[g].asked THEN "interrupted" ELSE "exited"} :
          workers' = [workers EXCEPT ![g] = [Finished(workers[g], heard) EXCEPT !.process = "dead"]]
    BY <1>1 DEF Concludes
  <2>2. heard \in Outcomes /\ heard # "none"
    BY DEF Outcomes
  <2> QED BY <1>1, <2>1, <2>2, ExitSteps DEF Concludes
<1>2. CASE Exits(g)
  <2> DEFINE o == IF workers[g].asked THEN "interrupted" ELSE "exited"
  <2>1. /\ o \in Outcomes /\ o # "none"
        /\ workers' = [workers EXCEPT ![g] = [Finished(workers[g], o) EXCEPT !.process = "dead"]]
    BY <1>2 DEF Exits, Outcomes
  <2> HIDE DEF o
  <2> QED BY <1>2, <2>1, ExitSteps DEF Exits
<1>3. CASE BreaksPipe(g)
  BY <1>3, Spawned, FinishAloneSteps DEF BreaksPipe, Live, Outcomes
<1>4. CASE Grace(g)
  BY <1>4, Spawned, FinishAloneSteps DEF Grace, Outcomes
<1>5. CASE Watchdog(g)
  <2>1. g <= owner
    BY <1>5 DEF Watchdog, Watches, Runs, TypeOK
  <2> QED BY <1>5, <2>1, FinishAloneSteps DEF Watchdog, Outcomes
<1> QED BY <1>1, <1>2, <1>3, <1>4, <1>5

LEMMA SampleSteps == ASSUME Runs, NEW g \in Gens, Sample(g) PROVE Steps(g)
<1> DEFINE w == [workers[g] EXCEPT !.sampling = TRUE]
<1>1. g <= owner /\ workers[g] \in WorkerRec /\ workers[g].process # "none"
  BY DEF Sample, Watches, Runs, TypeOK, Succession, Gens
<1>2. /\ w \in WorkerRec /\ w.process = workers[g].process /\ w.resolved = workers[g].resolved
      /\ w.late = workers[g].late /\ w.outcome = workers[g].outcome
  BY <1>1 DEF WorkerRec
<1>3. workers' = [workers EXCEPT ![g] = w] /\ UNCHANGED <<owner, rpcs>>
  BY DEF Sample
<1> HIDE DEF w
<1>4. Moves(g, w, rpcs[g])
  BY <1>1, <1>2, <1>3, SteadyMoves
<1> QED BY <1>4 DEF Steps, Silent

LEMMA SampledSteps == ASSUME Runs, NEW g \in Gens, Sampled(g) PROVE Steps(g)
<1>1. PICK r \in {workers[g], Finished(workers[g], "memory")} :
        workers' = [workers EXCEPT ![g] = [r EXCEPT !.sampling = FALSE]]
  BY DEF Sampled
<1> DEFINE w == [r EXCEPT !.sampling = FALSE]
<1>2. g <= owner /\ workers[g] \in WorkerRec /\ workers[g].process # "none"
  BY Spawned DEF Sampled
<1>3. "memory" \in Outcomes /\ "memory" # "none"
  BY DEF Outcomes
<1>4. /\ r \in WorkerRec /\ r.process = workers[g].process /\ r.resolved = workers[g].resolved
      /\ r.late = workers[g].late
      /\ r.outcome = workers[g].outcome \/ (r.outcome = "memory" /\ workers[g].outcome = "none")
  BY <1>1, <1>2, <1>3, FinishedRec
<1>5. /\ w \in WorkerRec /\ w.process = r.process /\ w.resolved = r.resolved
      /\ w.late = r.late /\ w.outcome = r.outcome
  BY <1>4 DEF WorkerRec
<1>6. workers' = [workers EXCEPT ![g] = w] /\ UNCHANGED <<owner, rpcs>>
  BY <1>1 DEF Sampled
<1> HIDE DEF w
<1>7. Moves(g, w, rpcs[g])
  BY <1>2, <1>4, <1>5, <1>6, SteadyMoves
<1> QED BY <1>7 DEF Steps, Silent

LEMMA KilledSteps == ASSUME Runs, NEW g \in Gens, Killed(g) PROVE Steps(g)
<1> DEFINE w == [workers[g] EXCEPT !.process = "dead"]
<1>1. g <= owner /\ workers[g] \in WorkerRec
  BY Spawned DEF Killed, Live
<1>2. /\ w \in WorkerRec /\ w.process = "dead" /\ w.resolved = workers[g].resolved
      /\ w.late = workers[g].late /\ w.outcome = workers[g].outcome
  BY <1>1 DEF WorkerRec
<1>3. workers' = [workers EXCEPT ![g] = w] /\ UNCHANGED <<owner, rpcs>>
  BY DEF Killed
<1> HIDE DEF w
<1>4. Moves(g, w, rpcs[g])
  BY <1>1, <1>2, <1>3, SteadyMoves
<1> QED BY <1>4 DEF Steps, Silent

LEMMA ResolveSteps == ASSUME Runs, NEW g \in Gens, Resolve(g) \/ Deadline(g) PROVE Steps(g)
<1>1. workers[g].outcome # "none" /\ workers[g] \in WorkerRec
  BY DEF Resolve, Deadline, Over, Runs, TypeOK
<1>2. PICK late \in BOOLEAN :
        /\ late \/ Clean(g)
        /\ workers' = [workers EXCEPT ![g] = IF late THEN [@ EXCEPT !.resolved = TRUE, !.late = TRUE]
                                              ELSE [@ EXCEPT !.resolved = TRUE]]
  BY DEF Resolve, Deadline
<1> DEFINE w == IF late THEN [workers[g] EXCEPT !.resolved = TRUE, !.late = TRUE]
                ELSE [workers[g] EXCEPT !.resolved = TRUE]
<1>3. /\ w \in WorkerRec /\ w.process = workers[g].process /\ w.outcome = workers[g].outcome
      /\ w.resolved = TRUE /\ (workers[g].late => w.late) /\ (late => w.late)
  BY <1>1 DEF WorkerRec
<1>4. workers' = [workers EXCEPT ![g] = w] /\ UNCHANGED <<owner, rpcs>>
  BY <1>2 DEF Resolve, Deadline
<1> HIDE DEF w
<1>5. Moves(g, w, rpcs[g])
  BY <1>1, <1>2, <1>3, <1>4, ResolvedMoves
<1> QED BY <1>5 DEF Steps, Silent

------------------------------------------------------------------------------
\* The next state of an RPC that goes on, or ends.
LEMMA GoesAs ==
  ASSUME Runs, NEW g \in Gens, NEW n \in Numbers(g), NEW at \in {"sent", "running", "fenced", "over"},
         Goes(g, n, at)
  PROVE  LET r == [rpcs[g][n] EXCEPT !.at = at] IN
         /\ rpcs' = [rpcs EXCEPT ![g] = [rpcs[g] EXCEPT ![n] = r]]
         /\ r \in RpcRec /\ r.ordered = rpcs[g][n].ordered /\ r.at = at
         /\ r.answered = rpcs[g][n].answered
<1>1. rpcs[g][n] \in RpcRec
  BY DEF Runs, TypeOK, Numbers
<1> QED BY <1>1 DEF Goes, RpcRec

LEMMA EndsAs ==
  ASSUME Runs, NEW g \in Gens, NEW n \in Numbers(g), Ends(g, n)
  PROVE  LET r == [rpcs[g][n] EXCEPT !.at = "over", !.answered = ~Over(g)] IN
         /\ rpcs' = [rpcs EXCEPT ![g] = [rpcs[g] EXCEPT ![n] = r]]
         /\ r \in RpcRec /\ r.ordered = rpcs[g][n].ordered /\ r.at = "over"
         /\ r.answered = ~Over(g)
<1> DEFINE a == ~Over(g)
           q == [rpcs[g][n] EXCEPT !.at = "over"]
           r == [q EXCEPT !.answered = a]
<1>1. rpcs[g][n] \in RpcRec /\ rpcs[g] \in Seq(RpcRec) /\ rpcs \in [Gens -> Seq(RpcRec)]
  BY DEF Runs, TypeOK, Numbers
<1>2. a \in BOOLEAN
  BY DEF Over
<1>3. rpcs' = [rpcs EXCEPT ![g][n].at = "over", ![g][n].answered = a]
  BY DEF Ends
<1> HIDE DEF a
<1>4. q \in RpcRec /\ q.ordered = rpcs[g][n].ordered /\ q.at = "over"
  BY <1>1 DEF RpcRec
<1>5. r = [rpcs[g][n] EXCEPT !.at = "over", !.answered = a]
  OBVIOUS
<1>6. r \in RpcRec /\ r.ordered = rpcs[g][n].ordered /\ r.at = "over" /\ r.answered = a
  <2> HIDE DEF q
  <2> QED BY <1>2, <1>4 DEF RpcRec
<1>7. rpcs' = [rpcs EXCEPT ![g] = [rpcs[g] EXCEPT ![n] = [rpcs[g][n] EXCEPT !.at = "over", !.answered = a]]]
  BY <1>1, <1>3 DEF Numbers
<1> QED BY <1>5, <1>6, <1>7 DEF a

\* A worker that stands still follows itself.
LEMMA SameWorker ==
  ASSUME Runs, NEW g \in Gens, NEW n \in Numbers(g)
  PROVE  Follows(workers[g], workers[g]) /\ workers = [workers EXCEPT ![g] = workers[g]]
<1>1. rpcs[g] # <<>> /\ workers \in [Gens -> WorkerRec]
  BY DEF Runs, TypeOK, Numbers
<1>2. workers[g].process # "none" /\ workers[g] \in WorkerRec
  BY <1>1, Spawned
<1> QED BY <1>1, <1>2 DEF Follows, Runs, TypeOK

\* The shape of every step of an RPC that leaves its worker alone.
LEMMA RpcSteps ==
  ASSUME Runs, NEW g \in Gens, NEW n \in Numbers(g), rpcs[g][n].at # "over",
         NEW r \in RpcRec, r.ordered = rpcs[g][n].ordered,
         r.ordered /\ r.at \in {"running", "fenced"} => Clear(rpcs[g], n),
         UNCHANGED <<owner, workers>>,
         rpcs' = [rpcs EXCEPT ![g] = [rpcs[g] EXCEPT ![n] = r]]
  PROVE  /\ Moves(g, workers[g], [rpcs[g] EXCEPT ![n] = r])
         /\ (r.answered => rpcs[g][n].answered) => Steps(g)
<1>1. Follows(workers[g], workers[g]) /\ workers' = [workers EXCEPT ![g] = workers[g]]
  BY SameWorker
<1>2. Moves(g, workers[g], [rpcs[g] EXCEPT ![n] = r])
  BY <1>1, RpcMoves
<1>3. (r.answered => rpcs[g][n].answered) => Silent(rpcs[g], [rpcs[g] EXCEPT ![n] = r])
  BY DEF Silent, Runs, TypeOK, Numbers
<1> QED BY <1>2, <1>3 DEF Steps

LEMMA SendSteps ==
  ASSUME Runs, NEW g \in Gens, NEW ordered \in BOOLEAN, Send(g, ordered) PROVE Steps(g)
<1> DEFINE r == [ordered |-> ordered, at |-> "sent", answered |-> FALSE]
           qs == rpcs[g]
           rs == Append(qs, r)
<1>1. /\ qs \in Seq(RpcRec) /\ rpcs' = [rpcs EXCEPT ![g] = rs] /\ owner' = owner
      /\ workers' = [workers EXCEPT ![g] = workers[g]] /\ OneByOne(qs)
  BY DEF Send, Runs, TypeOK, Turns
<1>2. /\ g <= owner /\ workers[g].process = "live" /\ workers[g].outcome = "none"
      /\ workers[g] \in WorkerRec
  BY Spawned DEF Send, Live, Over
<1>3. ~workers[g].resolved
  BY <1>2 DEF Runs, TypeOK
<1>4. Follows(workers[g], workers[g])
  BY <1>2, <1>3 DEF Follows
<1>5. r \in RpcRec /\ r.at = "sent" /\ r.ordered = ordered /\ ~r.answered
  BY DEF RpcRec
<1>6. Len(qs) + 1 <= MaxRpcs
  BY <1>1 DEF Send, Gens
<1> HIDE DEF r, qs
<1>7. /\ rs \in Seq(RpcRec) /\ Len(rs) = Len(qs) + 1 /\ rs[Len(qs) + 1] = r
      /\ \A m \in 1..Len(qs) : rs[m] = qs[m]
  BY <1>1, <1>5
<1> HIDE DEF rs
<1>8. Extends(qs, rs)
  BY <1>1, <1>6, <1>7 DEF Extends
<1>9. OneByOne(rs)
  <2> SUFFICES ASSUME NEW n \in 1..(Len(qs) + 1), rs[n].ordered, rs[n].at \in {"running", "fenced"},
                      NEW m \in 1..(n - 1), rs[m].ordered
               PROVE  rs[m].at = "over"
    BY <1>7 DEF OneByOne, Clear
  <2>1. n \in 1..Len(qs) /\ m \in 1..Len(qs)
    BY <1>1, <1>5, <1>7
  <2> QED BY <1>1, <1>7, <2>1 DEF OneByOne, Clear
<1>10. Moves(g, workers[g], rs)
  BY <1>1, <1>2, <1>3, <1>4, <1>8, <1>9 DEF Moves, qs
<1>11. Silent(rpcs[g], rs)
  BY <1>1, <1>5, <1>7 DEF Silent, qs
<1> QED BY <1>10, <1>11 DEF Steps

LEMMA DispatchSteps ==
  ASSUME Runs, NEW g \in Gens, NEW n \in Numbers(g), Dispatch(g, n) PROVE Steps(g)
<1>1. rpcs[g][n].at = "sent" /\ UNCHANGED <<owner, workers>>
  BY DEF Dispatch
<1>2. rpcs[g][n].ordered => Clear(rpcs[g], n)
  BY DEF Dispatch, TurnOf, Clear
<1>3. CASE Goes(g, n, "running")
  <2> DEFINE r == [rpcs[g][n] EXCEPT !.at = "running"]
  <2>1. /\ r \in RpcRec /\ r.ordered = rpcs[g][n].ordered /\ r.answered = rpcs[g][n].answered
        /\ rpcs' = [rpcs EXCEPT ![g] = [rpcs[g] EXCEPT ![n] = r]]
    BY <1>3, GoesAs
  <2> HIDE DEF r
  <2> QED BY <1>1, <1>2, <2>1, RpcSteps
<1>4. CASE Goes(g, n, "over")
  <2> DEFINE r == [rpcs[g][n] EXCEPT !.at = "over"]
  <2>1. /\ r \in RpcRec /\ r.ordered = rpcs[g][n].ordered /\ r.answered = rpcs[g][n].answered
        /\ rpcs' = [rpcs EXCEPT ![g] = [rpcs[g] EXCEPT ![n] = r]]
    BY <1>4, GoesAs
  <2> HIDE DEF r
  <2> QED BY <1>1, <1>2, <2>1, RpcSteps
<1> QED BY <1>3, <1>4 DEF Dispatch

\* An ordered RPC that runs has had its turn.
LEMMA RunsClear ==
  ASSUME Runs, NEW g \in Gens, NEW n \in Numbers(g), rpcs[g][n].ordered,
         rpcs[g][n].at \in {"running", "fenced"}
  PROVE  Clear(rpcs[g], n)
BY DEF Runs, Turns, OneByOne, Numbers

LEMMA FenceSteps ==
  ASSUME Runs, NEW g \in Gens, NEW n \in Numbers(g), Fence(g, n) PROVE Steps(g)
<1>1. rpcs[g][n].at = "running" /\ UNCHANGED <<owner, workers>>
  BY DEF Fence
<1>2. CASE Goes(g, n, "fenced")
  <2> DEFINE r == [rpcs[g][n] EXCEPT !.at = "fenced"]
  <2>1. /\ r \in RpcRec /\ r.ordered = rpcs[g][n].ordered /\ r.answered = rpcs[g][n].answered
        /\ rpcs' = [rpcs EXCEPT ![g] = [rpcs[g] EXCEPT ![n] = r]]
    BY <1>2, GoesAs
  <2> HIDE DEF r
  <2> QED BY <1>1, <2>1, RunsClear, RpcSteps
<1>3. CASE owner # g /\ Ends(g, n)
  <2> DEFINE r == [rpcs[g][n] EXCEPT !.at = "over", !.answered = ~Over(g)]
  <2>1. /\ r \in RpcRec /\ r.ordered = rpcs[g][n].ordered /\ r.answered = ~Over(g)
        /\ rpcs' = [rpcs EXCEPT ![g] = [rpcs[g] EXCEPT ![n] = r]]
    BY <1>3, EndsAs
  <2>2. Over(g)
    <3>1. rpcs[g] # <<>>
      BY DEF Runs, TypeOK, Numbers
    <3>2. g <= owner
      BY <3>1, Spawned
    <3> QED BY <1>3, <3>2 DEF Runs, TypeOK, Succession, Over, Gens
  <2> HIDE DEF r
  <2> QED BY <1>1, <2>1, <2>2, RunsClear, RpcSteps
<1> QED BY <1>2, <1>3 DEF Fence

LEMMA AbortSteps ==
  ASSUME Runs, NEW g \in Gens, NEW n \in Numbers(g), Abort(g, n) PROVE Steps(g)
<1> DEFINE r == [rpcs[g][n] EXCEPT !.at = "over"]
<1>1. /\ r \in RpcRec /\ r.ordered = rpcs[g][n].ordered /\ r.at = "over"
      /\ rpcs' = [rpcs EXCEPT ![g] = [rpcs[g] EXCEPT ![n] = r]]
      /\ r.answered = rpcs[g][n].answered
  BY GoesAs DEF Abort
<1>2. rpcs[g][n].at # "over" /\ UNCHANGED <<owner, workers>>
  BY DEF Abort
<1> HIDE DEF r
<1> QED BY <1>1, <1>2, RpcSteps

LEMMA FailsSteps ==
  ASSUME Runs, NEW g \in Gens, NEW n \in Numbers(g), Fails(g, n) PROVE Steps(g)
<1> DEFINE r == [rpcs[g][n] EXCEPT !.at = "over"]
           w == Finished(workers[g], "failed")
<1>1. /\ r \in RpcRec /\ r.ordered = rpcs[g][n].ordered /\ r.at = "over"
      /\ rpcs' = [rpcs EXCEPT ![g] = [rpcs[g] EXCEPT ![n] = r]]
      /\ r.answered = rpcs[g][n].answered
  BY GoesAs DEF Fails
<1>2. /\ rpcs[g][n].at # "over" /\ owner' = owner
      /\ workers' = [workers EXCEPT ![g] = w] /\ workers[g] \in WorkerRec
  BY DEF Fails, Finish, Runs, TypeOK
<1>3. /\ w \in WorkerRec /\ w.outcome # "none" /\ w.process = workers[g].process
      /\ w.resolved = workers[g].resolved /\ w.late = workers[g].late
      /\ w.outcome = workers[g].outcome \/ w.outcome = "failed"
  BY <1>2, FinishedRec DEF Outcomes
<1>4. Follows(workers[g], w)
  BY <1>3, SameWorker DEF Follows
<1> HIDE DEF r, w
<1>5. Moves(g, w, [rpcs[g] EXCEPT ![n] = r])
  BY <1>1, <1>2, <1>3, <1>4, RpcMoves
<1>6. Silent(rpcs[g], [rpcs[g] EXCEPT ![n] = r])
  BY <1>1 DEF Silent, Runs, TypeOK, Numbers
<1> QED BY <1>5, <1>6 DEF Steps

------------------------------------------------------------------------------
\* A write of an RPC that had its turn goes behind all that were sent before it.
LEMMA WriteIInv ==
  ASSUME IInv, NEW g \in Gens, NEW n \in Numbers(g), Write(g, n) PROVE IInv'
<1> DEFINE r == [rpcs[g][n] EXCEPT !.at = "over", !.answered = ~Over(g)]
           rs == [rpcs[g] EXCEPT ![n] = r]
           e == <<g, n, rpcs[g][n].ordered>>
<1>0. /\ Runs /\ record \in Seq(Entries) /\ rpcs[g] \in Seq(RpcRec) /\ n \in 1..Len(rpcs[g])
      /\ rpcs \in [Gens -> Seq(RpcRec)] /\ owner \in Nat
  BY DEF IInv, Runs, TypeOK, Entries, Numbers
<1>1. /\ r \in RpcRec /\ r.ordered = rpcs[g][n].ordered /\ r.at = "over"
      /\ rpcs' = [rpcs EXCEPT ![g] = [rpcs[g] EXCEPT ![n] = r]]
  BY <1>0, EndsAs DEF Write
<1>2. rpcs[g][n].at = "fenced" /\ UNCHANGED <<owner, workers>> /\ record' = Append(record, e)
  BY DEF Write
<1>3. e \in Entries /\ e[1] = g /\ e[2] = n /\ e[3] = rpcs[g][n].ordered
  <2>1. n \in 1..MaxRpcs
    BY <1>0 DEF Runs, TypeOK
  <2>2. rpcs[g][n] \in RpcRec
    BY <1>0
  <2> QED BY <2>1, <2>2 DEF Entries, RpcRec
<1> HIDE DEF r
<1>4. Moves(g, workers[g], rs)
  BY <1>0, <1>1, <1>2, RpcSteps
<1> HIDE DEF e
<1>5. /\ record' \in Seq(Entries) /\ Len(record') = Len(record) + 1 /\ record'[Len(record) + 1] = e
      /\ \A i \in 1..Len(record) : record'[i] = record[i] /\ record[i] \in Entries
      /\ Len(record) \in Nat
  BY <1>0, <1>2, <1>3
<1>6. Runs'
  BY <1>0, <1>4, <1>5, MovesRuns DEF Entries
<1>7. rpcs'[g] = rs /\ Len(rs) = Len(rpcs[g]) /\ rs[n] = r
      /\ \A m \in 1..Len(rpcs[g]) : m # n => rs[m] = rpcs[g][m]
  BY <1>0, <1>1
<1>8. /\ e[1] <= owner' /\ e[2] \in 1..Len(rpcs'[e[1]]) /\ rpcs'[e[1]][e[2]].at = "over"
      /\ e[3] => Clear(rpcs'[e[1]], e[2] + 1)
  <2>1. g <= owner'
    BY <1>4 DEF Moves
  <2>2. rpcs[g][n].ordered => Clear(rs, n + 1)
    <3> SUFFICES ASSUME rpcs[g][n].ordered, NEW m \in 1..n, rs[m].ordered PROVE rs[m].at = "over"
      BY <1>0 DEF Clear
    <3>1. Clear(rpcs[g], n)
      BY <1>0, <1>2, RunsClear DEF Numbers
    <3>2. CASE m = n
      BY <1>1, <1>7, <3>2
    <3>3. CASE m # n
      BY <1>0, <1>7, <3>1, <3>3 DEF Clear
    <3> QED BY <3>2, <3>3
  <2> HIDE DEF rs
  <2>3. rpcs'[e[1]] = rs /\ n \in 1..Len(rs) /\ rs[n].at = "over"
    BY <1>0, <1>1, <1>3, <1>7
  <2> QED BY <1>3, <2>1, <2>2, <2>3
<1>9. Recorded'
  <2> SUFFICES ASSUME NEW i \in 1..Len(record')
               PROVE  /\ record'[i][1] <= owner' /\ record'[i][2] \in 1..Len(rpcs'[record'[i][1]])
                      /\ rpcs'[record'[i][1]][record'[i][2]].at = "over"
                      /\ record'[i][3] => Clear(rpcs'[record'[i][1]], record'[i][2] + 1)
    BY DEF Recorded, Entered, Numbers
  <2>1. CASE i \in 1..Len(record)
    <3>1. record'[i] = record[i] /\ record[i] \in Entries /\ Entered(record[i])
      BY <1>5, <2>1 DEF IInv, Recorded
    <3> QED BY <1>0, <1>4, <3>1, MovesEntered
  <2>2. CASE i = Len(record) + 1
    BY <1>5, <1>8, <2>2
  <2> QED BY <1>5, <2>1, <2>2
<1>10. ASSUME NEW i \in 1..Len(record), record[i][1] = g, record[i][3], rpcs[g][n].ordered
       PROVE  record[i][2] < n
  <2>1. Clear(rpcs[g], record[i][2] + 1) /\ record[i][2] \in Nat
    BY <1>0, <1>10 DEF IInv, Recorded, Entered, Numbers
  <2>2. ~(n \in 1..record[i][2])
    BY <1>0, <1>2, <1>10, <2>1 DEF Clear
  <2> QED BY <1>0, <2>1, <2>2
<1>11. OrderKept'
  <2> SUFFICES ASSUME NEW i \in 1..Len(record'), NEW j \in 1..Len(record'), i < j,
                      record'[i][1] = record'[j][1], record'[i][3], record'[j][3]
               PROVE  record'[i][2] < record'[j][2]
    BY DEF OrderKept
  <2>1. i \in 1..Len(record)
    BY <1>5
  <2>2. CASE j \in 1..Len(record)
    BY <1>5, <2>1, <2>2 DEF IInv, OrderKept
  <2>3. CASE j = Len(record) + 1
    BY <1>3, <1>5, <1>10, <2>1, <2>3
  <2> QED BY <1>5, <2>2, <2>3
<1>12. GenerationsDoNotOverlap'
  <2>1. \A h \in Gens : Live(h)' => owner' = h \/ workers'[h].late
    BY <1>6, OverlapIsLate
  <2>2. ASSUME NEW i \in 1..Len(record), record[i][1] > g PROVE workers[g].late
    <3>1. record[i][1] <= owner
      BY DEF IInv, Recorded, Entered
    <3>2. record[i][1] \in Nat
      <4>1. record[i] \in Entries
        BY <1>5
      <4> QED BY <4>1 DEF Entries, Gens
    <3>3. g < owner
      BY <1>0, <2>2, <3>1, <3>2 DEF Gens
    <3> QED BY <1>0, <1>2, <3>3 DEF Runs, Succession, Settled, Numbers
  <2>3. ASSUME NEW i \in 1..Len(record'), NEW j \in 1..Len(record'), i < j,
               record'[i][1] > record'[j][1]
        PROVE  workers'[record'[j][1]].late
    <3>1. i \in 1..Len(record)
      BY <1>5, <2>3
    <3>2. CASE j \in 1..Len(record)
      BY <1>2, <1>5, <2>3, <3>1, <3>2 DEF IInv, GenerationsDoNotOverlap
    <3>3. CASE j = Len(record) + 1
      BY <1>2, <1>3, <1>5, <2>2, <2>3, <3>1, <3>3
    <3> QED BY <1>5, <3>2, <3>3
  <2> QED BY <2>1, <2>3 DEF GenerationsDoNotOverlap
<1>13. ASSUME NEW i \in 1..Len(record), record[i][1] = g PROVE record[i][2] # n
  BY <1>2, <1>13 DEF IInv, Recorded, Entered
<1>14. Once'
  <2> SUFFICES ASSUME NEW i \in 1..Len(record'), NEW j \in 1..Len(record'),
                      record'[i][1] = record'[j][1], record'[i][2] = record'[j][2]
               PROVE  i = j
    BY DEF Once
  <2>1. CASE i \in 1..Len(record) /\ j \in 1..Len(record)
    BY <1>5, <2>1 DEF IInv, Once
  <2>2. CASE i = Len(record) + 1 \/ j = Len(record) + 1
    BY <1>3, <1>5, <1>13, <2>2
  <2> QED BY <1>5, <2>1, <2>2
<1>15. Written'
  <2> SUFFICES ASSUME NEW h \in Gens, NEW m \in 1..Len(rpcs'[h]), rpcs'[h][m].answered
               PROVE  \E i \in 1..Len(record') : record'[i][1] = h /\ record'[i][2] = m
    BY DEF Written, Numbers
  <2>1. CASE h = g /\ m = n
    BY <1>3, <1>5, <2>1
  <2>2. CASE ~(h = g /\ m = n)
    <3>1. m \in 1..Len(rpcs[h]) /\ rpcs[h][m].answered
      BY <1>0, <1>1, <1>7, <2>2
    <3>2. PICK i \in 1..Len(record) : record[i][1] = h /\ record[i][2] = m
      BY <3>1 DEF IInv, Written, Numbers
    <3> QED BY <1>5, <3>2
  <2> QED BY <2>1, <2>2
<1> QED BY <1>6, <1>9, <1>11, <1>12, <1>14, <1>15 DEF IInv

\* A replacement is spawned after the result of its predecessor.
LEMMA OpenIInv == ASSUME IInv, NEW g \in Gens, Open(g) PROVE IInv'
<1> DEFINE w == [Unborn EXCEPT !.process = "live"]
<1>0. /\ Runs /\ workers \in [Gens -> WorkerRec] /\ rpcs \in [Gens -> Seq(RpcRec)]
      /\ owner \in Nat /\ g \in Nat /\ owner = g - 1 /\ owner' = g /\ rpcs' = rpcs /\ record' = record
      /\ record \in Seq(Entries)
  BY DEF IInv, Runs, TypeOK, Open, Gens, Entries
<1>1. /\ w \in WorkerRec /\ w.process = "live" /\ w.resolved = FALSE /\ w.late = FALSE
  BY UnbornRec DEF WorkerRec, Unborn
<1>2. workers' = [workers EXCEPT ![g] = w]
  BY DEF Open
<1> HIDE DEF w
<1>3. workers' \in [Gens -> WorkerRec] /\ workers'[g] = w /\ \A h \in Gens \ {g} : workers'[h] = workers[h]
  BY <1>0, <1>1, <1>2
<1>4. TypeOK'
  <2>1. \A h \in Gens : workers'[h].process # "none" => owner' >= h
    <3> SUFFICES ASSUME NEW h \in Gens, workers'[h].process # "none" PROVE g >= h
      BY <1>0
    <3>1. CASE h = g
      BY <1>0, <3>1
    <3>2. CASE h # g
      <4>1. owner >= h /\ h \in Nat
        BY <1>0, <1>3, <3>2 DEF Runs, TypeOK, Gens
      <4> QED BY <1>0, <4>1
    <3> QED BY <3>1, <3>2
  <2>2. \A h \in Gens : workers'[h].resolved =>
          workers'[h].outcome # "none" /\ (workers'[h].process = "dead" \/ workers'[h].late)
    BY <1>0, <1>1, <1>3 DEF Runs, TypeOK
  <2>3. owner' \in 0..MaxGens
    BY <1>0 DEF Gens
  <2> QED BY <1>0, <1>3, <2>1, <2>2, <2>3 DEF Runs, TypeOK
<1>5. Succession'
  <2> SUFFICES ASSUME NEW h \in Gens
               PROVE  /\ h > g => workers'[h] = Unborn /\ rpcs'[h] = <<>>
                      /\ h <= g => workers'[h].process # "none"
                      /\ h < g => workers'[h].resolved
    BY <1>0 DEF Succession
  <2>1. h \in Nat
    BY DEF Gens
  <2>2. CASE h = g
    BY <1>0, <1>1, <1>3, <2>2
  <2>3. CASE h > g
    BY <1>0, <1>3, <2>1, <2>3 DEF Runs, Succession
  <2>4. CASE h < g
    <3>1. h <= owner /\ (h < owner \/ h = owner)
      BY <1>0, <2>1, <2>4
    <3>2. workers[h].process # "none" /\ workers[h].resolved
      <4>1. CASE h = owner
        <5>1. workers[g - 1].resolved
          BY <1>0, <2>1, <2>4, <4>1 DEF Open, Gens
        <5> QED BY <1>0, <3>1, <4>1, <5>1 DEF Runs, Succession
      <4>2. CASE h < owner
        BY <1>0, <3>1, <4>2 DEF Runs, Succession
      <4> QED BY <3>1, <4>1, <4>2
    <3> QED BY <1>0, <1>3, <2>1, <2>4, <3>2
  <2> QED BY <1>0, <2>1, <2>2, <2>3, <2>4
<1>6. Settled'
  BY <1>0, <1>1, <1>3 DEF Runs, Settled, Numbers
<1>7. Turns'
  BY <1>0 DEF Runs, Turns
<1>8. Recorded'
  <2> SUFFICES ASSUME NEW i \in 1..Len(record)
               PROVE  record[i][1] <= g
    BY <1>0 DEF IInv, Recorded, Entered, Numbers
  <2>1. record[i] \in Entries
    BY <1>0
  <2>2. record[i][1] \in Nat
    BY <2>1 DEF Entries, Gens
  <2>3. record[i][1] <= owner
    BY DEF IInv, Recorded, Entered
  <2> QED BY <1>0, <2>2, <2>3
<1>9. OrderKept'
  BY <1>0 DEF IInv, OrderKept
<1>10. GenerationsDoNotOverlap'
  <2>1. Runs'
    BY <1>4, <1>5, <1>6, <1>7 DEF Runs
  <2>2. \A h \in Gens : Live(h)' => owner' = h \/ workers'[h].late
    BY <2>1, OverlapIsLate
  <2>3. ASSUME NEW i \in 1..Len(record), NEW j \in 1..Len(record), i < j, record[i][1] > record[j][1]
        PROVE  workers'[record[j][1]].late
    <3>1. record[j] \in Entries
      BY <1>0
    <3>2. record[j][1] \in Gens /\ record[j][1] <= owner
      BY <3>1 DEF Entries, IInv, Recorded, Entered
    <3>3. record[j][1] # g
      BY <1>0, <3>2 DEF Gens
    <3> QED BY <1>3, <2>3, <3>2, <3>3 DEF IInv, GenerationsDoNotOverlap
  <2> QED BY <1>0, <2>2, <2>3 DEF GenerationsDoNotOverlap
<1>11. Once' /\ Written'
  BY <1>0 DEF IInv, Once, Written, Numbers
<1> QED BY <1>4, <1>5, <1>6, <1>7, <1>8, <1>9, <1>10, <1>11 DEF IInv, Runs

\* Nothing is spawned yet.
LEMMA InitIInv == Init => IInv
<1> SUFFICES ASSUME Init PROVE IInv
  OBVIOUS
<1>1. /\ owner = 0 /\ record = <<>> /\ \A g \in Gens : workers[g] = Unborn /\ rpcs[g] = <<>>
      /\ workers \in [Gens -> WorkerRec] /\ rpcs \in [Gens -> Seq(RpcRec)]
  BY UnbornRec DEF Init
<1>2. TypeOK
  BY <1>1, UnbornRec DEF TypeOK
<1>3. Succession /\ Settled /\ Turns
  BY <1>1, UnbornRec DEF Succession, Settled, Turns, OneByOne, Gens
<1>4. Recorded /\ OrderKept /\ GenerationsDoNotOverlap /\ Once /\ Written
  BY <1>1, UnbornRec DEF Recorded, OrderKept, GenerationsDoNotOverlap, Live, Once, Written, Numbers
<1> QED BY <1>2, <1>3, <1>4 DEF IInv, Runs

\* Every step is a spawn, a write, or a step of a spawned worker that writes nothing.
LEMMA NextSteps ==
  ASSUME Runs, Next
  PROVE  \E g \in Gens : \/ Open(g) \/ (Steps(g) /\ record' = record)
                         \/ \E n \in Numbers(g) : Write(g, n)
<1>1. PICK g \in Gens :
    \/ Open(g) \/ Ready(g) \/ Interrupt(g) \/ Exits(g) \/ BreaksPipe(g)
    \/ \E outcome \in {"settled", "failed"} : Concludes(g, outcome)
    \/ Grace(g) \/ Watchdog(g) \/ Sample(g) \/ Sampled(g)
    \/ Killed(g) \/ Resolve(g) \/ Deadline(g)
    \/ \E ordered \in BOOLEAN : Send(g, ordered)
    \/ \E n \in Numbers(g) :
         \/ Dispatch(g, n) \/ Fence(g, n) \/ Write(g, n)
         \/ Abort(g, n) \/ Fails(g, n)
  BY Zenon DEF Next
<1>2. CASE Ready(g)
  BY <1>2, ReadySteps DEF Ready
<1>3. CASE Interrupt(g)
  BY <1>3, InterruptSteps DEF Interrupt
<1>4. CASE \/ \E outcome \in {"settled", "failed"} : Concludes(g, outcome)
           \/ Exits(g) \/ BreaksPipe(g) \/ Grace(g) \/ Watchdog(g)
  <2>1. record' = record
    BY <1>4 DEF Concludes, Exits, BreaksPipe, Grace, Watchdog
  <2> QED BY <1>4, <2>1, EndingSteps
<1>5. CASE Sample(g)
  BY <1>5, SampleSteps DEF Sample
<1>6. CASE Sampled(g)
  BY <1>6, SampledSteps DEF Sampled
<1>7. CASE Killed(g)
  BY <1>7, KilledSteps DEF Killed
<1>8. CASE Resolve(g) \/ Deadline(g)
  BY <1>8, ResolveSteps DEF Resolve, Deadline
<1>9. ASSUME NEW ordered \in BOOLEAN, Send(g, ordered) PROVE Steps(g) /\ record' = record
  BY <1>9, SendSteps DEF Send
<1>10. ASSUME NEW n \in Numbers(g), Dispatch(g, n) \/ Fence(g, n) \/ Abort(g, n) \/ Fails(g, n)
       PROVE  Steps(g) /\ record' = record
  <2>1. record' = record
    BY <1>10 DEF Dispatch, Fence, Abort, Fails
  <2> QED BY <1>10, <2>1, DispatchSteps, FenceSteps, AbortSteps, FailsSteps
<1> QED BY <1>1, <1>2, <1>3, <1>4, <1>5, <1>6, <1>7, <1>8, <1>9, <1>10

LEMMA NextIInv == IInv /\ [Next]_vars => IInv'
<1> SUFFICES ASSUME IInv, [Next]_vars PROVE IInv'
  OBVIOUS
<1>1. CASE UNCHANGED vars
  <2>1. owner' = owner /\ workers' = workers /\ rpcs' = rpcs /\ record' = record
    BY <1>1 DEF vars
  <2> QED BY <2>1 DEF IInv, Runs, TypeOK, Succession, Settled, Turns, Recorded, Entered,
                      OrderKept, GenerationsDoNotOverlap, Live, Numbers, Once, Written
<1>2. CASE Next
  <2>1. PICK g \in Gens : \/ Open(g) \/ (Steps(g) /\ record' = record)
                          \/ \E n \in Numbers(g) : Write(g, n)
    BY <1>2, NextSteps DEF IInv
  <2>2. CASE Steps(g) /\ record' = record
    BY <2>2, MovesIInv DEF Steps
  <2> QED BY <2>1, <2>2, OpenIInv, WriteIInv
<1> QED BY <1>1, <1>2

LEMMA Invariance == Spec => []IInv
BY InitIInv, NextIInv, PTL DEF Spec

\* supervisor.ts, entrypoint.ts: the generations, workers, RPCs and the record have their types,
\* and a worker that the executor has a result of is over, dead or past the cleanup deadline.
THEOREM TypeCorrect == Spec => []TypeOK
<1>1. IInv => TypeOK
  BY DEF IInv, Runs
<1> QED BY <1>1, Invariance, PTL

\* dispatchRPC(): however the handlers of a worker interleave, its ordered RPCs write in the
\* order in which it sent them.
THEOREM RpcOrder == Spec => []OrderKept
<1>1. IInv => OrderKept
  BY DEF IInv
<1> QED BY <1>1, Invariance, PTL

\* finish(): a worker whose cleanup was joined neither runs nor writes once a replacement
\* owns the session.
THEOREM Handover == Spec => []GenerationsDoNotOverlap
<1>1. IInv => GenerationsDoNotOverlap
  BY DEF IInv
<1> QED BY <1>1, Invariance, PTL

\* answer(), settle(): what a worker was told is in the record, once, although its handlers are
\* aborted, fenced and outlive it.
THEOREM AnswersAreWritten == Spec => []AnsweredIsWritten
<1>1. IInv => AnsweredIsWritten
  <2> SUFFICES ASSUME IInv, NEW g \in Gens, NEW n \in Numbers(g)
               PROVE  LET writes == {i \in 1..Len(record) : record[i][1] = g /\ record[i][2] = n}
                      IN /\ rpcs[g][n].answered => writes # {}
                         /\ \A i, j \in writes : i = j
    BY DEF AnsweredIsWritten
  <2>1. rpcs[g][n].answered => \E i \in 1..Len(record) : record[i][1] = g /\ record[i][2] = n
    BY DEF IInv, Written
  <2>2. \A i, j \in 1..Len(record) :
          record[i][1] = record[j][1] /\ record[i][2] = record[j][2] => i = j
    BY DEF IInv, Once
  <2> QED BY <2>1, <2>2
<1> QED BY <1>1, Invariance, PTL

====================================================================================
