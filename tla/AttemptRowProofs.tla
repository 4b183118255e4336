--------------------------- MODULE AttemptRowProofs ---------------------------
(***************************************************************************)
(* What every UPDATE of AttemptRow keeps true of the row, for any set of   *)
(* calls and all bounds, whoever sends it.                                 *)
(***************************************************************************)
EXTENDS AttemptRow, TLAPS

USE RowAssumption

\* What every UPDATE keeps true of the row.
RowInv(r) ==
  /\ r \in RowRec
  /\ r.checkpoint \in {0, r.gen}
  /\ r.tool # NoTool => r.tool.by = r.gen
  /\ r.served \subseteq {r.gen}
  /\ r.state = "settled" => r.latch = 0

\* A table without the row satisfies the row invariant.
LEMMA NoRowInv == RowInv(NoRow)
BY DEF RowInv, NoRow, RowRec, NoTool, Tools, Gens, Progressing, Halted

\* The constants that the UPDATEs write are values of their columns.
LEMMA Values ==
  /\ "starting" \in Progressing \cup Halted \cup {"absent"}
  /\ "busy" \in Progressing \cup Halted \cup {"absent"}
  /\ "recovering" \in Progressing \cup Halted \cup {"absent"}
  /\ "paused" \in Progressing \cup Halted \cup {"absent"}
  /\ "interrupted" \in Progressing \cup Halted \cup {"absent"}
  /\ "settled" \in Progressing \cup Halted \cup {"absent"}
  /\ 0 \in 0..MaxGen /\ 0 \in 0..MaxCount /\ 0 \in 0..MaxTurns
  /\ NoTool \in Tools
  /\ {} \in SUBSET Gens
  /\ \A g \in Gens : g \in 0..MaxGen
BY DEF Progressing, Halted, Tools, Gens

\* start() carries no fact of the old attempt over.
LEMMA StartedInv ==
  ASSUME NEW r, RowInv(r), r.gen < MaxGen
  PROVE  RowInv(Started(r)) /\ Started(r).gen = r.gen + 1
<1>1. r \in RowRec
  BY DEF RowInv
<1>2. r.gen + 1 \in 0..MaxGen
  BY <1>1 DEF RowRec
<1>3. Started(r) \in RowRec
  BY <1>1, <1>2, Values DEF RowRec, Started
<1>4. /\ Started(r).gen = r.gen + 1 /\ Started(r).tool = NoTool /\ Started(r).checkpoint = 0
      /\ Started(r).served = {} /\ Started(r).state = "busy"
  BY <1>1 DEF RowRec, Started
<1> QED BY <1>3, <1>4 DEF RowInv

\* What an UPDATE leaves alone of the facts that RowInv is about.
SameFacts(r, s) ==
  /\ s.gen = r.gen
  /\ s.checkpoint = r.checkpoint
  /\ s.tool = r.tool
  /\ s.served = r.served

\* heartbeat() and the passing of time change the heartbeat only.
LEMMA HeartbeatInv ==
  ASSUME NEW r, RowInv(r), NEW g \in Gens, NEW b \in BOOLEAN
  PROVE  /\ RowInv(Heartbeat(r, g))
         /\ Heartbeat(r, g).gen = r.gen /\ Heartbeat(r, g).latch = r.latch
         /\ RowInv([r EXCEPT !.beat = b])
         /\ [r EXCEPT !.beat = b].gen = r.gen /\ [r EXCEPT !.beat = b].latch = r.latch
<1>1. r \in RowRec
  BY DEF RowInv
<1>2. ASSUME NEW v \in BOOLEAN PROVE RowInv([r EXCEPT !.beat = v])
  <2> DEFINE s == [r EXCEPT !.beat = v]
  <2>1. s \in RowRec
    BY <1>1 DEF RowRec
  <2>2. SameFacts(r, s) /\ s.state = r.state /\ s.latch = r.latch
    BY <1>1 DEF RowRec, SameFacts
  <2> QED BY <2>1, <2>2 DEF RowInv, SameFacts
<1>3. \A v \in BOOLEAN : [r EXCEPT !.beat = v].gen = r.gen /\ [r EXCEPT !.beat = v].latch = r.latch
  BY <1>1 DEF RowRec
<1> QED BY <1>2, <1>3 DEF Heartbeat

\* advance() stamps the checkpoint for its own generation.
LEMMA AdvanceInv ==
  ASSUME NEW r, RowInv(r), NEW g \in Gens, NEW phase \in {"drain", "provider", "tool"},
         NEW mark \in {"mark", "clear"}
  PROVE  /\ RowInv(Advance(r, g, phase, mark))
         /\ Advance(r, g, phase, mark).gen = r.gen
         /\ Advance(r, g, phase, mark).latch = r.latch
<1> DEFINE s == Advance(r, g, phase, mark)
           v == IF mark = "mark" THEN g ELSE 0
<1>1. r \in RowRec
  BY DEF RowInv
<1>2. CASE r.gen # g
  BY <1>2 DEF Advance
<1>3. CASE r.gen = g
  <2>1. s = [r EXCEPT !.state = "busy", !.phase = phase, !.beat = TRUE, !.checkpoint = v]
    BY <1>3 DEF Advance
  <2>2. v \in 0..MaxGen /\ v \in {0, g}
    BY Values
  <2> HIDE DEF s, v
  <2>3. s \in RowRec
    BY <1>1, <2>1, <2>2, Values DEF RowRec
  <2>4. /\ s.gen = r.gen /\ s.checkpoint = v /\ s.tool = r.tool /\ s.served = r.served
        /\ s.state = "busy" /\ s.latch = r.latch
    BY <1>1, <2>1 DEF RowRec
  <2>5. RowInv(s)
    BY <1>3, <2>2, <2>3, <2>4 DEF RowInv
  <2> QED BY <2>4, <2>5 DEF s
<1> QED BY <1>2, <1>3

\* toolDispatched() writes a receipt of its own generation.
LEMMA ToolDispatchedInv ==
  ASSUME NEW r, RowInv(r), NEW g \in Gens, NEW c \in Calls, NEW effect \in Effects
  PROVE  /\ RowInv(ToolDispatched(r, g, c, effect))
         /\ ToolDispatched(r, g, c, effect).gen = r.gen
         /\ ToolDispatched(r, g, c, effect).latch = r.latch
<1> DEFINE s == ToolDispatched(r, g, c, effect)
           t == [by |-> g, call |-> c, effect |-> effect, settled |-> FALSE]
<1>1. r \in RowRec
  BY DEF RowInv
<1>2. CASE r.gen # g
  BY <1>2 DEF ToolDispatched
<1>3. CASE r.gen = g
  <2>1. s = [r EXCEPT !.state = "busy", !.phase = "tool", !.checkpoint = 0, !.beat = TRUE, !.tool = t]
    BY <1>3 DEF ToolDispatched
  <2>2. t \in Tools /\ t.by = g
    BY DEF Tools
  <2> HIDE DEF s, t
  <2>3. s \in RowRec
    BY <1>1, <2>1, <2>2, Values DEF RowRec
  <2>4. /\ s.gen = r.gen /\ s.checkpoint = 0 /\ s.tool = t /\ s.served = r.served
        /\ s.state = "busy" /\ s.latch = r.latch
    BY <1>1, <2>1 DEF RowRec
  <2>5. RowInv(s)
    BY <1>3, <2>2, <2>3, <2>4 DEF RowInv
  <2> QED BY <2>4, <2>5 DEF s
<1> QED BY <1>2, <1>3

\* toolSettled() settles a receipt of its own generation.
LEMMA ToolSettledInv ==
  ASSUME NEW r, RowInv(r), NEW g \in Gens, NEW c
  PROVE  /\ RowInv(ToolSettled(r, g, c))
         /\ ToolSettled(r, g, c).gen = r.gen
         /\ ToolSettled(r, g, c).latch = r.latch
<1> DEFINE s == ToolSettled(r, g, c)
           t == [r.tool EXCEPT !.settled = TRUE]
<1>1. r \in RowRec
  BY DEF RowInv
<1>2. CASE r.gen # g \/ r.tool = NoTool \/ r.tool.call # c
  BY <1>2 DEF ToolSettled
<1>3. CASE ~(r.gen # g \/ r.tool = NoTool \/ r.tool.call # c)
  <2>1. s = [r EXCEPT !.tool = t, !.checkpoint = g, !.count = 0, !.beat = TRUE]
    BY <1>1, <1>3 DEF ToolSettled, RowRec
  <2>2. r.tool \in Tools \ {NoTool} /\ r.tool.by = g
    BY <1>1, <1>3 DEF RowInv, RowRec
  <2>3. t \in Tools /\ t.by = g
    BY <2>2 DEF Tools
  <2> HIDE DEF s, t
  <2>4. s \in RowRec
    BY <1>1, <2>1, <2>3, Values DEF RowRec
  <2>5. /\ s.gen = r.gen /\ s.checkpoint = g /\ s.tool = t /\ s.served = r.served
        /\ s.state = r.state /\ s.latch = r.latch
    BY <1>1, <2>1 DEF RowRec
  <2>6. RowInv(s)
    BY <1>3, <2>3, <2>4, <2>5 DEF RowInv
  <2> QED BY <2>5, <2>6 DEF s
<1> QED BY <1>2, <1>3

\* providerStarted() sets the latch of its turn.
LEMMA ProviderStartedInv ==
  ASSUME NEW r, RowInv(r), NEW g \in Gens, NEW turn \in 0..MaxTurns
  PROVE  /\ RowInv(ProviderStarted(r, g, turn))
         /\ ProviderStarted(r, g, turn).gen = r.gen
         /\ ProviderStarted(r, g, turn).latch = IF r.gen = g THEN turn ELSE r.latch
<1> DEFINE s == ProviderStarted(r, g, turn)
<1>1. r \in RowRec
  BY DEF RowInv
<1>2. CASE r.gen # g
  BY <1>2 DEF ProviderStarted
<1>3. CASE r.gen = g
  <2>1. s = [r EXCEPT !.state = "busy", !.phase = "provider", !.checkpoint = 0, !.tool = NoTool,
                      !.latch = turn, !.protocol = FALSE, !.beat = TRUE]
    BY <1>3 DEF ProviderStarted
  <2> HIDE DEF s
  <2>2. s \in RowRec
    BY <1>1, <2>1, Values DEF RowRec
  <2>3. /\ s.gen = r.gen /\ s.checkpoint = 0 /\ s.tool = NoTool /\ s.served = r.served
        /\ s.state = "busy" /\ s.latch = turn
    BY <1>1, <2>1 DEF RowRec
  <2>4. RowInv(s)
    BY <2>2, <2>3 DEF RowInv
  <2> QED BY <1>3, <2>3, <2>4 DEF s
<1> QED BY <1>2, <1>3

\* providerToolProtocol(), providerSettled() and servedBy() touch no other fact.
LEMMA ProviderInv ==
  ASSUME NEW r, RowInv(r), NEW g \in Gens, NEW protocol \in BOOLEAN
  PROVE  /\ RowInv(ProviderToolProtocol(r, g))
         /\ ProviderToolProtocol(r, g).gen = r.gen
         /\ ProviderToolProtocol(r, g).latch = r.latch
         /\ RowInv(ProviderSettled(r, g, protocol))
         /\ ProviderSettled(r, g, protocol).gen = r.gen
         /\ ProviderSettled(r, g, protocol).latch = IF r.gen = g THEN 0 ELSE r.latch
         /\ RowInv(ServedBy(r, g))
         /\ ServedBy(r, g).gen = r.gen
         /\ ServedBy(r, g).latch = r.latch
<1>1. r \in RowRec
  BY DEF RowInv
<1>2. /\ RowInv(ProviderToolProtocol(r, g))
      /\ ProviderToolProtocol(r, g).gen = r.gen /\ ProviderToolProtocol(r, g).latch = r.latch
  <2> DEFINE s == [r EXCEPT !.protocol = TRUE]
  <2>1. s \in RowRec
    BY <1>1 DEF RowRec
  <2>2. SameFacts(r, s) /\ s.state = r.state /\ s.latch = r.latch
    BY <1>1 DEF RowRec, SameFacts
  <2>3. RowInv(s)
    BY <2>1, <2>2 DEF RowInv, SameFacts
  <2> QED BY <2>2, <2>3 DEF ProviderToolProtocol, SameFacts
<1>3. /\ RowInv(ProviderSettled(r, g, protocol))
      /\ ProviderSettled(r, g, protocol).gen = r.gen
      /\ ProviderSettled(r, g, protocol).latch = IF r.gen = g THEN 0 ELSE r.latch
  <2> DEFINE n == IF protocol THEN r.count ELSE 0
             s == [r EXCEPT !.latch = 0, !.protocol = FALSE, !.count = n]
  <2>1. n \in 0..MaxCount
    BY <1>1, Values DEF RowRec
  <2> HIDE DEF n
  <2>2. s \in RowRec
    BY <1>1, <2>1, Values DEF RowRec
  <2>3. SameFacts(r, s) /\ s.state = r.state /\ s.latch = 0
    BY <1>1 DEF RowRec, SameFacts
  <2>4. RowInv(s)
    BY <2>2, <2>3 DEF RowInv, SameFacts
  <2>5. ProviderSettled(r, g, protocol) = IF r.gen # g THEN r ELSE s
    BY <1>1 DEF ProviderSettled, n, RowRec
  <2> HIDE DEF s
  <2> QED BY <2>3, <2>4, <2>5 DEF SameFacts
<1>4. /\ RowInv(ServedBy(r, g)) /\ ServedBy(r, g).gen = r.gen /\ ServedBy(r, g).latch = r.latch
  <2> DEFINE v == r.served \cup {g}
             s == [r EXCEPT !.served = v]
  <2>1. v \in SUBSET Gens
    BY <1>1 DEF RowRec
  <2>2. r.gen = g => v \subseteq {r.gen}
    BY DEF RowInv
  <2> HIDE DEF v
  <2>3. s \in RowRec
    BY <1>1, <2>1 DEF RowRec
  <2>4. /\ s.gen = r.gen /\ s.checkpoint = r.checkpoint /\ s.tool = r.tool /\ s.served = v
        /\ s.state = r.state /\ s.latch = r.latch
    BY <1>1 DEF RowRec
  <2>5. r.gen = g => RowInv(s)
    BY <2>2, <2>3, <2>4 DEF RowInv
  <2>6. ServedBy(r, g) = IF r.gen = g THEN s ELSE r
    BY <1>1 DEF ServedBy, v, RowRec
  <2> HIDE DEF s
  <2> QED BY <2>4, <2>5, <2>6
<1> QED BY <1>2, <1>3, <1>4

\* What settle() answers decides what it writes.
LEMMA SettledInv ==
  ASSUME NEW r, RowInv(r), NEW g \in Gens, NEW finished \in BOOLEAN
  PROVE  /\ RowInv(Settled(r, g, finished))
         /\ Settled(r, g, finished).gen = r.gen
         /\ Settled(r, g, finished).latch = r.latch
<1>1. r \in RowRec
  BY DEF RowInv
<1>2. CASE Settlement(r, g, finished) = "committed"
  <2> DEFINE s == [r EXCEPT !.state = "settled", !.checkpoint = g, !.class = "none",
                            !.count = 0, !.beat = TRUE]
  <2>1. Settled(r, g, finished) = s
    BY <1>2 DEF Settled
  <2>2. r.gen = g /\ r.latch = 0
    BY <1>2 DEF Settlement
  <2>3. s \in RowRec
    BY <1>1, Values DEF RowRec
  <2>4. /\ s.gen = r.gen /\ s.checkpoint = g /\ s.tool = r.tool /\ s.served = r.served
        /\ s.latch = r.latch
    BY <1>1 DEF RowRec
  <2> HIDE DEF s
  <2>5. RowInv(s)
    BY <2>2, <2>3, <2>4 DEF RowInv
  <2> QED BY <2>1, <2>4, <2>5
<1>3. CASE Settlement(r, g, finished) = "recovery-pending"
  <2> DEFINE s == [r EXCEPT !.state = "busy", !.beat = TRUE]
  <2>1. Settled(r, g, finished) = s
    BY <1>3 DEF Settled
  <2>2. s \in RowRec
    BY <1>1, Values DEF RowRec
  <2>3. SameFacts(r, s) /\ s.state = "busy" /\ s.latch = r.latch
    BY <1>1 DEF RowRec, SameFacts
  <2> HIDE DEF s
  <2>4. RowInv(s)
    BY <2>2, <2>3 DEF RowInv, SameFacts
  <2> QED BY <2>1, <2>3, <2>4 DEF SameFacts
<1>4. CASE Settlement(r, g, finished) \notin {"committed", "recovery-pending"}
  BY <1>4 DEF Settled
<1> QED BY <1>2, <1>3, <1>4

\* requestInterrupt() stops a progressing row and cancels its latch.
LEMMA InterruptInv ==
  ASSUME NEW r, RowInv(r)
  PROVE  LET s == InterruptRequested(r) IN
         /\ RowInv(s) /\ s.gen = r.gen /\ s.state \notin Progressing
         /\ \/ s = r
            \/ r.state \in Progressing /\ s.latch = 0 /\ s.state = "interrupted"
<1>1. r \in RowRec
  BY DEF RowInv
<1>2. CASE r.state \in Progressing
  <2> DEFINE s == [r EXCEPT !.state = "interrupted", !.class = "interrupt", !.latch = 0,
                            !.protocol = FALSE, !.beat = TRUE]
  <2>1. InterruptRequested(r) = s
    BY <1>2 DEF InterruptRequested
  <2>2. s \in RowRec
    BY <1>1, Values DEF RowRec
  <2>3. SameFacts(r, s) /\ s.latch = 0 /\ s.state = "interrupted"
    BY <1>1 DEF RowRec, SameFacts
  <2> HIDE DEF s
  <2>4. RowInv(s)
    BY <2>2, <2>3 DEF RowInv, SameFacts
  <2> QED BY <1>2, <2>1, <2>3, <2>4 DEF SameFacts, Progressing
<1>3. CASE r.state \notin Progressing
  BY <1>3 DEF InterruptRequested
<1> QED BY <1>2, <1>3

\* Its mark changes the class alone.
LEMMA MarkInv ==
  ASSUME NEW r, RowInv(r)
  PROVE  LET s == InterruptMarked(r) IN
         RowInv(s) /\ s.gen = r.gen /\ s.latch = r.latch /\ s.state = r.state
<1> DEFINE s == [r EXCEPT !.class = "interrupt"]
<1>1. r \in RowRec
  BY DEF RowInv
<1>2. InterruptMarked(r) = r \/ InterruptMarked(r) = s
  BY DEF InterruptMarked
<1>3. s \in RowRec /\ SameFacts(r, s) /\ s.latch = r.latch /\ s.state = r.state
  BY <1>1 DEF RowRec, SameFacts
<1> HIDE DEF s
<1>4. RowInv(s)
  BY <1>3 DEF RowInv, SameFacts
<1> QED BY <1>2, <1>3, <1>4 DEF SameFacts

\* A recovery counts a loss and leaves the facts it was decided from.
LEMMA RecoveredInv ==
  ASSUME NEW r, RowInv(r), NEW g
  PROVE  /\ RowInv(StaleRecovered(r))
         /\ StaleRecovered(r).gen = r.gen /\ StaleRecovered(r).latch = r.latch
         /\ RowInv(FailureRecovered(r, g))
         /\ FailureRecovered(r, g).gen = r.gen /\ FailureRecovered(r, g).latch = r.latch
<1> DEFINE s == [r EXCEPT !.state = "recovering", !.class = "loss", !.count = Counted(r), !.beat = TRUE]
<1>1. r \in RowRec
  BY DEF RowInv
<1>2. Counted(r) \in 0..MaxCount
  BY <1>1 DEF RowRec, Counted
<1>3. s \in RowRec
  BY <1>1, <1>2, Values DEF RowRec
<1>4. SameFacts(r, s) /\ s.latch = r.latch /\ s.state = "recovering"
  BY <1>1 DEF RowRec, SameFacts
<1>5. StaleRecovered(r) = s /\ FailureRecovered(r, g) = IF MayRecover(r, g) THEN s ELSE r
  BY DEF StaleRecovered, FailureRecovered
<1> HIDE DEF s
<1>6. RowInv(s)
  BY <1>3, <1>4 DEF RowInv, SameFacts
<1> QED BY <1>4, <1>5, <1>6 DEF SameFacts

\* The retry button, a pause and a yield keep what the attempt knows; the retry
\* button forgets the checkpoint.
LEMMA HandlingInv ==
  ASSUME NEW r, RowInv(r), NEW g
  PROVE  /\ RowInv(RetryAuthorized(r))
         /\ RetryAuthorized(r).gen = r.gen /\ RetryAuthorized(r).latch = r.latch
         /\ RowInv(Paused(r, g))
         /\ Paused(r, g).gen = r.gen /\ Paused(r, g).latch = r.latch
         /\ RowInv(Requeued(r))
         /\ Requeued(r).gen = r.gen /\ Requeued(r).latch = r.latch
<1>1. r \in RowRec
  BY DEF RowInv
<1>2. /\ RowInv(RetryAuthorized(r))
      /\ RetryAuthorized(r).gen = r.gen /\ RetryAuthorized(r).latch = r.latch
  <2> DEFINE s == [r EXCEPT !.state = "starting", !.class = "none", !.count = 0,
                            !.checkpoint = 0, !.beat = TRUE]
  <2>1. s \in RowRec
    BY <1>1, Values DEF RowRec
  <2>2. /\ s.gen = r.gen /\ s.checkpoint = 0 /\ s.tool = r.tool /\ s.served = r.served
        /\ s.state = "starting" /\ s.latch = r.latch
    BY <1>1 DEF RowRec
  <2>3. RetryAuthorized(r) = IF r.state = "absent" THEN r ELSE s
    BY DEF RetryAuthorized
  <2> HIDE DEF s
  <2>4. RowInv(s)
    BY <2>1, <2>2 DEF RowInv
  <2> QED BY <2>2, <2>3, <2>4
<1>3. RowInv(Paused(r, g)) /\ Paused(r, g).gen = r.gen /\ Paused(r, g).latch = r.latch
  <2> DEFINE s == [r EXCEPT !.state = "paused"]
  <2>1. s \in RowRec
    BY <1>1, Values DEF RowRec
  <2>2. SameFacts(r, s) /\ s.latch = r.latch /\ s.state = "paused"
    BY <1>1 DEF RowRec, SameFacts
  <2>3. Paused(r, g) = IF r.gen = g /\ r.state \in Progressing THEN s ELSE r
    BY DEF Paused
  <2> HIDE DEF s
  <2>4. RowInv(s)
    BY <2>1, <2>2 DEF RowInv, SameFacts
  <2> QED BY <2>2, <2>3, <2>4 DEF SameFacts
<1>4. RowInv(Requeued(r)) /\ Requeued(r).gen = r.gen /\ Requeued(r).latch = r.latch
  <2> DEFINE s == [r EXCEPT !.state = "starting", !.phase = "drain"]
  <2>1. s \in RowRec
    BY <1>1, Values DEF RowRec
  <2>2. SameFacts(r, s) /\ s.latch = r.latch /\ s.state = "starting"
    BY <1>1 DEF RowRec, SameFacts
  <2>3. Requeued(r) = s
    BY DEF Requeued
  <2> HIDE DEF s
  <2>4. RowInv(s)
    BY <2>1, <2>2 DEF RowInv, SameFacts
  <2> QED BY <2>2, <2>3, <2>4 DEF SameFacts
<1> QED BY <1>2, <1>3, <1>4
==============================================================================
