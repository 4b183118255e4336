------------------------------ MODULE SessionInput ------------------------------
(***************************************************************************)
(* packages/core/src/session/input.ts: how a prompt gets from its client   *)
(* into the transcript. Clients admit it and may withdraw it, the runner   *)
(* promotes it, a session of a human takes it at once, and the harness     *)
(* injects nudges between turns. Every event commits with its projection   *)
(* in one transaction; everything between two commits may interleave.      *)
(*                                                                         *)
(* One session. Prompts have delivery "queue", nudges are automated steers *)
(* (a client may also ask for "steer"; only the delivery would differ).    *)
(***************************************************************************)
EXTENDS Naturals, Sequences, SequencesExt

CONSTANTS
  Clients,      \* callers of the session API
  Prompts,      \* ids that clients give their prompts
  Nudges,       \* ids of harness interjections, one use each
  MaxCalls,     \* bound on calls of the session API
  MaxSwitches,  \* bound on changes of the session's mode
  MaxMishaps    \* bound on lost workers and crashes

ASSUME InputAssumption ==
  /\ Prompts # {} /\ Prompts \cap Nudges = {}
  /\ MaxCalls \in Nat /\ MaxSwitches \in Nat /\ MaxMishaps \in Nat

VARIABLES
  pending,     \* session_input rows without promoted_seq, by admitted_seq
  transcript,  \* ids in the order of their promotion
  mode,        \* resolveSessionMode()
  clients,     \* what each client is doing
  runner,      \* the drain of the session, and its worker
  hist         \* what happened

vars == <<pending, transcript, mode, clients, runner, hist>>

Ids == Prompts \cup Nudges
Modes == {"agent", "chat", "human"}

\* admit: found no row. kept: holds the admitted row. wake: about to wake the drain.
\* cancel: found a row it may withdraw.
ClientRec == [at : {"idle", "admit", "kept", "wake", "cancel"}, id : Ids]

\* queued: woken, not begun. enter, head: about to settle the passive inputs, at the start of the
\* drain and of each turn. steers: about to select them. publish: publishes todo, then goes on.
\* dismiss: withdraws todo, then goes on.
RunnerPhases == {"down", "asleep", "queued", "enter", "choose", "head", "prepare", "steers",
                 "publish", "dismiss", "turn"}
RunnerRec ==
  [at : RunnerPhases, then : {"asleep", "choose", "prepare", "steers", "turn"},
   todo : Seq(Ids), cutoff : SUBSET Ids, promotion : {"none", "queue", "steer"},
   force : BOOLEAN, owed : BOOLEAN, halted : BOOLEAN]

\* accepted: prompts whose admission was answered. withdrawn: those whose withdrawal was.
\* again: those that were withdrawn once and admitted again.
Histories == [calls : 0..MaxCalls, switches : 0..MaxSwitches, mishaps : 0..MaxMishaps,
              accepted : SUBSET Prompts, withdrawn : SUBSET Prompts, again : SUBSET Prompts,
              human : BOOLEAN]

\* The table has one row per id.
TypeOK ==
  /\ pending \in Seq(Ids) /\ IsInjective(pending)
  /\ transcript \in Seq(Ids) /\ ToSet(pending) \cap ToSet(transcript) = {}
  /\ mode \in Modes
  /\ clients \in [Clients -> ClientRec]
  /\ runner \in RunnerRec
  /\ hist \in Histories

Idle == [at |-> "idle", id |-> CHOOSE p \in Prompts : TRUE]
Asleep == [at |-> "asleep", then |-> "asleep", todo |-> <<>>, cutoff |-> {},
           promotion |-> "none", force |-> FALSE, owed |-> FALSE, halted |-> FALSE]

Init ==
  /\ pending = <<>> /\ transcript = <<>>
  /\ mode \in {"agent", "chat"}
  /\ clients = [c \in Clients |-> Idle]
  /\ runner = Asleep
  /\ hist = [calls |-> 0, switches |-> 0, mishaps |-> 0,
             accepted |-> {}, withdrawn |-> {}, again |-> {}, human |-> FALSE]

------------------------------------------------------------------------------
Automated(i) == i \in Nudges
IsPending(i) == i \in ToSet(pending)
IsPromoted(i) == i \in ToSet(transcript)
HasQueue == \E i \in ToSet(pending) : ~Automated(i)
HasSteer == \E i \in ToSet(pending) : Automated(i)

\* Fault: only a transcript message is a conflict.
AdmissibleTwice(i) == ~IsPromoted(i)

\* projectAdmitted(): conflicts with a row or a message of that id.
Admissible(i) == ~IsPending(i) /\ ~IsPromoted(i)

\* Fault: the update does not ask for promoted_seq.
ConflictsNever(i) == FALSE

\* projectPrompted(): a promoted row is a conflict.
Conflicts(i) == IsPromoted(i)

\* projectPrompted(): the row is marked, and inserted as promoted if there is none.
Promoted(i) ==
  /\ transcript' = Append(transcript, i)
  /\ pending' = RemoveFirst(pending, i)

\* projectCancelled(): only a pending row can be withdrawn.
Cancelled(i) == pending' = RemoveFirst(pending, i) /\ UNCHANGED transcript

------------------------------------------------------------------------------
\* A client: prompt() and cancelPrompt().
Goes(c, at, i) == clients' = [clients EXCEPT ![c] = [at |-> at, id |-> i]]
Done(c) == clients' = [clients EXCEPT ![c] = Idle]

\* prompt(), admit(): the first look. A client may send an id again.
Send(c, p) ==
  /\ clients[c].at = "idle" /\ runner.at # "down"
  /\ hist.calls < MaxCalls /\ hist' = [hist EXCEPT !.calls = @ + 1]
  /\ Goes(c, IF IsPending(p) \/ IsPromoted(p) THEN "kept" ELSE "admit", p)
  /\ UNCHANGED <<pending, transcript, mode, runner>>

\* admit(): the event, and after a conflict the row that was there first.
Admit(c) ==
  LET p == clients[c].id IN
  /\ clients[c].at = "admit"
  /\ IF Admissible(p)
       THEN /\ pending' = Append(pending, p)
            /\ hist' = [hist EXCEPT !.withdrawn = @ \ {p},
                                    !.again = @ \cup ({p} \cap hist.withdrawn)]
       ELSE UNCHANGED <<pending, hist>>
  /\ Goes(c, "kept", p)
  /\ UNCHANGED <<transcript, mode, runner>>

\* materializeHuman(): the session of a human takes the prompt itself; if somebody promoted
\* it before, that will do.
Materialize(c) ==
  LET p == clients[c].id IN
  /\ clients[c].at = "kept"
  /\ IF mode = "human" /\ ~Conflicts(p) THEN Promoted(p) ELSE UNCHANGED <<pending, transcript>>
  /\ Goes(c, "wake", p)
  /\ hist' = [hist EXCEPT !.accepted = @ \cup {p}]
  /\ UNCHANGED <<mode, runner>>

\* execution.wake(): a drain that has not begun, or runs, takes one note of any number of wakes.
WakeUp ==
  runner' = IF runner.at = "asleep" THEN [runner EXCEPT !.at = "queued", !.halted = FALSE]
            ELSE [runner EXCEPT !.owed = TRUE]

Wake(c) ==
  /\ clients[c].at = "wake" /\ WakeUp /\ Done(c)
  /\ UNCHANGED <<pending, transcript, mode, hist>>

\* cancel(): the first look; nothing to withdraw otherwise.
Withdraw(c, p) ==
  /\ clients[c].at = "idle" /\ runner.at # "down" /\ IsPending(p)
  /\ hist.calls < MaxCalls /\ hist' = [hist EXCEPT !.calls = @ + 1]
  /\ Goes(c, "cancel", p)
  /\ UNCHANGED <<pending, transcript, mode, runner>>

\* cancel(): the event; false if the row is gone or promoted by now.
Cancel(c) ==
  LET p == clients[c].id IN
  /\ clients[c].at = "cancel" /\ Done(c)
  /\ IF IsPending(p)
       THEN Cancelled(p) /\ hist' = [hist EXCEPT !.withdrawn = @ \cup {p}]
       ELSE UNCHANGED <<pending, transcript, hist>>
  /\ UNCHANGED <<mode, runner>>

------------------------------------------------------------------------------
\* The runner. A drain begins: the wakes before it are this one.
Begin ==
  /\ runner.at = "queued"
  /\ runner' = [runner EXCEPT !.at = "enter", !.owed = FALSE]
  /\ UNCHANGED <<pending, transcript, mode, clients, hist>>

\* It ends, and starts again if a wake came meanwhile.
Ended(r, halted) ==
  IF r.owed THEN [Asleep EXCEPT !.at = "queued"] ELSE [Asleep EXCEPT !.halted = halted]

Publishing(r, rows, then) == [r EXCEPT !.at = "publish", !.todo = rows, !.then = then]
Dismissing(r, rows, then) == [r EXCEPT !.at = "dismiss", !.todo = rows, !.then = then]

\* A query of the table: the rows of s that are in X, in their order.
Only(s, X) ==
  LET rows[n \in 0..Len(s)] ==
        IF n = 0 THEN <<>>
        ELSE IF s[n] \in X THEN Append(rows[n - 1], s[n]) ELSE rows[n - 1]
  IN rows[Len(s)]

\* settlePassiveInputs(): the rows it settles, for a human all of them, in a chat the automated
\* ones.
Passive(m) == IF m = "human" THEN pending ELSE Only(pending, Nudges)

Settle ==
  /\ runner.at \in {"enter", "head"}
  /\ LET next == IF runner.at = "enter" THEN "choose" ELSE "prepare"
     IN runner' = CASE mode = "agent" -> [runner EXCEPT !.at = next]
                    [] mode = "human" -> Publishing(runner, Passive(mode), "asleep")
                    [] mode = "chat" -> Dismissing(runner, Passive(mode), next)
  /\ UNCHANGED <<pending, transcript, mode, clients, hist>>

\* runBody(): what the first turn promotes. Nothing to do ends the drain, unless it was forced.
Choose ==
  /\ runner.at = "choose"
  /\ runner' = IF HasSteer \/ HasQueue \/ runner.force
                 THEN [runner EXCEPT !.at = "head", !.force = FALSE,
                         !.promotion = IF HasSteer THEN "steer" ELSE IF HasQueue THEN "queue" ELSE "none"]
               ELSE Ended(runner, FALSE)
  /\ UNCHANGED <<pending, transcript, mode, clients, hist>>

\* Fault: the newest prompt first.
LastQueued(s) == IF s = <<>> THEN <<>> ELSE <<s[Len(s)]>>

\* promoteNextQueued(): the oldest prompt.
NextQueued(s) == IF s = <<>> THEN <<>> ELSE <<s[1]>>

\* prepareTurn(): the cutoff, and the prompt that the turn answers.
Prepare ==
  /\ runner.at = "prepare"
  /\ LET r == [runner EXCEPT !.cutoff = {i \in ToSet(pending) : Automated(i)}, !.promotion = "none"]
         queued == Only(pending, Prompts)
     IN runner' = CASE runner.promotion = "none" -> [r EXCEPT !.at = "turn", !.cutoff = {}]
                    [] runner.promotion = "steer" -> [r EXCEPT !.at = "steers"]
                    [] OTHER -> Publishing(r, NextQueued(queued), "steers")
  /\ UNCHANGED <<pending, transcript, mode, clients, hist>>

\* promoteSteers(): those that were admitted before the cutoff.
SelectSteers ==
  /\ runner.at = "steers"
  /\ LET steers == Only(pending, Nudges \cap runner.cutoff)
     IN runner' = Publishing([runner EXCEPT !.cutoff = {}], steers, "turn")
  /\ UNCHANGED <<pending, transcript, mode, clients, hist>>

\* A lost worker: its successor is forced to look again.
Lost(r) == [Asleep EXCEPT !.at = "queued", !.force = TRUE, !.owed = r.owed]

\* Fault: publish() does not look at the provenance.
UnwelcomeAny(i) == mode # "agent"

\* publish(): an automated row has no place outside of an agent's session.
Unwelcome(i) == Automated(i) /\ mode # "agent"

\* publish(): one row after the other, as they were selected. A conflict is fatal to the worker: over its RPC it is no
\* LifecycleConflict any more.
Publish ==
  /\ runner.at = "publish" /\ runner.todo # <<>>
  /\ LET i == Head(runner.todo)
     IN \/ /\ Unwelcome(i) /\ Cancelled(i)
           /\ runner' = [runner EXCEPT !.todo = Tail(@)]
        \/ /\ ~Unwelcome(i) /\ ~Conflicts(i) /\ Promoted(i)
           /\ runner' = [runner EXCEPT !.todo = Tail(@)]
        \/ /\ ~Unwelcome(i) /\ Conflicts(i)
           /\ runner' = Lost(runner) /\ UNCHANGED <<pending, transcript>>
  /\ UNCHANGED <<mode, clients, hist>>

\* The rows a chat settles are withdrawn one after the other, whatever its mode is by then.
Dismiss ==
  /\ runner.at = "dismiss" /\ runner.todo # <<>>
  /\ LET i == Head(runner.todo) IN Automated(i) /\ Cancelled(i)
  /\ runner' = [runner EXCEPT !.todo = Tail(@)]
  /\ UNCHANGED <<mode, clients, hist>>

Published ==
  /\ runner.at \in {"publish", "dismiss"} /\ runner.todo = <<>>
  /\ runner' = IF runner.then = "asleep" THEN Ended(runner, FALSE)
               ELSE [runner EXCEPT !.at = runner.then, !.then = "asleep"]
  /\ UNCHANGED <<pending, transcript, mode, clients, hist>>

\* Steering.inject(): the harness nudges an agent during its turn.
Nudge(n) ==
  /\ runner.at = "turn" /\ mode = "agent" /\ Admissible(n)
  /\ pending' = Append(pending, n)
  /\ UNCHANGED <<transcript, mode, clients, runner, hist>>

\* The boundary after a turn: a queued prompt goes first, then the model's own
\* continuation, then the nudges.
Boundary(continues) ==
  /\ runner.at = "turn"
  /\ runner' = CASE HasQueue -> [runner EXCEPT !.at = "head", !.promotion = "queue"]
                 [] ~HasQueue /\ (continues \/ HasSteer) -> [runner EXCEPT !.at = "head", !.promotion = "steer"]
                 [] OTHER -> Ended(runner, FALSE)
  /\ UNCHANGED <<pending, transcript, mode, clients, hist>>

\* exit(result), a halted provider, a truncation or a policy ends the drain without a look at the
\* queue.
Halt ==
  /\ runner.at = "turn" /\ runner' = Ended(runner, TRUE)
  /\ UNCHANGED <<pending, transcript, mode, clients, hist>>

------------------------------------------------------------------------------
\* The agent of the session, or its settings, change.
Switch(m) ==
  /\ m # mode /\ mode' = m
  /\ hist.switches < MaxSwitches
  /\ hist' = [hist EXCEPT !.switches = @ + 1, !.human = @ \/ m = "human"]
  /\ UNCHANGED <<pending, transcript, clients, runner>>

Working == runner.at \notin {"down", "asleep", "queued"}

Lose ==
  /\ Working /\ hist.mishaps < MaxMishaps
  /\ hist' = [hist EXCEPT !.mishaps = @ + 1]
  /\ runner' = Lost(runner)
  /\ UNCHANGED <<pending, transcript, mode, clients>>

Crash ==
  /\ runner.at # "down" /\ hist.mishaps < MaxMishaps
  /\ hist' = [hist EXCEPT !.mishaps = @ + 1]
  /\ runner' = [Asleep EXCEPT !.at = "down"]
  /\ clients' = [c \in Clients |-> Idle]
  /\ UNCHANGED <<pending, transcript, mode>>

\* Fault: only recovered attempts are woken.
BootRecoversAttempts == \E force \in BOOLEAN : runner' = IF force THEN Lost(Asleep) ELSE Asleep

\* sessionsWithPendingQueue(): the boot wakes a session with a queued prompt; which attempts it
\* recovers besides is left open.
BootWakes ==
  \/ runner' = Lost(Asleep)
  \/ HasQueue /\ runner' = [Asleep EXCEPT !.at = "queued"]
  \/ ~HasQueue /\ runner' = Asleep

Boot ==
  /\ runner.at = "down" /\ BootWakes
  /\ UNCHANGED <<pending, transcript, mode, clients, hist>>

Client(c) == Admit(c) \/ Materialize(c) \/ Wake(c) \/ Cancel(c)

Step ==
  \/ Begin \/ Settle \/ Choose \/ Prepare \/ SelectSteers \/ Publish \/ Dismiss \/ Published
  \/ Boundary(FALSE) \/ Boundary(TRUE) \/ Halt \/ Boot

Next ==
  \/ \E c \in Clients :
       \/ Client(c)
       \/ \E p \in Prompts : Send(c, p) \/ Withdraw(c, p)
  \/ Step
  \/ \E n \in Nudges : Nudge(n)
  \/ \E m \in Modes : Switch(m)
  \/ Lose \/ Crash

Spec == Init /\ [][Next]_vars

\* The host goes on with its calls and the drain, turns end (they are watched), and a crashed
\* host boots.
FairSpec == Spec /\ WF_vars(Step) /\ \A c \in Clients : WF_vars(Client(c))

------------------------------------------------------------------------------
\* However often a prompt is sent and whoever promotes it, it enters the transcript once.
EntersOnce == \A i, j \in 1..Len(transcript) : transcript[i] = transcript[j] => i = j

\* An accepted prompt waits or is in the transcript until its client withdraws it: no mode,
\* mishap or settlement loses it.
AcceptedIsKept == \A p \in hist.accepted \ hist.withdrawn : IsPending(p) \/ IsPromoted(p)

\* While the session was never a human's, prompts enter the transcript in the order of
\* their admission: none is promoted past an older one. A prompt that was withdrawn and
\* admitted again is excused: a runner that selected it before promotes it at its old place.
PromptsInOrder ==
  [][\A p, q \in Prompts :
       /\ \E i, j \in 1..Len(pending) : i < j /\ pending[i] = p /\ pending[j] = q
       /\ IsPromoted(q)' /\ ~IsPromoted(q)
       => ~IsPending(p)' \/ hist.human \/ q \in hist.again]_vars

\* A prompt that is pending is promoted or withdrawn in the end, through crashes of host and
\* worker, unless a drain halted over it.
AcceptedIsServed ==
  \A p \in Prompts : IsPending(p) ~> ~IsPending(p) \/ (runner.at = "asleep" /\ runner.halted)

\* input.ts, projectCancelled(): "Whichever event gets the sequence first wins". A prompt whose
\* withdrawal was confirmed does not enter the transcript.
WithdrawnStaysOut == \A p \in hist.withdrawn : ~IsPromoted(p)

==============================================================================
