---------------------------- MODULE SessionDrains ----------------------------
(***************************************************************************)
(* What the run coordinator promises its callers, per session key and      *)
(* without entries, fibers or deferreds (run-coordinator.ts, the           *)
(* Coordinator interface): a key has at most one drain, work recorded      *)
(* while a drain is under way is followed by another drain, and only a     *)
(* stop takes that follow-up away.                                         *)
(***************************************************************************)
CONSTANT Keys  \* session ids

VARIABLES
  phase,     \* phase[k]: "idle", "queued" (a drain will begin) or "draining"
  followUp,  \* followUp[k]: a drain is owed after the present one
  stopping   \* stopping[k]: the present drain has been told to stop

vars == <<phase, followUp, stopping>>

Phases == {"idle", "queued", "draining"}

TypeOK ==
  /\ phase \in [Keys -> Phases]
  /\ followUp \in [Keys -> BOOLEAN]
  /\ stopping \in [Keys -> BOOLEAN]

Init ==
  /\ phase = [k \in Keys |-> "idle"]
  /\ followUp = [k \in Keys |-> FALSE]
  /\ stopping = [k \in Keys |-> FALSE]

\* Work for an idle key queues a drain.
Request(k) ==
  /\ phase[k] = "idle"
  /\ phase' = [phase EXCEPT ![k] = "queued"]
  /\ UNCHANGED <<followUp, stopping>>

\* Work for a busy key is remembered, once.
Remember(k) ==
  /\ phase[k] # "idle"
  /\ followUp' = [followUp EXCEPT ![k] = TRUE]
  /\ UNCHANGED <<phase, stopping>>

\* A stop forgets the work remembered so far.
Stop(k) ==
  /\ phase[k] # "idle"
  /\ followUp' = [followUp EXCEPT ![k] = FALSE]
  /\ stopping' = [stopping EXCEPT ![k] = TRUE]
  /\ UNCHANGED phase

\* Only a drain nobody has stopped begins.
Begin(k) ==
  /\ phase[k] = "queued"
  /\ ~stopping[k]
  /\ phase' = [phase EXCEPT ![k] = "draining"]
  /\ UNCHANGED <<followUp, stopping>>

\* A drain ends, or a stopped one is cancelled before it began. What was
\* remembered is queued next, and the stop does not outlive the drain.
Finish(k) ==
  /\ phase[k] = "draining" \/ (phase[k] = "queued" /\ stopping[k])
  /\ phase' = [phase EXCEPT ![k] = IF followUp[k] THEN "queued" ELSE "idle"]
  /\ followUp' = [followUp EXCEPT ![k] = FALSE]
  /\ stopping' = [stopping EXCEPT ![k] = FALSE]

Next ==
  \E k \in Keys :
    Request(k) \/ Remember(k) \/ Stop(k) \/ Begin(k) \/ Finish(k)

Fairness == \A k \in Keys : WF_vars(Begin(k)) /\ WF_vars(Finish(k))

Spec == Init /\ [][Next]_vars

FairSpec == Spec /\ Fairness
==============================================================================
