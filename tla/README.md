# A verification project for NovaClaw's session core

NovaClaw is a local-first agent operating system whose processes are agent sessions.
A prompt is admitted durably, an in-memory coordinator starts a drain for the session,
the drain queues for a worker process, the worker runs provider turns and tools, and a
durable row says how far the attempt got so that a later worker, or a later host, can
go on. This project models that path: which component promises what, and whether the
promises hold when sessions are woken, stopped and reclassified, prompts are withdrawn,
devices change hands, workers are lost, and hosts crash, in any order.

All paths below are relative to `src/packages/`. `session/` stands for
`core/src/session/` and `session-worker/` for `novaclaw/src/session-worker/`.

## 1. Inventory

| Component | State | Operations | Talks to | Hard behaviour |
|---|---|---|---|---|
| Run coordinator (`session/run-coordinator.ts`) | a map from session to entry: deferred, owner fiber, `pendingWake`, `stopping` | run, wake, adopt, interrupt, settle, the wake relay | executor (calls `drain`), session API, spawner, boot recovery | wakes, stops and settlements interleave; entries are replaced under waiters |
| Execution attempt row (`session/execution-attempt.ts`, `recovery-decision.ts`) | one durable row per session: generation, state, phase, checkpoint, failure class and count, tool columns, provider latch, heartbeat | start, heartbeat, advance, tool and provider writes, settle, requestInterrupt, recoverFailure, recoverStale, authorizeRetry, pause, requeue | worker (through RPC), executor, boot recovery, operators | several writers of several generations; reads and writes in separate statements |
| Worker admission (`session-worker/admission.ts`) | leases, queue of waiters, two reserved lanes | run (acquire, release), reprioritize, shouldYield | executor, presence | classes change while sessions run and wait; interrupted waiters |
| Worker executor (`session-worker/execution.ts`) | the drain of each session, live workers | drain, outcome handling, retry, yield, interrupt | all of the above | a drain spans many awaits, each of which a stop or crash may hit |
| Boot recovery (`session/boot-recovery.ts`) | a snapshot, a 70 s window of re-sweeps | start, abandonedSessions, recoverStaleLeases, holdStopped, two adoption arms | attempt row, session input, coordinator | races with prompts, drains and stops after the boot |
| Runner (`session/runner/llm.ts`, `publish-llm-event.ts`) | the turn loop, open tool calls, streams | promotion, provider turns, tools, boundaries, exit | attempt row, session input, events, device scheduler | tool fibers outlive the stream; a turn may be abandoned anywhere |
| Presence (`session/presence.ts`) | rooms of viewers | report, claim, detach | admission listener | expiry is never published |
| Worker supervisor (`session-worker/supervisor.ts`) | a child process, watchdogs, RPCs in flight | spawn, finish, interrupt, monitors | executor, bridges | grace and cleanup deadlines race late answers |
| Device scheduler (`session/scheduler.ts`, `kernel/eevdf.ts`) | per device: in-flight sets, waiters, revocations, EEVDF ledger | admit, release, revoke, sync, maintenance | runner | revocation and release cross; caps change at run time |
| Session input (`session/input.ts`) | admitted, promoted, cancelled prompts and steers | admit, promote, cancel | API, runner, boot recovery | promotion against cancellation and steers |
| Spawning and join (`session/spawner.ts`, `join.ts`, `spawn-admission.ts`) | parent and child sessions, join epochs | spawn, wait, complete | coordinator relay, admission | nested waits, results of an earlier epoch |
| Events and projectors (`core/src/event.ts`, `session/projector.ts`) | durable sequence, listeners | publish, project, replay | everything | projection order, redelivery |
| Context epoch and compaction, schedules, nudges and steering, capability services, permissions, settings stores | see `PROJECT.json` | | | planned or left out, with the reason there |
| Messenger gateway, community sync and DHT, journal engine, computer loop, clients, SDKs, provider adapters, watchdog | | | | outside the session core |

What makes each modelled component correct, in a sentence: the coordinator never runs
two drains of a session and never loses a wake; the attempt row never takes the facts of
another attempt for its own and never forgets an open provider turn; admission never
hands out more lanes than drains that hold them, and nobody waits beside a lane he may
have; a device runs no more generations than its cap, but for those already asked to
stop, and no maintenance beside a watched turn, and what leaves a device leaves nothing
behind; a prompt enters the transcript once, in order, or stays pending; a worker's
RPCs write in the order they were sent and before the next worker starts, and a stop of
it always returns; and together they finish every accepted prompt unless the user
stopped it.

`PROJECT.json` lists the hazards of this code line by line, with the properties that
cover each one or the reason why none does yet.

## 2. Modules

| Module | Models | State and actions |
|---|---|---|
| `SessionDrains` | what the coordinator promises (abstract) | per session a phase, an owed follow-up and a stop; Request, Remember, Stop, Begin, Finish |
| `RunCoordinator` | `run-coordinator.ts` | the map, entry objects, drain fibers and `run()` callers; one action per synchronous stretch (`settle()` is inside the end of a fiber, as `onExit` runs it) |
| `RunCoordinatorProofs` | | theorems about `RunCoordinator` |
| `AttemptRow` | `execution-attempt.ts`, `recovery-decision.ts` | every UPDATE as a function from row to row; no variables |
| `AttemptRowProofs` | | what every UPDATE keeps true of the row |
| `ExecutionAttempt` | the row under its writers | runners of every generation (also those that were superseded), the host, the sweep, stop, retry and pause |
| `ExecutionAttemptProofs` | | theorems about `ExecutionAttempt` |
| `WorkerAdmission` | `admission.ts` and the presence listener of `execution.ts` | leases, queue, phases of drains, presence notices under way |
| `WorkerAdmissionProofs` | | theorems about `WorkerAdmission` |
| `SessionRuntime` | `execution.ts`, `boot-recovery.ts`, and the runner's loop at the grain of turns | one session: prompt, row, drain, worker, boot sweeps, crash; uses `AttemptRow` and the contract `SessionDrains` |
| `SessionRuntimeProofs` | | theorems about `SessionRuntime` |
| `DeviceScheduler` | `scheduler.ts`, the dispatch bracket of `runner/provider-dispatch.ts`, the reasoning phase of `runner/llm.ts`, `session-worker/device-bridge.ts` | the gate of each of two devices (cap, in flight, queue, revocations, preemptions), where the turn of each session is; admission, release, transfer, eviction, maintenance, retries, reloads of the settings |
| `DeviceSchedulerProofs` | | theorems about `DeviceScheduler` |
| `SessionInput` | `input.ts`, its callers in `session.ts`, `steering.ts` and the runner's loop at the grain of inputs | pending rows, transcript, mode, the calls of clients, the drain; one action per commit or read |
| `SessionInputProofs` | | theorems about `SessionInput` |
| `WorkerSupervisor` | `session-worker/supervisor.ts`, the main loop of its child | workers of successive generations, the life of each host RPC, the record the RPCs write |
| `WorkerSupervisorProofs` | | theorems about `WorkerSupervisor` |

`SessionRuntime` composes the first four components: its row steps are the functions of
`AttemptRow`, and its drain is proved (`UsesDrains`) to stay within `SessionDrains`,
which `RunCoordinator` is proved to implement. So the composition does not repeat the
coordinator's entries and fibers.

Abstractions worth knowing:

- **The fence.** `start()` draws a fresh attempt id with each generation, so the fence
  (attempt id, generation) is the generation. `requeue()` also asks for the owner and
  `owner_id` changes only with the generation, so that is the same fence.
- **Timestamps** are kept as what readers ask of them: `heartbeat_at` as recent or not,
  `checkpoint_at` as the generation that stamped it. Tool columns and `served_by` carry
  the generation that wrote them, so that a property can ask whose they are.
- **`providerSettled()`** reads and writes in two statements; `ExecutionAttempt` keeps
  the state between them (`closing`). `SessionRuntime` has one writer at a time and
  merges them.
- **`requestInterrupt()`** is two statements outside of a transaction: the first stops a
  row that progresses, and only if it found none the second leaves the mark. Both modules
  keep them apart (`marking`, `call.stop`), with one request of a session at a time.
- **`run()` after a stop** goes on with `Effect.andThen`, which a deferred that ended in
  an interrupt skips. `Deliver` models exactly that.
- **Admission.** The grant of a lane and the resumption of the drain that got it are one
  step; an interrupt in that gap is listed as not modelled (section 6). Nova's class is
  fixed by its agent; other sessions are interactive or batch by presence. Notices
  arrive in the order of their publication. `Watched` and `Followed` bound whose
  presence changes and whose liveness is asked; the other sessions are equal to them.
- **Runtime.** The drain opens the next attempt only after the worker it supervised is
  gone, so one generation stands for all of them (`Opened`); writers that outlive their
  lease are the subject of `ExecutionAttempt`. A stop lets the worker be heard until the
  drain has unwound, which may settle a turn that a late write opened. Time is two facts: `row.beat` (recent heartbeat) and `boot.due`
  (the row was left by a dead owner, so the window of 70 s, twice `STALE_AFTER_MS`, sees
  it grow old before it closes).

- **Devices.** Which waiter runs next (the EEVDF ledger and the warm cohort) is left
  open, so the properties hold for every choice. A turn waits, generates, lends its
  device and asks for it back as the code's own phases, again in each attempt that dispatch
  makes before output (the limit of attempts is left out). A reload of the settings visits
  every device, also those it does not change. The worker is abrupt: a stop
  does not take an admission back from the host, the eviction at the exit does. Racing
  generations of one turn share a slot id and are left out.
- **Input.** Each event commits with its projection; a read and the commit that follows
  are separate steps. A chat cancels its automated rows without a second look at the mode, a
  promotion looks again. A nudge stands for every automated row. The boot wakes a session
  with a queued prompt, and may or may not recover its attempt besides.
- **Supervisor.** A worker's line is heard when it is sent, but its exit may be noticed
  before its last line. An ordered RPC asks for the ownership of the row and writes in
  two steps; the others write without asking.

## 3. Runs

| Run | Bounds | Distinct states | Shows |
|---|---|---|---|
| `coordinator` | 1 key, 2 callers, 2 entries, 2 fibers | 8 k | `TypeOK`, `Serialized`, `WakeNotLost`, `StopHolds`, `WaitersHaveADrain`; `RunReturns`, `ImplementsDrains` |
| `attempt` | 2 generations, 2 provider turns, 1 call id, 1 tool in flight, counts to 2, 1 operator act | 1.9 M | `TypeOK`, `FactsAreOwn`, `SettledHasNoLatch`; `LatchHonoured` |
| `admission` | 5 sessions (2 of Nova), 4 lanes, 2 presence changes | 67 k | `TypeOK`, `LanesMatchDrains`, `NobodyWaitsInVain`, `NovaHasALane`, `YieldHandsOver`; `ForegroundServed`; no deadlock |
| `runtime` | 2 prompts or stops, 2 crashes, losses, yields or further turns | 0.3 M | `TypeOK`, `InCharge`; `PromptServed`, `WorkResumes`, `LatchConsumed`, `UsesDrains` |
| `devices` | 3 sessions, 2 devices with caps 1 or 2, 1 reload of the settings | 64 k | `TypeOK`, `ExcessIsRevoked`, `NobodyWaitsInVain`, `MaintenanceYields`, `SlotsHaveTurns`, `WatchesEnd`; `DevicesServe`; no deadlock |
| `input` | 2 clients, 2 prompts, 1 nudge, 3 calls, 1 change of mode, 1 crash or loss | 0.7 M | `TypeOK`, `EntersOnce`, `AcceptedIsKept`; `PromptsInOrder`, `AcceptedIsServed` |
| `supervisor` | 2 workers, 2 RPCs of the first and 1 of the second | 1.1 M | `TypeOK`, `OrderKept`, `GenerationsDoNotOverlap`, `AnsweredIsWritten`; `StopReturns` |
| `uncertain_tool` | no operator act | | violates `UncertainToolInspected` |
| `admission_leak` | 3 sessions, 2 lanes, 1 presence change | | violates `InterruptedWaiterLeaksNoPermit` |
| `stop_resurrected` | 2 user acts, 1 crash | | violates `StoppedStaysStopped` |
| `over_revoked` | 3 sessions without maintenance or reasoning, 1 reload | | violates `RevokesOnlyExcess` |
| `withdrawn_promoted` | 2 clients, 2 calls, no mishap | | violates `WithdrawnStaysOut` |

Why the bounds are enough to be interesting. *Coordinator*: keys share nothing, so one
suffices for the runs (the proofs cover any set); two entries and two fibers are what a
settlement with a successor needs at once, because a settled entry and its fiber are
unreachable afterwards and their identities are used again. *Attempt*: two generations
are one superseded writer and one owner, two turns an abandoned latch and its
successor. One call id with one tool in flight is enough for every tool column to be
overwritten by another generation. *Admission*: with four lanes both reserves are
active, the fleet size from which the code has them; five sessions fill it with one
left waiting. *Runtime*: two acts and two mishaps are the least that lets a stop meet
a prompt and a crash meet a loss; three acts with one mishap were checked too.
*Devices*: three turns for a cap of two leave one waiting, beside a maintenance pass,
and a cap that falls from two to one revokes and stays exceeded for a while; one session
uses both devices, so that a slot can be forgotten on the other one. *Input*: two
prompts are an order; three calls let one client send an id again while the other
withdraws it, with a crash in between. *Supervisor*: two generations overlap or do not;
two RPCs of one worker have an order, one of the next worker may be overtaken.

Deadlock is checked where the model never stops (`coordinator`, `admission`, `devices`).
The others stop when their bounded generations, turns, calls and acts are used up.

### What the history variables excuse

The liveness properties of `SessionRuntime` end in escapes; each one is named for what
happened, and none is an action of convenience:

- `Stopped`: the user's last act is a stop.
- `hist.held`: the boot gate held the session back because of the mark of a stop (which
  is not always the user's last word, see section 5).
- `hist.mistaken`: a sweep inside the boot window reclassified the row of a drain that
  was only silent (waiting for a lane or a retry for more than 30 s). The drain then
  ends as superseded and the row stays `recovering` until the next boot.
- `hist.taken`: a worker that was being stopped promoted a prompt sent after the stop,
  and went down with it.
- `Leaked` in `ForegroundServed`: a lane was lost to the defect shown by
  `admission_leak`. The last conjunct of `LanesMatchDrains` says that it is the only way.

`AcceptedIsServed` of `SessionInput` excuses a prompt over which a drain halted
(`runner.halted`): `exit(result)`, a halted provider, a truncation or a policy end the
drain without a look at the queue, and a second prompt may have no wake of its own left.

`PromptsInOrder` excuses a prompt that was withdrawn and admitted again (`hist.again`). The
runner publishes rows by id, so one that it selected before the withdrawal is promoted at its
old place although its new row is behind others. Without the excuse TLC finds this with four
calls (the run has three): two sends, a withdrawal between the runner's selection and its
commit, and the third send. The theorem holds for any number of calls.

### Fairness

- `RunCoordinator`: weak fairness of the drain fibers (the runtime runs a forked fiber,
  and a drain returns or is interrupted) and of the callers that are due to look at the
  map again. `RunReturns` assumes in addition that wakes and stops cease: without that a
  drain may be restarted on the same entry for ever, as the code intends.
- `WorkerAdmission`: weak fairness of `Hear` (an in-process listener) and of `Finish` (a
  worker's drain ends: watchdogs bound every worker). Nothing is assumed of viewers or
  of interrupts.
- `DeviceScheduler`: weak fairness of a turn's own phases (provider streams are watched
  for silence, and a turn goes on when it is admitted), of the end of a maintenance pass,
  and of the exit of a worker whose turn was interrupted (its grace is a timer of the
  host). None for admissions, stops, other exits, retries or reloads.
- `SessionInput`: weak fairness of the drain's next step, of the boot of a crashed host,
  and of each client's call that is under way. Calls, mode changes, mishaps and nudges
  may never come.
- `WorkerSupervisor`: weak fairness of the host's two timers, the interrupt grace and the
  cleanup deadline. Nothing is assumed of workers, of the kill, or of RPC handlers.
- `SessionRuntime`: weak fairness of the host's own steps, of a live worker's next step,
  of the reboot of a crashed host (the watchdog package restarts it), and of the age of a
  row that no drain touches. No fairness for prompts, stops, crashes, losses or yields;
  those are bounded, so they cease.

## 4. What is proved

TLAPS checks the following for every value of the constants (`RunCoordinator`: any sets
of keys, callers, entries and fibers, with `None` outside the last two; the row: any
positive bounds and any set of call ids; the devices: any sessions, caps and reloads; the
supervisor: any number of generations and RPCs; the input: any clients, prompts (at
least one) and nudges that are not prompts, and any bounds; admission: any sessions, any of
them Nova's, and any capacity but zero). The assumptions are the named ASSUMEs of
the modules (`CoordinatorAssumption`, `GateAssumption`, `DeviceAssumption`,
`SupervisorAssumption`, `InputAssumption` and so on), which TLC evaluates in the runs.

`RunCoordinatorProofs`
- `Invariance`: `Spec => []IInv`. The properties are not inductive: `Serialized` needs
  to know that the map and the fibers agree. `IInv` adds that they do (`Ownership`:
  every live fiber's entry is the one the map holds for its key, names that fiber as its
  owner and is stopping exactly if the fiber was interrupted; an owner is live and works for its
  entry; a mapped entry has an owner bound to its key), that a wake which nobody serves
  yet sits in the pending flag or under a queued fiber that was not interrupted
  (`OwedInv`), and that whoever waits does so on an entry with an owner (`WaitInv`).
- `TypeCorrect`, `SerializedHolds`, `WakeNotLostHolds`, `StopHoldsHolds`, `WaitersHaveADrainHolds`
  follow from it.
- `RefinesDrains`: `Spec => Drains!Spec`. Every step maps to one step of
  `SessionDrains` or to a stutter: launches to Request, wakes of a busy key to Remember,
  interrupts to Stop, beginnings to Begin, and all three branches of `settle()` to
  Finish.

`AttemptRowProofs` has one lemma per row function: it keeps the row well-typed, keeps its
facts with its generation, and never puts a latch under `settled` (`RowInv`). The next two
modules build on it.

`ExecutionAttemptProofs`
- `Invariance`: `Spec => []IInv`. Beside `RowInv`, `LatchInv` says of the runner of the
  current generation that it finds no latch when it begins a turn, and that the latch is
  its own turn's, or was cancelled, while the turn is open. Without it `LatchHonoured`
  could fail at a runner that closes a turn it did not open.
- `TypeCorrect`, `FactsAreOwnHolds`, `SettledHasNoLatchHolds`, and the action property
  `LatchHonouredHolds`.

`SessionRuntimeProofs`
- `Invariance`: `Spec => []IInv`, for any number of prompts, stops, crashes, losses and
  yields. `InCharge` is not inductive: when a drain ends over a progressing row one must
  know why that is harmless. `IInv` adds that a drain which yields has its successor's
  wake or was stopped (`YieldWakes`), that a stop of a running drain was the user's last
  act or a later prompt's wake is remembered or under way (`StopAnswered`), that only a
  sweep takes the row from the drain that serves it (`RecoveringServed`), and that a
  progressing row under the mark of a stop does not depend on an adoption, which the boot
  gate would call off (`Charge`), nor does one whose stop has yet to leave its mark
  (`MarkCharged`).
- `TypeCorrect`, `InChargeHolds`, and `UsesDrainsHolds`: every step of a living host is a
  step of `SessionDrains` or invisible to it.

`DeviceSchedulerProofs`
- `Invariance`: `Spec => []IInv`. The scheduler's operations are compositions of a few
  transformations of one device's gate (revoke, drain, place, release, forget, change the
  cap). `GateOK` is what each of them keeps or restores: nobody runs and waits at once
  (`Apart`), waiters have a reason to wait (`Served`), maintenance beside an interactive
  turn was preempted (`Yielding`), and no more than the cap run unrevoked (`Few`). One
  lemma per transformation shows which parts it needs and which it gives, and which ids
  it leaves alone (`Spares`): `Few` is broken by a change of the cap and restored by the
  revocation inside the same call, `Served` is broken by every release and restored by
  the drain at its end.
- The turns need more than the properties say: an idle turn is not interrupted, a turn
  waits only where its phase says so, and a turn that lent Main has nothing there
  (`TurnOK`); a revocation is kept only for who is present or has lent Main (`WatchOK`).
- `TypeCorrect`, `CapHolds` (`ExcessIsRevoked`), `WakesAreNotLost`
  (`NobodyWaitsInVain`), `HumansFirst` (`MaintenanceYields`), `NoSlotLeaks`
  (`SlotsHaveTurns`) and `NoStaleRevocation` (`WatchesEnd`).

`WorkerSupervisorProofs`
- `Invariance`: `Spec => []IInv`. The order of the record is not inductive: one must know
  that an ordered RPC that runs has only finished ordered RPCs before it (`Turns`), and
  that an entry of the record has none before it that is still to come (`Recorded`). The
  handover needs that a worker is replaced only after it was resolved (`Succession`), and
  that a worker resolved before the cleanup deadline is dead with all its RPCs over
  (`Settled`). `AnsweredIsWritten` is split into what was answered (`Written`) and
  one write for each RPC (`Once`). `Once` needs that whatever stands in the record is over
  (`Entered`), and `Written` that a handler which rejects, because the row has a successor, finds
  its own worker done and sends no answer (`Succession`).
- `TypeCorrect`, `RpcOrder` (`OrderKept`), `Handover` (`GenerationsDoNotOverlap`) and
  `AnswersAreWritten` (`AnsweredIsWritten`).

`WorkerAdmissionProofs`
- `Invariance`: `Spec => []IInv`. `GateOK` says of the gate what every operation keeps:
  leases stay within the capacity, those that do not govern leave Nova's lane free, exactly
  Nova's sessions have the governing class, each drain has the one lane or the one place its
  phase says, and only a copy may wait unawaited. Without the class `NovaHasALane` would not be
  inductive: a reclassification might turn a governing lease into another one.
- `drain()` is a loop. `Drained` is a recursive function on gates, which has its meaning only
  once a function that satisfies its equation is known to exist. `DrainHasSolution` builds one
  by induction on the number of free lanes, since every turn of the loop takes one, and
  `DrainInduction` gives what the loop keeps: what one turn (`Grant`) keeps. The induction is
  over a set of numbers that has zero and its successors (`SetInduction`, from the library's
  well-founded order on finite sets), because the provers instantiate sets and not predicates. At the end of the loop nobody in the queue may be admitted (`DrainKeeps`), which is
  why `NobodyWaitsInVain` survives a release and a reclassification.
- `TypeCorrect`, `LanesAreMatched` (`LanesMatchDrains`), `NobodyIsForgotten`
  (`NobodyWaitsInVain`), `ALaneForNova` (`NovaHasALane`), and `YieldingHelps`
  (`YieldHandsOver`): the lane `shouldYield()` reasons about is the one that is given back, so
  the loop grants at least once.

`SessionInputProofs`
- `Invariance`: `Spec => []Inv`, in two halves. `IInv` is about tables, clients and answers, and
  its proof never looks at what the runner has selected: both properties on it rest on the
  commits alone, and hold however stale a selection is. `AcceptedIsKept` needs that a client
  between its admission and its answer knows of a row, a message or a withdrawal of its prompt
  (`ClientOK`). A lemma shows that the projections take one row away and no other
  (`RemoveKeeps`).
- `RInv` is about the selection: each prompt in it has a row or a message, and no older prompt
  is pending before it, unless the session was a human's or the prompt came back
  (`Selected`). Admissions append and promotions and withdrawals remove, so a selection stays
  what it was (`RemoveKeeps`, `AppendKeeps`). `OnlyFacts` says what a query of the table
  returns: its rows are the wanted ones, and the first of them has no wanted one before it.
- `TypeCorrect`, `OnceOnly` (`EntersOnce`), `NothingIsLost` (`AcceptedIsKept`), and the action
  property `FirstComeFirstServed` (`PromptsInOrder`).

Only model-checked:
- All liveness (`RunReturns`, `ImplementsDrains` with its fairness, `ForegroundServed`,
  `PromptServed`, `WorkResumes`, `LatchConsumed`, `DevicesServe`, `StopReturns`,
  `AcceptedIsServed`), since this prover has no rules for `ENABLED` and fairness.

Every invariant and every action property that a passing run checks is stated by a theorem;
what remains there is the temporal part.

## 5. Disagreements between the code and what it says

Five are runs of their own, and `PROJECT.json` quotes the line.

1. `uncertain_tool`: "An uncertain tool is never replayed: the replacement turn receives
   a grounded inspection steer". A checkpoint of provider output after a tool's dispatch
   makes the decision `continue`.
2. `admission_leak`: "an interrupted waiter leaks no permit". One that was reclassified
   while it waited does.
3. `stop_resurrected`: "whatever a sweep found, a session someone stopped stays
   stopped". A stop before the first attempt leaves no mark, yet its prompt is adopted.
4. `over_revoked`: "revokes excess generations". `revokeExcess()` does not count the
   generations that were revoked before and are winding down, so an admission in that
   time revokes one that the cap allows.
5. `withdrawn_promoted`: "Whichever event gets the sequence first wins; the loser rolls
   back". A promotion that comes after the withdrawal finds no row and inserts it.

Met while modelling, without a run:

6. `session-worker/supervisor.ts:775-776`, "Once the owner asks to stop, that explicit terminal
   intent owns the outcome": `enforceMemoryLimit()` asks for the stop before it samples (755)
   and only whether the worker is done when the reading comes (763), so a reading that arrives
   during the grace ends the stopped worker as over its memory limit. `WorkerSupervisor` has
   those steps (`Sample`, `Interrupt`, `Sampled`), and no property says that it cannot happen.
   The fiber that asked for the stop was interrupted and does not read that outcome.
7. `session-run-coordinator.test.ts:351`, "starts a resume registered during interruption
   cleanup": `run()` during a stop is answered with the interrupt of the old drain.
8. `execution-attempt.ts:500-501`, "The breaker counts consecutive worker losses without
   durable forward progress": abandoning a dead worker's latch resets the count.
9. `boot-recovery.ts:278-279`, boot hands back "every session holding durable work ...
   exactly as the admission ... would have done": a prompt sent after a stop and lost to
   a crash before its attempt opens is held by the mark of that stop.
10. `runner/llm.ts:5666`, "Pending input is safe": see `AcceptedIsServed` in section 3.

## 6. Not modelled

In the modelled components: the frozen todo plan of `start()`, status events and notices,
project holds, archived sessions and operator handoff (a drain that returns at once),
`Steering.resume`'s modes, the order of several sessions at boot, the second
projection of the provider latch on the session row, an interrupt between the grant of a
lane and the resumption of its drain, presence that expires without a notice, the EEVDF
ledger's choice and the warm cohort, racing generations of one turn (which share a slot
id, so that one overwrites the other's place in the queue), a worker that fails to spawn,
and malformed protocol lines. The hazards list says which of these matter and why.

The components that are left out altogether are in `PROJECT.json` with a reason each.
The repository is far larger than its session core: user interfaces, generated SDK
clients, translations, log schemas, settings screens, provider adapters, messenger and
community networking make up most of its lines, and hold text, wire formats and layout
rather than state that a model checker would explore.

## 7. Plan

1. `SessionJoin` (`spawner.ts`, `join.ts`, `spawn-admission.ts`): no join returns an
   earlier epoch's result; nested waits against the lanes of `WorkerAdmission`.
2. `Eevdf` (`kernel/eevdf.ts`) as a pure module with lag and weight bounds, as the choice
   that `DeviceScheduler` leaves open.
3. `EventLog` (`core/src/event.ts`): durable sequence, projection and redelivery.
4. `Schedules` (`core/src/schedule/`): fires and missed fires.
5. `SessionRuntime` over `SessionInput` instead of its single prompt, and over
   `WorkerSupervisor` for late writes after a stop.
6. An abstract gate (lanes held, places owed) that `WorkerAdmission` and each device of
   `DeviceScheduler` implement, and an abstract transcript for `SessionInput`, with the step
   theorems that the invariants above already pay for.
