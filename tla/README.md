# totsuka in TLA+

totsuka takes task instructions from task sources (GitHub, Notion, Slack,
Discord, routines), gives each to an AI coding agent in a pane of an agent IDE
(herdr, orca), follows the agent, and publishes what it made. This directory
holds TLA+ models of its core, the TLC runs that check them and the TLAPS
proofs about them. Paths below are relative to
`src/crates/orchestrator-core/src/` unless they start with another directory.

- [The system](#the-system)
- [Modules and how they follow the code](#modules-and-how-they-follow-the-code)
- [Runs](#runs)
- [Where the code and its comments disagree](#where-the-code-and-its-comments-disagree)
- [Fairness](#fairness)
- [Proofs](#proofs)
- [Not modelled](#not-modelled)
- [Plan](#plan)

## The system

One engine process per state directory (a file lock, `adapters/run_lock.rs`)
runs one event loop (`run/mod.rs`). Everything it knows for good is in a SQLite
database. Plugins are child processes it talks JSON-RPC to: task sources submit
tasks, agent IDEs open panes and report what the agents do, notifiers tell
people. The command line is *another* process that opens the same database.

| component | state it keeps | operations | talks to |
| --- | --- | --- | --- |
| task state machine `domain/state.rs` | `state` and `state_version` of a row | `transition`, `apply_event` (held to the version the caller read) | every other part |
| slot scheduler `scheduler/` | who holds a slot under which (repository, agent); three tiers of counters | acquire, release, rebuild, `plan_dispatch` | engine loop |
| engine loop `run/{mod,dispatch,events,finalize}.rs` | session routes, slots, what a handler read | dispatch, follow, publish, tick, isolate | database, plugins |
| recovery `recovery/` | a snapshot of the rows | resume, leave to a person, rebuild the slots | database, agent plugin |
| message ledger `adapters/state_db/task_messages.rs` | every message of a conversation, when it was handed over | append, reopen, hand off, read, stamp, take back | ingest, dispatch, retry |
| ingest `run/ingest.rs` | none of its own | `on_task_submit` | sources, ledger |
| operator commands `task_control.rs`, `src/crates/orchestrator-cli/src/task_cmd.rs` | none | cancel, retry, verify, submit | database directly, or the engine's socket |
| hook signals `run/hooks.rs`, `adapters/hook_uds.rs` | the channel, the spool directory, `hook_events`, `last_signal_at` | deliver, replay, time out, escalate | agents' hook scripts |
| plugin supervision `run/supervise.rs`, `adapters/plugin_host.rs` | live plugins, restart budget | crash, back-off, restart, abandon | plugins |
| publication `run/finalize.rs` | `agent_output` | publish the artifact, complete, fail | source |
| task sources `src/plugins/task-source-*` | what they fetched last | fetch, submit, claim | GitHub, Notion, Slack, Discord; engine |
| worktrees `worktree/`, `run/sweep.rs` | directories and branches on disk | acquire, keep, sweep | git |
| session log, event log `adapters/state_db/{sessions,events}.rs` | session rows, the history of events | reserve, bind, count retries | dispatch, recovery |

What is hard in it, and which property is about it, is the list `hazards` in
`PROJECT.json`. In short:

- *Two writers.* `totsuka task cancel` and `retry` write the row the engine has
  in hand, between any two of its awaits. Only `state_version` tells the engine.
- *Slots.* A cap is respected only if every one of a dozen ways out of a
  dispatch hands its slot back, once, and if a restart rebuilds exactly the
  slots of what it follows again.
- *Panes outlive everything.* The engine, the run, the session row and the
  answer to the launch can all be lost while the agent works on; and a recorded
  pane id, being a position, can come to name another pane.
- *Only the future is streamed.* What an agent does before `state/subscribe` is in
  force is not told, and attaching and subscribing are two requests.
- *At-least-once messages.* A follow-up can arrive at any moment of a run, more
  than once, under another workflow; what the agent was told is recorded by a
  timestamp written after the fact.
- *A biased loop.* Events go before the tick, and the tick is what frees slots,
  dispatches and requeues.
- *Signals by two ways.* A hook's report goes to a channel in memory, to a file
  in the spool, to both, or, answered with an error, to neither; a spool file
  exists before its line is in it; a signal is logged before it takes effect, and
  the engine can be killed between any two of these.
- *Plugins die.* At any point of a dispatch pass, during their own relaunch, and
  a moment before the engine learns that it is to stop itself.
- *Other engines.* Several people run totsuka over one board, and only GitHub's
  assignees and events, stamped in whole seconds, say whose an issue is.

What makes each component correct: the scheduler never exceeds a cap except by
what a restart found running, and a full tier blocks only its own tasks; the
engine leaks no slot, follows nothing unpaid, undoes no cancel and follows no
other run's pane, short of a stranger behind a reused id; the ledger loses no
message, tells no carried-out instruction again and takes back exactly the last
batch; a signal whose line is in the spool is kept until it is logged, acts once,
and moves no task past a person's verdict; a dead plugin is brought back once or
given up, its work holds no slot and, where the restart budget bites, does not wait
for ever; one instance runs an issue, besides those that read their claim back too
early, and never against a person's assignment.

## Modules and how they follow the code

`PROJECT.json` `map` names the lines behind every definition.

```
TaskState        states, events, arrows, the version check
SlotManager      the slot ledger as operators
Scheduler        SlotManager driven: plan_dispatch, rebuild      -> SchedulerProofs
SlotLedger       what the slots promise (abstract), whoever takes them
Engine           TaskState + SlotManager: the loop and recovery; implements
                 SlotLedger                                      -> EngineProofs
MessageDelivery  what the message ledger promises (abstract)
MessageLedger    TaskState + the ledger, ingest, retry; implements MessageDelivery
HookSignals      TaskState + hooks, spool, verification, silence -> HookSignalsProofs
Supervision      plugins that die, and the dispatch that goes on; implements
                 SlotLedger with one tier                        -> SupervisionProofs
Claim            one issue, several instances                    -> ClaimProofs
MCScheduler, MCEngine, MCMessageLedger, MCHookSignals, MCSupervision, MCClaim
                 instances for TLC
SlotManagerProofs     facts about the slot ledger's operators
TaskStateProofs       facts about the arrows and the row, for every event
MessageLedgerProofs   MessageLedger's invariants, and that it implements MessageDelivery
```

**TaskState** (`domain/state.rs`, `apply_event_tx`). The 12 states and the arrows
of `transition` as a set; `Outcome(row, version, event)` is what `apply_event`
answers: `conflict` if the row has moved on, `illegal` if the state has no such
arrow, else `ok`. States are the strings of the code's enum.

**SlotManager, Scheduler** (`scheduler/mod.rs`). A ledger is a record of the
holder map and the three counters, kept separately as in the code, decremented
with saturation as in the code; that the four agree is a property, not a
definition. `plan_dispatch` runs a step per task it tries, so that
`NoPriorityInversion` can speak of the ledger at each try.

**SlotLedger** is the abstract specification of the slots as their users see them:
whether the process is up, and who holds a slot. There are no counters; a tier is as
full as its holders make it. Slots are taken only where every capped tier that gains
one is within its cap afterwards, are given back at any time, are gone with the
process, and are handed to whoever resumed, once, when it comes back. `Engine`
implements it with three tiers (`Ledger`: up means past recovery, holders are
`Holders(slots)`), `Supervision` with one, where a whole pass takes its slots in one
step.

**Engine** (`run/`, `recovery/`). An action is the code between two points where
somebody else can get in: an await, or the gap between two statements on the
database. `pc` names the point and `act` is the handler's local state, with the
version it read. So `dispatch_one` is `DispatchOne`, `Claim*`, then `Reattach`,
`Resubscribe`, `Reuse`, or `DispatchFresh`, `ReleasePane`, `Prepare`, `Launch`,
`Bind`, `Record`, `Subscribe`, with `FailDispatch`, `AutoRetry` and `Isolate` as its
other ends;
`apply_agent_state` is `HandleNote` and `ApplyEvent`; `finalize_success` is
`Publish`, `Complete`, `FailPublish`; the tick is `Cycle`; a start is `Start`,
`RecoverTask`, `RecoverSubscribe`, `RebuildSlots`, `TakeOver`, `RecoverEnd`. The
command line (`CliWrites`) is enabled in every state. Agents and panes move on their
own, a stream may die or report an exit, and a kill loses all of memory, the plugins'
streams with it, and nothing else. The launch of a pane can succeed without its
answer arriving: the pane is then nobody's (run 0).

What a plugin does with panes is `Attach`, `Watched`, `AgentMoves`, `AgentExits`.
`session/attach` asks for the pane that goes by the recorded id and compares nothing
(herdr `agent.rs:1033`): it answers with the session's own pane (`OwnPane`) or with a
stranger's (`strangers`), in one of the states `ReusedIds`; with `ReusedIds` empty
the ids are names, as orca's are. `streams` holds the sessions whose state is
streamed, from `state/subscribe` on; `Streamed` is which states a plugin notifies.
Nothing that happens before is told again, so an agent may finish between the answer
of an attach, or the launch, and the subscription without anybody hearing of it:
`missed`, a history variable, has the tasks whose agent finished with nothing told.
herdr and orca stream an end only, that is `Streamed` empty; their agents' progress
comes by hooks, which is HookSignals.

Abstracted: what is in a worktree, prompts, status write-backs, notifications to
people, diagnostics; which gate parks a task (any subset may be parked); the
order of the plan (`Gather` to `PlanEnd` try the ready tasks in any order: the
order is the subject of Scheduler).

**MessageLedger** (`task_messages.rs`, `ingest.rs`, the messages' part of
`dispatch.rs`, `tasks.rs`). One action per transaction: `upsert_submitted_task`
and the append are two, append and reopen are one, hand-off is one, dispatch
reads the unsent messages (`ReadUnsent`) long before it stamps them (`Mark`).
`Launch` counts what an agent was told, also when the answer is lost. Slots and
panes are left out, following an agent is `Progress` along any legal arrow: both
allow more than Engine does. `told`, `handed`, `redo` and `ranUnder` are history
variables, they guard nothing.

**MessageDelivery** is the abstract specification: a log and a cursor, with
`Accept`, `Give` and `TakeBack`. `MessageLedger` is shown to implement it, with
the cursor being the number of stamped rows and the place a retry goes back to
being computed from the stamps alone. Each `Mark` gets a new time, which is what
`unprocess_last_batch` asks of the clock: two batches under one timestamp are out of
the model's reach.

**HookSignals** (`run/hooks.rs`, `adapters/hook_uds.rs`, `state_db/hook_events.rs`,
`run/finalize.rs`, `recovery/`, the scripts under `hooks/`). One task. A script
posts (`Post`: to the channel, to the spool, to both when only the answer was lost,
or to neither when the answer is an error, which `curl` without `--fail` takes for a
success, or the file cannot be created). Spooling is two steps, as it is two system
calls: `Post` creates the file, `WriteLine` writes the line or, the hook being
killed, does not. A replay that reads a file before its line is whole
(`ReadUnwritten`) has nothing to record and removes or renames it (`Discard`), with
what was written meanwhile. `on_signal` is two steps, as it is two transactions: `TakeFromChannel` or
`TakeFromSpool` touches the anchor and writes the idempotency key; `SignOfWork`,
`Park`, `StopFailed`, `StopUnknown` or `StopCompleted` acts on the row read before
the key was written, at that row's version, or is isolated. `finalize_success` is
`Publish`, `Complete`, `PublishFails`; `sweep_signal_timeouts` is `Sweep`; `Restart`
is `recover` with `resume_plan` as a table. Operators are `Cancel`, `Retry`,
`Approve`, `Reject`. A signal is (run, turn, event, status), which is also its key;
an artifact is the (run, turn) of the Stop that brought it. Time is the anchor's
three values. `published`, `approved`, `rejected` and `heard` are history.
Two limits of this: a second notification or question of one turn, which the code
tells apart by its own `prompt_id` or `tool_use_id`, is a duplicate here; and the two
events of a chain are written in one step, where the code reads the row again
between them (Engine has them apart).

**Supervision** (`run/supervise.rs`, `adapters/plugin_host.rs`, and the parts of
`run/dispatch.rs` and `run/mod.rs` that a death meets). A plugin is live, dying
(EOF seen, watcher not awake) or dead. The event queue carries `closed`, `due`,
`up` and `failed`; a restart is a timer, then a launch off the loop, each with its
own event. A dispatch pass is `PassBegins`, one `DispatchNext`, `Claim`, `Launch`,
`Subscribe` per task, `PassEnds`, and a plugin may die between any two.
`fail_sessions_of` drops the routes first and fails task after task. The window is
counted in ticks. The group signal (`GroupStop`) may kill plugins before the
engine's handler wakes (`StopArrives`). Slots are one tier: Scheduler has the rest.

**Claim** (`src/plugins/task-source-github/src/{claim,client,server,config}.rs`,
`claim_task`). The issue is its assignees and its AssignedEvents in the order the
rule compares them; `sealed` says how many are of earlier seconds. A new event may
sort anywhere in its own second (unless `IdsFollowTime`), and reads of the entries
in `LateEntries` may miss events of that second. `claim` is `PreRead`, `Write`,
`ReadBack` (twice when the assignee does not show), `StepAside`; its answers are
what `claim_task` makes of them. `aged` says whose write is of an earlier second;
a read-back before that is `Early`, which the default `claim_verify_delay` of 750 ms
and the permitted 0 allow (`LongDelay` FALSE) and only a delay of more than a second
rules out; `early` remembers who did. An assignee read is taken to be current:
ADR-0059 accepts the residual risk that it is not.

## Runs

All with two TLC workers. State counts are distinct states.

| run | instance | checks | states |
| --- | --- | --- | --- |
| Scheduler | 3 tasks, 2 repositories, 2 agents, caps 2/1/1, one task under three pairs | `TypeOK` `LedgerAgrees` `CapsHold` `NoPriorityInversion` | 140 178 |
| EngineRestart | 2 tasks, 1 slot, 2 sessions, 1 person's step, 1 kill | `TypeOK` `NoLeakedSlot` `FollowedWorkHoldsSlot` `SlotsKeepTheirCaps` | 1 018 857 |
| EngineLive | 1 task, 2 sessions, 1 automatic retry, 2 person's steps, 1 unread notification, 1 kill, reused pane ids, fair | `ActiveTaskOwnsItsPane` `CancelSticks` `PassesEnd` `SettledSlotsComeFree` `FinishedAgentsAreHeard` | 370 959 |
| Messages | 1 conversation, 2 keys, 2 workflows, 3 dispatches, 2 person's steps, 1 kill, fair | `TypeOK` `StampedWasTold` `NotToldAgain` `RunsUnderItsWorkflow` `AcceptedIsNotStranded` `LedgerIsALog` `DoneMeansAnswered` | 1 291 156 |
| HookSignals | human review, 2 runs, 2 turns, channel and spool of 1, 2 cancels or retries, 1 kill | `TypeOK` `RefusedIsNotAskedAgain` `VerdictIsAwaited` `SilenceIsThisRuns` | 1 621 587 |
| HookSignalsLive | no review, 1 run, 1 turn, channel of 1, spool of 2, 1 cancel or retry, 1 kill, fair | `DoneMeansPublished` `SpooledUntilRecorded` `SpooledCompletionIsHeard` `SilenceIsEscalated` | 197 671 |
| Supervision | 2 agents, 1 source, 1 slot, 2 deaths, budget of 1, one agent never restarted, fair | `TypeOK` `DeadIsAttended` `RoutesFollowInstances` `SlotsAreOfFollowed` `NoSlotIdlesForTheDead` `StopKeepsWork` `WaitingEnds` | 486 189 |
| Claim | 3 instances, 2 with push access, 2 lane entries, late events in the first, delay below a second, 1 retry, 2 faults, fair | `TypeOK` `ExclusiveUnlessEarly` `RoutingIsKept` `LoserHoldsNothing` `EntryIsServed` | 894 524 |
| EngineRetries | 1 task | `RetriesAreBounded` | violated |
| EngineGap | 1 task, 1 kill, fair | `FinishedAgentsAreFinalized` | violated |
| ClaimLate | 2 instances | `NeverAWrongAnswer` | violated |
| ClaimDefault | 2 instances, no faults, no late events | `ConvergesWheneverRead` | violated |

*Why the bounds are enough for the question.* Two tasks are needed for slots to
be competed for, and they are scarcest with one slot: EngineRestart, whose kill and
rebuild `SlotsKeepTheirCaps` is about too. EngineLive is about one row and its depth:
a cancel, and a retry back into the state the handler had read, with a kill, a late
report and an automatic retry between. One task is all a pass needs to be fed by its
own failure, and the settled task's slot is one that nobody else frees. Reused ids in
one state are enough: what a stranger shows only decides how the task goes on.
EngineRestart has none, as slots do not depend on whose pane it is; its theorems do
not ask for that. In Messages two keys are an answered or sent message and a new one,
two workflows are the fewest that can be handed between, three dispatches with two
person's steps bring a batch back, tell it again and bring it back again. An answered
batch, a sent batch and an unsent message together, three keys, is what
`unprocess_last_batch` has to tell apart: that case is the theorem's
(`MessageLedgerIsALog`). Symmetry is used where only safety is checked and the permuted
values are alike (all tasks share one pair).
One task is enough for HookSignals, whose handlers look at one row; two runs are
the fewest for a signal of an earlier one, and a spool of two the fewest that can
be emptied too early. In Supervision the task that goes first needs the agent that
dies, so that it could starve the other; a budget of one death more than it allows
reaches relaunch, back-off and giving up. `WaitingEnds` is conditional on
`BudgetBites`: the launches of a spent budget fit in its window. With the code's
defaults they do not (a tick being a minute: 5 attempts, a window of 5, launches that
fail after 2), and there it would not hold: `RestartsEnd` below. In Claim two racers
can sort either way and the third, who cannot be assigned, is the silent discard; the second lane entry
gives every event of the first an older tenure to be mistaken for.
In the Engine runs TLC tells states apart by `VersionlessView` (HookSignals by
`View`, which also drops logged keys that cannot come again): versions only
grow and are only compared for equality with the one a handler or recovery
holds, so the view keeps those comparisons and drops the numbers.

Every property of a passing run has a mutant, a plausible slip in one
definition, under which TLC finds it violated (`mutants` in `PROJECT.json`; the
`deviation` operators in the modules).

*Deadlock.* It is checked in every run but those of Claim, where the world may
come to rest: the task is run and nobody moves the card again.

## Where the code and its comments disagree

Four are runs that TLC must refute; `findings` in `PROJECT.json` quotes the lines.

- `RetriesAreBounded` (EngineRetries). When `state/subscribe` is what fails, the
  `Dispatch` event recorded before it ends the streak that
  `auto_retry_streak` counts: the task is launched again without bound.
- `NeverAWrongAnswer` (ClaimLate). "a delay, never a wrong answer"
  (`claim.rs:66-68`): a claim that answers an error because a competitor's event
  does not show leaves its own assignment on the issue, and the next cycle's
  pre-read takes any own assignment for a person's. Both instances run the task.
- `ConvergesWheneverRead` (ClaimDefault). "every instance converges on the same
  answer regardless of when it read" (`claim.rs:14`): an instance that reads back
  within the second of its write, as the default delay of 750 ms lets it, may be
  alone then; an event that comes later in that second may sort before its own. Both
  win. `ExclusiveUnlessEarly` says that this is the only way beside an unsettled claim.
- `FinishedAgentsAreFinalized` (EngineGap). Recovery finalizes a finished agent
  "instead of waiting forever" (`run/mod.rs:582`): one that finishes between the answer
  to `session/attach` and `state/subscribe` is neither in the answer nor in the
  stream, and the task waits for ever. (With herdr or orca a hook may still end it.)

The others are stated in the modules, each with what refutes it, and can be
reproduced by a configuration of the constants given here. For the first four it is
kept beside the runs: `tlc -config EngineStrangers.cfg MCEngine`, and so on.

- `VanishedPanesAreNotAttached` (EngineStrangers: one task, `ReusedIds` {"Running"},
  `MaxRuns` 1, one kill). "A vanished pane is reported as `attached: false`" (herdr
  `agent.rs:1030`): not if its position-based id names another pane by now. Recovery
  takes that pane's state for the agent's.
- `AnyFailureIsSpooled` (HookRefused: no review, `TurnKinds`, `MaxRuns` 1, `MaxTurns`
  1, channel 1, spool 2, no person, no kill). "On any failure, spool the payload"
  (`hooks/hook-common.sh:41`): an answer of 401, 413 or 503 is no failure to `curl`
  without `--fail`, and the Stop is nowhere.
- `ReadAllThenDeleteIsSafe` (HookHalfWritten: the same). "makes read-all-then-delete
  safe" (`run/hooks.rs:689`): not for a file that is read between its creation and the
  write of its line; it goes with the line in it.
- `RestartsEnd` (SupervisionDefaults: `OneTask`, one slot, `MaxAttempts` 5, `Window` 5,
  `LaunchTime` 2, fair). "the same budget applies and this terminates"
  (`run/supervise.rs:482`): with the defaults of 5 attempts in 300 s
  (`run/settings.rs:304`) and a launch that takes 120 s to time out
  (`plugins/spec.rs:27`), attempts leave the window as fast as they are made.
- `LateNotesAreIgnored` (Engine; one task, `MaxRuns` 2, `MaxAsked` 2, no kill).
  Routes of a failed run's session stay, and a notification is judged by the
  task's state only (`run/events.rs:216`): the exit of the old pane can fail the
  new run.
- `RacesAreConflicts` (Engine; one task, `MaxRuns` 1, `MaxAsked` 1). A cancel
  between the plan and the handler's own read gives it the version of a cancelled
  row; the illegal transition at that version (`run/dispatch.rs:1164`) is a race
  all the same, and stops a debug build.
- `UnsentMeansNothingHanded` (MessageLedger; one conversation, three keys, one
  workflow, `MaxRuns` 3, `MaxAsked` 2). A follow-up that arrives during a run is
  unsent when the run fails, so the retry (`tasks.rs:424`) gives nothing back
  although the run had been handed a batch: the new run is told the follow-up alone.
- `RefusedIsNotPublished` (HookSignals; `HumanReview`, `TimeoutSet` FALSE,
  `EndKinds`, `MaxRuns` 1, `MaxTurns` 2, channel and spool 1, `MaxAsked` 0, one
  kill). "verification / escalation must not be skipped across a restart"
  (`recovery/mod.rs:188`): a refused task is `running` again under the refused
  artifact, and a restart that finds its pane done publishes it.
- `DeadSourceTakesNoSlot` (Supervision; `OwnSource`, two sources, `OneDies`). "a
  plugin between instances must not take a slot either" (`run/dispatch.rs:213`)
  is kept for agents; a dead source is noticed by `claim_task` after the plan
  gave the slot away, so a task of a live source waits for the next pass.

Where no sentence of the source is contradicted, but a reader might expect better:

- A Stop of an earlier run acts on the run that followed it: the job id names the
  session, `handle_signal` looks at its task (`run/hooks.rs:62`).
- A kill between the idempotency key and the effect makes the replay of a spooled
  completion a duplicate (`run/hooks.rs:689`): the task goes on without it, until
  the silence sweep escalates it. `SpooledCompletionIsHeard` says recorded, no more.
- `task verify --pass` says that `totsuka run` publishes on the next cycle; it is a
  restart that does, and only if the agent's pane is found done.
- A spooled Notification arms the sweep's pause however late it is replayed.
- Claim: with both entries in `LateEntries` the invariants hold and `EntryIsServed`
  does not: an assignee's event of an earlier tenure is taken for its current one
  while that one does not show, and both racers may step aside.

## Fairness

`Engine`: `WF(EngineStep)` - a handler that is under way goes on; every request to
a plugin ends with an answer or a timeout, and the loop takes the next event.
`SF(Cycle)` - the tick fires if it is due again and again: the select is biased
and events restart the sleep, so strong fairness is asked only of a tick that
keeps becoming possible, and `SettledSlotsComeFree` also assumes outright that
notifications pause (`AgentsPause`). Nothing is assumed of agents, people, kills.
`MessageLedger`: the same two, for `HandlerStep` and `Cycle`.
`HookSignals`: weak fairness of `Handling` (a signal in hand is dealt with, the next
is taken, a replay ends), of the clock and of a restart; strong fairness of the
tick's two parts, the replay and the sweep, since the tick comes again and again
between events. Nothing is asked of hooks, agents and people.
`Supervision`: weak fairness of the loop, of watchers, timers and launches (a launch
is bounded by the RPC timeout) and of the clock. A plugin need not come back.
`Claim`: a queued task is tried every cycle and every request is answered, so
`Claiming` is weakly fair per instance; seconds pass. Runs need not end.

## Proofs

TLAPS proves, for every set of tasks, repositories, agents, every cap, retry
limit, conversation, key, workflow and bound (the `ASSUME`s: pairs and limits are
typed, `NoTask` is no task, `NoSlot` no pair, and so on; the sets of tasks are
finite where counters count them; the queue of Supervision names a task once, and
`RetryLimit` is not 0, as `DISPATCH_RETRY_LIMIT` is 3):

| theorem | module | says |
| --- | --- | --- |
| `SchedulerTypeCorrect` | SchedulerProofs | the ledger is typed; no counter below zero |
| `SchedulerLedgerAgrees` | SchedulerProofs | each counter is the number of holders under it |
| `SchedulerCapsHold` | SchedulerProofs | only a rebuild puts a tier above its cap |
| `SchedulerNoPriorityInversion` | SchedulerProofs | a task left out is blocked by what ran or goes before it |
| `EngineTypeCorrect` | EngineProofs | the engine's state keeps its type |
| `EngineCancelSticks` | EngineProofs | only a person takes a row out of `cancelled` |
| `EngineNoLeakedSlot` | EngineProofs | a held slot is in hand, counted, or a CLI's |
| `EngineFollowedWorkHoldsSlot` | EngineProofs | an agent that is followed holds a slot |
| `EngineActiveTaskOwnsItsPane` | EngineProofs | a followed task's open pane is its own run's, strangers behind a reused id aside |
| `EngineSlotsKeepTheirCaps` | EngineProofs | the engine implements SlotLedger |
| `EngineNoReportIsLost` | EngineProofs | a followed agent whose end was told or found is in the inbox, or its task is being ended |
| `EngineTriedOncePerPass` | EngineProofs | a pass tries a task once, whatever is requeued meanwhile |
| `MessageTypeCorrect` | MessageLedgerProofs | the ledger and the handlers' data are typed |
| `MessageRunsUnderItsWorkflow` | MessageLedgerProofs | a hand-off never takes a conversation from a working agent |
| `MessageStampedWasTold` | MessageLedgerProofs | what bears a stamp was told |
| `MessageNotToldAgain` | MessageLedgerProofs | beyond the first time, a message is told for a run done over only |
| `MessageAcceptedIsNotStranded` | MessageLedgerProofs | what is taken in is queued or in flight |
| `MessageLedgerIsALog` | MessageLedgerProofs | the ledger implements MessageDelivery |
| `ClaimTypeCorrect` | ClaimProofs | the issue and the claims are typed |
| `ClaimLoserHoldsNothing` | ClaimProofs | a skipped task is not assigned to its instance |
| `ClaimRoutingIsKept` | ClaimProofs | a person's assignee never loses the task |
| `ClaimExclusive` | ClaimProofs | whatever the delay, one instance runs it besides those that read back early or ended unsettled |
| `HookTypeCorrect` | HookSignalsProofs | signals, rows in hand and artifacts are typed |
| `HookVerdictIsAwaited` | HookSignalsProofs | only a person's verdict leads from Verifying to Publishing |
| `HookSpooledUntilRecorded` | HookSignalsProofs | a file with its whole line leaves the spool only once it is logged, unless it was read before |
| `HookRefusedIsNotAskedAgain` | HookSignalsProofs | a refused artifact is not put to a person again |
| `HookDoneMeansPublished` | HookSignalsProofs | what is done was published as it is recorded |
| `HookSilenceIsThisRuns` | HookSignalsProofs | silence is measured from this run's dispatch |
| `SupervisionTypeCorrect` | SupervisionProofs | the supervisor's books and the loop's locals are typed |
| `SupervisionRestartsAreBudgeted` | SupervisionProofs | a relaunch is scheduled only within the budget of the window |
| `SupervisionSlotsKeepTheirCap` | SupervisionProofs | supervision implements SlotLedger with one tier |
| `SupervisionDeadIsAttended` | SupervisionProofs | a dead plugin is brought back once, or given up |
| `SupervisionRoutesFollowInstances` | SupervisionProofs | a session route leads to the instance in place |
| `SupervisionSlotsAreOfFollowed` | SupervisionProofs | between events the followed tasks hold the slots, nobody else |
| `SupervisionNoSlotIdlesForTheDead` | SupervisionProofs | a parked task starves no task of a live agent |
| `SupervisionStopKeepsWork` | SupervisionProofs | a stop fails no task of an agent it killed |

*The argument for the engine.* None of the properties is inductive. What all rest on
is `EngineInv == LedgerOK /\ VersionsOK /\ RecoveryOK /\ SlotsOK`, in that order
of dependence:

1. `LedgerOK`: `TypeOK`, the counters agree with the holders (needed because a
   release decrements them), and `HandlerOK`, what `act` holds at each `pc`: a
   task inside a handler, `NoAct` outside; at `apply` a chain of events that is
   only `Fail`, or only events after which the task still counts toward its slot.
2. `VersionsOK`: no handler and no recovery snapshot holds a version the row has
   not reached; a handler about to retry whose version is current sees a failed
   row. Versions grow with every write, so a write that succeeds proves that
   nothing happened since the read. `EngineCancelSticks` follows: the one engine
   event that leaves `cancelled` is `Retry`, which needs the row to be `failed`.
3. `RecoveryOK`: recovery hands each task on once, and a task not handled yet is
   as the snapshot saw it unless a CLI moved it; so what resumes counts toward
   its slot when the ledger is rebuilt.
4. `SlotsOK`: `NoLeakedSlot`, strengthened at the three points where the handler
   will return without a release.

The other invariants are each proved with one more conjunct on top of `EngineInv`:

5. `FollowingOK`: a task has its slot before it is dispatched and keeps it until
   then (`PlanOK`, `DispatchingOK`), nobody is routed before a restart has rebuilt the
   ledger (`TakenOK`), and a chain of events that is still current is that of a
   followed task (`ApplyOK`). `KeepsFollowing` says what a handler's step may do,
   once for all of them.
6. `PaneOK`: a pane is opened by a launch only, for the run it reserved
   (`OwnsKept`: nothing else changes whose pane it is), and what re-attaches or
   recovers has found its own pane first or is marked a stranger (`AttachOwns`):
   `Owns` is kept from the attach over its subscription to the write (`Bound`).

7. `UpOK`: a handler of recovery is at `apply` and will resume its task; while the
   engine is down or recovering nobody holds a slot; a holder holds the slot of its
   own pair.
8. `HeardOK` with `TodoOK`. An agent is `Unheard` when it is done, that was told or
   found by an attach (it is not in `missed`), its session is no stranger's, and no
   notification of it is unread. `HeardOK` says that then it is `Known`: its followed
   work is being ended, and the handlers on the way there carry the answer `Done`
   that the attach gave them. A launch opens a fresh pane (`DispatchStartsFresh`), a
   re-attached one carries the pane's state over the subscription into
   `FollowAttached`, recovery catches a task up until it is `publishing` or found it
   so (`RecoversToPublishing`), and works on rows that are as it read them, or that a
   person ended (`TodoOK`). An agent that finishes while no stream of its session is
   open enters `missed` and is not claimed to be heard: EngineGap is that case.

`EngineSlotsKeepTheirCaps` is the refinement. `SlotMoves` says that a step leaves the
slots alone, frees some, acquires one, rebuilds them on the way up or loses them on
the way down; `PromiseStep` maps these to `GiveBack`, `Take`, `Start` and `Stop`. That
a granted acquire has room (`TakeHasRoom`) is where the counters' agreement with the
holders is used: the code asks its counters, the promise counts the holders.

Two theorems are the part of a liveness property that needs no fairness.
`EngineNoReportIsLost` is that of `FinishedAgentsAreHeard`: `UnheardKept` says that
while the engine is up an agent becomes unheard only where its notification is read
or the session changes, and `EndingGoesOn` that the handler which read it does not
drop it. `EngineTriedOncePerPass` is the first conjunct of `PassesEnd`: what waits in a pass only
becomes less, and what fails in it is not among it.

Each of these invariants has a lemma per group of actions (`LedgerPlan` ... `LedgerWorld`,
`VersionsStep`, `RecoveryStep`, `SlotsStep`). `OwnStep` says that a step other
than a person's changes no row and no slot but those of the task in hand.

*The argument for the scheduler.* `LedgerInv` is `TypeOK` with the counters; it
rests on `SlotManagerProofs`, which counts sets of holders with
`FiniteSetTheorems`. `NoPriorityInversion` needs `PlanInv`: the tasks tried so
far are closed under `Before`, and the ledger is the initial one plus what was
picked.

*The argument for the message ledger.* `TypedInv` is `TypeOK` with `HandlerOK`: a
running handler has a conversation that has a row, and a conversation without a
row was never dispatched. On it rest

1. `RunsUnderItsWorkflow` with `WorkflowOK`: from the read of the row to the
   record of the dispatch the handler holds the conversation's workflow. The
   engine hands nothing off meanwhile, it does one thing at a time, and a command
   changes no workflow; a conversation that is handed off has no agent at work,
   because `MayHandOff` looks at the state in the same transaction.
2. `StampedWasTold` with `BatchOK`: between the read of the messages and their
   stamp, what is unsent is in the batch, or a retry brought it back in between,
   and then an earlier stamp says it had been told.
3. `LedgerIsALog` with `OrderOK`: what is sent is a prefix, stamps do not decrease
   along it and are not in the future, keys are distinct. So `unprocess_last_batch`,
   which looks at equal stamps only, takes back the end of the ledger.
   `StepMove` says that a step appends one message, stamps what is unsent, takes
   a batch back or leaves the ledger alone; `MovesMap` maps these four to
   `Accept`, `Give`, `TakeBack` and a stutter (a stamp on nothing is a stutter too).

`NotToldAgain` needs to know how much room there is before the next dispatch.
`BoundOK` says so per message: what is unsent, or may still come in, was told at
most as often as runs were done over, unless it is told and not stamped yet
(`InFlight`); so was everything, in a queued conversation with nothing unsent, whose
next dispatch tells the row's own body. A kill between the row and its message leaves
an `Orphan`, which will be told twice, once as the body and once when its source
sends it again: that kill paid for it. `OnceOK` is about the handler: while the row
is as it was read (`FreshOK`) the batch is what is unsent; once a command moved it
(`StaleOK`) the write after the launch will fail, and what is told meanwhile is paid
for by the retry that follows or followed.

`AcceptedIsNotStranded` follows from `TypedInv`: a message is appended only by
`AppendReopening`, which leaves the state `queued` if it was terminal.

*The argument for the claim.* `IInv` ties every step of a claim to whether its
instance is assigned (`StepsFit`), says that nobody claims what a person assigned
(`RoutingFits`) and when an assignee's task may be skipped (`SkippedFit`); the first
three theorems follow. `ClaimExclusive` adds `WinnersAreOldest`: the
events of a winner that did not read back early are all of earlier seconds, and each
other assignee has a later one. `Insertion` and `WriteKeepsOldest` say that a new
event never comes in before a sealed one, so a tenure once the oldest stays so; a
read-back after its second sees every event of its own and of whoever is older, so
the rule names the oldest although newer events are missing. Two winners would each
be older than the other. Nothing is assumed of the delay: who read back within the
second of its write is in `early` and excepted. `ClaimConvergesLate` is the corollary
under `LongDelay`, when nobody is: it names the condition under which `claim.rs:14`
is right.

*The argument for the signals.* `TypedInv` is `TypeOK` with what the handlers rely
on: a row in hand is the row of today if its version still is (`HandIsRead`), the
file in hand is the first of the spool, whole and logged (`FileInHand`), no hook
writes to a file that has its line (`WrittenOnce`), an agent that is there has a run and a prompt, a person is asked about something. Three lemmas say
what a step does, each once for all actions: `RowStep` (the row moves on with its
version; what leads to Verifying, to Publishing and to Done), `QueueStep` (a file is
removed only when it is the first of the spool and is logged, or was read before its
line was in it), `FactStep` (what is recorded changes by the Stop in hand only). The theorems
read off these. `RefusedIsNotAskedAgain` needs `AnsweredIsBehind`: the Stop of what
is saved or refused is logged and not in hand, so a second delivery is a duplicate.
`DoneMeansPublished` needs that whoever publishes has in memory what is recorded,
which a restart establishes from the event log.

*The argument for supervision.* `Typed` is what the proofs need of `TypeOK`. Then

1. `DeadIsAttended` is inductive with it: per plugin, the items under way (a death
   not noticed, an event in the channel, a teardown, a timer, a launch) and whether
   it is abandoned add up to 0 or 1, and every step takes one item and adds the
   next. `OccAppend` and `OccTail` count in the channel.
2. `RoutesFollowInstances` follows from the sum: when `up` is taken it is the only
   item, so the plugin's Closed was taken before, and its routes went with it.
3. `SlotsAreOfFollowed` needs `SlotsHeld`, what else holds slots in a pass: the tasks
   planned and not reached yet and the one in hand, all of them queued. The plan
   names places in the queue, so a task that gives its slot back is not in it twice.
4. `NoSlotIdlesForTheDead` needs `PassOK`: the plan fills every slot or holds every
   task that is ready (`PlanFillsSlots`: the places before the first one left out are
   all planned), and in a pass in which nothing is disturbed no planned task is
   parked and none gives its slot back.
5. `StopKeepsWork` needs `StopOK`: a teardown is of a plugin that died before the
   stop and, by 1, is not live, so the signal cannot kill it again; what fails in a
   pass was queued, or has a streak of 0 and is retried.

6. `LedgerTyped` is what the restart ledger needs: attempts and launches age within
   their bounds, and attempts are booked in order, so those that left the window are
   a prefix. `InWindowIs` counts the rest; with it `RestartsAreBudgeted` and the rest
   of `TypeOK` follow.
7. `SlotsKeepTheirCap` is the refinement: `SlotMoves` names the steps that change the
   holders, and a pass takes at most the free slots because the plan names different
   places of the queue (`PlanIsNew`, `PlanFits`). It is no property of a run; with the
   constants of Supervision and one or two slots TLC finds it to hold.

*Only model-checked:* liveness (`PassesEnd`, `SettledSlotsComeFree`,
`FinishedAgentsAreHeard`, `DoneMeansAnswered`, `SpooledCompletionIsHeard`,
`SilenceIsEscalated`, `WaitingEnds`, `EntryIsServed`): out of the prover's reach.
Every invariant and every action property of a passing run is a theorem, and none of
them assumes away what the violated runs show: lost posts, half-written files, the gap
before a subscription, reused ids and early reads are in the specifications the
theorems are about.

## Not modelled

Worktrees and their sweep (state is git's own on disk), the pull request an agent
opens itself, fetching and normalising in the task sources, the series rule of
`on_task_submit`, orca (herdr stands for an agent IDE), the receiver's HTTP and the
control endpoints, one-shot mode. Left out for good: parsing and validation of
configuration, prompts and templates, logging, secrets, the plugin store, `setup`
and `doctor`, the macOS app (no state the core's correctness depends on), the
language model's answers (any answer is possible; a task it cannot place parks,
which is one of a dispatch's ends), the terminal multiplexers' own state beyond
panes. The run lock is assumed: one engine per state directory.

The map covers the part of the source that decides something about shared state.
Most of the repository's lines are configuration, setup and doctor, text for people
and agents, API clients and their fixtures: they have no interleavings to explore,
and their unit tests reach what can be wrong with them.

## Plan

Done: TaskState, SlotManager, Scheduler, Engine, MessageLedger, HookSignals,
Supervision, Claim, the refinements of MessageDelivery and SlotLedger, and the proofs
above. What
would come next, in this order:

1. The sweep of worktrees (`run/sweep.rs`, `cleanup_worktree`): what may be removed
   while a retry or a follow-up brings the task back.
2. Series: two runs of a series that overlap after a retry.
3. Proofs: HookSignals as the implementation of a gate that an artifact passes once,
   by a person's verdict, and Claim as that of a lock on an issue; the part of
   `SpooledCompletionIsHeard` and `DoneMeansAnswered` that needs no fairness.
