---------------------------- MODULE Supervision ----------------------------
(***************************************************************************)
(* Plugin processes that die, and the tasks that need them: the host's     *)
(* liveness flag (adapters/plugin_host.rs), the supervisor                 *)
(* (run/supervise.rs), the dispatch pass that parks, refuses or fails what *)
(* needs a dead plugin (run/dispatch.rs), and the graceful stop that kills *)
(* plugins and engine at the same moment (run/mod.rs).                     *)
(*                                                                         *)
(* A death is noticed by a watcher, which sends Closed; the engine takes   *)
(* one event at a time and runs a dispatch pass after each.  Timers and    *)
(* relaunches run beside the loop and report back by an event.  One slot   *)
(* tier stands for the three of SlotManager, "dispatched" for every state  *)
(* in which a task is followed.  Time is counted in ticks of the restart   *)
(* window; what the engine, a timer and a launch that answers take is less *)
(* than one.                                                               *)
(***************************************************************************)
EXTENDS Naturals, Sequences, FiniteSets

CONSTANTS
    Agents, Sources,  \* the plugins of [plugins], by kind
    Queue,            \* the tasks in the order plan_dispatch tries them
    AgentOf,          \* the agent of a task's workflow
    SourceOf,         \* the source it came from
    Slots,            \* max_concurrent_tasks
    RetryLimit,       \* DISPATCH_RETRY_LIMIT
    RestartDisabled,  \* plugins with restart = false
    MaxAttempts,      \* RestartPolicy::max_attempts
    Window,           \* RestartPolicy::window
    LaunchTime,       \* how long a launch that fails takes
    MaxDeaths         \* bound: deaths on its own, per plugin

Plugins == Agents \cup Sources
Tasks == {Queue[i] : i \in 1..Len(Queue)}

ASSUME QueueAssumption ==
    /\ Queue \in Seq(Tasks)
    /\ \A i, j \in 1..Len(Queue) : Queue[i] = Queue[j] => i = j
ASSUME PluginsAssumption ==
    /\ Agents \cap Sources = {} /\ RestartDisabled \subseteq Plugins
    /\ AgentOf \in [Tasks -> Agents] /\ SourceOf \in [Tasks -> Sources]
ASSUME NumbersAssumption ==
    /\ Slots \in Nat /\ RetryLimit \in Nat \ {0} /\ MaxAttempts \in Nat
    /\ Window \in Nat /\ LaunchTime \in Nat /\ MaxDeaths \in [Plugins -> Nat]

VARIABLES
    proc,      \* the installed instance: live, dying (not noticed), dead
    events,    \* the engine's channel: [kind, plugin]
    timers,    \* backoffs being slept, per plugin
    launches,  \* the ages of the relaunches under way, per plugin
    attempts,  \* SupervisionLedger::attempts, as ages
    abandoned, \* SupervisionLedger::abandoned
    state,     \* tasks.state
    streak,    \* auto_retry_streak, a projection of the events
    route,     \* Engine::sessions: none, of the instance in place, of an old one
    holders,   \* SlotManager
    pc,        \* what the engine is doing
    hand,      \* the task being dispatched, or the plugin being torn down
    plan,      \* places in Queue this pass has planned and not reached yet
    todo,      \* tasks of the dead agent not failed yet
    disturbed, \* something failed or changed in this pass
    stop,      \* the stop signal: none, coming, ready
    killed,    \* plugins that died after the stop was asked
    deaths     \* deaths on its own so far, per plugin

ledgerVars == <<attempts, abandoned>>
relaunchVars == <<timers, launches>>
taskVars == <<state, streak, route, holders>>
passVars == <<plan, disturbed>>
stopVars == <<stop, killed>>
vars == <<proc, events, timers, launches, attempts, abandoned, state, streak,
          route, holders, pc, hand, plan, todo, disturbed, stop, killed,
          deaths>>

Event(kind, p) == [kind |-> kind, plugin |-> p]
Kinds == {"closed", "due", "up", "failed"}
Nobody == "nobody"

Init ==
    /\ proc = [p \in Plugins |-> "live"]
    /\ events = <<>>
    /\ timers = [p \in Plugins |-> 0]
    /\ launches = [p \in Plugins |-> <<>>]
    /\ attempts = [p \in Plugins |-> <<>>] /\ abandoned = {}
    /\ state = [t \in Tasks |-> "queued"]
    /\ streak = [t \in Tasks |-> 0]
    /\ route = [t \in Tasks |-> "none"]
    /\ holders = {}
    /\ pc = "planning" /\ hand = Nobody /\ plan = {} /\ todo = {}
    /\ disturbed = FALSE
    /\ stop = "none" /\ killed = {}
    /\ deaths = [p \in Plugins |-> 0]

-----------------------------------------------------------------------------
(* The processes. *)

InPass == pc \in {"pass", "claim", "launch", "subscribe"}

Disturbs == disturbed' = InPass

\* EOF on stdout, or a write that fails: closed is set and liveness is Crashed
Dies(p) ==
    /\ proc[p] = "live" /\ pc # "stopped"
    /\ proc' = [proc EXCEPT ![p] = "dying"]
    /\ \/ /\ stop = "none" /\ deaths[p] < MaxDeaths[p]
          /\ deaths' = [deaths EXCEPT ![p] = @ + 1] /\ UNCHANGED killed
       \/ /\ stop # "none"
          /\ killed' = killed \cup {p} /\ UNCHANGED deaths
    /\ Disturbs
    /\ UNCHANGED <<events, relaunchVars, ledgerVars, taskVars, pc, hand, plan,
                   todo, stop>>

\* wire_liveness: the watcher of the instance reports its crash, once
Notice(p) ==
    /\ proc[p] = "dying" /\ pc # "stopped"
    /\ proc' = [proc EXCEPT ![p] = "dead"]
    /\ events' = Append(events, Event("closed", p))
    /\ UNCHANGED <<relaunchVars, ledgerVars, taskVars, pc, hand, passVars,
                   todo, stopVars, deaths>>

\* the backoff was slept
TimerFires(p) ==
    /\ timers[p] > 0 /\ pc # "stopped"
    /\ timers' = [timers EXCEPT ![p] = @ - 1]
    /\ events' = Append(events, Event("due", p))
    /\ UNCHANGED <<proc, launches, ledgerVars, taskVars, pc, hand, passVars,
                   todo, stopVars, deaths>>

\* Plugin::launch ended: initialize was answered, or failed or timed out
LaunchEnds(p) ==
    /\ launches[p] # <<>> /\ pc # "stopped"
    /\ launches' = [launches EXCEPT ![p] = Tail(@)]
    /\ \/ events' = Append(events, Event("up", p))
       \/ /\ Head(launches[p]) = LaunchTime
          /\ events' = Append(events, Event("failed", p))
    /\ UNCHANGED <<proc, timers, ledgerVars, taskVars, pc, hand, passVars,
                   todo, stopVars, deaths>>

-----------------------------------------------------------------------------
(* The supervisor. *)

Handled == pc' = "planning" /\ hand' = Nobody

\* deviation: the operator is told, dispatch is not
Escalate_TellsOnly(p) == UNCHANGED abandoned

\* escalate_dead_plugin: dispatch is to know that the plugin stays down
Escalate(p) == abandoned' = abandoned \cup {p}

\* book_restart drops the attempts that left the window: the first ones, for
\* attempts are pushed at the end and age together
InWindow(p) ==
    LET left == {i \in 1..Len(attempts[p]) : attempts[p][i] >= Window}
    IN  SubSeq(attempts[p], Cardinality(left) + 1, Len(attempts[p]))

ScheduleRestart(p) ==
    IF p \in RestartDisabled
    THEN Escalate(p) /\ UNCHANGED <<attempts, timers>>
    ELSE IF Len(InWindow(p)) >= MaxAttempts
    THEN /\ Escalate(p)
         /\ attempts' = [attempts EXCEPT ![p] = InWindow(p)]
         /\ UNCHANGED timers
    ELSE /\ attempts' = [attempts EXCEPT ![p] = Append(InWindow(p), 0)]
         /\ timers' = [timers EXCEPT ![p] = @ + 1]
         /\ UNCHANGED abandoned

Taking(kind) ==
    /\ pc = "idle" /\ stop # "ready" /\ events # <<>>
    /\ Head(events).kind = kind
    /\ events' = Tail(events)

\* the tasks whose session routes lead to p
RoutedTo(p) == {t \in Tasks : route[t] # "none" /\ AgentOf[t] = p}

\* deviation: the routes of the dead instance are kept
RoutesWithout_Kept(p) == route

\* fail_sessions_of drops the routes before anything is awaited
RoutesWithout(p) ==
    [t \in Tasks |-> IF t \in RoutedTo(p) THEN "none" ELSE route[t]]

\* deviation: a death is a crash, stop or no stop
WaitedForStop_NoGrace == TRUE

\* a death is a crash only if no stop arrives within a tick
WaitedForStop == stop = "none"

\* on_plugin_closed
TakeClosed ==
    /\ Taking("closed") /\ WaitedForStop
    /\ pc' = "teardown" /\ hand' = Head(events).plugin
    /\ todo' = RoutedTo(Head(events).plugin)
    /\ route' = RoutesWithout(Head(events).plugin)
    /\ UNCHANGED <<proc, relaunchVars, ledgerVars, state, streak, holders,
                   passVars, stopVars, deaths>>

\* fail_sessions_of, one task: the write-back is awaited before the next
FailNext ==
    /\ pc = "teardown"
    /\ \E t \in todo :
         /\ todo' = todo \ {t}
         /\ IF state[t] \in {"done", "failed", "skipped"}
            THEN UNCHANGED <<state, holders>>
            ELSE /\ state' = [state EXCEPT ![t] = "failed"]
                 /\ holders' = holders \ {t}
    /\ UNCHANGED <<proc, events, relaunchVars, ledgerVars, streak, route, pc,
                   hand, passVars, stopVars, deaths>>

\* teardown first, relaunch second
TornDown ==
    /\ pc = "teardown" /\ todo = {}
    /\ ScheduleRestart(hand) /\ Handled
    /\ UNCHANGED <<proc, events, launches, taskVars, passVars, todo, stopVars,
                   deaths>>

\* on_restart_due: the launch runs off the loop
TakeDue ==
    /\ Taking("due")
    /\ LET p == Head(events).plugin
       IN  launches' = [launches EXCEPT ![p] = Append(@, 0)]
    /\ Handled
    /\ UNCHANGED <<proc, timers, ledgerVars, taskVars, passVars, todo,
                   stopVars, deaths>>

\* on_restarted and install_restarted: sessions of the outgoing instance mean
\* nothing to the new one
TakeUp ==
    /\ Taking("up")
    /\ LET p == Head(events).plugin
       IN  /\ proc' = [proc EXCEPT ![p] = "live"]
           /\ abandoned' = abandoned \ {p}
           /\ route' = [t \in Tasks |-> IF t \in RoutedTo(p) THEN "old"
                                        ELSE route[t]]
    /\ Handled
    /\ UNCHANGED <<relaunchVars, attempts, state, streak, holders, passVars,
                   todo, stopVars, deaths>>

\* a failed launch is a spent attempt like any other
TakeFailed ==
    /\ Taking("failed")
    /\ ScheduleRestart(Head(events).plugin) /\ Handled
    /\ UNCHANGED <<proc, launches, taskVars, passVars, todo, stopVars, deaths>>

-----------------------------------------------------------------------------
(* A dispatch pass. *)

Live(p) == proc[p] = "live"

\* deviation: a plugin that was given up is waited for too
Parked_ForEver(t) == ~Live(AgentOf[t]) /\ streak[t] = 0

\* agent_gate: a task that has attempted nothing waits for the relaunch
Parked(t) ==
    /\ ~Live(AgentOf[t]) /\ AgentOf[t] \notin abandoned
    /\ streak[t] = 0

Refused(t) == ~Live(AgentOf[t]) /\ AgentOf[t] \in abandoned

\* deviation: the gate is only asked once the slot is taken
Ready_Ungated == {i \in 1..Len(Queue) : state[Queue[i]] = "queued"}

\* dispatch_ready's candidates
Ready == {i \in 1..Len(Queue) : state[Queue[i]] = "queued" /\ ~Parked(Queue[i])}

\* plan_dispatch with one tier: the first ones, as many as there are slots
Plan == {i \in Ready :
           Cardinality({j \in Ready : j < i}) + Cardinality(holders) < Slots}

\* after an event, or on a tick when there is none
Tick ==
    /\ pc = "idle" /\ events = <<>> /\ stop # "ready"
    /\ pc' = "planning"
    /\ UNCHANGED <<proc, events, relaunchVars, ledgerVars, taskVars, hand,
                   passVars, todo, stopVars, deaths>>

PassBegins ==
    /\ pc = "planning"
    /\ plan' = Plan
    /\ holders' = holders \cup {Queue[i] : i \in Plan}
    /\ pc' = "pass"
    /\ UNCHANGED <<proc, events, relaunchVars, ledgerVars, state, streak,
                   route, hand, todo, disturbed, stopVars, deaths>>

PassEnds ==
    /\ pc = "pass" /\ plan = {}
    /\ pc' = "idle" /\ disturbed' = FALSE
    /\ UNCHANGED <<proc, events, relaunchVars, ledgerVars, taskVars, hand,
                   plan, todo, stopVars, deaths>>

\* deviation: the limit is checked after the retry
MayRetry_OneMore(t) == streak[t] <= RetryLimit

MayRetry(t) == streak[t] < RetryLimit

\* fail_dispatch: a bounded number of automatic retries
FailDispatch(t) ==
    /\ holders' = holders \ {t}
    /\ IF MayRetry(t)
       THEN /\ streak' = [streak EXCEPT ![t] = @ + 1]
            /\ state' = [state EXCEPT ![t] = "queued"]
       ELSE state' = [state EXCEPT ![t] = "failed"] /\ UNCHANGED streak

PassFrame == UNCHANGED <<proc, events, relaunchVars, ledgerVars, todo,
                         stopVars, deaths>>

\* deviation: the slot of a parked task is not given back
HoldersParking_Kept(t) == holders

\* the AgentDown arm gives the slot back
HoldersParking(t) == holders \ {t}

\* dispatch_one up to the claim; the plugin may have died since the plan
DispatchNext ==
    /\ pc = "pass"
    /\ \E i \in plan :
         /\ \A j \in plan : i <= j
         /\ plan' = plan \ {i}
         /\ LET t == Queue[i]
            IN  \/ /\ Parked(t)
                   /\ holders' = HoldersParking(t)
                   /\ UNCHANGED <<state, streak, pc, hand, disturbed>>
                \/ /\ Refused(t) /\ FailDispatch(t)
                   /\ disturbed' = TRUE
                   /\ UNCHANGED <<pc, hand>>
                \/ /\ ~Parked(t) /\ ~Refused(t)
                   /\ pc' = "claim" /\ hand' = t
                   /\ UNCHANGED <<state, streak, holders, disturbed>>
    /\ UNCHANGED route /\ PassFrame

BackToPass == pc' = "pass" /\ hand' = Nobody

\* claim_task: won, held by another or forbidden, or no answer
Claim ==
    /\ pc = "claim"
    /\ \/ /\ Live(SourceOf[hand])
          /\ pc' = "launch"
          /\ UNCHANGED <<state, holders, hand, disturbed>>
       \/ /\ Live(SourceOf[hand])
          /\ \E s \in {"skipped", "failed"} :
               state' = [state EXCEPT ![hand] = s]
          /\ holders' = holders \ {hand} /\ disturbed' = TRUE
          /\ BackToPass
       \/ /\ holders' = holders \ {hand}
          /\ disturbed' = (disturbed \/ Live(SourceOf[hand]))
          /\ BackToPass
          /\ UNCHANGED state
    /\ UNCHANGED <<streak, route, plan>> /\ PassFrame

\* task/dispatch (or session/attach) and record_dispatch_and_subscribe up to
\* the subscription
Launch ==
    /\ pc = "launch"
    /\ \/ /\ Live(AgentOf[hand])
          /\ state' = [state EXCEPT ![hand] = "dispatched"]
          /\ streak' = [streak EXCEPT ![hand] = 0]
          /\ route' = [route EXCEPT ![hand] = "current"]
          /\ pc' = "subscribe"
          /\ UNCHANGED <<holders, hand, disturbed>>
       \/ /\ FailDispatch(hand) /\ BackToPass
          /\ disturbed' = TRUE
          /\ UNCHANGED route
    /\ UNCHANGED plan /\ PassFrame

Subscribe ==
    /\ pc = "subscribe"
    /\ \/ /\ Live(AgentOf[hand])
          /\ UNCHANGED <<taskVars, disturbed>>
       \/ /\ route' = [route EXCEPT ![hand] = "none"]
          /\ FailDispatch(hand)
          /\ disturbed' = TRUE
    /\ BackToPass
    /\ UNCHANGED plan /\ PassFrame

-----------------------------------------------------------------------------
(* Agents that finish, people, the stop, time. *)

\* a notification of the agent ends the task
Finish(t) ==
    /\ pc = "idle" /\ stop # "ready"
    /\ route[t] = "current" /\ Live(AgentOf[t])
    /\ state' = [state EXCEPT ![t] = "done"]
    /\ holders' = holders \ {t}
    /\ route' = [route EXCEPT ![t] = "none"]
    /\ Handled
    /\ UNCHANGED <<proc, events, relaunchVars, ledgerVars, streak, passVars,
                   todo, stopVars, deaths>>

\* task retry
Retry(t) ==
    /\ state[t] = "failed" /\ pc # "stopped"
    /\ state' = [state EXCEPT ![t] = "queued"]
    /\ streak' = [streak EXCEPT ![t] = 0]
    /\ Disturbs
    /\ UNCHANGED <<proc, events, relaunchVars, ledgerVars, route, holders, pc,
                   hand, plan, todo, stopVars, deaths>>

\* Ctrl-C or a closed terminal: the group is signalled, plugins and engine
GroupStop ==
    /\ stop = "none"
    /\ stop' = "coming"
    /\ UNCHANGED <<proc, events, relaunchVars, ledgerVars, taskVars, pc, hand,
                   passVars, todo, killed, deaths>>

\* the engine's handler wakes
StopArrives ==
    /\ stop = "coming"
    /\ stop' = "ready"
    /\ UNCHANGED <<proc, events, relaunchVars, ledgerVars, taskVars, pc, hand,
                   passVars, todo, killed, deaths>>

\* the loop ends; a Closed that was taken is only counted
EndOfRun ==
    /\ pc = "idle"
    /\ \/ stop = "ready"
       \/ stop = "coming" /\ events # <<>> /\ Head(events).kind = "closed"
    /\ pc' = "stopped" /\ stop' = "ready"
    /\ UNCHANGED <<proc, events, relaunchVars, ledgerVars, taskVars, hand,
                   passVars, todo, killed, deaths>>

\* the process is gone, its timers and launches with it
Stopped == pc = "stopped" /\ UNCHANGED vars

Older(ages) ==
    [i \in 1..Len(ages) |-> IF ages[i] < Window THEN ages[i] + 1 ELSE Window]

\* time passes when nothing is due: everything but a launch takes less than a
\* tick, a stop included
Elapse ==
    /\ pc = "idle" /\ events = <<>> /\ stop = "none"
    /\ \A p \in Plugins :
         /\ proc[p] # "dying" /\ timers[p] = 0
         /\ \A i \in 1..Len(launches[p]) : launches[p][i] < LaunchTime
    /\ attempts' = [p \in Plugins |-> Older(attempts[p])]
    /\ launches' = [p \in Plugins |->
                      [i \in 1..Len(launches[p]) |-> launches[p][i] + 1]]
    /\ UNCHANGED <<proc, events, timers, abandoned, taskVars, pc, hand,
                   passVars, todo, stopVars, deaths>>

-----------------------------------------------------------------------------
Supervising == TakeClosed \/ FailNext \/ TornDown \/ TakeDue \/ TakeUp
                 \/ TakeFailed
Dispatching == PassBegins \/ DispatchNext \/ Claim \/ Launch \/ Subscribe
                 \/ PassEnds
Outside == \E p \in Plugins : Notice(p) \/ TimerFires(p)
People == GroupStop \/ \E t \in Tasks : Retry(t)

Next ==
    \/ Supervising \/ Dispatching \/ Tick \/ EndOfRun \/ Stopped
    \/ Outside \/ People \/ StopArrives \/ Elapse
    \/ \E p \in Plugins : Dies(p) \/ LaunchEnds(p)
    \/ \E t \in Tasks : Finish(t)

Spec == Init /\ [][Next]_vars

(***************************************************************************)
(* The loop takes the next event, a request is answered or times out, a    *)
(* tick comes when there is no event; watchers, timers and launches end;   *)
(* the clock goes on.  Nothing is asked of plugins, agents and people: a   *)
(* plugin need not come back, a task need not end.                         *)
(***************************************************************************)
Fairness ==
    /\ WF_vars(Supervising) /\ WF_vars(Dispatching)
    /\ WF_vars(Tick) /\ WF_vars(EndOfRun)
    /\ \A p \in Plugins : /\ WF_vars(Notice(p)) /\ WF_vars(TimerFires(p))
                          /\ WF_vars(LaunchEnds(p))
    /\ WF_vars(Elapse)

FairSpec == Spec /\ Fairness

-----------------------------------------------------------------------------
(* Properties. *)

Occurs(kind, p) ==
    Cardinality({i \in 1..Len(events) : events[i] = Event(kind, p)})

\* Every variable has its type.
TypeOK ==
    /\ proc \in [Plugins -> {"live", "dying", "dead"}]
    /\ events \in Seq([kind : Kinds, plugin : Plugins])
    /\ timers \in [Plugins -> Nat]
    /\ launches \in [Plugins -> Seq(0..LaunchTime)]
    /\ attempts \in [Plugins -> Seq(0..Window)]
    /\ abandoned \subseteq Plugins
    /\ state \in [Tasks -> {"queued", "dispatched", "done", "failed",
                            "skipped"}]
    /\ streak \in [Tasks -> 0..RetryLimit]
    /\ route \in [Tasks -> {"none", "current", "old"}]
    /\ holders \subseteq Tasks
    /\ pc \in {"idle", "planning", "pass", "claim", "launch", "subscribe",
               "teardown", "stopped"}
    /\ hand \in Tasks \cup Plugins \cup {Nobody}
    /\ plan \subseteq 1..Len(Queue) /\ todo \subseteq Tasks
    /\ disturbed \in BOOLEAN
    /\ stop \in {"none", "coming", "ready"} /\ killed \subseteq Plugins
    /\ deaths \in [Plugins -> Nat]

\* what is under way about a dead plugin
UnderWay(p) ==
    (IF proc[p] = "dying" THEN 1 ELSE 0)
    + Occurs("closed", p) + Occurs("due", p) + Occurs("up", p)
    + Occurs("failed", p)
    + (IF pc = "teardown" /\ hand = p THEN 1 ELSE 0)
    + timers[p] + Len(launches[p])

\* #495, #499: a dead plugin is being brought back exactly once, or it is
\* abandoned and dispatch knows; a live one is not replaced.
DeadIsAttended ==
    pc # "stopped" =>
      \A p \in Plugins :
        UnderWay(p) + (IF p \in abandoned THEN 1 ELSE 0)
          = (IF Live(p) THEN 0 ELSE 1)

\* The order in on_plugin_closed: a session route leads to the instance in
\* place, and to a dead one only until its Closed is taken: no new instance can
\* hand out a session id that still means a task of the old one.
RoutesFollowInstances ==
    \A t \in Tasks :
      /\ route[t] # "old"
      /\ route[t] = "current" /\ pc # "stopped" =>
           \/ proc[AgentOf[t]] \in {"live", "dying"}
           \/ Occurs("closed", AgentOf[t]) > 0

\* #499: between events the slots are held by the followed tasks and by nobody
\* else, whatever died in the pass before.
SlotsAreOfFollowed ==
    pc = "idle" => holders = {t \in Tasks : state[t] = "dispatched"}

PassLeavesIdleSlot ==
    /\ pc = "pass" /\ pc' = "idle"
    /\ Cardinality(holders) < Slots
    /\ \E t \in Tasks : /\ state[t] = "queued" /\ streak[t] = 0
                        /\ Live(AgentOf[t]) /\ Live(SourceOf[t])

\* #499: a pass in which nothing went wrong leaves no slot idle that a task of
\* a live agent could use: a task parked for a dead agent does not starve it.
NoSlotIdlesForTheDead ==
    [][PassLeavesIdleSlot =>
         disturbed \/ \E p \in Sources : ~Live(p)]_vars

\* run/dispatch.rs: "a plugin between instances must not take a slot" - also
\* when the plugin is the task's source.  It does not hold: the source is asked
\* once the slot is taken.
DeadSourceTakesNoSlot == [][PassLeavesIdleSlot => disturbed]_vars

\* run/mod.rs: a graceful stop does not fail the tasks of an agent that the
\* signal killed.
StopKeepsWork ==
    [][\A t \in Tasks :
         /\ state[t] = "dispatched" /\ state'[t] = "failed"
         => AgentOf[t] \notin killed]_vars

\* The slots as their users see them: one tier, and the stop gives them all back.
Ledger == INSTANCE SlotLedger WITH
    Tiers   <- {"slots"},
    Cap     <- [tier \in {"slots"} |-> Slots],
    TiersOf <- [t \in Tasks |-> {"slots"}],
    up      <- pc # "stopped",
    holders <- IF pc = "stopped" THEN {} ELSE holders

\* plan_dispatch and the pass behind it keep the promise of the slots: whichever
\* plugin dies between the plan and the dispatch, a slot is taken only below the
\* cap, by who holds one, and a refused or failed task gives back its own only.
SlotsKeepTheirCap == Ledger!Spec

\* the attempts are all within the window when the last of them has failed
BudgetBites == MaxAttempts * LaunchTime < Window

\* #499: where the restart budget bites, the task that goes first does not wait
\* for ever for a dead agent: the agent comes back, or is given up and the task
\* fails, or every slot is taken, or the run ends.
WaitingEnds ==
    LET t == Queue[1]
    IN  BudgetBites =>
          (state[t] = "queued" /\ ~Live(AgentOf[t])
             ~> \/ state[t] # "queued" \/ Live(AgentOf[t])
                \/ Cardinality({u \in Tasks : state[u] = "dispatched"}) >= Slots
                \/ pc = "stopped")

\* run/supervise.rs: "A failed launch is a spent attempt like any other, so the
\* same budget applies and this terminates."  It does not hold where launches
\* take so long that the attempts before leave the window, as they may with the
\* default limits: the agent is never given up and its tasks wait for ever.
RestartsEnd ==
    \A p \in Plugins :
      ~Live(p) ~> Live(p) \/ p \in abandoned \/ pc = "stopped"
=============================================================================
