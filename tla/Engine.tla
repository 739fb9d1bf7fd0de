------------------------------- MODULE Engine -------------------------------
(***************************************************************************)
(* The engine of orchestrator-core (run/mod.rs, run/dispatch.rs,           *)
(* run/events.rs, run/finalize.rs, recovery/mod.rs): one loop that         *)
(* dispatches queued tasks to agent panes, follows what the agents report, *)
(* publishes, and recovers after a restart.                                *)
(*                                                                         *)
(* The engine is one thread of control, but it is not alone.  While it     *)
(* works on a task, at every await and between any two statements on the   *)
(* state DB,                                                               *)
(*   - totsuka task cancel / retry may write the same row from another     *)
(*     process (task_control.rs),                                          *)
(*   - the agents move on and report what they do, and                     *)
(*   - the engine itself may be killed: what it held in memory is lost,    *)
(*     rows and panes survive.                                             *)
(* So an action is the code between two such points, pc names the point,   *)
(* and act is what the running handler carries across it.                  *)
(*                                                                         *)
(* State DB: row, spent, sess.  Agent side: pane.  Engine memory: the      *)
(* rest.                                                                   *)
(***************************************************************************)
EXTENDS TaskState, SlotManager, Sequences

CONSTANTS
    PairOf,       \* the (repository, agent plugin) of a task
    RetryLimit,   \* DISPATCH_RETRY_LIMIT
    Streamed,     \* the states an agent plugin's stream notifies, but for an end
    ReusedIds,    \* the states another pane can be found in under a reused id
    MaxRuns,      \* bound: session rows of one task
    MaxNotes,     \* bound: unread state notifications
    MaxAsked,     \* bound: cancels, retries and follow-ups asked for
    MaxCrashes,   \* bound: kills of the engine
    NoTask        \* no handler is running

ASSUME PairAssumption == PairOf \in [Tasks -> Repos \X Agents]
ASSUME BoundsAssumption ==
    /\ RetryLimit \in Nat
    /\ MaxRuns \in Nat /\ MaxNotes \in Nat
    /\ MaxAsked \in Nat /\ MaxCrashes \in Nat
ASSUME NoTaskAssumption == NoTask \notin Tasks

(***************************************************************************)
(* What plugins differ in.  herdr and orca notify an end only (their       *)
(* agents' progress comes by hooks, see HookSignals); the protocol lets a  *)
(* plugin notify every state.  herdr's pane ids are positions, which come  *)
(* to name another pane; orca's terminal handles are never used again.     *)
(***************************************************************************)
ASSUME PluginAssumption ==
    /\ Streamed \subseteq {"Running", "WaitingInput", "Done"}
    /\ ReusedIds \subseteq {"Idle", "Running", "WaitingInput", "Done"}

Runs == 1..MaxRuns
AgentStates == {"Idle", "Running", "WaitingInput", "Done", "Failed"}

\* what a pane shows; "gone" is no pane at all
PaneStates == {"Idle", "Running", "WaitingInput", "Done", "gone"}

\* RECOVERABLE_STATES
RecoverableStates ==
    {"dispatched", "running", "waiting_input", "verifying", "escalated",
     "publishing"}

VARIABLES
    row,      \* tasks: state and state_version
    spent,    \* auto_retry_streak of a task, a projection of its events
    sess,     \* session rows of a task, oldest first: is the native id set?
    pane,     \* the live pane of a task and the run it belongs to
    inbox,    \* state notifications not read yet
    streams,  \* sessions (task, run) whose state is streamed
    strangers,\* sessions whose id named another pane when last attached to
    missed,   \* history: tasks whose agent finished while nothing was told
    slots,    \* the slot ledger
    routes,   \* sessions: the (task, run) whose notifications are followed
    untried,  \* ready tasks plan_dispatch has not tried yet
    plan,     \* tasks that got a slot in this pass and are not dispatched yet
    snapshot, \* recovery: the rows as read when recovery began
    todo,     \* recovery: tasks not re-attached yet
    resumed,  \* recovery: re-attached tasks the engine has yet to take over
    pc,       \* where the engine is
    act,      \* what the running handler carries
    asked,    \* how many cancels, retries and follow-ups came in
    crashes,  \* how often the engine was killed
    cliMoved  \* tasks a CLI wrote directly since the last sweep of the slots

dbVars     == <<row, spent, sess>>
streamVars == <<streams, strangers, missed>>
worldVars  == <<pane, inbox, streams, strangers, missed>>
planVars   == <<untried, plan>>
recVars    == <<snapshot, todo, resumed>>
boundVars  == <<asked, crashes, cliMoved>>
vars == <<row, spent, sess, pane, inbox, streams, strangers, missed, slots,
          routes, untried, plan,
          snapshot, todo, resumed, pc, act, asked, crashes, cliMoved>>

(***************************************************************************)
(* act: the task, the version the handler read or last wrote (TaskRef),    *)
(* the handler's caller, the events still to apply and what follows them.  *)
(***************************************************************************)
NoAct == [task |-> NoTask, ver |-> 0, from |-> "none",
          events |-> <<>>, next |-> "none"]

Latest(t) == Len(sess[t])
Moving(t, ver, from) == [task |-> t, ver |-> ver, from |-> from,
                         events |-> <<>>, next |-> "none"]

\* where the engine goes on when a handler returns to its caller
ReturnTo(from) == IF from = "event" THEN "ready" ELSE from

Return == pc' = ReturnTo(act.from) /\ act' = NoAct

RoutesOf(t) == {s \in routes : s[1] = t}

\* deviation: the slot is kept
Forget_KeepsSlot(t) == slots' = slots /\ routes' = routes \ RoutesOf(t)

\* forget_task: the slot and the session routes
Forget(t) == slots' = Release(slots, t) /\ routes' = routes \ RoutesOf(t)

(***************************************************************************)
(* The engine process ends: a kill, or an error the loop does not contain. *)
(* Its plugins end with it, and the streams with them.                     *)
(***************************************************************************)
LoseMemory ==
    /\ pc' = "down" /\ act' = NoAct
    /\ inbox' = <<>> /\ streams' = {} /\ strangers' = {} /\ missed' = missed
    /\ slots' = AllFree /\ routes' = {}
    /\ untried' = {} /\ plan' = <<>>
    /\ snapshot' = [t \in Tasks |-> [state |-> "queued", version |-> 0]]
    /\ todo' = {} /\ resumed' = {}

Init ==
    /\ row = [t \in Tasks |-> [state |-> "queued", version |-> 0]]
    /\ spent = [t \in Tasks |-> 0]
    /\ sess = [t \in Tasks |-> <<>>]
    /\ pane = [t \in Tasks |-> [run |-> 0, state |-> "gone"]]
    /\ inbox = <<>> /\ streams = {} /\ strangers = {} /\ missed = {}
    /\ slots = AllFree /\ routes = {}
    /\ untried = {} /\ plan = <<>>
    /\ snapshot = [t \in Tasks |-> [state |-> "queued", version |-> 0]]
    /\ todo = {} /\ resumed = {}
    /\ pc = "down" /\ act = NoAct
    /\ asked = 0 /\ crashes = 0 /\ cliMoved = {}

-----------------------------------------------------------------------------
(* Writing the row of the task in hand. *)

Judged(event) == Outcome(row[act.task], act.ver, event)

\* StateDb::apply_event answers Ok; streak is the auto_retry_streak after it
Write(event, streak) ==
    /\ Judged(event) = "ok"
    /\ row' = [row EXCEPT ![act.task] = Applied(@, event)]
    /\ spent' = [spent EXCEPT ![act.task] = streak]

(***************************************************************************)
(* isolate_task, in a release build: another writer moved the task, or the *)
(* transition is illegal at the version this run read.  The engine forgets *)
(* the task and goes on.  During recovery nothing contains the error: it   *)
(* ends the engine.                                                        *)
(***************************************************************************)
Isolate(event) ==
    /\ Judged(event) # "ok"
    /\ IF act.from \in {"recover", "takeover"}
       THEN LoseMemory
       ELSE /\ Forget(act.task) /\ Return
            /\ UNCHANGED <<inbox, streamVars, planVars, recVars>>
    /\ UNCHANGED <<dbVars, pane, boundVars>>

-----------------------------------------------------------------------------
(* dispatch_ready: plan, then dispatch one task after the other. *)

\* queued tasks that pass the gates (repository, tools, agent up) are ready
Gather ==
    /\ pc = "ready"
    /\ \E parked \in SUBSET Tasks :
         untried' = {t \in Tasks : row[t].state = "queued"} \ parked
    /\ pc' = "planning"
    /\ UNCHANGED <<dbVars, worldVars, slots, routes, plan, recVars, act,
                   boundVars>>

\* plan_dispatch; its order is the subject of Scheduler, here it is any order
PlanStep ==
    /\ pc = "planning"
    /\ \E t \in untried :
         LET r == PairOf[t][1]
             a == PairOf[t][2]
         IN  /\ untried' = untried \ {t}
             /\ slots' = Acquire(slots, t, r, a)
             /\ plan' = IF AcquireGranted(slots, t, r, a)
                        THEN Append(plan, t) ELSE plan
    /\ UNCHANGED <<dbVars, worldVars, routes, recVars, pc, act, boundVars>>

PlanEnd ==
    /\ pc = "planning" /\ untried = {}
    /\ pc' = "plan"
    /\ UNCHANGED <<dbVars, worldVars, slots, routes, planVars, recVars, act,
                   boundVars>>

PassEnd ==
    /\ pc = "plan" /\ plan = <<>>
    /\ pc' = "idle"
    /\ UNCHANGED <<dbVars, worldVars, slots, routes, planVars, recVars, act,
                   boundVars>>

(***************************************************************************)
(* dispatch_one reads the row afresh; its state is not looked at.  The     *)
(* task is parked again (agent down, workflow gone), refused, or goes on   *)
(* to the claim.                                                           *)
(***************************************************************************)
DispatchOne ==
    /\ pc = "plan" /\ plan # <<>>
    /\ plan' = Tail(plan)
    /\ LET t == Head(plan)
       IN  \/ slots' = Release(slots, t) /\ UNCHANGED <<pc, act>>
           \/ /\ pc' \in {"claim", "fail"}
              /\ act' = Moving(t, row[t].version, "plan")
              /\ UNCHANGED slots
    /\ UNCHANGED <<dbVars, worldVars, routes, untried, recVars, boundVars>>

\* task/claim: won, no answer yet, lost to another instance, or forbidden
ClaimWon ==
    /\ pc = "claim"
    /\ pc' = "attach"
    /\ UNCHANGED <<dbVars, worldVars, slots, routes, planVars, recVars, act,
                   boundVars>>

\* deviation: the task is tried again in the same pass
ClaimLater_SamePass ==
    /\ pc = "claim"
    /\ plan' = Append(plan, act.task)
    /\ slots' = Release(slots, act.task) /\ Return
    /\ UNCHANGED <<dbVars, worldVars, routes, untried, recVars, boundVars>>

ClaimLater ==
    /\ pc = "claim"
    /\ slots' = Release(slots, act.task) /\ Return
    /\ UNCHANGED <<dbVars, worldVars, routes, planVars, recVars, boundVars>>

ClaimRefused ==
    /\ pc = "claim"
    /\ \E event \in {"Skip", "Fail"} :
         \/ /\ Write(event, spent[act.task])
            /\ slots' = Release(slots, act.task) /\ Return
            /\ UNCHANGED <<sess, worldVars, routes, planVars, recVars,
                           boundVars>>
         \/ Isolate(event)

\* deviation: any pane of the task is taken for the session's
OwnPane_AnyPane(t) == Latest(t) > 0 /\ pane[t].state # "gone"

Session(t) == <<t, Latest(t)>>

\* the native id of the latest session is on record
Recorded(t) == Latest(t) > 0 /\ sess[t][Latest(t)]

\* the pane its run opened is there
OwnPane(t) ==
    /\ Recorded(t)
    /\ pane[t].state # "gone" /\ pane[t].run = Latest(t)

(***************************************************************************)
(* session/attach is answered with what the pane that goes by the recorded *)
(* id shows now; whose pane it is, nobody asks.                            *)
(***************************************************************************)
Attach(t, said) ==
    \/ /\ OwnPane(t) /\ said = pane[t].state
       /\ strangers' = strangers \ {Session(t)}
       /\ missed' = missed \ {t}
    \/ /\ Recorded(t) /\ said \in ReusedIds
       /\ strangers' = strangers \cup {Session(t)}
       /\ UNCHANGED missed

(***************************************************************************)
(* With nothing new to say and a session that still answers, the task is   *)
(* re-attached instead of dispatched (F-44): attach, subscribe again, then *)
(* write.  Otherwise, or if one of the two requests fails, the previous    *)
(* dispatch's pane, if there was one, has to go first (#481).              *)
(***************************************************************************)
Reattach ==
    /\ pc = "attach"
    /\ \E said \in PaneStates :
         /\ Attach(act.task, said)
         /\ act' = [act EXCEPT !.next = said]
    /\ pc' = "resubscribe"
    /\ UNCHANGED <<dbVars, pane, inbox, streams, slots, routes, planVars,
                   recVars, boundVars>>

Resubscribe ==
    /\ pc = "resubscribe"
    /\ \/ /\ streams' = streams \cup {Session(act.task)}
          /\ pc' = "reuse"
          /\ UNCHANGED act
       \/ /\ pc' = "release"
          /\ act' = [act EXCEPT !.next = "none"]
          /\ UNCHANGED streams
    /\ UNCHANGED <<dbVars, pane, inbox, strangers, missed, slots, routes,
                   planVars, recVars, boundVars>>

Reuse ==
    /\ pc = "reuse"
    /\ \/ /\ Write("Dispatch", 0)
          /\ routes' = routes \cup {Session(act.task)}
          /\ pc' = "attached"
          /\ UNCHANGED <<sess, worldVars, slots, planVars, recVars, act,
                         boundVars>>
       \/ Isolate("Dispatch")

DispatchFresh ==
    /\ pc = "attach"
    /\ pc' = IF Latest(act.task) > 0 THEN "release" ELSE "prepare"
    /\ UNCHANGED <<dbVars, worldVars, slots, routes, planVars, recVars, act,
                   boundVars>>

\* a stream is open on the task's pane, and not on another one by its id
Watched(t) == <<t, pane[t].run>> \in streams \ strangers

\* the plugin notifies a state of the pane; unread notifications are bounded
Noted(t, state) ==
    IF ~Watched(t) \/ Len(inbox) = MaxNotes THEN inbox
    ELSE Append(inbox, [task |-> t, run |-> pane[t].run, state |-> state])

Gone(t) == pane' = [pane EXCEPT ![t].state = "gone"]

\* the pane closes: its stream ends, with a word (herdr's deadman) or without
Closes(t) ==
    /\ Gone(t)
    /\ inbox' \in {inbox, Noted(t, "Failed")}
    /\ streams' = IF Watched(t) THEN streams \ {<<t, pane[t].run>>} ELSE streams
    /\ UNCHANGED <<strangers, missed>>

(***************************************************************************)
(* release_pane(Always): the pane of the latest session is closed, once it *)
(* is known to be the task's by its directory and label; or the call       *)
(* fails, or there is nothing to close, and the dispatch goes on; or the   *)
(* plugin finds a pane of the task it will not close, and refuses.         *)
(***************************************************************************)
ReleasePane ==
    /\ pc = "release"
    /\ LET t == act.task
       IN  \/ OwnPane(t) /\ Closes(t) /\ pc' = "prepare"
           \/ pc' = "prepare" /\ UNCHANGED worldVars
           \/ /\ pane[t].state # "gone"
              /\ pc' = "fail" /\ UNCHANGED worldVars
    /\ UNCHANGED <<dbVars, slots, routes, planVars, recVars, act, boundVars>>

\* acquire_worktree fails the dispatch, or wire_hooks reserves a session row
Prepare ==
    /\ pc = "prepare"
    /\ \/ pc' = "fail" /\ UNCHANGED sess
       \/ /\ Latest(act.task) < MaxRuns
          /\ sess' = [sess EXCEPT ![act.task] = Append(@, FALSE)]
          /\ pc' = "launch"
    /\ UNCHANGED <<row, spent, worldVars, slots, routes, planVars, recVars,
                   act, boundVars>>

Opens(t, run) ==
    /\ pane[t].state = "gone"
    /\ pane' = [pane EXCEPT ![t] = [run |-> run, state |-> "Idle"]]

(***************************************************************************)
(* task/dispatch: the plugin opens a pane, unless the task has one (agent  *)
(* names are unique).  An error takes the reserved row back; if it is only *)
(* the answer that is missing, the pane is there and belongs to no row.    *)
(***************************************************************************)
Launch ==
    /\ pc = "launch"
    /\ LET t == act.task
       IN  \/ Opens(t, Latest(t)) /\ pc' = "bind" /\ UNCHANGED sess
           \/ /\ Opens(t, 0) \/ UNCHANGED pane
              /\ sess' = [sess EXCEPT ![t] = SubSeq(@, 1, Len(@) - 1)]
              /\ pc' = "fail"
    /\ UNCHANGED <<row, spent, inbox, streamVars, slots, routes, planVars,
                   recVars, act, boundVars>>

\* set_session_native_id
Bind ==
    /\ pc = "bind"
    /\ sess' = [sess EXCEPT ![act.task][Latest(act.task)] = TRUE]
    /\ pc' = "record"
    /\ UNCHANGED <<row, spent, worldVars, slots, routes, planVars, recVars,
                   act, boundVars>>

Record ==
    /\ pc = "record"
    /\ \/ /\ Write("Dispatch", 0)
          /\ routes' = routes \cup {<<act.task, Latest(act.task)>>}
          /\ act' = [act EXCEPT !.ver = row'[act.task].version]
          /\ pc' = "subscribe"
          /\ UNCHANGED <<sess, worldVars, slots, planVars, recVars, boundVars>>
       \/ Isolate("Dispatch")

\* state/subscribe; its failure cancels the pane, best effort, and fails
Subscribe ==
    /\ pc = "subscribe"
    /\ \/ /\ streams' = streams \cup {Session(act.task)}
          /\ Return /\ UNCHANGED <<pane, routes>>
       \/ /\ pc' = "fail"
          /\ routes' = routes \ RoutesOf(act.task)
          /\ \/ Gone(act.task)
             \/ UNCHANGED pane
          /\ UNCHANGED <<streams, act>>
    /\ UNCHANGED <<dbVars, inbox, strangers, missed, slots, planVars, recVars,
                   boundVars>>

(***************************************************************************)
(* fail_dispatch: record the failure, then put the task back while its     *)
(* automatic retries last (#492).                                          *)
(***************************************************************************)
FailDispatch ==
    /\ pc = "fail"
    /\ \/ /\ Write("Fail", spent[act.task])
          /\ slots' = Release(slots, act.task)
          /\ act' = [act EXCEPT !.ver = row'[act.task].version]
          /\ pc' = "retry"
          /\ UNCHANGED <<sess, worldVars, routes, planVars, recVars, boundVars>>
       \/ Isolate("Fail")

\* deviation: the pass that failed the task takes it in again
AutoRetry_SamePass ==
    /\ pc = "retry"
    /\ IF spent[act.task] < RetryLimit
       THEN \/ /\ Write("Retry", spent[act.task] + 1)
               /\ plan' = Append(plan, act.task)
               /\ Return
               /\ UNCHANGED <<sess, worldVars, slots, routes, untried, recVars,
                              boundVars>>
            \/ Isolate("Retry")
       ELSE /\ Return
            /\ UNCHANGED <<dbVars, worldVars, slots, routes, planVars,
                           recVars, boundVars>>

AutoRetry ==
    /\ pc = "retry"
    /\ IF spent[act.task] < RetryLimit
       THEN \/ /\ Write("Retry", spent[act.task] + 1)
               /\ Return
               /\ UNCHANGED <<sess, worldVars, slots, routes, planVars,
                              recVars, boundVars>>
            \/ Isolate("Retry")
       ELSE /\ Return
            /\ UNCHANGED <<dbVars, worldVars, slots, routes, planVars,
                           recVars, boundVars>>

-----------------------------------------------------------------------------
(* What an agent reports: apply_agent_state and finalize_success. *)

\* the events that take a task from its state to what the agent said
EventsFor(state, said) ==
    CASE said = "Running" ->
           (CASE state = "dispatched"    -> <<"Start">>
              [] state = "waiting_input" -> <<"ResumeInput">>
              [] OTHER -> <<>>)
      [] said = "WaitingInput" ->
           (CASE state = "dispatched" -> <<"Start", "WaitInput">>
              [] state = "running"    -> <<"WaitInput">>
              [] OTHER -> <<>>)
      [] said = "Done" ->
           (CASE state = "dispatched"    -> <<"Start", "BeginPublish">>
              [] state = "running"       -> <<"BeginPublish">>
              [] state = "waiting_input" -> <<"ResumeInput", "BeginPublish">>
              [] OTHER -> <<>>)
      [] said = "Failed" -> <<"Fail">>
      [] OTHER -> <<>>

\* what the handler does once the events are applied
AfterEvents(state, said) ==
    CASE said = "Done"   -> "publish"
      [] said = "Failed" -> "settle"
      [] said = "Running" /\ state = "waiting_input" -> "resume"
      [] OTHER -> "stay"

\* deviation: only a task that has started reacts
Follows_Started(state) == state \in {"running", "waiting_input", "publishing"}

\* the states in which a task reacts to its agent
Follows(state) ==
    state \in {"dispatched", "running", "waiting_input", "publishing"}

\* read the row and set out to follow what the agent said
React(t, said, from) ==
    LET state  == row[t].state
        events == EventsFor(state, said)
        next   == AfterEvents(state, said)
    IN  IF ~Follows(state) \/ (events = <<>> /\ next # "publish")
        THEN pc' = ReturnTo(from) /\ act' = NoAct
        ELSE /\ pc' = IF events = <<>> THEN "publish" ELSE "apply"
             /\ act' = [Moving(t, row[t].version, from)
                          EXCEPT !.events = events, !.next = next]

\* a notification of a session without a route is nobody's
HandleNote ==
    /\ pc = "idle" /\ inbox # <<>>
    /\ inbox' = Tail(inbox)
    /\ LET note == Head(inbox)
       IN  IF <<note.task, note.run>> \in routes
           THEN React(note.task, note.state, "event")
           ELSE pc' = "ready" /\ act' = NoAct
    /\ UNCHANGED <<dbVars, pane, streamVars, slots, routes, planVars, recVars,
                   boundVars>>

\* the state a re-attached agent is in
FollowAttached ==
    /\ pc = "attached"
    /\ React(act.task, act.next, act.from)
    /\ UNCHANGED <<dbVars, worldVars, slots, routes, planVars, recVars,
                   boundVars>>

(***************************************************************************)
(* One apply_event of the chain; the last one runs straight into what      *)
(* follows: a resumed task takes a slot if it has none (its tiers may be   *)
(* full: the agent runs anyway), a failed one gives its slot and routes    *)
(* up, a finished one is published.                                        *)
(***************************************************************************)
ApplyEvent ==
    /\ pc = "apply"
    /\ \/ /\ Write(Head(act.events), spent[act.task])
          /\ LET t == act.task
                 more == Tail(act.events)
             IN  IF more # <<>> \/ act.next = "publish"
                 THEN /\ act' = [act EXCEPT !.ver = row'[t].version,
                                            !.events = more]
                      /\ pc' = IF more = <<>> THEN "publish" ELSE pc
                      /\ UNCHANGED <<slots, routes, resumed>>
                 ELSE /\ Return
                      /\ resumed' = IF act.next = "resumed"
                                    THEN resumed \cup {t} ELSE resumed
                      /\ CASE act.next = "settle" -> Forget(t)
                           [] act.next = "resume" ->
                                /\ slots' = Acquire(slots, t, PairOf[t][1],
                                                    PairOf[t][2])
                                /\ UNCHANGED routes
                           [] OTHER -> UNCHANGED <<slots, routes>>
          /\ UNCHANGED <<sess, worldVars, planVars, snapshot, todo, boundVars>>
       \/ Isolate(Head(act.events))

\* execute_output_policy succeeds, or the task is refused as a success
Publish ==
    /\ pc = "publish"
    /\ pc' \in {"complete", "unpublished"}
    /\ UNCHANGED <<dbVars, worldVars, slots, routes, planVars, recVars, act,
                   boundVars>>

\* the deliverable is out: Complete, and the worktree and pane may be swept
Complete ==
    /\ pc = "complete"
    /\ \/ /\ Write("Complete", spent[act.task])
          /\ Forget(act.task) /\ Return
          /\ \/ OwnPane(act.task) /\ Closes(act.task)
             \/ UNCHANGED worldVars
          /\ UNCHANGED <<sess, planVars, recVars, boundVars>>
       \/ Isolate("Complete")

\* fail_publish: the session and its routes stay
FailPublish ==
    /\ pc = "unpublished"
    /\ \/ /\ Write("Fail", spent[act.task])
          /\ slots' = Release(slots, act.task) /\ Return
          /\ UNCHANGED <<sess, worldVars, routes, planVars, recVars, boundVars>>
       \/ Isolate("Fail")

-----------------------------------------------------------------------------
(* The loop's heartbeat, and what comes in from people. *)

\* deviation: the slots are not swept
Cycle_NoSweep ==
    /\ pc = "cycle" \/ (pc = "idle" /\ inbox = <<>>)
    /\ pc' = "ready"
    /\ UNCHANGED <<dbVars, worldVars, slots, routes, planVars, recVars, act,
                   boundVars>>

(***************************************************************************)
(* The first thing after recovery, and then whenever no event came for a   *)
(* tick (the select is biased: an event that is there goes first).         *)
(* release_slots_of_settled_tasks, then dispatch_ready.                    *)
(***************************************************************************)
Cycle ==
    /\ pc = "cycle" \/ (pc = "idle" /\ inbox = <<>>)
    /\ slots' = ReleaseAll(slots, {t \in Tasks :
                               ~CountsTowardSlot(row[t].state)})
    /\ cliMoved' = {}
    /\ pc' = "ready"
    /\ UNCHANGED <<dbVars, worldVars, routes, planVars, recVars, act,
                   asked, crashes>>

Retryable == {"failed", "cancelled", "skipped"}

\* a person's event moves a row, whoever holds it; the streak starts over
Moves(t, event) ==
    /\ asked < MaxAsked /\ asked' = asked + 1
    /\ row' = [row EXCEPT ![t] = Applied(@, event)]
    /\ spent' = IF event = "Cancel" THEN spent
                ELSE [spent EXCEPT ![t] = 0]

MayCancel(t) == row[t].state \notin TerminalStates
MayRetry(t)  == row[t].state \in Retryable

\* totsuka task cancel / retry with the state DB open in another process
CliWrites(t) ==
    /\ \/ MayCancel(t) /\ Moves(t, "Cancel")
       \/ MayRetry(t) /\ Moves(t, "Retry")
    /\ cliMoved' = cliMoved \cup {t}
    /\ UNCHANGED <<sess, worldVars, slots, routes, planVars, recVars, pc, act,
                   crashes>>

(***************************************************************************)
(* The same commands through the engine's control socket (control_task),   *)
(* and a message in a finished conversation (Reopen).                      *)
(***************************************************************************)
Control(t) ==
    /\ pc = "idle"
    /\ \/ MayCancel(t) /\ Moves(t, "Cancel") /\ Forget(t)
       \/ MayRetry(t) /\ Moves(t, "Retry") /\ UNCHANGED <<slots, routes>>
       \/ /\ row[t].state \in TerminalStates
          /\ Moves(t, "Reopen") /\ UNCHANGED <<slots, routes>>
    /\ pc' = "ready"
    /\ UNCHANGED <<sess, worldVars, planVars, recVars, act, crashes, cliMoved>>

-----------------------------------------------------------------------------
(* Starting: recovery, one task after the other, then the takeover. *)

Start ==
    /\ pc = "down"
    /\ snapshot' = row
    /\ todo' = {t \in Tasks : row[t].state \in RecoverableStates}
    /\ pc' = "recover"
    /\ UNCHANGED <<dbVars, worldVars, slots, routes, planVars, resumed, act,
                   boundVars>>

\* resume_plan: the agent agrees with the row, or can be caught up with
Resumes(state, said) ==
    \/ state = "dispatched"
    \/ state = "running" /\ said # "Idle"
    \/ state = "waiting_input" /\ said \in {"Running", "WaitingInput"}
    \/ state = "publishing" /\ said = "Done"

(***************************************************************************)
(* recover_task: attach, subscribe again, then reconcile.  A task whose    *)
(* session is lost, whose plugin does not answer one of the two requests,  *)
(* or whose state the agent contradicts is left to a person.               *)
(***************************************************************************)
RecoverTask ==
    /\ pc = "recover"
    /\ \E t \in todo :
         /\ todo' = todo \ {t}
         /\ \/ UNCHANGED <<pc, act, strangers, missed>>
            \/ \E said \in PaneStates :
                 /\ Attach(t, said)
                 /\ pc' = "resume"
                 /\ act' = [Moving(t, snapshot[t].version, "recover")
                              EXCEPT !.next = said]
    /\ UNCHANGED <<dbVars, pane, inbox, streams, slots, routes, planVars,
                   snapshot, resumed, boundVars>>

RecoverSubscribe ==
    /\ pc = "resume"
    /\ LET t == act.task
           state == snapshot[t].state
           events == EventsFor(state, act.next)
       IN  \/ /\ streams' = streams \cup {Session(t)}
              /\ IF Resumes(state, act.next) /\ events # <<>>
                 THEN /\ pc' = "apply"
                      /\ act' = [act EXCEPT !.events = events,
                                            !.next = "resumed"]
                      /\ UNCHANGED resumed
                 ELSE /\ pc' = "recover" /\ act' = NoAct
                      /\ resumed' = IF Resumes(state, act.next)
                                    THEN resumed \cup {t} ELSE resumed
           \/ /\ pc' = "recover" /\ act' = NoAct
              /\ UNCHANGED <<streams, resumed>>
    /\ UNCHANGED <<dbVars, pane, inbox, strangers, missed, slots, routes,
                   planVars, snapshot, todo, boundVars>>

\* deviation: a task that waits for input claims no slot
Claims_NotWaiting ==
    [t \in Tasks |-> IF t \in resumed /\ row[t].state # "waiting_input"
                     THEN PairOf[t] ELSE NoSlot]

\* active_slot_claims: every task that resumed holds a slot
Claims == [t \in Tasks |-> IF t \in resumed THEN PairOf[t] ELSE NoSlot]

RebuildSlots ==
    /\ pc = "recover" /\ todo = {}
    /\ slots' = Rebuild(Claims)
    /\ pc' = "takeover"
    /\ UNCHANGED <<dbVars, worldVars, routes, planVars, recVars, act,
                   boundVars>>

\* a resumed task is followed again; one that was publishing is finished now
TakeOver ==
    /\ pc = "takeover"
    /\ \E t \in resumed :
         /\ resumed' = resumed \ {t}
         /\ routes' = routes \cup {<<t, Latest(t)>>}
         /\ IF row[t].state = "publishing"
            THEN pc' = "publish" /\ act' = Moving(t, row[t].version, "takeover")
            ELSE UNCHANGED <<pc, act>>
    /\ UNCHANGED <<dbVars, worldVars, slots, planVars, snapshot, todo,
                   boundVars>>

RecoverEnd ==
    /\ pc = "takeover" /\ resumed = {}
    /\ snapshot' = [t \in Tasks |-> [state |-> "queued", version |-> 0]]
    /\ pc' = "cycle"
    /\ UNCHANGED <<dbVars, worldVars, slots, routes, planVars, todo, resumed,
                   act, boundVars>>

-----------------------------------------------------------------------------
(* The world. *)

(***************************************************************************)
(* An agent works, asks, goes on, finishes.  Its plugin notifies what its  *)
(* stream carries, from the subscription on: what the agent did before it, *)
(* or between an attach and the subscription, is not told again.           *)
(***************************************************************************)
AgentMoves(t) ==
    /\ \E to \in PaneStates :
         /\ <<pane[t].state, to>> \in
              {<<"Idle", "Running">>, <<"Running", "WaitingInput">>,
               <<"WaitingInput", "Running">>, <<"Running", "Done">>}
         /\ pane' = [pane EXCEPT ![t].state = to]
         /\ LET told == Watched(t) /\ to \in Streamed
            IN  /\ told => Len(inbox) < MaxNotes
                /\ inbox' = IF told THEN Noted(t, to) ELSE inbox
                /\ missed' = IF to = "Done" /\ ~told THEN missed \cup {t}
                             ELSE missed \ {t}
    /\ UNCHANGED <<dbVars, streams, strangers, slots, routes, planVars, recVars,
                   pc, act, boundVars>>

\* the pane exits, or is closed by a person; a clean exit is not notified
AgentExits(t) ==
    /\ pane[t].state # "gone"
    /\ Watched(t) => Len(inbox) < MaxNotes
    /\ Closes(t)
    /\ UNCHANGED <<dbVars, slots, routes, planVars, recVars, pc, act, boundVars>>

(***************************************************************************)
(* A stream ends and says so, as for an exit, while the task's pane lives  *)
(* on or is long gone: the connection died, or the pane that went by the   *)
(* id was another one.                                                     *)
(***************************************************************************)
StreamDrops(t) ==
    /\ \E s \in streams :
         /\ s[1] = t
         /\ inbox' = Append(inbox, [task |-> t, run |-> s[2],
                                    state |-> "Failed"])
         /\ streams' = streams \ {s}
    /\ Len(inbox) < MaxNotes
    /\ UNCHANGED <<dbVars, pane, strangers, missed, slots, routes, planVars,
                   recVars, pc, act, boundVars>>

Crash ==
    /\ pc # "down"
    /\ crashes < MaxCrashes /\ crashes' = crashes + 1
    /\ LoseMemory
    /\ UNCHANGED <<dbVars, pane, asked, cliMoved>>

EngineStep ==
    \/ Gather \/ PlanStep \/ PlanEnd \/ PassEnd \/ DispatchOne
    \/ ClaimWon \/ ClaimLater \/ ClaimRefused
    \/ Reattach \/ Resubscribe \/ Reuse \/ DispatchFresh
    \/ ReleasePane \/ Prepare \/ Launch \/ Bind \/ Record \/ Subscribe
    \/ FailDispatch \/ AutoRetry
    \/ HandleNote \/ FollowAttached \/ ApplyEvent
    \/ Publish \/ Complete \/ FailPublish
    \/ Cycle
    \/ Start \/ RecoverTask \/ RecoverSubscribe \/ RebuildSlots \/ TakeOver \/ RecoverEnd

PersonStep == \E t \in Tasks : CliWrites(t) \/ Control(t)

AgentStep ==
    \E t \in Tasks : AgentMoves(t) \/ AgentExits(t) \/ StreamDrops(t)

Next == EngineStep \/ PersonStep \/ AgentStep \/ Crash

Spec == Init /\ [][Next]_vars

-----------------------------------------------------------------------------
(* Correctness. *)

PCs == {"down", "recover", "takeover", "cycle", "idle", "ready", "planning",
        "plan", "claim", "attach", "resubscribe", "reuse", "attached",
        "release", "prepare", "launch", "bind", "record", "subscribe", "fail",
        "retry", "apply", "publish", "complete", "unpublished", "resume"}

Acts == [task   : Tasks \cup {NoTask},
         ver    : Nat,
         from   : {"none", "plan", "event", "recover", "takeover"},
         events : Seq(TaskEvents),
         next   : PaneStates \cup {"none", "publish", "settle", "resume",
                                   "stay", "resumed"}]

\* The type of the state.
TypeOK ==
    /\ row \in [Tasks -> RowRecords]
    /\ spent \in [Tasks -> Nat]
    /\ sess \in [Tasks -> Seq(BOOLEAN)]
    /\ pane \in [Tasks -> [run : Nat, state : PaneStates]]
    /\ inbox \in Seq([task : Tasks, run : Nat, state : AgentStates])
    /\ streams \subseteq Tasks \X Nat /\ strangers \subseteq Tasks \X Nat
    /\ missed \subseteq Tasks
    /\ slots \in Ledgers
    /\ routes \subseteq Tasks \X Nat
    /\ untried \subseteq Tasks /\ plan \in Seq(Tasks)
    /\ snapshot \in [Tasks -> RowRecords]
    /\ todo \subseteq Tasks /\ resumed \subseteq Tasks
    /\ pc \in PCs
    /\ act \in Acts
    /\ asked \in Nat /\ crashes \in Nat /\ cliMoved \subseteq Tasks

Planned(t) == \E i \in DOMAIN plan : plan[i] = t
Waits(t)   == t \in untried \/ Planned(t)
InHand(t)  == Planned(t) \/ act.task = t

(***************************************************************************)
(* No slot leaks.  Every dispatch path that gives up (parked, claim lost,  *)
(* launch refused, conflict), every failure and every success hands the    *)
(* slot back exactly once: a task that holds one is being worked on, or is *)
(* in a state that counts toward its slot (F-45), or was moved by a CLI    *)
(* the engine has not looked at since (release_slots_of_settled_tasks).    *)
(***************************************************************************)
NoLeakedSlot ==
    \A t \in Tasks :
        Holds(slots, t) => \/ InHand(t)
                           \/ CountsTowardSlot(row[t].state)
                           \/ t \in cliMoved

(***************************************************************************)
(* The other direction, which the caps rest on (F-41..F-45): an agent the  *)
(* engine follows is paid for.  A task whose current session is routed and *)
(* that is active, the ones waiting for input included, holds a slot.      *)
(***************************************************************************)
FollowedWorkHoldsSlot ==
    \A t \in Tasks :
        /\ ~InHand(t) /\ t \notin resumed
        /\ <<t, Latest(t)>> \in routes
        /\ row[t].state \in {"dispatched", "running", "waiting_input",
                             "publishing"}
        => Holds(slots, t)

(***************************************************************************)
(* A cancel sticks.  Whatever the engine was doing with the task when a    *)
(* person cancelled it - launching, publishing, failing and requeueing it, *)
(* recovering it - no step of the engine takes the row out of "cancelled"; *)
(* only a person's retry or follow-up does.                                *)
(***************************************************************************)
CancelSticks ==
    [][\A t \in Tasks :
         row[t].state = "cancelled" /\ row'[t].state # "cancelled"
           => asked' = asked + 1]_vars

(***************************************************************************)
(* A pass tries a task once: only plan_dispatch's own list lets tasks in,  *)
(* and neither a task in hand, nor one an automatic retry put back in the  *)
(* queue (fail_dispatch), nor one whose claim got no answer, comes back    *)
(* into the pass that tried it.                                            *)
(***************************************************************************)
TriedOncePerPass ==
    [][\A t \in Tasks :
         Waits(t)' /\ ~Gather => Waits(t) /\ act.task # t]_vars

(***************************************************************************)
(* A live agent is the one its task is about: while the engine follows the *)
(* task's current session in an active state, the pane on the task's       *)
(* worktree, if one is open, belongs to that session and not to an earlier *)
(* dispatch whose close failed, or to a launch the engine did not survive; *)
(* unless the session was re-attached to by an id that another pane has    *)
(* taken over, see VanishedPanesAreNotAttached.                            *)
(***************************************************************************)
ActiveTaskOwnsItsPane ==
    \A t \in Tasks :
        /\ ~InHand(t)
        /\ Session(t) \in routes \ strangers
        /\ row[t].state \in {"dispatched", "running", "waiting_input"}
        /\ pane[t].state # "gone"
        => pane[t].run = Latest(t)

-----------------------------------------------------------------------------
(* What the engine does with its slots, seen from outside. *)

AllWork == <<"global", "all">>
RepoTier(r) == <<"repo", r>>
AgentTier(a) == <<"agent", a>>

Ledger == INSTANCE SlotLedger WITH
    Tiers   <- {AllWork} \cup {RepoTier(r) : r \in {q \in Repos : RepoLimit[q] # NoCap}}
                 \cup {AgentTier(a) : a \in {b \in Agents : AgentLimit[b] # NoCap}},
    Cap     <- [tier \in {AllWork} \cup ({"repo"} \X Repos) \cup ({"agent"} \X Agents) |->
                  CASE tier = AllWork -> GlobalLimit
                    [] tier[1] = "repo" -> RepoLimit[tier[2]]
                    [] OTHER -> AgentLimit[tier[2]]],
    TiersOf <- [t \in Tasks |-> {AllWork, RepoTier(PairOf[t][1]),
                                 AgentTier(PairOf[t][2])}],
    up      <- pc \notin {"down", "recover"} /\ act.from # "recover",
    holders <- Holders(slots)

(***************************************************************************)
(* The engine keeps the promise of the slots: whatever is planned, lost,   *)
(* resumed, settled, cancelled or killed, a slot is taken only where every *)
(* tier of the task has room for it, counted by who holds a slot and not   *)
(* by the counters, and after a kill the slots come back once, before      *)
(* anything is dispatched.                                                 *)
(***************************************************************************)
SlotsKeepTheirCaps == Ledger!Spec

-----------------------------------------------------------------------------
(* Claims of the source that do not hold. *)

\* the event the handler writes next, if it is at a write
Pending == CASE pc \in {"reuse", "record"} -> {"Dispatch"}
             [] pc \in {"fail", "unpublished"} -> {"Fail"}
             [] pc = "complete" -> {"Complete"}
             [] pc = "apply" -> {Head(act.events)}
             [] OTHER -> {}

(***************************************************************************)
(* isolate_task: "An illegal transition at the version this run read is a  *)
(* bug in the engine, not a race".  It does not hold: a cancel between the *)
(* plan and dispatch_one's own read makes the dispatch illegal.            *)
(***************************************************************************)
RacesAreConflicts == \A event \in Pending : Judged(event) # "illegal"

(***************************************************************************)
(* fail_dispatch: "the worst a permanently broken task costs is            *)
(* DISPATCH_RETRY_LIMIT attempts" on top of the first.  With nobody asking *)
(* for another try and no restart, a task is not launched more often.      *)
(***************************************************************************)
RetriesAreBounded ==
    asked = 0 /\ crashes = 0 =>
        \A t \in Tasks : Latest(t) <= RetryLimit + 1

(***************************************************************************)
(* apply_agent_state: a "late notification for a [...] finished task is    *)
(* ignored".  What an earlier run's session reports does not set out to    *)
(* move the task once a later run of it is under way.  It does not hold:   *)
(* only the state is looked at, not the run.                               *)
(***************************************************************************)
LateNotesAreIgnored ==
    [][\A t \in Tasks :
         HandleNote /\ Head(inbox).task = t /\ Head(inbox).run < Latest(t)
           => act'.task # t]_vars

(***************************************************************************)
(* attach of agent-ide-herdr: "A vanished pane (`pane_not_found`) is       *)
(* reported as `attached: false`", and recovery leaves it to a person.  It *)
(* does not hold where ids are positions: another pane goes by the id, its *)
(* state is taken for the agent's, and the task is followed by it.         *)
(***************************************************************************)
VanishedPanesAreNotAttached ==
    [][\A t \in Tasks :
         Session(t) \in strangers' \ strangers => pane[t].state # "gone"]_vars

-----------------------------------------------------------------------------
(***************************************************************************)
(* Liveness.  The loop keeps going: a handler that is under way goes on    *)
(* (every request to a plugin is answered or times out), and the tick that *)
(* is due again and again, because no event is waiting, fires.  Nothing is *)
(* assumed of agents or people.                                            *)
(***************************************************************************)
Fairness == WF_vars(EngineStep) /\ SF_vars(Cycle)

FairSpec == Spec /\ Fairness

(***************************************************************************)
(* A pass over the ready tasks ends: a claim without an answer and an      *)
(* automatic retry go to the next pass.  They do not feed the pass that    *)
(* failed them, which a limit on retries alone would end as well.          *)
(***************************************************************************)
PassesEnd ==
    /\ TriedOncePerPass
    /\ pc # "idle" ~> (pc = "idle" \/ pc = "down")

\* every event restarts the wait for the tick: it only comes in a pause
AgentsPause == []<>(pc = "idle" /\ inbox = <<>>)

(***************************************************************************)
(* The slot of a task that is over comes free, however it ended: also when *)
(* a CLI cancelled it behind the engine's back.  Only the tick frees that  *)
(* one, so this needs notifications to pause.                              *)
(***************************************************************************)
SettledSlotsComeFree ==
    AgentsPause =>
        \A t \in Tasks :
            Holds(slots, t) /\ row[t].state \in TerminalStates
                ~> ~Holds(slots, t) \/ row[t].state \notin TerminalStates

\* the agent of the session the engine follows is done, and the task is not
Finished(t) ==
    /\ pane[t] = [run |-> Latest(t), state |-> "Done"]
    /\ Session(t) \in routes \ strangers
    /\ row[t].state \in {"dispatched", "running", "waiting_input"}

LetGo(t) ==
    \/ row[t].state \in TerminalStates \cup {"queued"}
    \/ Session(t) \notin routes

(***************************************************************************)
(* An agent whose end was told is heard: the task does not stay in an      *)
(* active state while the engine follows the session.                      *)
(***************************************************************************)
FinishedAgentsAreHeard ==
    \A t \in Tasks : Finished(t) /\ t \notin missed ~> LetGo(t)

(***************************************************************************)
(* recover: "The agent finished while we were down. Re-subscribing does    *)
(* not replay a terminal state [...], so finalize now instead of waiting   *)
(* forever".  It does not hold of an agent that finishes after session/    *)
(* attach has answered and before state/subscribe is in force: the answer  *)
(* does not say it, the stream does not either, and the task waits.        *)
(***************************************************************************)
FinishedAgentsAreFinalized ==
    \A t \in Tasks :
        t \in resumed /\ pane[t] = [run |-> Latest(t), state |-> "Done"]
            ~> \/ row[t].state \in TerminalStates \cup {"queued"}
               \/ pane[t].state = "gone"

=============================================================================
