---------------------------- MODULE HookSignals ----------------------------
(***************************************************************************)
(* How the hooks of an agent CLI drive one task: the hook scripts          *)
(* (src/crates/orchestrator-core/src/hooks), the receiver                  *)
(* (adapters/hook_uds.rs), the idempotency log (state_db/hook_events.rs),  *)
(* the interpreter (run/hooks.rs) and the publication and recovery steps   *)
(* they lead to (run/finalize.rs, run/mod.rs, recovery/mod.rs).            *)
(*                                                                         *)
(* A hook posts its signal; the receiver answers once it is in the         *)
(* engine's channel.  A post that gets no answer is written to the spool,  *)
(* a file for each, and one whose answer is lost is in both; a post that   *)
(* is answered with an error is in neither.  The channel dies with the     *)
(* engine, the spool and the rows do not.  The engine handles one signal   *)
(* at a time; between its transactions it may be killed, the hooks write   *)
(* on, and totsuka task cancel, retry and verify may write the row from    *)
(* another process.                                                        *)
(*                                                                         *)
(* A run is one dispatch (a session row, the second half of a job id), a   *)
(* turn one prompt given to the agent (its prompt_id).  The dispatch       *)
(* itself, slots and the agent IDE's state stream are in Engine.           *)
(***************************************************************************)
EXTENDS TaskState, Sequences, FiniteSets

CONSTANTS
    HumanReview,     \* the effective verification mode is "human"
    BlockRetryLimit, \* [hooks].block_retry_limit
    TimeoutSet,      \* the workflow's timeout_secs is not 0
    AttachMayBeDone, \* session/attach of the agent plugin may answer "Done"
    Kinds,           \* the signals agents send: <<event, status>>
    MaxRuns,         \* bound: dispatches
    MaxTurns,        \* bound: prompts given to agents
    MaxChannel,      \* bound: signals in the channel
    MaxSpool,        \* bound: files in the spool
    MaxAsked,        \* bound: cancels and retries
    MaxCrashes       \* bound: kills of the engine

ASSUME ModesAssumption ==
    /\ HumanReview \in BOOLEAN /\ TimeoutSet \in BOOLEAN
    /\ AttachMayBeDone \in BOOLEAN
ASSUME LimitsAssumption ==
    /\ BlockRetryLimit \in Nat /\ MaxChannel \in Nat /\ MaxSpool \in Nat
    /\ MaxRuns \in Nat /\ MaxTurns \in Nat
    /\ MaxAsked \in Nat /\ MaxCrashes \in Nat

StopStatuses == {"COMPLETED", "NEEDS_INPUT", "FAILED", "UNKNOWN"}

\* SignalEvent.  SessionStart does what a heartbeat does and records the tool's
\* session id besides: "heartbeat" stands for both.
SignalKinds ==
    ({"stop"} \X StopStatuses)
    \cup ({"notification", "question_pending", "session_end", "heartbeat"}
            \X {""})

ASSUME KindsAssumption == Kinds \subseteq SignalKinds

\* AgentSignal, and at the same time its idempotency key: the job's session
\* row, the prompt id, the event and the status
Signals ==
    {[run |-> r, turn |-> t, event |-> k[1], status |-> k[2]] :
       r \in 1..MaxRuns, t \in 1..MaxTurns, k \in SignalKinds}

\* what gets published: the message that ended a turn, or the note that the
\* output was not captured
Placeholder == [run |-> 0, turn |-> 0]
Artifacts == [run : 1..MaxRuns, turn : 1..MaxTurns] \cup {Placeholder}
None == [run |-> 0, turn |-> 1]

ArtifactOf(sig) == [run |-> sig.run, turn |-> sig.turn]

VARIABLES
    row,       \* tasks: state and state_version
    saved,     \* the publish_artifact of the newest event that carries one
    log,       \* hook_events: the recorded keys
    streak,    \* unknown_stop_streak, a projection of hook_events
    anchor,    \* tasks.last_signal_at: never set, recent, past the timeout
    run,       \* the latest session row
    spool,     \* *.jsonl files in [hooks].spool_dir, oldest first
    listed,    \* how many of them the replay that is under way has still to do
    channel,   \* PluginEvent::HookSignal not taken yet
    output,    \* agent_output
    awaiting,  \* awaiting_approval
    pc,        \* what the engine is doing
    hand,      \* the signal in hand, the row as read, where it came from
    pane,      \* the agent: its run, its turn, what it does
    turns,     \* prompts given so far
    published, \* what the source was given
    approved,  \* what an operator passed
    rejected,  \* what an operator refused
    heard,     \* a signal was taken in since the last dispatch
    asked,     \* cancels and retries so far
    crashes    \* kills so far

dbVars    == <<row, saved, log, streak, anchor, run>>
queueVars == <<spool, listed, channel>>
memVars   == <<output, awaiting>>
doVars    == <<pc, hand>>
agentVars == <<pane, turns>>
factVars  == <<published, approved, rejected, heard>>
boundVars == <<asked, crashes>>
vars == <<row, saved, log, streak, anchor, run, spool, listed, channel,
          output, awaiting, pc, hand, pane, turns, published, approved,
          rejected, heard, asked, crashes>>

NoSignal == [run |-> 1, turn |-> 1, event |-> "heartbeat", status |-> ""]
EmptyHand == [sig |-> NoSignal, view |-> [state |-> "queued", version |-> 0],
              from |-> "channel"]

Init ==
    /\ row = [state |-> "queued", version |-> 0]
    /\ saved = None /\ log = {} /\ streak = 0
    /\ anchor = "none" /\ run = 0
    /\ spool = <<>> /\ listed = 0 /\ channel = <<>>
    /\ output = None /\ awaiting = FALSE
    /\ pc = "down" /\ hand = EmptyHand
    /\ pane = [run |-> 0, turn |-> 0, does |-> "gone", blocked |-> FALSE]
    /\ turns = 0
    /\ published = {} /\ approved = {} /\ rejected = {} /\ heard = FALSE
    /\ asked = 0 /\ crashes = 0

-----------------------------------------------------------------------------
(* The hook scripts. *)

(***************************************************************************)
(* A file of the spool: whose signal it is for, whether the line is in it  *)
(* (not nothing, nor only its beginning), and whether the hook still has   *)
(* it open.                                                                *)
(***************************************************************************)
Opened(sig) == [sig |-> sig, whole |-> FALSE, open |-> TRUE]

(***************************************************************************)
(* post_event: curl delivers to the receiver, which answers 200 with the   *)
(* signal in the channel; or gets no answer, and the payload is spooled,   *)
(* beginning with an empty file; or the answer is lost after the signal    *)
(* was taken, and it is spooled as well.  An answer of 400, 401, 413 or    *)
(* 503 is a success to curl (there is no --fail), and spool_line gives up  *)
(* where it cannot create the file: then the signal is nowhere.            *)
(***************************************************************************)
Post(sig) ==
    \/ /\ pc # "down" /\ Len(channel) < MaxChannel
       /\ channel' = Append(channel, sig)
       /\ \/ UNCHANGED spool
          \/ Len(spool) < MaxSpool /\ spool' = Append(spool, Opened(sig))
    \/ /\ Len(spool) < MaxSpool
       /\ spool' = Append(spool, Opened(sig))
       /\ UNCHANGED channel
    \/ UNCHANGED queueVars

\* an agent waits for its hook
Writing(r) == \E i \in 1..Len(spool) : spool[i].open /\ spool[i].sig.run = r

Says(event, status) ==
    /\ <<event, status>> \in Kinds
    /\ ~Writing(pane.run)
    /\ Post([run |-> pane.run, turn |-> pane.turn, event |-> event,
             status |-> status])
    /\ UNCHANGED listed

HookFrame == UNCHANGED <<dbVars, memVars, doVars, factVars, boundVars>>

(***************************************************************************)
(* spool_line, its second half: the line is written to the file created    *)
(* before, or the hook ends without it (killed, the disk is full).  What   *)
(* it writes to a file replay_spool has removed or renamed reaches nobody. *)
(***************************************************************************)
WriteLine ==
    /\ \E i \in 1..Len(spool), written \in BOOLEAN :
         /\ spool[i].open
         /\ spool' = [spool EXCEPT ![i].whole = written, ![i].open = FALSE]
    /\ UNCHANGED <<listed, channel, agentVars>> /\ HookFrame

\* on-session-start.sh, on-post-tool-use.sh and Stops with background tasks,
\* on-notification.sh
WorkSignal ==
    /\ pane.does = "working"
    /\ \E event \in {"heartbeat", "notification"} :
         Says(event, "")
    /\ UNCHANGED agentVars /\ HookFrame

\* on-ask-user-question.sh: the turn goes on once the human answered
AskQuestion ==
    /\ pane.does = "working"
    /\ Says("question_pending", "")
    /\ UNCHANGED agentVars /\ HookFrame

(***************************************************************************)
(* on-stop.sh: the turn ends with a marker; without one the first Stop of  *)
(* the turn is reported and blocked, and the agent goes on; the next one   *)
(* is only reported.                                                       *)
(***************************************************************************)
StopHook ==
    /\ pane.does = "working"
    /\ \E status \in StopStatuses :
         /\ Says("stop", status)
         /\ pane' = IF status = "UNKNOWN" /\ ~pane.blocked
                    THEN [pane EXCEPT !.blocked = TRUE]
                    ELSE [pane EXCEPT !.does = "stopped"]
    /\ UNCHANGED turns /\ HookFrame

\* on-session-end.sh: the agent CLI is left
EndHook ==
    /\ pane.does \in {"working", "stopped"}
    /\ Says("session_end", "")
    /\ pane' = [pane EXCEPT !.does = "gone"]
    /\ UNCHANGED turns /\ HookFrame

\* a human answers in the pane: the next turn
Prompt ==
    /\ pane.does = "stopped" /\ turns < MaxTurns
    /\ turns' = turns + 1
    /\ pane' = [pane EXCEPT !.turn = turns + 1, !.does = "working",
                            !.blocked = FALSE]
    /\ UNCHANGED queueVars /\ HookFrame

\* the timeout of the workflow passes without a signal
SilencePasses ==
    /\ anchor = "recent"
    /\ anchor' = "old"
    /\ UNCHANGED <<row, saved, log, streak, run, queueVars, memVars, doVars,
                   agentVars, factVars, boundVars>>

-----------------------------------------------------------------------------
(* Writing the row. *)

Judged(event) == Outcome(row, hand.view.version, event)

\* the events apply_agent_state and the handlers apply one after the other
AppliedAll(r, events) ==
    IF Len(events) = 1 THEN Applied(r, events[1])
    ELSE Applied(Applied(r, events[1]), events[2])

Resting == pc' = (IF hand.from = "channel" THEN "idle" ELSE "replay")

\* deviation: the whole directory is emptied, not the file that was read
Replayed_All == spool' = <<>> /\ listed' = 0

\* replay_spool is done with a file: it deletes or renames it
Replayed == spool' = Tail(spool) /\ listed' = listed - 1

\* the signal, or the task recovery found in Publishing, is dealt with
Settle ==
    /\ Resting /\ hand' = EmptyHand
    /\ CASE hand.from = "spool"    -> Replayed
         [] hand.from = "channel"  -> UNCHANGED <<spool, listed>>
         [] hand.from = "recovery" -> listed' = Len(spool) /\ UNCHANGED spool
    /\ UNCHANGED channel

\* the engine's memory is gone
Vanish ==
    /\ pc' = "down" /\ hand' = EmptyHand
    /\ channel' = <<>> /\ output' = None /\ awaiting' = FALSE
    /\ listed' = 0 /\ UNCHANGED spool

\* forget_task
ForgetTask == output' = None /\ awaiting' = FALSE

\* isolate_task: the row moved under the handler; recovery has no bulkhead,
\* there the error ends the run
Isolate(event) ==
    /\ Judged(event) # "ok"
    /\ \/ hand.from # "recovery" /\ ForgetTask /\ Settle
       \/ hand.from = "recovery" /\ Vanish
    /\ UNCHANGED <<dbVars, agentVars, factVars, boundVars>>

-----------------------------------------------------------------------------
(* on_signal, its first half: liveness, then the idempotency log. *)

\* deviation: a Duplicate is handled like a New
Recorded_Again(sig) == "new"

\* record_hook_event: INSERT ... ON CONFLICT DO NOTHING
Recorded(sig) == IF sig \in log THEN "duplicate" ELSE "new"

Record(sig) ==
    /\ log' = log \cup {sig}
    /\ streak' = IF Recorded(sig) = "duplicate" \/ sig.event # "stop"
                 THEN streak
                 ELSE IF sig.status = "UNKNOWN" THEN streak + 1 ELSE 0

Touch(sig) ==
    /\ anchor' = "recent"
    /\ awaiting' = (sig.event = "notification" /\ awaiting)
    /\ heard' = TRUE

TakeFromChannel ==
    /\ pc = "idle" /\ channel # <<>>
    /\ LET sig == Head(channel)
       IN  /\ Record(sig) /\ Touch(sig)
           /\ channel' = Tail(channel)
           /\ IF Recorded(sig) = "new"
              THEN /\ pc' = "signal"
                   /\ hand' = [sig |-> sig, view |-> row, from |-> "channel"]
              ELSE UNCHANGED doVars
    /\ UNCHANGED <<row, saved, run, spool, listed, output, agentVars,
                   published, approved, rejected, boundVars>>

TakeFromSpool ==
    /\ pc = "replay" /\ listed > 0 /\ Head(spool).whole
    /\ LET sig == Head(spool).sig
       IN  /\ Record(sig) /\ Touch(sig)
           /\ IF Recorded(sig) = "new"
              THEN /\ pc' = "signal"
                   /\ hand' = [sig |-> sig, view |-> row, from |-> "spool"]
                   /\ UNCHANGED <<spool, listed>>
              ELSE UNCHANGED doVars /\ Replayed
    /\ UNCHANGED <<row, saved, run, channel, output, agentVars, published,
                   approved, rejected, boundVars>>

(***************************************************************************)
(* A file without the whole line in it: there is no signal to handle.  An  *)
(* empty one is deleted, one that does not parse is renamed to .corrupt,   *)
(* which no replay looks at; by then the hook may have written the line.   *)
(***************************************************************************)
ReadUnwritten ==
    /\ pc = "replay" /\ listed > 0 /\ ~Head(spool).whole
    /\ pc' = "discard"
    /\ UNCHANGED <<dbVars, queueVars, memVars, hand, agentVars, factVars,
                   boundVars>>

Discard ==
    /\ pc = "discard"
    /\ Replayed
    /\ pc' = "replay"
    /\ UNCHANGED <<dbVars, channel, memVars, hand, agentVars, factVars,
                   boundVars>>

\* a cycle replays the spool before it does anything else: the files that are
\* there when it lists the directory
ReplayBegins ==
    /\ pc = "idle"
    /\ pc' = "replay" /\ listed' = Len(spool)
    /\ UNCHANGED <<dbVars, spool, channel, memVars, hand, agentVars, factVars,
                   boundVars>>

\* deviation: a replay may give up before the last file
ReplayEnds_Early ==
    /\ pc = "replay"
    /\ pc' = "idle" /\ listed' = 0
    /\ UNCHANGED <<dbVars, spool, channel, memVars, hand, agentVars, factVars,
                   boundVars>>

ReplayEnds ==
    /\ pc = "replay" /\ listed = 0
    /\ pc' = "idle"
    /\ UNCHANGED <<dbVars, queueVars, memVars, hand, agentVars, factVars,
                   boundVars>>

-----------------------------------------------------------------------------
(* on_signal, its second half.  view is the row read before the log was    *)
(* written, and every write is made at its version.                        *)

Hearing(event) == pc = "signal" /\ hand.sig.event = event

\* SessionStart, SessionEnd, Heartbeat, Notification: a dispatched task starts
\* on any sign of work, and a prompt arms the pause of the silence sweep
SignOfWork ==
    /\ pc = "signal"
    /\ hand.sig.event \in {"session_end", "heartbeat", "notification"}
    /\ \/ /\ hand.view.state = "dispatched"
          /\ hand.sig.event # "session_end"
          /\ \/ /\ Judged("Start") = "ok"
                /\ row' = Applied(row, "Start")
                /\ awaiting' = (awaiting \/ hand.sig.event = "notification")
                /\ Settle
                /\ UNCHANGED <<saved, log, streak, anchor, run, output,
                               agentVars, factVars, boundVars>>
             \/ Isolate("Start")
       \/ /\ hand.view.state # "dispatched" \/ hand.sig.event = "session_end"
          /\ awaiting' = (awaiting \/ hand.sig.event = "notification")
          /\ Settle
          /\ UNCHANGED <<dbVars, output, agentVars, factVars, boundVars>>

\* a handler that has nothing to do in the state it read
Ignore ==
    /\ Settle
    /\ UNCHANGED <<dbVars, memVars, agentVars, factVars, boundVars>>

\* the handler's events are applied to the row it read
Apply(events) ==
    /\ row' = AppliedAll(row, events) /\ Settle
    /\ UNCHANGED <<saved, log, streak, anchor, run, memVars, agentVars,
                   factVars, boundVars>>

ParkEvents(state) ==
    IF state = "dispatched" THEN <<"Start", "WaitInput">>
    ELSE <<"WaitInput">>

\* park_waiting_input, for a question and for Stop{NeedsInput}
Park ==
    /\ \/ Hearing("question_pending")
       \/ Hearing("stop") /\ hand.sig.status = "NEEDS_INPUT"
    /\ IF hand.view.state \in {"dispatched", "running", "escalated"}
       THEN LET events == ParkEvents(hand.view.state)
            IN  \/ Judged(events[1]) = "ok" /\ Apply(events)
                \/ Isolate(events[1])
       ELSE Ignore

\* on_stop_failed: whatever the state, unless it is terminal
StopFailed ==
    /\ Hearing("stop") /\ hand.sig.status = "FAILED"
    /\ IF hand.view.state \in TerminalStates
       THEN Ignore
       ELSE \/ /\ Judged("Fail") = "ok"
               /\ row' = Applied(row, "Fail") /\ Settle
               /\ output' = None
               /\ UNCHANGED <<saved, log, streak, anchor, run, awaiting,
                              agentVars, factVars, boundVars>>
            \/ Isolate("Fail")

Escalates(state) == state \notin TerminalStates \cup {"escalated"}

\* on_stop_unknown: the snapshot of the pane is awaited before the write
StopUnknown ==
    /\ Hearing("stop") /\ hand.sig.status = "UNKNOWN"
    /\ IF streak >= BlockRetryLimit /\ Escalates(hand.view.state)
       THEN /\ pc' = "escalate"
            /\ UNCHANGED <<dbVars, queueVars, memVars, hand, agentVars,
                           factVars, boundVars>>
       ELSE Ignore

Escalate ==
    /\ pc = "escalate"
    /\ \/ Judged("Escalate") = "ok" /\ Apply(<<"Escalate">>)
       \/ Isolate("Escalate")

\* the states on_stop_completed acts in
CompletableStates == {"dispatched", "running", "waiting_input", "escalated"}

PublishEvents(state) ==
    CASE state = "dispatched"    -> <<"Start", "BeginPublish">>
      [] state = "waiting_input" -> <<"ResumeInput", "BeginPublish">>
      [] OTHER                   -> <<"BeginPublish">>

ReviewEvents(state) ==
    IF state = "dispatched" THEN <<"Start", "SelfReportComplete">>
    ELSE <<"SelfReportComplete">>

\* on_stop_completed: the message is stashed, persisted with the transition,
\* and published now or put to a human
StopCompleted ==
    /\ Hearing("stop") /\ hand.sig.status = "COMPLETED"
    /\ IF hand.view.state \notin CompletableStates
       THEN Ignore
       ELSE LET events == IF HumanReview THEN ReviewEvents(hand.view.state)
                          ELSE PublishEvents(hand.view.state)
            IN  \/ /\ Judged(events[1]) = "ok"
                   /\ row' = AppliedAll(row, events)
                   /\ saved' = ArtifactOf(hand.sig)
                   /\ output' = ArtifactOf(hand.sig)
                   /\ IF HumanReview THEN Settle
                      ELSE /\ pc' = "publish"
                           /\ hand' = [hand EXCEPT !.view = row']
                           /\ UNCHANGED queueVars
                   /\ UNCHANGED <<log, streak, anchor, run, awaiting,
                                  agentVars, factVars, boundVars>>
                \/ Isolate(events[1])

-----------------------------------------------------------------------------
(* finalize_success *)

\* deviation: what there is is published, be it nothing
Publication_Raw == output

\* publish_to_source: without output an honest note is published
Publication == IF output = None THEN Placeholder ELSE output

Publish ==
    /\ pc = "publish"
    /\ published' = published \cup {Publication}
    /\ pc' = "complete"
    /\ UNCHANGED <<dbVars, queueVars, memVars, hand, agentVars, approved,
                   rejected, heard, boundVars>>

\* the task is done with what it published, and its output is dropped
Complete ==
    /\ pc = "complete"
    /\ \/ /\ Judged("Complete") = "ok"
          /\ row' = Applied(row, "Complete") /\ output' = None /\ Settle
          /\ UNCHANGED <<saved, log, streak, anchor, run, awaiting, agentVars,
                         factVars, boundVars>>
       \/ Isolate("Complete")

\* fail_publish: refused before the source was asked, or the source's answer
\* was an error, whether it took the artifact or not
PublishFails ==
    /\ pc = "publish"
    /\ published' \in {published, published \cup {Publication}}
    /\ \/ /\ Judged("Fail") = "ok"
          /\ row' = Applied(row, "Fail") /\ output' = None
          /\ Settle
          /\ UNCHANGED awaiting
       \/ /\ Judged("Fail") # "ok" /\ UNCHANGED row
          /\ \/ hand.from # "recovery" /\ ForgetTask /\ Settle
             \/ hand.from = "recovery" /\ Vanish
    /\ UNCHANGED <<saved, log, streak, anchor, run, agentVars, approved,
                   rejected, heard, boundVars>>

-----------------------------------------------------------------------------
(* sweep_signal_timeouts *)

\* deviation: a task whose agent is done is not looked at
SweptStates_NotPublishing == {"dispatched", "running"}

SweptStates == {"dispatched", "running", "publishing"}

TimedOut ==
    TimeoutSet /\ row.state \in SweptStates /\ ~awaiting /\ anchor = "old"

Sweep ==
    /\ pc = "idle" /\ TimedOut
    /\ pc' = "escalate"
    /\ hand' = [EmptyHand EXCEPT !.view = row]
    /\ UNCHANGED <<dbVars, queueVars, memVars, agentVars, factVars, boundVars>>

-----------------------------------------------------------------------------
(* Dispatch, operators, restarts. *)

\* deviation: the last run's anchor is kept (before #382)
AnchorAtDispatch_Kept == anchor

\* apply_event_tx: the silence of an earlier run is not this run's
AnchorAtDispatch == "none"

\* dispatch_one, the hooked part: the old pane is closed first, the new run
\* has a session row of its own
Dispatch ==
    /\ pc = "idle" /\ row.state = "queued"
    /\ run < MaxRuns /\ turns < MaxTurns
    /\ run' = run + 1 /\ turns' = turns + 1
    /\ pane' = [run |-> run + 1, turn |-> turns + 1, does |-> "working",
                blocked |-> FALSE]
    /\ row' = Applied(row, "Dispatch")
    /\ anchor' = AnchorAtDispatch /\ heard' = FALSE
    /\ UNCHANGED <<saved, log, streak, queueVars, memVars, doVars, published,
                   approved, rejected, boundVars>>

\* task cancel and task retry, written by the CLI or asked of the engine
Cancel ==
    /\ asked < MaxAsked /\ Legal(row.state, "Cancel")
    /\ asked' = asked + 1
    /\ row' = Applied(row, "Cancel")
    /\ \/ UNCHANGED memVars
       \/ pc = "idle" /\ ForgetTask
    /\ UNCHANGED <<saved, log, streak, anchor, run, queueVars, doVars,
                   agentVars, factVars, crashes>>

Retry ==
    /\ asked < MaxAsked /\ Legal(row.state, "Retry")
    /\ asked' = asked + 1
    /\ row' = Applied(row, "Retry")
    /\ UNCHANGED output
    /\ \/ UNCHANGED awaiting
       \/ pc = "idle" /\ awaiting' = FALSE
    /\ UNCHANGED <<saved, log, streak, anchor, run, queueVars, doVars,
                   agentVars, factVars, crashes>>

\* task verify --pass: nothing but a restart publishes it
Approve ==
    /\ row.state = "verifying"
    /\ row' = Applied(row, "ApproveVerification")
    /\ approved' = approved \cup {saved}
    /\ UNCHANGED <<saved, log, streak, anchor, run, queueVars, memVars,
                   doVars, agentVars, published, rejected, heard,
                   boundVars>>

\* task verify --fail
Reject ==
    /\ row.state = "verifying"
    /\ row' = Applied(row, "VerificationFailed")
    /\ rejected' = rejected \cup {saved}
    /\ UNCHANGED <<saved, log, streak, anchor, run, queueVars, memVars,
                   doVars, agentVars, published, approved, heard,
                   boundVars>>

Crash ==
    /\ pc # "down" /\ crashes < MaxCrashes
    /\ crashes' = crashes + 1
    /\ Vanish
    /\ UNCHANGED <<dbVars, agentVars, factVars, asked>>

\* deviation: the artifact is only in memory
PersistedArtifact_NotKept == None

\* persisted_artifact: read back from the event that carried it
PersistedArtifact == saved

(***************************************************************************)
(* recover: what session/attach answers for the pane of the latest         *)
(* session, and the events resume_plan applies on it; "confirm" leaves the *)
(* task to a person.  The other half of recover_task is in Engine.         *)
(***************************************************************************)
AttachAnswers ==
    IF pane.does = "gone" \/ pane.run # run THEN {"Lost"}
    ELSE IF pane.does = "working" THEN {"Running", "WaitingInput"}
    ELSE {"Idle"} \cup (IF AttachMayBeDone THEN {"Done"} ELSE {})

\* resume_plan: what is applied on which answer in which state; nothing is
\* planned for a task in a person's hands
ResumePlan ==
    {<<"Running", "dispatched", <<"Start">>>>,
     <<"Running", "running", <<>>>>,
     <<"Running", "waiting_input", <<"ResumeInput">>>>,
     <<"WaitingInput", "dispatched", <<"Start", "WaitInput">>>>,
     <<"WaitingInput", "running", <<"WaitInput">>>>,
     <<"WaitingInput", "waiting_input", <<>>>>,
     <<"Idle", "dispatched", <<>>>>,
     <<"Done", "dispatched", <<"Start", "BeginPublish">>>>,
     <<"Done", "running", <<"BeginPublish">>>>,
     <<"Done", "publishing", <<>>>>}

\* deviation: an agent that is done ends the verification
ResumeSteps_ResumesVerifying(state, answer) ==
    IF state = "verifying" /\ answer = "Done" THEN {<<"ApproveVerification">>}
    ELSE {p[3] : p \in {q \in ResumePlan : q[1] = answer /\ q[2] = state}}

ResumeSteps(state, answer) ==
    {p[3] : p \in {q \in ResumePlan : q[1] = answer /\ q[2] = state}}

\* a task found in Publishing is finalized with the persisted artifact, the
\* others are followed again; then the spool is replayed
Restart ==
    /\ pc = "down"
    /\ \E answer \in AttachAnswers :
         LET steps == ResumeSteps(row.state, answer)
             moved == IF steps \subseteq {<<>>} THEN row
                      ELSE AppliedAll(row, CHOOSE s \in steps : TRUE)
             final == steps # {} /\ moved.state = "publishing"
         IN  /\ row' = moved
             /\ pc' = IF final THEN "publish" ELSE "replay"
             /\ listed' = IF final THEN 0 ELSE Len(spool)
             /\ output' = IF final THEN PersistedArtifact ELSE None
             /\ hand' = IF final
                        THEN [EmptyHand EXCEPT !.view = moved,
                                               !.from = "recovery"]
                        ELSE EmptyHand
    /\ UNCHANGED <<saved, log, streak, anchor, run, spool, channel, awaiting,
                   agentVars, factVars, boundVars>>

-----------------------------------------------------------------------------
Hooks == WorkSignal \/ AskQuestion \/ StopHook \/ EndHook \/ WriteLine
People == Prompt \/ Cancel \/ Retry \/ Approve \/ Reject

\* what the engine owes: the signal in hand, the next one, the publication
Handling ==
    \/ TakeFromChannel \/ TakeFromSpool \/ ReadUnwritten \/ Discard
    \/ ReplayEnds
    \/ SignOfWork \/ Park \/ StopFailed \/ StopUnknown \/ StopCompleted
    \/ Escalate \/ Publish \/ Complete \/ PublishFails

Next ==
    \/ Hooks \/ People \/ Handling
    \/ ReplayBegins \/ Sweep \/ Dispatch \/ SilencePasses
    \/ Crash \/ Restart

Spec == Init /\ [][Next]_vars

(***************************************************************************)
(* A request ends with an answer or a timeout and the loop takes the next  *)
(* event; the tick comes again and again between events, so its two parts  *)
(* are strongly fair; the clock goes on; a person starts the engine again. *)
(* Nothing is asked of agents, hooks and operators.                        *)
(***************************************************************************)
Fairness ==
    /\ WF_vars(Handling) /\ SF_vars(ReplayBegins) /\ SF_vars(Sweep)
    /\ WF_vars(SilencePasses) /\ WF_vars(Restart)

FairSpec == Spec /\ Fairness

-----------------------------------------------------------------------------
(* Properties. *)

Rows == [state : TaskStates, version : Nat]
Files == [sig : Signals, whole : BOOLEAN, open : BOOLEAN]

\* Every variable has its type: what is in hand is a signal and a row as it was
\* read, what is published, approved and refused are artifacts.
TypeOK ==
    /\ row \in Rows /\ saved \in Artifacts \cup {None}
    /\ log \subseteq Signals /\ streak \in Nat
    /\ anchor \in {"none", "recent", "old"} /\ run \in 0..MaxRuns
    /\ spool \in Seq(Files) /\ listed \in Nat /\ channel \in Seq(Signals)
    /\ output \in Artifacts \cup {None} /\ awaiting \in BOOLEAN
    /\ pc \in {"down", "replay", "discard", "idle", "signal", "escalate",
               "publish", "complete"}
    /\ hand \in [sig : Signals \cup {NoSignal}, view : Rows,
                 from : {"channel", "spool", "recovery"}]
    /\ pane \in [run : 0..MaxRuns, turn : 0..MaxTurns,
                 does : {"working", "stopped", "gone"}, blocked : BOOLEAN]
    /\ turns \in 0..MaxTurns
    /\ published \subseteq Artifacts
    /\ approved \subseteq Artifacts /\ rejected \subseteq Artifacts
    /\ heard \in BOOLEAN /\ asked \in Nat /\ crashes \in Nat

\* D-01, #133: a task that awaits a person's verdict is published only once the
\* person passed what is recorded for it, also when the engine is killed, the
\* agent is found done and the Stop comes again.
VerdictIsAwaited ==
    [][row.state = "verifying" /\ row'.state = "publishing"
         => saved' \in approved']_vars

\* recovery/mod.rs: "verification / escalation must not be skipped across a
\* restart (#133)": what a person refused is not published.  It does not hold:
\* recovery ends a refused task whose pane is found done.
RefusedIsNotPublished == published \cap rejected = {}

\* D-05: what a person refused is not put to a person again, although its Stop
\* may be delivered twice.
RefusedIsNotAskedAgain == row.state = "verifying" => saved \notin rejected

\* A task that is done gave its source the newest artifact its Stops brought,
\* also when the engine was killed between the Stop and the publication; only
\* when there never was one it gave the note that says so.
DoneMeansPublished ==
    row.state = "done" =>
      (IF saved = None THEN Placeholder ELSE saved) \in published

\* the line is in the file, and it is not the file that was read before it was
Kept(i) == spool[i].whole /\ ~(pc = "discard" /\ i = 1)

\* E-07: a signal whose line reached the spool leaves it only once it is in the
\* log, also when the hooks write new files while the old ones are replayed, the
\* engine is killed in the middle of a file, and files before it are empty or
\* cut; what is excepted is the file that was read too early, see
\* ReadAllThenDeleteIsSafe.
SpooledUntilRecorded ==
    [][\A i \in 1..Len(spool) :
         Kept(i) => \/ \E j \in 1..Len(spool') : spool'[j] = spool[i]
                    \/ spool[i].sig \in log']_vars

\* #382: a run is not taken for silent before anything was heard since its
\* dispatch.
SilenceIsThisRuns == [][pc = "idle" /\ pc' = "escalate" => heard]_vars

\* E-07: a completion whose line reached the spool, be it only the spool, is
\* recorded in the end, across kills and restarts and whatever is wrong with the
\* files before it, unless its file was read before the line was in it.
SpooledCompletionIsHeard ==
    \A r \in 1..MaxRuns, t \in 1..MaxTurns :
      LET stop == [run |-> r, turn |-> t, event |-> "stop",
                   status |-> "COMPLETED"]
      IN  (\E i \in 1..Len(spool) : spool[i].sig = stop /\ Kept(i))
            ~> stop \in log

\* D-03: a silent task is escalated, unless it speaks, ends or turns out to wait
\* at a permission prompt.
SilenceIsEscalated ==
    LET silent == /\ row.state \in {"dispatched", "running", "publishing"}
                  /\ TimeoutSet /\ anchor = "old" /\ ~awaiting
    IN  silent ~> ~silent

-----------------------------------------------------------------------------
(* Claims of the source that do not hold. *)

(***************************************************************************)
(* post_event: "On any failure, spool the payload for later recovery": a   *)
(* Stop that ended the turn of an agent is with the engine, in its log or  *)
(* in the spool.  It does not hold: an answer of 401, 413 or 503 is taken  *)
(* for a delivery.                                                         *)
(***************************************************************************)
AnyFailureIsSpooled ==
    [][pane.does = "working" /\ pane'.does = "stopped" =>
         \E sig \in Signals :
            /\ sig.run = pane.run /\ sig.turn = pane.turn
            /\ sig.event = "stop"
            /\ \/ sig \in log'
               \/ \E i \in 1..Len(channel') : channel'[i] = sig
               \/ \E i \in 1..Len(spool') : spool'[i].sig = sig]_vars

(***************************************************************************)
(* replay_spool: "the idempotency key makes a read-all-then-delete safe":  *)
(* no file with a signal in it goes before the signal is in the log.  It   *)
(* does not hold of a file that is read after the hook created it and      *)
(* before it wrote the line.                                               *)
(***************************************************************************)
ReadAllThenDeleteIsSafe ==
    [][\A i \in 1..Len(spool) :
         spool[i].whole => \/ \E j \in 1..Len(spool') : spool'[j] = spool[i]
                           \/ spool[i].sig \in log']_vars
=============================================================================
