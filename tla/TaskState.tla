----------------------------- MODULE TaskState -----------------------------
(***************************************************************************)
(* The task state machine of orchestrator-core (domain/state.rs, F-71) and *)
(* the versioned task row through which every transition is applied        *)
(* (adapters/state_db/mod.rs).                                             *)
(*                                                                         *)
(* Everything here is an operator: the modules that keep task rows apply   *)
(* events with Applied and read the outcome.  A row is a record of the     *)
(* fields state and version; modules that need more data of a task keep it *)
(* in variables of their own.                                              *)
(***************************************************************************)
EXTENDS Naturals

TerminalStates == {"done", "failed", "cancelled", "skipped"}

NonTerminalStates ==
    {"queued", "pending", "dispatched", "running", "waiting_input",
     "verifying", "escalated", "publishing"}

TaskStates == NonTerminalStates \cup TerminalStates

TaskEvents ==
    {"NeedRepoConfirmation", "RepoConfirmed", "Dispatch", "Start",
     "WaitInput", "ResumeInput", "BeginPublish", "SelfReportComplete",
     "ApproveVerification", "VerificationFailed", "Escalate", "Complete",
     "Fail", "Cancel", "Skip", "Retry", "Reopen"}

(***************************************************************************)
(* The legal transitions, as a relation between a state, an event and the  *)
(* state the event leads to.                                               *)
(***************************************************************************)
Arrows ==
    {<<"queued", "NeedRepoConfirmation", "pending">>,
     <<"pending", "RepoConfirmed", "queued">>,
     <<"queued", "Dispatch", "dispatched">>,
     <<"queued", "Skip", "skipped">>,
     <<"dispatched", "Start", "running">>,
     <<"running", "WaitInput", "waiting_input">>,
     <<"waiting_input", "ResumeInput", "running">>,
     <<"verifying", "ApproveVerification", "publishing">>,
     <<"verifying", "VerificationFailed", "running">>,
     <<"escalated", "Start", "running">>,
     <<"escalated", "WaitInput", "waiting_input">>,
     <<"publishing", "Complete", "done">>}
    \cup ({"running", "waiting_input", "escalated"}
            \X {"BeginPublish"} \X {"publishing"})
    \cup ({"running", "waiting_input", "escalated"}
            \X {"SelfReportComplete"} \X {"verifying"})
    \cup ({"failed", "cancelled", "skipped"} \X {"Retry"} \X {"queued"})
    \cup (TerminalStates \X {"Reopen"} \X {"queued"})
    \cup (NonTerminalStates \X {"Escalate"} \X {"escalated"})
    \cup (NonTerminalStates \X {"Fail"} \X {"failed"})
    \cup (NonTerminalStates \X {"Cancel"} \X {"cancelled"})

\* transition(from, event) is Ok
Legal(from, event) == \E to \in TaskStates : <<from, event, to>> \in Arrows

\* the state transition(from, event) answers when it is Ok
Transition(from, event) ==
    CHOOSE to \in TaskStates : <<from, event, to>> \in Arrows

\* what a row says of its state
RowRecords == [state : TaskStates, version : Nat]

(***************************************************************************)
(* apply_event_tx: the version is compared before the transition is        *)
(* judged, so a caller whose view is stale learns "conflict" and never     *)
(* "illegal".  Outcome says which of the three answers a caller holding    *)
(* version ver gets; Applied is the row after an "ok".                     *)
(***************************************************************************)
\* deviation: the version a caller read is not compared
Outcome_AnyVersion(row, ver, event) ==
    IF Legal(row.state, event) THEN "ok" ELSE "illegal"

Outcome(row, ver, event) ==
    IF row.version # ver THEN "conflict"
    ELSE IF ~Legal(row.state, event) THEN "illegal"
    ELSE "ok"

Applied(row, event) ==
    [state |-> Transition(row.state, event), version |-> row.version + 1]

\* deviation: a task that waits for input gives its slot up (before F-45)
CountsTowardSlot_NotWaiting(state) ==
    state \in {"dispatched", "running", "escalated", "verifying", "publishing"}

\* scheduler::counts_toward_slot (F-45)
CountsTowardSlot(state) ==
    state \in {"dispatched", "running", "waiting_input", "escalated",
               "verifying", "publishing"}
=============================================================================
