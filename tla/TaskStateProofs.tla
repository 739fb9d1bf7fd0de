-------------------------- MODULE TaskStateProofs --------------------------
(***************************************************************************)
(* Facts about the task state machine: where events lead, and what applying *)
(* one makes of a row.                                                     *)
(***************************************************************************)
EXTENDS TaskState, TLAPS

\* events after which a task still counts toward its slot
Advances == {"Start", "WaitInput", "ResumeInput", "BeginPublish"}

\* what an event leads to is a state, and the arrow is one of the code's
LEMMA LegalArrow ==
    ASSUME NEW from, NEW event, Legal(from, event)
    PROVE  /\ Transition(from, event) \in TaskStates
           /\ <<from, event, Transition(from, event)>> \in Arrows
BY DEF Legal, Transition

\* a row an event was applied to
LEMMA AppliedRow ==
    ASSUME NEW r \in RowRecords, NEW event, Legal(r.state, event)
    PROVE  /\ Applied(r, event) \in RowRecords
           /\ Applied(r, event).version = r.version + 1
           /\ Applied(r, event).state = Transition(r.state, event)
<1> DEFINE to == Transition(r.state, event)
<1>1. to \in TaskStates BY LegalArrow
<1>2. r.version \in Nat BY DEF RowRecords
<1>3. Applied(r, event) = [state |-> to, version |-> r.version + 1] BY Zenon DEF Applied
<1> HIDE DEF to
<1>4. QED BY <1>1, <1>2, <1>3 DEF RowRecords, to

\* where the engine's events lead
LEMMA EventTargets ==
    ASSUME NEW from, NEW event, Legal(from, event)
    PROVE  /\ event \in Advances => CountsTowardSlot(Transition(from, event))
           /\ event = "Dispatch" => CountsTowardSlot(Transition(from, event))
           /\ event = "Fail" => Transition(from, event) = "failed"
           /\ from = "cancelled" => event \in {"Retry", "Reopen"}
<1> DEFINE to == Transition(from, event)
<1>1. <<from, event, to>> \in Arrows BY LegalArrow
<1> HIDE DEF to
<1>2. event = "Start" => to = "running"
  BY <1>1 DEF Arrows, TerminalStates, NonTerminalStates
<1>3. event = "WaitInput" => to = "waiting_input"
  BY <1>1 DEF Arrows, TerminalStates, NonTerminalStates
<1>4. event = "ResumeInput" => to = "running"
  BY <1>1 DEF Arrows, TerminalStates, NonTerminalStates
<1>5. event = "BeginPublish" => to = "publishing"
  BY <1>1 DEF Arrows, TerminalStates, NonTerminalStates
<1>6. event = "Dispatch" => to = "dispatched"
  BY <1>1 DEF Arrows, TerminalStates, NonTerminalStates
<1>7. event = "Fail" => to = "failed"
  BY <1>1 DEF Arrows, TerminalStates, NonTerminalStates
<1>8. from = "cancelled" => event \in {"Retry", "Reopen"}
  BY <1>1 DEF Arrows, TerminalStates, NonTerminalStates
<1>9. QED BY <1>2, <1>3, <1>4, <1>5, <1>6, <1>7, <1>8
          DEF to, Advances, CountsTowardSlot

\* the events that end a run or put a task back
LEMMA EndTargets ==
    ASSUME NEW from, NEW event, Legal(from, event)
    PROVE  /\ event \in {"Retry", "Reopen"} => Transition(from, event) = "queued"
           /\ event = "Cancel" => Transition(from, event) = "cancelled"
           /\ event = "Skip" => Transition(from, event) = "skipped"
           /\ event = "Fail" => Transition(from, event) = "failed"
<1> DEFINE to == Transition(from, event)
<1>1. <<from, event, to>> \in Arrows BY LegalArrow
<1> HIDE DEF to
<1>2. event \in {"Retry", "Reopen"} => to = "queued"
  BY <1>1 DEF Arrows, TerminalStates, NonTerminalStates
<1>3. event = "Cancel" => to = "cancelled"
  BY <1>1 DEF Arrows, TerminalStates, NonTerminalStates
<1>4. event = "Skip" => to = "skipped"
  BY <1>1 DEF Arrows, TerminalStates, NonTerminalStates
<1>5. event = "Fail" => to = "failed"
  BY <1>1 DEF Arrows, TerminalStates, NonTerminalStates
<1>6. QED BY <1>2, <1>3, <1>4, <1>5 DEF to

\* what is always legal in a state that is over, or not
LEMMA AlwaysLegal ==
    ASSUME NEW from
    PROVE  /\ from \in TerminalStates => Legal(from, "Reopen")
           /\ from \in {"failed", "cancelled", "skipped"} => Legal(from, "Retry")
           /\ from \in NonTerminalStates => Legal(from, "Cancel")
<1>1. from \in TerminalStates => <<from, "Reopen", "queued">> \in Arrows
  BY DEF Arrows
<1>2. from \in {"failed", "cancelled", "skipped"}
        => <<from, "Retry", "queued">> \in Arrows
  BY DEF Arrows
<1>3. from \in NonTerminalStates => <<from, "Cancel", "cancelled">> \in Arrows
  BY DEF Arrows
<1>4. "queued" \in TaskStates /\ "cancelled" \in TaskStates
  BY DEF TaskStates, TerminalStates, NonTerminalStates
<1>5. QED BY <1>1, <1>2, <1>3, <1>4 DEF Legal
=============================================================================
