------------------------- MODULE HookSignalsProofs -------------------------
(***************************************************************************)
(* Proofs about the hook signals of one task, for either verification      *)
(* mode, any limit and any bounds.                                         *)
(***************************************************************************)
EXTENDS HookSignals, TaskStateProofs, SequenceTheorems, TLAPS

\* the points inside a handler: something is in hand
Handlers == {"signal", "escalate", "publish", "complete"}

\* an agent that is there belongs to a run and has a prompt
PaneIsPrompted ==
    pane.does # "gone" => pane.run \in 1..MaxRuns /\ pane.turn \in 1..MaxTurns

(***************************************************************************)
(* What is in hand: a signal, if one is interpreted, and a row as it was   *)
(* read, which is the row of today if the version still is.                *)
(***************************************************************************)
HandIsRead ==
    /\ pc = "signal" => hand.sig \in Signals
    /\ pc \in Handlers =>
         /\ hand.view.version <= row.version
         /\ hand.view.version = row.version => hand.view = row

\* a person is asked about something
AskedAboutSomething == row.state = "verifying" => saved # None

\* the file in hand is still the oldest of the spool, whole, and recorded; the
\* replay has it on its list, and only what is there is listed
FileInHand ==
    /\ listed <= Len(spool)
    /\ pc = "discard" => listed > 0
    /\ pc \in Handlers /\ hand.from = "spool" =>
         listed > 0 /\ Head(spool).whole /\ Head(spool).sig \in log

\* no hook writes to a file with the line in it
WrittenOnce == \A i \in 1..Len(spool) : spool[i].open => ~spool[i].whole

TypedInv ==
    /\ TypeOK /\ PaneIsPrompted /\ HandIsRead /\ AskedAboutSomething
    /\ FileInHand /\ WrittenOnce

(***************************************************************************)
(* The Stop of what was saved or refused is behind the engine: recorded,   *)
(* and no longer in hand.                                                  *)
(***************************************************************************)
AnsweredIsBehind ==
    /\ pc = "signal" => hand.sig \in log
    /\ \A sig \in Signals :
         /\ sig.event = "stop" /\ sig.status = "COMPLETED"
         /\ ArtifactOf(sig) \in {saved} \cup rejected
         => sig \in log /\ (pc = "signal" => sig # hand.sig)

FreshInv == AnsweredIsBehind /\ RefusedIsNotAskedAgain

\* an anchor is this run's: something was heard since its dispatch
AnchorIsHeard == anchor # "none" => heard

-----------------------------------------------------------------------------
(* The anchor. *)

LEMMA AnchorStep == AnchorIsHeard /\ [Next]_vars => AnchorIsHeard'
<1> SUFFICES ASSUME AnchorIsHeard, [Next]_vars PROVE AnchorIsHeard'
  OBVIOUS
<1> USE DEF AnchorIsHeard
<1>1. CASE UNCHANGED vars BY <1>1 DEF vars
<1>2. CASE Hooks
  BY <1>2 DEF Hooks, WorkSignal, AskQuestion, StopHook, EndHook, WriteLine,
              HookFrame, dbVars, factVars
<1>3. CASE People
  BY <1>3 DEF People, Prompt, Cancel, Retry, Approve, Reject, HookFrame,
              dbVars, factVars
<1>4. CASE TakeFromChannel \/ TakeFromSpool
  BY <1>4 DEF TakeFromChannel, TakeFromSpool, Touch
<1>5. CASE \/ ReplayEnds \/ ReplayBegins \/ ReadUnwritten \/ Discard
           \/ Sweep \/ Restart \/ Crash
  BY <1>5 DEF ReplayEnds, ReplayBegins, ReadUnwritten, Discard, Sweep, Restart,
              Crash, dbVars, factVars
<1>6. CASE SignOfWork
  BY <1>6 DEF SignOfWork, Isolate, dbVars, factVars
<1>7. CASE Park \/ StopFailed \/ StopUnknown \/ Escalate
  BY <1>7 DEF Park, StopFailed, StopUnknown, Escalate, Ignore, Apply,
              Isolate, dbVars, factVars
<1>8. CASE StopCompleted
  BY <1>8 DEF StopCompleted, Ignore, Isolate, dbVars, factVars
<1>9. CASE Publish \/ Complete \/ PublishFails
  BY <1>9 DEF Publish, Complete, PublishFails, Isolate, dbVars, factVars
<1>10. CASE Dispatch BY <1>10 DEF Dispatch, AnchorAtDispatch
<1>11. CASE SilencePasses BY <1>11 DEF SilencePasses, factVars
<1>12. QED BY <1>1, <1>2, <1>3, <1>4, <1>5, <1>6, <1>7, <1>8, <1>9, <1>10,
              <1>11 DEF Next, Handling

\* only the sweep leads from the loop to an escalation, and only by an old anchor
LEMMA SweepStep ==
    [Next]_vars /\ pc = "idle" /\ pc' = "escalate" => anchor = "old"
<1> SUFFICES ASSUME [Next]_vars, pc = "idle", pc' = "escalate"
             PROVE  anchor = "old"
  OBVIOUS
<1>1. CASE UNCHANGED vars BY <1>1 DEF vars
<1>2. CASE Hooks
  BY <1>2 DEF Hooks, WorkSignal, AskQuestion, StopHook, EndHook, WriteLine,
              HookFrame, doVars
<1>3. CASE People
  BY <1>3 DEF People, Prompt, Cancel, Retry, Approve, Reject, HookFrame,
              doVars
<1>4. CASE Sweep BY <1>4 DEF Sweep, TimedOut
<1>5. CASE TakeFromChannel BY <1>5 DEF TakeFromChannel, doVars
<1>6. CASE \/ TakeFromSpool \/ ReplayEnds \/ ReplayBegins \/ ReadUnwritten
           \/ Discard \/ Restart \/ Crash
  BY <1>6 DEF TakeFromSpool, ReplayEnds, ReplayBegins, ReadUnwritten, Discard,
              Restart, Crash, Vanish
<1>7. CASE SignOfWork \/ Park \/ StopFailed \/ StopUnknown \/ StopCompleted
  BY <1>7 DEF SignOfWork, Park, StopFailed, StopUnknown, StopCompleted,
              Hearing
<1>8. CASE Escalate \/ Publish \/ Complete \/ PublishFails
  BY <1>8 DEF Escalate, Publish, Complete, PublishFails
<1>9. CASE Dispatch \/ SilencePasses
  BY <1>9 DEF Dispatch, SilencePasses, doVars
<1>10. QED BY <1>1, <1>2, <1>3, <1>4, <1>5, <1>6, <1>7, <1>8, <1>9
           DEF Next, Handling

\* #382: a run is not taken for silent before anything was heard since its
\* dispatch: the anchor of an earlier run goes with the dispatch.
THEOREM HookSilenceIsThisRuns == Spec => SilenceIsThisRuns
<1>1. Init => AnchorIsHeard BY DEF Init, AnchorIsHeard
<1>2. AnchorIsHeard /\ [Next]_vars => AnchorIsHeard' BY AnchorStep
<1>3. AnchorIsHeard /\ [Next]_vars
        => [pc = "idle" /\ pc' = "escalate" => heard]_vars
  BY SweepStep DEF AnchorIsHeard
<1>4. QED BY <1>1, <1>2, <1>3, PTL DEF Spec, SilenceIsThisRuns

-----------------------------------------------------------------------------
(* What a write makes of the row. *)

LEMMA ArrowTargets ==
    ASSUME NEW from, NEW event, Legal(from, event)
    PROVE  /\ event \in {"Start", "ResumeInput", "VerificationFailed"}
                => Transition(from, event) = "running"
           /\ event = "WaitInput" => Transition(from, event) = "waiting_input"
           /\ event \in {"BeginPublish", "ApproveVerification"}
                => Transition(from, event) = "publishing"
           /\ event = "SelfReportComplete"
                => Transition(from, event) = "verifying"
           /\ event = "Dispatch" => Transition(from, event) = "dispatched"
           /\ event = "Escalate" => Transition(from, event) = "escalated"
           /\ event = "Complete" => Transition(from, event) = "done"
<1> DEFINE to == Transition(from, event)
<1>1. <<from, event, to>> \in Arrows BY LegalArrow
<1> HIDE DEF to
<1>2. event = "Start" => to = "running"
  BY <1>1 DEF Arrows, TerminalStates, NonTerminalStates
<1>3. event = "ResumeInput" => to = "running"
  BY <1>1 DEF Arrows, TerminalStates, NonTerminalStates
<1>4. event = "VerificationFailed" => to = "running"
  BY <1>1 DEF Arrows, TerminalStates, NonTerminalStates
<1>5. event = "WaitInput" => to = "waiting_input"
  BY <1>1 DEF Arrows, TerminalStates, NonTerminalStates
<1>6. event = "BeginPublish" => to = "publishing"
  BY <1>1 DEF Arrows, TerminalStates, NonTerminalStates
<1>7. event = "ApproveVerification" => to = "publishing"
  BY <1>1 DEF Arrows, TerminalStates, NonTerminalStates
<1>8. event = "SelfReportComplete" => to = "verifying"
  BY <1>1 DEF Arrows, TerminalStates, NonTerminalStates
<1>9. event = "Dispatch" => to = "dispatched"
  BY <1>1 DEF Arrows, TerminalStates, NonTerminalStates
<1>10. event = "Escalate" => to = "escalated"
  BY <1>1 DEF Arrows, TerminalStates, NonTerminalStates
<1>11. event = "Complete" => to = "done"
  BY <1>1 DEF Arrows, TerminalStates, NonTerminalStates
<1>12. QED BY <1>2, <1>3, <1>4, <1>5, <1>6, <1>7, <1>8, <1>9, <1>10, <1>11
           DEF to

\* the arrows the handlers count on
LEMMA Arrowed ==
    /\ Legal("dispatched", "Start") /\ Legal("queued", "Dispatch")
    /\ Legal("waiting_input", "ResumeInput")
    /\ \A event \in {"WaitInput", "BeginPublish", "SelfReportComplete"} :
         Legal("running", event)
    /\ Legal("verifying", "ApproveVerification")
    /\ Legal("verifying", "VerificationFailed")
<1>1. /\ <<"dispatched", "Start", "running">> \in Arrows
      /\ <<"queued", "Dispatch", "dispatched">> \in Arrows
      /\ <<"waiting_input", "ResumeInput", "running">> \in Arrows
      /\ <<"running", "WaitInput", "waiting_input">> \in Arrows
      /\ <<"verifying", "ApproveVerification", "publishing">> \in Arrows
      /\ <<"verifying", "VerificationFailed", "running">> \in Arrows
  BY DEF Arrows
<1>2. /\ <<"running", "BeginPublish", "publishing">> \in Arrows
      /\ <<"running", "SelfReportComplete", "verifying">> \in Arrows
  BY DEF Arrows
<1>3. {"running", "dispatched", "waiting_input", "publishing", "verifying"}
        \subseteq TaskStates
  BY DEF TaskStates, NonTerminalStates
<1>4. QED BY <1>1, <1>2, <1>3 DEF Legal

LEMMA OneApplied ==
    ASSUME NEW r \in Rows, NEW event, Legal(r.state, event)
    PROVE  /\ Applied(r, event) \in Rows
           /\ Applied(r, event).version = r.version + 1
           /\ Applied(r, event).state = Transition(r.state, event)
BY AppliedRow DEF Rows, RowRecords

\* two events at once: a start or a resumption, and what follows it
LEMMA TwoApplied ==
    ASSUME NEW r \in Rows,
           NEW first \in {"Start", "ResumeInput"}, Legal(r.state, first),
           NEW then \in {"WaitInput", "BeginPublish", "SelfReportComplete"}
    PROVE  LET both == Applied(Applied(r, first), then)
           IN  /\ both \in Rows /\ both.version = r.version + 2
               /\ both.state = Transition("running", then)
<1> DEFINE mid == Applied(r, first)
<1>1. /\ mid \in Rows /\ mid.version = r.version + 1
      /\ mid.state = "running"
  BY OneApplied, ArrowTargets
<1>2. Legal(mid.state, then) BY <1>1, Arrowed
<1> HIDE DEF mid
<1>3. /\ Applied(mid, then) \in Rows
      /\ Applied(mid, then).version = mid.version + 1
      /\ Applied(mid, then).state = Transition(mid.state, then)
  BY <1>1, <1>2, OneApplied
<1>4. r.version \in Nat BY DEF Rows
<1>5. QED BY <1>1, <1>3, <1>4 DEF mid

LEMMA AllOfOne ==
    ASSUME NEW r, NEW event
    PROVE  AppliedAll(r, <<event>>) = Applied(r, event)
BY DEF AppliedAll

LEMMA AllOfTwo ==
    ASSUME NEW r, NEW first, NEW then
    PROVE  AppliedAll(r, <<first, then>>) = Applied(Applied(r, first), then)
BY DEF AppliedAll

\* what moves where, and that the version tells
Moved(r, to, states) ==
    to \in Rows /\ to.version > r.version /\ to.state \in states

LEMMA ParkMoves ==
    ASSUME NEW r \in Rows, r.state \in {"dispatched", "running", "escalated"},
           Legal(r.state, ParkEvents(r.state)[1])
    PROVE  Moved(r, AppliedAll(r, ParkEvents(r.state)), {"waiting_input"})
<1>1. r.version \in Nat BY DEF Rows
<1>2. CASE r.state = "dispatched"
  <2>1. ParkEvents(r.state) = <<"Start", "WaitInput">>
    BY <1>2 DEF ParkEvents
  <2>2. Transition("running", "WaitInput") = "waiting_input"
    BY Arrowed, ArrowTargets
  <2>3. QED BY <1>1, <1>2, <2>1, <2>2, Arrowed, TwoApplied, AllOfTwo DEF Moved
<1>3. CASE r.state # "dispatched"
  <2>1. ParkEvents(r.state) = <<"WaitInput">> BY <1>3 DEF ParkEvents
  <2>2. Legal(r.state, "WaitInput") BY <2>1
  <2>3. QED BY <1>1, <2>1, <2>2, OneApplied, ArrowTargets, AllOfOne DEF Moved
<1>4. QED BY <1>2, <1>3

\* where a Stop{COMPLETED} leads
StopEvents(state) ==
    IF HumanReview THEN ReviewEvents(state) ELSE PublishEvents(state)

LEMMA StopMoves ==
    ASSUME NEW r \in Rows, r.state \in CompletableStates,
           Legal(r.state, StopEvents(r.state)[1])
    PROVE  Moved(r, AppliedAll(r, StopEvents(r.state)),
                 IF HumanReview THEN {"verifying"} ELSE {"publishing"})
<1>1. r.version \in Nat BY DEF Rows
<1>2. /\ Transition("running", "SelfReportComplete") = "verifying"
      /\ Transition("running", "BeginPublish") = "publishing"
  BY Arrowed, ArrowTargets
<1>3. CASE HumanReview /\ r.state = "dispatched"
  <2>1. StopEvents(r.state) = <<"Start", "SelfReportComplete">>
    BY <1>3 DEF StopEvents, ReviewEvents
  <2>2. QED BY <1>1, <1>2, <1>3, <2>1, Arrowed, TwoApplied, AllOfTwo DEF Moved
<1>4. CASE HumanReview /\ r.state # "dispatched"
  <2>1. StopEvents(r.state) = <<"SelfReportComplete">>
    BY <1>4 DEF StopEvents, ReviewEvents
  <2>2. Legal(r.state, "SelfReportComplete") BY <2>1
  <2>3. QED BY <1>1, <1>4, <2>1, <2>2, OneApplied, ArrowTargets, AllOfOne
            DEF Moved
<1>5. CASE ~HumanReview /\ r.state = "dispatched"
  <2>1. StopEvents(r.state) = <<"Start", "BeginPublish">>
    BY <1>5 DEF StopEvents, PublishEvents
  <2>2. QED BY <1>1, <1>2, <1>5, <2>1, Arrowed, TwoApplied, AllOfTwo DEF Moved
<1>6. CASE ~HumanReview /\ r.state = "waiting_input"
  <2>1. StopEvents(r.state) = <<"ResumeInput", "BeginPublish">>
    BY <1>6 DEF StopEvents, PublishEvents
  <2>2. QED BY <1>1, <1>2, <1>6, <2>1, Arrowed, TwoApplied, AllOfTwo DEF Moved
<1>7. CASE ~HumanReview /\ r.state \notin {"dispatched", "waiting_input"}
  <2>1. StopEvents(r.state) = <<"BeginPublish">>
    BY <1>7 DEF StopEvents, PublishEvents
  <2>2. Legal(r.state, "BeginPublish") BY <2>1
  <2>3. QED BY <1>1, <1>7, <2>1, <2>2, OneApplied, ArrowTargets, AllOfOne
            DEF Moved
<1>8. QED BY <1>3, <1>4, <1>5, <1>6, <1>7, ModesAssumption

(***************************************************************************)
(* What resume_plan applies: nothing where nothing changed, one or two     *)
(* events, and none of them to a task that awaits a verdict.               *)
(***************************************************************************)
LEMMA ResumeMoves ==
    ASSUME NEW r \in Rows, NEW answer,
           ~(ResumeSteps(r.state, answer) \subseteq {<<>>})
    PROVE  /\ r.state \in {"dispatched", "running", "waiting_input"}
           /\ Moved(r, AppliedAll(r, CHOOSE s \in ResumeSteps(r.state, answer) :
                                       TRUE),
                    {"running", "waiting_input", "publishing"})
<1> DEFINE steps == ResumeSteps(r.state, answer)
           chosen == CHOOSE s \in steps : TRUE
<1>1. PICK s \in steps : s # <<>> OBVIOUS
<1>2. <<answer, r.state, s>> \in ResumePlan
  <2>1. PICK p \in ResumePlan : p[1] = answer /\ p[2] = r.state /\ p[3] = s
    BY <1>1 DEF ResumeSteps
  <2>2. p = <<p[1], p[2], p[3]>> BY DEF ResumePlan
  <2>3. QED BY <2>1, <2>2
<1>3. chosen \in steps BY <1>1
<1> HIDE DEF chosen
<1>4. <<answer, r.state, chosen>> \in ResumePlan
  <2>1. PICK p \in ResumePlan : p[1] = answer /\ p[2] = r.state
                                /\ p[3] = chosen
    BY <1>3 DEF ResumeSteps
  <2>2. p = <<p[1], p[2], p[3]>> BY DEF ResumePlan
  <2>3. QED BY <2>1, <2>2
<1>5. \/ r.state = "dispatched" /\ chosen = <<"Start">>
      \/ r.state = "waiting_input" /\ chosen = <<"ResumeInput">>
      \/ r.state = "dispatched" /\ chosen = <<"Start", "WaitInput">>
      \/ r.state = "running" /\ chosen = <<"WaitInput">>
      \/ r.state = "dispatched" /\ chosen = <<"Start", "BeginPublish">>
      \/ r.state = "running" /\ chosen = <<"BeginPublish">>
  BY <1>1, <1>2, <1>4 DEF ResumePlan
<1> HIDE DEF steps
<1>6. r.version \in Nat BY DEF Rows
<1>7. /\ Transition("running", "WaitInput") = "waiting_input"
      /\ Transition("running", "BeginPublish") = "publishing"
      /\ Transition("dispatched", "Start") = "running"
      /\ Transition("waiting_input", "ResumeInput") = "running"
  BY Arrowed, ArrowTargets
<1>8. Moved(r, AppliedAll(r, chosen), {"running", "waiting_input", "publishing"})
  <2>1. CASE r.state = "dispatched" /\ chosen = <<"Start">>
    BY <1>6, <1>7, <2>1, Arrowed, OneApplied, AllOfOne DEF Moved
  <2>2. CASE r.state = "waiting_input" /\ chosen = <<"ResumeInput">>
    BY <1>6, <1>7, <2>2, Arrowed, OneApplied, AllOfOne DEF Moved
  <2>3. CASE r.state = "dispatched" /\ chosen = <<"Start", "WaitInput">>
    BY <1>6, <1>7, <2>3, Arrowed, TwoApplied, AllOfTwo DEF Moved
  <2>4. CASE r.state = "running" /\ chosen = <<"WaitInput">>
    BY <1>6, <1>7, <2>4, Arrowed, OneApplied, AllOfOne DEF Moved
  <2>5. CASE r.state = "dispatched" /\ chosen = <<"Start", "BeginPublish">>
    BY <1>6, <1>7, <2>5, Arrowed, TwoApplied, AllOfTwo DEF Moved
  <2>6. CASE r.state = "running" /\ chosen = <<"BeginPublish">>
    BY <1>6, <1>7, <2>6, Arrowed, OneApplied, AllOfOne DEF Moved
  <2>7. QED BY <1>5, <2>1, <2>2, <2>3, <2>4, <2>5, <2>6
<1>9. QED BY <1>5, <1>8 DEF chosen, steps

-----------------------------------------------------------------------------
(* What a step does to the row, and to what is recorded for it. *)

\* a Stop{COMPLETED} is being interpreted, and brings its artifact
Brings ==
    /\ pc = "signal" /\ hand.sig.event = "stop"
    /\ hand.sig.status = "COMPLETED"
    /\ saved' = ArtifactOf(hand.sig)

(***************************************************************************)
(* The row moves on with its version or stays; only a verdict leads from   *)
(* Verifying to Publishing, only a Stop to Verifying, and only what was    *)
(* published is done.                                                      *)
(***************************************************************************)
RowMoves ==
    /\ row' = row \/ Moved(row, row', TaskStates)
    /\ row.state = "verifying" /\ row'.state = "publishing"
         => saved' \in approved'
    /\ row'.state = "verifying"
         => \/ row.state = "verifying" /\ UNCHANGED <<saved, rejected>>
            \/ Brings /\ UNCHANGED rejected
    /\ row'.state = "done"
         => saved' = saved /\ (row.state = "done" \/ pc = "complete")

\* one event is applied, and it leads to none of the states in question
LEMMA OrdinaryMove ==
    ASSUME row \in Rows, NEW event, Legal(row.state, event),
           row' = Applied(row, event),
           Transition(row.state, event)
             \notin {"verifying", "publishing", "done"}
    PROVE  RowMoves
<1>1. row' \in Rows /\ row'.version = row.version + 1
      /\ row'.state = Transition(row.state, event)
  BY OneApplied
<1>2. row.version \in Nat BY DEF Rows
<1>3. row'.state \in TaskStates BY <1>1 DEF Rows
<1>4. QED BY <1>1, <1>2, <1>3 DEF RowMoves, Moved

\* the write of a handler: the row is the one that was read
LEMMA HandlersWrite ==
    ASSUME TypedInv, pc \in Handlers, NEW event, Judged(event) = "ok"
    PROVE  hand.view = row /\ Legal(row.state, event)
BY DEF TypedInv, HandIsRead, Judged, Outcome

LEMMA TaskStateNames ==
    {"waiting_input", "verifying", "publishing", "running", "queued",
     "failed", "cancelled"} \subseteq TaskStates
BY DEF TaskStates, TerminalStates, NonTerminalStates

LEMMA RowKept == UNCHANGED <<row, saved, rejected>> => RowMoves
BY DEF RowMoves

LEMMA RowStep == TypedInv /\ [Next]_vars => RowMoves
<1> SUFFICES ASSUME TypedInv, [Next]_vars PROVE RowMoves
  OBVIOUS
<1> row \in Rows BY DEF TypedInv, TypeOK
<1>1. CASE UNCHANGED vars BY <1>1, RowKept DEF vars
<1>2. CASE Hooks
  BY <1>2, RowKept DEF Hooks, WorkSignal, AskQuestion, StopHook, EndHook,
     WriteLine, HookFrame, dbVars, factVars
<1>3. CASE \/ Prompt \/ TakeFromChannel \/ TakeFromSpool \/ ReplayEnds
           \/ ReplayBegins \/ Sweep \/ Crash \/ SilencePasses \/ StopUnknown
           \/ ReadUnwritten \/ Discard \/ Publish
  BY <1>3, RowKept DEF Prompt, TakeFromChannel, TakeFromSpool, ReplayEnds,
     ReplayBegins, ReadUnwritten, Discard, Sweep, Crash, SilencePasses,
     StopUnknown, Ignore, Publish, HookFrame, dbVars, factVars
<1>4. ASSUME NEW event, Isolate(event) PROVE RowMoves
  BY <1>4, RowKept DEF Isolate, dbVars, factVars
<1>5. CASE Ignore BY <1>5, RowKept DEF Ignore, dbVars, factVars
<1>6. CASE SignOfWork
  <2>1. CASE Judged("Start") = "ok" /\ row' = Applied(row, "Start")
    <3>1. Legal(row.state, "Start")
      BY <1>6, <2>1, HandlersWrite DEF SignOfWork, Handlers
    <3>2. QED BY <2>1, <3>1, ArrowTargets, OrdinaryMove
  <2>2. QED BY <1>6, <1>4, <2>1, RowKept DEF SignOfWork, dbVars, factVars
<1>7. CASE Park
  <2> DEFINE events == ParkEvents(hand.view.state)
  <2>1. CASE /\ hand.view.state \in {"dispatched", "running", "escalated"}
             /\ Judged(events[1]) = "ok" /\ Apply(events)
    <3>1. hand.view = row /\ Legal(row.state, events[1])
      BY <1>7, <2>1, HandlersWrite DEF Park, Hearing, Handlers
    <3>2. Moved(row, row', {"waiting_input"})
      BY <2>1, <3>1, ParkMoves DEF Apply
    <3>3. QED BY <3>2, TaskStateNames DEF RowMoves, Moved
  <2>2. QED BY <1>7, <1>4, <1>5, <2>1 DEF Park
<1>8. CASE StopFailed
  <2>1. CASE Judged("Fail") = "ok" /\ row' = Applied(row, "Fail")
    <3>1. Legal(row.state, "Fail")
      BY <1>8, <2>1, HandlersWrite DEF StopFailed, Hearing, Handlers
    <3>2. QED BY <2>1, <3>1, EndTargets, OrdinaryMove
  <2>2. QED BY <1>8, <1>4, <1>5, <2>1 DEF StopFailed
<1>9. CASE Escalate
  <2>1. CASE Judged("Escalate") = "ok" /\ Apply(<<"Escalate">>)
    <3>1. Legal(row.state, "Escalate")
      BY <1>9, <2>1, HandlersWrite DEF Escalate, Handlers
    <3>2. row' = Applied(row, "Escalate") BY <2>1, AllOfOne DEF Apply
    <3>3. QED BY <3>1, <3>2, ArrowTargets, OrdinaryMove
  <2>2. QED BY <1>9, <1>4, <2>1 DEF Escalate
<1>10. CASE StopCompleted
  <2> DEFINE events == StopEvents(hand.view.state)
  <2>1. CASE /\ hand.view.state \in CompletableStates
             /\ Judged(events[1]) = "ok" /\ row' = AppliedAll(row, events)
             /\ saved' = ArtifactOf(hand.sig) /\ UNCHANGED factVars
    <3>1. hand.view = row /\ Legal(row.state, events[1])
      BY <1>10, <2>1, HandlersWrite DEF StopCompleted, Hearing, Handlers
    <3>2. Moved(row, row', IF HumanReview THEN {"verifying"}
                           ELSE {"publishing"})
      BY <2>1, <3>1, StopMoves
    <3>3. Brings BY <1>10, <2>1 DEF Brings, StopCompleted, Hearing
    <3>4. row.state # "verifying" BY <2>1, <3>1 DEF CompletableStates
    <3>5. QED BY <2>1, <3>2, <3>3, <3>4, TaskStateNames
              DEF RowMoves, Moved, factVars
  <2>2. QED BY <1>10, <1>4, <1>5, <2>1 DEF StopCompleted, StopEvents
<1>11. CASE Complete
  <2>1. CASE /\ Judged("Complete") = "ok" /\ row' = Applied(row, "Complete")
             /\ saved' = saved
    <3>1. Legal(row.state, "Complete")
      BY <1>11, <2>1, HandlersWrite DEF Complete, Handlers
    <3>2. row'.state = "done" /\ Moved(row, row', TaskStates)
      <4>1. /\ row' \in Rows /\ row'.version = row.version + 1
            /\ row'.state = "done"
        BY <2>1, <3>1, ArrowTargets, OneApplied
      <4>2. row.version \in Nat BY DEF Rows
      <4>3. row'.state \in TaskStates BY <4>1 DEF Rows
      <4>4. QED BY <4>1, <4>2, <4>3 DEF Moved
    <3>3. QED BY <1>11, <2>1, <3>2 DEF RowMoves, Complete
  <2>2. QED BY <1>11, <1>4, <2>1 DEF Complete
<1>12. CASE PublishFails
  <2>1. CASE Judged("Fail") = "ok" /\ row' = Applied(row, "Fail")
    <3>1. Legal(row.state, "Fail")
      BY <1>12, <2>1, HandlersWrite DEF PublishFails, Handlers
    <3>2. QED BY <2>1, <3>1, EndTargets, OrdinaryMove
  <2>2. QED BY <1>12, <2>1, RowKept DEF PublishFails
<1>13. CASE Dispatch
  <2>1. row.state = "queued" /\ row' = Applied(row, "Dispatch")
    BY <1>13 DEF Dispatch
  <2>2. QED BY <2>1, Arrowed, ArrowTargets, OrdinaryMove
<1>14. CASE Cancel BY <1>14, EndTargets, OrdinaryMove DEF Cancel
<1>15. CASE Retry BY <1>15, EndTargets, OrdinaryMove DEF Retry
<1>16. CASE Approve
  <2>1. /\ row.state = "verifying" /\ row' = Applied(row, "ApproveVerification")
        /\ saved' \in approved'
    BY <1>16 DEF Approve
  <2>2. /\ row' \in Rows /\ row'.version = row.version + 1
        /\ row'.state = "publishing"
    BY <2>1, Arrowed, ArrowTargets, OneApplied
  <2>3. row.version \in Nat BY DEF Rows
  <2>4. QED BY <2>1, <2>2, <2>3, TaskStateNames DEF RowMoves, Moved
<1>17. CASE Reject
  <2>1. row.state = "verifying" /\ row' = Applied(row, "VerificationFailed")
    BY <1>17 DEF Reject
  <2>2. QED BY <2>1, Arrowed, ArrowTargets, OrdinaryMove
<1>18. CASE Restart
  <2>1. PICK answer \in AttachAnswers :
          LET steps == ResumeSteps(row.state, answer)
          IN  row' = IF steps \subseteq {<<>>} THEN row
                     ELSE AppliedAll(row, CHOOSE s \in steps : TRUE)
    BY <1>18 DEF Restart
  <2>2. UNCHANGED <<saved, rejected>> BY <1>18 DEF Restart, factVars
  <2>3. CASE row' = row BY <2>2, <2>3, RowKept
  <2>4. CASE ~(ResumeSteps(row.state, answer) \subseteq {<<>>})
    <3>1. /\ row.state # "verifying"
          /\ Moved(row, row', {"running", "waiting_input", "publishing"})
      BY <2>1, <2>4, ResumeMoves
    <3>2. QED BY <3>1, TaskStateNames DEF RowMoves, Moved
  <2>5. QED BY <2>1, <2>3, <2>4
<1>19. QED
  BY <1>1, <1>2, <1>3, <1>6, <1>7, <1>8, <1>9, <1>10, <1>11, <1>12, <1>13,
     <1>14, <1>15, <1>16, <1>17, <1>18 DEF Next, Handling, People

-----------------------------------------------------------------------------
(* What a step does to the queues, and to what is in hand. *)

Queued(old, new) == \E sig \in Signals : new = Append(old, sig)

\* a hook creates a file, or is done with one
Filed == \E sig \in Signals : spool' = Append(spool, Opened(sig))

Written ==
    \E i \in 1..Len(spool), written \in BOOLEAN :
      /\ spool[i].open
      /\ spool' = [spool EXCEPT ![i] = [sig |-> spool[i].sig,
                                       whole |-> written, open |-> FALSE]]

\* what the hooks do to the queues
Posted ==
    /\ spool' = spool \/ Filed \/ Written
    /\ channel' = channel \/ Queued(channel, channel')
    /\ listed' = listed

(***************************************************************************)
(* A file is deleted only when the first of the spool is recorded, or was  *)
(* read unwritten, and nothing is in hand any more.                        *)
(***************************************************************************)
QueueMoves ==
    /\ \/ spool' = spool /\ listed' = listed
       \/ /\ spool' = spool /\ listed' \in {0, Len(spool)}
          /\ pc' \in {"down", "replay", "idle"} \/ hand'.from = "recovery"
          /\ pc' # "discard"
       \/ (Filed \/ Written) /\ listed' = listed
       \/ /\ listed > 0 /\ spool' = Tail(spool) /\ listed' = listed - 1
          /\ pc = "discard" \/ Head(spool).sig \in log'
          /\ pc' \notin Handlers \cup {"discard"}
    /\ \/ channel' \in {channel, <<>>}
       \/ Queued(channel, channel')
       \/ channel # <<>> /\ channel' = Tail(channel)
    /\ log \subseteq log' /\ log' \subseteq Signals

\* a new signal is taken in hand: the first of one of the queues
Taken(sig) ==
    /\ pc \notin Handlers /\ pc' = "signal" /\ row' = row
    /\ sig \in Signals \ log /\ sig \in log'
    /\ \E from \in {"channel", "spool"} :
         /\ hand' = [sig |-> sig, view |-> row, from |-> from]
         /\ from = "spool" => /\ listed > 0 /\ Head(spool).whole
                              /\ sig = Head(spool).sig
                              /\ UNCHANGED <<spool, listed>>

HandMoves ==
    \/ /\ hand' \in {hand, EmptyHand}
       /\ pc' \in {"down", "replay", "idle"}
    \/ /\ pc \in Handlers /\ hand' = hand
       /\ pc' = pc \/ pc' \in {"escalate", "complete"}
    \/ /\ pc' = "discard" /\ hand' = hand /\ listed > 0 /\ listed' = listed
    \/ /\ pc = "signal" /\ pc' = "publish" /\ UNCHANGED <<spool, listed>>
       /\ hand' = [hand EXCEPT !.view = row']
    \/ \E sig \in Signals : Taken(sig)
    \/ /\ pc' \in {"escalate", "publish"}
       /\ \E from \in {"channel", "recovery"} :
            hand' = [sig |-> NoSignal, view |-> row', from |-> from]

LEMMA HeadOfSignals ==
    ASSUME NEW q \in Seq(Signals), q # <<>>
    PROVE  Head(q) \in Signals /\ Tail(q) \in Seq(Signals)
BY HeadTailProperties

\* the spool, and the first file on the list of a replay
LEMMA FirstListed ==
    ASSUME TypedInv
    PROVE  /\ spool \in Seq(Files) /\ listed \in Nat /\ Len(spool) \in Nat
           /\ listed <= Len(spool)
           /\ listed > 0 => /\ spool # <<>> /\ Head(spool) \in Files
                            /\ Head(spool) = spool[1] /\ 1 \in 1..Len(spool)
                            /\ Tail(spool) \in Seq(Files)
                            /\ Len(Tail(spool)) = Len(spool) - 1
<1>1. spool \in Seq(Files) /\ listed \in Nat /\ listed <= Len(spool)
  BY DEF TypedInv, TypeOK, FileInHand
<1>2. Len(spool) \in Nat BY <1>1, LenProperties
<1>3. ASSUME listed > 0 PROVE spool # <<>>
  BY <1>1, <1>2, <1>3, EmptySeq
<1>4. spool # <<>> => /\ Head(spool) \in Files /\ Tail(spool) \in Seq(Files)
                      /\ Len(Tail(spool)) = Len(spool) - 1
                      /\ Head(spool) = spool[1]
  BY <1>1, HeadTailProperties
<1>5. QED BY <1>1, <1>2, <1>3, <1>4

LEMMA PostMoves ==
    ASSUME TypedInv, NEW event, NEW status, pane.does # "gone",
           Says(event, status)
    PROVE  Posted
<1> DEFINE sig == [run |-> pane.run, turn |-> pane.turn, event |-> event,
                   status |-> status]
<1>1. <<event, status>> \in SignalKinds BY KindsAssumption DEF Says
<1>2. pane.run \in 1..MaxRuns /\ pane.turn \in 1..MaxTurns
  BY DEF TypedInv, PaneIsPrompted
<1>3. sig = [run |-> pane.run, turn |-> pane.turn,
             event |-> <<event, status>>[1], status |-> <<event, status>>[2]]
  OBVIOUS
<1>4. sig \in Signals
  BY <1>1, <1>2, <1>3 DEF Signals
<1>5. Post(sig) /\ listed' = listed BY DEF Says
<1> HIDE DEF sig
<1>6. QED BY <1>4, <1>5 DEF Post, Posted, Filed, Queued, queueVars

LEMMA WriteMoves ==
    ASSUME TypedInv, WriteLine
    PROVE  Posted
<1>1. PICK i \in 1..Len(spool), written \in BOOLEAN :
        /\ spool[i].open
        /\ spool' = [spool EXCEPT ![i].whole = written, ![i].open = FALSE]
  BY DEF WriteLine
<1>2. spool \in Seq(Files) BY FirstListed
<1>3. spool[i] \in Files BY <1>2, ElementOfSeq
<1>4. [[spool[i] EXCEPT !.whole = written] EXCEPT !.open = FALSE]
        = [sig |-> spool[i].sig, whole |-> written, open |-> FALSE]
  <2>1. PICK sig \in Signals, whole \in BOOLEAN, open \in BOOLEAN :
          spool[i] = [sig |-> sig, whole |-> whole, open |-> open]
    BY <1>3 DEF Files
  <2>2. [spool[i] EXCEPT !.whole = written]
          = [sig |-> sig, whole |-> written, open |-> open]
    BY <2>1
  <2>3. [[sig |-> sig, whole |-> written, open |-> open] EXCEPT !.open = FALSE]
          = [sig |-> sig, whole |-> written, open |-> FALSE]
    <3>1. \A shut \in BOOLEAN :
            [[sig |-> sig, whole |-> written, open |-> open] EXCEPT !.open = shut]
              = [sig |-> sig, whole |-> written, open |-> shut]
      OBVIOUS
    <3>2. FALSE \in BOOLEAN OBVIOUS
    <3>3. QED BY <3>1, <3>2, Zenon
  <2>4. spool[i].sig = sig BY <2>1
  <2>5. QED BY <2>2, <2>3, <2>4
<1>5. spool' = [spool EXCEPT ![i] = [sig |-> spool[i].sig,
                                     whole |-> written, open |-> FALSE]]
  <2>1. [spool EXCEPT ![i].whole = written]
          = [spool EXCEPT ![i] = [spool[i] EXCEPT !.whole = written]]
    OBVIOUS
  <2> DEFINE begun == [spool[i] EXCEPT !.whole = written]
             mid == [spool EXCEPT ![i] = begun]
  <2>2. begun \in Files BY <1>3 DEF Files
  <2>3. mid \in Seq(Files) /\ Len(mid) = Len(spool) /\ mid[i] = begun
    BY <1>2, <2>2, ExceptSeq
  <2>4. spool' = [mid EXCEPT ![i] = [mid[i] EXCEPT !.open = FALSE]]
    BY <1>1, <2>1
  <2>5. [mid EXCEPT ![i] = [begun EXCEPT !.open = FALSE]]
          = [spool EXCEPT ![i] = [begun EXCEPT !.open = FALSE]]
    OBVIOUS
  <2>6. QED BY <1>4, <2>3, <2>4, <2>5
<1>6. channel' = channel /\ listed' = listed BY DEF WriteLine
<1>7. QED BY <1>1, <1>5, <1>6 DEF Posted, Written

\* how a handler ends
LEMMA Settled ==
    ASSUME TypedInv, pc \in Handlers, Settle, log' = log
    PROVE  QueueMoves /\ HandMoves
<1>1. hand.from = "spool" => listed > 0 /\ Head(spool).sig \in log
  BY DEF TypedInv, FileInHand
<1>2. log \subseteq Signals /\ hand.from \in {"channel", "spool", "recovery"}
  BY DEF TypedInv, TypeOK
<1>3. pc' \in {"idle", "replay"} /\ hand' = EmptyHand
  BY DEF Settle, Resting
<1>4. HandMoves BY <1>3 DEF HandMoves
<1>5. channel' = channel BY DEF Settle
<1>6. CASE hand.from = "spool"
  <2>1. spool' = Tail(spool) /\ listed' = listed - 1
    BY <1>6 DEF Settle, Replayed
  <2>2. QED BY <1>1, <1>2, <1>3, <1>4, <1>5, <1>6, <2>1
            DEF QueueMoves, Handlers
<1>7. CASE hand.from # "spool"
  <2>1. spool' = spool /\ listed' \in {listed, Len(spool)}
    BY <1>2, <1>7 DEF Settle
  <2>2. QED BY <1>2, <1>3, <1>4, <1>5, <2>1 DEF QueueMoves
<1>8. QED BY <1>6, <1>7

LEMMA Vanished ==
    ASSUME TypedInv, Vanish, log' = log
    PROVE  QueueMoves /\ HandMoves
<1>1. log \subseteq Signals BY DEF TypedInv, TypeOK
<1>2. QED BY <1>1 DEF Vanish, QueueMoves, HandMoves

LEMMA Isolated ==
    ASSUME TypedInv, pc \in Handlers, NEW event, Isolate(event)
    PROVE  QueueMoves /\ HandMoves
BY Settled, Vanished DEF Isolate, dbVars

LEMMA HandKept ==
    ASSUME TypedInv, UNCHANGED <<pc, hand, log>>, Posted
    PROVE  QueueMoves /\ HandMoves
<1>1. /\ log \subseteq Signals
      /\ \/ pc \in {"down", "replay", "idle"} \/ pc \in Handlers
         \/ pc = "discard" /\ listed > 0
  BY DEF TypedInv, TypeOK, Handlers, FileInHand
<1>2. QueueMoves BY <1>1 DEF QueueMoves, Posted
<1>3. HandMoves BY <1>1 DEF HandMoves, Posted
<1>4. QED BY <1>2, <1>3

LEMMA QueueStep == TypedInv /\ [Next]_vars => QueueMoves /\ HandMoves
<1> SUFFICES ASSUME TypedInv, [Next]_vars PROVE QueueMoves /\ HandMoves
  OBVIOUS
<1>t. /\ channel \in Seq(Signals) /\ log \subseteq Signals
  BY DEF TypedInv, TypeOK
<1>k. UNCHANGED queueVars => Posted BY DEF queueVars, Posted
<1>1. CASE UNCHANGED vars BY <1>1, <1>k, HandKept DEF vars, queueVars
<1>2. CASE Hooks
  <2>1. UNCHANGED <<pc, hand, log>>
    BY <1>2 DEF Hooks, WorkSignal, AskQuestion, StopHook, EndHook, WriteLine,
       HookFrame, doVars, dbVars
  <2>2. \/ WriteLine
        \/ pane.does # "gone" /\ \E event, status : Says(event, status)
    BY <1>2 DEF Hooks, WorkSignal, AskQuestion, StopHook, EndHook
  <2>3. QED BY <2>1, <2>2, PostMoves, WriteMoves, HandKept
<1>3. CASE People
  BY <1>3, <1>k, HandKept DEF People, Prompt, Cancel, Retry, Approve, Reject,
     HookFrame, doVars, dbVars
<1>4. CASE Dispatch \/ SilencePasses
  BY <1>4, <1>k, HandKept DEF Dispatch, SilencePasses, doVars
<1>5. CASE TakeFromChannel
  <2> DEFINE sig == Head(channel)
  <2>1. /\ channel # <<>> /\ channel' = Tail(channel)
        /\ UNCHANGED <<spool, listed>>
        /\ log' = log \cup {sig} /\ sig \in Signals /\ row' = row
        /\ pc = "idle"
    BY <1>5, <1>t, HeadOfSignals DEF TakeFromChannel, Record
  <2>2. QueueMoves BY <1>t, <2>1 DEF QueueMoves
  <2>3. CASE sig \notin log
    <3>1. /\ pc' = "signal"
          /\ hand' = [sig |-> sig, view |-> row, from |-> "channel"]
      BY <1>5, <2>3 DEF TakeFromChannel, Recorded
    <3>2. Taken(sig) BY <2>1, <2>3, <3>1 DEF Taken, Handlers
    <3>3. HandMoves BY <2>1, <3>2 DEF HandMoves
    <3>4. QED BY <2>2, <3>3
  <2>4. CASE sig \in log
    <3>1. UNCHANGED doVars BY <1>5, <2>4 DEF TakeFromChannel, Recorded
    <3>2. HandMoves BY <2>1, <3>1 DEF HandMoves, doVars
    <3>3. QED BY <2>2, <3>2
  <2>5. QED BY <2>3, <2>4
<1>6. CASE TakeFromSpool
  <2> DEFINE sig == Head(spool).sig
  <2>1. /\ listed > 0 /\ Head(spool).whole /\ channel' = channel
        /\ log' = log \cup {sig} /\ row' = row /\ pc = "replay"
    BY <1>6 DEF TakeFromSpool, Record
  <2>s. sig \in Signals BY <2>1, FirstListed DEF Files
  <2>2. CASE sig \notin log
    <3>1. /\ pc' = "signal" /\ UNCHANGED <<spool, listed>>
          /\ hand' = [sig |-> sig, view |-> row, from |-> "spool"]
      BY <1>6, <2>2 DEF TakeFromSpool, Recorded
    <3>2. Taken(sig) BY <2>1, <2>s, <2>2, <3>1 DEF Taken, Handlers
    <3>3. HandMoves BY <2>s, <3>2 DEF HandMoves
    <3>4. QueueMoves BY <1>t, <2>1, <2>s, <3>1 DEF QueueMoves
    <3>5. QED BY <3>3, <3>4
  <2>3. CASE sig \in log
    <3>1. UNCHANGED doVars /\ spool' = Tail(spool) /\ listed' = listed - 1
      BY <1>6, <2>3 DEF TakeFromSpool, Recorded, Replayed
    <3>2. HandMoves BY <2>1, <3>1 DEF HandMoves, doVars
    <3>3. QueueMoves
      BY <1>t, <2>1, <2>s, <3>1 DEF QueueMoves, doVars, Handlers
    <3>4. QED BY <3>2, <3>3
  <2>4. QED BY <2>2, <2>3
<1>21. CASE ReadUnwritten
  BY <1>t, <1>21 DEF ReadUnwritten, QueueMoves, HandMoves, queueVars, dbVars
<1>22. CASE Discard
  <2>1. /\ pc = "discard" /\ pc' = "replay" /\ listed > 0
        /\ spool' = Tail(spool) /\ listed' = listed - 1
        /\ UNCHANGED <<hand, channel, log>>
    BY <1>22 DEF Discard, Replayed, dbVars, TypedInv, FileInHand
  <2>2. QED BY <1>t, <2>1 DEF QueueMoves, HandMoves, Handlers
<1>7. CASE ReplayEnds \/ ReplayBegins
  <2>1. /\ pc' \in {"idle", "replay"} /\ listed' \in {listed, Len(spool)}
        /\ UNCHANGED <<hand, spool, channel, log>>
    BY <1>7 DEF ReplayEnds, ReplayBegins, dbVars, queueVars
  <2>2. QED BY <1>t, <2>1 DEF QueueMoves, HandMoves
<1>8. CASE Sweep
  <2>1. /\ pc' = "escalate" /\ UNCHANGED <<row, spool, listed, channel, log>>
        /\ hand' = [sig |-> NoSignal, view |-> row', from |-> "channel"]
    BY <1>8 DEF Sweep, EmptyHand, dbVars, queueVars
  <2>2. QED BY <1>t, <2>1 DEF QueueMoves, HandMoves
<1>9. CASE SignOfWork
  <2>1. pc \in Handlers BY <1>9 DEF SignOfWork, Handlers
  <2>2. \/ Settle /\ log' = log
        \/ Isolate("Start")
    BY <1>9 DEF SignOfWork, dbVars
  <2>3. QED BY <2>1, <2>2, Settled, Isolated
<1>10. CASE Park
  <2>1. pc \in Handlers BY <1>10 DEF Park, Hearing, Handlers
  <2>2. \/ Settle /\ log' = log
        \/ \E event : Isolate(event)
    BY <1>10 DEF Park, Apply, Ignore, dbVars
  <2>3. QED BY <2>1, <2>2, Settled, Isolated
<1>11. CASE StopFailed
  <2>1. pc \in Handlers BY <1>11 DEF StopFailed, Hearing, Handlers
  <2>2. \/ Settle /\ log' = log
        \/ Isolate("Fail")
    BY <1>11 DEF StopFailed, Ignore, dbVars
  <2>3. QED BY <2>1, <2>2, Settled, Isolated
<1>12. CASE StopUnknown
  <2>1. pc \in Handlers BY <1>12 DEF StopUnknown, Hearing, Handlers
  <2>2. CASE Ignore BY <2>1, <2>2, Settled DEF Ignore, dbVars
  <2>3. CASE /\ pc' = "escalate"
             /\ UNCHANGED <<dbVars, queueVars, memVars, hand, agentVars,
                            factVars, boundVars>>
    BY <1>t, <2>1, <2>3 DEF QueueMoves, HandMoves, dbVars, queueVars
  <2>4. QED BY <1>12, <2>2, <2>3 DEF StopUnknown
<1>13. CASE Escalate
  <2>1. pc \in Handlers BY <1>13 DEF Escalate, Handlers
  <2>2. \/ Settle /\ log' = log
        \/ Isolate("Escalate")
    BY <1>13 DEF Escalate, Apply
  <2>3. QED BY <2>1, <2>2, Settled, Isolated
<1>14. CASE StopCompleted
  <2>1. pc = "signal" /\ pc \in Handlers
    BY <1>14 DEF StopCompleted, Hearing, Handlers
  <2>2. \/ Settle /\ log' = log
        \/ /\ pc' = "publish" /\ hand' = [hand EXCEPT !.view = row']
           /\ UNCHANGED <<queueVars, log>>
        \/ \E event : Isolate(event)
    BY <1>14 DEF StopCompleted, Ignore, dbVars
  <2>3. CASE /\ pc' = "publish" /\ hand' = [hand EXCEPT !.view = row']
             /\ UNCHANGED <<queueVars, log>>
    BY <1>t, <2>1, <2>3 DEF QueueMoves, HandMoves, queueVars
  <2>4. QED BY <2>1, <2>2, <2>3, Settled, Isolated
<1>15. CASE Publish
  <2>1. /\ pc \in Handlers /\ pc' = "complete"
        /\ UNCHANGED <<hand, spool, listed, channel, log>>
    BY <1>15 DEF Publish, Handlers, dbVars, queueVars
  <2>2. QED BY <1>t, <2>1 DEF QueueMoves, HandMoves
<1>16. CASE Complete
  <2>1. pc \in Handlers BY <1>16 DEF Complete, Handlers
  <2>2. \/ Settle /\ log' = log
        \/ Isolate("Complete")
    BY <1>16 DEF Complete
  <2>3. QED BY <2>1, <2>2, Settled, Isolated
<1>17. CASE PublishFails
  <2>1. pc \in Handlers BY <1>17 DEF PublishFails, Handlers
  <2>2. (Settle \/ Vanish) /\ log' = log
    BY <1>17 DEF PublishFails
  <2>3. QED BY <2>1, <2>2, Settled, Vanished
<1>18. CASE Crash BY <1>18, Vanished DEF Crash, dbVars
<1>19. CASE Restart
  <2>1. /\ UNCHANGED <<spool, channel, log>> /\ listed' \in {0, Len(spool)}
        /\ \/ pc' = "replay" /\ hand' = EmptyHand
           \/ /\ pc' = "publish"
              /\ hand' = [sig |-> NoSignal, view |-> row', from |-> "recovery"]
    BY <1>19 DEF Restart, EmptyHand
  <2>2. QED BY <1>t, <2>1 DEF QueueMoves, HandMoves
<1>20. QED
  BY <1>1, <1>2, <1>3, <1>4, <1>5, <1>6, <1>7, <1>8, <1>9, <1>10, <1>11,
     <1>12, <1>13, <1>14, <1>15, <1>16, <1>17, <1>18, <1>19, <1>21, <1>22
  DEF Next, Handling

-----------------------------------------------------------------------------
(* Types. *)

\* the variables that are neither the row, nor a queue, nor in hand
RestOK ==
    /\ saved \in Artifacts \cup {None} /\ streak \in Nat
    /\ anchor \in {"none", "recent", "old"} /\ run \in 0..MaxRuns
    /\ output \in Artifacts \cup {None} /\ awaiting \in BOOLEAN
    /\ pane \in [run : 0..MaxRuns, turn : 0..MaxTurns,
                 does : {"working", "stopped", "gone"}, blocked : BOOLEAN]
    /\ turns \in 0..MaxTurns
    /\ published \subseteq Artifacts
    /\ approved \subseteq Artifacts /\ rejected \subseteq Artifacts
    /\ heard \in BOOLEAN /\ asked \in Nat /\ crashes \in Nat
    /\ PaneIsPrompted

LEMMA ArtifactOfSignal ==
    ASSUME NEW sig \in Signals
    PROVE  ArtifactOf(sig) \in Artifacts /\ ArtifactOf(sig) # None
BY LimitsAssumption DEF Signals, ArtifactOf, Artifacts, None

LEMMA PublicationTyped ==
    ASSUME TypedInv
    PROVE  Publication \in Artifacts
BY DEF TypedInv, TypeOK, Publication, Artifacts

\* what handlers leave alone
LEMMA RestKept ==
    ASSUME RestOK, UNCHANGED <<saved, streak, anchor, run>>,
           UNCHANGED <<pane, turns, asked, crashes>>, UNCHANGED factVars,
           output' \in {output, None}, awaiting' \in BOOLEAN
    PROVE  RestOK'
BY DEF RestOK, factVars, PaneIsPrompted

LEMMA RestIsolated ==
    ASSUME RestOK, NEW event, Isolate(event) PROVE RestOK'
<1>1. output' \in {output, None} /\ awaiting' \in BOOLEAN
  BY DEF Isolate, ForgetTask, Vanish
<1>2. UNCHANGED <<dbVars, agentVars, factVars, boundVars>> BY DEF Isolate
<1>3. QED BY <1>1, <1>2, RestKept DEF dbVars, agentVars, boundVars

LEMMA RestIgnored ==
    ASSUME RestOK, Ignore PROVE RestOK'
<1>1. awaiting \in BOOLEAN BY DEF RestOK
<1>2. QED BY <1>1, RestKept DEF Ignore, dbVars, memVars, agentVars, boundVars

LEMMA RestHook ==
    ASSUME RestOK, UNCHANGED <<dbVars, memVars, factVars, boundVars>>,
           turns' = turns \/ turns' = turns + 1, turns' \in 0..MaxTurns,
           pane' \in [run : {pane.run}, turn : {pane.turn} \cup {turns'},
                      does : {"working", "stopped", "gone"},
                      blocked : BOOLEAN],
           pane'.does # "gone" => pane.does # "gone",
           pane'.turn # pane.turn => turns' = turns + 1
    PROVE  RestOK'
<1>1. PaneIsPrompted'
  BY LimitsAssumption DEF RestOK, PaneIsPrompted
<1>2. pane' \in [run : 0..MaxRuns, turn : 0..MaxTurns,
                 does : {"working", "stopped", "gone"}, blocked : BOOLEAN]
  BY DEF RestOK
<1>3. QED BY <1>1, <1>2 DEF RestOK, dbVars, memVars, factVars, boundVars

LEMMA RestStep == TypedInv /\ [Next]_vars => RestOK'
<1> SUFFICES ASSUME TypedInv, [Next]_vars PROVE RestOK'
  OBVIOUS
<1>t. RestOK BY DEF TypedInv, TypeOK, RestOK
<1>b. awaiting \in BOOLEAN /\ output \in Artifacts \cup {None} BY <1>t DEF RestOK
<1>1. CASE UNCHANGED vars
  BY <1>t, <1>b, <1>1, RestKept DEF vars, factVars
<1>2. CASE Hooks
  <2>1. /\ UNCHANGED <<turns, dbVars, memVars, factVars, boundVars>>
        /\ \/ pane' = pane
           \/ pane.does # "gone" /\ pane' = [pane EXCEPT !.blocked = TRUE]
           \/ pane.does # "gone" /\ pane' = [pane EXCEPT !.does = "stopped"]
           \/ pane' = [pane EXCEPT !.does = "gone"]
    BY <1>2 DEF Hooks, WorkSignal, AskQuestion, StopHook, EndHook, WriteLine,
              HookFrame,   agentVars
  <2>2. QED BY <1>t, <2>1, RestHook DEF RestOK
<1>3. CASE Prompt
  <2>1. /\ UNCHANGED <<dbVars, memVars, factVars, boundVars>>
        /\ pane.does = "stopped" /\ turns' = turns + 1 /\ turns < MaxTurns
        /\ pane' = [pane EXCEPT !.turn = turns + 1, !.does = "working",
                                !.blocked = FALSE]
    BY <1>3 DEF Prompt, HookFrame
  <2>2. turns' \in 0..MaxTurns
    BY <1>t, <2>1, LimitsAssumption DEF RestOK
  <2>3. QED BY <1>t, <2>1, <2>2, RestHook DEF RestOK
<1>4. CASE SilencePasses
  BY <1>t, <1>4 DEF SilencePasses, RestOK, memVars, agentVars, factVars,
     boundVars, PaneIsPrompted
<1>5. CASE TakeFromChannel \/ TakeFromSpool
  <2>1. /\ UNCHANGED <<saved, run, output, pane, turns, published, approved,
                       rejected, asked, crashes>>
        /\ streak' \in {streak, streak + 1, 0}
        /\ anchor' = "recent" /\ awaiting' \in BOOLEAN /\ heard' = TRUE
    <3>1. \E sig : Record(sig) /\ Touch(sig)
      BY <1>5 DEF TakeFromChannel, TakeFromSpool
    <3>2. PICK sig : Record(sig) /\ Touch(sig) BY <3>1
    <3>3. streak' \in {streak, streak + 1, 0} BY <3>2 DEF Record
    <3>4. anchor' = "recent" /\ awaiting' \in BOOLEAN /\ heard' = TRUE
      BY <3>2 DEF Touch
    <3>5. UNCHANGED <<saved, run, output, pane, turns, published, approved,
                      rejected, asked, crashes>>
      BY <1>5 DEF TakeFromChannel, TakeFromSpool, agentVars, boundVars
    <3>6. QED BY <3>3, <3>4, <3>5
  <2>2. QED BY <1>t, <2>1 DEF RestOK, PaneIsPrompted
<1>6. CASE \/ ReplayEnds \/ ReplayBegins \/ ReadUnwritten \/ Discard \/ Sweep
  BY <1>t, <1>b, <1>6, RestKept DEF ReplayEnds, ReplayBegins, ReadUnwritten,
     Discard, Sweep, dbVars, memVars, agentVars, boundVars
<1>7. CASE Dispatch
  <2>1. /\ run' = run + 1 /\ run < MaxRuns /\ turns' = turns + 1
        /\ turns < MaxTurns
        /\ pane' = [run |-> run + 1, turn |-> turns + 1, does |-> "working",
                    blocked |-> FALSE]
        /\ anchor' = "none" /\ heard' = FALSE
        /\ UNCHANGED <<saved, streak, memVars, published, approved, rejected,
                       boundVars>>
    BY <1>7 DEF Dispatch, AnchorAtDispatch
  <2>2. /\ run' \in 1..MaxRuns /\ turns' \in 1..MaxTurns
        /\ run' \in 0..MaxRuns /\ turns' \in 0..MaxTurns
    BY <1>t, <2>1, LimitsAssumption DEF RestOK
  <2>3. /\ pane' \in [run : 0..MaxRuns, turn : 0..MaxTurns,
                      does : {"working", "stopped", "gone"}, blocked : BOOLEAN]
        /\ PaneIsPrompted'
    BY <2>1, <2>2 DEF PaneIsPrompted
  <2>4. QED BY <1>t, <2>1, <2>2, <2>3 DEF RestOK, memVars, boundVars
<1>8. CASE Cancel \/ Retry
  <2>1. /\ UNCHANGED <<saved, streak, anchor, run, agentVars, factVars,
                       crashes>>
        /\ asked' = asked + 1 /\ output' \in {output, None}
        /\ awaiting' \in {awaiting, FALSE}
    BY <1>8 DEF Cancel, Retry, ForgetTask, memVars
  <2>2. /\ asked' \in Nat /\ awaiting' \in BOOLEAN
        /\ output' \in Artifacts \cup {None}
    <3>1. asked \in Nat BY <1>t DEF RestOK
    <3>2. asked' \in Nat BY <2>1, <3>1
    <3>3. awaiting' \in BOOLEAN BY <1>b, <2>1, Zenon
    <3>4. output' \in Artifacts \cup {None} BY <1>b, <2>1, Zenon
    <3>5. QED BY <3>2, <3>3, <3>4
  <2>3. PaneIsPrompted' /\ UNCHANGED <<pane, turns>>
    BY <1>t, <2>1 DEF RestOK, PaneIsPrompted, agentVars
  <2>4. UNCHANGED <<saved, streak, anchor, run, published, approved, rejected,
                    heard, crashes>>
    BY <2>1 DEF factVars
  <2>5. QED BY <1>t, <2>2, <2>3, <2>4 DEF RestOK
<1>9. CASE Approve \/ Reject
  <2>1. saved \in Artifacts
    BY <1>9 DEF TypedInv, TypeOK, AskedAboutSomething, Approve, Reject
  <2>2. /\ UNCHANGED <<saved, streak, anchor, run, memVars, agentVars,
                       published, heard, boundVars>>
        /\ approved' \in {approved, approved \cup {saved}}
        /\ rejected' \in {rejected, rejected \cup {saved}}
    BY <1>9 DEF Approve, Reject
  <2>3. QED BY <1>t, <2>1, <2>2 DEF RestOK, PaneIsPrompted, memVars,
               agentVars, boundVars
<1>10. CASE SignOfWork
  <2>1. \/ /\ UNCHANGED <<saved, streak, anchor, run, output, agentVars,
                          factVars, boundVars>>
           /\ awaiting' \in BOOLEAN
        \/ Isolate("Start")
    BY <1>10 DEF SignOfWork, dbVars
  <2>2. QED BY <1>t, <2>1, RestKept, RestIsolated DEF agentVars, boundVars
<1>11. CASE Park \/ Escalate
  <2>1. \/ UNCHANGED <<saved, streak, anchor, run, memVars, agentVars,
                       factVars, boundVars>>
        \/ Ignore \/ \E event : Isolate(event)
    BY <1>11 DEF Park, Escalate, Apply
  <2>2. QED BY <1>t, <1>b, <2>1, RestKept, RestIgnored, RestIsolated
            DEF memVars, agentVars, boundVars
<1>12. CASE StopFailed \/ Complete
  <2>1. \/ /\ UNCHANGED <<saved, streak, anchor, run, awaiting, agentVars,
                          factVars, boundVars>>
           /\ output' = None
        \/ Ignore \/ \E event : Isolate(event)
    BY <1>12 DEF StopFailed, Complete
  <2>2. QED BY <1>t, <1>b, <2>1, RestKept, RestIgnored, RestIsolated
            DEF agentVars, boundVars
<1>13. CASE StopUnknown
  <2>1. \/ UNCHANGED <<dbVars, memVars, agentVars, factVars, boundVars>>
        \/ Ignore
    BY <1>13 DEF StopUnknown
  <2>2. QED BY <1>t, <1>b, <2>1, RestKept, RestIgnored
            DEF dbVars, memVars, agentVars, boundVars
<1>14. CASE StopCompleted
  <2>1. \/ /\ UNCHANGED <<streak, anchor, run, awaiting, agentVars, factVars,
                          boundVars>>
           /\ saved' = ArtifactOf(hand.sig) /\ output' = ArtifactOf(hand.sig)
        \/ Ignore \/ \E event : Isolate(event)
    BY <1>14 DEF StopCompleted
  <2>2. ArtifactOf(hand.sig) \in Artifacts
    BY <1>14, ArtifactOfSignal
    DEF TypedInv, HandIsRead, StopCompleted, Hearing
  <2>3. CASE /\ UNCHANGED <<streak, anchor, run, awaiting, agentVars,
                            factVars, boundVars>>
             /\ saved' = ArtifactOf(hand.sig)
             /\ output' = ArtifactOf(hand.sig)
    BY <1>t, <2>2, <2>3 DEF RestOK, PaneIsPrompted, agentVars, factVars,
       boundVars
  <2>4. QED BY <1>t, <2>1, <2>3, RestIgnored, RestIsolated
<1>15. CASE Publish
  <2>1. /\ published' = published \cup {Publication}
        /\ UNCHANGED <<dbVars, memVars, agentVars, approved, rejected, heard,
                       boundVars>>
    BY <1>15 DEF Publish
  <2>2. QED BY <1>t, <2>1, PublicationTyped DEF RestOK, PaneIsPrompted,
               dbVars, memVars, agentVars, boundVars
<1>16. CASE PublishFails
  <2>1. /\ published' \in {published, published \cup {Publication}}
        /\ output' = None /\ awaiting' \in {awaiting, FALSE}
        /\ UNCHANGED <<saved, streak, anchor, run, agentVars, approved,
                       rejected, heard, boundVars>>
    BY <1>16 DEF PublishFails, ForgetTask, Vanish
  <2>2. QED BY <1>t, <2>1, PublicationTyped DEF RestOK, PaneIsPrompted,
               agentVars, boundVars
<1>17. CASE Crash
  <2>1. /\ UNCHANGED <<saved, streak, anchor, run, agentVars, factVars, asked>>
        /\ crashes' = crashes + 1 /\ output' = None /\ awaiting' = FALSE
    BY <1>17 DEF Crash, Vanish, dbVars
  <2>2. crashes' \in Nat BY <1>t, <2>1 DEF RestOK
  <2>3. PaneIsPrompted' /\ UNCHANGED <<pane, turns>>
    BY <1>t, <2>1 DEF RestOK, PaneIsPrompted, agentVars
  <2>4. UNCHANGED <<published, approved, rejected, heard>>
    BY <2>1 DEF factVars
  <2>5. QED BY <1>t, <2>1, <2>2, <2>3, <2>4 DEF RestOK
<1>18. CASE Restart
  <2>1. /\ UNCHANGED <<saved, streak, anchor, run, awaiting, agentVars,
                       factVars, boundVars>>
        /\ output' \in {saved, None}
    BY <1>18 DEF Restart, PersistedArtifact
  <2>2. QED BY <1>t, <2>1 DEF RestOK, PaneIsPrompted, agentVars, factVars,
               boundVars
<1>19. QED
  BY <1>1, <1>2, <1>3, <1>4, <1>5, <1>6, <1>7, <1>8, <1>9, <1>10, <1>11,
     <1>12, <1>13, <1>14, <1>15, <1>16, <1>17, <1>18
  DEF Next, Handling, People

\* what is in hand after a step, and that it fits
LEMMA HandStep ==
    ASSUME TypedInv, row' \in Rows, RowMoves, QueueMoves, HandMoves
    PROVE  /\ pc' \in {"down", "replay", "discard", "idle", "signal",
                       "escalate", "publish", "complete"}
           /\ hand' \in [sig : Signals \cup {NoSignal}, view : Rows,
                         from : {"channel", "spool", "recovery"}]
           /\ HandIsRead'
<1> DEFINE Hands == [sig : Signals \cup {NoSignal}, view : Rows,
                     from : {"channel", "spool", "recovery"}]
<1>t. /\ hand \in Hands /\ row \in Rows
      /\ HandIsRead /\ row.version \in Nat
      /\ hand.view.version \in Nat /\ row'.version \in Nat
      /\ pc \in {"down", "replay", "discard", "idle", "signal", "escalate",
                 "publish", "complete"}
  BY DEF TypedInv, TypeOK, Rows
<1>e. EmptyHand \in Hands
  <2>1. "queued" \in TaskStates BY TaskStateNames
  <2>2. [state |-> "queued", version |-> 0] \in Rows BY <2>1 DEF Rows
  <2>3. QED BY <2>2 DEF EmptyHand
<1>1. CASE hand' \in {hand, EmptyHand} /\ pc' \in {"down", "replay", "idle"}
  BY <1>t, <1>e, <1>1 DEF HandIsRead, Handlers
<1>2. CASE /\ pc \in Handlers /\ hand' = hand
           /\ pc' = pc \/ pc' \in {"escalate", "complete"}
  <2>1. pc' \in Handlers BY <1>2 DEF Handlers
  <2>2. HandIsRead'
    <3>1. pc' = "signal" => hand'.sig \in Signals
      BY <1>t, <1>2 DEF HandIsRead
    <3>2. /\ hand.view.version <= row.version
          /\ hand.view.version = row.version => hand.view = row
      BY <1>t, <1>2 DEF HandIsRead
    <3>3. row' = row \/ row'.version > row.version
      BY DEF RowMoves, Moved
    <3>4. /\ hand'.view.version <= row'.version
          /\ hand'.view.version = row'.version => hand'.view = row'
      BY <1>t, <1>2, <3>2, <3>3
    <3>5. QED BY <3>1, <3>4 DEF HandIsRead
  <2>4. QED BY <1>t, <1>2, <2>1, <2>2 DEF Handlers
<1>3. CASE /\ pc = "signal" /\ pc' = "publish"
           /\ hand' = [hand EXCEPT !.view = row']
  <2>1. hand' \in Hands /\ hand'.view = row' /\ hand'.from = hand.from
    BY <1>t, <1>3
  <2>2. HandIsRead' BY <1>t, <1>3, <2>1 DEF HandIsRead
  <2>3. QED BY <1>3, <2>1, <2>2
<1>4. ASSUME NEW sig \in Signals, Taken(sig)
      PROVE  pc' = "signal" /\ hand' \in Hands /\ HandIsRead'
  <2>1. PICK from \in {"channel", "spool"} :
          hand' = [sig |-> sig, view |-> row, from |-> from]
    BY <1>4 DEF Taken
  <2>2. pc' = "signal" /\ row' = row  BY <1>4 DEF Taken
  <2>3. hand' \in Hands BY <1>t, <2>1
  <2>4. HandIsRead' BY <1>t, <2>1, <2>2 DEF HandIsRead
  <2>5. QED BY <2>2, <2>3, <2>4
<1>5. CASE /\ pc' \in {"escalate", "publish"}
           /\ \E from \in {"channel", "recovery"} :
                hand' = [sig |-> NoSignal, view |-> row', from |-> from]
  <2>1. PICK from \in {"channel", "recovery"} :
          hand' = [sig |-> NoSignal, view |-> row', from |-> from]
    BY <1>5
  <2>2. hand' \in Hands BY <2>1
  <2>3. HandIsRead' BY <1>t, <1>5, <2>1 DEF HandIsRead
  <2>4. QED BY <1>5, <2>2, <2>3
<1>7. CASE pc' = "discard" /\ hand' = hand
  BY <1>t, <1>7 DEF HandIsRead, Handlers
<1>6. QED BY <1>1, <1>2, <1>3, <1>4, <1>5, <1>7 DEF HandMoves

\* what the hooks do to the files that are there
LEMMA FilesKept ==
    ASSUME TypedInv, Filed \/ Written
    PROVE  /\ spool' \in Seq(Files) /\ Len(spool') \in Nat
           /\ Len(spool') >= Len(spool) /\ WrittenOnce'
           /\ \A i \in 1..Len(spool) :
                spool[i].whole => i \in 1..Len(spool') /\ spool'[i] = spool[i]
<1>t. spool \in Seq(Files) /\ Len(spool) \in Nat BY FirstListed
<1>w. \A i \in 1..Len(spool) : spool[i].open => ~spool[i].whole
  BY DEF TypedInv, WrittenOnce
<1>1. CASE Filed
  <2>1. PICK sig \in Signals : spool' = Append(spool, Opened(sig))
    BY <1>1 DEF Filed
  <2>2. Opened(sig) \in Files /\ ~Opened(sig).whole BY DEF Opened, Files
  <2>3. /\ spool' \in Seq(Files) /\ Len(spool') = Len(spool) + 1
        /\ \A i \in 1..Len(spool) : spool'[i] = spool[i]
        /\ spool'[Len(spool) + 1] = Opened(sig)
    BY <1>t, <2>1, <2>2, AppendProperties
  <2>4. WrittenOnce' BY <1>t, <1>w, <2>2, <2>3 DEF WrittenOnce
  <2>5. QED BY <1>t, <2>3, <2>4
<1>2. CASE Written
  <2>1. PICK i \in 1..Len(spool), written \in BOOLEAN :
          /\ spool[i].open
          /\ spool' = [spool EXCEPT ![i] = [sig |-> spool[i].sig,
                                            whole |-> written, open |-> FALSE]]
    BY <1>2 DEF Written
  <2>2. spool[i] \in Files BY <1>t, ElementOfSeq
  <2> DEFINE file == [sig |-> spool[i].sig, whole |-> written, open |-> FALSE]
  <2>3. file \in Files /\ ~file.open BY <2>2 DEF Files
  <2> HIDE DEF file
  <2>4. spool' = [spool EXCEPT ![i] = file] BY <2>1 DEF file
  <2>5. /\ spool' \in Seq(Files) /\ Len(spool') = Len(spool)
        /\ \A j \in 1..Len(spool) :
             spool'[j] = IF j = i THEN file ELSE spool[j]
    BY <1>t, <2>3, <2>4, ExceptSeq
  <2>6. WrittenOnce' BY <1>t, <1>w, <2>3, <2>5 DEF WrittenOnce
  <2>7. QED BY <1>t, <1>w, <2>1, <2>5, <2>6
<1>3. QED BY <1>1, <1>2

LEMMA QueueTyped ==
    ASSUME TypedInv, QueueMoves
    PROVE  /\ spool' \in Seq(Files) /\ listed' \in Nat
           /\ channel' \in Seq(Signals) /\ log' \subseteq Signals
           /\ listed' <= Len(spool') /\ WrittenOnce'
<1>1. channel \in Seq(Signals) BY DEF TypedInv, TypeOK
<1>2. \A q \in Seq(Signals) : \A new : Queued(q, new) => new \in Seq(Signals)
  BY AppendProperties DEF Queued
<1>3. <<>> \in Seq(Signals) BY EmptySeq
<1>5. channel' \in Seq(Signals)
  BY <1>1, <1>2, <1>3, HeadOfSignals DEF QueueMoves
<1>t. WrittenOnce BY DEF TypedInv
<1>6. CASE spool' = spool /\ listed' \in {listed, 0, Len(spool)}
  <2>1. WrittenOnce' BY <1>t, <1>6 DEF WrittenOnce
  <2>2. QED BY <1>5, <1>6, <2>1, FirstListed DEF QueueMoves
<1>7. CASE (Filed \/ Written) /\ listed' = listed
  <2>1. /\ spool' \in Seq(Files) /\ WrittenOnce' /\ Len(spool') \in Nat
        /\ Len(spool') >= Len(spool)
    BY <1>7, FilesKept
  <2>2. listed' \in Nat /\ listed' <= Len(spool')
    BY <1>7, <2>1, FirstListed
  <2>3. QED BY <1>5, <2>1, <2>2 DEF QueueMoves
<1>8. CASE listed > 0 /\ spool' = Tail(spool) /\ listed' = listed - 1
  <2>1. /\ spool' \in Seq(Files) /\ listed' \in Nat /\ listed' <= Len(spool')
        /\ Len(spool') = Len(spool) - 1 /\ Len(spool) \in Nat
    BY <1>8, FirstListed
  <2>2. \A i \in 1..Len(spool') : spool'[i] = spool[i + 1]
    BY <1>8, FirstListed, HeadTailProperties
  <2>3. WrittenOnce' BY <1>t, <2>1, <2>2 DEF WrittenOnce
  <2>4. QED BY <1>5, <2>1, <2>3 DEF QueueMoves
<1>9. QED BY <1>6, <1>7, <1>8 DEF QueueMoves

\* the file in hand stays the first of the spool
LEMMA FileStep ==
    ASSUME TypedInv, QueueMoves, HandMoves
    PROVE  FileInHand'
<1>t. /\ listed' \in Nat /\ listed' <= Len(spool') /\ spool' \in Seq(Files)
      /\ log \subseteq log'
  BY QueueTyped DEF QueueMoves
<1>1. pc' = "discard" => listed' > 0
  BY DEF HandMoves, Handlers, Taken
<1>2. ASSUME pc' \in Handlers, hand'.from = "spool"
      PROVE  listed' > 0 /\ Head(spool').whole /\ Head(spool').sig \in log'
  <2>1. CASE /\ pc \in Handlers /\ hand' = hand
    <3>1. listed > 0 /\ Head(spool).whole /\ Head(spool).sig \in log'
      BY <1>t, <1>2, <2>1 DEF TypedInv, FileInHand
    <3>2. CASE spool' = spool /\ listed' = listed BY <3>1, <3>2
    <3>3. CASE (Filed \/ Written) /\ listed' = listed
      <4>1. Head(spool) = spool[1] /\ 1 \in 1..Len(spool)
        BY <3>1, FirstListed
      <4>2. 1 \in 1..Len(spool') /\ spool'[1] = spool[1]
        BY <3>1, <3>3, <4>1, FilesKept
      <4>3. Head(spool') = spool'[1]
        BY <1>t, <4>2, HeadTailProperties, EmptySeq
      <4>4. QED BY <3>1, <3>3, <4>1, <4>2, <4>3
    <3>4. QED BY <1>2, <3>2, <3>3 DEF QueueMoves, Handlers
  <2>2. CASE /\ pc = "signal" /\ UNCHANGED <<spool, listed>>
             /\ hand' = [hand EXCEPT !.view = row']
    <3>1. hand.from = "spool" /\ pc \in Handlers
      BY <1>2, <2>2 DEF TypedInv, TypeOK, Handlers
    <3>2. QED BY <1>t, <2>2, <3>1 DEF TypedInv, FileInHand
  <2>3. CASE \E sig \in Signals : Taken(sig)
    <3>1. PICK sig \in Signals : Taken(sig) BY <2>3
    <3>2. PICK from \in {"channel", "spool"} :
            /\ hand' = [sig |-> sig, view |-> row, from |-> from]
            /\ from = "spool" => /\ listed > 0 /\ Head(spool).whole
                                 /\ sig = Head(spool).sig
                                 /\ UNCHANGED <<spool, listed>>
      BY <3>1 DEF Taken
    <3>3. from = "spool" /\ sig \in log' BY <1>2, <3>1, <3>2 DEF Taken
    <3>4. QED BY <3>2, <3>3
  <2>4. QED BY <1>2, <2>1, <2>2, <2>3 DEF HandMoves, Handlers
<1>3. QED BY <1>t, <1>1, <1>2 DEF FileInHand

LEMMA TypedStep == TypedInv /\ [Next]_vars => TypedInv'
<1> SUFFICES ASSUME TypedInv, [Next]_vars PROVE TypedInv'
  OBVIOUS
<1>1. RowMoves /\ QueueMoves /\ HandMoves BY RowStep, QueueStep
<1>2. RestOK' BY RestStep
<1>3. row' \in Rows BY <1>1 DEF RowMoves, Moved, TypedInv, TypeOK
<1>4. /\ spool' \in Seq(Files) /\ listed' \in Nat
      /\ channel' \in Seq(Signals) /\ log' \subseteq Signals
      /\ WrittenOnce' /\ FileInHand'
  BY <1>1, QueueTyped, FileStep
<1>5. /\ pc' \in {"down", "replay", "discard", "idle", "signal", "escalate",
                  "publish", "complete"}
      /\ hand' \in [sig : Signals \cup {NoSignal}, view : Rows,
                    from : {"channel", "spool", "recovery"}]
      /\ HandIsRead'
  BY <1>1, <1>3, HandStep
<1>6. AskedAboutSomething'
  <2>1. SUFFICES ASSUME row'.state = "verifying" PROVE saved' # None
    BY DEF AskedAboutSomething
  <2>2. CASE row.state = "verifying" /\ UNCHANGED <<saved, rejected>>
    BY <2>2 DEF TypedInv, AskedAboutSomething
  <2>3. CASE Brings
    BY <2>3, ArtifactOfSignal DEF Brings, TypedInv, HandIsRead
  <2>4. QED BY <1>1, <2>1, <2>2, <2>3 DEF RowMoves
<1>7. TypeOK' BY <1>2, <1>3, <1>4, <1>5 DEF TypeOK, RestOK
<1>8. PaneIsPrompted' BY <1>2 DEF RestOK
<1>9. QED BY <1>4, <1>5, <1>6, <1>7, <1>8 DEF TypedInv

LEMMA TypedInit == Init => TypedInv
<1> SUFFICES ASSUME Init PROVE TypedInv
  OBVIOUS
<1>1. "queued" \in TaskStates BY TaskStateNames
<1>2. [state |-> "queued", version |-> 0] \in Rows BY <1>1 DEF Rows
<1>3. <<>> \in Seq(Signals) /\ <<>> \in Seq(Files) /\ Len(<<>>) = 0
  BY EmptySeq
<1>4. 0 \in 0..MaxRuns /\ 0 \in 0..MaxTurns BY LimitsAssumption
<1>5. TypeOK
  BY <1>2, <1>3, <1>4 DEF Init, TypeOK, EmptyHand
<1>6. /\ PaneIsPrompted /\ HandIsRead /\ AskedAboutSomething
      /\ FileInHand /\ WrittenOnce
  BY <1>3 DEF Init, PaneIsPrompted, HandIsRead, AskedAboutSomething, FileInHand,
         WrittenOnce, Handlers
<1>7. QED BY <1>5, <1>6 DEF TypedInv

\* Every variable has its type: what is in hand was read from the row and the
\* queues, and a person is only ever asked about an artifact.
THEOREM HookTypeCorrect == Spec => []TypeOK
<1>1. TypedInv => TypeOK BY DEF TypedInv
<1>2. QED BY <1>1, TypedInit, TypedStep, PTL DEF Spec

-----------------------------------------------------------------------------
(* What the modes and the queues promise. *)

\* D-01, #133: from Verifying to Publishing leads only the verdict of a person
\* who passed what is recorded, whatever comes again or is killed in between.
THEOREM HookVerdictIsAwaited == Spec => VerdictIsAwaited
<1>1. TypedInv /\ [Next]_vars
        => [row.state = "verifying" /\ row'.state = "publishing"
              => saved' \in approved']_vars
  BY RowStep DEF RowMoves
<1>2. QED BY <1>1, TypedInit, TypedStep, PTL DEF Spec, VerdictIsAwaited

LEMMA SpoolStep ==
    TypedInv /\ [Next]_vars
      => \A i \in 1..Len(spool) :
           Kept(i) => \/ \E j \in 1..Len(spool') : spool'[j] = spool[i]
                      \/ spool[i].sig \in log'
<1> SUFFICES ASSUME TypedInv, [Next]_vars, NEW i \in 1..Len(spool), Kept(i)
             PROVE  \/ \E j \in 1..Len(spool') : spool'[j] = spool[i]
                    \/ spool[i].sig \in log'
  OBVIOUS
<1>1. QueueMoves BY QueueStep
<1>2. spool[i].whole /\ (pc = "discard" => i # 1) BY DEF Kept
<1>3. CASE spool' = spool BY <1>3
<1>4. CASE Filed \/ Written BY <1>2, <1>4, FilesKept
<1>5. CASE /\ listed > 0 /\ spool' = Tail(spool)
           /\ pc = "discard" \/ Head(spool).sig \in log'
  <2>1. CASE i = 1
    BY <1>2, <1>5, <2>1, FirstListed
  <2>2. CASE i # 1
    <3>1. /\ Len(spool') = Len(spool) - 1 /\ i - 1 \in 1..Len(spool')
          /\ spool'[i - 1] = spool[i]
      BY <1>5, <2>2, FirstListed, HeadTailProperties
    <3>2. QED BY <3>1
  <2>3. QED BY <2>1, <2>2
<1>6. QED BY <1>1, <1>3, <1>4, <1>5 DEF QueueMoves

\* E-07: a signal whose line reached the spool leaves it only once it is in the
\* log, however many files the hooks write while the replay runs, cut ones among
\* them, and wherever the engine is killed; only the file that was read before its
\* line was written is excepted.
THEOREM HookSpooledUntilRecorded == Spec => SpooledUntilRecorded
<1>1. TypedInv /\ [Next]_vars
        => [\A i \in 1..Len(spool) :
              Kept(i) => \/ \E j \in 1..Len(spool') : spool'[j] = spool[i]
                         \/ spool[i].sig \in log']_vars
  BY SpoolStep
<1>2. QED BY <1>1, TypedInit, TypedStep, PTL DEF Spec, SpooledUntilRecorded

-----------------------------------------------------------------------------
(* What a person refused. *)

\* the Stop of an artifact is one signal
LEMMA OneStop ==
    ASSUME NEW s1 \in Signals, NEW s2 \in Signals,
           s1.event = "stop", s2.event = "stop",
           s1.status = "COMPLETED", s2.status = "COMPLETED",
           ArtifactOf(s1) = ArtifactOf(s2)
    PROVE  s1 = s2
<1>1. s1.run = s2.run /\ s1.turn = s2.turn
  <2>1. ArtifactOf(s1).run = s1.run /\ ArtifactOf(s2).run = s2.run
    BY DEF ArtifactOf
  <2>2. ArtifactOf(s1).turn = s1.turn /\ ArtifactOf(s2).turn = s2.turn
    BY DEF ArtifactOf
  <2>3. QED BY <2>1, <2>2
<1>2. /\ s1 = [run |-> s1.run, turn |-> s1.turn, event |-> s1.event,
               status |-> s1.status]
      /\ s2 = [run |-> s2.run, turn |-> s2.turn, event |-> s2.event,
               status |-> s2.status]
  BY DEF Signals
<1>3. QED BY <1>1, <1>2

(***************************************************************************)
(* What is recorded for the task changes by the Stop that is interpreted,  *)
(* and what is refused is what is recorded.                                *)
(***************************************************************************)
FactMoves ==
    /\ \/ saved' = saved
       \/ Brings /\ pc' # "signal"
    /\ \/ rejected' = rejected
       \/ /\ row.state = "verifying" /\ saved' = saved
          /\ rejected' = rejected \cup {saved}

LEMMA FactStep == [Next]_vars => FactMoves
<1> SUFFICES ASSUME [Next]_vars PROVE FactMoves
  OBVIOUS
<1> USE DEF FactMoves
<1>1. CASE UNCHANGED vars BY <1>1 DEF vars
<1>2. CASE Hooks
  BY <1>2 DEF Hooks, WorkSignal, AskQuestion, StopHook, EndHook, WriteLine,
              HookFrame, dbVars, factVars
<1>3. CASE People
  BY <1>3 DEF People, Prompt, Cancel, Retry, Approve, Reject, HookFrame,
              dbVars, factVars
<1>4. CASE TakeFromChannel \/ TakeFromSpool
  BY <1>4 DEF TakeFromChannel, TakeFromSpool
<1>5. CASE \/ ReplayEnds \/ ReplayBegins \/ ReadUnwritten \/ Discard
           \/ Sweep \/ Restart \/ Crash
  BY <1>5 DEF ReplayEnds, ReplayBegins, ReadUnwritten, Discard, Sweep, Restart,
              Crash, dbVars, factVars
<1>6. CASE SignOfWork
  BY <1>6 DEF SignOfWork, Isolate, dbVars, factVars
<1>7. CASE Park \/ StopFailed \/ StopUnknown \/ Escalate
  BY <1>7 DEF Park, StopFailed, StopUnknown, Escalate, Ignore, Apply,
              Isolate, dbVars, factVars
<1>8. CASE StopCompleted
  <2>1. \/ UNCHANGED <<saved, rejected>>
        \/ /\ saved' = ArtifactOf(hand.sig) /\ rejected' = rejected
           /\ Settle \/ pc' = "publish"
    BY <1>8 DEF StopCompleted, Ignore, Isolate, dbVars, factVars
  <2>2. Settle => pc' # "signal" BY DEF Settle, Resting
  <2>3. /\ pc = "signal" /\ hand.sig.event = "stop"
        /\ hand.sig.status = "COMPLETED"
    BY <1>8 DEF StopCompleted, Hearing
  <2>4. QED BY <2>1, <2>2, <2>3 DEF Brings
<1>9. CASE Publish \/ Complete \/ PublishFails
  BY <1>9 DEF Publish, Complete, PublishFails, Isolate, dbVars, factVars
<1>10. CASE Dispatch \/ SilencePasses
  BY <1>10 DEF Dispatch, SilencePasses, factVars
<1>11. QED BY <1>1, <1>2, <1>3, <1>4, <1>5, <1>6, <1>7, <1>8, <1>9, <1>10
           DEF Next, Handling

LEMMA FreshStep == TypedInv /\ FreshInv /\ [Next]_vars => FreshInv'
<1> SUFFICES ASSUME TypedInv, FreshInv, [Next]_vars PROVE FreshInv'
  OBVIOUS
<1>1. RowMoves /\ QueueMoves /\ HandMoves /\ FactMoves
  BY RowStep, QueueStep, FactStep
<1>2. log \subseteq log' BY <1>1 DEF QueueMoves
<1>3. pc = "signal" => hand.sig \in Signals /\ hand.sig \in log
  BY DEF TypedInv, HandIsRead, FreshInv, AnsweredIsBehind
<1>4. pc' = "signal" =>
        \/ pc = "signal" /\ hand' = hand
        \/ /\ hand'.sig \in Signals \ log /\ hand'.sig \in log'
           /\ pc # "signal"
  <2>1. ASSUME NEW sig \in Signals, Taken(sig)
        PROVE  hand'.sig = sig /\ sig \in Signals \ log /\ sig \in log'
    BY <2>1 DEF Taken
  <2>2. \A sig \in Signals : Taken(sig) => pc # "signal"
    BY DEF Taken, Handlers
  <2>3. QED BY <1>1, <2>1, <2>2 DEF HandMoves, Handlers
<1>5. pc' = "signal" => hand'.sig \in log' BY <1>2, <1>3, <1>4
<1>6. ASSUME NEW sig \in Signals, sig.event = "stop",
             sig.status = "COMPLETED",
             ArtifactOf(sig) \in {saved'} \cup rejected'
      PROVE  sig \in log' /\ (pc' = "signal" => sig # hand'.sig)
  <2>1. CASE ArtifactOf(sig) \in {saved} \cup rejected
    <3>1. sig \in log /\ (pc = "signal" => sig # hand.sig)
      BY <1>6, <2>1 DEF FreshInv, AnsweredIsBehind
    <3>2. QED BY <1>2, <1>4, <3>1
  <2>2. CASE ArtifactOf(sig) \notin {saved} \cup rejected
    <3>1. Brings /\ pc' # "signal" /\ ArtifactOf(sig) = saved'
      BY <1>1, <1>6, <2>2 DEF FactMoves
    <3>2. sig = hand.sig
      BY <1>3, <1>6, <3>1, OneStop DEF Brings
    <3>3. QED BY <1>2, <1>3, <3>1, <3>2 DEF Brings
  <2>3. QED BY <2>1, <2>2
<1>7. RefusedIsNotAskedAgain'
  <2>1. SUFFICES ASSUME row'.state = "verifying" PROVE saved' \notin rejected'
    BY DEF RefusedIsNotAskedAgain
  <2>2. CASE row.state = "verifying" /\ UNCHANGED <<saved, rejected>>
    BY <2>2 DEF FreshInv, RefusedIsNotAskedAgain
  <2>3. CASE Brings /\ UNCHANGED rejected
    <3>1. hand.sig \in Signals /\ saved' = ArtifactOf(hand.sig)
      BY <1>3, <2>3 DEF Brings
    <3>2. ArtifactOf(hand.sig) \notin rejected
      BY <2>3, <3>1 DEF FreshInv, AnsweredIsBehind, Brings
    <3>3. QED BY <2>3, <3>1, <3>2
  <2>4. QED BY <1>1, <2>1, <2>2, <2>3 DEF RowMoves
<1>8. QED BY <1>5, <1>6, <1>7 DEF FreshInv, AnsweredIsBehind

LEMMA FreshInit == Init => FreshInv
<1> SUFFICES ASSUME Init PROVE FreshInv
  OBVIOUS
<1>1. \A sig \in Signals : ArtifactOf(sig) # None BY ArtifactOfSignal
<1>2. QED BY <1>1 DEF Init, FreshInv, AnsweredIsBehind, RefusedIsNotAskedAgain

\* D-05: what a person refused is not put to a person again, however often its
\* Stop is delivered: the log knows the Stop before its artifact is saved.
THEOREM HookRefusedIsNotAskedAgain == Spec => []RefusedIsNotAskedAgain
<1>1. Init => TypedInv /\ FreshInv BY TypedInit, FreshInit
<1>2. TypedInv /\ FreshInv /\ [Next]_vars => (TypedInv /\ FreshInv)'
  BY TypedStep, FreshStep
<1>3. FreshInv => RefusedIsNotAskedAgain BY DEF FreshInv
<1>4. QED BY <1>1, <1>2, <1>3, PTL DEF Spec

-----------------------------------------------------------------------------
(* What a finished task gave its source. *)

\* the artifact, or the note that there is none
Given(art) == IF art = None THEN Placeholder ELSE art

(***************************************************************************)
(* Whoever publishes has what is recorded for the task in memory, and who  *)
(* has published has it given.                                             *)
(***************************************************************************)
DeliveredInv ==
    /\ pc \in {"publish", "complete"} => output = saved
    /\ pc = "complete" => Given(saved) \in published
    /\ DoneMeansPublished

\* a publication in progress keeps what it works on
LEMMA DeliveryStep ==
    ASSUME TypedInv, DeliveredInv, [Next]_vars
    PROVE  /\ pc' \in {"publish", "complete"} => output' = saved'
           /\ pc' = "complete" => Given(saved') \in published'
           /\ published \subseteq published'
<1> USE DEF DeliveredInv
<1>1. CASE UNCHANGED vars BY <1>1 DEF vars
<1>2. CASE Hooks
  BY <1>2 DEF Hooks, WorkSignal, AskQuestion, StopHook, EndHook, WriteLine,
              HookFrame, dbVars, doVars, memVars, factVars
<1>3. CASE Prompt \/ Approve \/ Reject
  BY <1>3 DEF Prompt, Approve, Reject, HookFrame, dbVars, doVars, memVars,
              factVars
<1>4. CASE Cancel \/ Retry
  <2>1. pc # "idle" => output' = output
    BY <1>4 DEF Cancel, Retry, memVars
  <2>2. pc' = pc /\ saved' = saved /\ published' = published
    BY <1>4 DEF Cancel, Retry, doVars, factVars
  <2>3. QED BY <2>1, <2>2
<1>5. CASE \/ TakeFromChannel \/ TakeFromSpool \/ ReplayEnds \/ ReplayBegins
           \/ ReadUnwritten \/ Discard \/ Sweep \/ Crash
  <2>1. /\ published' = published
        /\ pc' \notin {"publish", "complete"}
    BY <1>5 DEF TakeFromChannel, TakeFromSpool, ReplayEnds, ReplayBegins,
       ReadUnwritten, Discard, Sweep, Crash, Vanish, doVars, factVars
  <2>2. QED BY <2>1
<1>6. CASE Dispatch \/ SilencePasses
  BY <1>6 DEF Dispatch, SilencePasses, doVars, memVars, factVars
<1>s. Settle \/ Vanish => pc' \notin {"publish", "complete"}
  BY DEF Settle, Resting, Vanish
<1>i. ASSUME NEW event, Isolate(event)
      PROVE  pc' \notin {"publish", "complete"} /\ published' = published
  BY <1>i, <1>s DEF Isolate, factVars
<1>7. CASE SignOfWork
  BY <1>7, <1>s, <1>i DEF SignOfWork, factVars
<1>8. CASE Park \/ StopFailed \/ StopUnknown \/ Escalate
  BY <1>8, <1>s, <1>i DEF Park, StopFailed, StopUnknown, Escalate, Ignore,
     Apply, factVars
<1>9. CASE StopCompleted
  BY <1>9, <1>s, <1>i DEF StopCompleted, Ignore, factVars
<1>10. CASE Publish
  <2>1. /\ pc = "publish" /\ UNCHANGED <<saved, output>>
        /\ published' = published \cup {Publication}
    BY <1>10 DEF Publish, dbVars, memVars
  <2>2. Publication = Given(saved) BY <2>1 DEF Publication, Given
  <2>3. QED BY <2>1, <2>2
<1>11. CASE Complete
  BY <1>11, <1>s, <1>i DEF Complete, factVars
<1>12. CASE PublishFails
  BY <1>12, <1>s DEF PublishFails
<1>13. CASE Restart
  BY <1>13 DEF Restart, PersistedArtifact, factVars
<1>14. QED BY <1>1, <1>2, <1>3, <1>4, <1>5, <1>6, <1>7, <1>8, <1>9, <1>10,
              <1>11, <1>12, <1>13 DEF Next, Handling, People

LEMMA DeliveredStep == TypedInv /\ DeliveredInv /\ [Next]_vars => DeliveredInv'
<1> SUFFICES ASSUME TypedInv, DeliveredInv, [Next]_vars PROVE DeliveredInv'
  OBVIOUS
<1>1. /\ pc' \in {"publish", "complete"} => output' = saved'
      /\ pc' = "complete" => Given(saved') \in published'
      /\ published \subseteq published'
  BY DeliveryStep
<1>2. RowMoves BY RowStep
<1>3. row'.state = "done" => Given(saved') \in published'
  <2>1. SUFFICES ASSUME row'.state = "done" PROVE Given(saved') \in published'
    OBVIOUS
  <2>2. saved' = saved /\ (row.state = "done" \/ pc = "complete")
    BY <1>2, <2>1 DEF RowMoves
  <2>3. row.state = "done" => Given(saved) \in published
    BY DEF DeliveredInv, DoneMeansPublished, Given
  <2>4. pc = "complete" => Given(saved) \in published
    BY DEF DeliveredInv
  <2>5. QED BY <1>1, <2>2, <2>3, <2>4
<1>4. DoneMeansPublished' BY <1>3 DEF DoneMeansPublished, Given
<1>5. QED BY <1>1, <1>4 DEF DeliveredInv

\* A task that is done gave its source what is recorded for it, also when the
\* engine was killed between the Stop and the publication and restarted.
THEOREM HookDoneMeansPublished == Spec => []DoneMeansPublished
<1>1. Init => DeliveredInv
  BY DEF Init, DeliveredInv, DoneMeansPublished
<1>2. DeliveredInv => DoneMeansPublished BY DEF DeliveredInv
<1>3. QED BY <1>1, <1>2, TypedInit, TypedStep, DeliveredStep, PTL DEF Spec
=============================================================================
