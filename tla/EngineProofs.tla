---------------------------- MODULE EngineProofs ----------------------------
(***************************************************************************)
(* Proofs about the engine loop, for any set of tasks, pairs, caps, retry  *)
(* limit and bounds.                                                       *)
(***************************************************************************)
EXTENDS Engine, SlotManagerProofs, TaskStateProofs, TLAPS

\* the points inside a handler; at the others act is NoAct
Handlers == PCs \ {"down", "recover", "takeover", "cycle", "idle", "ready",
                   "planning", "plan"}

\* where the handler carries the answer of an attach
Answered == {"resubscribe", "reuse", "attached", "resume"}

\* where it carries a task, a version and its caller only
Bare == Handlers \ {"resubscribe", "reuse", "attached", "resume", "apply"}

(***************************************************************************)
(* What the running handler carries is what its point in the code needs.   *)
(***************************************************************************)
HandlerOK ==
    /\ IF pc \in Handlers
       THEN act.task \in Tasks /\ act.from # "none"
       ELSE act = NoAct
    /\ pc = "apply" =>
         /\ act.events # <<>>
         /\ act.events \in Seq(IF act.next = "settle" THEN {"Fail"} ELSE Advances)
    /\ pc \in Answered => act.next \in PaneStates
    /\ pc = "resume" \/ act.next = "resumed" => act.from = "recover"

(***************************************************************************)
(* No one holds a version the row has not reached, and a handler that is   *)
(* about to retry and whose version is current has a failed row before it. *)
(***************************************************************************)
VersionsOK ==
    /\ act.task \in Tasks => act.ver <= row[act.task].version
    /\ \A t \in Tasks : snapshot[t].version <= row[t].version
    /\ pc = "retry" /\ act.ver = row[act.task].version
          => row[act.task].state = "failed"

\* t counts toward its slot, but for a CLI
Counted(t) == CountsTowardSlot(row[t].state) \/ t \in cliMoved

InRecovery == pc \in {"recover", "takeover"} \/ act.from \in {"recover", "takeover"}

(***************************************************************************)
(* Recovery hands each task on exactly once, and only tasks that count     *)
(* toward a slot, unless a CLI moved them.                                 *)
(***************************************************************************)
RecoveryOK ==
    /\ ~InRecovery => todo = {} /\ resumed = {}
    /\ pc = "takeover" \/ act.from = "takeover" => todo = {}
    /\ todo \cap resumed = {} /\ act.task \notin todo \cup resumed
    /\ \A t \in todo \cup resumed : Counted(t)

\* why the slot of the task in hand is not leaked when its handler returns
SlotsOK ==
    /\ NoLeakedSlot
    /\ pc \in {"subscribe", "attached", "resume"} => Counted(act.task)
    /\ pc = "retry" => ~Holds(slots, act.task)

LedgerOK == TypeOK /\ CountersAgree(slots) /\ HandlerOK

EngineInv == LedgerOK /\ VersionsOK /\ RecoveryOK /\ SlotsOK

-----------------------------------------------------------------------------
(***************************************************************************)
(* What a write of the row does: the row of the task in hand moves along a *)
(* legal arrow from the version in hand, the others stay.                  *)
(***************************************************************************)
LEMMA WriteEffect ==
    ASSUME TypeOK, act.task \in Tasks, NEW event, NEW streak \in Nat,
           Write(event, streak)
    PROVE  /\ row' \in [Tasks -> RowRecords]
           /\ spent' \in [Tasks -> Nat]
           /\ act.ver = row[act.task].version
           /\ row'[act.task].version = row[act.task].version + 1
           /\ Legal(row[act.task].state, event)
           /\ row'[act.task].state = Transition(row[act.task].state, event)
           /\ \A t \in Tasks \ {act.task} : row'[t] = row[t]
<1>1. /\ Legal(row[act.task].state, event)
      /\ act.ver = row[act.task].version
  BY DEF Write, Judged, Outcome
<1>2. row[act.task] \in RowRecords BY DEF TypeOK
<1>3. row' = [row EXCEPT ![act.task] = Applied(row[act.task], event)]
      /\ spent' = [spent EXCEPT ![act.task] = streak]
  BY DEF Write
<1>4. QED BY <1>1, <1>2, <1>3, AppliedRow DEF TypeOK

\* the ledger after a task is forgotten
LEMMA ForgetEffect ==
    ASSUME slots \in Ledgers, CountersAgree(slots), routes \subseteq Tasks \X Nat,
           NEW t \in Tasks, Forget(t)
    PROVE  /\ slots' \in Ledgers /\ CountersAgree(slots)'
           /\ routes' \subseteq Tasks \X Nat
           /\ slots' = Release(slots, t)
<1>1. slots' = Release(slots, t) /\ routes' \subseteq routes
  BY DEF Forget, RoutesOf
<1>2. CountersAgree(Release(slots, t)) /\ Release(slots, t) \in Ledgers
  BY ReleaseAgrees
<1>3. QED BY <1>1, <1>2 DEF CountersAgree, Holders, RepoHolders, AgentHolders, Holds

(***************************************************************************)
(* Who holds a slot afterwards.                                            *)
(***************************************************************************)
LEMMA ReleaseHolds ==
    ASSUME NEW s \in Ledgers, NEW t \in Tasks, NEW u \in Tasks
    PROVE  /\ ~Holds(Release(s, t), t)
           /\ Holds(Release(s, t), u) => Holds(s, u) /\ u # t
BY DEF Release, Holds, Ledgers

LEMMA AcquireHolds ==
    ASSUME NEW s \in Ledgers, NEW t \in Tasks, NEW r \in Repos, NEW a \in Agents,
           NEW u \in Tasks
    PROVE  /\ Holds(Acquire(s, t, r, a), u) => Holds(s, u) \/ u = t
           /\ Holds(Acquire(s, t, r, a), t) => AcquireGranted(s, t, r, a)
BY DEF Acquire, AcquireGranted, Take, Holds, Ledgers

LEMMA ReleaseAllHolds ==
    ASSUME NEW s \in Ledgers, NEW ts \in SUBSET Tasks, NEW u \in Tasks
    PROVE  Holds(ReleaseAll(s, ts), u) => Holds(s, u) /\ u \notin ts
BY DEF ReleaseAll, Holds, Ledgers
-----------------------------------------------------------------------------
(***************************************************************************)
(* Handlers begin, go on and return.                                       *)
(***************************************************************************)
Froms == {"none", "plan", "event", "recover", "takeover"}

LEMMA NoActOK ==
    /\ NoAct \in Acts /\ NoAct.task = NoTask /\ NoAct.from = "none"
    /\ NoAct.events = <<>> /\ NoAct.next = "none" /\ NoAct.ver = 0
BY DEF NoAct, Acts

\* what DispatchOne, TakeOver and React start a handler with
LEMMA MovingOK ==
    ASSUME NEW t \in Tasks, NEW ver \in Nat, NEW from \in Froms
    PROVE  /\ Moving(t, ver, from) \in Acts
           /\ Moving(t, ver, from).task = t
           /\ Moving(t, ver, from).ver = ver
           /\ Moving(t, ver, from).from = from
           /\ Moving(t, ver, from).events = <<>>
           /\ Moving(t, ver, from).next = "none"
BY DEF Moving, Acts, Froms

LEMMA ReturnEffect ==
    ASSUME TypeOK, HandlerOK, pc \in Handlers, Return
    PROVE  /\ pc' \in {"plan", "ready", "recover", "takeover"}
           /\ pc' \in PCs /\ act' = NoAct /\ act' \in Acts /\ HandlerOK'
<1>1. act.from \in {"plan", "event", "recover", "takeover"}
  BY DEF TypeOK, HandlerOK, Acts
<1>2. pc' \in {"plan", "ready", "recover", "takeover"} /\ act' = NoAct
  BY <1>1 DEF Return, ReturnTo
<1>3. pc' \in PCs \ Handlers BY <1>2 DEF PCs, Handlers
<1>4. pc' # "apply" /\ pc' \notin Answered BY <1>2 DEF Answered
<1>5. QED BY <1>2, <1>3, <1>4, NoActOK DEF HandlerOK, Answered

\* the loss of the engine's memory
LEMMA LoseMemoryEffect ==
    ASSUME LoseMemory
    PROVE  /\ pc' = "down" /\ act' = NoAct /\ act' \in Acts /\ HandlerOK'
           /\ inbox' = <<>> /\ streams' = {} /\ strangers' = {}
           /\ missed' = missed /\ slots' = AllFree /\ routes' = {}
           /\ slots' \in Ledgers /\ CountersAgree(slots)'
           /\ untried' = {} /\ plan' = <<>> /\ todo' = {} /\ resumed' = {}
           /\ snapshot' = [t \in Tasks |-> [state |-> "queued", version |-> 0]]
           /\ snapshot' \in [Tasks -> RowRecords]
<1>1. /\ pc' = "down" /\ act' = NoAct
      /\ inbox' = <<>> /\ streams' = {} /\ strangers' = {}
      /\ missed' = missed /\ slots' = AllFree /\ routes' = {}
      /\ untried' = {} /\ plan' = <<>> /\ todo' = {} /\ resumed' = {}
      /\ snapshot' = [t \in Tasks |-> [state |-> "queued", version |-> 0]]
  BY DEF LoseMemory
<1>2. "down" \notin Handlers BY DEF Handlers
<1>3. HandlerOK' BY <1>1, <1>2, NoActOK DEF HandlerOK, Answered
<1>4. snapshot' \in [Tasks -> RowRecords]
  BY <1>1 DEF RowRecords, TaskStates, NonTerminalStates
<1>5. slots' \in Ledgers /\ CountersAgree(slots)' BY <1>1, AllFreeAgrees
<1>6. QED BY <1>1, <1>3, <1>4, <1>5, NoActOK

LEMMA IsolateOK ==
    ASSUME LedgerOK, pc \in Handlers, NEW event, Isolate(event)
    PROVE  LedgerOK'
<1>1. act.task \in Tasks BY DEF LedgerOK, HandlerOK
<1>2. CASE act.from \in {"recover", "takeover"}
  <2>1. LoseMemory /\ UNCHANGED <<dbVars, pane, boundVars>>
    BY <1>2 DEF Isolate
  <2>2. QED BY <2>1, LoseMemoryEffect
            DEF LedgerOK, TypeOK, PCs, dbVars, boundVars
<1>3. CASE act.from \notin {"recover", "takeover"}
  <2>1. /\ Forget(act.task) /\ Return
        /\ UNCHANGED <<inbox, streamVars, planVars, recVars>>
        /\ UNCHANGED <<dbVars, pane, boundVars>>
    BY <1>3 DEF Isolate
  <2>2. slots' \in Ledgers /\ CountersAgree(slots)' /\ routes' \subseteq Tasks \X Nat
    BY <1>1, <2>1, ForgetEffect DEF LedgerOK, TypeOK
  <2>3. pc' \in PCs /\ act' \in Acts /\ HandlerOK'
    BY <2>1, ReturnEffect DEF LedgerOK
  <2>4. QED BY <2>1, <2>2, <2>3
            DEF LedgerOK, TypeOK, dbVars, streamVars, planVars, recVars,
                boundVars
<1>4. QED BY <1>2, <1>3
-----------------------------------------------------------------------------
(***************************************************************************)
(* The types, the ledger's counters and the handler's state along every    *)
(* step.                                                                   *)
(***************************************************************************)

\* rows and streaks after a write, with everything else of the DB as it was
LEMMA WriteOK ==
    ASSUME LedgerOK, pc \in Handlers, NEW event, NEW streak \in Nat,
           Write(event, streak)
    PROVE  /\ row' \in [Tasks -> RowRecords] /\ spent' \in [Tasks -> Nat]
           /\ row'[act.task].version \in Nat
           /\ act.task \in Tasks /\ spent[act.task] \in Nat
<1>1. act.task \in Tasks BY DEF LedgerOK, HandlerOK
<1>2. row' \in [Tasks -> RowRecords] /\ spent' \in [Tasks -> Nat]
  BY <1>1, WriteEffect DEF LedgerOK
<1>3. QED BY <1>1, <1>2 DEF RowRecords, LedgerOK, TypeOK

LEMMA NotedOK ==
    ASSUME TypeOK, NEW t \in Tasks, NEW said \in AgentStates
    PROVE  Noted(t, said) \in Seq([task : Tasks, run : Nat, state : AgentStates])
<1>1. [task |-> t, run |-> pane[t].run, state |-> said]
        \in [task : Tasks, run : Nat, state : AgentStates]
  BY DEF TypeOK
<1> DEFINE Notes == [task : Tasks, run : Nat, state : AgentStates]
<1>2. inbox \in Seq(Notes) BY DEF TypeOK
<1> HIDE DEF Notes
<1>3. \A n \in Notes : Append(inbox, n) \in Seq(Notes) BY <1>2
<1>4. QED BY <1>1, <1>2, <1>3 DEF Noted, Notes

LEMMA GoneOK ==
    ASSUME TypeOK, NEW t \in Tasks, Gone(t)
    PROVE  pane' \in [Tasks -> [run : Nat, state : PaneStates]]
BY DEF Gone, TypeOK, PaneStates

\* a pane that closes
LEMMA ClosesOK ==
    ASSUME TypeOK, NEW t \in Tasks, Closes(t)
    PROVE  /\ pane' \in [Tasks -> [run : Nat, state : PaneStates]]
           /\ inbox' \in Seq([task : Tasks, run : Nat, state : AgentStates])
           /\ streams' \subseteq streams
           /\ strangers' = strangers /\ missed' = missed
<1>1. "Failed" \in AgentStates BY DEF AgentStates
<1>2. /\ Gone(t) /\ inbox' \in {inbox, Noted(t, "Failed")}
      /\ streams' \subseteq streams
      /\ strangers' = strangers /\ missed' = missed
  BY DEF Closes
<1>3. Noted(t, "Failed") \in Seq([task : Tasks, run : Nat, state : AgentStates])
  BY <1>1, NotedOK
<1>4. inbox \in Seq([task : Tasks, run : Nat, state : AgentStates]) BY DEF TypeOK
<1>5. pane' \in [Tasks -> [run : Nat, state : PaneStates]] BY <1>2, GoneOK
<1>6. QED BY <1>2, <1>3, <1>4, <1>5

\* the answer of an attach
LEMMA AttachOK ==
    ASSUME TypeOK, NEW t \in Tasks, NEW said \in PaneStates, Attach(t, said)
    PROVE  strangers' \subseteq Tasks \X Nat /\ missed' \subseteq Tasks
<1>1. Session(t) \in Tasks \X Nat BY DEF Session, Latest, TypeOK
<1>2. QED BY <1>1 DEF Attach, TypeOK

LEMMA SeqOfSubset ==
    ASSUME NEW A, NEW B, A \subseteq B, NEW q \in Seq(A)
    PROVE  q \in Seq(B)
<1>1. Len(q) \in Nat /\ q \in [1..Len(q) -> A] OBVIOUS
<1>2. q \in [1..Len(q) -> B] BY <1>1
<1>3. QED BY <1>1, <1>2

LEMMA SeqExcept ==
    ASSUME NEW S, NEW q \in Seq(S), NEW i, NEW x \in S
    PROVE  [q EXCEPT ![i] = x] \in Seq(S)
<1>1. Len(q) \in Nat /\ q \in [1..Len(q) -> S] OBVIOUS
<1>2. [q EXCEPT ![i] = x] \in [1..Len(q) -> S] BY <1>1
<1>3. QED BY <1>1, <1>2

LEMMA ShortSeqs ==
    ASSUME NEW S
    PROVE  /\ <<>> \in Seq(S)
           /\ \A a \in S : <<a>> \in Seq(S)
           /\ \A a, b \in S : <<a, b>> \in Seq(S)
OBVIOUS

\* the events that follow what an agent said, and what comes after them
LEMMA EventsForOK ==
    ASSUME NEW state, NEW said \in AgentStates \cup PaneStates
    PROVE  /\ EventsFor(state, said) \in
                Seq(IF said = "Failed" THEN {"Fail"} ELSE Advances)
           /\ AfterEvents(state, said) \in {"publish", "settle", "resume", "stay"}
           /\ AfterEvents(state, said) = "settle" <=> said = "Failed"
<1>1. /\ AfterEvents(state, said) \in {"publish", "settle", "resume", "stay"}
      /\ AfterEvents(state, said) = "settle" <=> said = "Failed"
  BY DEF AfterEvents
<1>2. CASE said = "Failed"
  BY <1>1, <1>2, ShortSeqs DEF EventsFor
<1>3. CASE said # "Failed"
  <2>1. /\ <<>> \in Seq(Advances) /\ <<"Start">> \in Seq(Advances)
        /\ <<"WaitInput">> \in Seq(Advances) /\ <<"ResumeInput">> \in Seq(Advances)
        /\ <<"BeginPublish">> \in Seq(Advances)
        /\ <<"Start", "WaitInput">> \in Seq(Advances)
        /\ <<"Start", "BeginPublish">> \in Seq(Advances)
        /\ <<"ResumeInput", "BeginPublish">> \in Seq(Advances)
    BY ShortSeqs DEF Advances
  <2>2. EventsFor(state, said) \in Seq(Advances) BY <1>3, <2>1 DEF EventsFor
  <2>3. QED BY <1>1, <1>3, <2>2
<1>4. QED BY <1>2, <1>3

LEMMA ReactOK ==
    ASSUME TypeOK, NEW t \in Tasks, NEW said \in AgentStates \cup PaneStates,
           NEW from \in Froms \ {"none"}, React(t, said, from)
    PROVE  /\ pc' \in PCs /\ act' \in Acts /\ HandlerOK'
           /\ \/ pc' = ReturnTo(from) /\ act' = NoAct
              \/ /\ pc' \in {"publish", "apply"}
                 /\ act'.task = t /\ act'.ver = row[t].version
                 /\ act'.from = from
           /\ act'.next # "resumed"
<1> DEFINE events == EventsFor(row[t].state, said)
           next == AfterEvents(row[t].state, said)
<1>1. CASE pc' = ReturnTo(from) /\ act' = NoAct
  <2>1. pc' \in PCs \ Handlers /\ pc' \notin Answered \cup {"apply", "resume"}
    BY <1>1 DEF ReturnTo, Froms, PCs, Handlers, Answered
  <2>2. QED BY <1>1, <2>1, NoActOK DEF HandlerOK
<1>2. CASE /\ pc' = IF events = <<>> THEN "publish" ELSE "apply"
           /\ act' = [Moving(t, row[t].version, from)
                        EXCEPT !.events = events, !.next = next]
  <2>1. row[t].version \in Nat BY DEF TypeOK, RowRecords
  <2>2. /\ events \in Seq(IF next = "settle" THEN {"Fail"} ELSE Advances)
        /\ next \in {"publish", "settle", "resume", "stay"}
    BY EventsForOK
  <2>3. events \in Seq(TaskEvents)
    <3>1. (IF next = "settle" THEN {"Fail"} ELSE Advances) \subseteq TaskEvents
      BY DEF Advances, TaskEvents
    <3>2. QED BY <2>2, <3>1, SeqOfSubset
  <2> HIDE DEF events, next
  <2>4. act' = [task |-> t, ver |-> row[t].version, from |-> from,
                events |-> events, next |-> next]
    BY <1>2 DEF Moving
  <2>5. act' \in Acts BY <2>1, <2>2, <2>3, <2>4 DEF Acts, Froms
  <2>6. pc' \in PCs \cap Handlers /\ pc' \in {"publish", "apply"}
    BY <1>2 DEF PCs, Handlers
  <2>7. HandlerOK'
    <3>1. act'.task = t /\ act'.from = from /\ act'.events = events /\ act'.next = next
      BY <2>4
    <3>2. pc' = "apply" => events # <<>> BY <1>2
    <3>3. next # "resumed" BY <2>2
    <3>4. pc' \notin Answered /\ pc' # "resume" BY <2>6 DEF Answered
    <3>5. QED BY <2>2, <2>6, <3>1, <3>2, <3>3, <3>4 DEF HandlerOK
  <2>8. QED BY <2>2, <2>4, <2>5, <2>6, <2>7
<1>3. QED BY <1>1, <1>2 DEF React

\* a handler begins anywhere but after an attach or amid a chain of events
LEMMA Begins ==
    ASSUME pc' \in Bare,
           NEW t \in Tasks, NEW ver \in Nat, NEW from \in Froms \ {"none"},
           act' = Moving(t, ver, from)
    PROVE  pc' \in PCs /\ act' \in Acts /\ HandlerOK'
<1>1. /\ act' \in Acts /\ act'.task = t /\ act'.from = from
      /\ act'.events = <<>> /\ act'.next = "none"
  <2>1. from \in Froms OBVIOUS
  <2> DEFINE m == Moving(t, ver, from)
  <2>2. /\ m \in Acts /\ m.task = t /\ m.from = from
        /\ m.events = <<>> /\ m.next = "none"
    BY <2>1, MovingOK
  <2>3. act' = m OBVIOUS
  <2> HIDE DEF m
  <2>4. QED BY <2>2, <2>3
<1>2. /\ pc' \in PCs /\ pc' \in Handlers /\ pc' \notin Answered
      /\ pc' \notin {"apply", "resume"}
  BY DEF Handlers, Bare, Answered
<1>3. act'.task \in Tasks /\ act'.from # "none" /\ act'.next # "resumed"
  BY <1>1
<1>4. QED BY <1>1, <1>2, <1>3 DEF HandlerOK

\* a handler goes on to its next point with what it carries
LEMMA GoesOn ==
    ASSUME TypeOK, HandlerOK, pc \in Handlers,
           pc' \in Bare, act' = act
    PROVE  pc' \in PCs /\ act' \in Acts /\ HandlerOK'
BY DEF TypeOK, HandlerOK, Handlers, Bare, Answered

\* ... with the version its write produced
LEMMA GoesOnAt ==
    ASSUME TypeOK, HandlerOK, pc \in Handlers,
           pc' \in Bare,
           NEW ver \in Nat, act' = [act EXCEPT !.ver = ver]
    PROVE  pc' \in PCs /\ act' \in Acts /\ HandlerOK'
<1>1. act \in Acts BY DEF TypeOK
<1>2. /\ act' \in Acts /\ act'.task = act.task /\ act'.from = act.from
      /\ act'.events = act.events /\ act'.next = act.next
  BY <1>1 DEF Acts
<1>3. QED BY <1>2 DEF HandlerOK, Handlers, Bare, Answered

LEMMA LedgerInit == Init => LedgerOK
<1> SUFFICES ASSUME Init PROVE LedgerOK
  OBVIOUS
<1>1. row \in [Tasks -> RowRecords] /\ snapshot \in [Tasks -> RowRecords]
  BY DEF Init, RowRecords, TaskStates, NonTerminalStates
<1>2. slots \in Ledgers /\ CountersAgree(slots)
  BY AllFreeAgrees DEF Init
<1>3. /\ act \in Acts /\ pc \in PCs /\ HandlerOK
      /\ <<>> \in Seq(BOOLEAN) /\ <<>> \in Seq(Tasks)
  BY NoActOK DEF Init, HandlerOK, Handlers, Answered, PCs
<1>4. pane \in [Tasks -> [run : Nat, state : PaneStates]]
  BY DEF Init, PaneStates
<1>5. QED BY <1>1, <1>2, <1>3, <1>4 DEF Init, LedgerOK, TypeOK

LEMMA LedgerPlan ==
    ASSUME LedgerOK,
           \/ Gather \/ PlanStep \/ PlanEnd \/ PassEnd \/ DispatchOne
    PROVE  LedgerOK'
<1> USE DEF LedgerOK, dbVars, worldVars, streamVars, planVars, recVars, boundVars
<1>1. CASE Gather
  BY <1>1 DEF Gather, TypeOK, HandlerOK, Handlers, Answered, PCs
<1>2. CASE PlanStep
  <2>1. PICK t \in untried :
          LET r == PairOf[t][1]
              a == PairOf[t][2]
          IN  /\ untried' = untried \ {t}
              /\ slots' = Acquire(slots, t, r, a)
              /\ plan' = IF AcquireGranted(slots, t, r, a)
                         THEN Append(plan, t) ELSE plan
    BY <1>2 DEF PlanStep
  <2>2. t \in Tasks /\ PairOf[t][1] \in Repos /\ PairOf[t][2] \in Agents
    BY PairAssumption DEF TypeOK
  <2>3. slots' \in Ledgers /\ CountersAgree(slots)'
    BY <2>1, <2>2, AcquireAgrees DEF TypeOK
  <2>4. plan' \in Seq(Tasks) BY <2>1, <2>2 DEF TypeOK
  <2>5. QED BY <1>2, <2>1, <2>3, <2>4 DEF PlanStep, TypeOK, HandlerOK
<1>3. CASE PlanEnd
  BY <1>3 DEF PlanEnd, TypeOK, HandlerOK, Handlers, Answered, PCs
<1>4. CASE PassEnd
  BY <1>4 DEF PassEnd, TypeOK, HandlerOK, Handlers, Answered, PCs
<1>5. CASE DispatchOne
  <2> DEFINE t == Head(plan)
  <2>1. t \in Tasks /\ Tail(plan) \in Seq(Tasks)
    BY <1>5 DEF DispatchOne, TypeOK
  <2>2. CASE slots' = Release(slots, t) /\ UNCHANGED <<pc, act>>
    <3>1. slots' \in Ledgers /\ CountersAgree(slots)'
      BY <2>1, <2>2, ReleaseAgrees DEF TypeOK
    <3>2. QED BY <1>5, <2>1, <2>2, <3>1 DEF DispatchOne, TypeOK, HandlerOK
  <2>3. CASE /\ pc' \in {"claim", "fail"}
             /\ act' = Moving(t, row[t].version, "plan")
             /\ UNCHANGED slots
    <3>1. row[t].version \in Nat BY <2>1 DEF TypeOK, RowRecords
    <3>2. pc' \in Bare BY <2>3 DEF Handlers, PCs, Bare
    <3>3. pc' \in PCs /\ act' \in Acts /\ HandlerOK'
      BY <2>1, <2>3, <3>1, <3>2, Begins DEF Froms
    <3>4. QED BY <1>5, <2>1, <2>3, <3>3 DEF DispatchOne, TypeOK
  <2>4. QED BY <1>5, <2>2, <2>3 DEF DispatchOne
<1>6. QED BY <1>1, <1>2, <1>3, <1>4, <1>5

LEMMA LedgerClaim ==
    ASSUME LedgerOK, ClaimWon \/ ClaimLater \/ ClaimRefused
    PROVE  LedgerOK'
<1> USE DEF LedgerOK, dbVars, worldVars, streamVars, planVars, recVars, boundVars
<1>1. pc = "claim" /\ pc \in Handlers /\ act.task \in Tasks
  BY DEF ClaimWon, ClaimLater, ClaimRefused, HandlerOK, Handlers, Answered, PCs
<1>2. Release(slots, act.task) \in Ledgers /\ CountersAgree(Release(slots, act.task))
  BY <1>1, ReleaseAgrees DEF TypeOK
<1>3. CASE ClaimWon
  BY <1>1, <1>3, GoesOn DEF ClaimWon, TypeOK, Handlers, PCs, Bare
<1>4. CASE ClaimLater
  <2>1. pc' \in PCs /\ act' \in Acts /\ HandlerOK'
    BY <1>1, <1>4, ReturnEffect DEF ClaimLater
  <2>2. QED BY <1>2, <1>4, <2>1 DEF ClaimLater, TypeOK
<1>5. CASE ClaimRefused
  <2>1. PICK event \in {"Skip", "Fail"} :
          \/ /\ Write(event, spent[act.task])
             /\ slots' = Release(slots, act.task) /\ Return
             /\ UNCHANGED <<sess, worldVars, routes, planVars, recVars,
                            boundVars>>
          \/ Isolate(event)
    BY <1>5 DEF ClaimRefused
  <2>2. CASE Isolate(event) BY <1>1, <2>2, IsolateOK
  <2>3. CASE ~Isolate(event)
    <3>1. pc' \in PCs /\ act' \in Acts /\ HandlerOK'
      BY <1>1, <2>1, <2>3, ReturnEffect
    <3>2. spent[act.task] \in Nat BY <1>1 DEF TypeOK
    <3>3. row' \in [Tasks -> RowRecords] /\ spent' \in [Tasks -> Nat]
      BY <1>1, <2>1, <2>3, <3>2, WriteOK
    <3>4. QED BY <1>2, <2>1, <2>3, <3>1, <3>3 DEF TypeOK
  <2>4. QED BY <2>2, <2>3
<1>6. QED BY <1>3, <1>4, <1>5

LEMMA LedgerDispatch ==
    ASSUME LedgerOK,
           \/ Reattach \/ Resubscribe \/ Reuse \/ DispatchFresh \/ ReleasePane
           \/ Prepare \/ Launch \/ Bind \/ Record \/ Subscribe
    PROVE  LedgerOK'
<1> USE DEF LedgerOK, dbVars, worldVars, streamVars, planVars, recVars, boundVars
<1>1. /\ pc \in Handlers /\ act.task \in Tasks
      /\ spent[act.task] \in Nat /\ sess[act.task] \in Seq(BOOLEAN)
      /\ Latest(act.task) \in Nat
  <2>1. pc \in {"attach", "resubscribe", "reuse", "release", "prepare", "launch",
                "bind", "record", "subscribe"}
    BY DEF Reattach, Resubscribe, Reuse, DispatchFresh, ReleasePane, Prepare,
           Launch, Bind, Record, Subscribe
  <2>2. pc \in Handlers BY <2>1 DEF Handlers, PCs
  <2>3. act.task \in Tasks BY <2>2 DEF HandlerOK
  <2>4. QED BY <2>2, <2>3 DEF TypeOK, Latest
<1>11. Session(act.task) \in Tasks \X Nat BY <1>1 DEF Session
<1>2. CASE Reuse
  <2>1. CASE Isolate("Dispatch") BY <1>1, <2>1, IsolateOK
  <2>2. CASE ~Isolate("Dispatch")
    <3>1. /\ Write("Dispatch", 0)
          /\ routes' = routes \cup {Session(act.task)}
          /\ pc = "reuse" /\ pc' = "attached"
          /\ UNCHANGED <<sess, worldVars, slots, planVars, recVars, act, boundVars>>
      BY <1>2, <2>2 DEF Reuse
    <3>2. /\ pc' \in PCs /\ HandlerOK'
      BY <1>1, <3>1 DEF HandlerOK, Handlers, PCs, Answered
    <3>3. row' \in [Tasks -> RowRecords] /\ spent' \in [Tasks -> Nat]
      BY <1>1, <3>1, WriteOK
    <3>4. routes' \subseteq Tasks \X Nat BY <1>11, <3>1 DEF TypeOK
    <3>5. QED BY <3>1, <3>2, <3>3, <3>4 DEF TypeOK
  <2>3. QED BY <2>1, <2>2
<1>12. CASE Reattach
  <2>1. PICK said \in PaneStates :
          Attach(act.task, said) /\ act' = [act EXCEPT !.next = said]
    BY <1>12 DEF Reattach
  <2>2. /\ act' \in Acts /\ act'.task = act.task /\ act'.from = act.from
        /\ act'.next = said /\ said # "resumed"
    BY <2>1 DEF TypeOK, Acts, PaneStates
  <2>3. pc' = "resubscribe" /\ pc' \in PCs BY <1>12 DEF Reattach, PCs
  <2>4. HandlerOK' BY <1>1, <2>2, <2>3 DEF HandlerOK, Handlers, PCs
  <2>5. QED BY <1>1, <1>12, <2>1, <2>2, <2>3, <2>4, AttachOK DEF Reattach, TypeOK
<1>13. CASE Resubscribe
  <2>1. streams' \subseteq Tasks \X Nat BY <1>11, <1>13 DEF Resubscribe, TypeOK
  <2>2. CASE pc' = "reuse" /\ act' = act
    <3>1. pc = "resubscribe" /\ pc' \in PCs /\ HandlerOK'
      BY <1>1, <1>13, <2>2 DEF Resubscribe, HandlerOK, Handlers, PCs, Answered
    <3>2. QED BY <1>13, <2>1, <2>2, <3>1 DEF Resubscribe, TypeOK
  <2>3. CASE pc' = "release" /\ act' = [act EXCEPT !.next = "none"]
    <3>1. /\ act' \in Acts /\ act'.task = act.task /\ act'.from = act.from
          /\ act'.next = "none"
      BY <2>3 DEF TypeOK, Acts
    <3>2. pc' \in PCs /\ HandlerOK'
      BY <1>1, <2>3, <3>1 DEF HandlerOK, Handlers, PCs, Answered
    <3>3. QED BY <1>13, <2>1, <3>1, <3>2 DEF Resubscribe, TypeOK
  <2>4. QED BY <1>13, <2>2, <2>3 DEF Resubscribe
<1>3. CASE DispatchFresh
  BY <1>1, <1>3, GoesOn DEF DispatchFresh, TypeOK, Handlers, PCs, Bare
<1>4. CASE ReleasePane
  <2>1. pc' \in Bare /\ act' = act
    BY <1>4 DEF ReleasePane, Handlers, PCs, Bare
  <2>2. Closes(act.task) \/ UNCHANGED worldVars
    BY <1>4 DEF ReleasePane
  <2>3. /\ pane' \in [Tasks -> [run : Nat, state : PaneStates]]
        /\ inbox' \in Seq([task : Tasks, run : Nat, state : AgentStates])
        /\ streams' \subseteq streams /\ strangers' = strangers
        /\ missed' = missed
    BY <1>1, <2>2, ClosesOK DEF TypeOK
  <2>4. QED BY <1>1, <1>4, <2>1, <2>2, <2>3, GoesOn DEF ReleasePane, TypeOK
<1>5. CASE Prepare
  <2>1. pc' \in Bare /\ act' = act
    BY <1>5 DEF Prepare, Handlers, PCs, Bare
  <2>2. sess' \in [Tasks -> Seq(BOOLEAN)]
    <3>1. Append(sess[act.task], FALSE) \in Seq(BOOLEAN) BY <1>1
    <3>2. QED BY <1>1, <1>5, <3>1 DEF Prepare, TypeOK
  <2>3. QED BY <1>1, <1>5, <2>1, <2>2, GoesOn DEF Prepare, TypeOK
<1>6. CASE Launch
  <2>1. pc' \in Bare /\ act' = act
    BY <1>6 DEF Launch, Handlers, PCs, Bare
  <2>2. sess' \in [Tasks -> Seq(BOOLEAN)]
    <3>1. SubSeq(sess[act.task], 1, Len(sess[act.task]) - 1) \in Seq(BOOLEAN)
      BY <1>1
    <3>2. QED BY <1>1, <1>6, <3>1 DEF Launch, TypeOK
  <2>3. pane' \in [Tasks -> [run : Nat, state : PaneStates]]
    <3>1. 0 \in Nat /\ Latest(act.task) \in Nat BY <1>1 DEF TypeOK, Latest
    <3>2. \/ pane' = pane
          \/ pane' = [pane EXCEPT ![act.task] = [run |-> 0, state |-> "Idle"]]
          \/ pane' = [pane EXCEPT ![act.task] =
                        [run |-> Latest(act.task), state |-> "Idle"]]
      BY <1>6 DEF Launch, Opens
    <3>3. "Idle" \in PaneStates BY DEF PaneStates
    <3> DEFINE R == [run : Nat, state : PaneStates]
    <3>4. /\ [run |-> 0, state |-> "Idle"] \in R
          /\ [run |-> Latest(act.task), state |-> "Idle"] \in R
      BY <3>1, <3>3
    <3>5. pane \in [Tasks -> R] BY DEF TypeOK
    <3> HIDE DEF R
    <3>6. pane' \in [Tasks -> R]
      <4>1. CASE pane' = pane BY <3>5, <4>1
      <4>2. ASSUME NEW v \in R, pane' = [pane EXCEPT ![act.task] = v]
            PROVE  pane' \in [Tasks -> R]
        BY <3>5, <4>2
      <4>3. QED BY <3>2, <3>4, <4>1, <4>2
    <3>7. QED BY <3>6 DEF R
  <2>4. QED BY <1>1, <1>6, <2>1, <2>2, <2>3, GoesOn DEF Launch, TypeOK
<1>7. CASE Bind
  <2>1. pc' \in Bare /\ act' = act
    BY <1>7 DEF Bind, Handlers, PCs, Bare
  <2>2. sess' \in [Tasks -> Seq(BOOLEAN)]
    <3>1. [sess[act.task] EXCEPT ![Latest(act.task)] = TRUE] \in Seq(BOOLEAN)
      BY <1>1, SeqExcept
    <3>2. QED BY <1>1, <1>7, <3>1 DEF Bind, TypeOK
  <2>3. QED BY <1>1, <1>7, <2>1, <2>2, GoesOn DEF Bind, TypeOK
<1>8. CASE Record
  <2>1. CASE Isolate("Dispatch") BY <1>1, <2>1, IsolateOK
  <2>2. CASE ~Isolate("Dispatch")
    <3>1. /\ Write("Dispatch", 0)
          /\ routes' = routes \cup {<<act.task, Latest(act.task)>>}
          /\ act' = [act EXCEPT !.ver = row'[act.task].version]
          /\ pc' = "subscribe"
          /\ UNCHANGED <<sess, worldVars, slots, planVars, recVars, boundVars>>
      BY <1>8, <2>2 DEF Record
    <3>2. pc' \in Bare BY <3>1 DEF Handlers, PCs, Bare
    <3>3. /\ row' \in [Tasks -> RowRecords] /\ spent' \in [Tasks -> Nat]
          /\ row'[act.task].version \in Nat
      BY <1>1, <3>1, WriteOK
    <3>4. pc' \in PCs /\ act' \in Acts /\ HandlerOK'
      BY <1>1, <3>1, <3>2, <3>3, GoesOnAt
    <3>5. routes' \subseteq Tasks \X Nat BY <1>1, <3>1 DEF TypeOK
    <3>6. QED BY <3>1, <3>3, <3>4, <3>5 DEF TypeOK
  <2>3. QED BY <2>1, <2>2
<1>9. CASE Subscribe
  <2>1. pc' \in PCs /\ act' \in Acts /\ HandlerOK'
    <3>1. CASE Return BY <1>1, <3>1, ReturnEffect
    <3>2. CASE ~Return
      BY <1>1, <1>9, <3>2, GoesOn DEF Subscribe, Handlers, PCs, Bare
    <3>3. QED BY <3>1, <3>2
  <2>2. pane' \in [Tasks -> [run : Nat, state : PaneStates]]
    BY <1>1, <1>9, GoneOK DEF Subscribe, TypeOK
  <2>3. routes' \subseteq Tasks \X Nat
    BY <1>9 DEF Subscribe, TypeOK
  <2>4. inbox' = inbox /\ streams' \subseteq Tasks \X Nat
    BY <1>9, <1>11 DEF Subscribe, TypeOK
  <2>5. QED BY <1>9, <2>1, <2>2, <2>3, <2>4 DEF Subscribe, TypeOK
<1>10. QED BY <1>2, <1>3, <1>4, <1>5, <1>6, <1>7, <1>8, <1>9, <1>12, <1>13

LEMMA LedgerFail ==
    ASSUME LedgerOK, FailDispatch \/ AutoRetry
    PROVE  LedgerOK'
<1> USE DEF LedgerOK, dbVars, worldVars, streamVars, planVars, recVars, boundVars
<1>1. pc \in Handlers /\ act.task \in Tasks /\ spent[act.task] \in Nat
  <2>1. pc \in Handlers BY DEF FailDispatch, AutoRetry, Handlers, PCs
  <2>2. QED BY <2>1 DEF HandlerOK, TypeOK
<1>2. CASE FailDispatch
  <2>1. CASE Isolate("Fail") BY <1>1, <2>1, IsolateOK
  <2>2. CASE ~Isolate("Fail")
    <3>1. /\ Write("Fail", spent[act.task])
          /\ slots' = Release(slots, act.task)
          /\ act' = [act EXCEPT !.ver = row'[act.task].version]
          /\ pc' = "retry"
          /\ UNCHANGED <<sess, worldVars, routes, planVars, recVars, boundVars>>
      BY <1>2, <2>2 DEF FailDispatch
    <3>2. pc' \in Bare BY <3>1 DEF Handlers, PCs, Bare
    <3>3. /\ row' \in [Tasks -> RowRecords] /\ spent' \in [Tasks -> Nat]
          /\ row'[act.task].version \in Nat
      BY <1>1, <3>1, WriteOK
    <3>4. pc' \in PCs /\ act' \in Acts /\ HandlerOK'
      BY <1>1, <3>1, <3>2, <3>3, GoesOnAt
    <3>5. slots' \in Ledgers /\ CountersAgree(slots)'
      BY <1>1, <3>1, ReleaseAgrees DEF TypeOK
    <3>6. QED BY <3>1, <3>3, <3>4, <3>5 DEF TypeOK
  <2>3. QED BY <2>1, <2>2
<1>3. CASE AutoRetry
  <2>1. CASE Isolate("Retry") BY <1>1, <2>1, IsolateOK
  <2>2. CASE ~Isolate("Retry")
    <3>1. /\ Return
          /\ \/ Write("Retry", spent[act.task] + 1) \/ UNCHANGED <<row, spent>>
          /\ UNCHANGED <<sess, worldVars, slots, routes, planVars, recVars,
                         boundVars>>
      BY <1>3, <2>2 DEF AutoRetry
    <3>2. pc' \in PCs /\ act' \in Acts /\ HandlerOK'
      BY <1>1, <3>1, ReturnEffect
    <3>3. row' \in [Tasks -> RowRecords] /\ spent' \in [Tasks -> Nat]
      <4>1. spent[act.task] + 1 \in Nat BY <1>1
      <4>2. QED BY <1>1, <3>1, <4>1, WriteOK DEF TypeOK
    <3>4. QED BY <3>1, <3>2, <3>3 DEF TypeOK
  <2>3. QED BY <2>1, <2>2
<1>4. QED BY <1>2, <1>3

LEMMA LedgerFollow ==
    ASSUME LedgerOK, HandleNote \/ FollowAttached
    PROVE  LedgerOK'
<1> USE DEF LedgerOK, dbVars, worldVars, streamVars, planVars, recVars, boundVars
<1>1. CASE HandleNote
  <2> DEFINE Notes == [task : Tasks, run : Nat, state : AgentStates]
             note == Head(inbox)
  <2>1. inbox' \in Seq(Notes) /\ note \in Notes
    <3>1. inbox \in Seq(Notes) /\ inbox # <<>> BY <1>1 DEF HandleNote, TypeOK
    <3> HIDE DEF Notes
    <3>2. Tail(inbox) \in Seq(Notes) /\ Head(inbox) \in Notes BY <3>1
    <3>3. QED BY <1>1, <3>2 DEF HandleNote
  <2>2. pc' \in PCs /\ act' \in Acts /\ HandlerOK'
    <3>1. CASE React(note.task, note.state, "event")
      BY <2>1, <3>1, ReactOK DEF Froms
    <3>2. CASE pc' = "ready" /\ act' = NoAct
      BY <3>2, NoActOK DEF HandlerOK, Handlers, Answered, PCs
    <3>3. QED BY <1>1, <3>1, <3>2 DEF HandleNote
  <2>3. QED BY <1>1, <2>1, <2>2 DEF HandleNote, TypeOK
<1>2. CASE FollowAttached
  <2>1. pc \in Handlers BY <1>2 DEF FollowAttached, Handlers, PCs
  <2>2. act.task \in Tasks /\ act.from \in Froms \ {"none"}
    BY <2>1 DEF HandlerOK, TypeOK, Acts, Froms
  <2>3. act.next \in PaneStates
    BY <1>2 DEF FollowAttached, HandlerOK, Answered
  <2>4. pc' \in PCs /\ act' \in Acts /\ HandlerOK'
    BY <1>2, <2>2, <2>3, ReactOK DEF FollowAttached
  <2>5. QED BY <1>2, <2>4 DEF FollowAttached, TypeOK
<1>3. QED BY <1>1, <1>2

\* one event of a chain: its last one ends the handler or leads on
LEMMA ApplyEventEffect ==
    ASSUME LedgerOK, ApplyEvent, ~Isolate(Head(act.events))
    PROVE  /\ Write(Head(act.events), spent[act.task])
           /\ \/ /\ act' = [act EXCEPT !.ver = row'[act.task].version,
                                       !.events = Tail(act.events)]
                 /\ \/ pc' = "apply" /\ act'.events # <<>>
                    \/ pc' = "publish" /\ act.next = "publish"
                 /\ UNCHANGED <<slots, routes, resumed>>
              \/ /\ Return /\ act.next # "publish"
                 /\ resumed' = IF act.next = "resumed"
                               THEN resumed \cup {act.task} ELSE resumed
                 /\ CASE act.next = "settle" -> Forget(act.task)
                      [] act.next = "resume" ->
                           /\ slots' = Acquire(slots, act.task,
                                               PairOf[act.task][1],
                                               PairOf[act.task][2])
                           /\ UNCHANGED routes
                      [] OTHER -> UNCHANGED <<slots, routes>>
           /\ UNCHANGED <<sess, worldVars, planVars, snapshot, todo, boundVars>>
<1>1. act \in Acts /\ pc = "apply" BY DEF ApplyEvent, LedgerOK, TypeOK
<1>2. act'.events = Tail(act.events)
        \/ act' # [act EXCEPT !.ver = row'[act.task].version,
                              !.events = Tail(act.events)]
  BY <1>1 DEF Acts
<1>3. QED BY <1>1, <1>2 DEF ApplyEvent

LEMMA LedgerApply ==
    ASSUME LedgerOK, ApplyEvent
    PROVE  LedgerOK'
<1> USE DEF LedgerOK, dbVars, worldVars, streamVars, planVars, recVars, boundVars
<1>1. pc = "apply" /\ pc \in Handlers /\ act.task \in Tasks
      /\ spent[act.task] \in Nat
  <2>1. pc = "apply" /\ pc \in Handlers BY DEF ApplyEvent, Handlers, PCs
  <2>2. QED BY <2>1 DEF HandlerOK, TypeOK
<1>2. CASE Isolate(Head(act.events)) BY <1>1, <1>2, IsolateOK
<1>3. CASE ~Isolate(Head(act.events))
  <2>1. Write(Head(act.events), spent[act.task])
        /\ UNCHANGED <<sess, worldVars, planVars, snapshot, todo, boundVars>>
    BY <1>3, ApplyEventEffect
  <2>2. /\ row' \in [Tasks -> RowRecords] /\ spent' \in [Tasks -> Nat]
        /\ row'[act.task].version \in Nat
    BY <1>1, <2>1, WriteOK
  <2>3. CASE /\ act' = [act EXCEPT !.ver = row'[act.task].version,
                                   !.events = Tail(act.events)]
             /\ \/ pc' = "apply" /\ act'.events # <<>>
                \/ pc' = "publish" /\ act.next = "publish"
             /\ UNCHANGED <<slots, routes, resumed>>
    <3> DEFINE S == IF act.next = "settle" THEN {"Fail"} ELSE Advances
    <3>1. Tail(act.events) \in Seq(S) /\ Tail(act.events) \in Seq(TaskEvents)
      <4>1. act.events \in Seq(S) /\ act.events # <<>> /\ act.events \in Seq(TaskEvents)
        BY <1>1 DEF HandlerOK, TypeOK, Acts
      <4> HIDE DEF S
      <4>2. QED BY <4>1
    <3>2. PICK ver \in Nat : act' = [act EXCEPT !.ver = ver,
                                                !.events = Tail(act.events)]
      BY <2>2, <2>3
    <3>3. /\ act' \in Acts /\ act'.task = act.task /\ act'.from = act.from
          /\ act'.events = Tail(act.events) /\ act'.next = act.next
      BY <3>1, <3>2 DEF TypeOK, Acts
    <3>4. pc' \in PCs /\ pc' \in Handlers BY <2>3 DEF Handlers, PCs
    <3>5. HandlerOK' BY <1>1, <2>3, <3>1, <3>3, <3>4 DEF HandlerOK, Answered
    <3>6. QED BY <2>1, <2>2, <2>3, <3>3, <3>4, <3>5 DEF TypeOK
  <2>4. CASE /\ Return
             /\ resumed' = IF act.next = "resumed"
                           THEN resumed \cup {act.task} ELSE resumed
             /\ CASE act.next = "settle" -> Forget(act.task)
                  [] act.next = "resume" ->
                       /\ slots' = Acquire(slots, act.task,
                                           PairOf[act.task][1],
                                           PairOf[act.task][2])
                       /\ UNCHANGED routes
                  [] OTHER -> UNCHANGED <<slots, routes>>
    <3>1. pc' \in PCs /\ act' \in Acts /\ HandlerOK'
      BY <1>1, <2>4, ReturnEffect
    <3>2. /\ slots' \in Ledgers /\ CountersAgree(slots)'
          /\ routes' \subseteq Tasks \X Nat
      <4>1. CASE act.next = "settle"
        BY <1>1, <2>4, <4>1, ForgetEffect DEF TypeOK
      <4>2. CASE act.next = "resume"
        <5>1. PairOf[act.task][1] \in Repos /\ PairOf[act.task][2] \in Agents
          BY <1>1, PairAssumption
        <5>2. slots \in Ledgers /\ CountersAgree(slots) /\ routes \subseteq Tasks \X Nat
          BY DEF TypeOK
        <5>3. /\ slots' = Acquire(slots, act.task, PairOf[act.task][1],
                                 PairOf[act.task][2])
              /\ routes' = routes
          BY <2>4, <4>2
        <5> DEFINE A == Acquire(slots, act.task, PairOf[act.task][1],
                                PairOf[act.task][2])
        <5>4. A \in Ledgers /\ CountersAgree(A)
          BY <1>1, <5>1, <5>2, AcquireAgrees
        <5> HIDE DEF A
        <5>5. slots' = A BY <5>3 DEF A
        <5>6. QED BY <5>2, <5>3, <5>4, <5>5 DEF CountersAgree
      <4>3. CASE act.next \notin {"settle", "resume"}
        BY <2>4, <4>3 DEF TypeOK
      <4>4. QED BY <4>1, <4>2, <4>3
    <3>3. resumed' \subseteq Tasks BY <1>1, <2>4 DEF TypeOK
    <3>4. QED BY <2>1, <2>2, <3>1, <3>2, <3>3 DEF TypeOK
  <2>5. QED BY <1>3, <2>3, <2>4, ApplyEventEffect
<1>4. QED BY <1>2, <1>3

LEMMA LedgerPublish ==
    ASSUME LedgerOK, Publish \/ Complete \/ FailPublish
    PROVE  LedgerOK'
<1> USE DEF LedgerOK, dbVars, worldVars, streamVars, planVars, recVars, boundVars
<1>1. pc \in Handlers /\ act.task \in Tasks /\ spent[act.task] \in Nat
  <2>1. pc \in Handlers BY DEF Publish, Complete, FailPublish, Handlers, PCs
  <2>2. QED BY <2>1 DEF HandlerOK, TypeOK
<1>2. CASE Publish
  <2>1. pc' \in Bare /\ act' = act
    BY <1>2 DEF Publish, Handlers, PCs, Bare
  <2>2. QED BY <1>1, <1>2, <2>1, GoesOn DEF Publish, TypeOK
<1>3. CASE Complete
  <2>1. CASE Isolate("Complete") BY <1>1, <2>1, IsolateOK
  <2>2. CASE ~Isolate("Complete")
    <3>1. /\ Write("Complete", spent[act.task])
          /\ Forget(act.task) /\ Return
          /\ Closes(act.task) \/ UNCHANGED worldVars
          /\ UNCHANGED <<sess, planVars, recVars, boundVars>>
      BY <1>3, <2>2 DEF Complete
    <3>2. pc' \in PCs /\ act' \in Acts /\ HandlerOK'
      BY <1>1, <3>1, ReturnEffect
    <3>3. row' \in [Tasks -> RowRecords] /\ spent' \in [Tasks -> Nat]
      BY <1>1, <3>1, WriteOK
    <3>4. /\ slots' \in Ledgers /\ CountersAgree(slots)'
          /\ routes' \subseteq Tasks \X Nat
      BY <1>1, <3>1, ForgetEffect DEF TypeOK
    <3>5. /\ pane' \in [Tasks -> [run : Nat, state : PaneStates]]
          /\ inbox' \in Seq([task : Tasks, run : Nat, state : AgentStates])
          /\ streams' \subseteq streams /\ strangers' = strangers
          /\ missed' = missed
      BY <1>1, <3>1, ClosesOK DEF TypeOK
    <3>6. QED BY <3>1, <3>2, <3>3, <3>4, <3>5 DEF TypeOK
  <2>3. QED BY <2>1, <2>2
<1>4. CASE FailPublish
  <2>1. CASE Isolate("Fail") BY <1>1, <2>1, IsolateOK
  <2>2. CASE ~Isolate("Fail")
    <3>1. /\ Write("Fail", spent[act.task])
          /\ slots' = Release(slots, act.task) /\ Return
          /\ UNCHANGED <<sess, worldVars, routes, planVars, recVars, boundVars>>
      BY <1>4, <2>2 DEF FailPublish
    <3>2. pc' \in PCs /\ act' \in Acts /\ HandlerOK'
      BY <1>1, <3>1, ReturnEffect
    <3>3. row' \in [Tasks -> RowRecords] /\ spent' \in [Tasks -> Nat]
      BY <1>1, <3>1, WriteOK
    <3>4. slots' \in Ledgers /\ CountersAgree(slots)'
      BY <1>1, <3>1, ReleaseAgrees DEF TypeOK
    <3>5. QED BY <3>1, <3>2, <3>3, <3>4 DEF TypeOK
  <2>3. QED BY <2>1, <2>2
<1>5. QED BY <1>2, <1>3, <1>4

\* a person's event is one its state allows
LEMMA PersonLegal ==
    ASSUME NEW t \in Tasks, TypeOK
    PROVE  /\ MayCancel(t) => Legal(row[t].state, "Cancel")
           /\ MayRetry(t) => Legal(row[t].state, "Retry")
           /\ row[t].state \in TerminalStates => Legal(row[t].state, "Reopen")
<1>1. row[t].state \in TaskStates BY DEF TypeOK, RowRecords
<1>2. QED BY <1>1, AlwaysLegal DEF MayCancel, MayRetry, Retryable, TaskStates

LEMMA MovesEffect ==
    ASSUME TypeOK, NEW t \in Tasks, NEW event, Legal(row[t].state, event),
           Moves(t, event)
    PROVE  /\ row' \in [Tasks -> RowRecords] /\ spent' \in [Tasks -> Nat]
           /\ row'[t].version = row[t].version + 1
           /\ row'[t].state = Transition(row[t].state, event)
           /\ \A u \in Tasks \ {t} : row'[u] = row[u]
           /\ asked' = asked + 1 /\ asked' \in Nat
<1>1. row[t] \in RowRecords BY DEF TypeOK
<1>2. row' = [row EXCEPT ![t] = Applied(row[t], event)] BY DEF Moves
<1>3. spent' \in [Tasks -> Nat] /\ asked' = asked + 1 /\ asked' \in Nat
  BY DEF Moves, TypeOK
<1>4. QED BY <1>1, <1>2, <1>3, AppliedRow DEF TypeOK

LEMMA LedgerLoop ==
    ASSUME LedgerOK, Cycle \/ PersonStep
    PROVE  LedgerOK'
<1> USE DEF LedgerOK, dbVars, worldVars, streamVars, planVars, recVars, boundVars
<1>1. CASE Cycle
  <2> DEFINE ts == {t \in Tasks : ~CountsTowardSlot(row[t].state)}
  <2>1. slots' = ReleaseAll(slots, ts) BY <1>1 DEF Cycle
  <2>2. slots' \in Ledgers /\ CountersAgree(slots)'
    BY <2>1, ReleaseAllAgrees DEF TypeOK
  <2>3. pc \notin Handlers /\ pc' = "ready" /\ "ready" \in PCs \ Handlers
    BY <1>1 DEF Cycle, Handlers, PCs
  <2>4. HandlerOK' BY <1>1, <2>3 DEF Cycle, HandlerOK, Answered
  <2>5. QED BY <1>1, <2>2, <2>3, <2>4 DEF Cycle, TypeOK
<1>2. ASSUME NEW t \in Tasks, CliWrites(t) PROVE LedgerOK'
  <2>1. PICK event : Legal(row[t].state, event) /\ Moves(t, event)
    BY <1>2, PersonLegal DEF CliWrites
  <2>2. QED BY <1>2, <2>1, MovesEffect DEF CliWrites, TypeOK, HandlerOK
<1>3. ASSUME NEW t \in Tasks, Control(t) PROVE LedgerOK'
  <2>1. PICK event : Legal(row[t].state, event) /\ Moves(t, event)
    BY <1>3, PersonLegal DEF Control
  <2>2. /\ slots' \in Ledgers /\ CountersAgree(slots)'
        /\ routes' \subseteq Tasks \X Nat
    <3>1. Forget(t) \/ UNCHANGED <<slots, routes>> BY <1>3 DEF Control
    <3>2. QED BY <3>1, ForgetEffect DEF TypeOK
  <2>3. pc \notin Handlers /\ pc' = "ready" /\ "ready" \in PCs \ Handlers
    BY <1>3 DEF Control, Handlers, PCs
  <2>4. HandlerOK' BY <1>3, <2>3 DEF Control, HandlerOK, Answered
  <2>5. QED BY <1>3, <2>1, <2>2, <2>3, <2>4, MovesEffect DEF Control, TypeOK
<1>4. QED BY <1>1, <1>2, <1>3 DEF PersonStep

LEMMA LedgerRecovery ==
    ASSUME LedgerOK,
           \/ Start \/ RecoverTask \/ RecoverSubscribe \/ RebuildSlots
           \/ TakeOver \/ RecoverEnd
    PROVE  LedgerOK'
<1> USE DEF LedgerOK, dbVars, worldVars, streamVars, planVars, recVars, boundVars
<1>1. CASE Start
  BY <1>1 DEF Start, TypeOK, HandlerOK, Handlers, Answered, PCs
<1>2. CASE RecoverTask
  <2>1. PICK t \in todo :
          /\ todo' = todo \ {t}
          /\ \/ UNCHANGED <<pc, act, strangers, missed>>
             \/ \E said \in PaneStates :
                  /\ Attach(t, said)
                  /\ pc' = "resume"
                  /\ act' = [Moving(t, snapshot[t].version, "recover")
                               EXCEPT !.next = said]
    BY <1>2 DEF RecoverTask
  <2>2. t \in Tasks /\ todo' \subseteq Tasks BY <2>1 DEF TypeOK
  <2>3. CASE UNCHANGED <<pc, act, strangers, missed>>
    BY <1>2, <2>2, <2>3 DEF RecoverTask, TypeOK, HandlerOK
  <2>4. ASSUME NEW said \in PaneStates, Attach(t, said), pc' = "resume",
               act' = [Moving(t, snapshot[t].version, "recover")
                         EXCEPT !.next = said]
        PROVE  LedgerOK'
    <3>1. snapshot[t].version \in Nat BY <2>2 DEF TypeOK, RowRecords
    <3>2. act' = [task |-> t, ver |-> snapshot[t].version, from |-> "recover",
                  events |-> <<>>, next |-> said]
      BY <2>4 DEF Moving
    <3>3. /\ act' \in Acts /\ act'.task = t /\ act'.from = "recover"
          /\ act'.next = said
      BY <2>2, <3>1, <3>2 DEF Acts
    <3>4. pc' \in PCs /\ HandlerOK'
      BY <2>2, <2>4, <3>3 DEF HandlerOK, Handlers, PCs
    <3>5. strangers' \subseteq Tasks \X Nat /\ missed' \subseteq Tasks
      BY <2>2, <2>4, AttachOK
    <3>6. QED BY <1>2, <2>2, <3>3, <3>4, <3>5 DEF RecoverTask, TypeOK
  <2>5. QED BY <2>1, <2>3, <2>4
<1>7. CASE RecoverSubscribe
  <2> DEFINE t == act.task
             events == EventsFor(snapshot[t].state, act.next)
  <2>1. /\ pc = "resume" /\ t \in Tasks /\ act.next \in PaneStates
        /\ act.from = "recover"
    BY <1>7 DEF RecoverSubscribe, HandlerOK, Handlers, PCs, Answered
  <2>2. streams' \subseteq Tasks \X Nat
    BY <1>7, <2>1 DEF RecoverSubscribe, TypeOK, Session, Latest
  <2>3. resumed' \subseteq Tasks BY <1>7, <2>1 DEF RecoverSubscribe, TypeOK
  <2>4. CASE pc' = "recover" /\ act' = NoAct
    <3>1. pc' \in PCs /\ HandlerOK'
      BY <2>4, NoActOK DEF HandlerOK, Handlers, PCs, Answered
    <3>2. QED BY <1>7, <2>2, <2>3, <2>4, <3>1, NoActOK DEF RecoverSubscribe, TypeOK
  <2>5. CASE /\ events # <<>> /\ pc' = "apply"
             /\ act' = [act EXCEPT !.events = events, !.next = "resumed"]
    <3>1. events \in Seq(Advances)
      <4>1. act.next # "Failed" /\ act.next \in AgentStates \cup PaneStates
        BY <2>1 DEF PaneStates
      <4>2. QED BY <4>1, EventsForOK
    <3>2. events \in Seq(TaskEvents)
      <4>1. Advances \subseteq TaskEvents BY DEF Advances, TaskEvents
      <4>2. QED BY <3>1, <4>1, SeqOfSubset
    <3> HIDE DEF events
    <3>3. /\ act' \in Acts /\ act'.task = act.task /\ act'.from = act.from
          /\ act'.events = events /\ act'.next = "resumed"
      BY <2>5, <3>2 DEF TypeOK, Acts
    <3>4. pc' \in PCs /\ pc' \in Handlers /\ pc' \notin Answered
      BY <2>5 DEF PCs, Handlers, Answered
    <3>5. HandlerOK' BY <2>1, <2>5, <3>1, <3>3, <3>4 DEF HandlerOK
    <3>6. QED BY <1>7, <2>2, <2>3, <3>3, <3>4, <3>5 DEF RecoverSubscribe, TypeOK
  <2>6. QED BY <1>7, <2>4, <2>5 DEF RecoverSubscribe
<1>3. CASE RebuildSlots
  <2>1. Claims \in [Tasks -> Pairs \cup {NoSlot}]
    BY PairAssumption DEF Claims, Pairs
  <2>2. slots' \in Ledgers /\ CountersAgree(slots)'
    BY <1>3, <2>1, RebuildAgrees DEF RebuildSlots
  <2>3. QED BY <1>3, <2>2 DEF RebuildSlots, TypeOK, HandlerOK, Handlers, Answered, PCs
<1>4. CASE TakeOver
  <2>1. PICK t \in resumed :
          /\ resumed' = resumed \ {t}
          /\ routes' = routes \cup {<<t, Latest(t)>>}
          /\ IF row[t].state = "publishing"
             THEN /\ pc' = "publish"
                  /\ act' = Moving(t, row[t].version, "takeover")
             ELSE UNCHANGED <<pc, act>>
    BY <1>4 DEF TakeOver
  <2>2. t \in Tasks /\ row[t].version \in Nat /\ Latest(t) \in Nat
    BY <2>1 DEF TypeOK, RowRecords, Latest
  <2>3. routes' \subseteq Tasks \X Nat /\ resumed' \subseteq Tasks
    BY <2>1, <2>2 DEF TypeOK
  <2>4. pc' \in PCs /\ act' \in Acts /\ HandlerOK'
    <3>1. CASE row[t].state = "publishing"
      <4>1. pc' \in Bare
        BY <2>1, <3>1 DEF Handlers, PCs, Bare
      <4>2. QED BY <2>1, <2>2, <3>1, <4>1, Begins DEF Froms
    <3>2. CASE row[t].state # "publishing"
      BY <2>1, <3>2 DEF TypeOK, HandlerOK
    <3>3. QED BY <3>1, <3>2
  <2>5. QED BY <1>4, <2>3, <2>4 DEF TakeOver, TypeOK
<1>5. CASE RecoverEnd
  <2>1. snapshot' \in [Tasks -> RowRecords]
    BY <1>5 DEF RecoverEnd, RowRecords, TaskStates, NonTerminalStates
  <2>2. QED BY <1>5, <2>1 DEF RecoverEnd, TypeOK, HandlerOK, Handlers, Answered, PCs
<1>6. QED BY <1>1, <1>2, <1>3, <1>4, <1>5, <1>7

LEMMA LedgerWorld ==
    ASSUME LedgerOK, AgentStep \/ Crash \/ UNCHANGED vars
    PROVE  LedgerOK'
<1> USE DEF LedgerOK, dbVars, worldVars, streamVars, planVars, recVars, boundVars
<1>1. ASSUME NEW t \in Tasks, AgentMoves(t) PROVE LedgerOK'
  <2>1. PICK to \in PaneStates :
          /\ <<pane[t].state, to>> \in
               {<<"Idle", "Running">>, <<"Running", "WaitingInput">>,
                <<"WaitingInput", "Running">>, <<"Running", "Done">>}
          /\ pane' = [pane EXCEPT ![t].state = to]
          /\ inbox' = Noted(t, to) \/ inbox' = inbox
          /\ missed' \in {missed \cup {t}, missed \ {t}}
    BY <1>1 DEF AgentMoves
  <2>2. to \in AgentStates BY <2>1 DEF AgentStates
  <2>3. pane' \in [Tasks -> [run : Nat, state : PaneStates]]
    BY <2>1 DEF TypeOK
  <2>4. inbox' \in Seq([task : Tasks, run : Nat, state : AgentStates])
    <3>1. Noted(t, to) \in Seq([task : Tasks, run : Nat, state : AgentStates])
      BY <2>2, NotedOK
    <3>2. QED BY <2>1, <3>1 DEF TypeOK
  <2>5. QED BY <1>1, <2>1, <2>3, <2>4 DEF AgentMoves, TypeOK, HandlerOK
<1>2. ASSUME NEW t \in Tasks, AgentExits(t) PROVE LedgerOK'
  BY <1>2, ClosesOK DEF AgentExits, TypeOK, HandlerOK
<1>6. ASSUME NEW t \in Tasks, StreamDrops(t) PROVE LedgerOK'
  <2>1. PICK s \in streams :
          /\ inbox' = Append(inbox, [task |-> t, run |-> s[2],
                                     state |-> "Failed"])
          /\ streams' = streams \ {s}
    BY <1>6 DEF StreamDrops
  <2>2. s[2] \in Nat /\ "Failed" \in AgentStates BY DEF TypeOK, AgentStates
  <2> DEFINE Notes == [task : Tasks, run : Nat, state : AgentStates]
             note == [task |-> t, run |-> s[2], state |-> "Failed"]
  <2>3. note \in Notes /\ inbox \in Seq(Notes) BY <2>2 DEF TypeOK
  <2> HIDE DEF Notes, note
  <2>4. Append(inbox, note) \in Seq(Notes) BY <2>3
  <2>5. inbox' \in Seq(Notes) BY <2>1, <2>4 DEF note
  <2>6. QED BY <1>6, <2>1, <2>5 DEF StreamDrops, TypeOK, HandlerOK, Notes
<1>3. CASE Crash
  BY <1>3, LoseMemoryEffect DEF Crash, TypeOK, PCs
<1>4. CASE UNCHANGED vars
  BY <1>4 DEF vars, TypeOK, HandlerOK
<1>5. QED BY <1>1, <1>2, <1>3, <1>4, <1>6 DEF AgentStep

LEMMA LedgerStep == LedgerOK /\ [Next]_vars => LedgerOK'
<1> SUFFICES ASSUME LedgerOK, Next \/ UNCHANGED vars PROVE LedgerOK'
  OBVIOUS
<1>1. CASE EngineStep
  BY <1>1, LedgerPlan, LedgerClaim, LedgerDispatch, LedgerFail, LedgerFollow,
     LedgerApply, LedgerPublish, LedgerLoop, LedgerRecovery DEF EngineStep
<1>2. CASE PersonStep BY <1>2, LedgerLoop
<1>3. CASE AgentStep \/ Crash \/ UNCHANGED vars BY <1>3, LedgerWorld
<1>4. QED BY <1>1, <1>2, <1>3 DEF Next

(***************************************************************************)
(* Every reachable state of the engine loop, whatever people, agents and   *)
(* restarts do to it, is well-typed: among other things, no release or     *)
(* sweep of slots ever brings a counter below zero.                        *)
(***************************************************************************)
THEOREM EngineTypeCorrect == Spec => []TypeOK
<1>1. LedgerOK => TypeOK BY DEF LedgerOK
<1>2. QED BY <1>1, LedgerInit, LedgerStep, PTL DEF Spec

-----------------------------------------------------------------------------
(***************************************************************************)
(* Versions, and the cancel that sticks.                                   *)
(***************************************************************************)

\* what the engine writes; a retry only right after it failed a dispatch
EngineEvents == Advances \cup {"Dispatch", "Skip", "Fail", "Complete", "Retry"}

LEMMA EngineWrites ==
    ASSUME LedgerOK, EngineStep
    PROVE  /\ UNCHANGED boundVars \/ Cycle
           /\ \/ row' = row
              \/ /\ pc \in Handlers /\ act.task \in Tasks
                 /\ \E event \in EngineEvents :
                      /\ \E streak \in Nat : Write(event, streak)
                      /\ event = "Retry" => pc = "retry"
<1> USE DEF dbVars, worldVars, streamVars, planVars, recVars, boundVars
<1>1. pc \in Handlers => act.task \in Tasks /\ spent[act.task] \in Nat
  BY DEF LedgerOK, HandlerOK, TypeOK
<1>2. ASSUME NEW event, Isolate(event) PROVE row' = row /\ UNCHANGED boundVars
  BY <1>2 DEF Isolate
<1>3. CASE Gather \/ PlanStep \/ PlanEnd \/ PassEnd \/ DispatchOne \/ ClaimWon
           \/ ClaimLater \/ Reattach \/ Resubscribe \/ DispatchFresh
           \/ ReleasePane \/ Prepare \/ Launch \/ Bind \/ Subscribe
           \/ HandleNote \/ FollowAttached \/ Publish
  BY <1>3 DEF Gather, PlanStep, PlanEnd, PassEnd, DispatchOne, ClaimWon,
              ClaimLater, Reattach, Resubscribe, DispatchFresh, ReleasePane,
              Prepare, Launch, Bind, Subscribe, HandleNote, FollowAttached,
              Publish
<1>4. CASE Cycle \/ Start \/ RecoverTask \/ RecoverSubscribe \/ RebuildSlots
           \/ TakeOver \/ RecoverEnd
  BY <1>4 DEF Cycle, Start, RecoverTask, RecoverSubscribe, RebuildSlots,
              TakeOver, RecoverEnd
<1>5. CASE ClaimRefused
  BY <1>1, <1>2, <1>5 DEF ClaimRefused, EngineEvents, Handlers, PCs
<1>6. CASE Reuse
  BY <1>1, <1>2, <1>6 DEF Reuse, EngineEvents, Handlers, PCs
<1>7. CASE Record
  BY <1>1, <1>2, <1>7 DEF Record, EngineEvents, Handlers, PCs
<1>8. CASE FailDispatch
  BY <1>1, <1>2, <1>8 DEF FailDispatch, EngineEvents, Handlers, PCs
<1>9. CASE AutoRetry
  <2>1. pc = "retry" /\ pc \in Handlers BY <1>9 DEF AutoRetry, Handlers, PCs
  <2>2. spent[act.task] + 1 \in Nat BY <1>1, <2>1
  <2>3. QED BY <1>1, <1>2, <1>9, <2>1, <2>2 DEF AutoRetry, EngineEvents
<1>10. CASE ApplyEvent
  <2>1. pc = "apply" /\ pc \in Handlers BY <1>10 DEF ApplyEvent, Handlers, PCs
  <2>2. Head(act.events) \in Advances \cup {"Fail"}
    <3>1. act.events \in Seq(Advances) \/ act.events \in Seq({"Fail"})
      BY <2>1 DEF LedgerOK, HandlerOK
    <3>2. act.events # <<>> BY <2>1 DEF LedgerOK, HandlerOK
    <3>3. QED BY <3>1, <3>2
  <2>3. CASE Isolate(Head(act.events)) BY <1>2, <2>3
  <2>4. CASE ~Isolate(Head(act.events))
    <3>1. /\ Write(Head(act.events), spent[act.task]) /\ UNCHANGED boundVars
      BY <1>10, <2>4 DEF ApplyEvent
    <3>2. Head(act.events) \in EngineEvents /\ Head(act.events) # "Retry"
      BY <2>2 DEF EngineEvents, Advances
    <3>3. QED BY <1>1, <2>1, <3>1, <3>2
  <2>5. QED BY <2>3, <2>4
<1>11. CASE Complete
  BY <1>1, <1>2, <1>11 DEF Complete, EngineEvents, Handlers, PCs
<1>12. CASE FailPublish
  BY <1>1, <1>2, <1>12 DEF FailPublish, EngineEvents, Handlers, PCs
<1>13. QED BY <1>3, <1>4, <1>5, <1>6, <1>7, <1>8, <1>9, <1>10, <1>11, <1>12
          DEF EngineStep

\* a step that writes no row: nobody comes to hold a version it has not reached
LEMMA VersionsKept ==
    ASSUME LedgerOK, VersionsOK, row' = row, snapshot' = snapshot,
           \/ act' = NoAct
           \/ act'.task = act.task /\ act'.ver = act.ver
           \/ act'.task \in Tasks /\ act'.ver <= row[act'.task].version,
           pc' = "retry" => pc = "retry" /\ act' = act
    PROVE  VersionsOK'
<1>1. NoAct.task \notin Tasks BY NoActOK, NoTaskAssumption
<1>2. pc = "retry" => act.task \in Tasks
  BY DEF LedgerOK, HandlerOK, Handlers, PCs
<1>3. QED BY <1>1, <1>2 DEF VersionsOK

\* a step that writes one row: its version is one up
LEMMA VersionsUp ==
    ASSUME LedgerOK, VersionsOK, NEW t \in Tasks,
           row'[t].version = row[t].version + 1,
           \A u \in Tasks \ {t} : row'[u] = row[u],
           snapshot' = snapshot,
           \/ act' = NoAct /\ pc' # "retry"
           \/ act' = act /\ pc' = pc
           \/ /\ act'.task = t /\ act'.ver = row'[t].version
              /\ pc' = "retry" => row'[t].state = "failed"
           \/ /\ act'.task = t /\ act'.ver = act.ver /\ act.task = t
              /\ pc' # "retry"
    PROVE  VersionsOK'
<1>1. NoAct.task \notin Tasks BY NoActOK, NoTaskAssumption
<1>2. pc = "retry" => act.task \in Tasks
  BY DEF LedgerOK, HandlerOK, Handlers, PCs
<1>3. /\ \A u \in Tasks : row[u].version \in Nat /\ snapshot[u].version \in Nat
      /\ act.ver \in Nat
  BY DEF LedgerOK, TypeOK, RowRecords, Acts
<1>4. \A u \in Tasks : /\ row[u].version <= row'[u].version
                       /\ row'[u].version \in Nat
  BY <1>3
<1>5. \A u \in Tasks : snapshot'[u].version <= row'[u].version
  BY <1>3, <1>4 DEF VersionsOK
<1>6. act'.task \in Tasks => act'.ver <= row'[act'.task].version
  BY <1>1, <1>3, <1>4 DEF VersionsOK
<1>7. pc' = "retry" /\ act'.ver = row'[act'.task].version
        => row'[act'.task].state = "failed"
  BY <1>2, <1>3, <1>4 DEF VersionsOK
<1>8. QED BY <1>5, <1>6, <1>7 DEF VersionsOK

\* the engine forgets everything it read
LEMMA VersionsLost ==
    ASSUME LedgerOK, VersionsOK, row' = row, act' = NoAct, pc' # "retry",
           snapshot' = [t \in Tasks |-> [state |-> "queued", version |-> 0]]
    PROVE  VersionsOK'
<1>1. NoAct.task \notin Tasks BY NoActOK, NoTaskAssumption
<1>2. \A u \in Tasks : row[u].version \in Nat
  BY DEF LedgerOK, TypeOK, RowRecords
<1>3. \A u \in Tasks : 0 <= row[u].version BY <1>2
<1>4. \A u \in Tasks : snapshot'[u].version <= row'[u].version
  BY <1>3
<1>5. QED BY <1>1, <1>4 DEF VersionsOK

LEMMA VersionsIsolate ==
    ASSUME LedgerOK, VersionsOK, pc \in Handlers, NEW event, Isolate(event)
    PROVE  VersionsOK'
<1>1. row' = row BY DEF Isolate, dbVars
<1>2. CASE act.from \in {"recover", "takeover"}
  <2>1. LoseMemory BY <1>2 DEF Isolate
  <2>2. QED BY <1>1, <2>1, LoseMemoryEffect, VersionsLost
<1>3. CASE act.from \notin {"recover", "takeover"}
  <2>1. Return /\ snapshot' = snapshot BY <1>3 DEF Isolate, recVars
  <2>2. act' = NoAct /\ pc' # "retry" BY <2>1, ReturnEffect DEF LedgerOK
  <2>3. QED BY <1>1, <2>1, <2>2, VersionsKept
<1>4. QED BY <1>2, <1>3

LEMMA VersionsInit == Init => VersionsOK
<1> SUFFICES ASSUME Init PROVE VersionsOK
  OBVIOUS
<1>1. act.task \notin Tasks BY NoActOK, NoTaskAssumption DEF Init
<1>2. QED BY <1>1 DEF Init, VersionsOK

\* a write of the handler that returns, or goes on with the version it made
LEMMA VersionsWrite ==
    ASSUME LedgerOK, VersionsOK, pc \in Handlers,
           NEW event, NEW streak \in Nat, Write(event, streak),
           snapshot' = snapshot,
           \/ act' = NoAct /\ pc' # "retry"
           \/ /\ act'.task = act.task /\ act'.ver = row'[act.task].version
              /\ pc' = "retry" => event = "Fail"
           \/ act'.task = act.task /\ act'.ver = act.ver /\ pc' # "retry"
    PROVE  VersionsOK'
<1>1. act.task \in Tasks BY DEF LedgerOK, HandlerOK
<1>2. /\ row'[act.task].version = row[act.task].version + 1
      /\ event = "Fail" => row'[act.task].state = "failed"
      /\ \A u \in Tasks \ {act.task} : row'[u] = row[u]
  BY <1>1, WriteEffect, EventTargets DEF LedgerOK
<1>3. QED BY <1>1, <1>2, VersionsUp

LEMMA VersionsStep == LedgerOK /\ VersionsOK /\ [Next]_vars => VersionsOK'
<1> SUFFICES ASSUME LedgerOK, VersionsOK, Next \/ UNCHANGED vars PROVE VersionsOK'
  OBVIOUS
<1> USE DEF dbVars, worldVars, streamVars, planVars, recVars, boundVars
<1>1. pc \in Handlers =>
        /\ act.task \in Tasks /\ spent[act.task] \in Nat
        /\ spent[act.task] + 1 \in Nat
  BY DEF LedgerOK, HandlerOK, TypeOK
<1>2. \A t \in Tasks : row[t].version \in Nat /\ row[t].version <= row[t].version
  BY DEF LedgerOK, TypeOK, RowRecords
<1>3. CASE Gather \/ PlanStep \/ PlanEnd \/ PassEnd \/ ClaimWon \/ DispatchFresh
           \/ ReleasePane \/ Prepare \/ Launch \/ Bind \/ Publish
           \/ Cycle \/ Start \/ RebuildSlots \/ AgentStep \/ UNCHANGED vars
  <2>1. CASE Start
    BY <1>2, <2>1 DEF Start, VersionsOK
  <2>2. CASE ~Start
    <3>1. row' = row /\ snapshot' = snapshot /\ act' = act
          /\ (pc' = "retry" => pc = "retry")
      BY <1>3, <2>2
         DEF Gather, PlanStep, PlanEnd, PassEnd, ClaimWon, DispatchFresh,
             ReleasePane, Prepare, Launch, Bind, Publish, Cycle, RebuildSlots,
             AgentStep, AgentMoves, AgentExits, StreamDrops, vars
    <3>2. QED BY <3>1, VersionsKept
  <2>3. QED BY <2>1, <2>2
<1>4. CASE DispatchOne
  <2> DEFINE t == Head(plan)
  <2>1. t \in Tasks BY <1>4 DEF DispatchOne, LedgerOK, TypeOK
  <2>2. \/ act' = act /\ pc' = pc
        \/ act' = Moving(t, row[t].version, "plan") /\ pc' # "retry"
    BY <1>4 DEF DispatchOne
  <2>3. \/ act' = act /\ pc' = pc
        \/ act'.task = t /\ act'.ver = row[t].version /\ pc' # "retry"
    BY <1>2, <2>1, <2>2, MovingOK DEF Froms
  <2>4. QED BY <1>2, <1>4, <2>1, <2>3, VersionsKept DEF DispatchOne
<1>5. CASE ClaimLater \/ Subscribe
  <2>1. pc \in Handlers BY <1>5 DEF ClaimLater, Subscribe, Handlers, PCs
  <2>2. row' = row /\ snapshot' = snapshot
        /\ (Return \/ (act' = act /\ pc' # "retry"))
    BY <1>5 DEF ClaimLater, Subscribe
  <2>3. act' = NoAct \/ (act' = act /\ pc' # "retry")
    BY <2>1, <2>2, ReturnEffect DEF LedgerOK
  <2>4. pc' # "retry" BY <2>1, <2>2, ReturnEffect DEF LedgerOK
  <2>5. QED BY <2>2, <2>3, <2>4, VersionsKept
<1>6. CASE ClaimRefused
  <2>1. pc \in Handlers BY <1>6 DEF ClaimRefused, Handlers, PCs
  <2>2. PICK event \in {"Skip", "Fail"} :
          \/ Write(event, spent[act.task]) /\ Return /\ snapshot' = snapshot
          \/ Isolate(event)
    BY <1>6 DEF ClaimRefused
  <2>3. CASE Isolate(event) BY <2>1, <2>3, VersionsIsolate
  <2>4. CASE ~Isolate(event)
    <3>1. act' = NoAct /\ pc' # "retry"
      BY <2>1, <2>2, <2>4, ReturnEffect DEF LedgerOK
    <3>2. QED BY <1>1, <2>1, <2>2, <2>4, <3>1, VersionsWrite
  <2>5. QED BY <2>3, <2>4
<1>7. CASE Reuse
  <2>1. pc \in Handlers BY <1>7 DEF Reuse, Handlers, PCs
  <2>2. CASE Isolate("Dispatch") BY <2>1, <2>2, VersionsIsolate
  <2>3. CASE ~Isolate("Dispatch")
    <3>1. /\ Write("Dispatch", 0) /\ snapshot' = snapshot /\ pc' # "retry"
          /\ act' = act
      BY <1>7, <2>3 DEF Reuse
    <3>2. QED BY <2>1, <3>1, VersionsWrite
  <2>4. QED BY <2>2, <2>3
<1>21. CASE Reattach \/ Resubscribe
  <2>1. /\ UNCHANGED <<row, snapshot>> /\ pc' # "retry"
        /\ act' = act \/ \E said : act' = [act EXCEPT !.next = said]
    BY <1>21 DEF Reattach, Resubscribe
  <2>2. act'.task = act.task /\ act'.ver = act.ver
    BY <2>1 DEF LedgerOK, TypeOK, Acts
  <2>3. QED BY <2>1, <2>2, VersionsKept
<1>8. CASE Record
  <2>1. pc \in Handlers BY <1>8 DEF Record, Handlers, PCs
  <2>2. CASE Isolate("Dispatch") BY <2>1, <2>2, VersionsIsolate
  <2>3. CASE ~Isolate("Dispatch")
    <3>1. /\ Write("Dispatch", 0) /\ snapshot' = snapshot /\ pc' # "retry"
          /\ act' = [act EXCEPT !.ver = row'[act.task].version]
      BY <1>8, <2>3 DEF Record
    <3>2. act'.task = act.task /\ act'.ver = row'[act.task].version
      BY <3>1 DEF LedgerOK, TypeOK, Acts
    <3>3. QED BY <2>1, <3>1, <3>2, VersionsWrite
  <2>4. QED BY <2>2, <2>3
<1>9. CASE FailDispatch
  <2>1. pc \in Handlers BY <1>9 DEF FailDispatch, Handlers, PCs
  <2>2. CASE Isolate("Fail") BY <2>1, <2>2, VersionsIsolate
  <2>3. CASE ~Isolate("Fail")
    <3>1. /\ Write("Fail", spent[act.task]) /\ snapshot' = snapshot
          /\ act' = [act EXCEPT !.ver = row'[act.task].version]
      BY <1>9, <2>3 DEF FailDispatch
    <3>2. act'.task = act.task /\ act'.ver = row'[act.task].version
      BY <3>1 DEF LedgerOK, TypeOK, Acts
    <3>3. QED BY <1>1, <2>1, <3>1, <3>2, VersionsWrite
  <2>4. QED BY <2>2, <2>3
<1>10. CASE AutoRetry
  <2>1. pc \in Handlers BY <1>10 DEF AutoRetry, Handlers, PCs
  <2>2. CASE Isolate("Retry") BY <2>1, <2>2, VersionsIsolate
  <2>3. CASE ~Isolate("Retry")
    <3>1. /\ Return /\ snapshot' = snapshot
          /\ Write("Retry", spent[act.task] + 1) \/ row' = row
      BY <1>10, <2>3 DEF AutoRetry
    <3>2. act' = NoAct /\ pc' # "retry"
      BY <2>1, <3>1, ReturnEffect DEF LedgerOK
    <3>3. QED BY <1>1, <2>1, <3>1, <3>2, VersionsWrite, VersionsKept
  <2>4. QED BY <2>2, <2>3
<1>11. CASE HandleNote
  <2> DEFINE Notes == [task : Tasks, run : Nat, state : AgentStates]
             note == Head(inbox)
  <2>1. note \in Notes
    <3>1. inbox \in Seq(Notes) /\ inbox # <<>>
      BY <1>11 DEF HandleNote, LedgerOK, TypeOK
    <3> HIDE DEF Notes
    <3>2. QED BY <3>1
  <2>2. \/ act' = NoAct
        \/ act'.task = note.task /\ act'.ver = row[note.task].version
    <3>1. \/ React(note.task, note.state, "event")
          \/ act' = NoAct
      BY <1>11 DEF HandleNote
    <3>2. QED BY <2>1, <3>1, ReactOK DEF LedgerOK, Froms
  <2>3. pc' # "retry"
    <3>1. \/ React(note.task, note.state, "event") \/ pc' = "ready"
      BY <1>11 DEF HandleNote
    <3>2. QED BY <2>1, <3>1, ReactOK DEF LedgerOK, Froms, ReturnTo
  <2>4. row' = row /\ snapshot' = snapshot BY <1>11 DEF HandleNote
  <2>5. note.task \in Tasks BY <2>1
  <2>6. QED BY <1>2, <2>2, <2>3, <2>4, <2>5, VersionsKept
<1>12. CASE FollowAttached
  <2>1. pc \in Handlers BY <1>12 DEF FollowAttached, Handlers, PCs
  <2>2. act.from \in Froms \ {"none"} /\ act.next \in PaneStates
    BY <1>12, <2>1 DEF FollowAttached, LedgerOK, HandlerOK, TypeOK, Acts, Froms,
                       Answered
  <2>3. React(act.task, act.next, act.from) BY <1>12 DEF FollowAttached
  <2>4. \/ act' = NoAct
        \/ act'.task = act.task /\ act'.ver = row[act.task].version
    BY <1>1, <2>1, <2>2, <2>3, ReactOK DEF LedgerOK
  <2>5. pc' # "retry"
    BY <1>1, <2>1, <2>2, <2>3, ReactOK DEF LedgerOK, Froms, ReturnTo
  <2>6. row' = row /\ snapshot' = snapshot BY <1>12 DEF FollowAttached
  <2>7. QED BY <1>1, <1>2, <2>1, <2>4, <2>5, <2>6, VersionsKept
<1>13. CASE ApplyEvent
  <2>1. pc \in Handlers BY <1>13 DEF ApplyEvent, Handlers, PCs
  <2>2. CASE Isolate(Head(act.events)) BY <2>1, <2>2, VersionsIsolate
  <2>3. CASE ~Isolate(Head(act.events))
    <3>1. /\ Write(Head(act.events), spent[act.task]) /\ snapshot' = snapshot
          /\ \/ /\ act' = [act EXCEPT !.ver = row'[act.task].version,
                                      !.events = Tail(act.events)]
                /\ pc' # "retry"
             \/ Return
      BY <1>13, <2>3, ApplyEventEffect
    <3>2. \/ /\ act'.task = act.task /\ act'.ver = row'[act.task].version
             /\ pc' # "retry"
          \/ act' = NoAct /\ pc' # "retry"
      BY <2>1, <3>1, ReturnEffect DEF LedgerOK, TypeOK, Acts
    <3>3. QED BY <1>1, <2>1, <3>1, <3>2, VersionsWrite
  <2>4. QED BY <2>2, <2>3
<1>14. CASE Complete \/ FailPublish
  <2>1. pc \in Handlers BY <1>14 DEF Complete, FailPublish, Handlers, PCs
  <2>2. PICK event \in {"Complete", "Fail"} :
          \/ Write(event, spent[act.task]) /\ Return /\ snapshot' = snapshot
          \/ Isolate(event)
    BY <1>14 DEF Complete, FailPublish
  <2>3. CASE Isolate(event) BY <2>1, <2>3, VersionsIsolate
  <2>4. CASE ~Isolate(event)
    <3>1. act' = NoAct /\ pc' # "retry"
      BY <2>1, <2>2, <2>4, ReturnEffect DEF LedgerOK
    <3>2. QED BY <1>1, <2>1, <2>2, <2>4, <3>1, VersionsWrite
  <2>5. QED BY <2>3, <2>4
<1>15. CASE RecoverTask
  <2>1. PICK t \in todo :
          \/ UNCHANGED <<pc, act>>
          \/ \E said : /\ pc' = "resume"
                       /\ act' = [Moving(t, snapshot[t].version, "recover")
                                    EXCEPT !.next = said]
    BY <1>15 DEF RecoverTask
  <2>2. t \in Tasks BY DEF LedgerOK, TypeOK
  <2>3. \/ UNCHANGED <<pc, act>>
        \/ pc' = "resume" /\ act'.task = t /\ act'.ver = snapshot[t].version
    BY <2>1 DEF Moving
  <2>4. snapshot[t].version <= row[t].version BY <2>2 DEF VersionsOK
  <2>5. QED BY <1>15, <2>2, <2>3, <2>4, VersionsKept DEF RecoverTask
<1>22. CASE RecoverSubscribe
  <2>1. /\ UNCHANGED <<row, snapshot>> /\ pc' # "retry"
        /\ \/ act' = NoAct
           \/ \E events : act' = [act EXCEPT !.events = events,
                                             !.next = "resumed"]
    BY <1>22 DEF RecoverSubscribe
  <2>2. act' = NoAct \/ (act'.task = act.task /\ act'.ver = act.ver)
    BY <2>1 DEF LedgerOK, TypeOK, Acts
  <2>3. QED BY <2>1, <2>2, VersionsKept
<1>16. CASE TakeOver
  <2>1. PICK t \in resumed :
          \/ pc' = "publish" /\ act' = Moving(t, row[t].version, "takeover")
          \/ UNCHANGED <<pc, act>>
    BY <1>16 DEF TakeOver
  <2>2. t \in Tasks BY DEF LedgerOK, TypeOK
  <2>3. \/ UNCHANGED <<pc, act>>
        \/ pc' = "publish" /\ act'.task = t /\ act'.ver = row[t].version
    BY <1>2, <2>1, <2>2, MovingOK DEF Froms
  <2>4. QED BY <1>2, <1>16, <2>2, <2>3, VersionsKept DEF TakeOver
<1>17. CASE RecoverEnd
  <2>1. pc \notin Handlers /\ row' = row /\ act' = act /\ pc' # "retry"
        /\ snapshot' = [t \in Tasks |-> [state |-> "queued", version |-> 0]]
    BY <1>17 DEF RecoverEnd, Handlers
  <2>2. act = NoAct BY <2>1 DEF LedgerOK, HandlerOK
  <2>3. QED BY <2>1, <2>2, VersionsLost
<1>18. CASE PersonStep
  <2>1. PICK t \in Tasks : CliWrites(t) \/ Control(t)
    BY <1>18 DEF PersonStep
  <2>2. PICK event : Legal(row[t].state, event) /\ Moves(t, event)
    BY <2>1, PersonLegal DEF CliWrites, Control, LedgerOK
  <2>3. /\ row'[t].version = row[t].version + 1
        /\ \A u \in Tasks \ {t} : row'[u] = row[u]
    BY <2>2, MovesEffect DEF LedgerOK
  <2>4. CASE CliWrites(t)
    BY <2>3, <2>4, VersionsUp DEF CliWrites
  <2>5. CASE Control(t)
    <3>1. pc \notin Handlers /\ act' = act /\ pc' # "retry" /\ snapshot' = snapshot
      BY <2>5 DEF Control, Handlers
    <3>2. act' = NoAct BY <3>1 DEF LedgerOK, HandlerOK
    <3>3. QED BY <2>3, <3>1, <3>2, VersionsUp
  <2>6. QED BY <2>1, <2>4, <2>5
<1>19. CASE Crash
  BY <1>19, LoseMemoryEffect, VersionsLost DEF Crash
<1>20. QED BY <1>3, <1>4, <1>5, <1>6, <1>7, <1>8, <1>9, <1>10, <1>11, <1>12,
              <1>13, <1>14, <1>15, <1>16, <1>17, <1>18, <1>19, <1>21, <1>22
          DEF Next, EngineStep

(***************************************************************************)
(* Whatever the engine is doing with a task when a person cancels it, no   *)
(* step of the engine takes the row out of "cancelled" again: every write  *)
(* it has under way carries a version the cancel has passed, or is one     *)
(* that "cancelled" does not take.  The automatic retry, the one write     *)
(* that "cancelled" would take, only finds a failed row at its version.    *)
(***************************************************************************)
THEOREM EngineCancelSticks == Spec => CancelSticks
<1> DEFINE Inv == LedgerOK /\ VersionsOK
<1>1. ASSUME Inv, [Next]_vars, NEW t \in Tasks,
             row[t].state = "cancelled", row'[t].state # "cancelled"
      PROVE  asked' = asked + 1
  <2>1. row' # row BY <1>1
  <2>2. CASE EngineStep
    <3>1. PICK event \in EngineEvents :
            /\ pc \in Handlers /\ act.task \in Tasks
            /\ \E streak \in Nat : Write(event, streak)
            /\ event = "Retry" => pc = "retry"
      BY <1>1, <2>1, <2>2, EngineWrites
    <3>2. /\ act.ver = row[act.task].version
          /\ Legal(row[act.task].state, event)
          /\ \A u \in Tasks \ {act.task} : row'[u] = row[u]
      BY <1>1, <3>1, WriteEffect DEF LedgerOK
    <3>3. act.task = t BY <1>1, <3>2
    <3>4. event = "Retry"
      BY <1>1, <3>1, <3>2, <3>3, EventTargets DEF EngineEvents, Advances
    <3>5. row[act.task].state = "failed"
      BY <1>1, <3>1, <3>2, <3>4 DEF VersionsOK
    <3>6. QED BY <1>1, <3>3, <3>5
  <2>3. CASE PersonStep
    BY <2>3 DEF PersonStep, CliWrites, Control, Moves
  <2>4. CASE AgentStep \/ Crash \/ UNCHANGED vars
    BY <2>1, <2>4 DEF AgentStep, AgentMoves, AgentExits, StreamDrops, Crash, vars, dbVars
  <2>5. QED BY <1>1, <2>2, <2>3, <2>4 DEF Next
<1>2. Inv /\ [Next]_vars =>
        [\A t \in Tasks :
           row[t].state = "cancelled" /\ row'[t].state # "cancelled"
             => asked' = asked + 1]_vars
  BY <1>1
<1>3. Init => Inv BY LedgerInit, VersionsInit
<1>4. Inv /\ [Next]_vars => Inv' BY LedgerStep, VersionsStep
<1>5. QED BY <1>2, <1>3, <1>4, PTL DEF Spec, CancelSticks

-----------------------------------------------------------------------------
(***************************************************************************)
(* Slots.  A step of a handler touches its own task only, and hands that   *)
(* task on with its slot, or returns when the slot is free again or the    *)
(* task counts toward it.                                                  *)
(***************************************************************************)
CountedNext(t) == CountsTowardSlot(row'[t].state) \/ t \in cliMoved'

HandsOn ==
    /\ pc' \in Handlers /\ act'.task = act.task /\ act'.from = act.from
    /\ pc' \in {"subscribe", "attached", "resume"} => CountedNext(act.task)
    /\ pc' = "retry" => ~Holds(slots', act.task)
    /\ resumed' = resumed

LetsGo ==
    /\ Return
    /\ ~Holds(slots', act.task) \/ CountedNext(act.task)
    /\ \/ resumed' = resumed
       \/ /\ act.from = "recover" /\ CountedNext(act.task)
          /\ resumed' = resumed \cup {act.task}

MindsItsOwn ==
    \/ LoseMemory
    \/ /\ UNCHANGED <<plan, snapshot, todo>>
       /\ \A t \in Tasks \ {act.task} : Holds(slots', t) => Holds(slots, t)
       /\ HandsOn \/ LetsGo

\* a step that leaves the slots alone and goes on
LEMMA GoesOnOwn ==
    ASSUME UNCHANGED <<slots, plan, snapshot, todo, resumed>>,
           pc' \in Handlers \ {"subscribe", "attached", "resume", "retry"},
           act'.task = act.task, act'.from = act.from
    PROVE  MindsItsOwn
BY DEF MindsItsOwn, HandsOn

LEMMA ReleasesOwn ==
    ASSUME LedgerOK, act.task \in Tasks,
           UNCHANGED <<plan, snapshot, todo, resumed>>,
           slots' = Release(slots, act.task), Return
    PROVE  MindsItsOwn
<1>1. \A t \in Tasks : Holds(slots', t) => Holds(slots, t) /\ t # act.task
  BY ReleaseHolds DEF LedgerOK, TypeOK
<1>2. QED BY <1>1 DEF MindsItsOwn, LetsGo

LEMMA IsolatesOwn ==
    ASSUME LedgerOK, act.task \in Tasks, NEW event, Isolate(event)
    PROVE  MindsItsOwn
<1>1. CASE act.from \in {"recover", "takeover"}
  BY <1>1 DEF Isolate, MindsItsOwn
<1>2. CASE act.from \notin {"recover", "takeover"}
  <2>1. /\ Forget(act.task) /\ Return
        /\ UNCHANGED <<planVars, recVars>>
    BY <1>2 DEF Isolate
  <2>2. slots' = Release(slots, act.task) BY <2>1 DEF Forget
  <2>3. QED BY <2>1, <2>2, ReleasesOwn DEF planVars, recVars
<1>3. QED BY <1>1, <1>2

LEMMA OwnDispatch ==
    ASSUME LedgerOK, SlotsOK, act.task \in Tasks,
           \/ ClaimWon \/ ClaimLater \/ ClaimRefused \/ Reattach \/ Resubscribe
           \/ Reuse \/ DispatchFresh \/ ReleasePane \/ Prepare \/ Launch \/ Bind
           \/ Record \/ Subscribe \/ FailDispatch \/ AutoRetry
    PROVE  MindsItsOwn
<1> USE DEF dbVars, worldVars, streamVars, planVars, recVars, boundVars
<1>1. CASE ClaimWon \/ DispatchFresh \/ ReleasePane \/ Prepare \/ Launch \/ Bind
  <2>1. /\ UNCHANGED <<slots, plan, snapshot, todo, resumed, act>>
        /\ pc' \in {"attach", "release", "prepare", "fail", "launch", "bind",
                    "record"}
    BY <1>1 DEF ClaimWon, DispatchFresh, ReleasePane, Prepare, Launch, Bind
  <2>2. pc' \in Handlers \ {"subscribe", "attached", "resume", "retry"}
    BY <2>1 DEF Handlers, PCs
  <2>3. QED BY <2>1, <2>2, GoesOnOwn
<1>2. CASE ClaimLater
  BY <1>2, ReleasesOwn DEF ClaimLater
<1>3. CASE ClaimRefused
  BY <1>3, ReleasesOwn, IsolatesOwn DEF ClaimRefused
<1>9. CASE Reattach \/ Resubscribe
  <2>1. /\ UNCHANGED <<slots, plan, snapshot, todo, resumed>>
        /\ pc' \in {"resubscribe", "reuse", "release"}
        /\ act' = act \/ \E said : act' = [act EXCEPT !.next = said]
    BY <1>9 DEF Reattach, Resubscribe
  <2>2. act'.task = act.task /\ act'.from = act.from
    BY <2>1 DEF LedgerOK, TypeOK, Acts
  <2>3. pc' \in Handlers \ {"subscribe", "attached", "resume", "retry"}
    BY <2>1 DEF Handlers, PCs
  <2>4. QED BY <2>1, <2>2, <2>3, GoesOnOwn
<1>4. CASE Reuse \/ Record
  <2>1. CASE Isolate("Dispatch") BY <2>1, IsolatesOwn
  <2>2. CASE ~Isolate("Dispatch")
    <3>1. /\ Write("Dispatch", 0) /\ pc' \in {"attached", "subscribe"}
          /\ UNCHANGED <<slots, plan, snapshot, todo, resumed>>
          /\ act' = act \/ act' = [act EXCEPT !.ver = row'[act.task].version]
      BY <1>4, <2>2 DEF Reuse, Record
    <3>2. act'.task = act.task /\ act'.from = act.from
      BY <3>1 DEF LedgerOK, TypeOK, Acts
    <3>3. CountsTowardSlot(row'[act.task].state)
      <4>1. /\ Legal(row[act.task].state, "Dispatch")
            /\ row'[act.task].state = Transition(row[act.task].state, "Dispatch")
        BY <3>1, WriteEffect DEF LedgerOK
      <4>2. QED BY <4>1, EventTargets
    <3>4. pc' \in Handlers /\ pc' # "retry" BY <3>1 DEF Handlers, PCs
    <3>5. QED BY <3>1, <3>2, <3>3, <3>4 DEF MindsItsOwn, HandsOn, CountedNext
  <2>3. QED BY <2>1, <2>2
<1>5. CASE Subscribe
  <2>1. /\ UNCHANGED <<slots, plan, snapshot, todo, resumed, row, cliMoved>>
        /\ Return \/ (pc' = "fail" /\ act' = act)
    BY <1>5 DEF Subscribe
  <2>2. Counted(act.task) BY <1>5 DEF Subscribe, SlotsOK
  <2>3. CountedNext(act.task) BY <2>1, <2>2 DEF Counted, CountedNext
  <2>4. CASE Return BY <2>1, <2>3, <2>4 DEF MindsItsOwn, LetsGo
  <2>5. CASE pc' = "fail" /\ act' = act
    BY <2>1, <2>5, GoesOnOwn DEF Handlers, PCs
  <2>6. QED BY <2>1, <2>4, <2>5
<1>6. CASE FailDispatch
  <2>1. CASE Isolate("Fail") BY <2>1, IsolatesOwn
  <2>2. CASE ~Isolate("Fail")
    <3>1. /\ slots' = Release(slots, act.task) /\ pc' = "retry"
          /\ act' = [act EXCEPT !.ver = row'[act.task].version]
          /\ UNCHANGED <<plan, snapshot, todo, resumed>>
      BY <1>6, <2>2 DEF FailDispatch
    <3>2. act'.task = act.task /\ act'.from = act.from
      BY <3>1 DEF LedgerOK, TypeOK, Acts
    <3>3. \A t \in Tasks : Holds(slots', t) => Holds(slots, t) /\ t # act.task
      BY <3>1, ReleaseHolds DEF LedgerOK, TypeOK
    <3>4. pc' \in Handlers /\ pc' \notin {"subscribe", "attached", "resume"}
      BY <3>1 DEF Handlers, PCs
    <3>5. QED BY <3>1, <3>2, <3>3, <3>4 DEF MindsItsOwn, HandsOn
  <2>3. QED BY <2>1, <2>2
<1>7. CASE AutoRetry
  <2>1. CASE Isolate("Retry") BY <2>1, IsolatesOwn
  <2>2. CASE ~Isolate("Retry")
    <3>1. Return /\ UNCHANGED <<slots, plan, snapshot, todo, resumed>>
      BY <1>7, <2>2 DEF AutoRetry
    <3>2. ~Holds(slots, act.task) BY <1>7 DEF AutoRetry, SlotsOK
    <3>3. QED BY <3>1, <3>2 DEF MindsItsOwn, LetsGo
  <2>3. QED BY <2>1, <2>2
<1>8. QED BY <1>1, <1>2, <1>3, <1>4, <1>5, <1>6, <1>7, <1>9

LEMMA OwnFollow ==
    ASSUME LedgerOK, SlotsOK, act.task \in Tasks,
           FollowAttached \/ ApplyEvent \/ Publish \/ Complete \/ FailPublish
    PROVE  MindsItsOwn
<1> USE DEF dbVars, worldVars, streamVars, planVars, recVars, boundVars
<1>1. CASE FollowAttached
  <2>1. pc = "attached" /\ pc \in Handlers
    BY <1>1 DEF FollowAttached, Handlers, PCs
  <2>2. act.from \in Froms \ {"none"} /\ act.next \in PaneStates
    BY <2>1 DEF LedgerOK, HandlerOK, TypeOK, Acts, Froms, Answered
  <2>3. /\ React(act.task, act.next, act.from)
        /\ UNCHANGED <<slots, plan, snapshot, todo, resumed, row, cliMoved>>
    BY <1>1 DEF FollowAttached
  <2>4. \/ Return
        \/ /\ pc' \in {"publish", "apply"} /\ act'.task = act.task
           /\ act'.from = act.from
    BY <2>2, <2>3, ReactOK DEF LedgerOK, Return
  <2>5. Counted(act.task) BY <2>1 DEF SlotsOK
  <2>6. CountedNext(act.task) BY <2>3, <2>5 DEF Counted, CountedNext
  <2>7. CASE Return BY <2>3, <2>6, <2>7 DEF MindsItsOwn, LetsGo
  <2>8. CASE ~Return BY <2>3, <2>4, <2>8, GoesOnOwn DEF Handlers, PCs
  <2>9. QED BY <2>7, <2>8
<1>2. CASE ApplyEvent
  <2>1. CASE Isolate(Head(act.events)) BY <2>1, IsolatesOwn
  <2>2. CASE ~Isolate(Head(act.events))
    <3>1. /\ Write(Head(act.events), spent[act.task])
          /\ UNCHANGED <<plan, snapshot, todo>>
      BY <1>2, <2>2, ApplyEventEffect
    <3>2. pc = "apply" BY <1>2 DEF ApplyEvent
    <3>3. act.next # "settle" => Head(act.events) \in Advances
      BY <3>2 DEF LedgerOK, HandlerOK
    <3>4. act.next # "settle" => CountedNext(act.task)
      <4>1. /\ Legal(row[act.task].state, Head(act.events))
            /\ row'[act.task].state =
                 Transition(row[act.task].state, Head(act.events))
        <5>1. spent[act.task] \in Nat BY DEF LedgerOK, TypeOK
        <5>2. QED BY <3>1, <5>1, WriteEffect DEF LedgerOK
      <4>2. QED BY <3>3, <4>1, EventTargets DEF CountedNext
    <3>5. CASE /\ act' = [act EXCEPT !.ver = row'[act.task].version,
                                     !.events = Tail(act.events)]
               /\ \/ pc' = "apply" /\ act'.events # <<>>
                  \/ pc' = "publish" /\ act.next = "publish"
               /\ UNCHANGED <<slots, routes, resumed>>
      <4>1. act'.task = act.task /\ act'.from = act.from
        BY <3>5 DEF LedgerOK, TypeOK, Acts
      <4>2. pc' \in Handlers \ {"subscribe", "attached", "resume", "retry"}
        BY <3>5 DEF Handlers, PCs
      <4>3. QED BY <3>1, <3>5, <4>1, <4>2, GoesOnOwn
    <3>6. CASE /\ Return /\ act.next # "publish"
               /\ resumed' = IF act.next = "resumed"
                             THEN resumed \cup {act.task} ELSE resumed
               /\ CASE act.next = "settle" -> Forget(act.task)
                    [] act.next = "resume" ->
                         /\ slots' = Acquire(slots, act.task,
                                             PairOf[act.task][1],
                                             PairOf[act.task][2])
                         /\ UNCHANGED routes
                    [] OTHER -> UNCHANGED <<slots, routes>>
      <4>1. CASE act.next = "settle"
        BY <3>1, <3>6, <4>1, ReleasesOwn DEF Forget
      <4>2. CASE act.next # "settle"
        <5>1. \A t \in Tasks \ {act.task} : Holds(slots', t) => Holds(slots, t)
          <6>1. PairOf[act.task][1] \in Repos /\ PairOf[act.task][2] \in Agents
            BY PairAssumption
          <6>2. slots' = slots \/ slots' = Acquire(slots, act.task,
                                                   PairOf[act.task][1],
                                                   PairOf[act.task][2])
            BY <3>6, <4>2
          <6>3. QED BY <6>1, <6>2, AcquireHolds DEF LedgerOK, TypeOK
        <5>2. act.next = "resumed" => act.from = "recover"
          BY DEF LedgerOK, HandlerOK
        <5>3. QED BY <3>1, <3>4, <3>6, <4>2, <5>1, <5>2 DEF MindsItsOwn, LetsGo
      <4>3. QED BY <4>1, <4>2
    <3>7. QED BY <1>2, <2>2, <3>5, <3>6, ApplyEventEffect
  <2>3. QED BY <2>1, <2>2
<1>3. CASE Publish
  BY <1>3, GoesOnOwn DEF Publish, Handlers, PCs
<1>4. CASE Complete
  BY <1>4, ReleasesOwn, IsolatesOwn DEF Complete, Forget
<1>5. CASE FailPublish
  BY <1>5, ReleasesOwn, IsolatesOwn DEF FailPublish
<1>6. QED BY <1>1, <1>2, <1>3, <1>4, <1>5

LEMMA OwnRecover ==
    ASSUME LedgerOK, SlotsOK, act.task \in Tasks, RecoverSubscribe
    PROVE  MindsItsOwn
<1> USE DEF dbVars, worldVars, streamVars, planVars, recVars, boundVars
<1>1. /\ pc = "resume" /\ act.from = "recover"
      /\ UNCHANGED <<row, cliMoved, slots, plan, snapshot, todo>>
  BY DEF RecoverSubscribe, LedgerOK, HandlerOK
<1>2. CountedNext(act.task) BY <1>1 DEF SlotsOK, Counted, CountedNext
<1>3. CASE /\ pc' = "recover" /\ act' = NoAct
           /\ resumed' = resumed \/ resumed' = resumed \cup {act.task}
  <2>1. Return BY <1>1, <1>3 DEF Return, ReturnTo
  <2>2. QED BY <1>1, <1>2, <1>3, <2>1 DEF MindsItsOwn, LetsGo
<1>4. CASE /\ pc' = "apply" /\ resumed' = resumed
           /\ \E events : act' = [act EXCEPT !.events = events,
                                             !.next = "resumed"]
  <2>1. act'.task = act.task /\ act'.from = act.from
    BY <1>4 DEF LedgerOK, TypeOK, Acts
  <2>2. QED BY <1>1, <1>4, <2>1, GoesOnOwn DEF Handlers, PCs
<1>5. QED BY <1>3, <1>4 DEF RecoverSubscribe

LEMMA OwnStep ==
    ASSUME LedgerOK, SlotsOK, pc \in Handlers, EngineStep
    PROVE  /\ act.task \in Tasks /\ cliMoved' = cliMoved /\ MindsItsOwn
           /\ \A t \in Tasks \ {act.task} : row'[t] = row[t]
<1>1. act.task \in Tasks BY DEF LedgerOK, HandlerOK
<1>2. ~(\/ Gather \/ PlanStep \/ PlanEnd \/ PassEnd \/ DispatchOne \/ HandleNote
        \/ Cycle \/ Start \/ RecoverTask \/ RebuildSlots \/ TakeOver \/ RecoverEnd)
  BY DEF Gather, PlanStep, PlanEnd, PassEnd, DispatchOne, HandleNote, Cycle,
         Start, RecoverTask, RebuildSlots, TakeOver, RecoverEnd, Handlers
<1>3. MindsItsOwn BY <1>1, <1>2, OwnDispatch, OwnFollow, OwnRecover DEF EngineStep
<1>4. cliMoved' = cliMoved BY <1>2, EngineWrites DEF boundVars
<1>5. \A t \in Tasks \ {act.task} : row'[t] = row[t]
  BY EngineWrites, WriteEffect DEF LedgerOK
<1>6. QED BY <1>1, <1>3, <1>4, <1>5

\* outside recovery there is nothing to recover
LEMMA RecoveryIdle ==
    ASSUME todo' = {}, resumed' = {}
    PROVE  RecoveryOK'
BY DEF RecoveryOK

\* in recovery: the lists stay, and only a CLI moves a task on them
LEMMA RecoveryKept ==
    ASSUME LedgerOK, RecoveryOK, UNCHANGED <<todo, resumed, snapshot, act>>,
           InRecovery => InRecovery', cliMoved \subseteq cliMoved',
           pc' = "takeover" => pc = "takeover" \/ todo = {},
           \A t \in Tasks : row'[t] = row[t] \/ t \in cliMoved'
    PROVE  RecoveryOK'
<1>1. todo \subseteq Tasks /\ resumed \subseteq Tasks BY DEF LedgerOK, TypeOK
<1>2. QED BY <1>1 DEF RecoveryOK, Counted

LEMMA RecoveryStep ==
    LedgerOK /\ RecoveryOK /\ SlotsOK /\ [Next]_vars => RecoveryOK'
<1> SUFFICES ASSUME LedgerOK, RecoveryOK, SlotsOK, Next \/ UNCHANGED vars
             PROVE  RecoveryOK'
  OBVIOUS
<1> USE DEF dbVars, worldVars, streamVars, planVars, recVars, boundVars
<1>1. todo \subseteq Tasks /\ resumed \subseteq Tasks BY DEF LedgerOK, TypeOK
<1>2. CASE EngineStep /\ pc \in Handlers
  <2>1. /\ act.task \in Tasks /\ cliMoved' = cliMoved /\ MindsItsOwn
        /\ \A t \in Tasks \ {act.task} : row'[t] = row[t]
    BY <1>2, OwnStep
  <2>2. CASE LoseMemory BY <2>2, LoseMemoryEffect, RecoveryIdle
  <2>3. CASE ~LoseMemory
    <3>1. UNCHANGED <<snapshot, todo>> /\ (HandsOn \/ LetsGo)
      BY <2>1, <2>3 DEF MindsItsOwn
    <3>2. InRecovery <=> act.from \in {"recover", "takeover"}
      BY <1>2 DEF InRecovery, Handlers
    <3>3. /\ act.task \notin todo /\ act.task \notin resumed
          /\ \A t \in todo \cup resumed : CountedNext(t)
      BY <1>1, <2>1, <3>1 DEF RecoveryOK, Counted, CountedNext
    <3>4. CASE HandsOn
      <4>1. InRecovery <=> InRecovery'
        BY <3>2, <3>4 DEF HandsOn, InRecovery, Handlers
      <4>2. pc' # "takeover" BY <3>4 DEF HandsOn, Handlers
      <4>3. QED BY <3>1, <3>3, <3>4, <4>1, <4>2
                DEF HandsOn, RecoveryOK, Counted, CountedNext
    <3>5. CASE LetsGo
      <4>1. act' = NoAct /\ pc' = ReturnTo(act.from)
        BY <3>5 DEF LetsGo, Return
      <4>2. InRecovery => InRecovery'
        BY <3>2, <4>1 DEF InRecovery, ReturnTo
      <4>3. act'.task \notin todo' \cup resumed'
        BY <1>1, <2>1, <3>1, <3>5, <4>1, NoActOK, NoTaskAssumption DEF LetsGo
      <4>4. ~InRecovery => todo' = {} /\ resumed' = {}
        BY <3>1, <3>2, <3>5 DEF LetsGo, RecoveryOK
      <4>5. todo' \cap resumed' = {}
        BY <3>1, <3>3, <3>5 DEF LetsGo, RecoveryOK
      <4>6. \A t \in todo' \cup resumed' : CountedNext(t)
        BY <3>1, <3>3, <3>5 DEF LetsGo
      <4>7. pc' = "takeover" \/ act'.from = "takeover" => todo' = {}
        BY <3>1, <4>1, NoActOK DEF ReturnTo, RecoveryOK
      <4>8. QED BY <3>1, <3>3, <4>2, <4>3, <4>4, <4>5, <4>6, <4>7
                DEF RecoveryOK, Counted, CountedNext
    <3>6. QED BY <3>1, <3>4, <3>5
  <2>4. QED BY <2>2, <2>3
<1>3. pc \notin Handlers => act = NoAct /\ act.from = "none" /\ act.task \notin Tasks
  BY NoActOK, NoTaskAssumption DEF LedgerOK, HandlerOK
<1>4. pc \notin Handlers => (InRecovery <=> pc \in {"recover", "takeover"})
  BY <1>3 DEF InRecovery
<1>5. CASE \/ Gather \/ PlanStep \/ PlanEnd \/ PassEnd \/ DispatchOne \/ HandleNote
           \/ Cycle
  <2>1. pc \notin Handlers /\ pc \notin {"recover", "takeover"}
        /\ UNCHANGED <<todo, resumed>>
    BY <1>5 DEF Gather, PlanStep, PlanEnd, PassEnd, DispatchOne, HandleNote, Cycle,
                Handlers
  <2>2. QED BY <1>4, <2>1, RecoveryIdle DEF RecoveryOK
<1>6. CASE Start
  <2>1. pc \notin Handlers /\ ~InRecovery
    BY <1>4, <1>6 DEF Start, Handlers
  <2>2. /\ resumed' = {} /\ act' = act /\ pc' = "recover" /\ row' = row
        /\ todo' = {t \in Tasks : row[t].state \in RecoverableStates}
    BY <1>6, <2>1 DEF Start, RecoveryOK
  <2>3. \A t \in todo' : CountsTowardSlot(row'[t].state)
    BY <2>2 DEF RecoverableStates, CountsTowardSlot
  <2>4. todo' \subseteq Tasks BY <2>2
  <2>5. QED BY <1>3, <2>1, <2>2, <2>3, <2>4 DEF RecoveryOK, InRecovery, Counted
<1>7. CASE RecoverTask
  <2>1. PICK t \in todo :
          /\ todo' = todo \ {t}
          /\ \/ UNCHANGED <<pc, act>>
             \/ \E said : /\ pc' = "resume"
                          /\ act' = [Moving(t, snapshot[t].version, "recover")
                                       EXCEPT !.next = said]
    BY <1>7 DEF RecoverTask
  <2>2. /\ pc = "recover" /\ pc \notin Handlers /\ act.task \notin Tasks
        /\ UNCHANGED <<row, resumed, cliMoved>> /\ t \in Tasks
    BY <1>1, <1>3, <1>7 DEF RecoverTask, Handlers
  <2>3. \/ UNCHANGED <<pc, act>>
        \/ pc' = "resume" /\ act'.task = t /\ act'.from = "recover"
    BY <2>1 DEF Moving
  <2>4. act'.task \notin todo' \cup resumed'
    BY <1>1, <2>1, <2>2, <2>3 DEF RecoveryOK
  <2>5. /\ InRecovery' /\ ~(pc' = "takeover" \/ act'.from = "takeover")
    BY <1>3, <2>2, <2>3 DEF InRecovery
  <2>6. QED BY <2>1, <2>2, <2>4, <2>5 DEF RecoveryOK, Counted
<1>8. CASE RebuildSlots
  BY <1>8, RecoveryKept DEF RebuildSlots, InRecovery
<1>9. CASE TakeOver
  <2>1. PICK t \in resumed :
          /\ resumed' = resumed \ {t}
          /\ \/ pc' = "publish" /\ act' = Moving(t, row[t].version, "takeover")
             \/ UNCHANGED <<pc, act>>
    BY <1>9 DEF TakeOver
  <2>2. /\ pc = "takeover" /\ pc \notin Handlers /\ act.task \notin Tasks
        /\ UNCHANGED <<row, snapshot, todo, cliMoved>> /\ t \in Tasks
    BY <1>1, <1>3, <1>9, <2>1 DEF TakeOver, Handlers
  <2>3. \/ UNCHANGED <<pc, act>>
        \/ act'.task = t /\ act'.from = "takeover"
    BY <2>1 DEF Moving
  <2>4. act'.task \notin todo' \cup resumed'
    BY <1>1, <2>1, <2>2, <2>3 DEF RecoveryOK
  <2>5. InRecovery' BY <2>2, <2>3 DEF InRecovery
  <2>6. QED BY <2>1, <2>2, <2>4, <2>5 DEF RecoveryOK, Counted
<1>10. CASE RecoverEnd
  <2>1. todo' = todo /\ resumed' = {} BY <1>10 DEF RecoverEnd
  <2>2. todo = {} BY <1>10 DEF RecoverEnd, RecoveryOK
  <2>3. QED BY <2>1, <2>2, RecoveryIdle
<1>11. ASSUME NEW t \in Tasks, CliWrites(t) PROVE RecoveryOK'
  <2>1. PICK event : Legal(row[t].state, event) /\ Moves(t, event)
    BY <1>11, PersonLegal DEF CliWrites, LedgerOK
  <2>2. \A u \in Tasks : row'[u] = row[u] \/ u \in cliMoved'
    BY <1>11, <2>1, MovesEffect DEF CliWrites, LedgerOK
  <2>3. QED BY <1>11, <2>2, RecoveryKept DEF CliWrites, InRecovery
<1>12. ASSUME NEW t \in Tasks, Control(t) PROVE RecoveryOK'
  <2>1. pc \notin Handlers /\ pc \notin {"recover", "takeover"}
        /\ UNCHANGED <<todo, resumed>>
    BY <1>12 DEF Control, Handlers
  <2>2. QED BY <1>4, <2>1, RecoveryIdle DEF RecoveryOK
<1>13. CASE AgentStep \/ UNCHANGED vars
  BY <1>13, RecoveryKept DEF AgentStep, AgentMoves, AgentExits, StreamDrops, vars, InRecovery
<1>14. CASE Crash
  BY <1>14, LoseMemoryEffect, RecoveryIdle DEF Crash
<1>15. CASE EngineStep /\ pc \notin Handlers
  <2>1. ~(\/ ClaimWon \/ ClaimLater \/ ClaimRefused \/ Reattach \/ Resubscribe
          \/ Reuse \/ DispatchFresh \/ ReleasePane \/ Prepare \/ Launch
          \/ Bind \/ Record \/ Subscribe \/ FailDispatch \/ AutoRetry
          \/ FollowAttached \/ ApplyEvent \/ Publish \/ Complete
          \/ FailPublish \/ RecoverSubscribe)
    BY <1>15 DEF ClaimWon, ClaimLater, ClaimRefused, Reattach, Resubscribe,
                 Reuse, DispatchFresh, ReleasePane, Prepare, Launch, Bind,
                 Record, Subscribe, FailDispatch, AutoRetry, FollowAttached,
                 ApplyEvent, Publish, Complete, FailPublish,
                 RecoverSubscribe, Handlers, PCs
  <2>2. QED BY <1>5, <1>6, <1>7, <1>8, <1>9, <1>10, <1>15, <2>1 DEF EngineStep
<1>16. QED BY <1>2, <1>11, <1>12, <1>13, <1>14, <1>15 DEF Next, PersonStep

\* who is planned after an append and after the head was taken off
LEMMA PlannedAppend ==
    ASSUME NEW q \in Seq(Tasks), NEW t \in Tasks, NEW u
    PROVE  /\ \E i \in DOMAIN Append(q, t) : Append(q, t)[i] = t
           /\ (\E i \in DOMAIN q : q[i] = u)
                => \E i \in DOMAIN Append(q, t) : Append(q, t)[i] = u
<1> DEFINE p == Append(q, t)
<1>1. /\ Len(q) \in Nat /\ Len(p) = Len(q) + 1 /\ p[Len(q) + 1] = t
      /\ \A i \in 1..Len(q) : p[i] = q[i]
      /\ DOMAIN q = 1..Len(q) /\ DOMAIN p = 1..Len(p)
  OBVIOUS
<1>2. Len(q) + 1 \in DOMAIN p /\ \A i \in DOMAIN q : i \in DOMAIN p
  BY <1>1
<1>3. QED BY <1>1, <1>2

LEMMA PlannedTail ==
    ASSUME NEW q \in Seq(Tasks), q # <<>>, NEW u, \E i \in DOMAIN q : q[i] = u
    PROVE  u = Head(q) \/ \E i \in DOMAIN Tail(q) : Tail(q)[i] = u
<1>1. PICK i \in DOMAIN q : q[i] = u OBVIOUS
<1>2. CASE i = 1 BY <1>1, <1>2
<1>3. CASE i # 1
  <2>1. /\ Len(q) \in Nat /\ DOMAIN q = 1..Len(q)
        /\ DOMAIN Tail(q) = 1..(Len(q) - 1)
        /\ \A j \in 1..(Len(q) - 1) : Tail(q)[j] = q[j + 1]
    OBVIOUS
  <2>2. i - 1 \in DOMAIN Tail(q) /\ (i - 1) + 1 = i BY <1>1, <1>3, <2>1
  <2>3. Tail(q)[i - 1] = u BY <1>1, <2>1, <2>2
  <2>4. QED BY <2>2, <2>3
<1>4. QED BY <1>2, <1>3

\* a step that hands no slot out and moves no task but by a CLI
LEMMA SlotsKept ==
    ASSUME LedgerOK, SlotsOK, UNCHANGED <<plan, act>>,
           \A t \in Tasks : Holds(slots', t) => Holds(slots, t),
           \A t \in Tasks : row'[t] = row[t] \/ t \in cliMoved',
           cliMoved \subseteq cliMoved',
           pc' = pc \/ pc' \notin {"subscribe", "attached", "resume", "retry"}
    PROVE  SlotsOK'
<1>1. pc \in {"subscribe", "attached", "resume", "retry"} => act.task \in Tasks
  BY DEF LedgerOK, HandlerOK, Handlers, PCs
<1>2. QED BY <1>1 DEF SlotsOK, NoLeakedSlot, InHand, Planned, Counted

\* the engine holds nothing
LEMMA SlotsLost ==
    ASSUME slots' = AllFree, pc' = "down"
    PROVE  SlotsOK'
<1>1. \A t \in Tasks : ~Holds(slots', t) BY DEF AllFree, Holds
<1>2. QED BY <1>1 DEF SlotsOK, NoLeakedSlot

LEMMA SlotsInit == Init => RecoveryOK /\ SlotsOK
<1> SUFFICES ASSUME Init PROVE RecoveryOK /\ SlotsOK
  OBVIOUS
<1>1. \A t \in Tasks : ~Holds(slots, t) BY DEF Init, AllFree, Holds
<1>2. QED BY <1>1 DEF Init, SlotsOK, NoLeakedSlot, RecoveryOK

LEMMA SlotsStep ==
    LedgerOK /\ RecoveryOK /\ SlotsOK /\ [Next]_vars => SlotsOK'
<1> SUFFICES ASSUME LedgerOK, RecoveryOK, SlotsOK, Next \/ UNCHANGED vars
             PROVE  SlotsOK'
  OBVIOUS
<1> USE DEF dbVars, worldVars, streamVars, planVars, recVars, boundVars
<1>1. slots \in Ledgers /\ plan \in Seq(Tasks) BY DEF LedgerOK, TypeOK
<1>2. CASE EngineStep /\ pc \in Handlers
  <2>1. /\ act.task \in Tasks /\ cliMoved' = cliMoved /\ MindsItsOwn
        /\ \A t \in Tasks \ {act.task} : row'[t] = row[t]
    BY <1>2, OwnStep
  <2>2. CASE LoseMemory BY <2>2, LoseMemoryEffect, SlotsLost
  <2>3. CASE ~LoseMemory
    <3>1. /\ plan' = plan
          /\ \A t \in Tasks \ {act.task} : Holds(slots', t) => Holds(slots, t)
          /\ HandsOn \/ LetsGo
      BY <2>1, <2>3 DEF MindsItsOwn
    <3>2. \/ act'.task = act.task
          \/ ~Holds(slots', act.task) \/ CountedNext(act.task)
      BY <3>1 DEF HandsOn, LetsGo
    <3>3. NoLeakedSlot'
      BY <2>1, <3>1, <3>2
         DEF SlotsOK, NoLeakedSlot, InHand, Planned, CountedNext
    <3>4. CASE HandsOn
      BY <3>3, <3>4 DEF HandsOn, SlotsOK, Counted, CountedNext
    <3>5. CASE LetsGo
      BY <1>2, <3>3, <3>5, ReturnEffect DEF LetsGo, SlotsOK, LedgerOK
    <3>6. QED BY <3>1, <3>4, <3>5
  <2>4. QED BY <2>2, <2>3
<1>3. CASE Gather \/ PlanEnd \/ PassEnd
  BY <1>3, SlotsKept DEF Gather, PlanEnd, PassEnd
<1>4. CASE PlanStep
  <2>1. PICK t \in untried :
          LET r == PairOf[t][1]
              a == PairOf[t][2]
          IN  /\ slots' = Acquire(slots, t, r, a)
              /\ plan' = IF AcquireGranted(slots, t, r, a)
                         THEN Append(plan, t) ELSE plan
    BY <1>4 DEF PlanStep
  <2>2. t \in Tasks /\ PairOf[t][1] \in Repos /\ PairOf[t][2] \in Agents
    BY PairAssumption DEF LedgerOK, TypeOK
  <2>3. /\ \A u \in Tasks : Planned(u) => Planned(u)'
        /\ AcquireGranted(slots, t, PairOf[t][1], PairOf[t][2]) => Planned(t)'
    BY <1>1, <2>1, <2>2, PlannedAppend DEF Planned
  <2>4. \A u \in Tasks : Holds(slots', u) => Holds(slots, u) \/ Planned(u)'
    <3> SUFFICES ASSUME NEW u \in Tasks, Holds(slots', u)
                 PROVE  Holds(slots, u) \/ Planned(u)'
      OBVIOUS
    <3>1. Holds(slots, u) \/ u = t
      BY <1>1, <2>1, <2>2, AcquireHolds
    <3>2. u = t => AcquireGranted(slots, t, PairOf[t][1], PairOf[t][2])
      BY <1>1, <2>1, <2>2, AcquireHolds
    <3>3. QED BY <2>3, <3>1, <3>2
  <2>5. UNCHANGED <<row, act, cliMoved, pc>> BY <1>4 DEF PlanStep
  <2>6. NoLeakedSlot'
    BY <2>3, <2>4, <2>5 DEF SlotsOK, NoLeakedSlot, InHand
  <2>7. QED BY <1>4, <2>5, <2>6 DEF PlanStep, SlotsOK
<1>5. CASE DispatchOne
  <2> DEFINE t == Head(plan)
  <2>1. t \in Tasks BY <1>1, <1>5 DEF DispatchOne
  <2>2. \A u \in Tasks : Planned(u) => u = t \/ Planned(u)'
    BY <1>1, <1>5, PlannedTail DEF DispatchOne, Planned
  <2>3. UNCHANGED <<row, cliMoved>> /\ pc' \in {"plan", "claim", "fail"}
    BY <1>5 DEF DispatchOne
  <2>4. act = NoAct /\ act.task \notin Tasks
    BY <1>5, NoActOK, NoTaskAssumption DEF DispatchOne, LedgerOK, HandlerOK, Handlers
  <2>5. CASE slots' = Release(slots, t)
    <3>1. \A u \in Tasks : Holds(slots', u) => Holds(slots, u) /\ u # t
      BY <1>1, <2>1, <2>5, ReleaseHolds
    <3>2. NoLeakedSlot'
      BY <2>2, <2>3, <2>4, <3>1 DEF SlotsOK, NoLeakedSlot, InHand
    <3>3. QED BY <2>3, <3>2 DEF SlotsOK
  <2>6. CASE slots' = slots /\ act' = Moving(t, row[t].version, "plan")
    <3>1. act'.task = t BY <2>6 DEF Moving
    <3>2. NoLeakedSlot'
      BY <2>2, <2>3, <2>4, <2>6, <3>1 DEF SlotsOK, NoLeakedSlot, InHand
    <3>3. QED BY <2>3, <3>2 DEF SlotsOK
  <2>7. QED BY <1>5, <2>5, <2>6 DEF DispatchOne
<1>6. CASE HandleNote
  <2> DEFINE Notes == [task : Tasks, run : Nat, state : AgentStates]
             note == Head(inbox)
  <2>1. note \in Notes
    <3>1. inbox \in Seq(Notes) /\ inbox # <<>>
      BY <1>6 DEF HandleNote, LedgerOK, TypeOK
    <3> HIDE DEF Notes
    <3>2. QED BY <3>1
  <2>2. React(note.task, note.state, "event") \/ pc' = "ready"
    BY <1>6 DEF HandleNote
  <2>3. pc' \notin {"subscribe", "attached", "resume", "retry"}
    BY <2>1, <2>2, ReactOK DEF LedgerOK, Froms, ReturnTo
  <2>4. act = NoAct /\ act.task \notin Tasks
    BY <1>6, NoActOK, NoTaskAssumption DEF HandleNote, LedgerOK, HandlerOK, Handlers
  <2>5. UNCHANGED <<row, slots, plan, cliMoved>> BY <1>6 DEF HandleNote
  <2>6. NoLeakedSlot'
    BY <2>4, <2>5 DEF SlotsOK, NoLeakedSlot, InHand, Planned
  <2>7. QED BY <2>3, <2>6 DEF SlotsOK
<1>7. CASE Cycle
  <2> DEFINE ts == {t \in Tasks : ~CountsTowardSlot(row[t].state)}
  <2>1. /\ slots' = ReleaseAll(slots, ts) /\ row' = row /\ pc' = "ready"
    BY <1>7 DEF Cycle
  <2>2. \A t \in Tasks : Holds(slots', t) => CountsTowardSlot(row'[t].state)
    BY <1>1, <2>1, ReleaseAllHolds
  <2>3. QED BY <2>1, <2>2 DEF SlotsOK, NoLeakedSlot
<1>8. CASE Start \/ RecoverEnd
  BY <1>8, SlotsKept DEF Start, RecoverEnd
<1>9. CASE RecoverTask
  <2>1. /\ UNCHANGED <<row, slots, plan, cliMoved>> /\ pc = "recover"
        /\ \/ pc' = "recover"
           \/ pc' = "resume" /\ act'.task \in todo
    BY <1>9 DEF RecoverTask, Moving
  <2>2. act.task \notin Tasks
    BY <2>1, NoActOK, NoTaskAssumption DEF LedgerOK, HandlerOK, Handlers
  <2>3. NoLeakedSlot'
    BY <2>1, <2>2 DEF SlotsOK, NoLeakedSlot, InHand, Planned
  <2>4. QED BY <2>1, <2>3 DEF SlotsOK, RecoveryOK, Counted
<1>10. CASE RebuildSlots
  <2>1. /\ slots' = Rebuild(Claims) /\ pc' = "takeover"
        /\ UNCHANGED <<row, cliMoved, resumed>>
    BY <1>10 DEF RebuildSlots
  <2>2. \A t \in Tasks : Holds(slots', t) => t \in resumed
    BY <2>1 DEF Rebuild, Claims, Holds
  <2>3. QED BY <2>1, <2>2 DEF SlotsOK, NoLeakedSlot, RecoveryOK, Counted
<1>11. CASE TakeOver
  <2>1. /\ UNCHANGED <<row, slots, plan, cliMoved>> /\ pc' \in {"takeover", "publish"}
        /\ pc = "takeover"
    BY <1>11 DEF TakeOver
  <2>2. act.task \notin Tasks
    BY <2>1, NoActOK, NoTaskAssumption DEF LedgerOK, HandlerOK, Handlers
  <2>3. NoLeakedSlot'
    BY <2>1, <2>2 DEF SlotsOK, NoLeakedSlot, InHand, Planned
  <2>4. QED BY <2>1, <2>3 DEF SlotsOK
<1>12. ASSUME NEW t \in Tasks, CliWrites(t) PROVE SlotsOK'
  <2>1. PICK event : Legal(row[t].state, event) /\ Moves(t, event)
    BY <1>12, PersonLegal DEF CliWrites, LedgerOK
  <2>2. \A u \in Tasks : row'[u] = row[u] \/ u \in cliMoved'
    BY <1>12, <2>1, MovesEffect DEF CliWrites, LedgerOK
  <2>3. QED BY <1>12, <2>2, SlotsKept DEF CliWrites
<1>13. ASSUME NEW t \in Tasks, Control(t) PROVE SlotsOK'
  <2>1. /\ pc = "idle" /\ pc' = "ready" /\ UNCHANGED <<plan, act, cliMoved>>
        /\ \/ /\ MayCancel(t) /\ Moves(t, "Cancel")
              /\ slots' = Release(slots, t)
           \/ /\ row[t].state \in TerminalStates /\ UNCHANGED slots
              /\ \/ Moves(t, "Retry") /\ MayRetry(t)
                 \/ Moves(t, "Reopen")
    BY <1>13 DEF Control, Forget, MayRetry, Retryable, TerminalStates
  <2>2. PICK event : Legal(row[t].state, event) /\ Moves(t, event)
    BY <1>13, PersonLegal DEF Control, LedgerOK
  <2>3. \A u \in Tasks \ {t} : row'[u] = row[u]
    BY <2>2, MovesEffect DEF LedgerOK
  <2>4. \A u \in Tasks : Holds(slots', u) => Holds(slots, u)
    BY <1>1, <2>1, ReleaseHolds
  <2>5. Holds(slots', t) => Holds(slots, t) /\ row[t].state \in TerminalStates
    BY <1>1, <2>1, ReleaseHolds
  <2>6. row[t].state \in TerminalStates => ~CountsTowardSlot(row[t].state)
    BY DEF TerminalStates, CountsTowardSlot
  <2>7. NoLeakedSlot'
    BY <2>1, <2>3, <2>4, <2>5, <2>6 DEF SlotsOK, NoLeakedSlot, InHand, Planned
  <2>8. QED BY <2>1, <2>7 DEF SlotsOK
<1>14. CASE AgentStep \/ UNCHANGED vars
  BY <1>14, SlotsKept DEF AgentStep, AgentMoves, AgentExits, StreamDrops, vars
<1>15. CASE Crash
  BY <1>15, LoseMemoryEffect, SlotsLost DEF Crash
<1>16. CASE EngineStep /\ pc \notin Handlers
  <2>1. ~(\/ ClaimWon \/ ClaimLater \/ ClaimRefused \/ Reattach \/ Resubscribe
          \/ Reuse \/ DispatchFresh \/ ReleasePane \/ Prepare \/ Launch
          \/ Bind \/ Record \/ Subscribe \/ FailDispatch \/ AutoRetry
          \/ FollowAttached \/ ApplyEvent \/ Publish \/ Complete
          \/ FailPublish \/ RecoverSubscribe)
    BY <1>16 DEF ClaimWon, ClaimLater, ClaimRefused, Reattach, Resubscribe,
                 Reuse, DispatchFresh, ReleasePane, Prepare, Launch, Bind,
                 Record, Subscribe, FailDispatch, AutoRetry, FollowAttached,
                 ApplyEvent, Publish, Complete, FailPublish,
                 RecoverSubscribe, Handlers, PCs
  <2>2. QED BY <1>3, <1>4, <1>5, <1>6, <1>7, <1>8, <1>9, <1>10, <1>11, <1>16, <2>1
            DEF EngineStep
<1>17. QED BY <1>2, <1>12, <1>13, <1>14, <1>15, <1>16 DEF Next, PersonStep

(***************************************************************************)
(* No slot leaks, whatever the number of tasks, the caps, the crashes and  *)
(* the people: a task that holds a slot is in hand, or counts toward it,   *)
(* or was moved by a CLI since the last sweep.  The argument is the one    *)
(* MindsItsOwn states, that a handler gives its own task's slot back on    *)
(* every way out, together with what recovery claims slots for.            *)
(***************************************************************************)
THEOREM EngineNoLeakedSlot == Spec => []NoLeakedSlot
<1> DEFINE Inv == LedgerOK /\ RecoveryOK /\ SlotsOK
<1>1. Init => Inv BY LedgerInit, SlotsInit
<1>2. Inv /\ [Next]_vars => Inv' BY LedgerStep, RecoveryStep, SlotsStep
<1>3. Inv => NoLeakedSlot BY DEF SlotsOK
<1>4. QED BY <1>1, <1>2, <1>3, PTL DEF Spec

-----------------------------------------------------------------------------
(***************************************************************************)
(* Followed work.  Who is routed and active holds a slot.                  *)
(***************************************************************************)

\* the points between a task's slot and the write that dispatches it
Dispatching == {"claim", "attach", "resubscribe", "reuse", "release", "prepare",
                "launch", "bind", "record"}

\* FollowedWorkHoldsSlot, of the task in hand too
FollowedOK ==
    \A t \in Tasks :
        t \notin resumed /\ <<t, Latest(t)>> \in routes /\ Follows(row[t].state)
            => Holds(slots, t)

(***************************************************************************)
(* What is in the pass is not followed yet: a task still to be tried, one  *)
(* with a slot that waits for its turn, and the one being dispatched.      *)
(***************************************************************************)
PlanOK ==
    /\ pc # "planning" => untried = {}
    /\ plan # <<>> => pc \in {"planning", "plan"} \/ act.from = "plan"
    /\ \A t \in untried : ~Follows(row[t].state) /\ ~Planned(t)
    /\ \A t \in Tasks :
         Planned(t) => /\ ~Follows(row[t].state)
                       /\ Holds(slots, t) /\ t # act.task
    /\ \A i, j \in DOMAIN plan : plan[i] = plan[j] => i = j

DispatchingOK ==
    pc \in Dispatching =>
        /\ act.from = "plan"
        /\ ~Follows(row[act.task].state) /\ Holds(slots, act.task)

\* a chain of events that is still current is that of a followed task
ApplyOK ==
    /\ pc = "apply" /\ act.next # "settle" /\ act.from # "recover"
    /\ act.ver = row[act.task].version
    => Follows(row[act.task].state)

\* nothing is followed before the slots are rebuilt, and then it has a slot
TakenOK ==
    /\ pc \in {"down", "recover"} \/ act.from = "recover" => routes = {}
    /\ pc = "takeover" \/ act.from = "takeover" =>
         \A t \in resumed : Holds(slots, t)

FollowingOK == FollowedOK /\ PlanOK /\ DispatchingOK /\ ApplyOK /\ TakenOK

\* where a task is once an event was applied: is it followed?
LEMMA FollowTargets ==
    ASSUME NEW from, NEW event, Legal(from, event)
    PROVE  /\ event \in Advances => Follows(Transition(from, event))
           /\ event \in {"Skip", "Fail", "Complete", "Retry", "Cancel", "Reopen"}
                => ~Follows(Transition(from, event))
<1> DEFINE to == Transition(from, event)
<1>1. <<from, event, to>> \in Arrows BY LegalArrow
<1> HIDE DEF to
<1>2. /\ event = "Start" => to = "running"
      /\ event = "WaitInput" => to = "waiting_input"
  BY <1>1 DEF Arrows, TerminalStates, NonTerminalStates
<1>3. /\ event = "ResumeInput" => to = "running"
      /\ event = "BeginPublish" => to = "publishing"
  BY <1>1 DEF Arrows, TerminalStates, NonTerminalStates
<1>4. event = "Complete" => to = "done"
  BY <1>1 DEF Arrows, TerminalStates, NonTerminalStates
<1>5. event \in Advances => Follows(to)
  BY <1>2, <1>3 DEF Advances, Follows
<1>6. event \in {"Skip", "Fail", "Complete", "Retry", "Cancel", "Reopen"}
        => ~Follows(to)
  BY <1>4, EndTargets DEF to, Follows
<1>7. QED BY <1>5, <1>6 DEF to

\* who keeps a slot
LEMMA ReleaseKeeps ==
    ASSUME NEW s \in Ledgers, NEW t \in Tasks, NEW u \in Tasks, u # t, Holds(s, u)
    PROVE  Holds(Release(s, t), u)
BY DEF Release, Holds, Ledgers

LEMMA AcquireKeeps ==
    ASSUME NEW s \in Ledgers, NEW t \in Tasks, NEW r \in Repos, NEW a \in Agents
    PROVE  /\ \A u \in Tasks : Holds(s, u) => Holds(Acquire(s, t, r, a), u)
           /\ AcquireGranted(s, t, r, a) => Holds(Acquire(s, t, r, a), t)
<1>1. <<r, a>> # NoSlot BY NoSlotAssumption
<1>2. QED BY <1>1 DEF Acquire, AcquireGranted, Take, Holds, Ledgers

LEMMA ReleaseAllKeeps ==
    ASSUME NEW s \in Ledgers, NEW ts \in SUBSET Tasks, NEW u \in Tasks \ ts,
           Holds(s, u)
    PROVE  Holds(ReleaseAll(s, ts), u)
BY DEF ReleaseAll, Holds, Ledgers

\* a plan without a task twice, after an append and after its head was taken
LEMMA OnceAppend ==
    ASSUME NEW q \in Seq(Tasks), NEW t \in Tasks,
           \A i, j \in DOMAIN q : q[i] = q[j] => i = j,
           \A i \in DOMAIN q : q[i] # t
    PROVE  /\ \A i, j \in DOMAIN Append(q, t) :
                Append(q, t)[i] = Append(q, t)[j] => i = j
           /\ \A i \in DOMAIN Append(q, t) :
                Append(q, t)[i] = t \/ \E j \in DOMAIN q : q[j] = Append(q, t)[i]
<1> DEFINE p == Append(q, t)
<1>1. /\ Len(q) \in Nat /\ Len(p) = Len(q) + 1 /\ p[Len(q) + 1] = t
      /\ \A i \in 1..Len(q) : p[i] = q[i]
      /\ DOMAIN q = 1..Len(q) /\ DOMAIN p = 1..Len(p)
  OBVIOUS
<1> HIDE DEF p
<1>2. \A i \in DOMAIN p : i = Len(q) + 1 \/ i \in DOMAIN q BY <1>1
<1>3. \A i, j \in DOMAIN p : p[i] = p[j] => i = j BY <1>1, <1>2
<1>4. QED BY <1>1, <1>2, <1>3 DEF p

LEMMA OnceTail ==
    ASSUME NEW q \in Seq(Tasks), q # <<>>,
           \A i, j \in DOMAIN q : q[i] = q[j] => i = j
    PROVE  /\ \A i, j \in DOMAIN Tail(q) : Tail(q)[i] = Tail(q)[j] => i = j
           /\ \A i \in DOMAIN Tail(q) :
                Tail(q)[i] # Head(q) /\ \E j \in DOMAIN q : q[j] = Tail(q)[i]
<1>1. /\ Len(q) \in Nat /\ DOMAIN q = 1..Len(q) /\ 1 \in DOMAIN q /\ Head(q) = q[1]
      /\ DOMAIN Tail(q) = 1..(Len(q) - 1)
      /\ \A j \in 1..(Len(q) - 1) : Tail(q)[j] = q[j + 1]
  OBVIOUS
<1>2. \A i \in DOMAIN Tail(q) : i + 1 \in DOMAIN q /\ i + 1 # 1 /\ i \in Nat
  BY <1>1
<1>3. \A i, j \in DOMAIN Tail(q) : Tail(q)[i] = Tail(q)[j] => i = j
  BY <1>1, <1>2
<1>4. QED BY <1>1, <1>2, <1>3

(***************************************************************************)
(* A step of a handler takes no slot from another task, follows no other   *)
(* task's session, and leaves its own followed only with a slot.           *)
(***************************************************************************)
FollowsOwn ==
    <<act.task, Len(sess'[act.task])>> \in routes' /\ Follows(row'[act.task].state)
        => Holds(slots', act.task)

KeepsFollowing ==
    /\ untried' = untried
    /\ \A t \in Tasks \ {act.task} :
         sess'[t] = sess[t] /\ (Holds(slots, t) => Holds(slots', t))
    /\ \A s \in routes' : s \in routes \/ (s[1] = act.task /\ pc \in Dispatching)
    /\ FollowsOwn
    /\ pc' \in Dispatching =>
         /\ pc \in Dispatching /\ UNCHANGED <<row, slots>>
         /\ act'.task = act.task /\ act'.from = act.from
    /\ ApplyOK'

\* the step ends the handler, or goes on anywhere but to a dispatch or a chain
LEMMA KeepsGoing ==
    ASSUME pc' \notin Dispatching \cup {"apply"}, untried' = untried,
           \A t \in Tasks \ {act.task} :
             sess'[t] = sess[t] /\ (Holds(slots, t) => Holds(slots', t)),
           \A s \in routes' : s \in routes \/ (s[1] = act.task /\ pc \in Dispatching),
           FollowsOwn
    PROVE  KeepsFollowing
BY DEF KeepsFollowing, ApplyOK

LEMMA ReturnsOut ==
    ASSUME LedgerOK, pc \in Handlers, Return
    PROVE  pc' \notin Dispatching \cup {"apply"}
<1>1. pc' \in {"plan", "ready", "recover", "takeover"} BY ReturnEffect DEF LedgerOK
<1>2. QED BY <1>1 DEF Dispatching

LEMMA IsolateFollows ==
    ASSUME LedgerOK, pc \in Handlers, NEW event, Isolate(event)
    PROVE  LoseMemory \/ KeepsFollowing
<1>1. CASE act.from \in {"recover", "takeover"} BY <1>1 DEF Isolate
<1>2. CASE act.from \notin {"recover", "takeover"}
  <2>1. /\ Forget(act.task) /\ Return /\ untried' = untried /\ sess' = sess
    BY <1>2 DEF Isolate, planVars, dbVars
  <2>2. /\ slots' = Release(slots, act.task)
        /\ routes' = routes \ {s \in routes : s[1] = act.task}
    BY <2>1 DEF Forget, RoutesOf
  <2>3. act.task \in Tasks BY DEF LedgerOK, HandlerOK
  <2>4. \A t \in Tasks \ {act.task} : Holds(slots, t) => Holds(slots', t)
    BY <2>2, <2>3, ReleaseKeeps DEF LedgerOK, TypeOK
  <2>5. FollowsOwn
    <3>1. <<act.task, Len(sess'[act.task])>>[1] = act.task OBVIOUS
    <3>2. QED BY <2>2, <3>1 DEF FollowsOwn
  <2>6. QED BY <2>1, <2>2, <2>4, <2>5, KeepsGoing, ReturnsOut
<1>3. QED BY <1>1, <1>2

\* a write that ends the run gives up the slot, or had none to give
LEMMA EndsFollowing ==
    ASSUME LedgerOK, pc \in Handlers, NEW streak \in Nat,
           NEW event \in {"Skip", "Fail", "Complete", "Retry"},
           Write(event, streak), pc' \notin Dispatching \cup {"apply"},
           untried' = untried, sess' = sess, routes' \subseteq routes,
           slots' = Release(slots, act.task) \/ slots' = slots
    PROVE  KeepsFollowing
<1>1. act.task \in Tasks BY DEF LedgerOK, HandlerOK
<1>2. /\ Legal(row[act.task].state, event)
      /\ row'[act.task].state = Transition(row[act.task].state, event)
  BY <1>1, WriteEffect DEF LedgerOK
<1>3. ~Follows(row'[act.task].state) BY <1>2, FollowTargets
<1>4. \A t \in Tasks \ {act.task} : Holds(slots, t) => Holds(slots', t)
  BY <1>1, ReleaseKeeps DEF LedgerOK, TypeOK
<1>5. QED BY <1>3, <1>4, KeepsGoing DEF FollowsOwn

LEMMA FollowingDispatch ==
    ASSUME LedgerOK, RecoveryOK, FollowingOK,
           \/ ClaimWon \/ ClaimLater \/ ClaimRefused
           \/ Reattach \/ Resubscribe \/ Reuse \/ DispatchFresh
           \/ ReleasePane \/ Prepare \/ Launch \/ Bind \/ Record \/ Subscribe
           \/ FailDispatch \/ AutoRetry
    PROVE  LoseMemory \/ KeepsFollowing
<1> USE DEF dbVars, worldVars, streamVars, planVars, recVars, boundVars
<1>1. pc \in Handlers
  BY DEF ClaimWon, ClaimLater, ClaimRefused, Reattach, Resubscribe, Reuse,
         DispatchFresh, ReleasePane, Prepare, Launch, Bind, Record, Subscribe,
         FailDispatch, AutoRetry, Handlers, PCs
<1>2. act.task \in Tasks /\ act.task \notin resumed /\ spent[act.task] \in Nat
  BY <1>1 DEF LedgerOK, HandlerOK, TypeOK, RecoveryOK
<1>3. CASE ClaimWon \/ DispatchFresh \/ ReleasePane \/ Prepare \/ Launch \/ Bind
  <2>1. /\ UNCHANGED <<row, slots, routes, untried, act>> /\ pc \in Dispatching
        /\ pc' \in {"attach", "release", "prepare", "fail", "launch", "bind",
                    "record"}
    BY <1>3 DEF ClaimWon, DispatchFresh, ReleasePane, Prepare, Launch, Bind,
                Dispatching
  <2>2. \A t \in Tasks \ {act.task} : sess'[t] = sess[t]
    BY <1>3 DEF ClaimWon, DispatchFresh, ReleasePane, Prepare, Launch, Bind,
                LedgerOK, TypeOK
  <2>3. ~Follows(row[act.task].state) BY <2>1 DEF FollowingOK, DispatchingOK
  <2>4. FollowsOwn BY <2>1, <2>3 DEF FollowsOwn
  <2>5. ApplyOK' BY <2>1 DEF ApplyOK
  <2>6. QED BY <2>1, <2>2, <2>4, <2>5 DEF KeepsFollowing
<1>4. CASE ClaimLater
  <2>1. /\ UNCHANGED <<row, sess, routes, untried>> /\ Return
        /\ slots' = Release(slots, act.task) /\ pc \in Dispatching
    BY <1>4 DEF ClaimLater, Dispatching
  <2>2. ~Follows(row[act.task].state) BY <2>1 DEF FollowingOK, DispatchingOK
  <2>3. \A t \in Tasks \ {act.task} : Holds(slots, t) => Holds(slots', t)
    BY <1>2, <2>1, ReleaseKeeps DEF LedgerOK, TypeOK
  <2>4. QED BY <1>1, <2>1, <2>2, <2>3, KeepsGoing, ReturnsOut DEF FollowsOwn
<1>5. CASE ClaimRefused
  <2>1. PICK event \in {"Skip", "Fail"} :
          \/ /\ Write(event, spent[act.task]) /\ Return
             /\ slots' = Release(slots, act.task)
             /\ UNCHANGED <<sess, routes, untried>>
          \/ Isolate(event)
    BY <1>5 DEF ClaimRefused
  <2>2. QED BY <1>1, <1>2, <2>1, IsolateFollows, EndsFollowing, ReturnsOut
<1>6. CASE Reuse \/ Record
  <2>1. CASE Isolate("Dispatch") BY <1>1, <2>1, IsolateFollows
  <2>2. CASE ~Isolate("Dispatch")
    <3>1. /\ UNCHANGED <<slots, sess, untried>> /\ pc' \in {"attached", "subscribe"}
          /\ routes' = routes \cup {<<act.task, Latest(act.task)>>}
          /\ pc \in Dispatching
      BY <1>6, <2>2 DEF Reuse, Record, Session, Dispatching
    <3>2. FollowsOwn BY <3>1 DEF FollowsOwn, FollowingOK, DispatchingOK
    <3>3. <<act.task, Latest(act.task)>>[1] = act.task OBVIOUS
    <3>4. QED BY <3>1, <3>2, <3>3, KeepsGoing DEF Dispatching
  <2>3. QED BY <2>1, <2>2
<1>7. CASE Subscribe
  <2>1. /\ UNCHANGED <<slots, row, sess, untried>> /\ routes' \subseteq routes
        /\ Return \/ pc' = "fail"
    BY <1>7 DEF Subscribe
  <2>2. FollowsOwn
    BY <1>2, <2>1 DEF FollowsOwn, FollowingOK, FollowedOK, Latest
  <2>3. QED BY <1>1, <2>1, <2>2, KeepsGoing, ReturnsOut DEF Dispatching
<1>8. CASE FailDispatch
  <2>1. CASE Isolate("Fail") BY <1>1, <2>1, IsolateFollows
  <2>2. CASE ~Isolate("Fail")
    BY <1>1, <1>2, <1>8, <2>2, EndsFollowing DEF FailDispatch, Dispatching
  <2>3. QED BY <2>1, <2>2
<1>9. CASE AutoRetry
  <2>1. CASE Isolate("Retry") BY <1>1, <2>1, IsolateFollows
  <2>2. CASE ~Isolate("Retry")
    <3>1. /\ UNCHANGED <<slots, sess, untried, routes>> /\ Return
          /\ Write("Retry", spent[act.task] + 1) \/ row' = row
      BY <1>9, <2>2 DEF AutoRetry
    <3>2. CASE Write("Retry", spent[act.task] + 1)
      BY <1>1, <1>2, <3>1, <3>2, EndsFollowing, ReturnsOut
    <3>3. CASE row' = row
      <4>1. FollowsOwn
        BY <1>2, <3>1, <3>3 DEF FollowsOwn, FollowingOK, FollowedOK, Latest
      <4>2. QED BY <1>1, <3>1, <4>1, KeepsGoing, ReturnsOut
    <3>4. QED BY <3>1, <3>2, <3>3
  <2>3. QED BY <2>1, <2>2
<1>10. CASE Reattach \/ Resubscribe
  <2>1. /\ UNCHANGED <<row, slots, sess, routes, untried>> /\ pc \in Dispatching
        /\ act'.task = act.task /\ act'.from = act.from
        /\ pc' \in {"resubscribe", "reuse", "release"}
    BY <1>10 DEF Reattach, Resubscribe, Dispatching, LedgerOK, TypeOK, Acts
  <2>2. ~Follows(row[act.task].state) BY <2>1 DEF FollowingOK, DispatchingOK
  <2>3. FollowsOwn BY <2>1, <2>2 DEF FollowsOwn
  <2>4. ApplyOK' BY <2>1 DEF ApplyOK
  <2>5. QED BY <2>1, <2>3, <2>4 DEF KeepsFollowing
<1>11. QED BY <1>3, <1>4, <1>5, <1>6, <1>7, <1>8, <1>9, <1>10

\* whoever reacts to an agent is followed
LEMMA ReactFollows ==
    ASSUME TypeOK, NEW t \in Tasks, NEW said, NEW from, React(t, said, from)
    PROVE  /\ pc' \in {ReturnTo(from), "publish", "apply"}
           /\ pc' = ReturnTo(from) \/ (act'.task = t /\ act'.from = from)
           /\ pc' = ReturnTo(from) => act' = NoAct \/ act'.from = from
           /\ pc' \in {"publish", "apply"} =>
                pc' = ReturnTo(from) \/ Follows(row[t].state)
BY DEF React, Moving

LEMMA FollowingFollow ==
    ASSUME LedgerOK, RecoveryOK, FollowingOK,
           \/ FollowAttached \/ ApplyEvent \/ Publish \/ Complete \/ FailPublish
           \/ RecoverSubscribe
    PROVE  LoseMemory \/ KeepsFollowing
<1> USE DEF dbVars, worldVars, streamVars, planVars, recVars, boundVars
<1>1. pc \in Handlers
  BY DEF FollowAttached, ApplyEvent, Publish, Complete, FailPublish,
         RecoverSubscribe, Handlers, PCs
<1>2. act.task \in Tasks /\ act.task \notin resumed /\ spent[act.task] \in Nat
  BY <1>1 DEF LedgerOK, HandlerOK, TypeOK, RecoveryOK
<1>3. UNCHANGED <<row, slots, sess, routes>> => FollowsOwn
  BY <1>2 DEF FollowsOwn, FollowingOK, FollowedOK, Latest
<1>4. CASE FollowAttached
  <2>1. /\ UNCHANGED <<row, slots, sess, routes, untried>>
        /\ React(act.task, act.next, act.from)
    BY <1>4 DEF FollowAttached
  <2>2. ReturnTo(act.from) \in {"plan", "ready", "recover", "takeover"}
    BY <1>1 DEF LedgerOK, HandlerOK, TypeOK, Acts, ReturnTo
  <2>3. pc' \notin Dispatching
    BY <1>2, <2>1, <2>2, ReactFollows DEF LedgerOK, Dispatching
  <2>4. pc' = "apply" => act'.task = act.task /\ Follows(row[act.task].state)
    BY <1>2, <2>1, <2>2, ReactFollows DEF LedgerOK
  <2>5. ApplyOK' BY <2>1, <2>4 DEF ApplyOK
  <2>6. QED BY <1>3, <2>1, <2>3, <2>5 DEF KeepsFollowing
<1>5. CASE Publish
  BY <1>3, <1>5, KeepsGoing DEF Publish, Dispatching
<1>6. CASE Complete
  <2>1. CASE Isolate("Complete") BY <1>1, <2>1, IsolateFollows
  <2>2. CASE ~Isolate("Complete")
    <3>1. /\ Write("Complete", spent[act.task]) /\ Return
          /\ slots' = Release(slots, act.task) /\ routes' \subseteq routes
          /\ UNCHANGED <<sess, untried>>
      BY <1>6, <2>2 DEF Complete, Forget
    <3>2. QED BY <1>1, <1>2, <3>1, EndsFollowing, ReturnsOut
  <2>3. QED BY <2>1, <2>2
<1>7. CASE FailPublish
  <2>1. CASE Isolate("Fail") BY <1>1, <2>1, IsolateFollows
  <2>2. CASE ~Isolate("Fail")
    BY <1>1, <1>2, <1>7, <2>2, EndsFollowing, ReturnsOut DEF FailPublish
  <2>3. QED BY <2>1, <2>2
<1>8. CASE ApplyEvent
  <2>1. CASE Isolate(Head(act.events)) BY <1>1, <2>1, IsolateFollows
  <2>2. CASE ~Isolate(Head(act.events))
    <3> DEFINE t == act.task
               event == Head(act.events)
    <3>1. /\ Write(event, spent[t]) /\ UNCHANGED <<sess, untried>>
      BY <1>8, <2>2, ApplyEventEffect
    <3>2. pc = "apply" /\ act.events # <<>> BY <1>1, <1>8 DEF ApplyEvent, LedgerOK, HandlerOK
    <3>3. /\ act.next # "settle" => event \in Advances
          /\ act.next = "settle" => event = "Fail"
      BY <3>2 DEF LedgerOK, HandlerOK
    <3>4. /\ Legal(row[t].state, event) /\ act.ver = row[t].version
          /\ row'[t].state = Transition(row[t].state, event)
      BY <1>2, <3>1, WriteEffect DEF LedgerOK
    <3>5. /\ act.next # "settle" => Follows(row'[t].state)
          /\ act.next = "settle" => ~Follows(row'[t].state)
      BY <3>3, <3>4, FollowTargets
    <3>6. act.next # "settle" /\ <<t, Len(sess[t])>> \in routes => Holds(slots, t)
      BY <1>2, <3>2, <3>4 DEF FollowingOK, ApplyOK, TakenOK, FollowedOK, Latest
    <3>7. CASE /\ act' = [act EXCEPT !.ver = row'[act.task].version,
                                     !.events = Tail(act.events)]
               /\ \/ pc' = "apply" /\ act'.events # <<>>
                  \/ pc' = "publish" /\ act.next = "publish"
               /\ UNCHANGED <<slots, routes, resumed>>
      <4>1. act'.task = t /\ act'.next = act.next
        BY <3>7 DEF LedgerOK, TypeOK, Acts
      <4>2. FollowsOwn BY <3>1, <3>5, <3>6, <3>7 DEF FollowsOwn
      <4>3. ApplyOK' BY <3>5, <4>1 DEF ApplyOK
      <4>4. pc' \notin Dispatching BY <3>7 DEF Dispatching
      <4>5. QED BY <3>1, <3>7, <4>2, <4>3, <4>4 DEF KeepsFollowing
    <3>8. CASE /\ Return /\ act.next # "publish"
               /\ resumed' = IF act.next = "resumed"
                             THEN resumed \cup {act.task} ELSE resumed
               /\ CASE act.next = "settle" -> Forget(act.task)
                    [] act.next = "resume" ->
                         /\ slots' = Acquire(slots, act.task,
                                             PairOf[act.task][1],
                                             PairOf[act.task][2])
                         /\ UNCHANGED routes
                    [] OTHER -> UNCHANGED <<slots, routes>>
      <4>1. pc' \notin Dispatching \cup {"apply"} BY <1>1, <3>8, ReturnsOut
      <4>2. CASE act.next = "settle"
        <5>1. event = "Fail" /\ slots' = Release(slots, t) /\ routes' \subseteq routes
          BY <3>3, <3>8, <4>2 DEF Forget
        <5>2. QED BY <1>1, <1>2, <3>1, <4>1, <5>1, EndsFollowing
      <4>3. CASE act.next # "settle"
        <5>1. PairOf[t][1] \in Repos /\ PairOf[t][2] \in Agents
          BY <1>2, PairAssumption
        <5>2. /\ slots' = slots \/ slots' = Acquire(slots, t, PairOf[t][1], PairOf[t][2])
              /\ routes' = routes
          BY <3>8, <4>3
        <5>3. \A u \in Tasks : Holds(slots, u) => Holds(slots', u)
          BY <1>2, <5>1, <5>2, AcquireKeeps DEF LedgerOK, TypeOK
        <5>4. FollowsOwn
          BY <1>2, <3>1, <3>6, <4>3, <5>2, <5>3 DEF FollowsOwn
        <5>5. QED BY <3>1, <4>1, <5>2, <5>3, <5>4, KeepsGoing
      <4>4. QED BY <4>2, <4>3
    <3>9. QED BY <1>8, <2>2, <3>7, <3>8, ApplyEventEffect
  <2>3. QED BY <2>1, <2>2
<1>9. CASE RecoverSubscribe
  <2>1. /\ UNCHANGED <<row, slots, sess, routes, untried>>
        /\ pc' \in {"recover", "apply"} /\ act.from = "recover"
        /\ pc' = "apply" => act'.from = act.from
    BY <1>9 DEF RecoverSubscribe, LedgerOK, HandlerOK, TypeOK, Acts
  <2>2. ApplyOK' BY <2>1 DEF ApplyOK
  <2>3. QED BY <1>3, <2>1, <2>2 DEF KeepsFollowing, Dispatching
<1>10. QED BY <1>4, <1>5, <1>6, <1>7, <1>8, <1>9

LEMMA FollowingKeeps ==
    ASSUME LedgerOK, RecoveryOK, FollowingOK, pc \in Handlers, EngineStep, ~LoseMemory
    PROVE  KeepsFollowing
<1>1. ~(\/ Gather \/ PlanStep \/ PlanEnd \/ PassEnd \/ DispatchOne \/ HandleNote
        \/ Cycle \/ Start \/ RecoverTask \/ RebuildSlots \/ TakeOver \/ RecoverEnd)
  BY DEF Gather, PlanStep, PlanEnd, PassEnd, DispatchOne, HandleNote, Cycle,
         Start, RecoverTask, RebuildSlots, TakeOver, RecoverEnd, Handlers
<1>2. QED BY <1>1, FollowingDispatch, FollowingFollow DEF EngineStep

LEMMA FollowingHandler ==
    ASSUME LedgerOK, RecoveryOK, SlotsOK, FollowingOK, pc \in Handlers, EngineStep,
           ~LoseMemory
    PROVE  FollowingOK'
<1>1. /\ act.task \in Tasks /\ MindsItsOwn
      /\ \A t \in Tasks \ {act.task} : row'[t] = row[t]
  BY OwnStep
<1>2. plan' = plan /\ (HandsOn \/ LetsGo) BY <1>1 DEF MindsItsOwn
<1>3. KeepsFollowing BY FollowingKeeps
<1>4. resumed \subseteq resumed' /\ act.task \notin resumed
      /\ \A t \in resumed' : t \in resumed \/ (act.from = "recover" /\ t = act.task)
  BY <1>1, <1>2 DEF HandsOn, LetsGo, RecoveryOK
<1>5. \/ pc' \in Handlers /\ act'.task = act.task /\ act'.from = act.from
      \/ /\ pc' = ReturnTo(act.from) /\ act' = NoAct
         /\ pc' \in {"plan", "ready", "recover", "takeover"}
  BY <1>2, ReturnEffect DEF HandsOn, LetsGo, Return, LedgerOK
<1>6. act'.task = act.task \/ act'.task \notin Tasks
  BY <1>5, NoActOK, NoTaskAssumption
<1>7. FollowedOK'
  <2>1. \A t \in Tasks \ {act.task} :
          <<t, Len(sess'[t])>> \in routes' => <<t, Len(sess[t])>> \in routes
    <3>1. \A t, n : <<t, n>>[1] = t OBVIOUS
    <3>2. QED BY <1>3, <3>1 DEF KeepsFollowing
  <2>2. QED BY <1>1, <1>3, <1>4, <2>1
            DEF FollowingOK, FollowedOK, Latest, KeepsFollowing, FollowsOwn
<1>8. PlanOK'
  <2>1. pc' # "planning" /\ untried' = {}
    BY <1>3, <1>5 DEF KeepsFollowing, FollowingOK, PlanOK, Handlers
  <2>2. plan' # <<>> => pc' \in {"planning", "plan"} \/ act'.from = "plan"
    BY <1>2, <1>5 DEF FollowingOK, PlanOK, ReturnTo, Handlers
  <2>3. \A t \in Tasks : Planned(t)' => ~Follows(row'[t].state)
                                        /\ Holds(slots', t) /\ t # act'.task
    BY <1>1, <1>2, <1>3, <1>6
       DEF FollowingOK, PlanOK, Planned, KeepsFollowing
  <2>4. \A i, j \in DOMAIN plan' : plan'[i] = plan'[j] => i = j
    BY <1>2 DEF FollowingOK, PlanOK
  <2>5. QED BY <2>1, <2>2, <2>3, <2>4 DEF PlanOK
<1>9. DispatchingOK'
  BY <1>3 DEF DispatchingOK, KeepsFollowing, FollowingOK
<1>10. ApplyOK' BY <1>3 DEF KeepsFollowing
<1>11. TakenOK'
  <2>1. act.from = "recover" => routes' = {}
    BY <1>3 DEF KeepsFollowing, FollowingOK, TakenOK, DispatchingOK
  <2>2. pc' \in {"down", "recover"} \/ act'.from = "recover" => act.from = "recover"
    BY <1>5, NoActOK DEF ReturnTo, Handlers
  <2>3. pc' = "takeover" \/ act'.from = "takeover" => act.from = "takeover"
    BY <1>5, NoActOK DEF ReturnTo, Handlers
  <2>4. act.from = "takeover" => \A t \in resumed' : Holds(slots', t)
    <3>1. resumed \subseteq Tasks BY DEF LedgerOK, TypeOK
    <3>2. QED BY <1>3, <1>4, <3>1 DEF KeepsFollowing, FollowingOK, TakenOK
  <2>5. QED BY <2>1, <2>2, <2>3, <2>4 DEF TakenOK
<1>12. QED BY <1>7, <1>8, <1>9, <1>10, <1>11 DEF FollowingOK

\* a step that moves nothing these facts are about
LEMMA FollowingKept ==
    ASSUME FollowingOK, UNCHANGED <<row, sess, slots, routes, resumed, plan, act, untried>>,
           \/ pc' = pc
           \/ /\ pc' \notin Dispatching \cup {"planning", "down", "recover",
                                              "takeover", "apply"}
              /\ untried = {}
              /\ plan = <<>> \/ pc' = "plan"
    PROVE  FollowingOK'
<1>1. FollowedOK' BY DEF FollowingOK, FollowedOK, Latest
<1>2. PlanOK' BY DEF FollowingOK, PlanOK, Planned
<1>3. DispatchingOK' /\ ApplyOK' BY DEF FollowingOK, DispatchingOK, ApplyOK, Dispatching
<1>4. TakenOK' BY DEF FollowingOK, TakenOK
<1>5. QED BY <1>1, <1>2, <1>3, <1>4 DEF FollowingOK

\* nothing is followed, nothing is planned
LEMMA FollowingLost ==
    ASSUME routes' = {}, plan' = <<>>, untried' = {}, pc' = "down", act' = NoAct
    PROVE  FollowingOK'
<1>1. FollowedOK' BY DEF FollowedOK
<1>2. \A t : ~Planned(t)' BY DEF Planned
<1>3. PlanOK' BY <1>2 DEF PlanOK
<1>4. DispatchingOK' /\ ApplyOK' BY DEF DispatchingOK, ApplyOK, Dispatching
<1>5. TakenOK' BY NoActOK DEF TakenOK
<1>6. QED BY <1>1, <1>3, <1>4, <1>5 DEF FollowingOK

LEMMA FollowingInit == Init => FollowingOK
<1> SUFFICES ASSUME Init PROVE FollowingOK
  OBVIOUS
<1>1. routes = {} /\ plan = <<>> /\ untried = {} /\ pc = "down" /\ act = NoAct
  BY DEF Init
<1>2. FollowedOK BY <1>1 DEF FollowedOK
<1>3. \A t : ~Planned(t) BY <1>1 DEF Planned
<1>4. PlanOK BY <1>1, <1>3 DEF PlanOK
<1>5. DispatchingOK /\ ApplyOK BY <1>1 DEF DispatchingOK, ApplyOK, Dispatching
<1>6. TakenOK BY <1>1, NoActOK DEF TakenOK
<1>7. QED BY <1>2, <1>4, <1>5, <1>6 DEF FollowingOK

(***************************************************************************)
(* A pass gathers tasks that are queued, and gives out slots that nobody   *)
(* takes back before the task has had its turn.                            *)
(***************************************************************************)
LEMMA FollowingPlan ==
    ASSUME LedgerOK, FollowingOK,
           Gather \/ PlanStep \/ PlanEnd \/ PassEnd \/ DispatchOne
    PROVE  FollowingOK'
<1> USE DEF dbVars, worldVars, streamVars, planVars, recVars, boundVars
<1>1. /\ slots \in Ledgers /\ plan \in Seq(Tasks) /\ untried \subseteq Tasks
      /\ pc \notin Handlers
  BY DEF LedgerOK, TypeOK, Gather, PlanStep, PlanEnd, PassEnd, DispatchOne, Handlers
<1>2. act = NoAct /\ act.task \notin Tasks /\ act.from = "none"
  BY <1>1, NoActOK, NoTaskAssumption DEF LedgerOK, HandlerOK
<1>3. CASE Gather
  <2>1. /\ UNCHANGED <<row, sess, slots, routes, resumed, plan, act>>
        /\ pc = "ready" /\ pc' = "planning"
        /\ \A t \in untried' : row[t].state = "queued"
    BY <1>3 DEF Gather
  <2>2. plan = <<>> BY <1>2, <2>1 DEF FollowingOK, PlanOK
  <2>3. \A t : ~Planned(t)' BY <2>1, <2>2 DEF Planned
  <2>4. PlanOK' BY <2>1, <2>2, <2>3 DEF PlanOK, Follows
  <2>5. FollowedOK' BY <2>1 DEF FollowingOK, FollowedOK, Latest
  <2>6. TakenOK' BY <1>2, <2>1 DEF TakenOK
  <2>7. QED BY <2>1, <2>4, <2>5, <2>6
            DEF FollowingOK, DispatchingOK, ApplyOK, Dispatching
<1>4. CASE PlanEnd \/ PassEnd
  BY <1>4, FollowingKept DEF PlanEnd, PassEnd, FollowingOK, PlanOK, Dispatching
<1>5. CASE PlanStep
  <2>1. PICK t \in untried :
          LET r == PairOf[t][1]
              a == PairOf[t][2]
          IN  /\ untried' = untried \ {t}
              /\ slots' = Acquire(slots, t, r, a)
              /\ plan' = IF AcquireGranted(slots, t, r, a)
                         THEN Append(plan, t) ELSE plan
    BY <1>5 DEF PlanStep
  <2>2. /\ UNCHANGED <<row, sess, routes, resumed, act, pc>> /\ pc = "planning"
    BY <1>5 DEF PlanStep
  <2>3. t \in Tasks /\ PairOf[t][1] \in Repos /\ PairOf[t][2] \in Agents
    BY <1>1, PairAssumption
  <2>4. /\ \A u \in Tasks : Holds(slots, u) => Holds(slots', u)
        /\ AcquireGranted(slots, t, PairOf[t][1], PairOf[t][2]) => Holds(slots', t)
    BY <1>1, <2>1, <2>3, AcquireKeeps
  <2>5. /\ ~Planned(t) /\ ~Follows(row[t].state)
        /\ \A i, j \in DOMAIN plan : plan[i] = plan[j] => i = j
    BY <2>1 DEF FollowingOK, PlanOK
  <2>6. /\ \A u : Planned(u)' => Planned(u) \/ (u = t /\ Holds(slots', t))
        /\ \A i, j \in DOMAIN plan' : plan'[i] = plan'[j] => i = j
    <3>1. CASE plan' = plan BY <2>5, <3>1 DEF Planned
    <3>2. CASE plan' = Append(plan, t) /\ Holds(slots', t)
      BY <1>1, <2>3, <2>5, <3>2, OnceAppend DEF Planned
    <3>3. QED BY <2>1, <2>4, <3>1, <3>2
  <2>7. PlanOK'
    <3>1. \A u \in untried' : ~Follows(row'[u].state) /\ ~Planned(u)'
      BY <2>1, <2>2, <2>6 DEF FollowingOK, PlanOK
    <3>2. \A u \in Tasks : Planned(u)' => /\ ~Follows(row'[u].state)
                                          /\ Holds(slots', u) /\ u # act'.task
      BY <1>2, <2>2, <2>4, <2>5, <2>6 DEF FollowingOK, PlanOK
    <3>3. QED BY <2>2, <2>6, <3>1, <3>2 DEF PlanOK
  <2>8. FollowedOK' BY <2>2, <2>4 DEF FollowingOK, FollowedOK, Latest
  <2>9. TakenOK' BY <1>2, <2>2 DEF TakenOK
  <2>10. QED BY <2>2, <2>7, <2>8, <2>9
             DEF FollowingOK, DispatchingOK, ApplyOK, Dispatching
<1>6. CASE DispatchOne
  <2> DEFINE t == Head(plan)
  <2>1. /\ UNCHANGED <<row, sess, routes, resumed, untried>>
        /\ pc = "plan" /\ plan # <<>> /\ plan' = Tail(plan)
        /\ \/ slots' = Release(slots, t) /\ UNCHANGED <<pc, act>>
           \/ /\ pc' \in {"claim", "fail"} /\ slots' = slots
              /\ act' = Moving(t, row[t].version, "plan")
    BY <1>6 DEF DispatchOne
  <2>2. t \in Tasks /\ Planned(t)
    <3>1. 1 \in DOMAIN plan /\ plan[1] = t BY <1>1, <2>1
    <3>2. QED BY <1>1, <2>1, <3>1 DEF Planned
  <2>3. ~Follows(row[t].state) /\ Holds(slots, t) BY <2>2 DEF FollowingOK, PlanOK
  <2>4. /\ \A u : Planned(u)' => Planned(u) /\ u # t
        /\ \A i, j \in DOMAIN plan' : plan'[i] = plan'[j] => i = j
    BY <1>1, <2>1, OnceTail DEF Planned, FollowingOK, PlanOK
  <2>5. \A u \in Tasks \ {t} : Holds(slots, u) => Holds(slots', u)
    BY <1>1, <2>1, <2>2, ReleaseKeeps
  <2>6. \/ act'.task = t /\ act'.from = "plan" /\ pc' \in {"claim", "fail"}
        \/ act' = act /\ pc' = pc
    BY <2>1 DEF Moving
  <2>7. FollowedOK'
    BY <2>1, <2>3, <2>5 DEF FollowingOK, FollowedOK, Latest
  <2>8. PlanOK'
    <3>1. \A u \in Tasks : Planned(u)' => /\ ~Follows(row'[u].state)
                                          /\ Holds(slots', u) /\ u # act'.task
      BY <2>1, <2>4, <2>5, <2>6 DEF FollowingOK, PlanOK
    <3>2. pc' # "planning" /\ untried' = {}
      BY <2>1, <2>6 DEF FollowingOK, PlanOK
    <3>3. pc' = "plan" \/ act'.from = "plan" BY <2>1, <2>6
    <3>4. QED BY <2>4, <3>1, <3>2, <3>3 DEF PlanOK
  <2>9. DispatchingOK'
    BY <2>1, <2>3, <2>6 DEF DispatchingOK, Dispatching
  <2>10. ApplyOK' /\ TakenOK'
    BY <1>2, <2>1, <2>6 DEF ApplyOK, TakenOK
  <2>11. QED BY <2>7, <2>8, <2>9, <2>10 DEF FollowingOK
<1>7. QED BY <1>3, <1>4, <1>5, <1>6

LEMMA FollowingLoop ==
    ASSUME LedgerOK, FollowingOK, HandleNote \/ Cycle
    PROVE  FollowingOK'
<1> USE DEF dbVars, worldVars, streamVars, planVars, recVars, boundVars
<1>1. /\ pc \in {"idle", "cycle"} /\ pc \notin Handlers
      /\ slots \in Ledgers
  BY DEF HandleNote, Cycle, Handlers, LedgerOK, TypeOK
<1>2. act = NoAct /\ act.task \notin Tasks /\ act.from = "none"
  BY <1>1, NoActOK, NoTaskAssumption DEF LedgerOK, HandlerOK
<1>3. plan = <<>> /\ untried = {} BY <1>1, <1>2 DEF FollowingOK, PlanOK
<1>4. CASE HandleNote
  <2> DEFINE Notes == [task : Tasks, run : Nat, state : AgentStates]
             note == Head(inbox)
  <2>1. note \in Notes
    <3>1. inbox \in Seq(Notes) /\ inbox # <<>>
      BY <1>4 DEF HandleNote, LedgerOK, TypeOK
    <3> HIDE DEF Notes
    <3>2. QED BY <3>1
  <2>2. /\ UNCHANGED <<row, sess, slots, routes, resumed, plan, untried>>
        /\ React(note.task, note.state, "event") \/ (pc' = "ready" /\ act' = NoAct)
    BY <1>4 DEF HandleNote
  <2>3. /\ pc' \in {"ready", "publish", "apply"}
        /\ act' = NoAct \/ act'.from = "event"
        /\ pc' = "apply" => act'.task = note.task /\ Follows(row[note.task].state)
    <3>1. "event" \in Froms \ {"none"} /\ ReturnTo("event") = "ready" /\ note.task \in Tasks
      BY <2>1 DEF Froms, ReturnTo
    <3>2. QED BY <2>2, <3>1, ReactFollows, NoActOK DEF LedgerOK
  <2>4. FollowedOK' BY <2>2 DEF FollowingOK, FollowedOK, Latest
  <2>5. PlanOK' BY <1>3, <2>2 DEF PlanOK, Planned
  <2>6. DispatchingOK' BY <2>3 DEF DispatchingOK, Dispatching
  <2>7. ApplyOK' BY <2>2, <2>3 DEF ApplyOK
  <2>8. TakenOK' BY <2>3, NoActOK DEF TakenOK
  <2>9. QED BY <2>4, <2>5, <2>6, <2>7, <2>8 DEF FollowingOK
<1>5. CASE Cycle
  <2> DEFINE ts == {t \in Tasks : ~CountsTowardSlot(row[t].state)}
  <2>1. /\ UNCHANGED <<row, sess, routes, resumed, plan, untried, act>>
        /\ pc' = "ready" /\ slots' = ReleaseAll(slots, ts)
    BY <1>5 DEF Cycle
  <2>2. \A t \in Tasks : Follows(row[t].state) => t \in Tasks \ ts
    BY DEF Follows, CountsTowardSlot
  <2>3. \A t \in Tasks : Follows(row[t].state) /\ Holds(slots, t) => Holds(slots', t)
    BY <1>1, <2>1, <2>2, ReleaseAllKeeps
  <2>4. FollowedOK' BY <2>1, <2>3 DEF FollowingOK, FollowedOK, Latest
  <2>5. PlanOK' BY <1>3, <2>1 DEF PlanOK, Planned
  <2>6. DispatchingOK' /\ ApplyOK' /\ TakenOK'
    BY <1>2, <2>1 DEF DispatchingOK, ApplyOK, TakenOK, Dispatching
  <2>7. QED BY <2>4, <2>5, <2>6 DEF FollowingOK
<1>6. QED BY <1>4, <1>5

\* a person's event ends the task or puts it back: it is followed no more
LEMMA FollowingPerson ==
    ASSUME LedgerOK, VersionsOK, FollowingOK, NEW t \in Tasks,
           CliWrites(t) \/ Control(t)
    PROVE  FollowingOK'
<1> USE DEF dbVars, worldVars, streamVars, planVars, recVars, boundVars
<1>1. PICK event \in {"Cancel", "Retry", "Reopen"} :
        Legal(row[t].state, event) /\ Moves(t, event)
  BY PersonLegal DEF CliWrites, Control, LedgerOK
<1>2. /\ row'[t].version = row[t].version + 1
      /\ row'[t].state = Transition(row[t].state, event)
      /\ \A u \in Tasks \ {t} : row'[u] = row[u]
      /\ row[t].version \in Nat
  BY <1>1, MovesEffect DEF LedgerOK, TypeOK, RowRecords
<1>3. ~Follows(row'[t].state) BY <1>1, <1>2, FollowTargets
<1>4. \A u \in Tasks : Follows(row'[u].state) => u # t /\ row'[u] = row[u]
  BY <1>2, <1>3
<1>5. CASE CliWrites(t)
  <2>1. UNCHANGED <<sess, slots, routes, resumed, plan, untried, pc, act>>
    BY <1>5 DEF CliWrites
  <2>2. FollowedOK' BY <1>4, <2>1 DEF FollowingOK, FollowedOK, Latest
  <2>3. PlanOK'
    <3>1. \A u : Planned(u)' <=> Planned(u) BY <2>1 DEF Planned
    <3>2. untried \subseteq Tasks BY DEF LedgerOK, TypeOK
    <3>3. \A u \in untried' : ~Follows(row'[u].state) /\ ~Planned(u)'
      BY <1>4, <2>1, <3>1, <3>2 DEF FollowingOK, PlanOK
    <3>4. \A u \in Tasks : Planned(u)' => /\ ~Follows(row'[u].state)
                                          /\ Holds(slots', u) /\ u # act'.task
      BY <1>4, <2>1, <3>1 DEF FollowingOK, PlanOK
    <3>5. QED BY <2>1, <3>3, <3>4 DEF FollowingOK, PlanOK
  <2>4. pc \in Dispatching \cup {"apply"} => act.task \in Tasks
    BY DEF Dispatching, Handlers, PCs, LedgerOK, HandlerOK
  <2>5. DispatchingOK' BY <1>4, <2>1, <2>4 DEF FollowingOK, DispatchingOK
  <2>6. ApplyOK'
    <3>1. act.task = t => act.ver <= row[t].version /\ act.ver \in Nat
      BY DEF VersionsOK, LedgerOK, TypeOK, Acts
    <3>2. act.task = t => act.ver # row'[t].version BY <1>2, <3>1
    <3>3. QED BY <1>2, <2>1, <2>4, <3>2 DEF FollowingOK, ApplyOK
  <2>7. TakenOK' BY <2>1 DEF FollowingOK, TakenOK
  <2>8. QED BY <2>2, <2>3, <2>5, <2>6, <2>7 DEF FollowingOK
<1>6. CASE Control(t)
  <2>1. /\ UNCHANGED <<sess, resumed, plan, untried, act>>
        /\ pc = "idle" /\ pc' = "ready" /\ routes' \subseteq routes
        /\ slots' = slots \/ slots' = Release(slots, t)
    BY <1>6 DEF Control, Forget
  <2>2. pc \notin Handlers /\ slots \in Ledgers
    BY <2>1 DEF Handlers, LedgerOK, TypeOK
  <2>3. act = NoAct /\ act.from = "none"
    BY <2>2, NoActOK DEF LedgerOK, HandlerOK
  <2>4. plan = <<>> /\ untried = {} BY <2>1, <2>3 DEF FollowingOK, PlanOK
  <2>5. \A u \in Tasks \ {t} : Holds(slots, u) => Holds(slots', u)
    BY <2>1, <2>2, ReleaseKeeps
  <2>6. FollowedOK' BY <1>4, <2>1, <2>5 DEF FollowingOK, FollowedOK, Latest
  <2>7. PlanOK' BY <2>1, <2>4 DEF PlanOK, Planned
  <2>8. DispatchingOK' /\ ApplyOK' /\ TakenOK'
    BY <2>1, <2>3 DEF DispatchingOK, ApplyOK, TakenOK, Dispatching
  <2>9. QED BY <2>6, <2>7, <2>8 DEF FollowingOK
<1>7. QED BY <1>5, <1>6

LEMMA FollowingRecovery ==
    ASSUME LedgerOK, FollowingOK,
           Start \/ RecoverTask \/ RebuildSlots \/ TakeOver \/ RecoverEnd
    PROVE  FollowingOK'
<1> USE DEF dbVars, worldVars, streamVars, planVars, recVars, boundVars
<1>1. pc \in {"down", "recover", "takeover"} /\ pc \notin Handlers
      /\ resumed \subseteq Tasks /\ todo \subseteq Tasks
  BY DEF Start, RecoverTask, RebuildSlots, TakeOver, RecoverEnd, Handlers,
         LedgerOK, TypeOK
<1>2. act = NoAct /\ act.task \notin Tasks /\ act.from = "none"
  BY <1>1, NoActOK, NoTaskAssumption DEF LedgerOK, HandlerOK
<1>3. plan = <<>> /\ untried = {} BY <1>1, <1>2 DEF FollowingOK, PlanOK
<1>4. plan' = <<>> /\ untried' = {}
  BY <1>3 DEF Start, RecoverTask, RebuildSlots, TakeOver, RecoverEnd
<1>5. pc' # "planning"
  BY DEF Start, RecoverTask, RebuildSlots, TakeOver, RecoverEnd
<1>6. PlanOK' BY <1>4, <1>5 DEF PlanOK, Planned
<1>7. CASE Start \/ RecoverTask
  <2>1. /\ routes' = routes /\ pc' \in {"recover", "resume"}
        /\ act' = act \/ act'.from = "recover"
    <3>1. CASE Start BY <3>1 DEF Start
    <3>2. CASE RecoverTask BY <3>2, <1>1 DEF RecoverTask, Moving
    <3>3. QED BY <1>7, <3>1, <3>2
  <2>2. routes' = {}
    BY <1>7, <2>1 DEF FollowingOK, TakenOK, Start, RecoverTask
  <2>3. FollowedOK' BY <2>2 DEF FollowedOK
  <2>4. DispatchingOK' /\ ApplyOK'
    BY <2>1 DEF DispatchingOK, ApplyOK, Dispatching
  <2>5. TakenOK' BY <1>2, <2>1, <2>2 DEF TakenOK
  <2>6. QED BY <1>6, <2>3, <2>4, <2>5 DEF FollowingOK
<1>8. CASE RebuildSlots
  <2>1. /\ UNCHANGED <<routes, resumed, act>> /\ pc' = "takeover" /\ pc = "recover"
        /\ slots' = Rebuild(Claims)
    BY <1>8 DEF RebuildSlots
  <2>2. routes' = {} BY <2>1 DEF FollowingOK, TakenOK
  <2>3. \A t \in resumed' : Holds(slots', t)
    <3>1. \A t \in Tasks : PairOf[t] # NoSlot BY PairAssumption, NoSlotAssumption
    <3>2. QED BY <1>1, <2>1, <3>1 DEF Rebuild, Claims, Holds
  <2>4. FollowedOK' BY <2>2 DEF FollowedOK
  <2>5. DispatchingOK' /\ ApplyOK' /\ TakenOK'
    BY <1>2, <2>1, <2>2, <2>3 DEF DispatchingOK, ApplyOK, TakenOK, Dispatching
  <2>6. QED BY <1>6, <2>4, <2>5 DEF FollowingOK
<1>9. CASE TakeOver
  <2>1. PICK t \in resumed :
          /\ resumed' = resumed \ {t}
          /\ routes' = routes \cup {<<t, Latest(t)>>}
          /\ \/ pc' = "publish" /\ act' = Moving(t, row[t].version, "takeover")
             \/ UNCHANGED <<pc, act>>
    BY <1>9 DEF TakeOver
  <2>2. UNCHANGED <<row, sess, slots>> /\ pc = "takeover" BY <1>9 DEF TakeOver
  <2>3. \A u \in resumed : Holds(slots, u) BY <2>2 DEF FollowingOK, TakenOK
  <2>4. \A u, n : u # t /\ <<u, n>> \in routes' => <<u, n>> \in routes BY <2>1
  <2>5. FollowedOK'
    BY <2>1, <2>2, <2>3, <2>4 DEF FollowingOK, FollowedOK, Latest
  <2>6. pc' \in {"publish", "takeover"} /\ act'.from \in {"none", "takeover"}
    BY <1>2, <2>1, <2>2 DEF Moving
  <2>7. DispatchingOK' /\ ApplyOK' /\ TakenOK'
    BY <2>1, <2>2, <2>3, <2>6 DEF DispatchingOK, ApplyOK, TakenOK, Dispatching
  <2>8. QED BY <1>6, <2>5, <2>7 DEF FollowingOK
<1>10. CASE RecoverEnd
  BY <1>3, <1>10, FollowingKept DEF RecoverEnd, Dispatching
<1>11. QED BY <1>7, <1>8, <1>9, <1>10

LEMMA FollowingStep ==
    LedgerOK /\ VersionsOK /\ RecoveryOK /\ SlotsOK /\ FollowingOK /\ [Next]_vars
        => FollowingOK'
<1> SUFFICES ASSUME LedgerOK, VersionsOK, RecoveryOK, SlotsOK, FollowingOK,
                    Next \/ UNCHANGED vars
             PROVE  FollowingOK'
  OBVIOUS
<1> USE DEF dbVars, worldVars, streamVars, planVars, recVars, boundVars
<1>1. CASE LoseMemory BY <1>1, LoseMemoryEffect, FollowingLost
<1>2. CASE EngineStep /\ pc \in Handlers /\ ~LoseMemory
  BY <1>2, FollowingHandler
<1>3. CASE EngineStep /\ pc \notin Handlers
  <2>1. ~(\/ ClaimWon \/ ClaimLater \/ ClaimRefused \/ Reattach \/ Resubscribe
          \/ Reuse \/ DispatchFresh \/ ReleasePane \/ Prepare \/ Launch
          \/ Bind \/ Record \/ Subscribe \/ FailDispatch \/ AutoRetry
          \/ FollowAttached \/ ApplyEvent \/ Publish \/ Complete
          \/ FailPublish \/ RecoverSubscribe)
    BY <1>3 DEF ClaimWon, ClaimLater, ClaimRefused, Reattach, Resubscribe,
                Reuse, DispatchFresh, ReleasePane, Prepare, Launch, Bind,
                Record, Subscribe, FailDispatch, AutoRetry, FollowAttached,
                ApplyEvent, Publish, Complete, FailPublish,
                RecoverSubscribe, Handlers, PCs
  <2>2. QED BY <1>3, <2>1, FollowingPlan, FollowingLoop, FollowingRecovery
            DEF EngineStep
<1>4. CASE PersonStep BY <1>4, FollowingPerson DEF PersonStep
<1>5. CASE AgentStep \/ UNCHANGED vars
  BY <1>5, FollowingKept DEF AgentStep, AgentMoves, AgentExits, StreamDrops, vars
<1>6. CASE Crash BY <1>1, <1>6 DEF Crash
<1>7. QED BY <1>1, <1>2, <1>3, <1>4, <1>5, <1>6 DEF Next

(***************************************************************************)
(* Work the engine follows is paid for, for any number of tasks and any    *)
(* caps: a routed, active task holds a slot.  A slot is given to a task    *)
(* before the task is dispatched and kept until then (PlanOK,              *)
(* DispatchingOK); after a restart nobody is followed before the slots are *)
(* rebuilt from those who resumed (TakenOK); and a chain of events whose   *)
(* version is current is that of a task followed already, so it opens no   *)
(* way around the slot (ApplyOK), even past a full tier.                   *)
(***************************************************************************)
THEOREM EngineFollowedWorkHoldsSlot == Spec => []FollowedWorkHoldsSlot
<1> DEFINE Inv == LedgerOK /\ VersionsOK /\ RecoveryOK /\ SlotsOK /\ FollowingOK
<1>1. Init => Inv BY LedgerInit, VersionsInit, SlotsInit, FollowingInit
<1>2. Inv /\ [Next]_vars => Inv'
  BY LedgerStep, VersionsStep, RecoveryStep, SlotsStep, FollowingStep
<1>3. Inv => FollowedWorkHoldsSlot
  BY DEF FollowingOK, FollowedOK, FollowedWorkHoldsSlot, Follows
<1>4. QED BY <1>1, <1>2, <1>3, PTL DEF Spec

-----------------------------------------------------------------------------
(***************************************************************************)
(* Panes.  A pane is opened by a launch only, for the run whose session    *)
(* row was reserved for it; what re-attaches found the pane of its run, or *)
(* another one under its id.                                               *)
(***************************************************************************)
Owns(t) ==
    pane[t].state # "gone" /\ Session(t) \notin strangers
        => pane[t].run = Latest(t)

\* the points of a dispatch at which the task has its session's pane
Bound == {"resubscribe", "reuse", "bind", "record"}

PaneOK ==
    /\ \A t \in Tasks :
         /\ <<t, Latest(t)>> \in routes
         /\ row[t].state \in {"dispatched", "running", "waiting_input"}
         => Owns(t)
    /\ pc \in Bound => Owns(act.task)
    /\ \A t \in resumed : Owns(t)
    /\ act.from = "recover" => Owns(act.task)

\* what answers an attach is the pane of the session, or a stranger
LEMMA AttachOwns ==
    ASSUME TypeOK, NEW t \in Tasks, NEW said, Attach(t, said), UNCHANGED <<pane, sess>>
    PROVE  /\ Owns(t)'
           /\ \A u \in Tasks \ {t} : Session(u) \in strangers
                                        => Session(u) \in strangers'
<1>1. \A u \in Tasks \ {t} : Session(u) # Session(t) BY DEF Session
<1>2. CASE OwnPane(t) /\ strangers' = strangers \ {Session(t)}
  BY <1>1, <1>2 DEF OwnPane, Owns, Session, Latest
<1>3. CASE strangers' = strangers \cup {Session(t)}
  <2>1. Session(t)' = Session(t) BY DEF Session, Latest
  <2>2. QED BY <1>3, <2>1 DEF Owns
<1>4. QED BY <1>2, <1>3 DEF Attach

\* whose pane it is changes in a launch only
LEMMA OwnsKept ==
    ASSUME LedgerOK, Next \/ UNCHANGED vars, ~LoseMemory, NEW t \in Tasks,
           ~((Prepare \/ Launch) /\ t = act.task)
    PROVE  (Owns(t) => Owns(t)') /\ Latest(t)' = Latest(t)
<1> USE DEF dbVars, worldVars, streamVars, planVars, recVars, boundVars
<1> DEFINE Same == /\ Len(sess'[t]) = Len(sess[t])
                   /\ pane'[t].run = pane[t].run
                   /\ pane'[t].state # "gone" => pane[t].state # "gone"
           Kept == Same /\ (Session(t) \in strangers => Session(t) \in strangers')
<1>0. ASSUME Kept PROVE (Owns(t) => Owns(t)') /\ Latest(t)' = Latest(t)
  BY <1>0 DEF Owns, Latest, Session
<1>1. pane \in [Tasks -> [run : Nat, state : PaneStates]]
      /\ sess \in [Tasks -> Seq(BOOLEAN)]
  BY DEF LedgerOK, TypeOK
<1>2. \A u \in Tasks : Gone(u) => /\ pane'[t].run = pane[t].run
                                  /\ pane'[t].state # "gone" => pane[t].state # "gone"
  BY <1>1 DEF Gone
<1>3. pc \in Handlers => act.task \in Tasks BY DEF LedgerOK, HandlerOK
<1>4. ASSUME NEW event, Isolate(event) PROVE Kept
  BY <1>1, <1>4 DEF Isolate
<1>5. CASE Reattach \/ RecoverTask
  <2>1. UNCHANGED <<pane, sess>> BY <1>5 DEF Reattach, RecoverTask
  <2>2. \/ strangers' = strangers
        \/ \E u \in Tasks, said \in PaneStates : Attach(u, said)
    <3>1. CASE Reattach
      BY <1>3, <3>1 DEF Reattach, Handlers, PCs
    <3>2. CASE RecoverTask
      BY <3>2 DEF RecoverTask, LedgerOK, TypeOK
    <3>3. QED BY <1>5, <3>1, <3>2
  <2>3. CASE strangers' = strangers BY <1>0, <1>1, <2>1, <2>3
  <2>4. ASSUME NEW u \in Tasks, NEW said \in PaneStates, Attach(u, said)
        PROVE  (Owns(t) => Owns(t)') /\ Latest(t)' = Latest(t)
    <3>1. CASE u = t BY <2>1, <2>4, <3>1, AttachOwns DEF LedgerOK, Latest
    <3>2. CASE u # t BY <1>0, <1>1, <2>1, <2>4, <3>2, AttachOwns DEF LedgerOK
    <3>3. QED BY <3>1, <3>2
  <2>5. QED BY <2>2, <2>3, <2>4
<1> SUFFICES ASSUME ~(Reattach \/ RecoverTask) PROVE Kept
  BY <1>0, <1>5
<1>6. CASE Prepare \/ Launch
  BY <1>1, <1>6 DEF Prepare, Launch, Opens
<1>7. CASE Bind
  <2>1. act.task \in Tasks /\ pane' = pane /\ strangers' = strangers
    BY <1>3, <1>7 DEF Bind, Handlers, PCs
  <2>2. sess'[t] = sess[t] \/ sess'[t] = [sess[t] EXCEPT ![Latest(t)] = TRUE]
    BY <1>1, <1>7, <2>1 DEF Bind
  <2>3. Len([sess[t] EXCEPT ![Latest(t)] = TRUE]) = Len(sess[t])
    BY <1>1 DEF Latest
  <2>4. QED BY <2>1, <2>2, <2>3
<1>8. CASE ReleasePane \/ Subscribe
  <2>1. act.task \in Tasks BY <1>3, <1>8 DEF ReleasePane, Subscribe, Handlers, PCs
  <2>2. sess' = sess /\ (Gone(act.task) \/ pane' = pane) /\ strangers' = strangers
    BY <1>8 DEF ReleasePane, Subscribe, Closes
  <2>3. QED BY <1>2, <2>1, <2>2
<1>9. CASE Complete
  <2>1. act.task \in Tasks BY <1>3, <1>9 DEF Complete, Handlers, PCs
  <2>2. sess' = sess /\ (Gone(act.task) \/ pane' = pane) /\ strangers' = strangers
    BY <1>9 DEF Complete, Isolate, Closes
  <2>3. QED BY <1>2, <2>1, <2>2
<1>10. CASE \/ Gather \/ PlanStep \/ PlanEnd \/ PassEnd \/ DispatchOne \/ ClaimWon
           \/ ClaimLater \/ Resubscribe \/ DispatchFresh \/ HandleNote
           \/ FollowAttached \/ Publish \/ Cycle \/ Start \/ RecoverSubscribe
           \/ RebuildSlots \/ TakeOver \/ RecoverEnd \/ UNCHANGED vars
  BY <1>10 DEF Gather, PlanStep, PlanEnd, PassEnd, DispatchOne, ClaimWon,
              ClaimLater, Resubscribe, DispatchFresh, HandleNote,
              FollowAttached, Publish, Cycle, Start, RecoverSubscribe,
              RebuildSlots, TakeOver, RecoverEnd, vars
<1>11. CASE \/ ClaimRefused \/ Reuse \/ Record \/ FailDispatch \/ AutoRetry
            \/ ApplyEvent \/ FailPublish
  BY <1>4, <1>11 DEF ClaimRefused, Reuse, Record, FailDispatch, AutoRetry,
                     ApplyEvent, FailPublish
<1>12. CASE PersonStep
  BY <1>12 DEF PersonStep, CliWrites, Control
<1>13. CASE AgentStep
  <2>1. PICK u \in Tasks : AgentMoves(u) \/ AgentExits(u) \/ StreamDrops(u)
    BY <1>13 DEF AgentStep
  <2>2. CASE AgentMoves(u) BY <1>1, <2>2 DEF AgentMoves
  <2>3. CASE AgentExits(u) \/ StreamDrops(u)
    BY <1>2, <2>3 DEF AgentExits, StreamDrops, Closes
  <2>4. QED BY <2>1, <2>2, <2>3
<1>14. QED BY <1>6, <1>7, <1>8, <1>9, <1>10, <1>11, <1>12, <1>13
           DEF Next, EngineStep, Crash

\* a row that an agent's report moves on was not publishing
LEMMA AdvancedFrom ==
    ASSUME NEW from, NEW event \in Advances, Legal(from, event)
    PROVE  from # "publishing"
<1>1. PICK to \in TaskStates : <<from, event, to>> \in Arrows BY DEF Legal
<1>2. event \in {"Start", "WaitInput", "ResumeInput", "BeginPublish"}
  BY DEF Advances
<1>3. QED BY <1>1, <1>2 DEF Arrows, TerminalStates, NonTerminalStates

\* what is written while a task is dispatched, and what after it
LEMMA DispatchWrites ==
    ASSUME LedgerOK, PaneOK, EngineStep, pc \in Dispatching
    PROVE  \/ row' = row
           \/ \E event \in {"Skip", "Fail"}, streak \in Nat : Write(event, streak)
           \/ Owns(act.task) /\ pc \in {"reuse", "record"} /\ ~Prepare /\ ~Launch
<1> USE DEF dbVars
<1>1. pc \in Handlers /\ pc # "fail" BY DEF Dispatching, Handlers, PCs
<1>2. spent[act.task] \in Nat BY <1>1 DEF LedgerOK, HandlerOK, TypeOK
<1>3. ASSUME NEW event, Isolate(event) PROVE row' = row
  BY <1>3 DEF Isolate
<1>4. CASE ClaimRefused BY <1>2, <1>3, <1>4 DEF ClaimRefused
<1>5. CASE Reuse \/ Record
  BY <1>3, <1>5 DEF Reuse, Record, Prepare, Launch, PaneOK, Bound
<1>6. CASE \/ ClaimWon \/ ClaimLater \/ Reattach \/ Resubscribe
           \/ DispatchFresh \/ ReleasePane \/ Prepare \/ Launch \/ Bind
  BY <1>6 DEF ClaimWon, ClaimLater, Reattach, Resubscribe, DispatchFresh,
              ReleasePane, Prepare, Launch, Bind
<1>7. ~(\/ Gather \/ PlanStep \/ PlanEnd \/ PassEnd \/ DispatchOne \/ Subscribe
        \/ FailDispatch \/ AutoRetry \/ HandleNote \/ FollowAttached \/ ApplyEvent
        \/ Publish \/ Complete \/ FailPublish \/ Cycle \/ Start \/ RecoverTask
        \/ RecoverSubscribe \/ RebuildSlots \/ TakeOver \/ RecoverEnd)
  BY DEF Gather, PlanStep, PlanEnd, PassEnd, DispatchOne, Subscribe, FailDispatch,
         AutoRetry, HandleNote, FollowAttached, ApplyEvent, Publish, Complete,
         FailPublish, Cycle, Start, RecoverTask, RecoverSubscribe, RebuildSlots,
         TakeOver, RecoverEnd, Dispatching
<1>8. QED BY <1>4, <1>5, <1>6, <1>7 DEF EngineStep

LEMMA RunWrites ==
    ASSUME LedgerOK, EngineStep, pc \in Handlers \ Dispatching
    PROVE  \/ row' = row
           \/ \E event \in {"Fail", "Complete", "Retry"}, streak \in Nat :
                Write(event, streak)
           \/ ApplyEvent /\ ~Isolate(Head(act.events))
<1> USE DEF dbVars
<1>1. spent[act.task] \in Nat /\ spent[act.task] + 1 \in Nat
  BY DEF LedgerOK, HandlerOK, TypeOK
<1>2. ASSUME NEW event, Isolate(event) PROVE row' = row
  BY <1>2 DEF Isolate
<1>3. CASE Subscribe \/ FollowAttached \/ Publish \/ RecoverSubscribe
  BY <1>3 DEF Subscribe, FollowAttached, Publish, RecoverSubscribe
<1>4. CASE FailDispatch \/ AutoRetry \/ Complete \/ FailPublish
  BY <1>1, <1>2, <1>4 DEF FailDispatch, AutoRetry, Complete, FailPublish
<1>5. CASE ApplyEvent BY <1>2, <1>5
<1>6. ~(\/ Gather \/ PlanStep \/ PlanEnd \/ PassEnd \/ DispatchOne \/ ClaimWon
        \/ ClaimLater \/ ClaimRefused \/ Reattach \/ Resubscribe \/ Reuse
        \/ DispatchFresh \/ ReleasePane \/ Prepare \/ Launch \/ Bind \/ Record
        \/ HandleNote \/ Cycle \/ Start \/ RecoverTask \/ RebuildSlots
        \/ TakeOver \/ RecoverEnd)
  BY DEF Gather, PlanStep, PlanEnd, PassEnd, DispatchOne, ClaimWon, ClaimLater,
         ClaimRefused, Reattach, Resubscribe, Reuse, DispatchFresh, ReleasePane,
         Prepare, Launch, Bind, Record, HandleNote, Cycle, Start, RecoverTask,
         RebuildSlots, TakeOver, RecoverEnd, Handlers, Dispatching
<1>7. QED BY <1>3, <1>4, <1>5, <1>6 DEF EngineStep

\* which steps lead to the write that dispatches a task
LEMMA BindingSteps ==
    ASSUME EngineStep, pc \in Dispatching, pc' \in Bound,
           Return => pc' \notin Dispatching, ~LoseMemory
    PROVE  \/ Launch /\ Opens(act.task, Latest(act.task)) /\ sess' = sess
           \/ Bind /\ pc = "bind"
           \/ /\ pc' = "resubscribe" /\ UNCHANGED <<pane, sess, inbox>>
              /\ \E said \in PaneStates :
                   Attach(act.task, said) /\ act' = [act EXCEPT !.next = said]
           \/ Resubscribe /\ pc = "resubscribe" /\ pc' = "reuse"
<1> USE DEF Dispatching, Bound
<1>1. ASSUME NEW event PROVE ~Isolate(event) BY DEF Isolate
<1>2. ~(\/ ClaimWon \/ ClaimLater \/ ClaimRefused \/ Reuse \/ DispatchFresh
        \/ ReleasePane \/ Prepare \/ Record)
  BY <1>1 DEF ClaimWon, ClaimLater, ClaimRefused, Reuse, DispatchFresh,
              ReleasePane, Prepare, Record
<1>3. ~(\/ Gather \/ PlanStep \/ PlanEnd \/ PassEnd \/ DispatchOne \/ Subscribe
        \/ FailDispatch \/ AutoRetry \/ HandleNote \/ FollowAttached \/ ApplyEvent
        \/ Publish \/ Complete \/ FailPublish \/ Cycle \/ Start \/ RecoverTask
        \/ RecoverSubscribe \/ RebuildSlots \/ TakeOver \/ RecoverEnd)
  BY DEF Gather, PlanStep, PlanEnd, PassEnd, DispatchOne, Subscribe, FailDispatch,
         AutoRetry, HandleNote, FollowAttached, ApplyEvent, Publish, Complete,
         FailPublish, Cycle, Start, RecoverTask, RecoverSubscribe, RebuildSlots,
         TakeOver, RecoverEnd
<1>4. Launch \/ Bind \/ Reattach \/ Resubscribe BY <1>2, <1>3 DEF EngineStep
<1>5. QED BY <1>4 DEF Launch, Bind, Reattach, Resubscribe, dbVars

LEMMA PaneHandler ==
    ASSUME LedgerOK, RecoveryOK, SlotsOK, FollowingOK, PaneOK,
           pc \in Handlers, EngineStep, ~LoseMemory
    PROVE  PaneOK'
<1>0. PICK u \in Tasks : u = act.task
  BY DEF LedgerOK, HandlerOK
<1> USE <1>0
<1> DEFINE Active(state) == state \in {"dispatched", "running", "waiting_input"}
<1>1. /\ u \in Tasks /\ (HandsOn \/ LetsGo)
      /\ \A t \in Tasks \ {u} : row'[t] = row[t]
  BY OwnStep DEF MindsItsOwn
<1>2. KeepsFollowing BY FollowingKeeps
<1>3. u \notin resumed /\ resumed \subseteq Tasks
      /\ \A t \in resumed' : t \in resumed \/ (act.from = "recover" /\ t = u)
  BY <1>1 DEF HandsOn, LetsGo, RecoveryOK, LedgerOK, TypeOK
<1>4. act'.from = "recover" => act.from = "recover" /\ act'.task = u
  BY <1>1, NoActOK DEF HandsOn, LetsGo, Return
<1>5. act.from = "recover" => pc \notin Dispatching /\ routes = {}
  BY DEF FollowingOK, DispatchingOK, TakenOK
<1>6. Prepare \/ Launch => pc \in Dispatching
  BY DEF Prepare, Launch, Dispatching
<1>7. \A t \in Tasks : ~((Prepare \/ Launch) /\ t = u) =>
        (Owns(t) => Owns(t)') /\ Latest(t)' = Latest(t)
  BY OwnsKept DEF Next
<1>8. ASSUME NEW event, NEW streak \in Nat, Write(event, streak)
      PROVE  /\ Legal(row[u].state, event) /\ act.ver = row[u].version
             /\ row'[u].state = Transition(row[u].state, event)
  BY <1>1, <1>8, WriteEffect DEF LedgerOK
<1>9. ASSUME NEW event \in {"Skip", "Fail", "Complete", "Retry"},
             NEW streak \in Nat, Write(event, streak)
      PROVE  ~Active(row'[u].state)
  BY <1>8, <1>9, FollowTargets DEF Follows
<1>10. ASSUME NEW t \in Tasks, <<t, Latest(t)'>> \in routes', Active(row'[t].state)
       PROVE  Owns(t)'
  <2>1. CASE t # u
    <3>1. <<t, Latest(t)'>>[1] = t OBVIOUS
    <3>2. <<t, Latest(t)>> \in routes /\ row'[t] = row[t]
      BY <1>1, <1>2, <1>7, <1>10, <2>1, <3>1 DEF KeepsFollowing
    <3>3. QED BY <1>7, <1>10, <2>1, <3>2 DEF PaneOK
  <2>2. CASE t = u /\ pc \in Dispatching
    <3>1. ~Active(row[u].state)
      BY <2>2 DEF FollowingOK, DispatchingOK, Follows
    <3>2. Owns(u) /\ ~Prepare /\ ~Launch
      BY <1>9, <1>10, <2>2, <3>1, DispatchWrites
    <3>3. QED BY <1>7, <2>2, <3>2
  <2>3. CASE t = u /\ pc \notin Dispatching
    <3>1. routes' \subseteq routes BY <1>2, <2>3 DEF KeepsFollowing
    <3>2. Latest(u)' = Latest(u) /\ (Owns(u) => Owns(u)')
      BY <1>1, <1>6, <1>7, <2>3
    <3>3. <<u, Latest(u)>> \in routes BY <1>10, <2>3, <3>1, <3>2
    <3>4. Active(row[u].state)
      <4>1. CASE row' = row BY <1>10, <2>3, <4>1
      <4>2. CASE ApplyEvent /\ ~Isolate(Head(act.events))
        <5>1. /\ Write(Head(act.events), spent[u]) /\ pc = "apply"
              /\ spent[u] \in Nat /\ act.events # <<>>
          BY <1>1, <4>2, ApplyEventEffect
             DEF ApplyEvent, LedgerOK, TypeOK, HandlerOK
        <5>2. act.next # "settle" => Head(act.events) \in Advances
          BY <5>1 DEF LedgerOK, HandlerOK
        <5>3. act.next = "settle" => Head(act.events) = "Fail"
          BY <5>1 DEF LedgerOK, HandlerOK
        <5>4. act.next # "settle"
          BY <1>9, <1>10, <2>3, <5>1, <5>3
        <5>5. row[u].state # "publishing"
          BY <1>8, <5>1, <5>2, <5>4, AdvancedFrom
        <5>6. Follows(row[u].state)
          BY <1>5, <1>8, <3>3, <5>1, <5>4 DEF FollowingOK, ApplyOK
        <5>7. QED BY <5>5, <5>6 DEF Follows
      <4>3. CASE \E event \in {"Fail", "Complete", "Retry"}, streak \in Nat :
                   Write(event, streak)
        BY <1>9, <1>10, <2>3, <4>3
      <4>4. QED BY <2>3, <4>1, <4>2, <4>3, RunWrites
    <3>5. QED BY <1>1, <2>3, <3>2, <3>3, <3>4 DEF PaneOK
  <2>4. QED BY <2>1, <2>2, <2>3
<1>11. pc' \in Bound => Owns(act.task)'
  <2> SUFFICES ASSUME pc' \in Bound PROVE Owns(act.task)'
    OBVIOUS
  <2>1. pc \in Dispatching /\ act'.task = u
    BY <1>2 DEF KeepsFollowing, Dispatching, Bound
  <2> SUFFICES Owns(u)'
    BY <2>1 DEF Owns, Session, Latest
  <2>2. \/ Launch /\ Opens(u, Latest(u)) /\ sess' = sess
        \/ Bind /\ pc = "bind"
        \/ /\ UNCHANGED <<pane, sess>>
           /\ \E said \in PaneStates : Attach(u, said)
        \/ Resubscribe /\ pc = "resubscribe"
    <3>1. Return => pc' \notin Dispatching BY ReturnsOut
    <3>2. QED BY <2>1, <3>1, BindingSteps
  <2>3. CASE Launch /\ Opens(u, Latest(u)) /\ sess' = sess
    BY <1>1, <2>3 DEF Opens, Owns, Latest, LedgerOK, TypeOK
  <2>4. CASE (Bind /\ pc = "bind") \/ (Resubscribe /\ pc = "resubscribe")
    <3>1. Owns(u) /\ ~Prepare /\ ~Launch
      BY <2>4 DEF PaneOK, Bound, Prepare, Launch
    <3>2. QED BY <1>1, <1>7, <3>1
  <2>5. CASE UNCHANGED <<pane, sess>> /\ \E said \in PaneStates : Attach(u, said)
    BY <1>1, <2>5, AttachOwns DEF LedgerOK
  <2>6. QED BY <2>2, <2>3, <2>4, <2>5
<1>12. \A t \in resumed' : Owns(t)'
  BY <1>1, <1>3, <1>5, <1>6, <1>7 DEF PaneOK
<1>13. act'.from = "recover" => Owns(act.task)'
  <2>1. act.from = "recover" => Owns(u)' BY <1>1, <1>5, <1>6, <1>7 DEF PaneOK
  <2>2. act'.task = u => (Owns(u)' => Owns(act.task)')
    BY DEF Owns, Session, Latest
  <2>3. QED BY <1>4, <2>1, <2>2
<1>14. QED BY <1>10, <1>11, <1>12, <1>13 DEF PaneOK

\* a step outside the handlers that takes nobody on
LEMMA PaneKept ==
    ASSUME LedgerOK, PaneOK, routes' \subseteq routes, resumed' \subseteq resumed,
           \A t \in Tasks : row'[t] = row[t] \/ ~Follows(row'[t].state),
           \A t \in Tasks : (Owns(t) => Owns(t)') /\ Latest(t)' = Latest(t),
           \/ act' = act /\ (pc' \in Bound => pc' = pc)
           \/ act'.from # "recover" /\ pc' \notin Bound
    PROVE  PaneOK'
<1>1. pc \in Bound \/ act.from = "recover" => act.task \in Tasks
  BY NoActOK DEF LedgerOK, HandlerOK, Handlers, PCs, Bound
<1>2. \A t : act' = act /\ t = act.task => (Owns(t)' => Owns(act.task)')
  BY DEF Owns, Session, Latest
<1>3. resumed \subseteq Tasks BY DEF LedgerOK, TypeOK
<1>4. QED BY <1>1, <1>2, <1>3 DEF PaneOK, Follows

LEMMA PaneInit == Init => PaneOK
BY NoActOK DEF Init, PaneOK, Bound

LEMMA PaneStep ==
    LedgerOK /\ VersionsOK /\ RecoveryOK /\ SlotsOK /\ FollowingOK /\ PaneOK
        /\ [Next]_vars => PaneOK'
<1> SUFFICES ASSUME LedgerOK, VersionsOK, RecoveryOK, SlotsOK, FollowingOK, PaneOK,
                    Next \/ UNCHANGED vars
             PROVE  PaneOK'
  OBVIOUS
<1> USE DEF dbVars, worldVars, streamVars, planVars, recVars, boundVars
<1>1. CASE LoseMemory
  BY <1>1, LoseMemoryEffect, NoActOK DEF PaneOK, Bound
<1>2. CASE EngineStep /\ pc \in Handlers /\ ~LoseMemory
  BY <1>2, PaneHandler
<1>3. pc \notin Handlers => act = NoAct /\ act.task \notin Tasks /\ act.from = "none"
  BY NoActOK, NoTaskAssumption DEF LedgerOK, HandlerOK
<1>4. ~LoseMemory /\ ~(Prepare \/ Launch) =>
        \A t \in Tasks : (Owns(t) => Owns(t)') /\ Latest(t)' = Latest(t)
  BY OwnsKept
<1>5. CASE PersonStep
  <2>1. PICK t \in Tasks : CliWrites(t) \/ Control(t) BY <1>5 DEF PersonStep
  <2>2. PICK event \in {"Cancel", "Retry", "Reopen"} :
          Legal(row[t].state, event) /\ Moves(t, event)
    BY <2>1, PersonLegal DEF CliWrites, Control, LedgerOK
  <2>3. /\ row'[t].state = Transition(row[t].state, event)
        /\ \A v \in Tasks \ {t} : row'[v] = row[v]
    BY <2>2, MovesEffect DEF LedgerOK
  <2>4. ~Follows(row'[t].state) BY <2>2, <2>3, FollowTargets
  <2>5. /\ UNCHANGED <<resumed, act, pane, strangers, sess>> /\ routes' \subseteq routes
        /\ pc' = pc \/ pc' = "ready"
    BY <2>1 DEF CliWrites, Control, Forget
  <2>6. \A v \in Tasks : (Owns(v) => Owns(v)') /\ Latest(v)' = Latest(v)
    BY <2>5 DEF Owns, Session, Latest
  <2>7. QED BY <2>3, <2>4, <2>5, <2>6, PaneKept DEF Bound
<1>6. CASE (AgentStep \/ UNCHANGED vars) /\ ~LoseMemory
  <2>1. UNCHANGED <<resumed, act, routes, row, pc, sess>>
    BY <1>6 DEF AgentStep, AgentMoves, AgentExits, StreamDrops, vars
  <2>2. ~(Prepare \/ Launch)
    BY <2>1 DEF Prepare, Launch
  <2>3. QED BY <1>4, <1>6, <2>1, <2>2, PaneKept
<1>7. CASE Crash BY <1>1, <1>7 DEF Crash
<1>8. CASE EngineStep /\ pc \notin Handlers /\ ~LoseMemory
  <2>1. ~(\/ ClaimWon \/ ClaimLater \/ ClaimRefused \/ Reattach \/ Resubscribe
          \/ Reuse \/ DispatchFresh \/ ReleasePane \/ Prepare \/ Launch
          \/ Bind \/ Record \/ Subscribe \/ FailDispatch \/ AutoRetry
          \/ FollowAttached \/ ApplyEvent \/ Publish \/ Complete
          \/ FailPublish \/ RecoverSubscribe)
    BY <1>8 DEF ClaimWon, ClaimLater, ClaimRefused, Reattach, Resubscribe,
                Reuse, DispatchFresh, ReleasePane, Prepare, Launch, Bind,
                Record, Subscribe, FailDispatch, AutoRetry, FollowAttached,
                ApplyEvent, Publish, Complete, FailPublish,
                RecoverSubscribe, Handlers, PCs
  <2>2. row' = row /\ \A t \in Tasks : (Owns(t) => Owns(t)') /\ Latest(t)' = Latest(t)
    BY <1>4, <1>8, <2>1, EngineWrites
  <2>3. CASE Gather \/ PlanStep \/ PlanEnd \/ PassEnd \/ Cycle \/ Start
             \/ RebuildSlots \/ RecoverEnd
    <3>1. UNCHANGED <<routes, resumed, act>> /\ pc' \notin Bound
      BY <1>8, <2>3 DEF Gather, PlanStep, PlanEnd, PassEnd, Cycle, Start,
                        RebuildSlots, RecoverEnd, Bound
    <3>2. QED BY <2>2, <3>1, PaneKept
  <2>4. CASE DispatchOne
    <3>1. /\ UNCHANGED <<routes, resumed>> /\ pc' \notin Bound
          /\ act' = act \/ act'.from = "plan"
      BY <2>4 DEF DispatchOne, Moving, Bound
    <3>2. QED BY <2>2, <3>1, PaneKept
  <2>5. CASE HandleNote
    <3>1. /\ UNCHANGED <<routes, resumed>>
          /\ \/ pc' = "ready" /\ act' = NoAct
             \/ pc' \in {"publish", "apply"} /\ act'.from = "event"
      BY <2>5 DEF HandleNote, React, ReturnTo, Moving
    <3>2. act'.from # "recover" /\ pc' \notin Bound BY <3>1, NoActOK DEF Bound
    <3>3. QED BY <2>2, <3>1, <3>2, PaneKept
  <2>6. CASE RecoverTask
    <3>1. /\ UNCHANGED <<routes, resumed, pane, sess>> /\ pc = "recover"
          /\ \/ UNCHANGED <<pc, act>>
             \/ /\ pc' = "resume" /\ act'.task \in Tasks
                /\ \E said \in PaneStates : Attach(act'.task, said)
      BY <2>6 DEF RecoverTask, Moving, LedgerOK, TypeOK
    <3>2. routes' = {} BY <3>1 DEF FollowingOK, TakenOK
    <3>3. pc' \notin Bound BY <3>1 DEF Bound
    <3>4. \A v \in resumed' : Owns(v)'
      BY <2>2, <3>1 DEF PaneOK, LedgerOK, TypeOK
    <3>5. act'.from = "recover" => Owns(act.task)'
      <4> SUFFICES ASSUME act'.from = "recover" PROVE Owns(act.task)'
        OBVIOUS
      <4>1. PICK v \in Tasks, said \in PaneStates : v = act'.task /\ Attach(v, said)
        BY <1>3, <1>8, <3>1
      <4>2. Owns(v)' BY <3>1, <4>1, AttachOwns DEF LedgerOK
      <4>3. QED BY <4>1, <4>2 DEF Owns, Session, Latest
    <3>6. QED BY <3>2, <3>3, <3>4, <3>5 DEF PaneOK
  <2>7. CASE TakeOver
    <3>1. PICK t \in resumed :
            /\ resumed' = resumed \ {t}
            /\ routes' = routes \cup {<<t, Latest(t)>>}
            /\ \/ pc' = "publish" /\ act'.from = "takeover"
               \/ UNCHANGED <<pc, act>>
      BY <2>7 DEF TakeOver, Moving
    <3>2. pc = "takeover" BY <2>7 DEF TakeOver
    <3>3. pc' \notin Bound /\ act'.from # "recover"
      BY <1>3, <1>8, <3>1, <3>2 DEF Bound
    <3>4. t \in Tasks /\ Owns(t)' /\ \A v \in resumed' : Owns(v)'
      BY <2>2, <3>1 DEF PaneOK, LedgerOK, TypeOK
    <3>5. \A v, n : v # t /\ <<v, n>> \in routes' => <<v, n>> \in routes BY <3>1
    <3>6. QED BY <2>2, <3>3, <3>4, <3>5 DEF PaneOK
  <2>8. QED BY <1>8, <2>1, <2>3, <2>4, <2>5, <2>6, <2>7 DEF EngineStep
<1>9. QED BY <1>1, <1>2, <1>5, <1>6, <1>7, <1>8 DEF Next

(***************************************************************************)
(* A live agent is the one its task is about, for any number of tasks,     *)
(* crashes and cancels: what a row in an active state is followed through  *)
(* was launched for that very session, or answered an attach of it, and no *)
(* other step opens a pane.  What answered under an id another pane had    *)
(* taken over is a stranger, and stays one as long as it is followed.      *)
(***************************************************************************)
THEOREM EngineActiveTaskOwnsItsPane == Spec => []ActiveTaskOwnsItsPane
<1> DEFINE Inv == /\ LedgerOK /\ VersionsOK /\ RecoveryOK /\ SlotsOK
                  /\ FollowingOK /\ PaneOK
<1>1. Init => Inv BY LedgerInit, VersionsInit, SlotsInit, FollowingInit, PaneInit
<1>2. Inv /\ [Next]_vars => Inv'
  BY LedgerStep, VersionsStep, RecoveryStep, SlotsStep, FollowingStep, PaneStep
<1>3. Inv => ActiveTaskOwnsItsPane
  BY DEF PaneOK, ActiveTaskOwnsItsPane, Owns, Session
<1>4. QED BY <1>1, <1>2, <1>3, PTL DEF Spec

-----------------------------------------------------------------------------
(***************************************************************************)
(* The engine keeps the promise of the slots (SlotLedger).  A step leaves  *)
(* the slots alone, gives some back, takes one, rebuilds them once per     *)
(* start or loses them with the process.                                   *)
(***************************************************************************)
Up == pc \notin {"down", "recover"} /\ act.from # "recover"

UpOK ==
    /\ act.from = "recover" => pc = "resume" \/ (pc = "apply" /\ act.next = "resumed")
    /\ ~Up => Holders(slots) = {}
    /\ \A t \in Tasks : slots.holder[t] \in {NoSlot, PairOf[t]}

FreesSome ==
    \/ \E t \in Tasks : slots' = Release(slots, t)
    \/ \E ts \in SUBSET Tasks : slots' = ReleaseAll(slots, ts)

TakesOne == \E t \in Tasks : slots' = Acquire(slots, t, PairOf[t][1], PairOf[t][2])

SlotMove ==
    \/ slots' = slots /\ (Up' <=> Up)
    \/ Up /\ Up' /\ FreesSome
    \/ Up /\ Up' /\ TakesOne
    \/ ~Up /\ Up' /\ slots' = Rebuild(Claims)
    \/ ~Up' /\ slots' = AllFree

FromRecover ==
    act.from = "recover" => pc = "resume" \/ (pc = "apply" /\ act.next = "resumed")

\* a handler that is not part of recovery goes on, or returns
LEMMA StaysUp ==
    ASSUME LedgerOK, pc \in Handlers, act.from # "recover",
           Return \/ (pc' \in Handlers /\ act'.from = act.from)
    PROVE  Up /\ Up' /\ FromRecover'
<1>1. Up BY DEF Up, Handlers
<1>2. CASE Return
  <2>1. act.from \in Froms BY DEF LedgerOK, TypeOK, Acts, Froms
  <2>2. act' = NoAct /\ pc' = ReturnTo(act.from) BY <1>2 DEF Return
  <2>3. act'.from = "none" BY <2>2, NoActOK
  <2>4. pc' \notin {"down", "recover"}
    BY <2>1, <2>2 DEF ReturnTo, Froms
  <2>5. QED BY <1>1, <2>3, <2>4 DEF Up, FromRecover
<1>3. CASE pc' \in Handlers /\ act'.from = act.from
  BY <1>1, <1>3 DEF Up, FromRecover, Handlers
<1>4. QED BY <1>2, <1>3

LEMMA LosesSlots ==
    ASSUME LoseMemory PROVE SlotMove /\ FromRecover'
<1>1. pc' = "down" /\ act' = NoAct /\ slots' = AllFree BY LoseMemoryEffect
<1>2. QED BY <1>1, NoActOK DEF SlotMove, FromRecover, Up

LEMMA IsolateMoves ==
    ASSUME LedgerOK, pc \in Handlers, NEW event, Isolate(event)
    PROVE  SlotMove /\ FromRecover'
<1>1. CASE act.from \in {"recover", "takeover"}
  BY <1>1, LosesSlots DEF Isolate
<1>2. CASE act.from \notin {"recover", "takeover"}
  <2>1. Forget(act.task) /\ Return BY <1>2 DEF Isolate
  <2>2. slots' = Release(slots, act.task) BY <2>1 DEF Forget
  <2>3. act.task \in Tasks BY DEF LedgerOK, HandlerOK
  <2>4. QED BY <1>2, <2>1, <2>2, <2>3, StaysUp DEF SlotMove, FreesSome
<1>3. QED BY <1>1, <1>2

LEMMA DispatchMoves ==
    ASSUME LedgerOK, FromRecover,
           \/ ClaimWon \/ ClaimLater \/ ClaimRefused
           \/ Reattach \/ Resubscribe \/ Reuse \/ DispatchFresh
           \/ ReleasePane \/ Prepare \/ Launch \/ Bind \/ Record \/ Subscribe
           \/ FailDispatch \/ AutoRetry
    PROVE  SlotMove /\ FromRecover'
<1>1. pc \in Handlers /\ pc \notin {"apply", "resume"}
  BY DEF ClaimWon, ClaimLater, ClaimRefused, Reattach, Resubscribe, Reuse,
         DispatchFresh, ReleasePane, Prepare, Launch, Bind, Record, Subscribe,
         FailDispatch, AutoRetry, Handlers, PCs
<1>2. act.from # "recover" /\ act.task \in Tasks
  BY <1>1 DEF FromRecover, LedgerOK, HandlerOK
<1>3. CASE ClaimWon \/ DispatchFresh \/ ReleasePane \/ Prepare \/ Launch \/ Bind
  <2>1. /\ UNCHANGED <<slots, act>>
        /\ pc' \in {"attach", "release", "prepare", "fail", "launch", "bind", "record"}
    BY <1>3 DEF ClaimWon, DispatchFresh, ReleasePane, Prepare, Launch, Bind
  <2>2. pc' \in Handlers BY <2>1 DEF Handlers, PCs
  <2>3. QED BY <1>1, <1>2, <2>1, <2>2, StaysUp DEF SlotMove
<1>4. CASE ClaimLater
  BY <1>1, <1>2, <1>4, StaysUp DEF ClaimLater, SlotMove, FreesSome
<1>5. CASE ClaimRefused
  <2>1. CASE \E event : Isolate(event) BY <1>1, <2>1, IsolateMoves
  <2>2. CASE ~\E event : Isolate(event)
    <3>1. slots' = Release(slots, act.task) /\ Return BY <1>5, <2>2 DEF ClaimRefused
    <3>2. QED BY <1>1, <1>2, <3>1, StaysUp DEF SlotMove, FreesSome
  <2>3. QED BY <2>1, <2>2
<1>6. CASE Reuse \/ Record
  <2>1. CASE Isolate("Dispatch") BY <1>1, <2>1, IsolateMoves
  <2>2. CASE ~Isolate("Dispatch")
    <3>1. /\ pc' \in {"attached", "subscribe"} /\ slots' = slots
          /\ act' = act \/ act' = [act EXCEPT !.ver = row'[act.task].version]
      BY <1>6, <2>2 DEF Reuse, Record, planVars
    <3>2. act'.from = act.from BY <3>1 DEF LedgerOK, TypeOK, Acts
    <3>3. pc' \in Handlers BY <3>1 DEF Handlers, PCs
    <3>4. QED BY <1>1, <1>2, <3>1, <3>2, <3>3, StaysUp DEF SlotMove
  <2>3. QED BY <2>1, <2>2
<1>7. CASE Subscribe
  <2>1. slots' = slots /\ (Return \/ (pc' = "fail" /\ act' = act))
    BY <1>7 DEF Subscribe
  <2>2. "fail" \in Handlers BY DEF Handlers, PCs
  <2>3. QED BY <1>1, <1>2, <2>1, <2>2, StaysUp DEF SlotMove
<1>8. CASE FailDispatch
  <2>1. CASE Isolate("Fail") BY <1>1, <2>1, IsolateMoves
  <2>2. CASE ~Isolate("Fail")
    <3>1. /\ slots' = Release(slots, act.task) /\ pc' = "retry"
          /\ act' = [act EXCEPT !.ver = row'[act.task].version]
      BY <1>8, <2>2 DEF FailDispatch
    <3>2. act'.from = act.from BY <3>1 DEF LedgerOK, TypeOK, Acts
    <3>3. pc' \in Handlers BY <3>1 DEF Handlers, PCs
    <3>4. QED BY <1>1, <1>2, <3>1, <3>2, <3>3, StaysUp DEF SlotMove, FreesSome
  <2>3. QED BY <2>1, <2>2
<1>9. CASE AutoRetry
  <2>1. CASE Isolate("Retry") BY <1>1, <2>1, IsolateMoves
  <2>2. CASE ~Isolate("Retry")
    <3>1. Return /\ slots' = slots BY <1>9, <2>2 DEF AutoRetry
    <3>2. QED BY <1>1, <1>2, <3>1, StaysUp DEF SlotMove
  <2>3. QED BY <2>1, <2>2
<1>10. CASE Reattach \/ Resubscribe
  <2>1. /\ pc' \in {"resubscribe", "reuse", "release"} /\ slots' = slots
        /\ act'.from = act.from
    BY <1>10 DEF Reattach, Resubscribe, LedgerOK, TypeOK, Acts
  <2>2. pc' \in Handlers BY <2>1 DEF Handlers, PCs
  <2>3. QED BY <1>1, <1>2, <2>1, <2>2, StaysUp DEF SlotMove
<1>11. QED BY <1>3, <1>4, <1>5, <1>6, <1>7, <1>8, <1>9, <1>10

LEMMA FollowMoves ==
    ASSUME LedgerOK, FromRecover,
           \/ FollowAttached \/ ApplyEvent \/ Publish \/ Complete \/ FailPublish
           \/ RecoverSubscribe
    PROVE  SlotMove /\ FromRecover'
<1>1. pc \in Handlers
  BY DEF FollowAttached, ApplyEvent, Publish, Complete, FailPublish,
         RecoverSubscribe, Handlers, PCs
<1>2. act.task \in Tasks BY <1>1 DEF LedgerOK, HandlerOK
<1>3. CASE FollowAttached
  <2>1. pc = "attached" /\ act.from # "recover" BY <1>3 DEF FollowAttached, FromRecover
  <2>2. act.from \in Froms \ {"none"} /\ act.next \in PaneStates
    BY <1>1, <2>1 DEF LedgerOK, HandlerOK, Answered, TypeOK, Acts, Froms
  <2>3. React(act.task, act.next, act.from) /\ slots' = slots BY <1>3 DEF FollowAttached
  <2>4. Return \/ (pc' \in Handlers /\ act'.from = act.from)
    BY <1>2, <2>2, <2>3, ReactOK DEF LedgerOK, Return, Handlers, PCs
  <2>5. QED BY <1>1, <2>1, <2>3, <2>4, StaysUp DEF SlotMove
<1>4. CASE ApplyEvent
  <2>1. CASE Isolate(Head(act.events)) BY <1>1, <2>1, IsolateMoves
  <2>2. CASE ~Isolate(Head(act.events))
    <3>1. pc = "apply" BY <1>4 DEF ApplyEvent
    <3>2. CASE /\ act' = [act EXCEPT !.ver = row'[act.task].version,
                                     !.events = Tail(act.events)]
               /\ \/ pc' = "apply" /\ act'.events # <<>>
                  \/ pc' = "publish" /\ act.next = "publish"
               /\ UNCHANGED <<slots, routes, resumed>>
      <4>1. act'.from = act.from /\ act'.next = act.next
        BY <3>2 DEF LedgerOK, TypeOK, Acts
      <4>2. pc' \in Handlers BY <3>2 DEF Handlers, PCs
      <4>3. CASE act.from # "recover"
        BY <1>1, <3>2, <4>1, <4>2, <4>3, StaysUp DEF SlotMove
      <4>4. CASE act.from = "recover"
        <5>1. act.next = "resumed" /\ pc' = "apply"
          BY <3>1, <3>2, <4>4 DEF FromRecover
        <5>2. ~Up /\ ~Up' /\ slots' = slots BY <3>2, <4>1, <4>4 DEF Up
        <5>3. QED BY <4>1, <5>1, <5>2 DEF SlotMove, FromRecover
      <4>5. QED BY <4>3, <4>4
    <3>3. CASE /\ Return /\ act.next # "publish"
               /\ resumed' = IF act.next = "resumed"
                             THEN resumed \cup {act.task} ELSE resumed
               /\ CASE act.next = "settle" -> Forget(act.task)
                    [] act.next = "resume" ->
                         /\ slots' = Acquire(slots, act.task,
                                             PairOf[act.task][1],
                                             PairOf[act.task][2])
                         /\ UNCHANGED routes
                    [] OTHER -> UNCHANGED <<slots, routes>>
      <4>1. CASE act.from # "recover"
        <5>1. Up /\ Up' /\ FromRecover' BY <1>1, <3>3, <4>1, StaysUp
        <5>2. CASE act.next = "settle"
          BY <1>2, <3>3, <5>1, <5>2 DEF Forget, SlotMove, FreesSome
        <5>3. CASE act.next = "resume"
          BY <1>2, <3>3, <5>1, <5>3 DEF SlotMove, TakesOne
        <5>4. CASE act.next \notin {"settle", "resume"}
          BY <3>3, <5>1, <5>4 DEF SlotMove
        <5>5. QED BY <5>2, <5>3, <5>4
      <4>2. CASE act.from = "recover"
        <5>1. act.next = "resumed" BY <3>1, <4>2 DEF FromRecover
        <5>2. slots' = slots BY <3>3, <5>1
        <5>3. act' = NoAct /\ pc' = "recover" BY <3>3, <4>2 DEF Return, ReturnTo
        <5>4. ~Up /\ ~Up' BY <4>2, <5>3 DEF Up
        <5>5. QED BY <5>2, <5>3, <5>4, NoActOK DEF SlotMove, FromRecover
      <4>3. QED BY <4>1, <4>2
    <3>4. QED BY <1>4, <2>2, <3>2, <3>3, ApplyEventEffect
  <2>3. QED BY <2>1, <2>2
<1>5. CASE Publish
  <2>1. pc' \in Handlers /\ UNCHANGED <<slots, act>> /\ pc = "publish"
    BY <1>5 DEF Publish, Handlers, PCs
  <2>2. QED BY <1>1, <2>1, StaysUp DEF SlotMove, FromRecover
<1>6. CASE Complete
  <2>1. CASE Isolate("Complete") BY <1>1, <2>1, IsolateMoves
  <2>2. CASE ~Isolate("Complete")
    <3>1. Forget(act.task) /\ Return /\ pc = "complete" BY <1>6, <2>2 DEF Complete
    <3>2. slots' = Release(slots, act.task) BY <3>1 DEF Forget
    <3>3. QED BY <1>1, <1>2, <3>1, <3>2, StaysUp DEF SlotMove, FreesSome, FromRecover
  <2>3. QED BY <2>1, <2>2
<1>7. CASE FailPublish
  <2>1. CASE Isolate("Fail") BY <1>1, <2>1, IsolateMoves
  <2>2. CASE ~Isolate("Fail")
    <3>1. slots' = Release(slots, act.task) /\ Return /\ pc = "unpublished"
      BY <1>7, <2>2 DEF FailPublish
    <3>2. QED BY <1>1, <1>2, <3>1, StaysUp DEF SlotMove, FreesSome, FromRecover
  <2>3. QED BY <2>1, <2>2
<1>8. CASE RecoverSubscribe
  <2>1. /\ pc = "resume" /\ act.from = "recover" /\ slots' = slots
        /\ \/ pc' = "recover" /\ act' = NoAct
           \/ pc' = "apply" /\ act'.from = act.from /\ act'.next = "resumed"
    BY <1>8 DEF RecoverSubscribe, recVars, LedgerOK, HandlerOK, TypeOK, Acts
  <2>2. QED BY <2>1, NoActOK DEF SlotMove, Up, FromRecover
<1>9. QED BY <1>3, <1>4, <1>5, <1>6, <1>7, <1>8

LEMMA LoopMoves ==
    ASSUME LedgerOK, FromRecover, Next \/ UNCHANGED vars,
           ~(pc \in Handlers /\ EngineStep)
    PROVE  SlotMove /\ FromRecover'
<1> USE DEF dbVars, worldVars, streamVars, planVars, recVars, boundVars
<1>1. pc \notin Handlers => act = NoAct /\ act.from = "none"
  BY NoActOK DEF LedgerOK, HandlerOK
<1>2. CASE Gather \/ PlanEnd \/ PassEnd
  <2>1. pc \notin Handlers /\ pc' \notin {"down", "recover"} /\ pc \notin {"down", "recover"}
        /\ UNCHANGED <<slots, act>>
    BY <1>2 DEF Gather, PlanEnd, PassEnd, Handlers
  <2>2. QED BY <1>1, <2>1 DEF SlotMove, Up, FromRecover
<1>3. CASE PlanStep
  <2>1. pc = "planning" /\ UNCHANGED <<pc, act>> BY <1>3 DEF PlanStep
  <2>2. act.from = "none" BY <1>1, <2>1 DEF Handlers
  <2>3. TakesOne BY <1>3 DEF PlanStep, TakesOne, LedgerOK, TypeOK
  <2>4. QED BY <2>1, <2>2, <2>3 DEF SlotMove, Up, FromRecover
<1>4. CASE DispatchOne
  <2>1. pc = "plan" /\ Head(plan) \in Tasks
    BY <1>4 DEF DispatchOne, LedgerOK, TypeOK
  <2>2. act.from = "none" BY <1>1, <2>1 DEF Handlers
  <2>3. CASE slots' = Release(slots, Head(plan)) /\ UNCHANGED <<pc, act>>
    BY <2>1, <2>2, <2>3 DEF SlotMove, FreesSome, Up, FromRecover
  <2>4. CASE /\ pc' \in {"claim", "fail"} /\ slots' = slots
             /\ act' = Moving(Head(plan), row[Head(plan)].version, "plan")
    <3>1. act'.from = "plan" BY <2>4 DEF Moving
    <3>2. QED BY <2>1, <2>2, <2>4, <3>1 DEF SlotMove, Up, FromRecover
  <2>5. QED BY <1>4, <2>3, <2>4 DEF DispatchOne
<1>5. CASE HandleNote
  <2>1. pc = "idle" /\ inbox # <<>> /\ slots' = slots BY <1>5 DEF HandleNote
  <2>2. act.from = "none" BY <1>1, <2>1 DEF Handlers
  <2>3. pc' \notin {"down", "recover"} /\ act'.from # "recover"
    <3>1. CASE pc' = "ready" /\ act' = NoAct BY <3>1, NoActOK
    <3>2. CASE React(Head(inbox).task, Head(inbox).state, "event")
      <4>1. Head(inbox) \in [task : Tasks, run : Nat, state : AgentStates]
        <5> DEFINE Notes == [task : Tasks, run : Nat, state : AgentStates]
        <5>1. inbox \in Seq(Notes) /\ inbox # <<>> BY <2>1 DEF LedgerOK, TypeOK
        <5> HIDE DEF Notes
        <5>2. Head(inbox) \in Notes BY <5>1
        <5>3. QED BY <5>2 DEF Notes
      <4>2. "event" \in Froms \ {"none"} BY DEF Froms
      <4>3. \/ pc' = ReturnTo("event") /\ act' = NoAct
            \/ pc' \in {"publish", "apply"} /\ act'.from = "event"
        BY <3>2, <4>1, <4>2, ReactOK DEF LedgerOK
      <4>4. QED BY <4>3, NoActOK DEF ReturnTo
    <3>3. QED BY <1>5, <3>1, <3>2 DEF HandleNote
  <2>4. QED BY <2>1, <2>2, <2>3 DEF SlotMove, Up, FromRecover
<1>6. CASE Cycle
  <2>1. pc \in {"cycle", "idle"} /\ pc' = "ready" /\ act' = act
        /\ slots' = ReleaseAll(slots, {t \in Tasks : ~CountsTowardSlot(row[t].state)})
    BY <1>6 DEF Cycle
  <2>2. act.from = "none" BY <1>1, <2>1 DEF Handlers
  <2>3. FreesSome BY <2>1 DEF FreesSome
  <2>4. QED BY <2>1, <2>2, <2>3 DEF SlotMove, Up, FromRecover
<1>7. CASE Start
  <2>1. pc = "down" /\ pc' = "recover" /\ UNCHANGED <<slots, act>> BY <1>7 DEF Start
  <2>2. act.from = "none" BY <1>1, <2>1 DEF Handlers
  <2>3. QED BY <2>1, <2>2 DEF SlotMove, Up, FromRecover
<1>8. CASE RecoverTask
  <2>1. pc = "recover" /\ slots' = slots BY <1>8 DEF RecoverTask
  <2>2. act.from = "none" BY <1>1, <2>1 DEF Handlers
  <2>3. \/ UNCHANGED <<pc, act>>
        \/ pc' = "resume" /\ act'.from = "recover"
    BY <1>8 DEF RecoverTask, Moving
  <2>4. QED BY <2>1, <2>2, <2>3 DEF SlotMove, Up, FromRecover
<1>9. CASE RebuildSlots
  <2>1. pc = "recover" /\ pc' = "takeover" /\ act' = act /\ slots' = Rebuild(Claims)
    BY <1>9 DEF RebuildSlots
  <2>2. act.from = "none" BY <1>1, <2>1 DEF Handlers
  <2>3. QED BY <2>1, <2>2 DEF SlotMove, Up, FromRecover
<1>10. CASE TakeOver \/ RecoverEnd
  <2>1. pc = "takeover" /\ slots' = slots BY <1>10 DEF TakeOver, RecoverEnd
  <2>2. act.from = "none" BY <1>1, <2>1 DEF Handlers
  <2>3. \/ pc' \in {"takeover", "cycle"} /\ act' = act
        \/ pc' = "publish" /\ act'.from = "takeover"
    BY <1>10, <2>1 DEF TakeOver, RecoverEnd, Moving
  <2>4. QED BY <2>1, <2>2, <2>3 DEF SlotMove, Up, FromRecover
<1>11. ASSUME NEW t \in Tasks, CliWrites(t) PROVE SlotMove /\ FromRecover'
  BY <1>11 DEF CliWrites, SlotMove, Up, FromRecover
<1>12. ASSUME NEW t \in Tasks, Control(t) PROVE SlotMove /\ FromRecover'
  <2>1. pc = "idle" /\ pc' = "ready" /\ act' = act
        /\ (slots' = slots \/ slots' = Release(slots, t))
    BY <1>12 DEF Control, Forget
  <2>2. act.from = "none" BY <1>1, <2>1 DEF Handlers
  <2>3. QED BY <2>1, <2>2 DEF SlotMove, FreesSome, Up, FromRecover
<1>13. CASE AgentStep \/ UNCHANGED vars
  <2>1. UNCHANGED <<slots, pc, act>>
    BY <1>13 DEF AgentStep, AgentMoves, AgentExits, StreamDrops, vars
  <2>2. QED BY <2>1 DEF SlotMove, Up, FromRecover
<1>14. CASE Crash BY <1>14, LosesSlots DEF Crash
<1>15. CASE EngineStep /\ pc \notin Handlers
  <2>1. ~(\/ ClaimWon \/ ClaimLater \/ ClaimRefused \/ Reattach \/ Resubscribe
          \/ Reuse \/ DispatchFresh \/ ReleasePane \/ Prepare \/ Launch
          \/ Bind \/ Record \/ Subscribe \/ FailDispatch \/ AutoRetry
          \/ FollowAttached \/ ApplyEvent \/ Publish \/ Complete
          \/ FailPublish \/ RecoverSubscribe)
    BY <1>15 DEF ClaimWon, ClaimLater, ClaimRefused, Reattach, Resubscribe,
                 Reuse, DispatchFresh, ReleasePane, Prepare, Launch, Bind,
                 Record, Subscribe, FailDispatch, AutoRetry, FollowAttached,
                 ApplyEvent, Publish, Complete, FailPublish,
                 RecoverSubscribe, Handlers, PCs
  <2>2. QED BY <1>2, <1>3, <1>4, <1>5, <1>6, <1>7, <1>8, <1>9, <1>10, <1>15, <2>1
            DEF EngineStep
<1>16. QED BY <1>11, <1>12, <1>13, <1>14, <1>15 DEF Next, PersonStep

LEMMA SlotMoves ==
    ASSUME LedgerOK, FromRecover, [Next]_vars
    PROVE  SlotMove /\ FromRecover'
<1>1. CASE pc \in Handlers /\ EngineStep
  <2>1. ~(\/ Gather \/ PlanStep \/ PlanEnd \/ PassEnd \/ DispatchOne \/ HandleNote
          \/ Cycle \/ Start \/ RecoverTask \/ RebuildSlots \/ TakeOver \/ RecoverEnd)
    BY <1>1 DEF Gather, PlanStep, PlanEnd, PassEnd, DispatchOne, HandleNote, Cycle,
                Start, RecoverTask, RebuildSlots, TakeOver, RecoverEnd, Handlers
  <2>2. QED BY <1>1, <2>1, DispatchMoves, FollowMoves DEF EngineStep
<1>2. CASE ~(pc \in Handlers /\ EngineStep)
  BY <1>2, LoopMoves
<1>3. QED BY <1>1, <1>2

LEMMA UpInit == Init => UpOK
<1> SUFFICES ASSUME Init PROVE UpOK OBVIOUS
<1>1. slots = AllFree /\ act = NoAct BY DEF Init
<1>2. \A t \in Tasks : slots.holder[t] = NoSlot BY <1>1 DEF AllFree
<1>3. Holders(slots) = {} BY <1>2 DEF Holders, Holds
<1>4. QED BY <1>1, <1>2, <1>3, NoActOK DEF UpOK

\* whom a change of the ledger leaves with a slot, under which pair
LEMMA HoldersAfter ==
    ASSUME NEW s \in Ledgers, \A t \in Tasks : s.holder[t] \in {NoSlot, PairOf[t]}
    PROVE  /\ \A t \in Tasks :
                /\ Holders(Release(s, t)) = Holders(s) \ {t}
                /\ \A u \in Tasks : Release(s, t).holder[u] \in {NoSlot, PairOf[u]}
           /\ \A ts \in SUBSET Tasks :
                /\ Holders(ReleaseAll(s, ts)) = Holders(s) \ ts
                /\ \A u \in Tasks : ReleaseAll(s, ts).holder[u] \in {NoSlot, PairOf[u]}
           /\ \A t \in Tasks :
                LET a == Acquire(s, t, PairOf[t][1], PairOf[t][2])
                IN  /\ a = s \/ Holders(a) = Holders(s) \cup {t}
                    /\ \A u \in Tasks : a.holder[u] \in {NoSlot, PairOf[u]}
<1>1. s.holder \in [Tasks -> Pairs \cup {NoSlot}] BY DEF Ledgers
<1>2. ASSUME NEW t \in Tasks
      PROVE  /\ Holders(Release(s, t)) = Holders(s) \ {t}
             /\ \A u \in Tasks : Release(s, t).holder[u] \in {NoSlot, PairOf[u]}
  <2>1. CASE ~Holds(s, t)
    BY <2>1 DEF Release, Holders
  <2>2. CASE Holds(s, t)
    <3>1. Release(s, t).holder = [s.holder EXCEPT ![t] = NoSlot] BY <2>2 DEF Release
    <3>2. QED BY <1>1, <3>1 DEF Holders, Holds
  <2>3. QED BY <2>1, <2>2
<1>3. ASSUME NEW ts \in SUBSET Tasks
      PROVE  /\ Holders(ReleaseAll(s, ts)) = Holders(s) \ ts
             /\ \A u \in Tasks : ReleaseAll(s, ts).holder[u] \in {NoSlot, PairOf[u]}
  <2>1. ReleaseAll(s, ts).holder = [t \in Tasks |-> IF t \in ts THEN NoSlot ELSE s.holder[t]]
    BY DEF ReleaseAll
  <2>2. QED BY <2>1 DEF Holders, Holds
<1>4. ASSUME NEW t \in Tasks
      PROVE  LET a == Acquire(s, t, PairOf[t][1], PairOf[t][2])
             IN  /\ a = s \/ Holders(a) = Holders(s) \cup {t}
                 /\ \A u \in Tasks : a.holder[u] \in {NoSlot, PairOf[u]}
  <2> DEFINE a == Acquire(s, t, PairOf[t][1], PairOf[t][2])
  <2>1. PairOf[t] = <<PairOf[t][1], PairOf[t][2]>> /\ PairOf[t] # NoSlot
    BY PairAssumption, NoSlotAssumption
  <2>2. a = s \/ a.holder = [s.holder EXCEPT ![t] = PairOf[t]]
    BY <2>1 DEF Acquire, Take
  <2> HIDE DEF a
  <2>3. QED BY <1>1, <2>1, <2>2 DEF Holders, Holds, a
<1>5. QED BY <1>2, <1>3, <1>4

LEMMA RebuiltHolders ==
    /\ Rebuild(Claims).holder = Claims
    /\ \A u \in Tasks : Claims[u] \in {NoSlot, PairOf[u]}
    /\ Holders(Rebuild(Claims)) \in SUBSET Tasks
BY DEF Rebuild, Claims, Holders

LEMMA UpStep ==
    ASSUME LedgerOK, UpOK, [Next]_vars PROVE UpOK'
<1> USE DEF UpOK
<1>1. SlotMove /\ FromRecover' BY SlotMoves DEF FromRecover
<1>2. slots \in Ledgers BY DEF LedgerOK, TypeOK
<1>3. CASE slots' = slots /\ (Up' <=> Up) BY <1>1, <1>3 DEF FromRecover, Holders, Holds
<1>4. CASE Up /\ Up' /\ (FreesSome \/ TakesOne)
  <2>1. \A u \in Tasks : slots'.holder[u] \in {NoSlot, PairOf[u]}
    BY <1>2, <1>4, HoldersAfter DEF FreesSome, TakesOne
  <2>2. QED BY <1>1, <1>4, <2>1 DEF FromRecover
<1>5. CASE ~Up /\ Up' /\ slots' = Rebuild(Claims)
  <2>1. \A u \in Tasks : slots'.holder[u] \in {NoSlot, PairOf[u]}
    BY <1>5, RebuiltHolders
  <2>2. QED BY <1>1, <1>5, <2>1 DEF FromRecover
<1>6. CASE ~Up' /\ slots' = AllFree
  <2>1. \A u \in Tasks : slots'.holder[u] = NoSlot BY <1>6 DEF AllFree
  <2>2. QED BY <1>1, <2>1 DEF FromRecover, Holders, Holds
<1>7. QED BY <1>1, <1>3, <1>4, <1>5, <1>6 DEF SlotMove

LEMMA OneMore ==
    ASSUME NEW S, NEW x, IsFiniteSet(S), x \notin S, NEW n \in Nat, n = Cardinality(S)
    PROVE  Cardinality(S \cup {x}) = n + 1
BY FS_AddElement

\* a tier that gains a slot was below its cap: the counters count its holders
LEMMA TakesWithinCaps ==
    ASSUME NEW s \in Ledgers, CountersAgree(s), NEW t \in Tasks,
           \A u \in Tasks : s.holder[u] \in {NoSlot, PairOf[u]},
           ~Holds(s, t), CanDispatch(s, PairOf[t][1], PairOf[t][2]),
           NEW r, r = PairOf[t][1], NEW a, a = PairOf[t][2]
    PROVE  LET now == Holders(s) \cup {t}
           IN  /\ Cardinality(now) <= GlobalLimit
               /\ RepoLimit[r] # NoCap =>
                    Cardinality({u \in now : PairOf[u][1] = r}) <= RepoLimit[r]
               /\ AgentLimit[a] # NoCap =>
                    Cardinality({u \in now : PairOf[u][2] = a}) <= AgentLimit[a]
<1> DEFINE now == Holders(s) \cup {t}
<1>1. r \in Repos /\ a \in Agents BY PairAssumption
<1>2. /\ s.global < GlobalLimit
      /\ RepoLimit[r] # NoCap => s.repo[r] < RepoLimit[r]
      /\ AgentLimit[a] # NoCap => s.agent[a] < AgentLimit[a]
  BY DEF CanDispatch, Below
<1>3. /\ s.global = Cardinality(Holders(s)) /\ s.global \in Nat
      /\ s.repo[r] = Cardinality(RepoHolders(s, r)) /\ s.repo[r] \in Nat
      /\ s.agent[a] = Cardinality(AgentHolders(s, a)) /\ s.agent[a] \in Nat
  BY <1>1 DEF CountersAgree, Ledgers
<1>4. /\ GlobalLimit \in Nat /\ RepoLimit[r] \in Nat \cup {NoCap}
      /\ AgentLimit[a] \in Nat \cup {NoCap}
  BY <1>1, LimitsAssumption
<1>5. t \notin Holders(s) BY DEF Holders
<1>6. \A u \in Holders(s) : s.holder[u] = PairOf[u] /\ u \in Tasks BY DEF Holders, Holds
<1>7. {u \in now : PairOf[u][1] = r} = RepoHolders(s, r) \cup {t}
  BY <1>6 DEF RepoHolders, Holders
<1>8. {u \in now : PairOf[u][2] = a} = AgentHolders(s, a) \cup {t}
  BY <1>6 DEF AgentHolders, Holders
<1>9. t \notin RepoHolders(s, r) /\ t \notin AgentHolders(s, a)
  BY DEF RepoHolders, AgentHolders
<1>10. /\ IsFiniteSet(Holders(s)) /\ IsFiniteSet(RepoHolders(s, r))
       /\ IsFiniteSet(AgentHolders(s, a))
  BY <1>1, HoldersFinite
<1>11. Cardinality(now) = s.global + 1
  <2> DEFINE S == Holders(s)
  <2>1. s.global = Cardinality(S) /\ s.global \in Nat /\ IsFiniteSet(S) /\ t \notin S
    BY <1>3, <1>5, <1>10
  <2> HIDE DEF S
  <2>2. Cardinality(S \cup {t}) = s.global + 1 BY <2>1, OneMore
  <2>3. QED BY <2>2 DEF S
<1>12. Cardinality(RepoHolders(s, r) \cup {t}) = s.repo[r] + 1
  <2> DEFINE S == RepoHolders(s, r)
  <2>1. s.repo[r] = Cardinality(S) /\ s.repo[r] \in Nat /\ IsFiniteSet(S) /\ t \notin S
    BY <1>3, <1>9, <1>10
  <2> HIDE DEF S
  <2>2. Cardinality(S \cup {t}) = s.repo[r] + 1 BY <2>1, OneMore
  <2>3. QED BY <2>2 DEF S
<1>13. Cardinality(AgentHolders(s, a) \cup {t}) = s.agent[a] + 1
  <2> DEFINE S == AgentHolders(s, a)
  <2>1. s.agent[a] = Cardinality(S) /\ s.agent[a] \in Nat /\ IsFiniteSet(S) /\ t \notin S
    BY <1>3, <1>9, <1>10
  <2> HIDE DEF S
  <2>2. Cardinality(S \cup {t}) = s.agent[a] + 1 BY <2>1, OneMore
  <2>3. QED BY <2>2 DEF S
<1> DEFINE inR == {u \in now : PairOf[u][1] = r}
           inA == {u \in now : PairOf[u][2] = a}
<1>14. Cardinality(inR) = s.repo[r] + 1 BY <1>7, <1>12
<1>15. Cardinality(inA) = s.agent[a] + 1 BY <1>8, <1>13
<1> HIDE DEF now, inR, inA
<1>16. Cardinality(now) <= GlobalLimit BY <1>2, <1>3, <1>4, <1>11
<1>17. RepoLimit[r] # NoCap => Cardinality(inR) <= RepoLimit[r]
  BY <1>2, <1>3, <1>4, <1>14
<1>18. AgentLimit[a] # NoCap => Cardinality(inA) <= AgentLimit[a]
  BY <1>2, <1>3, <1>4, <1>15
<1>19. QED BY <1>16, <1>17, <1>18 DEF now, inR, inA

-----------------------------------------------------------------------------
LEMMA TiersApart ==
    /\ \A r : AllWork # RepoTier(r)
    /\ \A a : AllWork # AgentTier(a)
    /\ \A r, a : RepoTier(r) # AgentTier(a)
    /\ \A r, q : RepoTier(r) = RepoTier(q) => r = q
    /\ \A a, b : AgentTier(a) = AgentTier(b) => a = b
BY DEF AllWork, RepoTier, AgentTier

\* acquire takes a slot only where all three tiers of the task have room
LEMMA TakeHasRoom ==
    ASSUME LedgerOK, UpOK, Up, Up', NEW t \in Tasks, slots' # slots,
           slots' = Acquire(slots, t, PairOf[t][1], PairOf[t][2])
    PROVE  Ledger!Take({t})
<1> DEFINE r == PairOf[t][1]
           a == PairOf[t][2]
           now == Holders(slots) \cup {t}
           Tiers == {AllWork} \cup {RepoTier(x) : x \in {q \in Repos : RepoLimit[q] # NoCap}}
                     \cup {AgentTier(x) : x \in {b \in Agents : AgentLimit[b] # NoCap}}
           Keys == {AllWork} \cup ({"repo"} \X Repos) \cup ({"agent"} \X Agents)
           Cap == [tier \in Keys |->
                     CASE tier = AllWork -> GlobalLimit
                       [] tier[1] = "repo" -> RepoLimit[tier[2]]
                       [] OTHER -> AgentLimit[tier[2]]]
           TiersOf == [u \in Tasks |-> {AllWork, RepoTier(PairOf[u][1]),
                                        AgentTier(PairOf[u][2])}]
           Count(tier) == Cardinality({u \in now : tier \in TiersOf[u]})
<1>1. slots \in Ledgers /\ CountersAgree(slots)
      /\ \A u \in Tasks : slots.holder[u] \in {NoSlot, PairOf[u]}
  BY DEF LedgerOK, TypeOK, UpOK
<1>2. ~Holds(slots, t) /\ CanDispatch(slots, r, a) BY DEF Acquire
<1>3. Holders(slots)' = now BY <1>1, HoldersAfter DEF Holders
<1>4. /\ Cardinality(now) <= GlobalLimit
      /\ RepoLimit[r] # NoCap =>
           Cardinality({u \in now : PairOf[u][1] = r}) <= RepoLimit[r]
      /\ AgentLimit[a] # NoCap =>
           Cardinality({u \in now : PairOf[u][2] = a}) <= AgentLimit[a]
  BY <1>1, <1>2, TakesWithinCaps
<1>5. now \in SUBSET Tasks /\ r \in Repos /\ a \in Agents
  BY PairAssumption DEF Holders
<1>6. ASSUME NEW tier \in Tiers, tier \in TiersOf[t]
      PROVE  Count(tier) <= Cap[tier]
  <2>1. CASE tier = AllWork
    <3>1. {u \in now : tier \in TiersOf[u]} = now BY <1>5, <2>1
    <3>2. tier \in Keys /\ tier[1] # "repo" BY <2>1 DEF AllWork
    <3>3. Cap[tier] = GlobalLimit BY <2>1, <3>2
    <3> HIDE DEF now, Cap, TiersOf
    <3>4. QED BY <1>4, <3>1, <3>3
  <2>2. CASE tier = RepoTier(r)
    <3>1. {u \in now : tier \in TiersOf[u]} = {u \in now : PairOf[u][1] = r}
      BY <1>5, <2>2, TiersApart
    <3>2. RepoLimit[r] # NoCap BY <2>2, TiersApart
    <3>3. tier \in Keys /\ tier # AllWork /\ tier[1] = "repo" /\ tier[2] = r
      BY <1>5, <2>2, TiersApart DEF RepoTier
    <3>4. Cap[tier] = RepoLimit[r] BY <3>3
    <3> HIDE DEF now, Cap, TiersOf
    <3>5. QED BY <1>4, <3>1, <3>2, <3>4
  <2>3. CASE tier = AgentTier(a)
    <3>1. {u \in now : tier \in TiersOf[u]} = {u \in now : PairOf[u][2] = a}
      BY <1>5, <2>3, TiersApart
    <3>2. AgentLimit[a] # NoCap BY <2>3, TiersApart
    <3>3. tier \in Keys /\ tier # AllWork /\ tier[1] = "agent" /\ tier[2] = a
      BY <1>5, <2>3, TiersApart DEF AgentTier
    <3>4. Cap[tier] = AgentLimit[a] BY <3>3
    <3> HIDE DEF now, Cap, TiersOf
    <3>5. QED BY <1>4, <3>1, <3>2, <3>4
  <2>4. QED BY <1>6, <2>1, <2>2, <2>3
<1>7. \A tier \in Tiers :
        (\E u \in {t} \ Holders(slots) : tier \in TiersOf[u]) => Count(tier) <= Cap[tier]
  BY <1>6
<1>8. \A tier \in Tiers :
        (\E u \in {t} \ Holders(slots) : tier \in TiersOf[u])
          => Ledger!Used(tier, Holders(slots)') <= Cap[tier]
  <2> SUFFICES ASSUME NEW tier \in Tiers, NEW u \in {t} \ Holders(slots),
                      tier \in TiersOf[u]
               PROVE  Ledger!Used(tier, Holders(slots)') <= Cap[tier]
    OBVIOUS
  <2>1. Count(tier) <= Cap[tier] BY <1>7
  <2> HIDE DEF now, Cap, Tiers
  <2>2. Ledger!Used(tier, now) = Count(tier)
    <3> DEFINE N == {x \in now : tier \in TiersOf[x]}
    <3>1. Ledger!Used(tier, now) = Cardinality(N)
      BY DEF Ledger!Used, Ledger!Cardinality, Cardinality
    <3>2. QED BY <3>1
  <2> HIDE DEF Count, TiersOf
  <2>3. QED BY <1>3, <2>1, <2>2
<1>9. QED BY <1>3, <1>8 DEF Ledger!Take, Up

LEMMA PromiseStep ==
    ASSUME LedgerOK, UpOK, [Next]_vars PROVE [Ledger!Next]_Ledger!vars
<1>1. SlotMove BY SlotMoves DEF UpOK, FromRecover
<1>2. slots \in Ledgers /\ \A u \in Tasks : slots.holder[u] \in {NoSlot, PairOf[u]}
  BY DEF LedgerOK, TypeOK, UpOK
<1>3. CASE slots' = slots /\ (Up' <=> Up)
  BY <1>3 DEF Ledger!vars, Up, Holders, Holds
<1>4. CASE Up /\ Up' /\ FreesSome
  <2>1. PICK ts \in SUBSET Tasks : Holders(slots') = Holders(slots) \ ts
    <3>1. CASE \E t \in Tasks : slots' = Release(slots, t)
      <4>1. PICK t \in Tasks : slots' = Release(slots, t) BY <3>1
      <4>2. Holders(slots') = Holders(slots) \ {t} BY <1>2, <4>1, HoldersAfter
      <4>3. QED BY <4>2
    <3>2. CASE \E ts \in SUBSET Tasks : slots' = ReleaseAll(slots, ts)
      BY <1>2, <3>2, HoldersAfter
    <3>3. QED BY <1>4, <3>1, <3>2 DEF FreesSome
  <2>2. Holders(slots)' = Holders(slots) \ ts BY <2>1 DEF Holders
  <2>3. Ledger!GiveBack(ts) BY <1>4, <2>2 DEF Ledger!GiveBack, Up
  <2>4. QED BY <2>3 DEF Ledger!Next
<1>5. CASE Up /\ Up' /\ TakesOne
  <2>1. PICK t \in Tasks : slots' = Acquire(slots, t, PairOf[t][1], PairOf[t][2])
    BY <1>5 DEF TakesOne
  <2>2. CASE slots' = slots BY <1>3, <1>5, <2>2
  <2>3. CASE slots' # slots
    <3>1. Ledger!Take({t}) BY <1>5, <2>1, <2>3, TakeHasRoom
    <3>2. QED BY <3>1 DEF Ledger!Next
  <2>4. QED BY <2>2, <2>3
<1>6. CASE ~Up /\ Up' /\ slots' = Rebuild(Claims)
  <2>1. Holders(slots)' \in SUBSET Tasks BY DEF Holders
  <2>2. Ledger!Start(Holders(slots)') BY <1>6 DEF Ledger!Start, Up
  <2>3. QED BY <2>1, <2>2 DEF Ledger!Next
<1>7. CASE ~Up' /\ slots' = AllFree
  <2>1. Holders(slots)' = {}
    <3>1. \A u \in Tasks : slots'.holder[u] = NoSlot BY <1>7 DEF AllFree
    <3>2. QED BY <3>1 DEF Holders, Holds
  <2>2. CASE Up
    <3>1. Ledger!Stop BY <1>7, <2>1, <2>2 DEF Ledger!Stop, Up
    <3>2. QED BY <3>1 DEF Ledger!Next
  <2>3. CASE ~Up
    <3>1. Holders(slots)' = Holders(slots) BY <2>1, <2>3 DEF UpOK
    <3>2. QED BY <1>7, <2>3, <3>1 DEF Ledger!vars, Up
  <2>4. QED BY <2>2, <2>3
<1>8. QED BY <1>1, <1>3, <1>4, <1>5, <1>6, <1>7 DEF SlotMove

\* the engine keeps the promise of the slots, for every cap and every pairing
\* of tasks with repositories and agents (dispatch.rs, recovery/mod.rs,
\* scheduler/mod.rs)
THEOREM EngineSlotsKeepTheirCaps == Spec => SlotsKeepTheirCaps
<1> DEFINE Inv == LedgerOK /\ UpOK
<1>1. Init => Inv BY LedgerInit, UpInit
<1>2. Inv /\ [Next]_vars => Inv' BY LedgerStep, UpStep
<1>3. Init => Ledger!Init
  <2> SUFFICES ASSUME Init PROVE Ledger!Init OBVIOUS
  <2>1. Holders(slots) = {}
    <3>1. slots = AllFree BY DEF Init
    <3>2. \A u \in Tasks : slots.holder[u] = NoSlot BY <3>1 DEF AllFree
    <3>3. QED BY <3>2 DEF Holders, Holds
  <2>2. QED BY <2>1 DEF Ledger!Init
<1>4. Inv /\ [Next]_vars => [Ledger!Next]_Ledger!vars BY PromiseStep
<1> HIDE DEF Inv
<1>5. QED BY <1>1, <1>2, <1>3, <1>4, PTL DEF Spec, SlotsKeepTheirCaps, Ledger!Spec

-----------------------------------------------------------------------------
(***************************************************************************)
(* Finished agents.  What tells the engine that an agent is done is one    *)
(* notification or the answer of one attach: the notification waits in the *)
(* inbox until it is read, and from then on, like from the answer on, the  *)
(* handler that has it is the only one who knows.                          *)
(***************************************************************************)
AtWork(state) == state \in {"dispatched", "running", "waiting_input"}

DoneNote(t) == [task |-> t, run |-> Latest(t), state |-> "Done"]

\* the agent of the current session is done, and no notification says so,
\* though its end did not go unnoticed
Unheard(t) ==
    /\ pane[t] = [run |-> Latest(t), state |-> "Done"]
    /\ t \notin missed /\ Session(t) \notin strangers
    /\ \A i \in DOMAIN inbox : inbox[i] # DoneNote(t)

\* the handler in progress ends the work of t
Ending(t) ==
    /\ act.task = t
    /\ \/ pc = "apply" /\ act.next \in {"publish", "settle"}
       \/ pc = "attached" /\ act.next = "Done"
       \/ pc \in {"publish", "complete", "unpublished"}

(***************************************************************************)
(* No report is lost: while the engine follows the current session of a    *)
(* task at work and that session's agent is done, the notification is      *)
(* there to be read or the task is being ended.  Left out are the agents   *)
(* that FinishedAgentsAreFinalized is about, whose end nothing told, and   *)
(* the sessions that answered under an id another pane has taken over.     *)
(***************************************************************************)
NoReportIsLost ==
    \A t \in Tasks :
        Finished(t) /\ t \notin missed
            => \/ \E i \in DOMAIN inbox : inbox[i] = DoneNote(t)
               \/ Ending(t)

\* where the answer of an attach waits for the subscription
Asking == {"resubscribe", "reuse", "resume"}

(***************************************************************************)
(* It rests on the ways into followed work, none of which starts with an   *)
(* agent that is done without the engine's knowing: a launch opens a fresh *)
(* pane, an attach is told, and recovery catches a task up until it is     *)
(* publishing, or found it publishing already.                             *)
(***************************************************************************)
Known(t) ==
    /\ <<t, Latest(t)>> \in routes /\ AtWork(row[t].state) => Ending(t)
    /\ act.task = t => pc \notin {"bind", "record"}
    /\ act.task = t /\ pc \in Asking => act.next = "Done"
    /\ t \in resumed => ~AtWork(row[t].state)
    /\ act.task = t /\ act.from = "recover" /\ pc = "apply"
         => act.events[Len(act.events)] = "BeginPublish"

HeardOK == \A t \in Tasks : Unheard(t) => Known(t)

\* recovery works on the row it read, unless a person ended the task
TodoOK ==
    \A t \in Tasks :
        t \in todo \/ (pc = "resume" /\ act.task = t)
            => row[t] = snapshot[t] \/ ~Follows(row[t].state)

InboxGrows == \A i \in DOMAIN inbox : i \in DOMAIN inbox' /\ inbox'[i] = inbox[i]

LEMMA AppendGrows ==
    ASSUME NEW S, inbox \in Seq(S), NEW note \in S, inbox' = Append(inbox, note)
    PROVE  InboxGrows /\ \E i \in DOMAIN inbox' : inbox'[i] = note
<1>1. Len(inbox) + 1 \in DOMAIN inbox' /\ inbox'[Len(inbox) + 1] = note
  OBVIOUS
<1>2. InboxGrows BY DEF InboxGrows
<1>3. QED BY <1>1, <1>2

LEMMA NotedGrows ==
    ASSUME LedgerOK, NEW t \in Tasks, NEW state \in AgentStates,
           inbox' \in {inbox, Noted(t, state)}
    PROVE  InboxGrows
<1> DEFINE S == [task : Tasks, run : Nat, state : AgentStates]
           note == [task |-> t, run |-> pane[t].run, state |-> state]
<1>1. inbox \in Seq(S) /\ note \in S
  BY DEF LedgerOK, TypeOK
<1>2. inbox' = inbox \/ inbox' = Append(inbox, note) BY DEF Noted
<1> HIDE DEF S, note
<1>3. CASE inbox' = inbox BY <1>3 DEF InboxGrows
<1>4. CASE inbox' = Append(inbox, note) BY <1>1, <1>4, AppendGrows
<1>5. QED BY <1>2, <1>3, <1>4

\* whoever an attach finds done, it says so, and it hides nobody else
LEMMA AttachTells ==
    ASSUME NEW t \in Tasks, NEW said, Attach(t, said), UNCHANGED <<pane, sess, inbox>>
    PROVE  /\ Unheard(t)' => said = "Done"
           /\ \A u \in Tasks \ {t} : Unheard(u)' => Unheard(u)
<1>1. \A u \in Tasks : Session(u)' = Session(u) /\ DoneNote(u)' = DoneNote(u)
                       /\ Latest(u)' = Latest(u)
  BY DEF Session, DoneNote, Latest
<1>2. \A u \in Tasks \ {t} : Session(u) # Session(t) BY DEF Session
<1>3. CASE said = pane[t].state /\ strangers' = strangers \ {Session(t)}
           /\ missed' = missed \ {t}
  BY <1>1, <1>2, <1>3 DEF Unheard
<1>4. CASE strangers' = strangers \cup {Session(t)} /\ missed' = missed
  BY <1>1, <1>2, <1>4 DEF Unheard
<1>5. QED BY <1>3, <1>4 DEF Attach

\* a step makes an agent unheard only where its notification is read, where
\* the session changes, or where it is attached to
LEMMA UnheardKept ==
    ASSUME LedgerOK, Next \/ UNCHANGED vars, ~LoseMemory, ~HandleNote, ~RecoverTask,
           NEW t \in Tasks, ~((Reattach \/ Prepare \/ Launch) /\ t = act.task)
    PROVE  Unheard(t)' => Unheard(t)
<1> USE DEF dbVars, worldVars, streamVars, planVars, recVars, boundVars
<1> DEFINE Marks == /\ t \in missed => t \in missed'
                    /\ Session(t) \in strangers => Session(t) \in strangers'
           Kept == /\ pane'[t] = pane[t] \/ pane'[t].state = "gone"
                   /\ InboxGrows /\ Marks
<1>1. pane \in [Tasks -> [run : Nat, state : PaneStates]]
  BY DEF LedgerOK, TypeOK
<1>2. \A u \in Tasks : Gone(u) => pane'[t] = pane[t] \/ pane'[t].state = "gone"
  BY <1>1 DEF Gone
<1>3. pc \in Handlers => act.task \in Tasks BY DEF LedgerOK, HandlerOK
<1>4. InboxGrows \/ inbox' # inbox BY DEF InboxGrows
<1>5. \A u \in Tasks : inbox' \in {inbox, Noted(u, "Failed")} => InboxGrows
  BY NotedGrows DEF AgentStates
<1>6. ASSUME NEW event, Isolate(event) PROVE Kept
  BY <1>4, <1>6 DEF Isolate
<1>7. Kept \/ AgentMoves(t)
  <2>1. CASE Prepare \/ Launch
    BY <1>1, <1>3, <1>4, <2>1 DEF Prepare, Launch, Opens, Handlers, PCs
  <2>2. CASE ReleasePane \/ Subscribe \/ Complete
    <3>1. act.task \in Tasks
      BY <1>3, <2>2 DEF ReleasePane, Subscribe, Complete, Handlers, PCs
    <3>2. CASE Isolate("Complete") BY <1>6, <3>2
    <3>3. CASE ~Isolate("Complete")
      <4>1. /\ Gone(act.task) \/ pane' = pane
            /\ inbox' \in {inbox, Noted(act.task, "Failed")}
            /\ UNCHANGED <<strangers, missed>>
        BY <2>2, <3>3 DEF ReleasePane, Subscribe, Complete, Closes
      <4>2. QED BY <1>2, <1>5, <3>1, <4>1
    <3>4. QED BY <3>2, <3>3
  <2>3. CASE \/ Gather \/ PlanStep \/ PlanEnd \/ PassEnd \/ DispatchOne \/ ClaimWon
             \/ ClaimLater \/ Resubscribe \/ DispatchFresh \/ Bind
             \/ FollowAttached \/ Publish \/ Cycle \/ Start \/ RecoverSubscribe
             \/ RebuildSlots \/ TakeOver \/ RecoverEnd \/ UNCHANGED vars
    BY <1>4, <2>3 DEF Gather, PlanStep, PlanEnd, PassEnd, DispatchOne, ClaimWon,
                ClaimLater, Resubscribe, DispatchFresh, Bind, FollowAttached,
                Publish, Cycle, Start, RecoverSubscribe, RebuildSlots, TakeOver,
                RecoverEnd, vars
  <2>4. CASE \/ ClaimRefused \/ Reuse \/ Record \/ FailDispatch \/ AutoRetry
             \/ ApplyEvent \/ FailPublish
    BY <1>4, <1>6, <2>4 DEF ClaimRefused, Reuse, Record, FailDispatch, AutoRetry,
                            ApplyEvent, FailPublish
  <2>5. CASE Reattach
    <3>1. /\ act.task \in Tasks /\ UNCHANGED <<pane, sess, inbox>>
          /\ \E said \in PaneStates : Attach(act.task, said)
      BY <1>3, <2>5 DEF Reattach, Handlers, PCs
    <3>2. t \in Tasks \ {act.task} BY <2>5
    <3>3. Session(t) \in strangers => Session(t) \in strangers'
      BY <3>1, <3>2, AttachOwns DEF LedgerOK
    <3>4. t \in missed => t \in missed' BY <3>1, <3>2 DEF Attach
    <3>5. QED BY <1>4, <3>1, <3>3, <3>4
  <2>6. CASE PersonStep
    BY <1>4, <2>6 DEF PersonStep, CliWrites, Control
  <2>7. CASE AgentStep /\ ~AgentMoves(t)
    <3>1. PICK u \in Tasks : AgentMoves(u) \/ AgentExits(u) \/ StreamDrops(u)
      BY <2>7 DEF AgentStep
    <3>2. CASE AgentMoves(u)
      <4>1. u # t BY <2>7, <3>2
      <4>2. PICK to \in PaneStates :
              /\ <<pane[u].state, to>> \in
                   {<<"Idle", "Running">>, <<"Running", "WaitingInput">>,
                    <<"WaitingInput", "Running">>, <<"Running", "Done">>}
              /\ pane' = [pane EXCEPT ![u].state = to]
              /\ inbox' \in {inbox, Noted(u, to)}
              /\ strangers' = strangers
              /\ missed' \in {missed \cup {u}, missed \ {u}}
        BY <3>2 DEF AgentMoves
      <4>3. to \in AgentStates BY <4>2 DEF AgentStates
      <4>4. InboxGrows BY <4>2, <4>3, NotedGrows
      <4>5. QED BY <1>1, <4>1, <4>2, <4>4
    <3>3. CASE AgentExits(u)
      BY <1>2, <1>5, <3>3 DEF AgentExits, Closes
    <3>4. CASE StreamDrops(u)
      <4> DEFINE S == [task : Tasks, run : Nat, state : AgentStates]
      <4>1. PICK s \in streams :
              inbox' = Append(inbox, [task |-> u, run |-> s[2], state |-> "Failed"])
        BY <3>4 DEF StreamDrops
      <4>2. /\ [task |-> u, run |-> s[2], state |-> "Failed"] \in S
            /\ inbox \in Seq(S)
        BY DEF LedgerOK, TypeOK, AgentStates
      <4> HIDE DEF S
      <4>3. InboxGrows BY <4>1, <4>2, AppendGrows
      <4>4. QED BY <3>4, <4>3 DEF StreamDrops
    <3>5. QED BY <3>1, <3>2, <3>3, <3>4
  <2>8. QED BY <2>1, <2>2, <2>3, <2>4, <2>5, <2>6, <2>7 DEF Next, EngineStep, Crash
<1>8. Latest(t)' = Latest(t) BY OwnsKept
<1>9. DoneNote(t)' = DoneNote(t) /\ Session(t)' = Session(t)
  BY <1>8 DEF DoneNote, Session, Latest
<1>10. CASE AgentMoves(t)
  <2> DEFINE S == [task : Tasks, run : Nat, state : AgentStates]
  <2>1. PICK to \in PaneStates :
          /\ <<pane[t].state, to>> \in
               {<<"Idle", "Running">>, <<"Running", "WaitingInput">>,
                <<"WaitingInput", "Running">>, <<"Running", "Done">>}
          /\ pane' = [pane EXCEPT ![t].state = to]
          /\ LET told == Watched(t) /\ to \in Streamed
             IN  /\ told => Len(inbox) < MaxNotes
                 /\ inbox' = IF told THEN Noted(t, to) ELSE inbox
                 /\ missed' = IF to = "Done" /\ ~told THEN missed \cup {t}
                              ELSE missed \ {t}
    BY <1>10 DEF AgentMoves
  <2> SUFFICES ASSUME Unheard(t)' PROVE FALSE
    OBVIOUS
  <2> DEFINE note == [task |-> t, run |-> pane[t].run, state |-> to]
  <2>2. pane'[t].state = to /\ pane'[t].run = pane[t].run BY <1>1, <2>1
  <2>3. to = "Done" /\ pane[t].run = Latest(t) /\ t \notin missed'
    BY <1>8, <2>2 DEF Unheard
  <2>4. Watched(t) /\ Len(inbox) < MaxNotes /\ inbox' = Noted(t, to)
    BY <2>1, <2>3
  <2>5. inbox \in Seq(S) /\ note \in S
    <3>1. to \in AgentStates BY <2>1 DEF AgentStates
    <3>2. QED BY <1>1, <3>1 DEF LedgerOK, TypeOK
  <2>6. Len(inbox) # MaxNotes
    <3> HIDE DEF S
    <3>1. Len(inbox) \in Nat /\ MaxNotes \in Nat BY <2>5, BoundsAssumption
    <3>2. QED BY <2>4, <3>1
  <2>7. inbox' = Append(inbox, note) BY <2>4, <2>6 DEF Noted
  <2>8. note = DoneNote(t) BY <2>3 DEF DoneNote
  <2> HIDE DEF S, note
  <2>9. \E i \in DOMAIN inbox' : inbox'[i] = note BY <2>5, <2>7, AppendGrows
  <2>10. QED BY <1>9, <2>8, <2>9 DEF Unheard
<1>11. QED BY <1>7, <1>8, <1>9, <1>10 DEF Unheard, InboxGrows

\* the last event of a chain stays the last one until it is written
LEMMA LastStays ==
    ASSUME NEW S, NEW q \in Seq(S), q # <<>>
    PROVE  /\ Tail(q) # <<>> => Tail(q)[Len(Tail(q))] = q[Len(q)]
           /\ Tail(q) = <<>> => Head(q) = q[Len(q)]
<1>1. /\ Len(q) \in Nat \ {0} /\ Len(Tail(q)) = Len(q) - 1
      /\ \A i \in 1..Len(q) - 1 : Tail(q)[i] = q[i + 1]
  OBVIOUS
<1>2. Tail(q) = <<>> <=> Len(q) = 1 BY <1>1
<1>3. CASE Len(q) = 1 BY <1>2, <1>3
<1>4. CASE Len(q) # 1
  <2>1. Len(q) - 1 \in 1..Len(q) - 1 /\ Len(q) - 1 + 1 = Len(q) BY <1>1, <1>4
  <2>2. Tail(q)[Len(q) - 1] = q[Len(q)] BY <1>1, <2>1
  <2>3. QED BY <1>1, <1>2, <1>4, <2>2
<1>5. QED BY <1>3, <1>4

\* what an agent's being done leads to
LEMMA DoneEvents ==
    ASSUME NEW state
    PROVE  /\ AfterEvents(state, "Done") = "publish"
           /\ EventsFor(state, "Done") = <<>> =>
                ~AtWork(state)
           /\ EventsFor(state, "Done") # <<>> =>
                EventsFor(state, "Done")[Len(EventsFor(state, "Done"))] = "BeginPublish"
<1>1. AfterEvents(state, "Done") = "publish" BY DEF AfterEvents
<1>2. \/ EventsFor(state, "Done") = <<>> /\ ~AtWork(state)
      \/ EventsFor(state, "Done") = <<"Start", "BeginPublish">>
      \/ EventsFor(state, "Done") = <<"BeginPublish">>
      \/ EventsFor(state, "Done") = <<"ResumeInput", "BeginPublish">>
  BY DEF EventsFor, AtWork
<1>3. QED BY <1>1, <1>2

\* reacting to an agent that is done ends the work of its task
LEMMA ReactEnds ==
    ASSUME TypeOK, NEW t \in Tasks, NEW from, React(t, "Done", from),
           AtWork(row[t].state), row' = row
    PROVE  Ending(t)'
<1>1. /\ EventsFor(row[t].state, "Done") # <<>>
      /\ AfterEvents(row[t].state, "Done") = "publish"
  BY DoneEvents
<1>2. Follows(row[t].state) BY DEF AtWork, Follows
<1>3. /\ pc' = "apply"
      /\ act' = [Moving(t, row[t].version, from)
                   EXCEPT !.events = EventsFor(row[t].state, "Done"),
                          !.next = "publish"]
  BY <1>1, <1>2 DEF React
<1>4. act'.task = t /\ act'.next = "publish" BY <1>3 DEF Moving
<1>5. QED BY <1>3, <1>4 DEF Ending

(***************************************************************************)
(* The handler that knows of a finished agent does not drop it: it applies *)
(* the chain that leads to publishing, publishes, and ends the task.       *)
(***************************************************************************)
LEMMA EndingGoesOn ==
    ASSUME LedgerOK, RecoveryOK, FollowingOK, HeardOK,
           pc \in Handlers \ Dispatching, EngineStep, ~LoseMemory,
           NEW u \in Tasks, act.task = u, Unheard(u),
           <<u, Latest(u)>> \in routes', AtWork(row'[u].state)
    PROVE  Ending(u)'
<1> USE DEF dbVars, worldVars, streamVars, planVars, recVars, boundVars
<1>1. routes' \subseteq routes
  BY FollowingKeeps DEF KeepsFollowing
<1>2. ASSUME row' = row PROVE Ending(u)
  BY <1>1, <1>2 DEF HeardOK, Known
<1>3. ASSUME NEW event PROVE ~Isolate(event)
  <2>1. SUFFICES ASSUME Isolate(event) PROVE FALSE
    OBVIOUS
  <2>2. routes' = routes \ {s \in routes : s[1] = u}
    BY <2>1 DEF Isolate, Forget, RoutesOf
  <2>3. <<u, Latest(u)>>[1] = u OBVIOUS
  <2>4. QED BY <2>2, <2>3
<1>4. ASSUME NEW event \in {"Skip", "Fail", "Complete", "Retry"},
             NEW streak \in Nat
      PROVE  ~Write(event, streak)
  <2>1. SUFFICES ASSUME Write(event, streak) PROVE FALSE
    OBVIOUS
  <2>2. /\ Legal(row[u].state, event)
        /\ row'[u].state = Transition(row[u].state, event)
    BY <2>1, WriteEffect DEF LedgerOK
  <2>3. QED BY <2>2, FollowTargets DEF AtWork, Follows
<1>5. spent[u] \in Nat /\ spent[u] + 1 \in Nat BY DEF LedgerOK, TypeOK
<1>6. CASE Subscribe
  BY <1>2, <1>6 DEF Subscribe, Ending
<1>7. CASE FailDispatch \/ Complete \/ FailPublish
  BY <1>3, <1>4, <1>5, <1>7 DEF FailDispatch, Complete, FailPublish
<1>8. CASE AutoRetry
  BY <1>2, <1>3, <1>4, <1>5, <1>8 DEF AutoRetry, Ending
<1>9. CASE FollowAttached
  <2>1. row' = row /\ pc = "attached" /\ React(u, act.next, act.from)
    BY <1>9 DEF FollowAttached
  <2>2. act.next = "Done" BY <1>2, <2>1 DEF Ending
  <2>3. QED BY <2>1, <2>2, ReactEnds DEF LedgerOK
<1>10. CASE Publish
  BY <1>10 DEF Publish, Ending
<1>11. CASE ApplyEvent
  <2>1. /\ Write(Head(act.events), spent[u])
        /\ \/ /\ act' = [act EXCEPT !.ver = row'[act.task].version,
                                    !.events = Tail(act.events)]
              /\ \/ pc' = "apply" /\ act'.events # <<>>
                 \/ pc' = "publish" /\ act.next = "publish"
           \/ act.next # "publish" /\ Return
    BY <1>3, <1>11, ApplyEventEffect
  <2>2. pc = "apply" /\ act.events # <<>>
    BY <1>11 DEF ApplyEvent, LedgerOK, HandlerOK
  <2>3. act.next # "settle" /\ Head(act.events) \in Advances
    <3>1. act.next = "settle" => Head(act.events) = "Fail"
      BY <2>2 DEF LedgerOK, HandlerOK
    <3>2. act.next # "settle" => Head(act.events) \in Advances
      BY <2>2 DEF LedgerOK, HandlerOK
    <3>3. QED BY <1>4, <1>5, <2>1, <3>1, <3>2
  <2>4. /\ Legal(row[u].state, Head(act.events))
        /\ act.ver = row[u].version
    BY <2>1, <1>5, WriteEffect DEF LedgerOK
  <2>5. row[u].state # "publishing" BY <2>3, <2>4, AdvancedFrom
  <2>6. <<u, Latest(u)>> \in routes BY <1>1
  <2>7. act.from # "recover" BY <2>6 DEF FollowingOK, TakenOK
  <2>8. Follows(row[u].state)
    BY <2>2, <2>3, <2>4, <2>7 DEF FollowingOK, ApplyOK
  <2>9. AtWork(row[u].state) BY <2>5, <2>8 DEF Follows, AtWork
  <2>10. Ending(u) BY <2>6, <2>9 DEF HeardOK, Known
  <2>11. act.next = "publish" BY <2>2, <2>3, <2>10 DEF Ending
  <2>12. act'.task = u /\ act'.next = "publish" /\ pc' \in {"apply", "publish"}
    BY <2>1, <2>11 DEF LedgerOK, TypeOK, Acts
  <2>13. QED BY <2>12 DEF Ending
<1>12. ~RecoverSubscribe
  <2>1. act.from # "recover" BY <1>1 DEF FollowingOK, TakenOK
  <2>2. QED BY <2>1 DEF RecoverSubscribe, LedgerOK, HandlerOK
<1>13. ~(\/ Gather \/ PlanStep \/ PlanEnd \/ PassEnd \/ DispatchOne \/ ClaimWon
         \/ ClaimLater \/ ClaimRefused \/ Reattach \/ Resubscribe \/ Reuse
         \/ DispatchFresh \/ ReleasePane \/ Prepare \/ Launch \/ Bind \/ Record
         \/ HandleNote \/ Cycle \/ Start \/ RecoverTask \/ RebuildSlots
         \/ TakeOver \/ RecoverEnd)
  BY DEF Gather, PlanStep, PlanEnd, PassEnd, DispatchOne, ClaimWon, ClaimLater,
         ClaimRefused, Reattach, Resubscribe, Reuse, DispatchFresh, ReleasePane,
         Prepare, Launch, Bind, Record, HandleNote, Cycle, Start, RecoverTask,
         RebuildSlots, TakeOver, RecoverEnd, Handlers, Dispatching
<1>14. QED
  BY <1>6, <1>7, <1>8, <1>9, <1>10, <1>11, <1>12, <1>13 DEF EngineStep

\* what recovery does with the task it has in hand
LEMMA RecoverySteps ==
    ASSUME FromRecover, act.from = "recover", pc \in Handlers, EngineStep
    PROVE  \/ RecoverSubscribe /\ pc = "resume"
           \/ ApplyEvent /\ pc = "apply" /\ act.next = "resumed"
<1>1. pc = "resume" \/ (pc = "apply" /\ act.next = "resumed") BY DEF FromRecover
<1>2. RecoverSubscribe \/ ApplyEvent
  BY <1>1 DEF EngineStep, Gather, PlanStep, PlanEnd, PassEnd, DispatchOne,
         ClaimWon, ClaimLater, ClaimRefused, Reattach, Resubscribe, Reuse,
         DispatchFresh, Record, ReleasePane, Prepare, Launch, Bind, Subscribe,
         FailDispatch, AutoRetry, HandleNote, FollowAttached, Publish, Complete,
         FailPublish, Cycle, Start, RecoverTask, RebuildSlots, TakeOver, RecoverEnd
<1>3. QED BY <1>1, <1>2 DEF RecoverSubscribe, ApplyEvent

\* no handler goes on to recover a task: the loop of recovery does
LEMMA ResumeBegins ==
    ASSUME LedgerOK, SlotsOK, FromRecover, pc \in Handlers, EngineStep, ~LoseMemory
    PROVE  pc' # "resume"
<1> SUFFICES ASSUME pc' = "resume" PROVE FALSE
  OBVIOUS
<1>1. act'.from = "recover"
  BY LedgerStep DEF Next, LedgerOK, HandlerOK
<1>2. act.from = "recover"
  BY <1>1, OwnStep, NoActOK DEF MindsItsOwn, HandsOn, LetsGo, Return
<1>3. ~Return BY <1>1, NoActOK DEF Return
<1>4. CASE RecoverSubscribe BY <1>4 DEF RecoverSubscribe
<1>5. CASE ApplyEvent /\ ~Isolate(Head(act.events))
  BY <1>3, <1>5, ApplyEventEffect
<1>6. CASE Isolate(Head(act.events)) BY <1>3, <1>6 DEF Isolate
<1>7. QED BY <1>2, <1>4, <1>5, <1>6, RecoverySteps

\* a dispatch takes on nobody who is done without its knowing
LEMMA DispatchStartsFresh ==
    ASSUME LedgerOK, RecoveryOK, SlotsOK, FollowingOK, PaneOK, HeardOK,
           pc \in Dispatching, EngineStep, ~LoseMemory,
           NEW u \in Tasks, act.task = u, Unheard(u)'
    PROVE  /\ AtWork(row'[u].state) => Ending(u)'
           /\ pc' \notin {"bind", "record"}
           /\ pc' \in {"resubscribe", "reuse"} => act'.next = "Done"
<1> USE DEF dbVars, worldVars, streamVars, planVars, recVars, boundVars
<1>1. pc \in Handlers BY DEF Dispatching, Handlers, PCs
<1>2. ~Follows(row[u].state) BY DEF FollowingOK, DispatchingOK
<1>3. ASSUME NEW event, Isolate(event) PROVE row' = row
  BY <1>3 DEF Isolate
<1>4. ASSUME UNCHANGED <<pane, inbox, sess, strangers, missed>> PROVE Unheard(u)
  BY <1>4 DEF Unheard, DoneNote, Session, Latest
<1>5. ASSUME AtWork(row'[u].state) PROVE Ending(u)'
  <2>1. row' # row BY <1>2, <1>5 DEF AtWork, Follows
  <2>2. ASSUME NEW event \in {"Skip", "Fail"}, NEW streak \in Nat,
               Write(event, streak)
        PROVE  FALSE
    <3>1. /\ Legal(row[u].state, event)
          /\ row'[u].state = Transition(row[u].state, event)
      BY <2>2, WriteEffect DEF LedgerOK
    <3>2. QED BY <1>5, <3>1, FollowTargets DEF AtWork, Follows
  <2>3. pc \in {"reuse", "record"} BY <2>1, <2>2, DispatchWrites
  <2>4. Reuse \/ Record
    BY <2>3 DEF EngineStep, Gather, PlanStep, PlanEnd, PassEnd, DispatchOne,
         ClaimWon, ClaimLater, ClaimRefused, Reattach, Resubscribe, DispatchFresh,
         ReleasePane, Prepare, Launch, Bind, Subscribe, FailDispatch, AutoRetry,
         HandleNote, FollowAttached, ApplyEvent, Publish, Complete, FailPublish,
         Cycle, Start, RecoverTask, RecoverSubscribe, RebuildSlots, TakeOver,
         RecoverEnd
  <2>5. /\ UNCHANGED <<pane, inbox, sess, strangers, missed>>
        /\ pc = "record" \/ (pc = "reuse" /\ pc' = "attached" /\ act' = act)
    BY <1>3, <2>1, <2>4 DEF Reuse, Record
  <2>6. pc = "reuse" /\ act.next = "Done"
    BY <1>4, <2>5 DEF HeardOK, Known, Asking
  <2>7. QED BY <2>5, <2>6 DEF Ending
<1>6. ASSUME pc' \in Bound
      PROVE  pc' \in {"resubscribe", "reuse"} /\ act'.next = "Done"
  <2>1. \/ Launch /\ Opens(u, Latest(u)) /\ sess' = sess
        \/ Bind /\ pc = "bind"
        \/ /\ pc' = "resubscribe" /\ UNCHANGED <<pane, sess, inbox>>
           /\ \E said \in PaneStates :
                Attach(u, said) /\ act' = [act EXCEPT !.next = said]
        \/ Resubscribe /\ pc = "resubscribe" /\ pc' = "reuse"
    <3>1. Return => pc' \notin Dispatching BY <1>1, ReturnsOut
    <3>2. QED BY <1>6, <3>1, BindingSteps
  <2>2. ~(Launch /\ Opens(u, Latest(u)) /\ sess' = sess)
    BY DEF Opens, Unheard, LedgerOK, TypeOK
  <2>3. ~(Bind /\ pc = "bind")
    <3> SUFFICES ASSUME Bind, pc = "bind" PROVE FALSE
      OBVIOUS
    <3>1. ~Prepare /\ ~Launch /\ ~HandleNote /\ ~Reattach /\ ~RecoverTask
      BY DEF Prepare, Launch, HandleNote, Reattach, RecoverTask
    <3>2. Unheard(u) BY <3>1, UnheardKept DEF Next
    <3>3. QED BY <3>2 DEF HeardOK, Known
  <2>4. CASE /\ pc' = "resubscribe" /\ UNCHANGED <<pane, sess, inbox>>
             /\ \E said \in PaneStates :
                  Attach(u, said) /\ act' = [act EXCEPT !.next = said]
    <3>1. PICK said \in PaneStates :
            Attach(u, said) /\ act' = [act EXCEPT !.next = said]
      BY <2>4
    <3>2. said = "Done" BY <2>4, <3>1, AttachTells
    <3>3. act'.next = said BY <3>1 DEF LedgerOK, TypeOK, Acts
    <3>4. QED BY <2>4, <3>2, <3>3
  <2>5. CASE Resubscribe /\ pc = "resubscribe" /\ pc' = "reuse"
    <3>1. UNCHANGED <<pane, inbox, sess, strangers, missed, act>>
      BY <2>5 DEF Resubscribe
    <3>2. act.next = "Done" BY <1>4, <2>5, <3>1 DEF HeardOK, Known, Asking
    <3>3. QED BY <2>5, <3>1, <3>2
  <2>6. QED BY <2>1, <2>2, <2>3, <2>4, <2>5
<1>7. QED BY <1>5, <1>6 DEF Bound

\* recovery's last event is the one that begins publishing
LEMMA RecoversToPublishing ==
    ASSUME LedgerOK, RecoveryOK, FromRecover, TodoOK, HeardOK, act.from = "recover",
           pc \in Handlers, EngineStep, ~LoseMemory,
           NEW u \in Tasks, act.task = u, Unheard(u)
    PROVE  \/ /\ act'.task = u /\ act'.events[Len(act'.events)] = "BeginPublish"
              /\ resumed' = resumed
           \/ act' = NoAct /\ (u \in resumed' => ~AtWork(row'[u].state))
<1> USE DEF dbVars, worldVars, streamVars, planVars, recVars, boundVars
<1>1. CASE RecoverSubscribe /\ pc = "resume"
  <2> DEFINE state == snapshot[u].state
             events == EventsFor(state, "Done")
  <2>1. act.next = "Done" BY <1>1 DEF HeardOK, Known, Asking
  <2>2. /\ row' = row
        /\ \/ /\ events # <<>> /\ resumed' = resumed
              /\ act' = [act EXCEPT !.events = events, !.next = "resumed"]
           \/ /\ events = <<>> \/ resumed' = resumed
              /\ act' = NoAct /\ resumed' \subseteq resumed \cup {u}
           \/ act' = NoAct /\ resumed' = resumed
    BY <1>1, <2>1 DEF RecoverSubscribe
  <2>3. u \notin resumed BY DEF RecoveryOK
  <2>4. row[u] = snapshot[u] \/ ~Follows(row[u].state) BY <1>1 DEF TodoOK
  <2>5. events = <<>> => ~AtWork(row[u].state)
    BY <2>4, DoneEvents DEF AtWork, Follows
  <2>6. events # <<>> => events[Len(events)] = "BeginPublish" BY DoneEvents
  <2> HIDE DEF events
  <2>7. [act EXCEPT !.events = events, !.next = "resumed"].events = events
        /\ [act EXCEPT !.events = events, !.next = "resumed"].task = u
    BY DEF LedgerOK, TypeOK, Acts
  <2>8. QED BY <2>2, <2>3, <2>5, <2>6, <2>7
<1>2. CASE ApplyEvent /\ pc = "apply" /\ act.next = "resumed"
  <2> DEFINE S == Advances
  <2>1. ~Isolate(Head(act.events)) BY DEF Isolate
  <2>2. act.events \in Seq(S) /\ act.events # <<>>
    BY <1>2 DEF LedgerOK, HandlerOK
  <2>3. act.events[Len(act.events)] = "BeginPublish" BY <1>2 DEF HeardOK, Known
  <2> HIDE DEF S
  <2>4. /\ Write(Head(act.events), spent[u])
        /\ IF Tail(act.events) # <<>>
           THEN /\ act' = [act EXCEPT !.ver = row'[u].version,
                                      !.events = Tail(act.events)]
                /\ resumed' = resumed
           ELSE Return
    BY <1>2, <2>1 DEF ApplyEvent
  <2>5. CASE Tail(act.events) # <<>>
    <3>1. act'.task = u /\ act'.events = Tail(act.events)
      BY <2>4, <2>5 DEF LedgerOK, TypeOK, Acts
    <3>2. QED BY <2>2, <2>3, <2>4, <2>5, <3>1, LastStays
  <2>6. CASE Tail(act.events) = <<>>
    <3>1. Head(act.events) = "BeginPublish" BY <2>2, <2>3, <2>6, LastStays
    <3>2. spent[u] \in Nat BY DEF LedgerOK, TypeOK
    <3>3. /\ Legal(row[u].state, "BeginPublish")
          /\ row'[u].state = Transition(row[u].state, "BeginPublish")
      BY <2>4, <3>1, <3>2, WriteEffect DEF LedgerOK
    <3>4. row'[u].state = "publishing"
      <4> DEFINE from == row[u].state
                 to == Transition(from, "BeginPublish")
      <4>1. <<from, "BeginPublish", to>> \in Arrows BY <3>3, LegalArrow
      <4> HIDE DEF from, to
      <4>2. to = "publishing"
        BY <4>1 DEF Arrows, TerminalStates, NonTerminalStates
      <4>3. QED BY <3>3, <4>2 DEF from, to
    <3>5. QED BY <2>4, <2>6, <3>4 DEF Return, AtWork
  <2>7. QED BY <2>5, <2>6
<1>3. QED BY <1>1, <1>2, RecoverySteps

LEMMA HeardHandler ==
    ASSUME LedgerOK, RecoveryOK, SlotsOK, FollowingOK, PaneOK, FromRecover,
           TodoOK, HeardOK, pc \in Handlers, EngineStep, ~LoseMemory
    PROVE  HeardOK'
<1>1. PICK u \in Tasks : u = act.task
  BY DEF LedgerOK, HandlerOK
<1>2. /\ (HandsOn \/ LetsGo)
      /\ \A t \in Tasks \ {u} : row'[t] = row[t]
  BY <1>1, OwnStep DEF MindsItsOwn
<1>3. KeepsFollowing BY FollowingKeeps
<1>4. u \notin resumed /\ resumed \subseteq Tasks
      /\ \A t \in resumed' : t \in resumed \/ (act.from = "recover" /\ t = u)
  BY <1>1, <1>2 DEF HandsOn, LetsGo, RecoveryOK, LedgerOK, TypeOK
<1>5. \/ act'.task = u /\ act'.from = act.from
      \/ act'.task \notin Tasks /\ act'.from = "none"
  BY <1>1, <1>2, NoActOK, NoTaskAssumption DEF HandsOn, LetsGo, Return
<1>6. act.from = "recover" => pc \notin Dispatching BY DEF FromRecover, Dispatching
<1>7. ~HandleNote /\ ~RecoverTask BY DEF HandleNote, RecoverTask, Handlers
<1>8. Reattach \/ Prepare \/ Launch => pc \in Dispatching
  BY DEF Reattach, Prepare, Launch, Dispatching
<1>9. pc' # "resume" BY ResumeBegins
<1>10. pc' \in {"bind", "record"} \cup Asking => pc \in Dispatching
  BY <1>3, <1>9 DEF KeepsFollowing, Dispatching, Asking
<1>11. ASSUME NEW t \in Tasks, Unheard(t)' PROVE Known(t)'
  <2>1. CASE t # u
    <3>1. Unheard(t) /\ Latest(t)' = Latest(t)
      BY <1>1, <1>7, <1>11, <2>1, UnheardKept, OwnsKept DEF Next
    <3>2. <<t, Latest(t)>>[1] = t OBVIOUS
    <3>3. <<t, Latest(t)'>> \in routes' => <<t, Latest(t)>> \in routes
      BY <1>1, <1>3, <2>1, <3>1, <3>2 DEF KeepsFollowing
    <3>4. ~Ending(t) BY <1>1, <2>1 DEF Ending
    <3>5. row'[t] = row[t] /\ act'.task # t /\ (t \in resumed' => t \in resumed)
      BY <1>2, <1>4, <1>5, <2>1
    <3>6. QED BY <3>1, <3>3, <3>4, <3>5 DEF HeardOK, Known
  <2>2. CASE t = u /\ pc \in Dispatching
    <3>1. /\ AtWork(row'[u].state) => Ending(u)'
          /\ pc' \notin {"bind", "record"}
          /\ pc' \in Asking => act'.next = "Done"
      BY <1>1, <1>9, <1>11, <2>2, DispatchStartsFresh DEF Asking
    <3>2. act.from # "recover" BY <1>6, <2>2
    <3>3. QED BY <1>4, <1>5, <2>2, <3>1, <3>2 DEF Known
  <2>3. CASE t = u /\ pc \notin Dispatching
    <3>1. Unheard(u) /\ Latest(u)' = Latest(u)
      BY <1>1, <1>7, <1>8, <1>11, <2>3, UnheardKept, OwnsKept DEF Next
    <3>2. <<u, Latest(u)'>> \in routes' /\ AtWork(row'[u].state) => Ending(u)'
      BY <1>1, <2>3, <3>1, EndingGoesOn
    <3>3. pc' \notin {"bind", "record"} \cup Asking BY <1>10, <2>3
    <3>4. CASE act.from = "recover"
      <4>1. \/ /\ act'.task = u /\ act'.events[Len(act'.events)] = "BeginPublish"
               /\ resumed' = resumed
            \/ act' = NoAct /\ (u \in resumed' => ~AtWork(row'[u].state))
        BY <1>1, <3>1, <3>4, RecoversToPublishing
      <4>2. act' = NoAct => act'.from # "recover" BY NoActOK
      <4>3. QED BY <1>4, <2>3, <3>2, <3>3, <4>1, <4>2 DEF Known
    <3>5. CASE act.from # "recover"
      BY <1>4, <1>5, <2>3, <3>2, <3>3, <3>5 DEF Known
    <3>6. QED BY <3>4, <3>5
  <2>4. QED BY <2>1, <2>2, <2>3
<1>12. QED BY <1>11 DEF HeardOK

LEMMA TodoStep ==
    LedgerOK /\ VersionsOK /\ RecoveryOK /\ SlotsOK /\ FromRecover /\ TodoOK
        /\ [Next]_vars => TodoOK'
<1> SUFFICES ASSUME LedgerOK, VersionsOK, RecoveryOK, SlotsOK, FromRecover, TodoOK,
                    Next \/ UNCHANGED vars
             PROVE  TodoOK'
  OBVIOUS
<1> USE DEF dbVars, worldVars, streamVars, planVars, recVars, boundVars
<1>1. todo \subseteq Tasks BY DEF LedgerOK, TypeOK
<1>2. CASE LoseMemory BY <1>2, LoseMemoryEffect DEF TodoOK
<1>3. CASE EngineStep /\ pc \in Handlers /\ ~LoseMemory
  <2>1. /\ UNCHANGED <<snapshot, todo>>
        /\ \A t \in Tasks \ {act.task} : row'[t] = row[t]
    BY <1>3, OwnStep DEF MindsItsOwn
  <2>2. pc' # "resume" BY <1>3, ResumeBegins
  <2>3. QED BY <1>1, <2>1, <2>2 DEF TodoOK, RecoveryOK
<1>4. CASE EngineStep /\ pc \notin Handlers
  <2>1. row' = row /\ pc # "resume" BY <1>4, EngineWrites DEF Handlers, PCs
  <2>2. CASE Start
    BY <2>1, <2>2 DEF Start, TodoOK
  <2>3. CASE RecoverEnd
    BY <2>3 DEF RecoverEnd, RecoveryOK, TodoOK
  <2>4. CASE RecoverTask
    <3>1. PICK t \in todo :
            /\ todo' = todo \ {t} /\ snapshot' = snapshot
            /\ pc' = pc \/ act'.task = t
      BY <2>4 DEF RecoverTask, Moving
    <3>2. QED BY <2>1, <3>1 DEF TodoOK
  <2>5. CASE \/ Gather \/ PlanStep \/ PlanEnd \/ PassEnd \/ DispatchOne
             \/ HandleNote \/ Cycle \/ RebuildSlots \/ TakeOver
    <3>1. UNCHANGED <<snapshot, todo>> /\ pc' # "resume"
      BY <2>1, <2>5 DEF Gather, PlanStep, PlanEnd, PassEnd, DispatchOne,
               HandleNote, React, ReturnTo, Cycle, RebuildSlots, TakeOver
    <3>2. QED BY <2>1, <3>1 DEF TodoOK
  <2>6. ~(\/ ClaimWon \/ ClaimLater \/ ClaimRefused \/ Reattach \/ Resubscribe
          \/ Reuse \/ DispatchFresh \/ ReleasePane \/ Prepare \/ Launch
          \/ Bind \/ Record \/ Subscribe \/ FailDispatch \/ AutoRetry
          \/ FollowAttached \/ ApplyEvent \/ Publish \/ Complete
          \/ FailPublish \/ RecoverSubscribe)
    BY <1>4 DEF ClaimWon, ClaimLater, ClaimRefused, Reattach, Resubscribe,
                Reuse, DispatchFresh, ReleasePane, Prepare, Launch, Bind,
                Record, Subscribe, FailDispatch, AutoRetry, FollowAttached,
                ApplyEvent, Publish, Complete, FailPublish,
                RecoverSubscribe, Handlers, PCs
  <2>7. QED BY <1>4, <2>2, <2>3, <2>4, <2>5, <2>6 DEF EngineStep
<1>5. CASE PersonStep
  <2>1. PICK t \in Tasks : CliWrites(t) \/ Control(t) BY <1>5 DEF PersonStep
  <2>2. PICK event \in {"Cancel", "Retry", "Reopen"} :
          Legal(row[t].state, event) /\ Moves(t, event)
    BY <2>1, PersonLegal DEF CliWrites, Control, LedgerOK
  <2>3. /\ row'[t].state = Transition(row[t].state, event)
        /\ \A v \in Tasks \ {t} : row'[v] = row[v]
    BY <2>2, MovesEffect DEF LedgerOK
  <2>4. ~Follows(row'[t].state) BY <2>2, <2>3, FollowTargets
  <2>5. UNCHANGED <<snapshot, todo, act>> /\ (pc' = pc \/ pc' = "ready")
    BY <2>1 DEF CliWrites, Control
  <2>6. QED BY <1>1, <2>3, <2>4, <2>5 DEF TodoOK
<1>6. CASE AgentStep \/ UNCHANGED vars
  <2>1. UNCHANGED <<row, snapshot, todo, pc, act>>
    BY <1>6 DEF AgentStep, AgentMoves, AgentExits, StreamDrops, vars
  <2>2. QED BY <2>1 DEF TodoOK
<1>7. CASE Crash BY <1>2, <1>7 DEF Crash
<1>8. QED BY <1>2, <1>3, <1>4, <1>5, <1>6, <1>7 DEF Next

\* nothing is followed, recovered or in hand
LEMMA HeardIdle ==
    ASSUME routes' = {}, resumed' = {}, act' = NoAct
    PROVE  HeardOK'
<1>1. \A t \in Tasks : act'.task # t BY NoActOK, NoTaskAssumption
<1>2. QED BY <1>1 DEF HeardOK, Known

\* a step outside the handlers that takes nobody on
LEMMA HeardKept ==
    ASSUME LedgerOK, HeardOK, Next \/ UNCHANGED vars, ~LoseMemory, ~HandleNote,
           ~RecoverTask, ~Reattach, ~Prepare, ~Launch,
           routes' \subseteq routes, resumed' \subseteq resumed,
           \A t \in Tasks : row'[t] = row[t] \/ ~AtWork(row'[t].state),
           \/ act' = act /\ (pc' = pc \/ pc \notin Handlers)
           \/ pc \notin Handlers /\ act'.from # "recover",
           pc' \in {"bind", "record"} \cup Asking => pc' = pc
    PROVE  HeardOK'
<1>1. pc \notin Handlers => act = NoAct /\ act.task \notin Tasks /\ act.from = "none"
  BY NoActOK, NoTaskAssumption DEF LedgerOK, HandlerOK
<1>2. ASSUME NEW t \in Tasks, Unheard(t)' PROVE Known(t)'
  <2>1. Unheard(t) /\ Latest(t)' = Latest(t)
    BY <1>2, UnheardKept, OwnsKept
  <2>2. Known(t) BY <2>1 DEF HeardOK
  <2>3. pc \notin Handlers => ~Ending(t) BY <1>1 DEF Ending
  <2>4. act' = act /\ pc' = pc /\ Ending(t) => Ending(t)' BY DEF Ending
  <2>5. pc \notin Handlers => pc \notin {"bind", "record"} \cup Asking
    BY DEF Handlers, PCs, Asking
  <2>6. QED BY <1>1, <2>1, <2>2, <2>3, <2>4, <2>5 DEF Known
<1>3. QED BY <1>2 DEF HeardOK

\* reading a notification: whoever it reports done is ended
LEMMA HeardNote ==
    ASSUME LedgerOK, RecoveryOK, HeardOK, HandleNote
    PROVE  HeardOK'
<1> USE DEF dbVars, worldVars, streamVars, planVars, recVars, boundVars
<1> DEFINE S == [task : Tasks, run : Nat, state : AgentStates]
<1>1. /\ UNCHANGED <<row, sess, pane, strangers, missed, routes, resumed>>
      /\ inbox' = Tail(inbox) /\ inbox # <<>> /\ pc = "idle"
  BY DEF HandleNote
<1>2. inbox \in Seq(S) BY DEF LedgerOK, TypeOK
<1> HIDE DEF S
<1>3. \A i \in DOMAIN inbox :
        i = 1 \/ \E j \in DOMAIN inbox' : inbox'[j] = inbox[i]
  <2>1. /\ DOMAIN inbox = 1..Len(inbox) /\ DOMAIN inbox' = 1..Len(inbox) - 1
        /\ Len(inbox) \in Nat
        /\ \A j \in 1..Len(inbox) - 1 : inbox'[j] = inbox[j + 1]
    BY <1>1, <1>2
  <2>2. ASSUME NEW i \in 1..Len(inbox), i # 1
        PROVE  i - 1 \in 1..Len(inbox) - 1 /\ i - 1 + 1 = i
    BY <2>1, <2>2
  <2>3. QED BY <2>1, <2>2
<1>4. inbox[1] = Head(inbox) BY <1>1, <1>2
<1>5. pc \notin Handlers /\ ~InRecovery
  <2>1. pc \notin Handlers BY <1>1 DEF Handlers
  <2>2. act.from = "none" BY <2>1, NoActOK DEF LedgerOK, HandlerOK
  <2>3. QED BY <1>1, <2>1, <2>2 DEF InRecovery
<1>6. resumed = {} /\ act.task \notin Tasks
  BY <1>5, NoActOK, NoTaskAssumption DEF RecoveryOK, LedgerOK, HandlerOK
<1>7. \/ pc' = "ready" /\ act' = NoAct
      \/ pc' \in {"publish", "apply"} /\ act'.from = "event"
  BY DEF HandleNote, React, ReturnTo, Moving
<1>8. act'.from # "recover" /\ pc' \notin {"bind", "record"} \cup Asking
  BY <1>7, NoActOK DEF Asking
<1>9. ASSUME NEW t \in Tasks, Unheard(t)', <<t, Latest(t)>> \in routes,
             AtWork(row[t].state)
      PROVE  Ending(t)'
  <2>1. ~Ending(t) BY <1>6 DEF Ending
  <2>2. ~Unheard(t) BY <1>9, <2>1 DEF HeardOK, Known
  <2>3. PICK i \in DOMAIN inbox : inbox[i] = DoneNote(t)
    BY <1>1, <1>9, <2>2 DEF Unheard, Session, Latest
  <2>4. DoneNote(t)' = DoneNote(t) BY <1>1 DEF DoneNote, Latest
  <2>5. i = 1 BY <1>3, <1>9, <2>3, <2>4 DEF Unheard
  <2>6. Head(inbox) = DoneNote(t) BY <1>4, <2>3, <2>5
  <2>7. React(t, "Done", "event") BY <1>9, <2>6 DEF HandleNote, DoneNote
  <2>8. QED BY <1>1, <1>9, <2>7, ReactEnds DEF LedgerOK
<1>10. \A t \in Tasks : Latest(t)' = Latest(t) BY <1>1 DEF Latest
<1>11. QED BY <1>1, <1>6, <1>8, <1>9, <1>10 DEF HeardOK, Known

\* recovery asks the agent, and goes on with what it was told
LEMMA HeardRecovered ==
    ASSUME LedgerOK, RecoveryOK, FollowingOK, HeardOK, RecoverTask
    PROVE  HeardOK'
<1> USE DEF dbVars, worldVars, streamVars, planVars, recVars, boundVars
<1>1. UNCHANGED <<row, sess, pane, inbox, routes, resumed>> /\ pc = "recover"
  BY DEF RecoverTask
<1>2. routes' = {} BY <1>1 DEF FollowingOK, TakenOK
<1>3. act = NoAct BY <1>1 DEF LedgerOK, HandlerOK, Handlers
<1>4. \A v \in Tasks : act.task # v BY <1>3, NoActOK, NoTaskAssumption
<1>5. PICK t \in todo :
        \/ UNCHANGED <<pc, act, strangers, missed>>
        \/ \E said \in PaneStates :
             /\ Attach(t, said) /\ pc' = "resume"
             /\ act' = [Moving(t, snapshot[t].version, "recover")
                          EXCEPT !.next = said]
  BY DEF RecoverTask
<1>6. t \in Tasks /\ t \notin resumed BY DEF LedgerOK, TypeOK, RecoveryOK
<1>7. CASE UNCHANGED <<pc, act, strangers, missed>>
  <2>1. \A v \in Tasks : Unheard(v)' => Unheard(v)
    BY <1>1, <1>7 DEF Unheard, DoneNote, Session, Latest
  <2>2. QED BY <1>1, <1>2, <1>4, <1>7, <2>1 DEF HeardOK, Known
<1>8. ASSUME NEW said \in PaneStates, Attach(t, said), pc' = "resume",
             act' = [Moving(t, snapshot[t].version, "recover")
                       EXCEPT !.next = said]
      PROVE  HeardOK'
  <2>1. act'.task = t /\ act'.next = said BY <1>8 DEF Moving
  <2>2. /\ Unheard(t)' => said = "Done"
        /\ \A v \in Tasks \ {t} : Unheard(v)' => Unheard(v)
    BY <1>1, <1>6, <1>8, AttachTells
  <2>3. QED BY <1>1, <1>2, <1>6, <1>8, <2>1, <2>2 DEF HeardOK, Known
<1>9. QED BY <1>5, <1>7, <1>8

\* the takeover follows again who resumed
LEMMA HeardTakenOver ==
    ASSUME LedgerOK, HeardOK, TakeOver
    PROVE  HeardOK'
<1> USE DEF dbVars, worldVars, streamVars, planVars, recVars, boundVars
<1>1. UNCHANGED <<row, sess, pane, inbox, strangers, missed>> /\ pc = "takeover"
  BY DEF TakeOver
<1>2. PICK t \in resumed :
        /\ resumed' = resumed \ {t}
        /\ routes' = routes \cup {<<t, Latest(t)>>}
        /\ \/ pc' = "publish" /\ act'.from = "takeover"
           \/ UNCHANGED <<pc, act>>
  BY DEF TakeOver, Moving
<1>3. act.from = "none" /\ act.task \notin Tasks
  BY <1>1, NoActOK, NoTaskAssumption DEF LedgerOK, HandlerOK, Handlers
<1>4. pc' \notin {"bind", "record"} \cup Asking /\ act'.from # "recover"
  BY <1>1, <1>2, <1>3 DEF Asking
<1>5. \A v \in Tasks : (Unheard(v)' <=> Unheard(v)) /\ Latest(v)' = Latest(v)
  BY <1>1 DEF Unheard, DoneNote, Session, Latest
<1>6. ASSUME NEW v \in Tasks, Unheard(v), <<v, Latest(v)>> \in routes'
      PROVE  ~AtWork(row[v].state)
  <2>1. CASE v = t BY <1>2, <1>6, <2>1 DEF HeardOK, Known
  <2>2. CASE v # t
    <3>1. <<v, Latest(v)>> \in routes BY <1>2, <1>6, <2>2
    <3>2. ~Ending(v) BY <1>3 DEF Ending
    <3>3. QED BY <1>6, <3>1, <3>2 DEF HeardOK, Known
  <2>3. QED BY <2>1, <2>2
<1>7. QED BY <1>1, <1>2, <1>4, <1>5, <1>6 DEF HeardOK, Known

LEMMA HeardStep ==
    LedgerOK /\ RecoveryOK /\ SlotsOK /\ FollowingOK /\ PaneOK
        /\ FromRecover /\ TodoOK /\ HeardOK /\ [Next]_vars => HeardOK'
<1> SUFFICES ASSUME LedgerOK, RecoveryOK, SlotsOK, FollowingOK, PaneOK,
                    FromRecover, TodoOK, HeardOK, Next \/ UNCHANGED vars
             PROVE  HeardOK'
  OBVIOUS
<1> USE DEF dbVars, worldVars, streamVars, planVars, recVars, boundVars
<1>1. CASE LoseMemory
  BY <1>1, LoseMemoryEffect, HeardIdle
<1>2. CASE EngineStep /\ pc \in Handlers /\ ~LoseMemory
  BY <1>2, HeardHandler
<1>3. CASE HandleNote BY <1>3, HeardNote
<1>4. CASE RecoverTask BY <1>4, HeardRecovered
<1>5. CASE EngineStep /\ pc \notin Handlers
           /\ ~LoseMemory /\ ~HandleNote /\ ~RecoverTask
  <2>1. ~(\/ ClaimWon \/ ClaimLater \/ ClaimRefused \/ Reattach \/ Resubscribe
          \/ Reuse \/ DispatchFresh \/ ReleasePane \/ Prepare \/ Launch
          \/ Bind \/ Record \/ Subscribe \/ FailDispatch \/ AutoRetry
          \/ FollowAttached \/ ApplyEvent \/ Publish \/ Complete
          \/ FailPublish \/ RecoverSubscribe)
    BY <1>5 DEF ClaimWon, ClaimLater, ClaimRefused, Reattach, Resubscribe,
                Reuse, DispatchFresh, ReleasePane, Prepare, Launch, Bind,
                Record, Subscribe, FailDispatch, AutoRetry, FollowAttached,
                ApplyEvent, Publish, Complete, FailPublish,
                RecoverSubscribe, Handlers, PCs
  <2>2. row' = row BY <1>5, <2>1, EngineWrites
  <2>3. CASE TakeOver BY <2>3, HeardTakenOver
  <2>4. CASE Gather \/ PlanStep \/ PlanEnd \/ PassEnd \/ Cycle \/ Start
             \/ RebuildSlots \/ RecoverEnd \/ DispatchOne
    <3>1. /\ UNCHANGED <<routes, resumed>>
          /\ pc' \notin {"bind", "record"} \cup Asking
          /\ act' = act \/ act'.from = "plan"
      BY <2>4 DEF Gather, PlanStep, PlanEnd, PassEnd, Cycle, Start, RebuildSlots,
                  RecoverEnd, DispatchOne, Moving, Asking
    <3>2. QED BY <1>5, <2>1, <2>2, <3>1, HeardKept
  <2>5. QED BY <1>5, <2>1, <2>3, <2>4 DEF EngineStep
<1>6. CASE PersonStep /\ ~LoseMemory
  <2>1. PICK t \in Tasks : CliWrites(t) \/ Control(t) BY <1>6 DEF PersonStep
  <2>2. PICK event \in {"Cancel", "Retry", "Reopen"} :
          Legal(row[t].state, event) /\ Moves(t, event)
    BY <2>1, PersonLegal DEF CliWrites, Control, LedgerOK
  <2>3. /\ row'[t].state = Transition(row[t].state, event)
        /\ \A v \in Tasks \ {t} : row'[v] = row[v]
    BY <2>2, MovesEffect DEF LedgerOK
  <2>4. ~Follows(row'[t].state) BY <2>2, <2>3, FollowTargets
  <2>5. /\ UNCHANGED <<resumed, act>> /\ routes' \subseteq routes
        /\ \/ pc' = pc
           \/ pc = "idle" /\ pc' = "ready"
    BY <2>1 DEF CliWrites, Control, Forget
  <2>6. ~HandleNote /\ ~RecoverTask /\ ~Reattach /\ ~Prepare /\ ~Launch
    <3>1. row' # row
      <4>1. row[t].version \in Nat /\ row'[t].version = row[t].version + 1
        BY <2>2, MovesEffect DEF LedgerOK, TypeOK, RowRecords
      <4>2. QED BY <4>1
    <3>2. QED BY <3>1 DEF HandleNote, RecoverTask, Reattach, Prepare, Launch
  <2>7. \A v \in Tasks : row'[v] = row[v] \/ ~AtWork(row'[v].state)
    BY <2>3, <2>4 DEF AtWork, Follows
  <2>8. pc = "idle" => pc \notin Handlers BY DEF Handlers
  <2>9. pc' \in {"bind", "record"} \cup Asking => pc' = pc
    BY <2>5 DEF Asking
  <2>10. QED BY <1>6, <2>5, <2>6, <2>7, <2>8, <2>9, HeardKept
<1>7. CASE (AgentStep \/ UNCHANGED vars) /\ ~LoseMemory /\ ~HandleNote /\ ~RecoverTask
  <2>1. UNCHANGED <<resumed, act, routes, row, pc>>
    BY <1>7 DEF AgentStep, AgentMoves, AgentExits, StreamDrops, vars
  <2>2. ~Reattach /\ ~Prepare /\ ~Launch
    BY <2>1 DEF Reattach, Prepare, Launch
  <2>3. QED BY <1>7, <2>1, <2>2, HeardKept
<1>8. CASE Crash BY <1>1, <1>8 DEF Crash
<1>9. QED BY <1>1, <1>2, <1>3, <1>4, <1>5, <1>6, <1>7, <1>8 DEF Next

(***************************************************************************)
(* No report of a finished agent is lost, for any number of tasks, unread  *)
(* notifications, restarts and cancels, and whatever the streams carry:    *)
(* while the engine follows the session of an agent whose end was told, or *)
(* found by an attach, the notification waits in the inbox, or the handler *)
(* that has the news is on its way to end the task - across the two        *)
(* requests of a re-attachment and the takeover.  So the only ends that go *)
(* unheard are those that fall where nothing streams them, and that no     *)
(* attach finds after.                                                     *)
(***************************************************************************)
THEOREM EngineNoReportIsLost == Spec => []NoReportIsLost
<1> DEFINE Inv == /\ LedgerOK /\ VersionsOK /\ RecoveryOK /\ SlotsOK
                  /\ FollowingOK /\ PaneOK /\ UpOK /\ TodoOK /\ HeardOK
<1>1. Init => Inv
  <2>1. Init => TodoOK /\ HeardOK
    <3>1. ASSUME Init PROVE TodoOK /\ HeardOK
      <4>1. routes = {} /\ resumed = {} /\ act = NoAct /\ todo = {}
        BY <3>1 DEF Init
      <4>2. \A t \in Tasks : act.task # t BY <4>1, NoActOK, NoTaskAssumption
      <4>3. QED BY <4>1, <4>2 DEF TodoOK, HeardOK, Known
    <3>2. QED BY <3>1
  <2>2. QED BY <2>1, LedgerInit, VersionsInit, SlotsInit, FollowingInit, PaneInit, UpInit
<1>2. Inv /\ [Next]_vars => Inv'
  <2>1. UpOK => FromRecover BY DEF UpOK, FromRecover
  <2>2. QED BY <2>1, LedgerStep, VersionsStep, RecoveryStep, SlotsStep,
               FollowingStep, PaneStep, UpStep, TodoStep, HeardStep
<1>3. Inv => NoReportIsLost
  <2>1. \A t \in Tasks : Finished(t) => /\ pane[t] = [run |-> Latest(t), state |-> "Done"]
                                        /\ <<t, Latest(t)>> \in routes
                                        /\ Session(t) \notin strangers
                                        /\ AtWork(row[t].state)
    BY DEF Finished, Session, AtWork
  <2>2. HeardOK => NoReportIsLost
    BY <2>1 DEF HeardOK, Known, Unheard, NoReportIsLost
  <2>3. QED BY <2>2
<1>4. QED BY <1>1, <1>2, <1>3, PTL DEF Spec

-----------------------------------------------------------------------------
(***************************************************************************)
(* Passes.  A pass ends because what waits in it only becomes less: tasks  *)
(* enter it when it begins, and leave it when they are in hand.            *)
(***************************************************************************)
LEMMA WaitingShrinks ==
    ASSUME LedgerOK, RecoveryOK, SlotsOK, FollowingOK, Next \/ UNCHANGED vars,
           ~Gather, NEW t \in Tasks, Waits(t)'
    PROVE  Waits(t)
<1> USE DEF dbVars, worldVars, streamVars, planVars, recVars, boundVars
<1>1. CASE UNCHANGED <<untried, plan>> BY <1>1 DEF Waits, Planned
<1>2. CASE LoseMemory BY <1>2 DEF LoseMemory, Waits, Planned
<1>3. CASE EngineStep /\ pc \in Handlers /\ ~LoseMemory
  BY <1>1, <1>3, OwnStep, FollowingKeeps DEF MindsItsOwn, KeepsFollowing
<1>4. CASE PlanStep
  <2>1. PICK u \in untried :
          /\ untried' = untried \ {u}
          /\ plan' = Append(plan, u) \/ plan' = plan
    BY <1>4 DEF PlanStep
  <2>2. u \in Tasks /\ plan \in Seq(Tasks) BY DEF LedgerOK, TypeOK
  <2>3. \A v : v \in untried' => v \in untried BY <2>1
  <2>4. CASE plan' = plan BY <2>3, <2>4 DEF Waits, Planned
  <2>5. CASE plan' = Append(plan, u)
    <3>1. Planned(t)' => Planned(t) \/ t = u
      BY <2>2, <2>5 DEF Planned
    <3>2. QED BY <2>1, <2>3, <3>1 DEF Waits
  <2>6. QED BY <2>1, <2>4, <2>5
<1>5. CASE DispatchOne
  <2>1. plan' = Tail(plan) /\ plan # <<>> /\ plan \in Seq(Tasks) /\ untried' = untried
    BY <1>5 DEF DispatchOne, LedgerOK, TypeOK
  <2>2. Planned(t)' => Planned(t) BY <2>1 DEF Planned
  <2>3. QED BY <2>1, <2>2 DEF Waits
<1>6. CASE EngineStep /\ pc \notin Handlers /\ ~PlanStep /\ ~DispatchOne
  <2>1. ~(\/ ClaimWon \/ ClaimLater \/ ClaimRefused \/ Reattach \/ Resubscribe
          \/ Reuse \/ DispatchFresh \/ ReleasePane \/ Prepare \/ Launch
          \/ Bind \/ Record \/ Subscribe \/ FailDispatch \/ AutoRetry
          \/ FollowAttached \/ ApplyEvent \/ Publish \/ Complete
          \/ FailPublish \/ RecoverSubscribe)
    BY <1>6 DEF ClaimWon, ClaimLater, ClaimRefused, Reattach, Resubscribe,
                Reuse, DispatchFresh, ReleasePane, Prepare, Launch, Bind,
                Record, Subscribe, FailDispatch, AutoRetry, FollowAttached,
                ApplyEvent, Publish, Complete, FailPublish,
                RecoverSubscribe, Handlers, PCs
  <2>2. QED
    BY <1>1, <1>6, <2>1 DEF EngineStep, PlanEnd, PassEnd, HandleNote, Cycle,
             Start, RecoverTask, RebuildSlots, TakeOver, RecoverEnd
<1>7. CASE PersonStep \/ AgentStep \/ Crash \/ UNCHANGED vars
  BY <1>1, <1>2, <1>7 DEF PersonStep, CliWrites, Control, AgentStep, AgentMoves,
                          AgentExits, StreamDrops, Crash, vars
<1>8. QED BY <1>2, <1>3, <1>4, <1>5, <1>6, <1>7 DEF Next

(***************************************************************************)
(* For any number of tasks, a pass over the ready tasks tries each of them *)
(* at most once, whatever fails and is requeued meanwhile: with a finite   *)
(* number of tasks this is the variant that PassesEnd counts down.         *)
(***************************************************************************)
THEOREM EngineTriedOncePerPass == Spec => TriedOncePerPass
<1> DEFINE Inv == LedgerOK /\ VersionsOK /\ RecoveryOK /\ SlotsOK /\ FollowingOK
<1>1. Init => Inv BY LedgerInit, VersionsInit, SlotsInit, FollowingInit
<1>2. Inv /\ [Next]_vars => Inv'
  BY LedgerStep, VersionsStep, RecoveryStep, SlotsStep, FollowingStep
<1>3. Inv /\ [Next]_vars
        => [\A t \in Tasks :
              Waits(t)' /\ ~Gather => Waits(t) /\ act.task # t]_vars
  <2>1. SUFFICES ASSUME Inv, [Next]_vars, NEW t \in Tasks, Waits(t)', ~Gather
                 PROVE  Waits(t) /\ act.task # t
    OBVIOUS
  <2>2. Waits(t) BY <2>1, WaitingShrinks
  <2>3. act.task # t
    <3>1. CASE Planned(t) BY <2>1, <3>1 DEF FollowingOK, PlanOK
    <3>2. CASE t \in untried
      <4>1. pc = "planning" BY <2>1, <3>2 DEF FollowingOK, PlanOK
      <4>2. act = NoAct BY <2>1, <4>1 DEF LedgerOK, HandlerOK, Handlers
      <4>3. QED BY <4>2, NoActOK, NoTaskAssumption
    <3>3. QED BY <2>2, <3>1, <3>2 DEF Waits
  <2>4. QED BY <2>2, <2>3
<1> HIDE DEF Inv
<1>4. QED BY <1>1, <1>2, <1>3, PTL DEF Spec, TriedOncePerPass
=============================================================================
