-------------------------- MODULE SupervisionProofs --------------------------
(***************************************************************************)
(* Proofs about plugin supervision, for any plugins, queue of tasks, slots *)
(* and restart budget.                                                     *)
(***************************************************************************)
EXTENDS Supervision, SequenceTheorems, FiniteSetTheorems, FunctionTheorems,
        WellFoundedInduction, TLAPS

Events == [kind : Kinds, plugin : Plugins]

(***************************************************************************)
(* The type of what the proofs are about; the attempts decide only between *)
(* a timer and an escalation, which both are accounted for.                *)
(***************************************************************************)
Typed ==
    /\ proc \in [Plugins -> {"live", "dying", "dead"}]
    /\ events \in Seq(Events)
    /\ timers \in [Plugins -> Nat]
    /\ launches \in [Plugins -> Seq(Nat)]
    /\ abandoned \subseteq Plugins
    /\ state \in [Tasks -> {"queued", "dispatched", "done", "failed", "skipped"}]
    /\ streak \in [Tasks -> Nat]
    /\ route \in [Tasks -> {"none", "current", "old"}]
    /\ holders \subseteq Tasks
    /\ pc \in {"idle", "planning", "pass", "claim", "launch", "subscribe",
               "teardown", "stopped"}
    /\ pc = "teardown" => hand \in Plugins
    /\ pc \in {"claim", "launch", "subscribe"} => hand \in Tasks
    /\ plan \subseteq 1..Len(Queue)

-----------------------------------------------------------------------------
(***************************************************************************)
(* Counting in the channel.                                                *)
(***************************************************************************)

Occ(q, x) == Cardinality({i \in 1..Len(q) : q[i] = x})

LEMMA OccIsNat ==
    ASSUME NEW q \in Seq(Events), NEW x
    PROVE  Occ(q, x) \in Nat /\ IsFiniteSet({i \in 1..Len(q) : q[i] = x})
<1>1. Len(q) \in Nat BY LenProperties
<1>2. IsFiniteSet(1..Len(q)) BY <1>1, FS_Interval
<1>3. {i \in 1..Len(q) : q[i] = x} \in SUBSET (1..Len(q)) OBVIOUS
<1>4. IsFiniteSet({i \in 1..Len(q) : q[i] = x}) BY <1>2, <1>3, FS_Subset
<1>5. QED BY <1>4, FS_CardinalityType DEF Occ

LEMMA OccAppend ==
    ASSUME NEW q \in Seq(Events), NEW e \in Events, NEW x
    PROVE  Occ(Append(q, e), x) = Occ(q, x) + (IF e = x THEN 1 ELSE 0)
<1> DEFINE p == Append(q, e)
           n == Len(q)
           A == {i \in 1..n : q[i] = x}
           B == {i \in 1..Len(p) : p[i] = x}
<1>1. /\ n \in Nat /\ Len(p) = n + 1
      /\ \A i \in 1..n : p[i] = q[i]
      /\ p[n + 1] = e
  BY AppendProperties, LenProperties
<1>2. IsFiniteSet(A) /\ Cardinality(A) \in Nat BY OccIsNat DEF Occ
<1>3. n + 1 \notin A BY <1>1
<1>4. CASE e = x
  <2>1. B = A \cup {n + 1} BY <1>1, <1>4
  <2>2. Cardinality(B) = Cardinality(A) + 1 BY <1>2, <1>3, <2>1, FS_AddElement
  <2>3. Occ(p, x) = Cardinality(B) /\ Occ(q, x) = Cardinality(A) BY DEF Occ
  <2> HIDE DEF A, B, p
  <2>4. QED BY <1>4, <2>2, <2>3 DEF p
<1>5. CASE e # x
  <2>1. B = A BY <1>1, <1>5
  <2>2. Occ(p, x) = Occ(q, x) BY <2>1 DEF Occ
  <2>3. Occ(q, x) \in Nat BY OccIsNat
  <2> HIDE DEF A, B, p
  <2>4. QED BY <1>5, <2>2, <2>3 DEF p
<1>6. QED BY <1>4, <1>5

LEMMA OccTail ==
    ASSUME NEW q \in Seq(Events), q # <<>>, NEW x
    PROVE  /\ Tail(q) \in Seq(Events) /\ Head(q) \in Events
           /\ Occ(q, x) = Occ(Tail(q), x) + (IF Head(q) = x THEN 1 ELSE 0)
<1> DEFINE p == Tail(q)
           n == Len(q)
           A == {i \in 1..n : q[i] = x}
           B == {i \in 1..Len(p) : p[i] = x}
           later == [i \in B |-> i + 1]
<1>1. /\ n \in Nat /\ Len(p) = n - 1 /\ n > 0 /\ Head(q) = q[1]
      /\ \A i \in 1..(n - 1) : p[i] = q[i + 1]
      /\ p \in Seq(Events) /\ Head(q) \in Events
  BY HeadTailProperties, LenProperties
<1>2. IsFiniteSet(A) /\ Cardinality(A) \in Nat BY OccIsNat DEF Occ
<1>3. IsFiniteSet(B) /\ Cardinality(B) \in Nat BY <1>1, OccIsNat DEF Occ
<1>4. \A i \in B : i + 1 \in A \ {1} BY <1>1
<1>5. \A j \in A \ {1} : j - 1 \in B /\ (j - 1) + 1 = j BY <1>1
<1>6. later \in [B -> A \ {1}] BY <1>4
<1>7. \A i, j \in B : later[i] = later[j] => i = j BY <1>1
<1>8. \A j \in A \ {1} : \E i \in B : later[i] = j BY <1>5
<1> HIDE DEF later, A, B
<1>9. ExistsBijection(B, A \ {1}) BY <1>6, <1>7, <1>8, Fun_IsBij, Fun_ExistsBij
<1>10. Cardinality(A \ {1}) = Cardinality(B) BY <1>3, <1>9, FS_Bijection
<1>11. Cardinality(A) = Cardinality(A \ {1}) + (IF 1 \in A THEN 1 ELSE 0)
  <2>1. Cardinality(A \ {1}) = IF 1 \in A THEN Cardinality(A) - 1 ELSE Cardinality(A)
    BY <1>2, FS_RemoveElement
  <2>2. QED BY <1>2, <2>1
<1>12. 1 \in A <=> Head(q) = x BY <1>1 DEF A
<1>13. QED BY <1>1, <1>10, <1>11, <1>12 DEF Occ, A, B

-----------------------------------------------------------------------------
(***************************************************************************)
(* Types.                                                                  *)
(***************************************************************************)

LEMMA EventTyped ==
    ASSUME NEW p \in Plugins
    PROVE  \A kind \in Kinds : Event(kind, p) \in Events
BY DEF Event, Events

\* what is appended to the channel, and what is taken from it
LEMMA Sends ==
    ASSUME Typed, NEW p \in Plugins, NEW kind \in Kinds,
           events' = Append(events, Event(kind, p))
    PROVE  events' \in Seq(Events)
BY EventTyped, AppendProperties DEF Typed

LEMMA Takes ==
    ASSUME Typed, NEW kind, Taking(kind)
    PROVE  /\ events' \in Seq(Events) /\ events \in Seq(Events) /\ events # <<>>
           /\ events' = Tail(events) /\ Head(events) \in Events
           /\ Head(events).kind = kind /\ Head(events).plugin \in Plugins
           /\ Head(events) = Event(kind, Head(events).plugin)
<1>1. events \in Seq(Events) /\ events # <<>> /\ events' = Tail(events)
      /\ Head(events).kind = kind
  BY DEF Typed, Taking
<1>2. events' \in Seq(Events) /\ Head(events) \in Events BY <1>1, HeadTailProperties
<1>3. QED BY <1>1, <1>2 DEF Events, Event

LEMMA AgentIs == \A t \in Tasks : AgentOf[t] \in Plugins /\ SourceOf[t] \in Plugins
BY PluginsAssumption DEF Plugins

\* a restart that is scheduled, or a plugin that is given up
LEMMA Schedules ==
    ASSUME Typed, NEW p \in Plugins, ScheduleRestart(p)
    PROVE  /\ timers' \in [Plugins -> Nat] /\ abandoned' \subseteq Plugins
           /\ \/ timers' = timers /\ abandoned' = abandoned \cup {p}
              \/ timers' = [timers EXCEPT ![p] = timers[p] + 1] /\ abandoned' = abandoned
BY DEF ScheduleRestart, Escalate, Typed

\* a dispatch that failed
LEMMA Fails ==
    ASSUME Typed, NEW t \in Tasks, FailDispatch(t)
    PROVE  /\ state' \in [Tasks -> {"queued", "dispatched", "done", "failed", "skipped"}]
           /\ streak' \in [Tasks -> Nat]
           /\ holders' = holders \ {t}
           /\ state'[t] \in {"queued", "failed"}
           /\ streak[t] = 0 => state'[t] = "queued"
           /\ \A u \in Tasks \ {t} : state'[u] = state[u] /\ streak'[u] = streak[u]
<1>1. state \in [Tasks -> {"queued", "dispatched", "done", "failed", "skipped"}]
      /\ streak \in [Tasks -> Nat] /\ streak[t] \in Nat
  BY DEF Typed
<1>2. holders' = holders \ {t} BY DEF FailDispatch
<1>3. CASE streak[t] < RetryLimit
  <2>1. /\ streak' = [streak EXCEPT ![t] = streak[t] + 1]
        /\ state' = [state EXCEPT ![t] = "queued"]
    BY <1>3 DEF FailDispatch, MayRetry
  <2>2. state'[t] = "queued" /\ streak[t] + 1 \in Nat BY <1>1, <2>1
  <2>3. QED BY <1>1, <1>2, <2>1, <2>2
<1>4. CASE ~(streak[t] < RetryLimit)
  <2>1. streak' = streak /\ state' = [state EXCEPT ![t] = "failed"]
    BY <1>4 DEF FailDispatch, MayRetry
  <2>2. streak[t] # 0 BY <1>1, <1>4, NumbersAssumption
  <2>3. QED BY <1>1, <1>2, <2>1, <2>2
<1>5. QED BY <1>3, <1>4

LEMMA TypedSupervising ==
    ASSUME Typed, Supervising PROVE Typed'
<1>1. CASE TakeClosed
  <2>1. events' \in Seq(Events) /\ Head(events).plugin \in Plugins
    BY <1>1, Takes DEF TakeClosed
  <2>2. route' \in [Tasks -> {"none", "current", "old"}]
    BY <1>1 DEF TakeClosed, RoutesWithout, Typed
  <2>3. QED BY <1>1, <2>1, <2>2
            DEF TakeClosed, Typed, relaunchVars, ledgerVars, passVars
<1>2. CASE FailNext
  <2>1. state' \in [Tasks -> {"queued", "dispatched", "done", "failed", "skipped"}]
        /\ holders' \subseteq Tasks
    BY <1>2 DEF FailNext, Typed
  <2>2. QED BY <1>2, <2>1 DEF FailNext, Typed, relaunchVars, ledgerVars, passVars
<1>3. CASE TornDown
  <2>1. timers' \in [Plugins -> Nat] /\ abandoned' \subseteq Plugins
    BY <1>3, Schedules DEF TornDown, Typed
  <2>2. QED BY <1>3, <2>1 DEF TornDown, Handled, Typed, taskVars, passVars
<1>4. CASE TakeDue
  <2>1. events' \in Seq(Events) /\ Head(events).plugin \in Plugins
    BY <1>4, Takes DEF TakeDue
  <2>2. launches' \in [Plugins -> Seq(Nat)]
    BY <1>4, <2>1, AppendProperties DEF TakeDue, Typed
  <2>3. QED BY <1>4, <2>1, <2>2
            DEF TakeDue, Handled, Typed, ledgerVars, taskVars, passVars
<1>5. CASE TakeUp
  <2>1. events' \in Seq(Events) /\ Head(events).plugin \in Plugins
    BY <1>5, Takes DEF TakeUp
  <2>2. /\ route' \in [Tasks -> {"none", "current", "old"}]
        /\ proc' \in [Plugins -> {"live", "dying", "dead"}]
        /\ abandoned' \subseteq Plugins
    BY <1>5, <2>1 DEF TakeUp, Typed
  <2>3. QED BY <1>5, <2>1, <2>2
            DEF TakeUp, Handled, Typed, relaunchVars, passVars
<1>6. CASE TakeFailed
  <2>1. events' \in Seq(Events) /\ Head(events).plugin \in Plugins
    BY <1>6, Takes DEF TakeFailed
  <2>2. timers' \in [Plugins -> Nat] /\ abandoned' \subseteq Plugins
    BY <1>6, <2>1, Schedules DEF TakeFailed
  <2>3. QED BY <1>6, <2>1, <2>2 DEF TakeFailed, Handled, Typed, taskVars, passVars
<1>7. QED BY <1>1, <1>2, <1>3, <1>4, <1>5, <1>6 DEF Supervising

LEMMA TypedDispatching ==
    ASSUME Typed, Dispatching \/ Tick PROVE Typed'
<1> USE DEF passVars, taskVars, relaunchVars, ledgerVars
<1>0. \A i \in 1..Len(Queue) : Queue[i] \in Tasks BY DEF Tasks
<1>1. CASE PassBegins
  <2>1. Plan \subseteq 1..Len(Queue) BY DEF Plan, Ready
  <2>2. {Queue[i] : i \in Plan} \subseteq Tasks BY <1>0, <2>1
  <2>3. QED BY <1>1, <2>1, <2>2 DEF PassBegins, Typed
<1>2. CASE DispatchNext
  <2>1. PICK i \in plan :
          /\ plan' = plan \ {i}
          /\ LET t == Queue[i]
             IN  \/ /\ Parked(t)
                    /\ holders' = HoldersParking(t)
                    /\ UNCHANGED <<state, streak, pc, hand, disturbed>>
                 \/ /\ Refused(t) /\ FailDispatch(t)
                    /\ UNCHANGED <<pc, hand>>
                 \/ /\ pc' = "claim" /\ hand' = t
                    /\ UNCHANGED <<state, streak, holders, disturbed>>
    BY <1>2 DEF DispatchNext
  <2>2. Queue[i] \in Tasks BY <1>0 DEF Typed
  <2>3. /\ UNCHANGED <<proc, events, timers, launches, abandoned, route>>
        /\ plan' \subseteq 1..Len(Queue) /\ pc = "pass"
    BY <1>2, <2>1 DEF DispatchNext, PassFrame, Typed
  <2>4. /\ state' \in [Tasks -> {"queued", "dispatched", "done", "failed", "skipped"}]
        /\ streak' \in [Tasks -> Nat] /\ holders' \subseteq Tasks
    BY <2>1, <2>2, Fails DEF HoldersParking, Typed
  <2>5. (pc' = pc /\ hand' = hand) \/ (pc' = "claim" /\ hand' \in Tasks)
    BY <2>1, <2>2
  <2>6. QED BY <2>3, <2>4, <2>5 DEF Typed
<1>3. CASE Claim
  <2>1. pc = "claim" /\ hand \in Tasks BY <1>3 DEF Claim, Typed
  <2>2. /\ state' \in [Tasks -> {"queued", "dispatched", "done", "failed", "skipped"}]
        /\ holders' \subseteq Tasks
    BY <1>3, <2>1 DEF Claim, Typed
  <2>3. (pc' = "launch" /\ hand' = hand) \/ pc' = "pass"
    BY <1>3 DEF Claim, BackToPass
  <2>4. QED BY <1>3, <2>1, <2>2, <2>3 DEF Claim, PassFrame, Typed
<1>4. CASE Launch
  <2>1. pc = "launch" /\ hand \in Tasks BY <1>4 DEF Launch, Typed
  <2>2. CASE FailDispatch(hand) /\ BackToPass /\ UNCHANGED route
    BY <1>4, <2>1, <2>2, Fails DEF Launch, BackToPass, PassFrame, Typed
  <2>3. CASE /\ state' = [state EXCEPT ![hand] = "dispatched"]
             /\ streak' = [streak EXCEPT ![hand] = 0]
             /\ route' = [route EXCEPT ![hand] = "current"]
             /\ pc' = "subscribe" /\ UNCHANGED <<holders, hand>>
    BY <1>4, <2>1, <2>3 DEF Launch, PassFrame, Typed
  <2>4. QED BY <1>4, <2>2, <2>3 DEF Launch
<1>5. CASE Subscribe
  <2>1. pc = "subscribe" /\ hand \in Tasks BY <1>5 DEF Subscribe, Typed
  <2>2. CASE UNCHANGED taskVars
    BY <1>5, <2>1, <2>2 DEF Subscribe, BackToPass, PassFrame, Typed
  <2>3. CASE route' = [route EXCEPT ![hand] = "none"] /\ FailDispatch(hand)
    BY <1>5, <2>1, <2>3, Fails DEF Subscribe, BackToPass, PassFrame, Typed
  <2>4. QED BY <1>5, <2>2, <2>3 DEF Subscribe
<1>6. CASE PassEnds \/ Tick BY <1>6 DEF PassEnds, Tick, Typed
<1>7. QED BY <1>1, <1>2, <1>3, <1>4, <1>5, <1>6 DEF Dispatching

LEMMA TypedRest ==
    ASSUME Typed,
           \/ \E p \in Plugins : Dies(p) \/ Notice(p) \/ TimerFires(p) \/ LaunchEnds(p)
           \/ \E t \in Tasks : Finish(t) \/ Retry(t)
           \/ GroupStop \/ StopArrives \/ EndOfRun \/ Elapse
    PROVE  Typed'
<1> USE DEF passVars, taskVars, relaunchVars, ledgerVars
<1>1. ASSUME NEW p \in Plugins, Dies(p) PROVE Typed'
  BY <1>1 DEF Dies, Typed
<1>2. ASSUME NEW p \in Plugins, Notice(p) PROVE Typed'
  <2>1. events' \in Seq(Events) BY <1>2, Sends DEF Notice, Kinds
  <2>2. QED BY <1>2, <2>1 DEF Notice, Typed
<1>3. ASSUME NEW p \in Plugins, TimerFires(p) PROVE Typed'
  <2>1. events' \in Seq(Events) BY <1>3, Sends DEF TimerFires, Kinds
  <2>2. timers' \in [Plugins -> Nat] BY <1>3 DEF TimerFires, Typed
  <2>3. QED BY <1>3, <2>1, <2>2 DEF TimerFires, Typed
<1>4. ASSUME NEW p \in Plugins, LaunchEnds(p) PROVE Typed'
  <2>1. events' \in Seq(Events) BY <1>4, Sends DEF LaunchEnds, Kinds
  <2>2. launches[p] \in Seq(Nat) /\ launches[p] # <<>>
        /\ launches' = [launches EXCEPT ![p] = Tail(launches[p])]
    BY <1>4 DEF LaunchEnds, Typed
  <2>3. Tail(launches[p]) \in Seq(Nat) BY <2>2, HeadTailProperties
  <2>4. launches' \in [Plugins -> Seq(Nat)] BY <2>2, <2>3 DEF Typed
  <2>5. QED BY <1>4, <2>1, <2>4 DEF LaunchEnds, Typed
<1>5. ASSUME NEW t \in Tasks, Finish(t) PROVE Typed'
  BY <1>5 DEF Finish, Handled, Typed
<1>6. ASSUME NEW t \in Tasks, Retry(t) PROVE Typed'
  BY <1>6 DEF Retry, Typed
<1>7. CASE GroupStop \/ StopArrives \/ EndOfRun
  BY <1>7 DEF GroupStop, StopArrives, EndOfRun, Typed
<1>8. CASE Elapse
  <2>1. launches' = [p \in Plugins |-> [i \in 1..Len(launches[p]) |-> launches[p][i] + 1]]
    BY <1>8 DEF Elapse
  <2>2. ASSUME NEW p \in Plugins
        PROVE  [i \in 1..Len(launches[p]) |-> launches[p][i] + 1] \in Seq(Nat)
    <3>1. launches[p] \in Seq(Nat) BY DEF Typed
    <3>2. Len(launches[p]) \in Nat /\ \A i \in 1..Len(launches[p]) : launches[p][i] \in Nat
      BY <3>1, LenProperties
    <3>3. QED BY <3>2, IsASeq
  <2>3. launches' \in [Plugins -> Seq(Nat)] BY <2>1, <2>2
  <2>4. QED BY <1>8, <2>3 DEF Elapse, Typed
<1>9. QED BY <1>1, <1>2, <1>3, <1>4, <1>5, <1>6, <1>7, <1>8

LEMMA TypedInit == Init => Typed
<1>1. <<>> \in Seq(Events) /\ <<>> \in Seq(Nat) BY EmptySeq
<1>2. QED BY <1>1 DEF Init, Typed

LEMMA TypedStep == Typed /\ [Next]_vars => Typed'
<1> SUFFICES ASSUME Typed, [Next]_vars PROVE Typed' OBVIOUS
<1>1. CASE UNCHANGED vars BY <1>1 DEF vars, Typed
<1>2. CASE Next
  BY <1>1, <1>2, TypedSupervising, TypedDispatching, TypedRest
  DEF Next, Outside, People, Stopped
<1>3. QED BY <1>1, <1>2

-----------------------------------------------------------------------------
(***************************************************************************)
(* A dead plugin is attended to exactly once.  Everything that is under    *)
(* way is counted per plugin; an action takes one item and adds the next.  *)
(***************************************************************************)

Attended(p) ==
    UnderWay(p) + (IF p \in abandoned THEN 1 ELSE 0) = (IF Live(p) THEN 0 ELSE 1)

LEMMA UnderWayIs ==
    ASSUME NEW p
    PROVE  /\ UnderWay(p) =
                (IF proc[p] = "dying" THEN 1 ELSE 0)
                + Occ(events, Event("closed", p)) + Occ(events, Event("due", p))
                + Occ(events, Event("up", p)) + Occ(events, Event("failed", p))
                + (IF pc = "teardown" /\ hand = p THEN 1 ELSE 0)
                + timers[p] + Len(launches[p])
           /\ UnderWay(p)' =
                (IF proc'[p] = "dying" THEN 1 ELSE 0)
                + Occ(events', Event("closed", p)) + Occ(events', Event("due", p))
                + Occ(events', Event("up", p)) + Occ(events', Event("failed", p))
                + (IF pc' = "teardown" /\ hand' = p THEN 1 ELSE 0)
                + timers'[p] + Len(launches'[p])
BY DEF UnderWay, Occurs, Occ

\* the terms of the sum
LEMMA TermsAreNat ==
    ASSUME Typed, NEW p \in Plugins
    PROVE  /\ \A k \in Kinds : Occ(events, Event(k, p)) \in Nat
           /\ timers[p] \in Nat /\ Len(launches[p]) \in Nat
           /\ launches[p] \in Seq(Nat)
<1>1. events \in Seq(Events) /\ timers[p] \in Nat /\ launches[p] \in Seq(Nat)
  BY DEF Typed
<1>2. Len(launches[p]) \in Nat BY <1>1, LenProperties
<1>3. QED BY <1>1, <1>2, OccIsNat

LEMMA TermsAreNatNext ==
    ASSUME Typed', NEW p \in Plugins
    PROVE  /\ \A k \in Kinds : Occ(events', Event(k, p)) \in Nat
           /\ timers'[p] \in Nat /\ Len(launches'[p]) \in Nat
<1>1. events' \in Seq(Events) /\ timers'[p] \in Nat /\ launches'[p] \in Seq(Nat)
  BY DEF Typed
<1>2. Len(launches'[p]) \in Nat BY <1>1, LenProperties
<1>3. QED BY <1>1, <1>2, OccIsNat

LEMMA EventsDiffer ==
    ASSUME NEW k, NEW l, NEW p, NEW q
    PROVE  Event(k, p) = Event(l, q) <=> k = l /\ p = q
BY DEF Event

LEMMA Sent ==
    ASSUME Typed, NEW p \in Plugins, NEW kind \in Kinds,
           events' = Append(events, Event(kind, p)), NEW q \in Plugins, NEW k \in Kinds
    PROVE  Occ(events', Event(k, q))
             = Occ(events, Event(k, q)) + (IF k = kind /\ q = p THEN 1 ELSE 0)
<1>1. events \in Seq(Events) /\ Event(kind, p) \in Events
  BY EventTyped DEF Typed
<1>2. Occ(events', Event(k, q))
        = Occ(events, Event(k, q)) + (IF Event(kind, p) = Event(k, q) THEN 1 ELSE 0)
  BY <1>1, OccAppend
<1>3. QED BY <1>2, EventsDiffer

LEMMA Taken ==
    ASSUME Typed, NEW kind \in Kinds, Taking(kind), NEW q \in Plugins, NEW k \in Kinds
    PROVE  Occ(events, Event(k, q))
             = Occ(events', Event(k, q))
               + (IF k = kind /\ q = Head(events).plugin THEN 1 ELSE 0)
<1>1. events \in Seq(Events) /\ events # <<>> /\ events' = Tail(events)
      /\ Head(events) = Event(kind, Head(events).plugin)
  BY Takes
<1>2. Occ(events, Event(k, q))
        = Occ(events', Event(k, q)) + (IF Head(events) = Event(k, q) THEN 1 ELSE 0)
  BY <1>1, OccTail
<1>3. Head(events) = Event(k, q) <=> k = kind /\ q = Head(events).plugin
  BY <1>1, EventsDiffer
<1>4. QED BY <1>2, <1>3

\* a step that sends, takes and schedules nothing
LEMMA AttendedKept ==
    ASSUME NEW q, Attended(q), UNCHANGED <<proc, events, timers, launches, abandoned>>,
           pc' = "teardown" /\ hand' = q <=> pc = "teardown" /\ hand = q
    PROVE  Attended(q)'
BY UnderWayIs DEF Attended, Live

\* a restart that is scheduled takes the place of what was under way
LEMMA AttendedSchedules ==
    ASSUME Typed, Typed', NEW p \in Plugins, NEW q \in Plugins, Attended(q),
           ScheduleRestart(p), proc' = proc, launches' = launches,
           Occ(events, Event("closed", q)) = Occ(events', Event("closed", q)),
           Occ(events, Event("due", q)) = Occ(events', Event("due", q)),
           Occ(events, Event("up", q)) = Occ(events', Event("up", q)),
           Occ(events, Event("failed", q))
             + (IF pc = "teardown" /\ hand = q THEN 1 ELSE 0)
             = Occ(events', Event("failed", q)) + (IF q = p THEN 1 ELSE 0),
           pc' # "teardown"
    PROVE  Attended(q)'
<1> DEFINE dying == IF proc[q] = "dying" THEN 1 ELSE 0
           closed == Occ(events, Event("closed", q))
           due == Occ(events, Event("due", q))
           up == Occ(events, Event("up", q))
           failed == Occ(events, Event("failed", q))
           torn == IF pc = "teardown" /\ hand = q THEN 1 ELSE 0
           failed2 == Occ(events', Event("failed", q))
           given == IF q \in abandoned THEN 1 ELSE 0
           given2 == IF q \in abandoned' THEN 1 ELSE 0
           missing == IF proc[q] = "live" THEN 0 ELSE 1
           it == IF q = p THEN 1 ELSE 0
           ages == Len(launches[q])
<1>1. /\ closed \in Nat /\ due \in Nat /\ up \in Nat /\ failed \in Nat
      /\ failed2 \in Nat /\ timers[q] \in Nat /\ timers'[q] \in Nat /\ ages \in Nat
  BY TermsAreNat, TermsAreNatNext DEF Kinds
<1>2. /\ dying \in {0, 1} /\ torn \in {0, 1} /\ given \in {0, 1} /\ given2 \in {0, 1}
      /\ missing \in {0, 1} /\ it \in {0, 1}
  OBVIOUS
<1>3. dying + closed + due + up + failed + torn + timers[q] + ages + given = missing
  BY UnderWayIs DEF Attended, Live
<1>4. failed + torn = failed2 + it OBVIOUS
<1>5. UnderWay(q)' = dying + closed + due + up + failed2 + 0 + timers'[q] + ages
  BY UnderWayIs
<1>6. (Attended(q)') <=> (UnderWay(q)' + given2 = missing) BY DEF Attended, Live
<1>7. \/ timers' = timers /\ abandoned' = abandoned \cup {p}
      \/ timers' = [timers EXCEPT ![p] = timers[p] + 1] /\ abandoned' = abandoned
  BY Schedules
<1>8. timers'[q] + given2 = timers[q] + given + it
  <2>1. CASE q = p
    <3>1. it = 1 BY <2>1
    <3>2. given = 0
      <4> HIDE DEF dying, closed, due, up, failed, torn, failed2, given, missing, it, ages
      <4>1. QED BY <1>1, <1>2, <1>3, <1>4, <3>1
    <3>3. CASE timers' = timers /\ abandoned' = abandoned \cup {p}
      <4>1. given2 = 1 /\ timers'[q] = timers[q] BY <2>1, <3>3
      <4> HIDE DEF dying, closed, due, up, failed, torn, failed2, given, given2, missing, it, ages
      <4>2. QED BY <1>1, <3>1, <3>2, <4>1
    <3>4. CASE timers' = [timers EXCEPT ![p] = timers[p] + 1] /\ abandoned' = abandoned
      <4>1. given2 = given /\ timers'[q] = timers[q] + 1 BY <2>1, <3>4 DEF Typed
      <4> HIDE DEF dying, closed, due, up, failed, torn, failed2, given, given2, missing, it, ages
      <4>2. QED BY <1>1, <3>1, <3>2, <4>1
    <3>5. QED BY <1>7, <3>3, <3>4
  <2>2. CASE q # p
    <3>1. timers'[q] = timers[q] /\ given2 = given /\ it = 0 BY <1>7, <2>2 DEF Typed
    <3> HIDE DEF dying, closed, due, up, failed, torn, failed2, given, given2, missing, it, ages
    <3>2. QED BY <1>1, <1>2, <3>1
  <2>3. QED BY <2>1, <2>2
<1> HIDE DEF dying, closed, due, up, failed, torn, failed2, given, given2, missing, it, ages
<1>9. QED BY <1>1, <1>2, <1>3, <1>4, <1>5, <1>6, <1>8

LEMMA AttendedSupervising ==
    ASSUME Typed, Typed', NEW q \in Plugins, Attended(q), Supervising
    PROVE  Attended(q)'
<1> USE DEF relaunchVars, ledgerVars
<1>0. UNCHANGED events => \A k \in Kinds : Occ(events', Event(k, q)) = Occ(events, Event(k, q))
  OBVIOUS
<1>1. CASE TakeClosed
  <2>1. Taking("closed") /\ pc = "idle" /\ pc' = "teardown" /\ hand' = Head(events).plugin
        /\ UNCHANGED <<proc, timers, launches, abandoned>>
    BY <1>1 DEF TakeClosed, Taking
  <2>2. \A k \in Kinds :
          Occ(events, Event(k, q)) = Occ(events', Event(k, q))
             + (IF k = "closed" /\ q = Head(events).plugin THEN 1 ELSE 0)
    BY <2>1, Taken DEF Kinds
  <2>3. /\ Occ(events, Event("closed", q)) = Occ(events', Event("closed", q))
             + (IF q = hand' THEN 1 ELSE 0)
        /\ Occ(events, Event("due", q)) = Occ(events', Event("due", q))
        /\ Occ(events, Event("up", q)) = Occ(events', Event("up", q))
        /\ Occ(events, Event("failed", q)) = Occ(events', Event("failed", q))
    BY <2>1, <2>2, TermsAreNatNext DEF Kinds
  <2>4. UnderWay(q)' = UnderWay(q)
    <3> DEFINE it == IF q = hand' THEN 1 ELSE 0
               dying == IF proc[q] = "dying" THEN 1 ELSE 0
    <3>1. it \in Nat /\ dying \in Nat OBVIOUS
    <3>2. /\ UnderWay(q) = dying + Occ(events, Event("closed", q))
                + Occ(events, Event("due", q)) + Occ(events, Event("up", q))
                + Occ(events, Event("failed", q)) + 0 + timers[q] + Len(launches[q])
          /\ UnderWay(q)' = dying + Occ(events', Event("closed", q))
                + Occ(events', Event("due", q)) + Occ(events', Event("up", q))
                + Occ(events', Event("failed", q)) + it + timers[q] + Len(launches[q])
      BY <2>1, UnderWayIs
    <3>3. Occ(events, Event("closed", q)) = Occ(events', Event("closed", q)) + it
      BY <2>3
    <3>4. /\ Occ(events', Event("closed", q)) \in Nat /\ Occ(events', Event("due", q)) \in Nat
          /\ Occ(events', Event("up", q)) \in Nat /\ Occ(events', Event("failed", q)) \in Nat
          /\ timers[q] \in Nat /\ Len(launches[q]) \in Nat
      BY TermsAreNat, TermsAreNatNext DEF Kinds
    <3> DEFINE c == Occ(events, Event("closed", q))
               d == Occ(events, Event("due", q))
               u == Occ(events, Event("up", q))
               f == Occ(events, Event("failed", q))
               c2 == Occ(events', Event("closed", q))
               d2 == Occ(events', Event("due", q))
               u2 == Occ(events', Event("up", q))
               f2 == Occ(events', Event("failed", q))
               n == timers[q]
               l == Len(launches[q])
    <3>5. /\ c2 \in Nat /\ d2 \in Nat /\ u2 \in Nat /\ f2 \in Nat /\ n \in Nat /\ l \in Nat
          /\ c = c2 + it /\ d = d2 /\ u = u2 /\ f = f2
      BY <2>3, <3>3, <3>4
    <3>6. /\ UnderWay(q) = dying + c + d + u + f + 0 + n + l
          /\ UnderWay(q)' = dying + c2 + d2 + u2 + f2 + it + n + l
      BY <3>2
    <3> HIDE DEF it, dying, c, d, u, f, c2, d2, u2, f2, n, l
    <3>7. QED BY <3>1, <3>5, <3>6
  <2>5. QED BY <2>1, <2>4 DEF Attended, Live
<1>2. CASE FailNext BY <1>2, AttendedKept DEF FailNext
<1>3. CASE TornDown
  <2>1. pc = "teardown" /\ hand \in Plugins /\ ScheduleRestart(hand) /\ pc' = "planning"
        /\ UNCHANGED <<proc, events, launches>>
    BY <1>3 DEF TornDown, Handled, Typed
  <2>2. QED BY <1>0, <2>1, AttendedSchedules, TermsAreNat DEF Kinds
<1>4. CASE TakeDue
  <2>1. /\ Taking("due") /\ pc = "idle" /\ pc' = "planning"
        /\ UNCHANGED <<proc, timers, abandoned>>
        /\ launches' = [launches EXCEPT ![Head(events).plugin] = Append(@, 0)]
    BY <1>4 DEF TakeDue, Taking, Handled
  <2>2. \A k \in Kinds :
          Occ(events, Event(k, q)) = Occ(events', Event(k, q))
             + (IF k = "due" /\ q = Head(events).plugin THEN 1 ELSE 0)
    BY <2>1, Taken DEF Kinds
  <2>3. /\ Occ(events, Event("closed", q)) = Occ(events', Event("closed", q))
        /\ Occ(events, Event("due", q)) = Occ(events', Event("due", q))
             + (IF q = Head(events).plugin THEN 1 ELSE 0)
        /\ Occ(events, Event("up", q)) = Occ(events', Event("up", q))
        /\ Occ(events, Event("failed", q)) = Occ(events', Event("failed", q))
    BY <2>2, TermsAreNatNext DEF Kinds
  <2>4. Len(launches'[q]) = Len(launches[q]) + (IF q = Head(events).plugin THEN 1 ELSE 0)
    <3>1. launches[q] \in Seq(Nat) /\ Len(launches[q]) \in Nat BY TermsAreNat
    <3>2. Len(Append(launches[q], 0)) = Len(launches[q]) + 1 BY <3>1, AppendProperties
    <3>3. QED BY <2>1, <3>1, <3>2 DEF Typed
  <2>5. UnderWay(q)' = UnderWay(q)
    <3> DEFINE it == IF q = Head(events).plugin THEN 1 ELSE 0
               dying == IF proc[q] = "dying" THEN 1 ELSE 0
    <3>1. it \in Nat /\ dying \in Nat OBVIOUS
    <3>2. /\ UnderWay(q) = dying + Occ(events, Event("closed", q))
                + Occ(events, Event("due", q)) + Occ(events, Event("up", q))
                + Occ(events, Event("failed", q)) + 0 + timers[q] + Len(launches[q])
          /\ UnderWay(q)' = dying + Occ(events', Event("closed", q))
                + Occ(events', Event("due", q)) + Occ(events', Event("up", q))
                + Occ(events', Event("failed", q)) + 0 + timers[q] + Len(launches'[q])
      BY <2>1, UnderWayIs
    <3>3. /\ Occ(events, Event("due", q)) = Occ(events', Event("due", q)) + it
          /\ Len(launches'[q]) = Len(launches[q]) + it
      BY <2>3, <2>4
    <3>4. /\ Occ(events', Event("closed", q)) \in Nat /\ Occ(events', Event("due", q)) \in Nat
          /\ Occ(events', Event("up", q)) \in Nat /\ Occ(events', Event("failed", q)) \in Nat
          /\ timers[q] \in Nat /\ Len(launches[q]) \in Nat
      BY TermsAreNat, TermsAreNatNext DEF Kinds
    <3> DEFINE c == Occ(events, Event("closed", q))
               d == Occ(events, Event("due", q))
               u == Occ(events, Event("up", q))
               f == Occ(events, Event("failed", q))
               c2 == Occ(events', Event("closed", q))
               d2 == Occ(events', Event("due", q))
               u2 == Occ(events', Event("up", q))
               f2 == Occ(events', Event("failed", q))
               n == timers[q]
               l == Len(launches[q])
               l2 == Len(launches'[q])
    <3>5. /\ c2 \in Nat /\ d2 \in Nat /\ u2 \in Nat /\ f2 \in Nat /\ n \in Nat /\ l \in Nat
          /\ c = c2 /\ d = d2 + it /\ u = u2 /\ f = f2 /\ l2 = l + it
      BY <2>3, <3>3, <3>4
    <3>6. /\ UnderWay(q) = dying + c + d + u + f + 0 + n + l
          /\ UnderWay(q)' = dying + c2 + d2 + u2 + f2 + 0 + n + l2
      BY <3>2
    <3> HIDE DEF it, dying, c, d, u, f, c2, d2, u2, f2, n, l, l2
    <3>7. QED BY <3>1, <3>5, <3>6
  <2>6. QED BY <2>1, <2>5 DEF Attended, Live
<1>5. CASE TakeUp
  <2> DEFINE p == Head(events).plugin
  <2>1. /\ Taking("up") /\ pc = "idle" /\ pc' = "planning"
        /\ UNCHANGED <<timers, launches>>
        /\ proc' = [proc EXCEPT ![p] = "live"] /\ abandoned' = abandoned \ {p}
    BY <1>5 DEF TakeUp, Taking, Handled, relaunchVars
  <2>2. \A k \in Kinds :
          Occ(events, Event(k, q)) = Occ(events', Event(k, q))
             + (IF k = "up" /\ q = p THEN 1 ELSE 0)
    BY <2>1, Taken DEF Kinds
  <2>3. /\ Occ(events, Event("closed", q)) = Occ(events', Event("closed", q))
        /\ Occ(events, Event("due", q)) = Occ(events', Event("due", q))
        /\ Occ(events, Event("up", q)) = Occ(events', Event("up", q))
             + (IF q = p THEN 1 ELSE 0)
        /\ Occ(events, Event("failed", q)) = Occ(events', Event("failed", q))
    BY <2>2, TermsAreNatNext DEF Kinds
  <2>4. CASE q # p
    <3>1. proc'[q] = proc[q] /\ (q \in abandoned' <=> q \in abandoned)
      BY <2>1, <2>4 DEF Typed
    <3> HIDE DEF p
    <3>2. UnderWay(q)' = UnderWay(q)
      <4>1. /\ Occ(events, Event("up", q)) = Occ(events', Event("up", q)) + 0
            /\ Occ(events', Event("up", q)) \in Nat
        BY <2>3, <2>4, TermsAreNatNext DEF Kinds
      <4>2. Occ(events, Event("up", q)) = Occ(events', Event("up", q)) BY <4>1
      <4>3. QED BY <2>1, <2>3, <3>1, <4>2, UnderWayIs
    <3>3. QED BY <3>1, <3>2 DEF Attended, Live
  <2>5. CASE q = p
    <3>1. proc'[q] = "live" /\ q \notin abandoned' BY <2>1, <2>5 DEF Typed
    <3> HIDE DEF p
    <3>2. UnderWay(q) + (IF q \in abandoned THEN 1 ELSE 0)
            = (IF proc[q] = "live" THEN 0 ELSE 1)
      BY DEF Attended, Live
    <3>3. UnderWay(q)' = 0
      <4> DEFINE dying == IF proc[q] = "dying" THEN 1 ELSE 0
                 given == IF q \in abandoned THEN 1 ELSE 0
                 missing == IF proc[q] = "live" THEN 0 ELSE 1
      <4>1. dying \in Nat /\ given \in Nat /\ missing \in {0, 1} OBVIOUS
      <4>2. /\ UnderWay(q) = dying + Occ(events, Event("closed", q))
                  + Occ(events, Event("due", q)) + Occ(events, Event("up", q))
                  + Occ(events, Event("failed", q)) + 0 + timers[q] + Len(launches[q])
            /\ UnderWay(q)' = 0 + Occ(events', Event("closed", q))
                  + Occ(events', Event("due", q)) + Occ(events', Event("up", q))
                  + Occ(events', Event("failed", q)) + 0 + timers[q] + Len(launches[q])
            /\ UnderWay(q) + given = missing
        BY <2>1, <3>1, <3>2, UnderWayIs
      <4>3. Occ(events, Event("up", q)) = Occ(events', Event("up", q)) + 1 BY <2>3, <2>5
      <4>4. /\ Occ(events', Event("closed", q)) \in Nat /\ Occ(events', Event("due", q)) \in Nat
            /\ Occ(events', Event("up", q)) \in Nat /\ Occ(events', Event("failed", q)) \in Nat
            /\ timers[q] \in Nat /\ Len(launches[q]) \in Nat
        BY TermsAreNat, TermsAreNatNext DEF Kinds
      <4> HIDE DEF dying, given, missing
      <4> DEFINE c == Occ(events', Event("closed", q))
                 d == Occ(events', Event("due", q))
                 u == Occ(events', Event("up", q))
                 f == Occ(events', Event("failed", q))
                 n == timers[q]
                 l == Len(launches[q])
      <4>5. dying + c + d + (u + 1) + f + 0 + n + l + given = missing
        BY <2>3, <4>2, <4>3
      <4>6. c \in Nat /\ d \in Nat /\ u \in Nat /\ f \in Nat /\ n \in Nat /\ l \in Nat
        BY <4>4
      <4>7. UnderWay(q)' = 0 + c + d + u + f + 0 + n + l BY <4>2
      <4> HIDE DEF c, d, u, f, n, l
      <4>8. c + d + u + f + n + l = 0
        <5>1. missing = 0 \/ missing = 1 BY <4>1
        <5>2. QED BY <4>1, <4>5, <4>6, <5>1
      <4>9. QED BY <4>6, <4>7, <4>8
    <3>4. QED BY <3>1, <3>3 DEF Attended, Live
  <2>6. QED BY <2>4, <2>5
<1>6. CASE TakeFailed
  <2> DEFINE p == Head(events).plugin
  <2>1. /\ Taking("failed") /\ pc = "idle" /\ pc' = "planning" /\ ScheduleRestart(p)
        /\ p \in Plugins /\ UNCHANGED <<proc, launches>>
    BY <1>6, Takes DEF TakeFailed, Taking, Handled
  <2>2. \A k \in Kinds :
          Occ(events, Event(k, q)) = Occ(events', Event(k, q))
             + (IF k = "failed" /\ q = p THEN 1 ELSE 0)
    BY <2>1, Taken DEF Kinds
  <2>3. /\ Occ(events, Event("closed", q)) = Occ(events', Event("closed", q))
        /\ Occ(events, Event("due", q)) = Occ(events', Event("due", q))
        /\ Occ(events, Event("up", q)) = Occ(events', Event("up", q))
        /\ Occ(events, Event("failed", q))
             + (IF pc = "teardown" /\ hand = q THEN 1 ELSE 0)
             = Occ(events', Event("failed", q)) + (IF q = p THEN 1 ELSE 0)
    BY <2>1, <2>2, TermsAreNatNext DEF Kinds
  <2> HIDE DEF p
  <2>4. QED BY <2>1, <2>3, AttendedSchedules
<1>7. QED BY <1>1, <1>2, <1>3, <1>4, <1>5, <1>6 DEF Supervising

LEMMA AttendedDispatching ==
    ASSUME Typed, NEW q, Attended(q), Dispatching \/ Tick
    PROVE  Attended(q)'
<1>1. /\ UNCHANGED <<proc, events, timers, launches, abandoned>>
      /\ pc # "teardown" /\ pc' # "teardown"
  <2>1. CASE DispatchNext
    BY <2>1 DEF DispatchNext, PassFrame, relaunchVars, ledgerVars
  <2>2. CASE Claim \/ Launch \/ Subscribe
    BY <2>2 DEF Claim, Launch, Subscribe, BackToPass, PassFrame, relaunchVars, ledgerVars
  <2>3. CASE PassBegins \/ PassEnds \/ Tick
    BY <2>3 DEF PassBegins, PassEnds, Tick, relaunchVars, ledgerVars
  <2>4. QED BY <2>1, <2>2, <2>3 DEF Dispatching
<1>2. QED BY <1>1, AttendedKept

LEMMA AttendedDies ==
    ASSUME Typed, NEW p \in Plugins, Dies(p), NEW q \in Plugins, Attended(q)
    PROVE  Attended(q)'
<1> DEFINE rest == Occ(events, Event("closed", q)) + Occ(events, Event("due", q))
                + Occ(events, Event("up", q)) + Occ(events, Event("failed", q))
           torn == IF pc = "teardown" /\ hand = q THEN 1 ELSE 0
           given == IF q \in abandoned THEN 1 ELSE 0
<1>1. /\ proc[p] = "live" /\ proc' = [proc EXCEPT ![p] = "dying"]
      /\ UNCHANGED <<events, timers, launches, abandoned, pc, hand>>
  BY DEF Dies, relaunchVars, ledgerVars
<1>2. CASE q = p
  <2>1. proc[q] = "live" /\ proc'[q] = "dying" BY <1>1, <1>2 DEF Typed
  <2> DEFINE c == Occ(events, Event("closed", q))
             d == Occ(events, Event("due", q))
             u == Occ(events, Event("up", q))
             f == Occ(events, Event("failed", q))
             n == timers[q]
             l == Len(launches[q])
  <2>2. /\ c \in Nat /\ d \in Nat /\ u \in Nat /\ f \in Nat /\ n \in Nat /\ l \in Nat
        /\ torn \in Nat /\ given \in Nat
    BY TermsAreNat DEF Kinds
  <2>3. 0 + c + d + u + f + torn + n + l + given = 0 BY <2>1, UnderWayIs DEF Attended, Live
  <2>4. UnderWay(q)' = 1 + c + d + u + f + torn + n + l BY <1>1, <2>1, UnderWayIs
  <2>5. (Attended(q)') <=> (UnderWay(q)' + given = 1) BY <1>1, <2>1 DEF Attended, Live
  <2> HIDE DEF c, d, u, f, n, l, torn, given
  <2>6. QED BY <2>2, <2>3, <2>4, <2>5
<1>3. CASE q # p
  <2>1. proc'[q] = proc[q] BY <1>1, <1>3 DEF Typed
  <2>2. UnderWay(q)' = UnderWay(q) BY <1>1, <2>1, UnderWayIs
  <2>3. QED BY <1>1, <2>1, <2>2 DEF Attended, Live
<1>4. QED BY <1>2, <1>3

\* a step that hands one item over to the channel
LEMMA AttendedHandsOver ==
    ASSUME Typed, Typed', NEW p \in Plugins, NEW q \in Plugins, Attended(q),
           NEW kind \in Kinds, events' = Append(events, Event(kind, p)),
           UNCHANGED <<abandoned, pc, hand>>, Live(q)' <=> Live(q),
           (IF proc[q] = "dying" THEN 1 ELSE 0) + timers[q] + Len(launches[q])
             = (IF proc'[q] = "dying" THEN 1 ELSE 0) + timers'[q] + Len(launches'[q])
               + (IF q = p THEN 1 ELSE 0)
    PROVE  Attended(q)'
<1> DEFINE it == IF q = p THEN 1 ELSE 0
           torn == IF pc = "teardown" /\ hand = q THEN 1 ELSE 0
           y == IF proc[q] = "dying" THEN 1 ELSE 0
           y2 == IF proc'[q] = "dying" THEN 1 ELSE 0
           c == Occ(events, Event("closed", q))
           d == Occ(events, Event("due", q))
           u == Occ(events, Event("up", q))
           f == Occ(events, Event("failed", q))
           n == timers[q]
           l == Len(launches[q])
           c2 == Occ(events', Event("closed", q))
           d2 == Occ(events', Event("due", q))
           u2 == Occ(events', Event("up", q))
           f2 == Occ(events', Event("failed", q))
           n2 == timers'[q]
           l2 == Len(launches'[q])
<1>1. /\ c \in Nat /\ d \in Nat /\ u \in Nat /\ f \in Nat /\ n \in Nat /\ l \in Nat
      /\ c2 \in Nat /\ d2 \in Nat /\ u2 \in Nat /\ f2 \in Nat /\ n2 \in Nat /\ l2 \in Nat
      /\ it \in Nat /\ torn \in Nat /\ y \in Nat /\ y2 \in Nat
  BY TermsAreNat, TermsAreNatNext DEF Kinds
<1>2. /\ UnderWay(q) = y + c + d + u + f + torn + n + l
      /\ UnderWay(q)' = y2 + c2 + d2 + u2 + f2 + torn + n2 + l2
  BY UnderWayIs
<1>3. y + n + l = y2 + n2 + l2 + it OBVIOUS
<1>4. \A k \in Kinds : Occ(events', Event(k, q))
                         = Occ(events, Event(k, q)) + (IF k = kind /\ q = p THEN 1 ELSE 0)
  BY Sent
<1>5. c2 + d2 + u2 + f2 = c + d + u + f + it
  <2>1. CASE q # p
    <3>1. /\ c2 = c + 0 /\ d2 = d + 0 /\ u2 = u + 0 /\ f2 = f + 0 /\ it = 0
      BY <1>4, <2>1 DEF Kinds
    <3> HIDE DEF it, c, d, u, f, c2, d2, u2, f2
    <3>2. QED BY <1>1, <3>1
  <2>2. CASE q = p
    <3>1. /\ c2 = c + (IF kind = "closed" THEN 1 ELSE 0)
          /\ d2 = d + (IF kind = "due" THEN 1 ELSE 0)
          /\ u2 = u + (IF kind = "up" THEN 1 ELSE 0)
          /\ f2 = f + (IF kind = "failed" THEN 1 ELSE 0)
          /\ it = 1
      BY <1>4, <2>2 DEF Kinds
    <3> HIDE DEF it, c, d, u, f, c2, d2, u2, f2
    <3>2. QED BY <1>1, <3>1 DEF Kinds
  <2>3. QED BY <2>1, <2>2
<1> HIDE DEF it, torn, y, y2, c, d, u, f, n, l, c2, d2, u2, f2, n2, l2
<1>6. UnderWay(q)' = UnderWay(q) BY <1>1, <1>2, <1>3, <1>5
<1>7. QED BY <1>6 DEF Attended, Live

LEMMA AttendedOutside ==
    ASSUME Typed, Typed', NEW p \in Plugins, NEW q \in Plugins, Attended(q),
           Notice(p) \/ TimerFires(p) \/ LaunchEnds(p)
    PROVE  Attended(q)'
<1> USE DEF relaunchVars, ledgerVars, Kinds
<1>0. /\ timers[q] \in Nat /\ timers'[q] \in Nat /\ Len(launches[q]) \in Nat
      /\ Len(launches'[q]) \in Nat /\ launches[p] \in Seq(Nat)
  BY TermsAreNat, TermsAreNatNext
<1>1. CASE Notice(p)
  <2>1. /\ proc[p] = "dying" /\ proc' = [proc EXCEPT ![p] = "dead"]
        /\ events' = Append(events, Event("closed", p))
        /\ UNCHANGED <<timers, launches, abandoned, pc, hand>>
    BY <1>1 DEF Notice
  <2>2. Live(q)' <=> Live(q) BY <2>1 DEF Live, Typed
  <2>3. (IF proc[q] = "dying" THEN 1 ELSE 0) + timers[q] + Len(launches[q])
          = (IF proc'[q] = "dying" THEN 1 ELSE 0) + timers'[q] + Len(launches'[q])
            + (IF q = p THEN 1 ELSE 0)
    <3>1. CASE q = p
      <4>1. proc[q] = "dying" /\ proc'[q] = "dead" BY <2>1, <3>1 DEF Typed
      <4>2. 1 + timers[q] + Len(launches[q]) = 0 + timers'[q] + Len(launches'[q]) + 1
        BY <1>0, <2>1
      <4>3. QED BY <3>1, <4>1, <4>2
    <3>2. CASE q # p
      <4>1. proc'[q] = proc[q] BY <2>1, <3>2 DEF Typed
      <4> DEFINE y == IF proc[q] = "dying" THEN 1 ELSE 0
                 y2 == IF proc'[q] = "dying" THEN 1 ELSE 0
                 it == IF q = p THEN 1 ELSE 0
      <4>2. y \in Nat /\ y2 = y /\ it = 0 BY <3>2, <4>1
      <4>3. y + timers[q] + Len(launches[q]) = y2 + timers'[q] + Len(launches'[q]) + it
        <5> HIDE DEF y, y2, it
        <5>1. QED BY <1>0, <2>1, <4>2
      <4>4. QED BY <4>3
    <3>3. QED BY <3>1, <3>2
  <2>4. QED BY <2>1, <2>2, <2>3, AttendedHandsOver
<1>2. CASE TimerFires(p)
  <2>1. /\ timers' = [timers EXCEPT ![p] = timers[p] - 1]
        /\ events' = Append(events, Event("due", p))
        /\ UNCHANGED <<proc, launches, abandoned, pc, hand>>
    BY <1>2 DEF TimerFires
  <2>2. Live(q)' <=> Live(q) BY <2>1 DEF Live
  <2>3. (IF proc[q] = "dying" THEN 1 ELSE 0) + timers[q] + Len(launches[q])
          = (IF proc'[q] = "dying" THEN 1 ELSE 0) + timers'[q] + Len(launches'[q])
            + (IF q = p THEN 1 ELSE 0)
    BY <1>0, <2>1 DEF Typed
  <2>4. QED BY <2>1, <2>2, <2>3, AttendedHandsOver
<1>3. CASE LaunchEnds(p)
  <2>1. /\ launches[p] # <<>> /\ launches' = [launches EXCEPT ![p] = Tail(launches[p])]
        /\ UNCHANGED <<proc, timers, abandoned, pc, hand>>
    BY <1>3 DEF LaunchEnds
  <2>2. PICK kind \in {"up", "failed"} : events' = Append(events, Event(kind, p))
    BY <1>3 DEF LaunchEnds
  <2>3. Live(q)' <=> Live(q) BY <2>1 DEF Live
  <2>4. Len(Tail(launches[p])) = Len(launches[p]) - 1
    BY <1>0, <2>1, HeadTailProperties
  <2>5. Len(launches'[q]) = Len(launches[q]) - (IF q = p THEN 1 ELSE 0)
    BY <1>0, <2>1, <2>4 DEF Typed
  <2>6. (IF proc[q] = "dying" THEN 1 ELSE 0) + timers[q] + Len(launches[q])
          = (IF proc'[q] = "dying" THEN 1 ELSE 0) + timers'[q] + Len(launches'[q])
            + (IF q = p THEN 1 ELSE 0)
    <3> DEFINE y == IF proc[q] = "dying" THEN 1 ELSE 0
               y2 == IF proc'[q] = "dying" THEN 1 ELSE 0
               it == IF q = p THEN 1 ELSE 0
    <3>1. y \in Nat /\ y2 = y /\ it \in Nat /\ timers'[q] = timers[q] BY <2>1
    <3>2. Len(launches'[q]) = Len(launches[q]) - it BY <2>5
    <3>3. y + timers[q] + Len(launches[q]) = y2 + timers'[q] + Len(launches'[q]) + it
      <4> HIDE DEF y, y2, it
      <4>1. QED BY <1>0, <3>1, <3>2
    <3>4. QED BY <3>3
  <2>7. QED BY <2>1, <2>2, <2>3, <2>6, AttendedHandsOver
<1>4. QED BY <1>1, <1>2, <1>3

LEMMA AttendedElapse ==
    ASSUME Typed, NEW q \in Plugins, Attended(q), Elapse
    PROVE  Attended(q)'
<1>1. UNCHANGED <<proc, events, timers, abandoned, pc, hand>>
  BY DEF Elapse, relaunchVars, ledgerVars
<1>2. launches'[q] = [i \in 1..Len(launches[q]) |-> launches[q][i] + 1] BY DEF Elapse
<1>3. launches[q] \in Seq(Nat) /\ Len(launches[q]) \in Nat
      /\ \A i \in 1..Len(launches[q]) : launches[q][i] \in Nat
  BY LenProperties DEF Typed
<1>4. launches'[q] \in Seq(Nat) /\ DOMAIN launches'[q] = 1..Len(launches[q])
  BY <1>2, <1>3, IsASeq
<1>5. Len(launches'[q]) = Len(launches[q]) BY <1>3, <1>4, LenProperties
<1>6. UnderWay(q)' = UnderWay(q) BY <1>1, <1>5, UnderWayIs
<1>7. QED BY <1>1, <1>6 DEF Attended, Live

LEMMA AttendedRest ==
    ASSUME NEW q, Attended(q),
           \/ \E t \in Tasks : Finish(t) \/ Retry(t)
           \/ GroupStop \/ StopArrives
    PROVE  Attended(q)'
<1> USE DEF relaunchVars, ledgerVars
<1>1. ASSUME NEW t \in Tasks, Finish(t) PROVE Attended(q)'
  BY <1>1, AttendedKept DEF Finish, Handled
<1>2. ASSUME NEW t \in Tasks, Retry(t) PROVE Attended(q)'
  BY <1>2, AttendedKept DEF Retry
<1>3. CASE GroupStop \/ StopArrives
  BY <1>3, AttendedKept DEF GroupStop, StopArrives
<1>4. QED BY <1>1, <1>2, <1>3

\* a run that has stopped stays stopped
LEMMA StaysStopped ==
    ASSUME [Next]_vars, pc = "stopped" PROVE pc' = "stopped"
<1> USE DEF passVars, taskVars, relaunchVars, ledgerVars
<1>1. CASE UNCHANGED vars BY <1>1 DEF vars
<1>2. CASE Supervising
  BY <1>2 DEF Supervising, TakeClosed, FailNext, TornDown, TakeDue, TakeUp, TakeFailed, Taking
<1>3. CASE Dispatching \/ Tick
  BY <1>3 DEF Dispatching, PassBegins, DispatchNext, Claim, Launch, Subscribe, PassEnds, Tick
<1>4. CASE Outside \/ \E p \in Plugins : Dies(p) \/ LaunchEnds(p)
  BY <1>4 DEF Outside, Notice, TimerFires, Dies, LaunchEnds
<1>5. CASE People \/ \E t \in Tasks : Finish(t)
  BY <1>5 DEF People, GroupStop, Retry, Finish
<1>6. CASE EndOfRun \/ Stopped \/ StopArrives \/ Elapse
  BY <1>6 DEF EndOfRun, Stopped, StopArrives, Elapse, vars
<1>7. QED BY <1>1, <1>2, <1>3, <1>4, <1>5, <1>6 DEF Next

LEMMA AttendedStep ==
    ASSUME Typed, Typed', DeadIsAttended, [Next]_vars PROVE DeadIsAttended'
<1>1. CASE pc = "stopped"
  <2>1. pc' = "stopped" BY <1>1, StaysStopped
  <2>2. QED BY <2>1 DEF DeadIsAttended
<1>2. CASE pc # "stopped" /\ pc' # "stopped"
  <2>1. SUFFICES ASSUME NEW q \in Plugins PROVE Attended(q)'
    BY DEF DeadIsAttended, Attended, Live
  <2>2. Attended(q) BY <1>2 DEF DeadIsAttended, Attended
  <2>3. CASE UNCHANGED vars BY <2>2, <2>3, AttendedKept DEF vars
  <2>4. CASE Supervising BY <2>1, <2>2, <2>4, AttendedSupervising
  <2>5. CASE Dispatching \/ Tick BY <2>2, <2>5, AttendedDispatching
  <2>6. CASE Outside \/ \E p \in Plugins : LaunchEnds(p)
    BY <2>1, <2>2, <2>6, AttendedOutside DEF Outside
  <2>7. CASE \E p \in Plugins : Dies(p) BY <2>1, <2>2, <2>7, AttendedDies
  <2>8. CASE Elapse BY <2>1, <2>2, <2>8, AttendedElapse
  <2>9. CASE People \/ StopArrives \/ \E t \in Tasks : Finish(t)
    BY <2>2, <2>9, AttendedRest DEF People
  <2>10. CASE EndOfRun BY <1>2, <2>10 DEF EndOfRun
  <2>11. CASE Stopped BY <1>2, <2>11 DEF Stopped
  <2>12. QED
    BY <2>3, <2>4, <2>5, <2>6, <2>7, <2>8, <2>9, <2>10, <2>11 DEF Next
<1>3. CASE pc' = "stopped" BY <1>3 DEF DeadIsAttended
<1>4. QED BY <1>1, <1>2, <1>3

LEMMA AttendedInit == Init => DeadIsAttended
<1> SUFFICES ASSUME Init, NEW p \in Plugins
    PROVE UnderWay(p) + (IF p \in abandoned THEN 1 ELSE 0) = (IF Live(p) THEN 0 ELSE 1)
  BY DEF DeadIsAttended
<1>1. /\ proc[p] = "live" /\ events = <<>> /\ timers[p] = 0 /\ launches[p] = <<>>
      /\ abandoned = {} /\ pc = "planning"
  BY DEF Init
<1>2. \A x : {i \in 1..Len(events) : events[i] = x} = {} BY <1>1, EmptySeq
<1>3. \A x : Occ(events, x) = 0 BY <1>2, FS_EmptySet DEF Occ
<1>4. Len(launches[p]) = 0 BY <1>1, EmptySeq
<1>5. UnderWay(p) = 0 BY <1>1, <1>3, <1>4, UnderWayIs
<1>6. QED BY <1>1, <1>5 DEF Live

(***************************************************************************)
(* A dead plugin is being brought back exactly once or is abandoned, and a *)
(* live one is not replaced, whatever dies, fails or is slow.              *)
(***************************************************************************)
THEOREM SupervisionDeadIsAttended == Spec => []DeadIsAttended
<1>1. Init => Typed /\ DeadIsAttended BY TypedInit, AttendedInit
<1>2. (Typed /\ DeadIsAttended) /\ [Next]_vars => (Typed /\ DeadIsAttended)'
  BY TypedStep, AttendedStep
<1>3. QED BY <1>1, <1>2, PTL DEF Spec

-----------------------------------------------------------------------------
(***************************************************************************)
(* Session routes.  A restarted plugin that is up is the only thing under  *)
(* way about it, so its Closed was taken before, and the routes with it.   *)
(***************************************************************************)

InPlace(p) ==
    proc[p] \in {"live", "dying"} \/ Occ(events, Event("closed", p)) > 0

LEMMA UpMeansTornDown ==
    ASSUME Typed, NEW p \in Plugins, Attended(p), Occ(events, Event("up", p)) > 0
    PROVE  ~InPlace(p)
<1> DEFINE y == IF proc[p] = "dying" THEN 1 ELSE 0
           torn == IF pc = "teardown" /\ hand = p THEN 1 ELSE 0
           given == IF p \in abandoned THEN 1 ELSE 0
           missing == IF Live(p) THEN 0 ELSE 1
           c == Occ(events, Event("closed", p))
           d == Occ(events, Event("due", p))
           u == Occ(events, Event("up", p))
           f == Occ(events, Event("failed", p))
           n == timers[p]
           l == Len(launches[p])
<1>1. /\ c \in Nat /\ d \in Nat /\ u \in Nat /\ f \in Nat /\ n \in Nat /\ l \in Nat
      /\ y \in Nat /\ torn \in Nat /\ given \in Nat /\ missing \in {0, 1} /\ u > 0
  BY TermsAreNat DEF Kinds
<1>2. y + c + d + u + f + torn + n + l + given = missing
  BY UnderWayIs DEF Attended
<1>3. c = 0 /\ y = 0 /\ missing = 1
  <2> HIDE DEF y, torn, given, missing, c, d, u, f, n, l
  <2>1. missing = 0 \/ missing = 1 BY <1>1
  <2>2. QED BY <1>1, <1>2, <2>1
<1>4. proc[p] # "dying" /\ proc[p] # "live" BY <1>3 DEF Live
<1>5. QED BY <1>3, <1>4 DEF InPlace

LEMMA RoutesAre ==
    /\ RoutesFollowInstances <=>
         \A t \in Tasks : route[t] # "old"
                          /\ (route[t] = "current" /\ pc # "stopped" => InPlace(AgentOf[t]))
    /\ RoutesFollowInstances' <=>
         \A t \in Tasks : route'[t] # "old"
                          /\ (route'[t] = "current" /\ pc' # "stopped" => InPlace(AgentOf[t])')
<1>1. \A p : Occurs("closed", p) = Occ(events, Event("closed", p)) BY DEF Occurs, Occ
<1>2. \A p : Occurs("closed", p)' = Occ(events', Event("closed", p)) BY DEF Occurs, Occ
<1>3. QED BY <1>1, <1>2 DEF RoutesFollowInstances, InPlace

\* a step that drops routes at most, and leaves instances in place
LEMMA RoutesKept ==
    ASSUME RoutesFollowInstances,
           \A t \in Tasks : route'[t] = route[t] \/ route'[t] = "none",
           \A t \in Tasks : pc' # "stopped" /\ route'[t] = "current" =>
               pc # "stopped" /\ (InPlace(AgentOf[t]) => InPlace(AgentOf[t])')
    PROVE  RoutesFollowInstances'
BY RoutesAre

LEMMA RoutesSame ==
    ASSUME RoutesFollowInstances, UNCHANGED <<proc, events>>, pc # "stopped",
           \A t \in Tasks : route'[t] = route[t] \/ route'[t] = "none"
    PROVE  RoutesFollowInstances'
<1>1. \A p : InPlace(p) => InPlace(p)' BY DEF InPlace
<1>2. QED BY <1>1, RoutesKept

LEMMA RoutesSupervising ==
    ASSUME Typed, Typed', DeadIsAttended, RoutesFollowInstances, Supervising
    PROVE  RoutesFollowInstances'
<1> USE DEF taskVars
<1>0. pc # "stopped"
  BY DEF Supervising, TakeClosed, FailNext, TornDown, TakeDue, TakeUp, TakeFailed, Taking
<1>1. CASE TakeClosed
  <2> DEFINE p == Head(events).plugin
  <2>1. /\ Taking("closed") /\ UNCHANGED proc /\ p \in Plugins
        /\ route' = RoutesWithout(p)
    BY <1>1, Takes DEF TakeClosed
  <2>2. \A t \in Tasks : /\ route'[t] = route[t] \/ route'[t] = "none"
                         /\ route'[t] = "current" => AgentOf[t] # p
    BY <2>1 DEF RoutesWithout, RoutedTo, Typed
  <2> HIDE DEF p
  <2>3. ASSUME NEW t \in Tasks, route'[t] = "current", InPlace(AgentOf[t])
        PROVE  InPlace(AgentOf[t])'
    <3>1. AgentOf[t] \in Plugins /\ AgentOf[t] # p BY <2>2, <2>3, AgentIs
    <3>2. Occ(events, Event("closed", AgentOf[t]))
            = Occ(events', Event("closed", AgentOf[t])) + 0
      BY <2>1, <3>1, Taken DEF Kinds, p
    <3>3. Occ(events', Event("closed", AgentOf[t])) \in Nat
      BY <3>1, TermsAreNatNext DEF Kinds
    <3>4. QED BY <2>1, <2>3, <3>2, <3>3 DEF InPlace
  <2>4. QED BY <1>0, <2>2, <2>3, RoutesKept
<1>2. CASE FailNext BY <1>0, <1>2, RoutesSame DEF FailNext
<1>3. CASE TornDown BY <1>0, <1>3, RoutesSame DEF TornDown
<1>4. CASE TakeDue \/ TakeFailed
  <2>1. PICK kind \in {"due", "failed"} : Taking(kind) /\ UNCHANGED <<proc, route>>
    BY <1>4 DEF TakeDue, TakeFailed
  <2>2. ASSUME NEW t \in Tasks, InPlace(AgentOf[t]) PROVE InPlace(AgentOf[t])'
    <3>1. Occ(events, Event("closed", AgentOf[t]))
            = Occ(events', Event("closed", AgentOf[t])) + 0
      BY <2>1, AgentIs, Taken DEF Kinds
    <3>2. Occ(events', Event("closed", AgentOf[t])) \in Nat
      BY AgentIs, TermsAreNatNext DEF Kinds
    <3>3. QED BY <2>1, <2>2, <3>1, <3>2 DEF InPlace
  <2>3. QED BY <1>0, <2>1, <2>2, RoutesKept
<1>5. CASE TakeUp
  <2> DEFINE p == Head(events).plugin
  <2>1. /\ Taking("up") /\ p \in Plugins /\ proc' = [proc EXCEPT ![p] = "live"]
        /\ route' = [t \in Tasks |-> IF t \in RoutedTo(p) THEN "old" ELSE route[t]]
    BY <1>5, Takes DEF TakeUp
  <2> HIDE DEF p
  <2>2. Occ(events, Event("up", p)) = Occ(events', Event("up", p)) + 1
    BY <2>1, Taken DEF Kinds, p
  <2>3. Occ(events, Event("up", p)) > 0
    BY <2>1, <2>2, TermsAreNatNext DEF Kinds
  <2>4. Attended(p) BY <1>0, <2>1 DEF DeadIsAttended, Attended
  <2>5. ~InPlace(p) BY <2>1, <2>3, <2>4, UpMeansTornDown
  <2>6. RoutedTo(p) = {} BY <1>0, <2>5, RoutesAre DEF RoutedTo, Typed
  <2>7. route' = route BY <2>1, <2>6 DEF Typed
  <2>8. ASSUME NEW t \in Tasks, InPlace(AgentOf[t]) PROVE InPlace(AgentOf[t])'
    <3>1. Occ(events, Event("closed", AgentOf[t]))
            = Occ(events', Event("closed", AgentOf[t])) + 0
      BY <2>1, AgentIs, Taken DEF Kinds
    <3>2. Occ(events', Event("closed", AgentOf[t])) \in Nat
      BY AgentIs, TermsAreNatNext DEF Kinds
    <3>3. proc[AgentOf[t]] \in {"live", "dying"} => proc'[AgentOf[t]] \in {"live", "dying"}
      BY <2>1, AgentIs DEF Typed
    <3>4. QED BY <2>8, <3>1, <3>2, <3>3 DEF InPlace
  <2>9. QED BY <1>0, <2>7, <2>8, RoutesKept
<1>6. QED BY <1>1, <1>2, <1>3, <1>4, <1>5 DEF Supervising

LEMMA RoutesDispatching ==
    ASSUME Typed, RoutesFollowInstances, Dispatching \/ Tick
    PROVE  RoutesFollowInstances'
<1> USE DEF taskVars
<1>0. pc # "stopped" /\ UNCHANGED <<proc, events>>
  BY DEF Dispatching, PassBegins, DispatchNext, Claim, Launch, Subscribe, PassEnds,
         Tick, PassFrame
<1>1. CASE PassBegins \/ PassEnds \/ Tick
  BY <1>0, <1>1, RoutesSame DEF PassBegins, PassEnds, Tick
<1>2. CASE DispatchNext BY <1>0, <1>2, RoutesSame DEF DispatchNext
<1>3. CASE Claim BY <1>0, <1>3, RoutesSame DEF Claim
<1>4. CASE Launch
  <2>1. CASE UNCHANGED route BY <1>0, <2>1, RoutesSame
  <2>2. CASE Live(AgentOf[hand]) /\ route' = [route EXCEPT ![hand] = "current"]
    <3>1. ASSUME NEW t \in Tasks
          PROVE  /\ route'[t] # "old"
                 /\ route'[t] = "current" => InPlace(AgentOf[t])'
      <4>1. CASE t = hand BY <1>0, <2>2, <4>1 DEF Typed, Live, InPlace
      <4>2. CASE t # hand
        <5>1. route'[t] = route[t] BY <2>2, <4>2 DEF Typed
        <5>2. InPlace(AgentOf[t]) => InPlace(AgentOf[t])' BY <1>0 DEF InPlace
        <5>3. QED BY <1>0, <5>1, <5>2, RoutesAre
      <4>3. QED BY <4>1, <4>2
    <3>2. QED BY <3>1, RoutesAre
  <2>3. QED BY <1>4, <2>1, <2>2 DEF Launch
<1>5. CASE Subscribe
  <2>1. \A t \in Tasks : route'[t] = route[t] \/ route'[t] = "none"
    BY <1>5 DEF Subscribe, Typed
  <2>2. QED BY <1>0, <2>1, RoutesSame
<1>6. QED BY <1>1, <1>2, <1>3, <1>4, <1>5 DEF Dispatching

LEMMA RoutesRest ==
    ASSUME Typed, Typed', RoutesFollowInstances,
           \/ \E p \in Plugins : Dies(p) \/ Notice(p) \/ TimerFires(p) \/ LaunchEnds(p)
           \/ \E t \in Tasks : Finish(t) \/ Retry(t)
           \/ GroupStop \/ StopArrives \/ EndOfRun \/ Elapse
    PROVE  RoutesFollowInstances'
<1> USE DEF taskVars
<1>1. ASSUME NEW p \in Plugins, Dies(p) PROVE RoutesFollowInstances'
  <2>1. /\ proc[p] = "live" /\ proc' = [proc EXCEPT ![p] = "dying"]
        /\ UNCHANGED <<events, route, pc>> /\ pc # "stopped"
    BY <1>1 DEF Dies
  <2>2. \A q \in Plugins : InPlace(q) => InPlace(q)' BY <2>1 DEF InPlace, Typed
  <2>3. QED BY <2>1, <2>2, AgentIs, RoutesKept
<1>2. ASSUME NEW p \in Plugins, Notice(p) \/ TimerFires(p) \/ LaunchEnds(p)
      PROVE RoutesFollowInstances'
  <2>1. PICK kind \in Kinds : events' = Append(events, Event(kind, p))
    BY <1>2 DEF Notice, TimerFires, LaunchEnds, Kinds
  <2>2. UNCHANGED route /\ UNCHANGED pc /\ pc # "stopped"
    BY <1>2 DEF Notice, TimerFires, LaunchEnds
  <2>3. ASSUME NEW q \in Plugins, InPlace(q) PROVE InPlace(q)'
    <3>1. Occ(events, Event("closed", q)) \in Nat BY TermsAreNat DEF Kinds
    <3>2. Occ(events', Event("closed", q))
            = Occ(events, Event("closed", q)) + (IF "closed" = kind /\ q = p THEN 1 ELSE 0)
      BY <2>1, Sent DEF Kinds
    <3>3. CASE Occ(events, Event("closed", q)) > 0
      <4>1. Occ(events', Event("closed", q)) > 0 BY <3>1, <3>2, <3>3
      <4>2. QED BY <4>1 DEF InPlace
    <3>4. CASE proc[q] \in {"live", "dying"}
      <4>1. CASE proc' = proc BY <3>4, <4>1 DEF InPlace
      <4>2. CASE proc' # proc
        <5>1. Notice(p) BY <1>2, <4>2 DEF TimerFires, LaunchEnds
        <5>2. /\ proc' = [proc EXCEPT ![p] = "dead"]
              /\ events' = Append(events, Event("closed", p))
          BY <5>1 DEF Notice
        <5>3. CASE q = p
          <6>1. Occ(events', Event("closed", q)) = Occ(events, Event("closed", q)) + 1
            BY <5>2, <5>3, Sent DEF Kinds
          <6>2. QED BY <3>1, <6>1 DEF InPlace
        <5>4. CASE q # p
          <6>1. proc'[q] = proc[q] BY <5>2, <5>4 DEF Typed
          <6>2. QED BY <3>4, <6>1 DEF InPlace
        <5>5. QED BY <5>3, <5>4
      <4>3. QED BY <4>1, <4>2
    <3>5. QED BY <2>3, <3>3, <3>4 DEF InPlace
  <2>4. QED BY <2>2, <2>3, AgentIs, RoutesKept
<1>3. ASSUME NEW t \in Tasks, Finish(t) PROVE RoutesFollowInstances'
  <2>1. /\ \A u \in Tasks : route'[u] = route[u] \/ route'[u] = "none"
        /\ UNCHANGED <<proc, events>> /\ pc # "stopped"
    BY <1>3 DEF Finish, Typed
  <2>2. QED BY <2>1, RoutesSame
<1>4. ASSUME NEW t \in Tasks, Retry(t) PROVE RoutesFollowInstances'
  BY <1>4, RoutesSame DEF Retry
<1>5. CASE GroupStop \/ StopArrives
  <2>1. UNCHANGED <<proc, events, route, pc>> BY <1>5 DEF GroupStop, StopArrives
  <2>2. \A p : InPlace(p) => InPlace(p)' BY <2>1 DEF InPlace
  <2>3. QED BY <2>1, <2>2, RoutesKept
<1>6. CASE EndOfRun \/ Elapse
  BY <1>6, RoutesSame DEF EndOfRun, Elapse
<1>7. QED BY <1>1, <1>2, <1>3, <1>4, <1>5, <1>6

LEMMA RoutesStep ==
    ASSUME Typed, Typed', DeadIsAttended, RoutesFollowInstances, [Next]_vars
    PROVE  RoutesFollowInstances'
<1>1. CASE UNCHANGED vars
  <2>1. UNCHANGED <<proc, events, route, pc>> BY <1>1 DEF vars
  <2>2. \A p : InPlace(p) => InPlace(p)' BY <2>1 DEF InPlace
  <2>3. QED BY <2>1, <2>2, RoutesKept
<1>2. CASE Next
  BY <1>1, <1>2, RoutesSupervising, RoutesDispatching, RoutesRest
  DEF Next, Outside, People, Stopped
<1>3. QED BY <1>1, <1>2

(***************************************************************************)
(* A session route leads to the instance in place: no restarted plugin can *)
(* hand out a session id that still means a task of the one before it.     *)
(***************************************************************************)
THEOREM SupervisionRoutesFollowInstances == Spec => []RoutesFollowInstances
<1>1. Init => RoutesFollowInstances BY RoutesAre DEF Init
<1>2. Init => Typed /\ DeadIsAttended BY TypedInit, AttendedInit
<1>3. (Typed /\ DeadIsAttended /\ RoutesFollowInstances) /\ [Next]_vars
        => (Typed /\ DeadIsAttended /\ RoutesFollowInstances)'
  BY TypedStep, AttendedStep, RoutesStep
<1>4. QED BY <1>1, <1>2, <1>3, PTL DEF Spec

-----------------------------------------------------------------------------
(***************************************************************************)
(* Slots.  In a pass they are also held by what the pass has planned and   *)
(* by the task in hand, all of which are queued.                           *)
(***************************************************************************)

Followed == {t \in Tasks : state[t] = "dispatched"}
Planned == {Queue[i] : i \in plan}
InHand == IF pc \in {"claim", "launch"} THEN {hand} ELSE {}

SlotsHeld ==
    /\ holders = Followed \cup Planned \cup InHand
    /\ \A i \in plan : state[Queue[i]] = "queued"
    /\ plan # {} => InPass
    /\ pc \in {"claim", "launch"} => state[hand] = "queued" /\ hand \notin Planned
    /\ pc = "subscribe" => state[hand] = "dispatched"

LEMMA PlannedAreTasks ==
    Typed => Planned \subseteq Tasks /\ \A i \in plan : Queue[i] \in Tasks
BY DEF Typed, Planned, Tasks

\* what changes no slot
LEMMA SlotsSame ==
    ASSUME SlotsHeld, UNCHANGED <<state, holders, plan>>,
           \/ UNCHANGED <<pc, hand>>
           \/ ~InPass /\ ~InPass'
    PROVE  SlotsHeld'
BY DEF SlotsHeld, Followed, Planned, InHand, InPass

\* between passes a task ends
LEMMA SlotsEnd ==
    ASSUME Typed, SlotsHeld, NEW t \in Tasks, NEW s \in {"done", "failed"},
           ~InPass, ~InPass', state' = [state EXCEPT ![t] = s],
           holders' = holders \ {t}, plan' = plan
    PROVE  SlotsHeld'
<1>1. plan = {} /\ plan' = {} BY DEF SlotsHeld
<1>2. Followed' = Followed \ {t} BY DEF Followed, Typed
<1>3. QED BY <1>1, <1>2 DEF SlotsHeld, Planned, InHand, InPass

LEMMA SlotsSupervising ==
    ASSUME Typed, SlotsHeld, Supervising PROVE SlotsHeld'
<1> USE DEF passVars, taskVars
<1>1. CASE TakeClosed
  BY <1>1, SlotsSame DEF TakeClosed, Taking, InPass
<1>2. CASE FailNext
  <2>1. PICK t \in todo :
          IF state[t] \in {"done", "failed", "skipped"}
          THEN UNCHANGED <<state, holders>>
          ELSE /\ state' = [state EXCEPT ![t] = "failed"] /\ holders' = holders \ {t}
    BY <1>2 DEF FailNext
  <2>2. pc = "teardown" /\ UNCHANGED <<pc, hand, plan>> BY <1>2 DEF FailNext
  <2>3. CASE UNCHANGED <<state, holders>> BY <2>2, <2>3, SlotsSame
  <2>4. CASE /\ state[t] \notin {"done", "failed", "skipped"}
             /\ state' = [state EXCEPT ![t] = "failed"] /\ holders' = holders \ {t}
    <3>1. CASE t \in Tasks BY <2>2, <2>4, <3>1, SlotsEnd DEF InPass
    <3>2. CASE t \notin Tasks
      <4>1. state' = state BY <2>4, <3>2 DEF Typed
      <4>2. holders' = holders BY <2>4, <3>2 DEF Typed
      <4>3. QED BY <2>2, <4>1, <4>2, SlotsSame
    <3>3. QED BY <3>1, <3>2
  <2>5. QED BY <2>1, <2>3, <2>4
<1>3. CASE TornDown BY <1>3, SlotsSame DEF TornDown, Handled, InPass
<1>4. CASE TakeDue BY <1>4, SlotsSame DEF TakeDue, Taking, Handled, InPass
<1>5. CASE TakeUp BY <1>5, SlotsSame DEF TakeUp, Taking, Handled, InPass
<1>6. CASE TakeFailed BY <1>6, SlotsSame DEF TakeFailed, Taking, Handled, InPass
<1>7. QED BY <1>1, <1>2, <1>3, <1>4, <1>5, <1>6 DEF Supervising

\* a task in hand gives its slot back
LEMMA SlotsGivenBack ==
    ASSUME Typed, SlotsHeld, NEW t \in Tasks, t \notin Planned', InPass,
           plan' \subseteq plan, Planned' \subseteq Planned, Planned \subseteq Planned' \cup {t},
           InHand \subseteq {t}, holders' = holders \ {t}, pc' = "pass",
           state' \in [Tasks -> {"queued", "dispatched", "done", "failed", "skipped"}],
           state'[t] # "dispatched", \A u \in Tasks \ {t} : state'[u] = state[u]
    PROVE  SlotsHeld'
<1>1. Followed' = Followed \ {t} BY DEF Followed, Typed
<1>2. InHand' = {} BY DEF InHand
<1>3. holders' = Followed' \cup Planned' \cup InHand'
  BY <1>1, <1>2 DEF SlotsHeld
<1>4. ASSUME NEW i \in plan' PROVE state'[Queue[i]] = "queued"
  <2>1. i \in plan /\ Queue[i] \in Tasks BY PlannedAreTasks
  <2>2. Queue[i] # t BY DEF Planned
  <2>3. state[Queue[i]] = "queued" BY <2>1 DEF SlotsHeld
  <2>4. QED BY <2>1, <2>2, <2>3
<1>5. QED BY <1>3, <1>4 DEF SlotsHeld, InPass

LEMMA SlotsDispatchNext ==
    ASSUME Typed, SlotsHeld, DispatchNext PROVE SlotsHeld'
<1>1. PICK i \in plan :
        /\ plan' = plan \ {i}
        /\ LET t == Queue[i]
           IN  \/ /\ Parked(t)
                  /\ holders' = HoldersParking(t)
                  /\ UNCHANGED <<state, streak, pc, hand, disturbed>>
               \/ /\ Refused(t) /\ FailDispatch(t)
                  /\ UNCHANGED <<pc, hand>>
               \/ /\ pc' = "claim" /\ hand' = t
                  /\ UNCHANGED <<state, streak, holders, disturbed>>
  BY DEF DispatchNext
<1> DEFINE t == Queue[i]
<1>2. /\ t \in Tasks /\ pc = "pass" /\ InPass /\ state[t] = "queued" /\ InHand = {}
      /\ plan \subseteq 1..Len(Queue)
  BY PlannedAreTasks DEF DispatchNext, InPass, SlotsHeld, InHand, Typed
<1>3. /\ plan' \subseteq plan /\ Planned' \subseteq Planned
      /\ Planned \subseteq Planned' \cup {t}
  BY <1>1 DEF Planned
<1>4. t \notin Planned'
  <2>1. \A j \in plan' : j \in 1..Len(Queue) /\ i \in 1..Len(Queue) /\ j # i
    BY <1>1, <1>2
  <2>2. \A j \in plan' : Queue[j] # Queue[i] BY <2>1, QueueAssumption
  <2>3. QED BY <2>2 DEF Planned
<1>5. CASE holders' = HoldersParking(t) /\ UNCHANGED <<state, pc>>
  BY <1>2, <1>3, <1>4, <1>5, SlotsGivenBack DEF HoldersParking, Typed
<1>6. CASE FailDispatch(t) /\ UNCHANGED <<pc, hand>>
  <2>1. /\ state' \in [Tasks -> {"queued", "dispatched", "done", "failed", "skipped"}]
        /\ holders' = holders \ {t} /\ state'[t] # "dispatched"
        /\ \A u \in Tasks \ {t} : state'[u] = state[u]
    BY <1>2, <1>6, Fails
  <2>2. pc' = "pass" BY <1>2, <1>6
  <2> HIDE DEF t
  <2>3. QED BY <1>2, <1>3, <1>4, <2>1, <2>2, SlotsGivenBack
<1>7. CASE pc' = "claim" /\ hand' = t /\ UNCHANGED <<state, holders>>
  <2>1. Followed' = Followed /\ InHand' = {t} BY <1>7 DEF Followed, InHand
  <2>2. t \in Planned BY DEF Planned
  <2>3. holders' = Followed' \cup Planned' \cup InHand'
    BY <1>2, <1>3, <1>7, <2>1, <2>2 DEF SlotsHeld
  <2>4. \A j \in plan' : state'[Queue[j]] = "queued"
    BY <1>3, <1>7 DEF SlotsHeld
  <2>5. QED BY <1>2, <1>4, <1>7, <2>3, <2>4 DEF SlotsHeld, InPass
<1>8. QED BY <1>1, <1>5, <1>6, <1>7

LEMMA SlotsDispatching ==
    ASSUME Typed, SlotsHeld, Dispatching \/ Tick PROVE SlotsHeld'
<1> USE DEF taskVars, passVars
<1>1. CASE PassBegins
  <2>1. /\ pc = "planning" /\ pc' = "pass" /\ plan' = Plan /\ UNCHANGED state
        /\ holders' = holders \cup {Queue[i] : i \in Plan}
    BY <1>1 DEF PassBegins
  <2>2. Followed' = Followed /\ InHand' = {} /\ InHand = {} /\ Planned' = {Queue[i] : i \in Plan}
    BY <2>1 DEF Followed, InHand, Planned
  <2>3. Planned = {} BY <2>1 DEF SlotsHeld, InPass, Planned
  <2>4. holders' = Followed' \cup Planned' \cup InHand' BY <2>1, <2>2, <2>3 DEF SlotsHeld
  <2>5. \A i \in plan' : state'[Queue[i]] = "queued" BY <2>1 DEF Plan, Ready
  <2>6. QED BY <2>1, <2>4, <2>5 DEF SlotsHeld, InPass
<1>2. CASE DispatchNext BY <1>2, SlotsDispatchNext
<1>3. CASE Claim
  <2>1. /\ pc = "claim" /\ hand \in Tasks /\ InPass /\ InHand = {hand} /\ plan' = plan
        /\ Planned' = Planned /\ hand \notin Planned /\ state[hand] = "queued"
    BY <1>3 DEF Claim, Typed, InPass, InHand, Planned, SlotsHeld
  <2>2. CASE pc' = "launch" /\ UNCHANGED <<state, holders, hand>>
    BY <2>1, <2>2 DEF SlotsHeld, Followed, InHand, InPass
  <2>3. CASE /\ \E s \in {"skipped", "failed"} : state' = [state EXCEPT ![hand] = s]
             /\ holders' = holders \ {hand} /\ BackToPass
    <3>1. /\ state' \in [Tasks -> {"queued", "dispatched", "done", "failed", "skipped"}]
          /\ state'[hand] # "dispatched" /\ \A u \in Tasks \ {hand} : state'[u] = state[u]
      BY <2>1, <2>3 DEF Typed
    <3>2. QED BY <2>1, <2>3, <3>1, SlotsGivenBack DEF BackToPass
  <2>4. CASE holders' = holders \ {hand} /\ BackToPass /\ UNCHANGED state
    BY <2>1, <2>4, SlotsGivenBack DEF BackToPass, Typed
  <2>5. QED BY <1>3, <2>2, <2>3, <2>4 DEF Claim
<1>4. CASE Launch
  <2>1. /\ pc = "launch" /\ hand \in Tasks /\ InPass /\ InHand = {hand} /\ plan' = plan
        /\ Planned' = Planned /\ hand \notin Planned /\ state[hand] = "queued"
    BY <1>4 DEF Launch, Typed, InPass, InHand, Planned, SlotsHeld
  <2>2. CASE FailDispatch(hand) /\ BackToPass
    <3>1. /\ state' \in [Tasks -> {"queued", "dispatched", "done", "failed", "skipped"}]
          /\ holders' = holders \ {hand} /\ state'[hand] # "dispatched"
          /\ \A u \in Tasks \ {hand} : state'[u] = state[u]
      BY <2>1, <2>2, Fails
    <3>2. QED BY <2>1, <2>2, <3>1, SlotsGivenBack DEF BackToPass
  <2>3. CASE /\ state' = [state EXCEPT ![hand] = "dispatched"]
             /\ pc' = "subscribe" /\ UNCHANGED <<holders, hand>>
    <3>1. Followed' = Followed \cup {hand} /\ InHand' = {}
      BY <2>1, <2>3 DEF Followed, InHand, Typed
    <3>2. holders' = Followed' \cup Planned' \cup InHand' BY <2>1, <2>3, <3>1 DEF SlotsHeld
    <3>3. ASSUME NEW i \in plan' PROVE state'[Queue[i]] = "queued"
      <4>1. i \in plan /\ Queue[i] \in Tasks /\ Queue[i] # hand
        BY <2>1, PlannedAreTasks DEF Planned
      <4>2. QED BY <2>3, <4>1 DEF SlotsHeld, Typed
    <3>4. state'[hand'] = "dispatched" BY <2>1, <2>3 DEF Typed
    <3>5. QED BY <2>1, <2>3, <3>2, <3>3, <3>4 DEF SlotsHeld, InPass
  <2>4. QED BY <1>4, <2>2, <2>3 DEF Launch
<1>5. CASE Subscribe
  <2>1. /\ pc = "subscribe" /\ hand \in Tasks /\ InPass /\ InHand = {} /\ plan' = plan
        /\ Planned' = Planned /\ state[hand] = "dispatched" /\ BackToPass
    BY <1>5 DEF Subscribe, Typed, InPass, InHand, Planned, SlotsHeld
  <2>2. CASE UNCHANGED taskVars
    BY <2>1, <2>2 DEF SlotsHeld, Followed, InHand, InPass, BackToPass
  <2>3. CASE FailDispatch(hand)
    <3>1. /\ state' \in [Tasks -> {"queued", "dispatched", "done", "failed", "skipped"}]
          /\ holders' = holders \ {hand} /\ state'[hand] # "dispatched"
          /\ \A u \in Tasks \ {hand} : state'[u] = state[u]
      BY <2>1, <2>3, Fails
    <3>2. hand \notin Planned BY <2>1 DEF SlotsHeld, Planned
    <3>3. QED BY <2>1, <3>1, <3>2, SlotsGivenBack DEF BackToPass
  <2>4. QED BY <1>5, <2>2, <2>3 DEF Subscribe
<1>6. CASE PassEnds
  BY <1>6 DEF PassEnds, SlotsHeld, Followed, Planned, InHand, InPass
<1>7. CASE Tick BY <1>7, SlotsSame DEF Tick, InPass
<1>8. QED BY <1>1, <1>2, <1>3, <1>4, <1>5, <1>6, <1>7 DEF Dispatching

LEMMA SlotsRest ==
    ASSUME Typed, SlotsHeld,
           \/ \E p \in Plugins : Dies(p) \/ Notice(p) \/ TimerFires(p) \/ LaunchEnds(p)
           \/ \E t \in Tasks : Finish(t) \/ Retry(t)
           \/ GroupStop \/ StopArrives \/ EndOfRun \/ Elapse
    PROVE  SlotsHeld'
<1> USE DEF taskVars, passVars
<1>1. CASE \E p \in Plugins : Dies(p) \/ Notice(p) \/ TimerFires(p) \/ LaunchEnds(p)
  BY <1>1, SlotsSame DEF Dies, Notice, TimerFires, LaunchEnds
<1>2. ASSUME NEW t \in Tasks, Finish(t) PROVE SlotsHeld'
  <2>1. /\ ~InPass /\ ~InPass' /\ state' = [state EXCEPT ![t] = "done"]
        /\ holders' = holders \ {t} /\ plan' = plan
    BY <1>2 DEF Finish, Handled, InPass
  <2>2. QED BY <2>1, SlotsEnd
<1>3. ASSUME NEW t \in Tasks, Retry(t) PROVE SlotsHeld'
  <2>1. /\ state[t] = "failed" /\ state' = [state EXCEPT ![t] = "queued"]
        /\ UNCHANGED <<holders, pc, hand, plan>>
    BY <1>3 DEF Retry
  <2>2. Followed' = Followed BY <2>1 DEF Followed, Typed
  <2>3. Planned' = Planned /\ InHand' = InHand BY <2>1 DEF Planned, InHand
  <2>4. \A i \in plan : Queue[i] \in Tasks BY PlannedAreTasks
  <2>5. \A u \in Tasks : state[u] # "failed" => state'[u] = state[u] BY <2>1 DEF Typed
  <2>6. \A i \in plan' : state'[Queue[i]] = "queued" BY <2>1, <2>4, <2>5 DEF SlotsHeld
  <2>7. pc \in {"claim", "launch", "subscribe"} => state'[hand] = state[hand]
    BY <2>5 DEF SlotsHeld, Typed
  <2>8. QED BY <2>1, <2>2, <2>3, <2>6, <2>7 DEF SlotsHeld, InPass
<1>4. CASE GroupStop \/ StopArrives
  BY <1>4, SlotsSame DEF GroupStop, StopArrives
<1>5. CASE EndOfRun \/ Elapse
  BY <1>5, SlotsSame DEF EndOfRun, Elapse, InPass
<1>6. QED BY <1>1, <1>2, <1>3, <1>4, <1>5

LEMMA SlotsStep ==
    ASSUME Typed, SlotsHeld, [Next]_vars PROVE SlotsHeld'
<1>1. CASE UNCHANGED vars BY <1>1, SlotsSame DEF vars
<1>2. CASE Next
  BY <1>1, <1>2, SlotsSupervising, SlotsDispatching, SlotsRest
  DEF Next, Outside, People, Stopped
<1>3. QED BY <1>1, <1>2

LEMMA SlotsInit == Init => SlotsHeld
BY DEF Init, SlotsHeld, Followed, Planned, InHand, InPass

(***************************************************************************)
(* Between events the slots are held by the followed tasks and by nobody   *)
(* else, whatever died in the pass before.                                 *)
(***************************************************************************)
THEOREM SupervisionSlotsAreOfFollowed == Spec => []SlotsAreOfFollowed
<1>1. Init => Typed /\ SlotsHeld BY TypedInit, SlotsInit
<1>2. (Typed /\ SlotsHeld) /\ [Next]_vars => (Typed /\ SlotsHeld)'
  BY TypedStep, SlotsStep
<1>3. SlotsHeld => SlotsAreOfFollowed
  BY DEF SlotsHeld, SlotsAreOfFollowed, Followed, Planned, InHand, InPass
<1>4. QED BY <1>1, <1>2, <1>3, PTL DEF Spec

-----------------------------------------------------------------------------
(***************************************************************************)
(* The stop.  A teardown is of a plugin that died before the stop was      *)
(* asked for, and what fails in a pass is queued, or is retried.           *)
(***************************************************************************)

StopOK ==
    /\ stop = "none" => killed = {}
    /\ pc = "teardown" =>
         hand \notin killed /\ \A t \in todo : t \in Tasks /\ AgentOf[t] = hand
    /\ pc = "subscribe" => streak[hand] = 0

LEMMA TornDownIsDead ==
    ASSUME Typed, NEW p \in Plugins, Attended(p), pc = "teardown", hand = p
    PROVE  ~Live(p)
<1> DEFINE y == IF proc[p] = "dying" THEN 1 ELSE 0
           given == IF p \in abandoned THEN 1 ELSE 0
           c == Occ(events, Event("closed", p))
           d == Occ(events, Event("due", p))
           u == Occ(events, Event("up", p))
           f == Occ(events, Event("failed", p))
           n == timers[p]
           l == Len(launches[p])
<1>1. /\ c \in Nat /\ d \in Nat /\ u \in Nat /\ f \in Nat /\ n \in Nat /\ l \in Nat
      /\ y \in Nat /\ given \in Nat
  BY TermsAreNat DEF Kinds
<1>2. UnderWay(p) = y + c + d + u + f + 1 + n + l BY UnderWayIs
<1>3. UnderWay(p) + given # 0
  <2> HIDE DEF y, given, c, d, u, f, n, l
  <2>1. QED BY <1>1, <1>2
<1>4. QED BY <1>3 DEF Attended

LEMMA StopSupervising ==
    ASSUME Typed, StopOK, Supervising PROVE StopOK'
<1> USE DEF stopVars, passVars, taskVars
<1>1. CASE TakeClosed
  <2>1. /\ stop = "none" /\ UNCHANGED <<stop, killed>> /\ pc' = "teardown"
        /\ hand' = Head(events).plugin /\ todo' = RoutedTo(Head(events).plugin)
    BY <1>1 DEF TakeClosed, WaitedForStop
  <2>2. QED BY <2>1 DEF StopOK, RoutedTo
<1>2. CASE FailNext BY <1>2 DEF FailNext, StopOK
<1>3. CASE TornDown BY <1>3 DEF TornDown, Handled, StopOK
<1>4. CASE TakeDue BY <1>4 DEF TakeDue, Handled, StopOK
<1>5. CASE TakeUp BY <1>5 DEF TakeUp, Handled, StopOK
<1>6. CASE TakeFailed BY <1>6 DEF TakeFailed, Handled, StopOK
<1>7. QED BY <1>1, <1>2, <1>3, <1>4, <1>5, <1>6 DEF Supervising

LEMMA StopDispatching ==
    ASSUME Typed, StopOK, Dispatching \/ Tick PROVE StopOK'
<1> USE DEF stopVars, passVars, taskVars
<1>1. CASE PassBegins \/ PassEnds \/ Tick
  BY <1>1 DEF PassBegins, PassEnds, Tick, StopOK
<1>2. CASE DispatchNext
  <2>1. pc' \in {"pass", "claim"} /\ UNCHANGED <<stop, killed>>
    BY <1>2 DEF DispatchNext, PassFrame
  <2>2. QED BY <2>1 DEF StopOK
<1>3. CASE Claim
  <2>1. pc' \in {"pass", "launch"} /\ UNCHANGED <<stop, killed>>
    BY <1>3 DEF Claim, PassFrame, BackToPass
  <2>2. QED BY <2>1 DEF StopOK
<1>4. CASE Launch
  <2>1. /\ pc' = "pass" \/ (pc' = "subscribe" /\ streak' = [streak EXCEPT ![hand] = 0]
                            /\ hand' = hand)
        /\ UNCHANGED <<stop, killed>> /\ hand \in Tasks
    BY <1>4 DEF Launch, PassFrame, BackToPass, Typed
  <2>2. pc' = "subscribe" => streak'[hand'] = 0 BY <2>1 DEF Typed
  <2>3. QED BY <2>1, <2>2 DEF StopOK
<1>5. CASE Subscribe
  <2>1. pc' = "pass" /\ UNCHANGED <<stop, killed>>
    BY <1>5 DEF Subscribe, PassFrame, BackToPass
  <2>2. QED BY <2>1 DEF StopOK
<1>6. QED BY <1>1, <1>2, <1>3, <1>4, <1>5 DEF Dispatching

LEMMA StopRest ==
    ASSUME Typed, DeadIsAttended, StopOK,
           \/ \E p \in Plugins : Dies(p) \/ Notice(p) \/ TimerFires(p) \/ LaunchEnds(p)
           \/ \E t \in Tasks : Finish(t) \/ Retry(t)
           \/ GroupStop \/ StopArrives \/ EndOfRun \/ Elapse
    PROVE  StopOK'
<1> USE DEF stopVars, passVars, taskVars
<1>1. ASSUME NEW p \in Plugins, Dies(p) PROVE StopOK'
  <2>1. /\ Live(p) /\ pc # "stopped" /\ UNCHANGED <<pc, hand, todo, streak, stop>>
        /\ killed' = killed \/ (stop # "none" /\ killed' = killed \cup {p})
    BY <1>1 DEF Dies, Live
  <2>2. pc = "teardown" => hand # p
    BY <2>1, TornDownIsDead DEF DeadIsAttended, Attended
  <2>3. QED BY <2>1, <2>2 DEF StopOK
<1>2. CASE \E p \in Plugins : Notice(p) \/ TimerFires(p) \/ LaunchEnds(p)
  BY <1>2 DEF Notice, TimerFires, LaunchEnds, StopOK
<1>3. ASSUME NEW t \in Tasks, Finish(t) PROVE StopOK'
  BY <1>3 DEF Finish, Handled, StopOK
<1>4. ASSUME NEW t \in Tasks, Retry(t) PROVE StopOK'
  <2>1. UNCHANGED <<pc, hand, todo, stop, killed>> /\ streak' = [streak EXCEPT ![t] = 0]
    BY <1>4 DEF Retry
  <2>2. pc = "subscribe" /\ streak[hand] = 0 => streak'[hand] = 0 BY <2>1 DEF Typed
  <2>3. QED BY <2>1, <2>2 DEF StopOK
<1>5. CASE GroupStop \/ StopArrives
  BY <1>5 DEF GroupStop, StopArrives, StopOK
<1>6. CASE EndOfRun \/ Elapse BY <1>6 DEF EndOfRun, Elapse, StopOK
<1>7. QED BY <1>1, <1>2, <1>3, <1>4, <1>5, <1>6

LEMMA StopStep ==
    ASSUME Typed, DeadIsAttended, StopOK, [Next]_vars PROVE StopOK'
<1>1. CASE UNCHANGED vars BY <1>1 DEF vars, StopOK
<1>2. CASE Next
  BY <1>1, <1>2, StopSupervising, StopDispatching, StopRest
  DEF Next, Outside, People, Stopped
<1>3. QED BY <1>1, <1>2

\* what no step does to a followed task
LEMMA NoFollowedFails ==
    ASSUME Typed, SlotsHeld, StopOK, [Next]_vars, NEW t \in Tasks,
           state[t] = "dispatched", state'[t] = "failed"
    PROVE  AgentOf[t] \notin killed
<1> USE DEF passVars, taskVars
<1>1. CASE UNCHANGED <<state>> BY <1>1
<1>2. CASE FailNext
  <2>1. PICK u \in todo : state' = state \/ state' = [state EXCEPT ![u] = "failed"]
    BY <1>2 DEF FailNext
  <2>2. u = t BY <2>1 DEF Typed
  <2>3. QED BY <1>2, <2>2 DEF FailNext, StopOK
<1>3. CASE DispatchNext
  <2>1. PICK i \in plan : state' = state \/ FailDispatch(Queue[i]) BY <1>3 DEF DispatchNext
  <2>2. Queue[i] \in Tasks /\ Queue[i] # t BY PlannedAreTasks DEF SlotsHeld
  <2>3. state'[t] = state[t] BY <2>1, <2>2, Fails
  <2>4. QED BY <2>3
<1>4. CASE Claim \/ Launch
  <2>1. hand \in Tasks /\ hand # t BY <1>4 DEF Claim, Launch, Typed, SlotsHeld
  <2>2. \/ state' = state \/ FailDispatch(hand)
        \/ \E s \in {"skipped", "failed", "dispatched"} : state' = [state EXCEPT ![hand] = s]
    BY <1>4 DEF Claim, Launch
  <2>3. state'[t] = state[t] BY <2>1, <2>2, Fails DEF Typed
  <2>4. QED BY <2>3
<1>5. CASE Subscribe
  <2>1. hand \in Tasks /\ streak[hand] = 0 BY <1>5 DEF Subscribe, Typed, StopOK
  <2>2. state' = state \/ FailDispatch(hand) BY <1>5 DEF Subscribe
  <2>3. state'[t] = state[t] \/ state'[t] = "queued" BY <2>1, <2>2, Fails
  <2>4. QED BY <2>3
<1>6. ASSUME NEW u \in Tasks, Finish(u) \/ Retry(u) PROVE FALSE
  BY <1>6 DEF Finish, Retry, Typed
<1>7. CASE ~(FailNext \/ DispatchNext \/ Claim \/ Launch \/ Subscribe
             \/ \E u \in Tasks : Finish(u) \/ Retry(u))
  <2>1. UNCHANGED state
    <3>1. CASE Supervising
      BY <1>7, <3>1 DEF Supervising, TakeClosed, TornDown, TakeDue, TakeUp, TakeFailed
    <3>2. CASE Dispatching \/ Tick
      BY <1>7, <3>2 DEF Dispatching, PassBegins, PassEnds, Tick
    <3>3. CASE Outside \/ \E p \in Plugins : Dies(p) \/ LaunchEnds(p)
      BY <3>3 DEF Outside, Notice, TimerFires, Dies, LaunchEnds
    <3>4. CASE GroupStop \/ StopArrives \/ EndOfRun \/ Elapse
      BY <3>4 DEF GroupStop, StopArrives, EndOfRun, Elapse
    <3>5. CASE Stopped \/ UNCHANGED vars BY <3>5 DEF Stopped, vars
    <3>6. QED BY <1>7, <3>1, <3>2, <3>3, <3>4, <3>5 DEF Next, People
  <2>2. QED BY <1>1, <2>1
<1>8. QED BY <1>2, <1>3, <1>4, <1>5, <1>6, <1>7

(***************************************************************************)
(* A graceful stop fails no task of an agent that the signal killed.       *)
(***************************************************************************)
THEOREM SupervisionStopKeepsWork == Spec => StopKeepsWork
<1> DEFINE Inv == Typed /\ DeadIsAttended /\ SlotsHeld /\ StopOK
<1>1. Init => Inv
  <2>1. Init => StopOK BY DEF Init, StopOK
  <2>2. QED BY <2>1, TypedInit, AttendedInit, SlotsInit
<1>2. Inv /\ [Next]_vars => Inv'
  BY TypedStep, AttendedStep, SlotsStep, StopStep
<1>3. Inv /\ [Next]_vars
        => [\A t \in Tasks :
              /\ state[t] = "dispatched" /\ state'[t] = "failed"
              => AgentOf[t] \notin killed]_vars
  BY NoFollowedFails
<1> HIDE DEF Inv
<1>4. QED BY <1>1, <1>2, <1>3, PTL DEF Spec, StopKeepsWork

-----------------------------------------------------------------------------
(***************************************************************************)
(* A pass in which nothing goes wrong.  The plan fills every slot, or holds *)
(* every task that is ready; in an undisturbed pass none of them is parked  *)
(* and no slot is given back.                                              *)
(***************************************************************************)

Usable(t) == state[t] = "queued" /\ streak[t] = 0 /\ Live(AgentOf[t])

PassOK ==
    InPass /\ ~disturbed =>
      /\ \A i \in plan : ~Parked(Queue[i])
      /\ (\A p \in Sources : Live(p)) =>
           \/ Cardinality(holders) >= Slots
           \/ \A t \in Tasks : Usable(t) => t \in Planned \cup InHand

LEMMA TasksAreFinite == IsFiniteSet(Tasks)
<1> DEFINE f == [i \in 1..Len(Queue) |-> Queue[i]]
<1>1. Len(Queue) \in Nat BY QueueAssumption, LenProperties
<1>2. IsFiniteSet(1..Len(Queue)) BY <1>1, FS_Interval
<1>3. f \in Surjection(1..Len(Queue), Tasks)
  <2>1. f \in [1..Len(Queue) -> Tasks] BY DEF Tasks
  <2>2. \A t \in Tasks : \E i \in 1..Len(Queue) : f[i] = t BY DEF Tasks
  <2>3. QED BY <2>1, <2>2 DEF Surjection
<1>4. QED BY <1>2, <1>3, FS_Surjection

\* the first of a set of places
LEMMA FirstPlace ==
    ASSUME NEW T \in SUBSET Nat, T # {}
    PROVE  \E i \in T : \A j \in T : i <= j
<1> DEFINE R == OpToRel(<, Nat)
<1>1. IsWellFoundedOn(R, Nat) BY NatLessThanWellFounded
<1> HIDE DEF R
<1>2. PICK i \in T : \A j \in T : ~(<<j, i>> \in R) BY <1>1, WFMin
<1>3. \A j \in T : ~(j < i) BY <1>2 DEF R, OpToRel
<1>4. QED BY <1>3

\* the tasks of a plan hold no slot yet
LEMMA PlanIsNew ==
    ASSUME Typed, SlotsHeld, ~InPass
    PROVE  Cardinality(holders \cup {Queue[i] : i \in Plan})
             = Cardinality(holders) + Cardinality(Plan)
<1> DEFINE new == {Queue[i] : i \in Plan}
           f == [i \in Plan |-> Queue[i]]
<1>1. /\ Plan \subseteq Ready /\ Ready \subseteq 1..Len(Queue) /\ Len(Queue) \in Nat
      /\ new \subseteq Tasks
  BY QueueAssumption, LenProperties DEF Plan, Ready, Tasks
<1>2. IsFiniteSet(1..Len(Queue)) BY <1>1, FS_Interval
<1>3. IsFiniteSet(Plan) /\ IsFiniteSet(Ready)
  BY <1>1, <1>2, FS_Subset
<1>4. IsFiniteSet(holders) /\ IsFiniteSet(new) BY <1>1, TasksAreFinite, FS_Subset DEF Typed
<1>5. Cardinality(new) = Cardinality(Plan)
  <2>1. f \in [Plan -> new] OBVIOUS
  <2>2. \A i, j \in Plan : f[i] = f[j] => i = j BY <1>1, QueueAssumption
  <2>3. \A t \in new : \E i \in Plan : f[i] = t OBVIOUS
  <2> HIDE DEF f, new
  <2>4. ExistsBijection(Plan, new) BY <2>1, <2>2, <2>3, Fun_IsBij, Fun_ExistsBij
  <2>5. QED BY <1>3, <2>4, FS_Bijection
<1>6. holders \cap new = {}
  <2>1. holders = Followed
    BY DEF SlotsHeld, Planned, InHand, InPass
  <2>2. \A t \in new : state[t] = "queued" BY DEF Plan, Ready
  <2>3. QED BY <2>1, <2>2 DEF Followed
<1>7. Cardinality(holders \cup new) = Cardinality(holders) + Cardinality(Plan)
  <2> HIDE DEF new
  <2>1. Cardinality(holders \cup new)
          = Cardinality(holders) + Cardinality(new) - Cardinality(holders \cap new)
    BY <1>4, FS_Union
  <2>2. Cardinality(holders \cap new) = 0 BY <1>6, FS_EmptySet
  <2>3. Cardinality(holders) \in Nat /\ Cardinality(new) \in Nat
    BY <1>4, FS_CardinalityType
  <2>4. QED BY <1>5, <2>1, <2>2, <2>3
<1>8. QED BY <1>7

LEMMA PlanFillsSlots ==
    ASSUME Typed, SlotsHeld, ~InPass
    PROVE  LET taken == holders \cup {Queue[i] : i \in Plan}
           IN  Cardinality(taken) >= Slots \/ Plan = Ready
<1> DEFINE new == {Queue[i] : i \in Plan}
           Below(i) == {j \in Ready : j < i}
<1>1. Plan \subseteq Ready /\ Ready \subseteq 1..Len(Queue) /\ Len(Queue) \in Nat
  BY QueueAssumption, LenProperties DEF Plan, Ready
<1>2. IsFiniteSet(1..Len(Queue)) BY <1>1, FS_Interval
<1>3. IsFiniteSet(Plan) /\ IsFiniteSet(Ready) /\ \A i : IsFiniteSet(Below(i))
  BY <1>1, <1>2, FS_Subset
<1>4. IsFiniteSet(holders) BY TasksAreFinite, FS_Subset DEF Typed
<1>5. Cardinality(holders \cup new) = Cardinality(holders) + Cardinality(Plan)
  BY PlanIsNew
<1>6. CASE Plan # Ready
  <2>1. PICK r \in Ready \ Plan : \A j \in Ready \ Plan : r <= j
    <3>1. \A i \in Ready : i \in Nat BY <1>1
    <3>2. Ready \ Plan # {} BY <1>1, <1>6
    <3>3. Ready \ Plan \in SUBSET Nat BY <3>1
    <3>4. QED BY <3>2, <3>3, FirstPlace
  <2>2. Below(r) \subseteq Plan
    <3>1. \A i \in Ready : i \in Nat BY <1>1
    <3>2. ASSUME NEW j \in Ready, j < r, j \notin Plan PROVE FALSE
      <4>1. r <= j /\ r \in Nat /\ j \in Nat BY <2>1, <3>1, <3>2
      <4>2. QED BY <3>2, <4>1
    <3>3. QED BY <3>2
  <2>3. Cardinality(Below(r)) <= Cardinality(Plan) BY <1>3, <2>2, FS_Subset
  <2>4. ~(Cardinality(Below(r)) + Cardinality(holders) < Slots) BY <2>1 DEF Plan
  <2>5. /\ Cardinality(holders) \in Nat /\ Cardinality(Plan) \in Nat
        /\ Cardinality(Below(r)) \in Nat
    BY <1>3, <1>4, FS_CardinalityType
  <2> HIDE DEF Below, new
  <2>6. Cardinality(holders \cup new) >= Slots
    BY <1>5, <2>3, <2>4, <2>5, NumbersAssumption
  <2>7. QED BY <2>6 DEF new
<1>7. QED BY <1>6

\* a step of somebody else, in which no plugin dies or comes back
LEMMA PassKept ==
    ASSUME PassOK, UNCHANGED <<abandoned, state, streak, holders, pc, hand, plan, disturbed>>,
           \A p : Live(p)' <=> Live(p)
    PROVE  PassOK'
<1>1. \A t : (Parked(t)' <=> Parked(t)) /\ (Usable(t)' <=> Usable(t))
  BY DEF Parked, Usable
<1>2. Planned' = Planned /\ InHand' = InHand /\ (InPass' <=> InPass)
  BY DEF Planned, InHand, InPass
<1>3. QED BY <1>1, <1>2 DEF PassOK

LEMMA PassOutside ==
    ASSUME Typed, PassOK,
           \/ Supervising \/ Tick \/ Elapse \/ EndOfRun \/ GroupStop \/ StopArrives
           \/ \E p \in Plugins : Dies(p) \/ Notice(p) \/ TimerFires(p) \/ LaunchEnds(p)
           \/ \E t \in Tasks : Finish(t) \/ Retry(t)
    PROVE  PassOK'
<1> USE DEF relaunchVars, ledgerVars, taskVars, passVars
<1>1. CASE \/ Supervising \/ Tick \/ Elapse \/ EndOfRun
           \/ \E t \in Tasks : Finish(t)
  <2>1. ~InPass'
    BY <1>1 DEF Supervising, TakeClosed, FailNext, TornDown, TakeDue, TakeUp, TakeFailed,
                Handled, Tick, Elapse, EndOfRun, Finish, InPass
  <2>2. QED BY <2>1 DEF PassOK
<1>2. CASE (\E p \in Plugins : Dies(p)) \/ \E t \in Tasks : Retry(t)
  <2>1. (InPass' <=> InPass) /\ disturbed' = InPass
    BY <1>2 DEF Dies, Retry, Disturbs, InPass
  <2>2. QED BY <2>1 DEF PassOK
<1>3. ASSUME NEW p \in Plugins, Notice(p) \/ TimerFires(p) \/ LaunchEnds(p) PROVE PassOK'
  <2>1. UNCHANGED <<abandoned, state, streak, holders, pc, hand, plan, disturbed>>
    BY <1>3 DEF Notice, TimerFires, LaunchEnds
  <2>2. \A q : Live(q)' <=> Live(q)
    <3>1. CASE Notice(p)
      <4>1. proc[p] = "dying" /\ proc' = [proc EXCEPT ![p] = "dead"] BY <3>1 DEF Notice
      <4>2. QED BY <4>1 DEF Live, Typed
    <3>2. CASE TimerFires(p) \/ LaunchEnds(p)
      BY <3>2 DEF TimerFires, LaunchEnds, Live
    <3>3. QED BY <1>3, <3>1, <3>2
  <2>3. QED BY <2>1, <2>2, PassKept
<1>4. CASE GroupStop \/ StopArrives
  <2>1. UNCHANGED <<proc, abandoned, state, streak, holders, pc, hand, plan, disturbed>>
    BY <1>4 DEF GroupStop, StopArrives
  <2>2. \A q : Live(q)' <=> Live(q) BY <2>1 DEF Live
  <2>3. QED BY <2>1, <2>2, PassKept
<1>5. QED BY <1>1, <1>2, <1>3, <1>4

LEMMA PassDispatching ==
    ASSUME Typed, SlotsHeld, PassOK, Dispatching
    PROVE  PassOK'
<1> USE DEF taskVars, ledgerVars, passVars
<1>0. UNCHANGED <<proc, abandoned>>
  BY DEF Dispatching, PassBegins, DispatchNext, Claim, Launch, Subscribe, PassEnds, PassFrame
<1>1. \A p : Live(p)' <=> Live(p) BY <1>0 DEF Live
<1>2. CASE PassBegins
  <2>1. /\ plan' = Plan /\ holders' = holders \cup {Queue[i] : i \in Plan}
        /\ pc = "planning" /\ pc' = "pass" /\ UNCHANGED <<state, streak>>
    BY <1>2 DEF PassBegins
  <2>2. ASSUME NEW i \in plan' PROVE ~Parked(Queue[i])'
    <3>1. ~Parked(Queue[i]) BY <2>1 DEF Plan, Ready
    <3>2. QED BY <1>0, <1>1, <2>1, <3>1 DEF Parked
  <2>3. Cardinality(holders') >= Slots \/ Plan = Ready
    BY <2>1, PlanFillsSlots DEF InPass
  <2>4. ASSUME Plan = Ready, NEW t \in Tasks, Usable(t)' PROVE t \in Planned'
    <3>1. PICK i \in 1..Len(Queue) : Queue[i] = t BY DEF Tasks
    <3>2. state[t] = "queued" /\ ~Parked(t) BY <1>1, <2>1, <2>4 DEF Usable, Parked
    <3>3. i \in Ready BY <3>1, <3>2 DEF Ready
    <3>4. i \in plan' BY <2>1, <2>4, <3>3
    <3>5. QED BY <3>1, <3>4 DEF Planned
  <2>5. QED BY <2>2, <2>3, <2>4 DEF PassOK
<1>3. CASE DispatchNext
  <2>1. PICK i \in plan :
          /\ plan' = plan \ {i}
          /\ LET t == Queue[i]
             IN  \/ Parked(t) /\ UNCHANGED disturbed
                 \/ disturbed' = TRUE
                 \/ /\ pc' = "claim" /\ hand' = t
                    /\ UNCHANGED <<state, streak, holders, disturbed>>
    BY <1>3 DEF DispatchNext
  <2> DEFINE t == Queue[i]
  <2>2. pc = "pass" /\ InPass BY <1>3 DEF DispatchNext, InPass
  <2>3. CASE disturbed' = TRUE BY <2>3 DEF PassOK
  <2>4. CASE disturbed BY <2>1, <2>4 DEF PassOK
  <2>5. CASE ~disturbed /\ disturbed' # TRUE
    <3>1. /\ pc' = "claim" /\ hand' = t /\ UNCHANGED <<state, streak, holders>>
      BY <2>1, <2>2, <2>5 DEF PassOK
    <3>2. \A u : (Parked(u)' <=> Parked(u)) /\ (Usable(u)' <=> Usable(u))
      BY <1>0, <1>1, <3>1 DEF Parked, Usable
    <3>3. InHand' = {t} /\ InHand = {} BY <2>2, <3>1 DEF InHand
    <3>4. Planned \subseteq Planned' \cup {t} BY <2>1 DEF Planned
    <3>5. Planned \cup InHand \subseteq Planned' \cup InHand' BY <3>3, <3>4
    <3>6. plan' \subseteq plan BY <2>1
    <3> HIDE DEF t
    <3>7. QED BY <1>1, <2>2, <2>5, <3>1, <3>2, <3>5, <3>6 DEF PassOK
  <2>6. QED BY <2>3, <2>4, <2>5
<1>4. CASE Claim
  <2>1. /\ pc = "claim" /\ InPass /\ plan' = plan /\ hand \in Tasks /\ streak' = streak
    BY <1>4 DEF Claim, InPass, Typed
  <2>2. CASE disturbed' BY <2>2 DEF PassOK
  <2>3. CASE ~disturbed'
    <3>1. \/ pc' = "launch" /\ UNCHANGED <<state, holders, hand, disturbed>>
          \/ disturbed' = (disturbed \/ Live(SourceOf[hand])) /\ UNCHANGED state
      BY <1>4, <2>3 DEF Claim
    <3>2. CASE pc' = "launch" /\ UNCHANGED <<state, holders, hand, disturbed>>
      <4>1. \A u : (Parked(u)' <=> Parked(u)) /\ (Usable(u)' <=> Usable(u))
        BY <1>0, <1>1, <2>1, <3>2 DEF Parked, Usable
      <4>2. Planned' = Planned /\ InHand' = InHand BY <2>1, <3>2 DEF Planned, InHand
      <4>3. QED BY <1>1, <2>1, <3>2, <4>1, <4>2 DEF PassOK
    <3>3. CASE disturbed' = (disturbed \/ Live(SourceOf[hand])) /\ UNCHANGED state
      <4>1. ~disturbed /\ ~Live(SourceOf[hand]) BY <2>3, <3>3
      <4>2. SourceOf[hand] \in Sources BY <2>1, PluginsAssumption
      <4>3. ~(\A p \in Sources : Live(p)') BY <1>1, <4>1, <4>2
      <4>4. \A u : Parked(u)' <=> Parked(u) BY <1>0, <1>1, <2>1 DEF Parked
      <4>5. QED BY <2>1, <4>1, <4>3, <4>4 DEF PassOK
    <3>4. QED BY <3>1, <3>2, <3>3
  <2>4. QED BY <2>2, <2>3
<1>5. CASE Launch
  <2>1. /\ pc = "launch" /\ InPass /\ plan' = plan /\ hand \in Tasks
        /\ hand \notin Planned /\ \A i \in plan : Queue[i] \in Tasks
    BY <1>5, PlannedAreTasks DEF Launch, InPass, Typed, SlotsHeld
  <2>2. CASE disturbed' BY <2>2 DEF PassOK
  <2>3. CASE ~disturbed'
    <3>1. /\ pc' = "subscribe" /\ UNCHANGED <<holders, hand, disturbed>>
          /\ state' = [state EXCEPT ![hand] = "dispatched"]
          /\ streak' = [streak EXCEPT ![hand] = 0]
      BY <1>5, <2>3 DEF Launch
    <3>2. \A i \in plan : Queue[i] # hand BY <2>1 DEF Planned
    <3>3. ASSUME NEW i \in plan PROVE Parked(Queue[i])' <=> Parked(Queue[i])
      <4>1. streak'[Queue[i]] = streak[Queue[i]] BY <2>1, <3>1, <3>2 DEF Typed
      <4>2. QED BY <1>0, <1>1, <4>1 DEF Parked
    <3>4. ASSUME NEW u \in Tasks, Usable(u)' PROVE Usable(u) /\ u # hand
      <4>1. u # hand BY <3>1, <3>4 DEF Usable, Typed
      <4>2. QED BY <1>1, <3>1, <3>4, <4>1 DEF Usable, Typed
    <3>5. Planned' = Planned /\ InHand = {hand} /\ InHand' = {}
      BY <2>1, <3>1 DEF Planned, InHand
    <3>6. \A p \in Sources : Live(p)' <=> Live(p) BY <1>1
    <3>7. (\A p \in Sources : Live(p)') =>
             \/ Cardinality(holders') >= Slots
             \/ \A u \in Tasks : Usable(u)' => u \in Planned' \cup InHand'
      BY <2>1, <2>3, <3>1, <3>4, <3>5, <3>6 DEF PassOK
    <3>8. \A i \in plan' : ~Parked(Queue[i])'
      BY <2>1, <2>3, <3>1, <3>3 DEF PassOK
    <3>9. QED BY <3>7, <3>8 DEF PassOK
  <2>4. QED BY <2>2, <2>3
<1>6. CASE Subscribe
  <2>1. pc = "subscribe" /\ pc' = "pass" /\ InPass /\ plan' = plan
    BY <1>6 DEF Subscribe, InPass, BackToPass
  <2>2. CASE disturbed' BY <2>2 DEF PassOK
  <2>3. CASE ~disturbed'
    <3>1. UNCHANGED <<state, streak, holders, disturbed>> BY <1>6, <2>3 DEF Subscribe
    <3>2. \A u : (Parked(u)' <=> Parked(u)) /\ (Usable(u)' <=> Usable(u))
      BY <1>0, <1>1, <3>1 DEF Parked, Usable
    <3>3. Planned' = Planned /\ InHand = {} /\ InHand' = {}
      BY <2>1 DEF Planned, InHand
    <3>4. QED BY <1>1, <2>1, <3>1, <3>2, <3>3 DEF PassOK
  <2>4. QED BY <2>2, <2>3
<1>7. CASE PassEnds BY <1>7 DEF PassEnds, PassOK, InPass
<1>8. QED BY <1>2, <1>3, <1>4, <1>5, <1>6, <1>7 DEF Dispatching

LEMMA PassStep ==
    ASSUME Typed, SlotsHeld, PassOK, [Next]_vars PROVE PassOK'
<1>1. CASE UNCHANGED vars
  <2>1. UNCHANGED <<proc, abandoned, state, streak, holders, pc, hand, plan, disturbed>>
    BY <1>1 DEF vars
  <2>2. \A q : Live(q)' <=> Live(q) BY <2>1 DEF Live
  <2>3. QED BY <2>1, <2>2, PassKept
<1>2. CASE Next
  BY <1>1, <1>2, PassOutside, PassDispatching DEF Next, Outside, People, Stopped
<1>3. QED BY <1>1, <1>2

\* only PassEnds leaves a pass for the next event
LEMMA OnlyPassEnds ==
    ASSUME [Next]_vars, pc = "pass", pc' = "idle" PROVE PassEnds
<1> USE DEF taskVars, ledgerVars, passVars, relaunchVars
<1>1. CASE Supervising
  BY <1>1 DEF Supervising, TakeClosed, FailNext, TornDown, TakeDue, TakeUp, TakeFailed, Taking
<1>2. CASE Dispatching \/ Tick
  BY <1>2 DEF Dispatching, PassBegins, DispatchNext, Claim, Launch, Subscribe, Tick
<1>3. CASE Outside \/ \E p \in Plugins : Dies(p) \/ LaunchEnds(p)
  BY <1>3 DEF Outside, Notice, TimerFires, Dies, LaunchEnds
<1>4. CASE People \/ \E t \in Tasks : Finish(t)
  BY <1>4 DEF People, GroupStop, Retry, Finish
<1>5. CASE EndOfRun \/ Stopped \/ StopArrives \/ Elapse \/ UNCHANGED vars
  BY <1>5 DEF EndOfRun, Stopped, StopArrives, Elapse, vars
<1>6. QED BY <1>1, <1>2, <1>3, <1>4, <1>5 DEF Next

(***************************************************************************)
(* A pass in which nothing went wrong and no source was away leaves no     *)
(* slot idle that a queued task of a live agent could use: a task parked   *)
(* for a dead agent starves nobody.                                        *)
(***************************************************************************)
THEOREM SupervisionNoSlotIdlesForTheDead == Spec => NoSlotIdlesForTheDead
<1> DEFINE Inv == Typed /\ SlotsHeld /\ PassOK
<1>1. Init => Inv
  <2>1. Init => PassOK BY DEF Init, PassOK, InPass
  <2>2. QED BY <2>1, TypedInit, SlotsInit
<1>2. Inv /\ [Next]_vars => Inv'
  BY TypedStep, SlotsStep, PassStep
<1>3. Inv /\ [Next]_vars
        => [PassLeavesIdleSlot => disturbed \/ \E p \in Sources : ~Live(p)]_vars
  <2>1. SUFFICES ASSUME Typed, SlotsHeld, PassOK, [Next]_vars, PassLeavesIdleSlot,
                        ~disturbed, \A p \in Sources : Live(p)
                 PROVE  FALSE
    OBVIOUS
  <2>2. pc = "pass" /\ pc' = "idle" /\ Cardinality(holders) < Slots
    BY <2>1 DEF PassLeavesIdleSlot
  <2>3. PICK t \in Tasks : Usable(t) BY <2>1 DEF PassLeavesIdleSlot, Usable
  <2>4. plan = {} BY <2>1, <2>2, OnlyPassEnds DEF PassEnds
  <2>5. Planned \cup InHand = {} BY <2>2, <2>4 DEF Planned, InHand
  <2>6. Cardinality(holders) \in Nat
    <3>1. IsFiniteSet(holders) BY <2>1, TasksAreFinite, FS_Subset DEF Typed
    <3>2. QED BY <3>1, FS_CardinalityType
  <2>7. Cardinality(holders) >= Slots
    BY <2>1, <2>2, <2>3, <2>5 DEF PassOK, InPass
  <2>8. QED BY <2>2, <2>6, <2>7, NumbersAssumption
<1> HIDE DEF Inv
<1>4. QED BY <1>1, <1>2, <1>3, PTL DEF Spec, NoSlotIdlesForTheDead

-----------------------------------------------------------------------------
(***************************************************************************)
(* The restart ledger: attempts are kept in the order in which they were   *)
(* booked, so those that left the window are the first ones.               *)
(***************************************************************************)

Booked(p) == {i \in 1..Len(attempts[p]) : attempts[p][i] < Window}
Left(p) == {i \in 1..Len(attempts[p]) : attempts[p][i] >= Window}

LedgerTyped ==
    /\ attempts \in [Plugins -> Seq(0..Window)]
    /\ \A p \in Plugins : \A i, j \in 1..Len(attempts[p]) :
         i <= j => attempts[p][j] <= attempts[p][i]

\* the attempts that left the window are the first ones
LEMMA LeftAreFirst ==
    ASSUME LedgerTyped, NEW p \in Plugins
    PROVE  \E k \in 0..Len(attempts[p]) : Left(p) = 1..k /\ Cardinality(Left(p)) = k
<1> DEFINE a == attempts[p]
           n == Len(a)
           Stays == {i \in 1..(n + 1) : i \notin Left(p)}
<1>1. a \in Seq(0..Window) /\ n \in Nat BY LenProperties DEF LedgerTyped
<1>2. \A i \in 1..n : a[i] \in 0..Window BY <1>1, ElementOfSeq
<1>3. Stays \in SUBSET Nat /\ n + 1 \in Stays BY <1>1 DEF Left
<1>4. PICK m \in Stays : \A j \in Stays : m <= j BY <1>3, FirstPlace
<1>5. m \in 1..(n + 1) /\ m \notin Left(p) BY <1>4
<1>6. \A i \in 1..(m - 1) : i \in Left(p)
  <2>1. SUFFICES ASSUME NEW i \in 1..(m - 1), i \notin Left(p) PROVE FALSE OBVIOUS
  <2>2. i \in Stays BY <1>1, <1>5, <2>1
  <2>3. QED BY <1>1, <1>4, <1>5, <2>2
<1>7. \A i \in Left(p) : i \in 1..(m - 1)
  <2>1. SUFFICES ASSUME NEW i \in Left(p), i >= m PROVE FALSE
    BY <1>1, <1>5 DEF Left
  <2>2. i \in 1..n /\ a[i] >= Window BY DEF Left
  <2>3. m \in 1..n BY <1>1, <1>5, <2>1, <2>2
  <2>4. a[i] <= a[m] BY <2>1, <2>2, <2>3 DEF LedgerTyped
  <2>5. a[m] >= Window BY <1>2, <2>2, <2>3, <2>4, NumbersAssumption
  <2>6. QED BY <1>5, <2>3, <2>5 DEF Left
<1>8. Left(p) = 1..(m - 1) BY <1>6, <1>7
<1>9. Cardinality(1..(m - 1)) = m - 1 BY <1>1, <1>5, FS_Interval
<1>10. m - 1 \in 0..n BY <1>1, <1>5
<1> HIDE DEF Stays
<1>11. QED BY <1>8, <1>9, <1>10

\* what is left of the ledger are the attempts of the window, all of them
LEMMA InWindowIs ==
    ASSUME LedgerTyped, NEW p \in Plugins
    PROVE  /\ InWindow(p) \in Seq(0..Window)
           /\ Len(InWindow(p)) = Cardinality(Booked(p))
           /\ \A i, j \in 1..Len(InWindow(p)) :
                i <= j => InWindow(p)[j] <= InWindow(p)[i]
<1> DEFINE a == attempts[p]
           n == Len(a)
           w == InWindow(p)
<1>1. a \in Seq(0..Window) /\ n \in Nat BY LenProperties DEF LedgerTyped
<1>2. \A i \in 1..n : a[i] \in 0..Window BY <1>1, ElementOfSeq
<1>3. PICK k \in 0..n : Left(p) = 1..k /\ Cardinality(Left(p)) = k BY LeftAreFirst
<1>4. w = SubSeq(a, k + 1, n) BY <1>3 DEF InWindow, Left
<1>5. k \in Nat /\ k <= n BY <1>1, <1>3
<1>6. \A i \in (k + 1)..n : a[i] \in 0..Window BY <1>1, <1>2, <1>5
<1>7. /\ w \in Seq(0..Window) /\ Len(w) = n - k
      /\ \A i \in 1..(n - k) : w[i] = a[k + i]
  <2>1. /\ w \in Seq(0..Window)
        /\ Len(w) = IF k + 1 <= n THEN n - (k + 1) + 1 ELSE 0
        /\ \A i \in 1..(n - (k + 1) + 1) : w[i] = a[(k + 1) + i - 1]
    BY <1>1, <1>4, <1>5, <1>6, SubSeqProperties
  <2>2. \A i \in 1..(n - k) : (k + 1) + i - 1 = k + i BY <1>1, <1>5
  <2>3. n - (k + 1) + 1 = n - k BY <1>1, <1>5
  <2> HIDE DEF w
  <2>4. QED BY <1>1, <1>5, <2>1, <2>2, <2>3
<1>8. Booked(p) = (k + 1)..n
  <2>1. \A i \in 1..n : a[i] < Window <=> i \notin Left(p)
    BY <1>2, NumbersAssumption DEF Left
  <2>2. \A i \in 1..n : i \notin Left(p) <=> i \in (k + 1)..n BY <1>1, <1>3, <1>5
  <2>3. QED BY <1>1, <1>5, <2>1, <2>2 DEF Booked
<1>9. Cardinality((k + 1)..n) = n - k
  <2>1. k + 1 \in Int /\ n \in Int BY <1>1, <1>5
  <2> HIDE DEF n
  <2>2. Cardinality((k + 1)..n) = IF k + 1 > n THEN 0 ELSE n - (k + 1) + 1
    BY <2>1, FS_Interval
  <2>3. QED BY <1>5, <2>1, <2>2
<1>10. \A i, j \in 1..(n - k) : i <= j => w[j] <= w[i]
  <2>1. \A i, j \in 1..n : i <= j => a[j] <= a[i] BY DEF LedgerTyped
  <2>2. \A i \in 1..(n - k) : k + i \in 1..n BY <1>1, <1>5
  <2> HIDE DEF w, a, n
  <2>3. QED BY <1>1, <1>5, <1>7, <2>1, <2>2
<1> HIDE DEF w
<1>11. QED BY <1>7, <1>8, <1>9, <1>10 DEF w

\* the ledger after book_restart
LEMMA LedgerSchedules ==
    ASSUME LedgerTyped, NEW p \in Plugins, ScheduleRestart(p)
    PROVE  LedgerTyped'
<1> DEFINE w == InWindow(p)
<1>1. w \in Seq(0..Window) /\ \A i, j \in 1..Len(w) : i <= j => w[j] <= w[i]
  BY InWindowIs
<1>2. 0 \in 0..Window BY NumbersAssumption
<1>3. /\ Append(w, 0) \in Seq(0..Window) /\ Len(Append(w, 0)) = Len(w) + 1
      /\ \A i \in 1..Len(w) : Append(w, 0)[i] = w[i]
      /\ Append(w, 0)[Len(w) + 1] = 0 /\ Len(w) \in Nat
  BY <1>1, <1>2, AppendProperties, LenProperties
<1>4. \A i \in 1..Len(w) : w[i] \in 0..Window BY <1>1, ElementOfSeq
<1> HIDE DEF w
<1>5. \A i, j \in 1..(Len(w) + 1) : i <= j => Append(w, 0)[j] <= Append(w, 0)[i]
  <2>1. SUFFICES ASSUME NEW i \in 1..(Len(w) + 1), NEW j \in 1..(Len(w) + 1), i <= j
                 PROVE  Append(w, 0)[j] <= Append(w, 0)[i]
    OBVIOUS
  <2>2. CASE j = Len(w) + 1 /\ i = j BY <1>3, <2>2
  <2>3. CASE j = Len(w) + 1 /\ i # j
    <3>1. i \in 1..Len(w) BY <1>3, <2>1, <2>3
    <3>2. Append(w, 0)[i] \in 0..Window BY <1>3, <1>4, <3>1
    <3>3. QED BY <1>3, <2>3, <3>2, NumbersAssumption
  <2>4. CASE j # Len(w) + 1
    <3>1. i \in 1..Len(w) /\ j \in 1..Len(w) BY <1>3, <2>1, <2>4
    <3>2. QED BY <1>1, <1>3, <2>1, <3>1
  <2>5. QED BY <2>2, <2>3, <2>4
<1>6. \/ attempts' = attempts
      \/ attempts' = [attempts EXCEPT ![p] = w]
      \/ attempts' = [attempts EXCEPT ![p] = Append(w, 0)]
  BY DEF ScheduleRestart, w
<1>7. ASSUME NEW s \in Seq(0..Window), attempts' = [attempts EXCEPT ![p] = s],
             \A i, j \in 1..Len(s) : i <= j => s[j] <= s[i]
      PROVE  LedgerTyped'
  BY <1>7 DEF LedgerTyped
<1>8. QED BY <1>1, <1>3, <1>5, <1>6, <1>7 DEF LedgerTyped

LEMMA LedgerElapses ==
    ASSUME LedgerTyped, attempts' = [p \in Plugins |-> Older(attempts[p])]
    PROVE  LedgerTyped'
<1>1. ASSUME NEW p \in Plugins
      PROVE  /\ Older(attempts[p]) \in Seq(0..Window)
             /\ \A i, j \in 1..Len(Older(attempts[p])) :
                  i <= j => Older(attempts[p])[j] <= Older(attempts[p])[i]
  <2> DEFINE a == attempts[p]
             n == Len(a)
             b == [i \in 1..n |-> IF a[i] < Window THEN a[i] + 1 ELSE Window]
  <2>1. a \in Seq(0..Window) /\ n \in Nat BY LenProperties DEF LedgerTyped
  <2>2. \A i \in 1..n : a[i] \in 0..Window BY <2>1, ElementOfSeq
  <2>3. \A i, j \in 1..n : i <= j => a[j] <= a[i] BY DEF LedgerTyped
  <2>4. Older(a) = b BY DEF Older
  <2> HIDE DEF a, n
  <2>5. \A i \in 1..n : (IF a[i] < Window THEN a[i] + 1 ELSE Window) \in 0..Window
    BY <2>2, NumbersAssumption
  <2>6. b \in Seq(0..Window) BY <2>1, <2>5, IsASeq
  <2>7. Len(b) = n BY <2>1, <2>6, LenProperties
  <2>8. ASSUME NEW i \in 1..n, NEW j \in 1..n, i <= j PROVE b[j] <= b[i]
    <3>1. a[j] <= a[i] /\ a[i] \in 0..Window /\ a[j] \in 0..Window BY <2>2, <2>3, <2>8
    <3>2. /\ b[i] = IF a[i] < Window THEN a[i] + 1 ELSE Window
          /\ b[j] = IF a[j] < Window THEN a[j] + 1 ELSE Window
      OBVIOUS
    <3> HIDE DEF b
    <3>3. QED BY <3>1, <3>2, NumbersAssumption
  <2> HIDE DEF b
  <2>9. QED BY <2>4, <2>6, <2>7, <2>8 DEF a
<1>2. \A p \in Plugins : attempts'[p] = Older(attempts[p]) BY DEF LedgerTyped
<1>3. QED BY <1>1, <1>2 DEF LedgerTyped

LEMMA LedgerStep ==
    ASSUME Typed, LedgerTyped, [Next]_vars PROVE LedgerTyped'
<1> USE DEF ledgerVars
<1>1. CASE Supervising
  <2>1. CASE TakeClosed \/ FailNext \/ TakeDue \/ TakeUp
    BY <2>1 DEF TakeClosed, FailNext, TakeDue, TakeUp, LedgerTyped
  <2>2. CASE TornDown
    <3>1. hand \in Plugins /\ ScheduleRestart(hand) BY <2>2 DEF TornDown, Typed
    <3>2. QED BY <3>1, LedgerSchedules
  <2>3. CASE TakeFailed
    <3>1. Head(events).plugin \in Plugins BY <2>3, Takes DEF TakeFailed
    <3>2. ScheduleRestart(Head(events).plugin) BY <2>3 DEF TakeFailed
    <3>3. QED BY <3>1, <3>2, LedgerSchedules
  <2>4. QED BY <1>1, <2>1, <2>2, <2>3 DEF Supervising
<1>2. CASE Elapse
  BY <1>2, LedgerElapses DEF Elapse
<1>3. CASE Dispatching \/ Tick
  BY <1>3 DEF Dispatching, PassBegins, DispatchNext, Claim, Launch, Subscribe,
              PassEnds, PassFrame, Tick, LedgerTyped
<1>4. CASE Outside \/ \E p \in Plugins : Dies(p) \/ LaunchEnds(p)
  BY <1>4 DEF Outside, Notice, TimerFires, Dies, LaunchEnds, LedgerTyped
<1>5. CASE People \/ \E t \in Tasks : Finish(t)
  BY <1>5 DEF People, GroupStop, Retry, Finish, LedgerTyped
<1>6. CASE EndOfRun \/ Stopped \/ StopArrives \/ UNCHANGED vars
  BY <1>6 DEF EndOfRun, Stopped, StopArrives, vars, LedgerTyped
<1>7. QED BY <1>1, <1>2, <1>3, <1>4, <1>5, <1>6 DEF Next

LEMMA LedgerInit == Init => LedgerTyped
<1>1. <<>> \in Seq(0..Window) /\ Len(<<>>) = 0 BY EmptySeq
<1>2. QED BY <1>1 DEF Init, LedgerTyped

(***************************************************************************)
(* book_restart keeps the budget: a relaunch is put on the timer only if   *)
(* fewer than max_attempts of the plugin's were booked within the window.  *)
(***************************************************************************)
RestartsAreBudgeted ==
    [][\A p \in Plugins :
         timers'[p] > timers[p] => Cardinality(Booked(p)) < MaxAttempts]_vars

LEMMA OnlyScheduled ==
    ASSUME Typed, [Next]_vars, NEW p \in Plugins, timers'[p] > timers[p]
    PROVE  ScheduleRestart(p) /\ ~(Len(InWindow(p)) >= MaxAttempts)
<1> USE DEF relaunchVars
<1>1. timers \in [Plugins -> Nat] BY DEF Typed
<1>2. ASSUME NEW q \in Plugins, ScheduleRestart(q)
      PROVE  p = q /\ ~(Len(InWindow(p)) >= MaxAttempts)
  BY <1>1, <1>2 DEF ScheduleRestart
<1>3. CASE Supervising
  <2>1. CASE TakeClosed \/ FailNext \/ TakeDue \/ TakeUp
    BY <1>1, <2>1 DEF TakeClosed, FailNext, TakeDue, TakeUp
  <2>2. CASE TornDown
    <3>1. hand \in Plugins /\ ScheduleRestart(hand) BY <2>2 DEF TornDown, Typed
    <3>2. QED BY <1>2, <3>1
  <2>3. CASE TakeFailed
    <3>1. Head(events).plugin \in Plugins BY <2>3, Takes DEF TakeFailed
    <3>2. ScheduleRestart(Head(events).plugin) BY <2>3 DEF TakeFailed
    <3>3. QED BY <1>2, <3>1, <3>2
  <2>4. QED BY <1>3, <2>1, <2>2, <2>3 DEF Supervising
<1>4. CASE Dispatching \/ Tick
  BY <1>1, <1>4 DEF Dispatching, PassBegins, DispatchNext, Claim, Launch, Subscribe,
              PassEnds, PassFrame, Tick
<1>5. CASE Outside \/ \E q \in Plugins : Dies(q) \/ LaunchEnds(q)
  BY <1>1, <1>5 DEF Outside, Notice, TimerFires, Dies, LaunchEnds
<1>6. CASE People \/ \E t \in Tasks : Finish(t)
  BY <1>1, <1>6 DEF People, GroupStop, Retry, Finish
<1>7. CASE EndOfRun \/ Stopped \/ StopArrives \/ Elapse \/ UNCHANGED vars
  BY <1>1, <1>7 DEF EndOfRun, Stopped, StopArrives, Elapse, vars
<1>8. QED BY <1>3, <1>4, <1>5, <1>6, <1>7 DEF Next

(***************************************************************************)
(* The restart budget holds for any plugins, window and number of          *)
(* attempts: book_restart forgets the attempts that left the window and    *)
(* counts what remains (InWindowIs), which is exactly what was booked in   *)
(* it, and no other step starts the back-off timer.                        *)
(***************************************************************************)
THEOREM SupervisionRestartsAreBudgeted == Spec => RestartsAreBudgeted
<1> DEFINE Inv == Typed /\ LedgerTyped
<1>1. Init => Inv BY TypedInit, LedgerInit
<1>2. Inv /\ [Next]_vars => Inv' BY TypedStep, LedgerStep
<1>3. Inv /\ [Next]_vars
        => [\A p \in Plugins : timers'[p] > timers[p]
              => Cardinality(Booked(p)) < MaxAttempts]_vars
  <2>1. SUFFICES ASSUME Typed, LedgerTyped, [Next]_vars,
                        NEW p \in Plugins, timers'[p] > timers[p]
                 PROVE  Cardinality(Booked(p)) < MaxAttempts
    OBVIOUS
  <2>2. ~(Len(InWindow(p)) >= MaxAttempts) BY <2>1, OnlyScheduled
  <2>3. Len(InWindow(p)) = Cardinality(Booked(p)) /\ InWindow(p) \in Seq(0..Window)
    BY <2>1, InWindowIs
  <2>4. Len(InWindow(p)) \in Nat BY <2>3, LenProperties
  <2>5. QED BY <2>2, <2>3, <2>4, NumbersAssumption
<1> HIDE DEF Inv
<1>4. QED BY <1>1, <1>2, <1>3, PTL DEF Spec, RestartsAreBudgeted

-----------------------------------------------------------------------------
(***************************************************************************)
(* The types that need the ledger, and the rest of TypeOK.                 *)
(***************************************************************************)

RestTyped ==
    /\ launches \in [Plugins -> Seq(0..LaunchTime)]
    /\ streak \in [Tasks -> 0..RetryLimit]
    /\ hand \in Tasks \cup Plugins \cup {Nobody}
    /\ todo \subseteq Tasks
    /\ disturbed \in BOOLEAN
    /\ stop \in {"none", "coming", "ready"} /\ killed \subseteq Plugins
    /\ deaths \in [Plugins -> Nat]

LEMMA RestSupervising ==
    ASSUME Typed, RestTyped, Supervising PROVE RestTyped'
<1> USE DEF taskVars, relaunchVars, passVars, stopVars
<1>1. CASE TakeClosed
  <2>1. Head(events).plugin \in Plugins BY <1>1, Takes DEF TakeClosed
  <2>2. todo' \subseteq Tasks BY <1>1 DEF TakeClosed, RoutedTo
  <2>3. QED BY <1>1, <2>1, <2>2 DEF TakeClosed, RestTyped
<1>2. CASE FailNext BY <1>2 DEF FailNext, RestTyped
<1>3. CASE TornDown BY <1>3 DEF TornDown, Handled, RestTyped
<1>4. CASE TakeDue
  <2>1. Head(events).plugin \in Plugins BY <1>4, Takes DEF TakeDue
  <2>2. 0 \in 0..LaunchTime BY NumbersAssumption
  <2>3. launches' \in [Plugins -> Seq(0..LaunchTime)]
    BY <1>4, <2>1, <2>2, AppendProperties DEF TakeDue, RestTyped
  <2>4. QED BY <1>4, <2>3 DEF TakeDue, Handled, RestTyped
<1>5. CASE TakeUp BY <1>5 DEF TakeUp, Handled, RestTyped
<1>6. CASE TakeFailed BY <1>6 DEF TakeFailed, Handled, RestTyped
<1>7. QED BY <1>1, <1>2, <1>3, <1>4, <1>5, <1>6 DEF Supervising

LEMMA RestFails ==
    ASSUME RestTyped, NEW t \in Tasks, FailDispatch(t)
    PROVE  streak' \in [Tasks -> 0..RetryLimit]
<1>1. streak \in [Tasks -> 0..RetryLimit] /\ streak[t] \in 0..RetryLimit BY DEF RestTyped
<1>2. CASE streak[t] < RetryLimit
  <2>1. streak' = [streak EXCEPT ![t] = streak[t] + 1] BY <1>2 DEF FailDispatch, MayRetry
  <2>2. streak[t] + 1 \in 0..RetryLimit BY <1>1, <1>2, NumbersAssumption
  <2>3. QED BY <1>1, <2>1, <2>2
<1>3. CASE ~(streak[t] < RetryLimit)
  BY <1>1, <1>3 DEF FailDispatch, MayRetry
<1>4. QED BY <1>2, <1>3

LEMMA RestDispatching ==
    ASSUME Typed, RestTyped, Dispatching \/ Tick PROVE RestTyped'
<1> USE DEF taskVars, relaunchVars, stopVars
<1>1. CASE PassBegins \/ PassEnds \/ Tick
  BY <1>1 DEF PassBegins, PassEnds, Tick, passVars, RestTyped
<1>2. CASE DispatchNext
  <2>1. /\ UNCHANGED <<launches, todo, stop, killed, deaths>>
        /\ disturbed' \in {disturbed, TRUE}
    BY <1>2 DEF DispatchNext, PassFrame
  <2>2. PICK i \in plan :
          LET t == Queue[i]
          IN  \/ UNCHANGED <<streak, hand>>
              \/ FailDispatch(t) /\ UNCHANGED hand
              \/ hand' = t /\ UNCHANGED streak
    BY <1>2 DEF DispatchNext
  <2>3. Queue[i] \in Tasks BY <2>2 DEF Typed, Tasks
  <2>4. streak' \in [Tasks -> 0..RetryLimit]
    BY <2>2, <2>3, RestFails DEF RestTyped
  <2>5. QED BY <2>1, <2>2, <2>3, <2>4 DEF RestTyped
<1>3. CASE Claim
  <2>1. Live(SourceOf[hand]) \in BOOLEAN BY DEF Live
  <2>2. disturbed' \in BOOLEAN /\ hand' \in {hand, Nobody}
    BY <1>3, <2>1 DEF Claim, BackToPass, RestTyped
  <2>3. QED BY <1>3, <2>2 DEF Claim, PassFrame, RestTyped
<1>4. CASE Launch \/ Subscribe
  <2>1. hand \in Tasks BY <1>4 DEF Launch, Subscribe, Typed
  <2>2. /\ UNCHANGED <<launches, todo, stop, killed, deaths>>
        /\ disturbed' \in {disturbed, TRUE} /\ hand' \in {hand, Nobody}
    BY <1>4 DEF Launch, Subscribe, PassFrame, BackToPass
  <2>3. \/ streak' = streak
        \/ streak' = [streak EXCEPT ![hand] = 0]
        \/ FailDispatch(hand)
    BY <1>4 DEF Launch, Subscribe
  <2>4. streak' \in [Tasks -> 0..RetryLimit]
    BY <2>1, <2>3, RestFails, NumbersAssumption DEF RestTyped
  <2>5. QED BY <2>2, <2>4 DEF RestTyped
<1>5. QED BY <1>1, <1>2, <1>3, <1>4 DEF Dispatching

LEMMA RestOthers ==
    ASSUME Typed, RestTyped,
           \/ \E p \in Plugins : Dies(p) \/ Notice(p) \/ TimerFires(p) \/ LaunchEnds(p)
           \/ \E t \in Tasks : Finish(t) \/ Retry(t)
           \/ GroupStop \/ StopArrives \/ EndOfRun \/ Elapse
    PROVE  RestTyped'
<1> USE DEF passVars, stopVars, relaunchVars, taskVars
<1>1. InPass \in BOOLEAN BY DEF InPass
<1>2. ASSUME NEW p \in Plugins, Dies(p) PROVE RestTyped'
  <2>1. disturbed' \in BOOLEAN BY <1>1, <1>2 DEF Dies, Disturbs
  <2>2. \/ deaths' = [deaths EXCEPT ![p] = deaths[p] + 1] /\ killed' = killed
        \/ killed' = killed \cup {p} /\ deaths' = deaths
    BY <1>2 DEF Dies
  <2>3. deaths' \in [Plugins -> Nat] /\ killed' \subseteq Plugins
    <3>1. deaths \in [Plugins -> Nat] /\ killed \subseteq Plugins /\ deaths[p] + 1 \in Nat
      BY DEF RestTyped
    <3>2. QED BY <2>2, <3>1
  <2>4. UNCHANGED <<launches, streak, hand, todo, stop>> BY <1>2 DEF Dies
  <2>5. QED BY <2>1, <2>3, <2>4 DEF RestTyped
<1>3. ASSUME NEW p \in Plugins, Notice(p) \/ TimerFires(p) PROVE RestTyped'
  BY <1>3 DEF Notice, TimerFires, RestTyped
<1>4. ASSUME NEW p \in Plugins, LaunchEnds(p) PROVE RestTyped'
  <2>1. launches[p] \in Seq(0..LaunchTime) /\ launches[p] # <<>>
        /\ launches' = [launches EXCEPT ![p] = Tail(launches[p])]
    BY <1>4 DEF LaunchEnds, RestTyped
  <2>2. Tail(launches[p]) \in Seq(0..LaunchTime) BY <2>1, HeadTailProperties
  <2>3. launches' \in [Plugins -> Seq(0..LaunchTime)] BY <2>1, <2>2 DEF RestTyped
  <2>4. QED BY <1>4, <2>3 DEF LaunchEnds, RestTyped
<1>5. ASSUME NEW t \in Tasks, Finish(t) PROVE RestTyped'
  BY <1>5 DEF Finish, Handled, RestTyped
<1>6. ASSUME NEW t \in Tasks, Retry(t) PROVE RestTyped'
  <2>1. 0 \in 0..RetryLimit BY NumbersAssumption
  <2>2. streak' \in [Tasks -> 0..RetryLimit] BY <1>6, <2>1 DEF Retry, RestTyped
  <2>3. disturbed' \in BOOLEAN BY <1>1, <1>6 DEF Retry, Disturbs
  <2>4. QED BY <1>6, <2>2, <2>3 DEF Retry, RestTyped
<1>7. CASE GroupStop \/ StopArrives \/ EndOfRun
  BY <1>7 DEF GroupStop, StopArrives, EndOfRun, RestTyped
<1>8. CASE Elapse
  <2>1. launches' = [p \in Plugins |-> [i \in 1..Len(launches[p]) |-> launches[p][i] + 1]]
    BY <1>8 DEF Elapse
  <2>2. ASSUME NEW p \in Plugins
        PROVE  [i \in 1..Len(launches[p]) |-> launches[p][i] + 1] \in Seq(0..LaunchTime)
    <3>1. launches[p] \in Seq(0..LaunchTime) BY DEF RestTyped
    <3>2. Len(launches[p]) \in Nat
          /\ \A i \in 1..Len(launches[p]) : launches[p][i] \in 0..LaunchTime
      BY <3>1, LenProperties, ElementOfSeq
    <3>3. \A i \in 1..Len(launches[p]) : launches[p][i] < LaunchTime
      BY <1>8 DEF Elapse
    <3>4. \A i \in 1..Len(launches[p]) : launches[p][i] + 1 \in 0..LaunchTime
      BY <3>2, <3>3, NumbersAssumption
    <3>5. QED BY <3>2, <3>4, IsASeq
  <2>3. launches' \in [Plugins -> Seq(0..LaunchTime)] BY <2>1, <2>2
  <2>4. QED BY <1>8, <2>3 DEF Elapse, RestTyped
<1>9. QED BY <1>2, <1>3, <1>4, <1>5, <1>6, <1>7, <1>8

LEMMA RestStep ==
    ASSUME Typed, RestTyped, [Next]_vars PROVE RestTyped'
<1>1. CASE UNCHANGED vars BY <1>1 DEF vars, RestTyped
<1>2. CASE Next
  BY <1>1, <1>2, RestSupervising, RestDispatching, RestOthers
  DEF Next, Outside, People, Stopped
<1>3. QED BY <1>1, <1>2

LEMMA RestInit == Init => RestTyped
<1>1. <<>> \in Seq(0..LaunchTime) BY EmptySeq
<1>2. 0 \in 0..RetryLimit BY NumbersAssumption
<1>3. disturbed = FALSE => disturbed \in BOOLEAN OBVIOUS
<1>4. Init => /\ launches \in [Plugins -> Seq(0..LaunchTime)]
              /\ streak \in [Tasks -> 0..RetryLimit]
              /\ deaths \in [Plugins -> Nat]
  BY <1>1, <1>2 DEF Init
<1>5. QED BY <1>3, <1>4 DEF Init, RestTyped

(***************************************************************************)
(* Every variable has its type, the restart ledger and the relaunches      *)
(* under way with their ages included.                                     *)
(***************************************************************************)
THEOREM SupervisionTypeCorrect == Spec => []TypeOK
<1> DEFINE Inv == Typed /\ LedgerTyped /\ RestTyped
<1>1. Init => Inv BY TypedInit, LedgerInit, RestInit
<1>2. Inv /\ [Next]_vars => Inv' BY TypedStep, LedgerStep, RestStep
<1>3. Inv => TypeOK BY DEF Typed, LedgerTyped, RestTyped, TypeOK, Events
<1> HIDE DEF Inv
<1>4. QED BY <1>1, <1>2, <1>3, PTL DEF Spec

-----------------------------------------------------------------------------
(***************************************************************************)
(* Supervision keeps the promise of the slots (SlotLedger).  A pass takes  *)
(* what it plans at once, and it plans no more than there is room for; all *)
(* other steps give a slot back or leave the slots alone.                  *)
(***************************************************************************)

LEMMA LastPlace ==
    ASSUME NEW n \in Nat, NEW T \in SUBSET (1..n), T # {}
    PROVE  \E i \in T : \A j \in T : j <= i
<1> DEFINE M == {n - i : i \in T}
<1>1. M \in SUBSET Nat /\ M # {}
  <2>1. ASSUME NEW i \in T PROVE n - i \in Nat OBVIOUS
  <2>2. M # {} OBVIOUS
  <2>3. QED BY <2>1, <2>2
<1>2. PICK m \in M : \A k \in M : m <= k BY <1>1, FirstPlace
<1>3. PICK i \in T : m = n - i BY <1>2
<1>4. \A j \in T : n - i <= n - j BY <1>2, <1>3
<1>5. \A j \in T : j <= i BY <1>4
<1>6. QED BY <1>5

LEMMA PlanFits ==
    ASSUME Typed, SlotsHeld, ~InPass, Plan # {}
    PROVE  Cardinality(holders \cup {Queue[i] : i \in Plan}) <= Slots
<1> DEFINE new == {Queue[i] : i \in Plan}
           Below(i) == {j \in Ready : j < i}
<1>1. /\ Plan \subseteq Ready /\ Ready \subseteq 1..Len(Queue) /\ Len(Queue) \in Nat
      /\ \A i \in Ready : i \in Nat
  BY QueueAssumption, LenProperties DEF Plan, Ready
<1>2. IsFiniteSet(Plan) /\ IsFiniteSet(Ready) /\ \A i : IsFiniteSet(Below(i))
  <2>1. IsFiniteSet(1..Len(Queue)) BY <1>1, FS_Interval
  <2>2. QED BY <1>1, <2>1, FS_Subset
<1>3. PICK m \in Plan : \A j \in Plan : j <= m BY <1>1, LastPlace
<1>4. Cardinality(Below(m)) + Cardinality(holders) < Slots BY DEF Plan
<1>5. Plan \subseteq Below(m) \cup {m}
  <2>1. ASSUME NEW j \in Plan, j # m PROVE j < m BY <1>1, <1>3, <2>1
  <2>2. QED BY <1>1, <2>1
<1>6. /\ IsFiniteSet(Below(m) \cup {m})
      /\ Cardinality(Below(m) \cup {m}) = Cardinality(Below(m)) + 1
  <2> DEFINE B == Below(m)
  <2>1. IsFiniteSet(B) /\ m \notin B BY <1>1, <1>2
  <2> HIDE DEF B
  <2>2. IsFiniteSet(B \cup {m}) /\ Cardinality(B \cup {m}) = Cardinality(B) + 1
    BY <2>1, FS_AddElement
  <2>3. QED BY <2>2 DEF B
<1>7. Cardinality(Plan) <= Cardinality(Below(m) \cup {m}) BY <1>5, <1>6, FS_Subset
<1>8. /\ Cardinality(holders) \in Nat /\ Cardinality(Plan) \in Nat
      /\ Cardinality(Below(m)) \in Nat
  <2>1. IsFiniteSet(holders) BY TasksAreFinite, FS_Subset DEF Typed
  <2>2. QED BY <1>2, <2>1, FS_CardinalityType
<1>9. Cardinality(holders \cup new) = Cardinality(holders) + Cardinality(Plan)
  BY PlanIsNew
<1> HIDE DEF new, Below
<1>10. Cardinality(holders \cup new) <= Slots
  BY <1>4, <1>6, <1>7, <1>8, <1>9, NumbersAssumption
<1>11. QED BY <1>10 DEF new

\* what a step does to the slots
SlotMove ==
    \/ UNCHANGED holders /\ (pc' = "stopped" <=> pc = "stopped")
    \/ /\ pc # "stopped" /\ pc' # "stopped"
       /\ \E t : holders' = holders \ {t}
    \/ PassBegins
    \/ EndOfRun

LEMMA SlotMoves ==
    ASSUME Typed, [Next]_vars PROVE SlotMove
<1> USE DEF passVars, taskVars, relaunchVars, ledgerVars, SlotMove
<1>1. CASE FailNext
  BY <1>1 DEF FailNext
<1>2. CASE TakeClosed \/ TornDown \/ TakeDue \/ TakeUp \/ TakeFailed
  BY <1>2 DEF TakeClosed, TornDown, TakeDue, TakeUp, TakeFailed, Taking, Handled
<1>3. CASE DispatchNext
  BY <1>3 DEF DispatchNext, FailDispatch, HoldersParking
<1>4. CASE Claim
  BY <1>4 DEF Claim, BackToPass
<1>5. CASE Launch \/ Subscribe
  BY <1>5 DEF Launch, Subscribe, FailDispatch, BackToPass
<1>6. CASE PassEnds \/ Tick
  BY <1>6 DEF PassEnds, Tick
<1>7. CASE Outside \/ \E p \in Plugins : Dies(p) \/ LaunchEnds(p)
  BY <1>7 DEF Outside, Notice, TimerFires, Dies, LaunchEnds
<1>8. CASE People \/ \E t \in Tasks : Finish(t)
  BY <1>8 DEF People, GroupStop, Retry, Finish, Handled
<1>9. CASE Stopped \/ StopArrives \/ Elapse \/ UNCHANGED vars
  BY <1>9 DEF Stopped, StopArrives, Elapse, vars
<1>10. QED BY <1>1, <1>2, <1>3, <1>4, <1>5, <1>6, <1>7, <1>8, <1>9
           DEF Next, Supervising, Dispatching

LEMMA PromiseStep ==
    ASSUME Typed, Typed', SlotsHeld, [Next]_vars PROVE [Ledger!Next]_Ledger!vars
<1> DEFINE held == IF pc = "stopped" THEN {} ELSE holders
<1>1. CASE UNCHANGED holders /\ (pc' = "stopped" <=> pc = "stopped")
  BY <1>1 DEF Ledger!vars
<1>2. CASE /\ pc # "stopped" /\ pc' # "stopped"
           /\ \E t : holders' = holders \ {t}
  <2>1. PICK t : holders' = holders \ {t} BY <1>2
  <2>2. holders' = holders \ ({t} \cap Tasks) BY <2>1 DEF Typed
  <2>3. Ledger!GiveBack({t} \cap Tasks) BY <1>2, <2>2 DEF Ledger!GiveBack
  <2>4. QED BY <2>3 DEF Ledger!Next
<1>3. CASE PassBegins
  <2> DEFINE new == {Queue[i] : i \in Plan}
             Cap == [tier \in {"slots"} |-> Slots]
  <2>1. /\ pc = "planning" /\ pc' = "pass" /\ ~InPass /\ holders' = holders \cup new
        /\ new \in SUBSET Tasks
    BY <1>3 DEF PassBegins, InPass, Plan, Ready, Tasks
  <2>2. ASSUME NEW t \in new PROVE Cardinality(holders') <= Slots
    BY <2>1, <2>2, PlanFits
  <2>3. Ledger!Used("slots", holders') = Cardinality(holders')
    <3>1. {t \in holders' : "slots" \in [u \in Tasks |-> {"slots"}][t]} = holders'
      BY DEF Typed
    <3>2. QED BY <3>1 DEF Ledger!Used, Ledger!Cardinality, Cardinality
  <2>4. Cap["slots"] = Slots OBVIOUS
  <2>5. ASSUME NEW tier \in {"slots"}, NEW t \in new \ holders
        PROVE  Ledger!Used(tier, holders') <= Cap[tier]
    BY <2>2, <2>3, <2>4, <2>5
  <2> HIDE DEF new
  <2>6. Ledger!Take(new) BY <2>1, <2>5 DEF Ledger!Take
  <2>7. QED BY <2>1, <2>6 DEF Ledger!Next
<1>4. CASE EndOfRun
  BY <1>4 DEF EndOfRun, Ledger!Stop, Ledger!Next
<1>5. QED BY <1>1, <1>2, <1>3, <1>4, SlotMoves DEF SlotMove

\* whichever plugin dies, and whenever: slots are taken below the cap only
\* (run/dispatch.rs, run/supervise.rs)
THEOREM SupervisionSlotsKeepTheirCap == Spec => SlotsKeepTheirCap
<1> DEFINE Inv == Typed /\ SlotsHeld
<1>1. Init => Inv BY TypedInit, SlotsInit
<1>2. Inv /\ [Next]_vars => Inv' BY TypedStep, SlotsStep
<1>3. Init => Ledger!Init BY DEF Init, Ledger!Init
<1>4. Inv /\ [Next]_vars => [Ledger!Next]_Ledger!vars BY TypedStep, PromiseStep
<1> HIDE DEF Inv
<1>5. QED BY <1>1, <1>2, <1>3, <1>4, PTL DEF Spec, SlotsKeepTheirCap, Ledger!Spec
=============================================================================
