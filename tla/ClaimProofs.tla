---------------------------- MODULE ClaimProofs ----------------------------
(***************************************************************************)
(* Theorems about Claim, for any number of instances, entries, retries and *)
(* faults, and any claim_verify_delay: the types, that a loser holds       *)
(* nothing, that a person's routing is kept, and that of the instances     *)
(* that read back after the second of their write one runs the task.      *)
(***************************************************************************)
EXTENDS Claim, FiniteSetTheorems, SequenceTheorems, TLAPS

All == 1..Len(timeline)

\* where a claim can be while its instance is assigned or not
StepsFit ==
    /\ \A i \in Instances : pc[i] \in {"write", "reread"} => i \notin assignees
    /\ \A i \in Instances :
         pc[i] \in {"leave", "leave_again"} => i \in assignees
    /\ \A i \in unsettled : pc[i] = "idle"
    /\ \A i \in ran : pc[i] = "idle" /\ i \in assignees
    /\ \A i \in assignees : pc[i] = "idle" => i \in ran \cup unsettled \cup routed

\* nobody claims what a person assigned
RoutingFits ==
    routed # {} => assignees = routed /\ \A i \in Instances : pc[i] = "idle"

\* an assignee whose task is skipped could not be removed, or was assigned by a
\* person and has not ingested the entry yet
SkippedFit ==
    /\ \A i \in Instances : seen[i] <= entry
    /\ \A i \in assignees :
         state[i] = "skipped" =>
           i \in unsettled \/ (i \in routed /\ seen[i] # entry)

\* the events of i are of earlier seconds
Old(i) == \A k \in Events(i, All) : k <= sealed

\* a winner that was not early has a tenure of an earlier second, and older than
\* any other
WinnersAreOldest ==
    /\ \A i \in aged \cap assignees : Old(i)
    /\ \A w \in ran \ (unsettled \cup routed \cup early) :
         Old(w) /\ \A j \in assignees \ {w} : Earlier(w, j, All)

IInv == TypeOK /\ StepsFit /\ RoutingFits /\ SkippedFit

-----------------------------------------------------------------------------
(* The timeline. *)

LEMMA Insertion ==
    ASSUME TypeOK, NEW i \in Instances, NEW k \in 0..Len(timeline)
    PROVE  /\ Assigned(i, k) \in Seq(Instances)
           /\ Len(Assigned(i, k)) = Len(timeline) + 1
           /\ Assigned(i, k)[k + 1] = i
           /\ \A m \in 1..k : Assigned(i, k)[m] = timeline[m]
           /\ \A m \in (k + 1)..Len(timeline) :
                Assigned(i, k)[m + 1] = timeline[m]
  <1>1. timeline \in Seq(Instances) /\ Len(timeline) \in Nat
        /\ \A m \in 1..Len(timeline) : timeline[m] \in Instances
    BY ElementOfSeq, LenProperties DEF TypeOK
  <1> DEFINE n == Len(timeline)
  <1>2. \A m \in 1..n + 1 : Assigned(i, k)[m] \in Instances
    BY <1>1 DEF Assigned
  <1>3. Assigned(i, k) \in [1..n + 1 -> Instances]
    BY <1>2 DEF Assigned
  <1>4. Assigned(i, k) \in Seq(Instances) /\ Len(Assigned(i, k)) = n + 1
    BY <1>1, <1>3
  <1>5. Assigned(i, k)[k + 1] = i /\ \A m \in 1..k : Assigned(i, k)[m] = timeline[m]
    BY <1>1 DEF Assigned
  <1>6. \A m \in (k + 1)..Len(timeline) : Assigned(i, k)[m + 1] = timeline[m]
    BY <1>1 DEF Assigned
  <1> QED BY <1>4, <1>5, <1>6

-----------------------------------------------------------------------------
(* Types. *)

LEMMA TypesStart == Init => TypeOK
  BY ClaimAssumption DEF Init, TypeOK

LEMMA AssignTypes ==
    ASSUME TypeOK, NEW i \in Instances, Assign(i)
    PROVE  /\ assignees' \subseteq Instances /\ assignees \subseteq assignees'
           /\ timeline' \in Seq(Instances) /\ sealed \in 0..Len(timeline')
  <1>1. CASE i \in assignees
    BY <1>1 DEF Assign, TypeOK
  <1>2. CASE i \notin assignees
    <2>1. PICK k \in sealed..Len(timeline) : timeline' = Assigned(i, k)
      BY <1>2 DEF Assign
    <2>2. k \in 0..Len(timeline)
      BY <2>1 DEF TypeOK
    <2>3. timeline' \in Seq(Instances) /\ Len(timeline') = Len(timeline) + 1
      BY <2>1, <2>2, Insertion
    <2> QED BY <1>2, <2>3 DEF Assign, TypeOK
  <1> QED BY <1>1, <1>2

LEMMA TypesKept == TypeOK /\ StepsFit /\ RoutingFits /\ [Next]_vars => TypeOK'
  <1> SUFFICES ASSUME TypeOK, StepsFit, RoutingFits, [Next]_vars
               PROVE  TypeOK'
    OBVIOUS
  <1> USE DEF TypeOK
  <1>1. CASE Second
    BY <1>1 DEF Second, laneVars, countVars
  <1>2. CASE MoveBack
    <2>1. PICK who \in SUBSET Instances :
            /\ assignees' = who /\ routed' = who
            /\ \E news \in [1..Cardinality(who \ assignees) -> who \ assignees] :
                 /\ timeline' = timeline \o news /\ sealed' = Len(timeline')
      BY <1>2 DEF MoveBack
    <2>2. PICK news \in [1..Cardinality(who \ assignees) -> who \ assignees] :
            timeline' = timeline \o news /\ sealed' = Len(timeline')
      BY <2>1
    <2>3. Cardinality(who \ assignees) \in Nat
      BY ClaimAssumption, FS_Subset, FS_CardinalityType
    <2>4. news \in Seq(who \ assignees)
      <3> DEFINE n == Cardinality(who \ assignees)
                 W == who \ assignees
      <3>1. n \in Nat /\ news \in [1..n -> W]
        BY <2>2, <2>3
      <3> HIDE DEF n, W
      <3>2. news \in UNION {[1..m -> W] : m \in Nat}
        BY <3>1
      <3>3. Seq(W) = UNION {[1..m -> W] : m \in Nat}
        BY SeqDef, Zenon
      <3>4. news \in Seq(W)
        BY <3>2, <3>3, Zenon
      <3> QED BY <3>4 DEF W
    <2>7. news \in Seq(Instances)
      BY <2>4, SeqMonotonic
    <2>5. timeline' \in Seq(Instances) /\ sealed' \in 0..Len(timeline')
      BY <2>2, <2>7, ConcatProperties, LenProperties
    <2>6. \A i \in Instances : pc[i] = "idle"
      BY <1>2 DEF MoveBack, AtRest
    <2>8. entry' \in 1..MaxEntries
      BY <1>2, ClaimAssumption DEF MoveBack
    <2>9. UNCHANGED <<state, pc, aged, seen, retries, faults>>
          /\ ran' = {} /\ unsettled' = {} /\ early' = {}
      BY <1>2 DEF MoveBack, countVars
    <2> QED BY <2>1, <2>5, <2>8, <2>9
  <1>3. ASSUME NEW i \in Instances, PreRead(i) PROVE TypeOK'
    <2>1. pc[i] = "idle" /\ state[i] = "queued" /\ i \notin aged
      BY <1>3 DEF PreRead
    <2>2. UNCHANGED <<assignees, timeline, sealed, aged, early, seen, entry,
                      routed, unsettled, retries, faults>>
      BY <1>3 DEF PreRead, issueVars, laneVars, countVars
    <2>3. /\ ran' \in {ran, ran \cup {i}}
          /\ \/ pc' = [pc EXCEPT ![i] = "write"] /\ state' = state
             \/ /\ pc' = [pc EXCEPT ![i] = "idle"]
                /\ \E s \in {"running", "skipped"} :
                     state' = [state EXCEPT ![i] = s]
      BY <1>3 DEF PreRead, Won, Lost, Goes, ClaimEnds
    <2>4. pc' \in [Instances -> {"idle", "write", "verify", "reread", "leave",
                                 "leave_again"}]
      BY <2>3
    <2>5. state' \in [Instances -> {"none", "queued", "running", "done",
                                    "failed", "skipped"}]
      BY <2>3
    <2>6. \A k \in Instances : pc'[k] # "idle" => state'[k] = "queued"
      BY <2>1, <2>3
    <2>7. aged' \subseteq {k \in Instances : pc'[k] = "verify"}
      BY <2>1, <2>2, <2>3
    <2>8. ran' \subseteq Instances
      BY <2>3
    <2> QED BY <2>2, <2>4, <2>5, <2>6, <2>7, <2>8
  <1>4. ASSUME NEW i \in Instances, Write(i) PROVE TypeOK'
    <2>1. /\ assignees' \subseteq Instances /\ assignees \subseteq assignees'
          /\ timeline' \in Seq(Instances) /\ sealed' \in 0..Len(timeline')
      BY <1>4, AssignTypes DEF Write
    <2> QED BY <1>4, <2>1 DEF Write, Goes, laneVars, countVars
  <1>5. ASSUME NEW i \in Instances, ReadBack(i) PROVE TypeOK'
    <2>1. pc[i] \in {"verify", "reread"}
      BY <1>5 DEF ReadBack
    <2>2. /\ UNCHANGED <<assignees, timeline, sealed, seen, entry, routed,
                         retries, faults>>
          /\ aged' = aged \ {i} /\ early' \in {early \cup {i}, early \ {i}}
      BY <1>5 DEF ReadBack, laneVars, countVars
    <2>3. /\ ran' \in {ran, ran \cup {i}}
          /\ unsettled' \subseteq unsettled \cup ({i} \cap (assignees \ routed))
      BY <1>5 DEF ReadBack, Adjudged, Unanswered, Won, Forbidden, Goes
    <2>4. \/ /\ \E s \in {"reread", "leave", "idle"} :
                  pc' = [pc EXCEPT ![i] = s]
             /\ state' = state
          \/ /\ pc' = [pc EXCEPT ![i] = "idle"]
             /\ \E s \in {"running", "failed"} :
                  state' = [state EXCEPT ![i] = s]
      BY <1>5 DEF ReadBack, Adjudged, Unanswered, Won, Forbidden, Goes,
         ClaimEnds
    <2>5. pc' \in [Instances -> {"idle", "write", "verify", "reread", "leave",
                                 "leave_again"}]
      BY <2>4
    <2>6. state' \in [Instances -> {"none", "queued", "running", "done",
                                    "failed", "skipped"}]
      BY <2>4
    <2>7. \A k \in Instances : pc'[k] # "idle" => state'[k] = "queued"
      BY <2>1, <2>4
    <2>8. aged' \subseteq {k \in Instances : pc'[k] = "verify"}
      BY <2>1, <2>2, <2>4
    <2>9. ran' \subseteq Instances /\ unsettled' \subseteq assignees' \ routed'
      BY <2>2, <2>3
    <2> QED BY <2>2, <2>5, <2>6, <2>7, <2>8, <2>9
  <1>6. ASSUME NEW i \in Instances, StepAside(i) PROVE TypeOK'
    <2>1. i \notin unsettled
      BY <1>6 DEF StepAside, StepsFit
    <2> QED BY <1>6, <2>1 DEF StepAside, Without, Lost, ClaimEnds, laneVars,
               countVars
  <1>7. ASSUME NEW i \in Instances, StepAsideFails(i) PROVE TypeOK'
    <2>1. pc[i] \in {"leave", "leave_again"}
      BY <1>7 DEF StepAsideFails
    <2>2. i \in assignees \ routed /\ i \notin aged
      BY <2>1 DEF StepsFit, RoutingFits
    <2>3. faults' \in 0..MaxFaults
      BY <1>7, ClaimAssumption DEF StepAsideFails, Fault
    <2>4. UNCHANGED <<assignees, timeline, sealed, aged, early, seen, entry,
                      routed, retries>>
      BY <1>7 DEF StepAsideFails, issueVars, laneVars
    <2>5. /\ ran' = ran /\ unsettled' \subseteq unsettled \cup {i}
          /\ \/ pc' = [pc EXCEPT ![i] = "leave_again"] /\ state' = state
             \/ /\ pc' = [pc EXCEPT ![i] = "idle"]
                /\ state' = [state EXCEPT ![i] = "skipped"]
      BY <1>7 DEF StepAsideFails, Goes, Lost, ClaimEnds
    <2> QED BY <2>1, <2>2, <2>3, <2>4, <2>5
  <1>8. ASSUME NEW i \in Instances, Interrupted(i) PROVE TypeOK'
    <2>1. faults' \in 0..MaxFaults
      BY <1>8, ClaimAssumption DEF Interrupted, Fault
    <2>2. /\ UNCHANGED <<assignees, timeline, sealed, early, state, seen, entry,
                         routed, ran, retries>>
          /\ aged' = aged \ {i} /\ pc' = [pc EXCEPT ![i] = "idle"]
      BY <1>8 DEF Interrupted, Unanswered, ClaimEnds, laneVars
    <2>3. unsettled' \subseteq unsettled \cup ({i} \cap (assignees \ routed))
      BY <1>8 DEF Interrupted, Unanswered
    <2> QED BY <2>1, <2>2, <2>3
  <1>9. ASSUME NEW i \in Instances, Ingest(i) PROVE TypeOK'
    BY <1>9 DEF Ingest, issueVars, countVars
  <1>11. ASSUME NEW i \in Instances, Finish(i) PROVE TypeOK'
    BY <1>11 DEF Finish, issueVars, laneVars, countVars
  <1>12. ASSUME NEW i \in Instances, Retry(i) PROVE TypeOK'
    BY <1>12, ClaimAssumption DEF Retry, issueVars, laneVars
  <1>10. CASE UNCHANGED vars
    BY <1>10 DEF vars
  <1> QED BY <1>1, <1>2, <1>3, <1>4, <1>5, <1>6, <1>7, <1>8, <1>9, <1>10,
             <1>11, <1>12 DEF Next, Claiming

-----------------------------------------------------------------------------
(* Where a claim stands, and what its instance holds. *)

LEMMA StepsStart == Init => StepsFit /\ RoutingFits /\ SkippedFit
  BY DEF Init, StepsFit, RoutingFits, SkippedFit

\* what a write adds
LEMMA WriteAssigns ==
    ASSUME IInv, NEW i \in Instances, Write(i)
    PROVE  /\ i \notin assignees /\ pc[i] = "write"
           /\ pc' = [pc EXCEPT ![i] = "verify"]
           /\ \/ UNCHANGED <<assignees, timeline>>
              \/ /\ assignees' = assignees \cup {i}
                 /\ \E k \in sealed..Len(timeline) : timeline' = Assigned(i, k)
           /\ UNCHANGED <<state, sealed, aged, early, seen, entry, routed, ran,
                          unsettled>>
  BY DEF Write, Assign, Goes, laneVars, IInv, StepsFit

LEMMA FitKept == IInv /\ [Next]_vars => StepsFit' /\ RoutingFits' /\ SkippedFit'
  <1> SUFFICES ASSUME IInv, [Next]_vars
               PROVE  StepsFit' /\ RoutingFits' /\ SkippedFit'
    OBVIOUS
  <1> USE DEF IInv, TypeOK, StepsFit, RoutingFits, SkippedFit
  <1>1. CASE Second
    BY <1>1 DEF Second, laneVars, countVars
  <1>2. CASE MoveBack
    <2>1. \A i \in Instances : pc[i] = "idle"
      BY <1>2 DEF MoveBack, AtRest
    <2>2. /\ ran' = {} /\ unsettled' = {} /\ assignees' = routed'
          /\ assignees' \subseteq Instances
          /\ entry' = entry + 1 /\ UNCHANGED <<state, pc, seen>>
      BY <1>2 DEF MoveBack
    <2> QED BY <2>1, <2>2
  <1>3. ASSUME NEW i \in Instances, PreRead(i)
        PROVE  StepsFit' /\ RoutingFits' /\ SkippedFit'
    <2>1. /\ pc[i] = "idle" /\ UNCHANGED <<assignees, seen, entry, routed,
                                           unsettled>>
          /\ \/ /\ i \in assignees /\ pc' = [pc EXCEPT ![i] = "idle"]
                /\ state' = [state EXCEPT ![i] = "running"]
                /\ ran' = ran \cup {i}
             \/ /\ i \notin assignees /\ pc' = [pc EXCEPT ![i] = "idle"]
                /\ state' = [state EXCEPT ![i] = "skipped"] /\ ran' = ran
             \/ /\ assignees = {} /\ pc' = [pc EXCEPT ![i] = "write"]
                /\ UNCHANGED <<state, ran>>
      BY <1>3 DEF PreRead, HoldsAlready, Won, Lost, Goes, ClaimEnds, issueVars,
         laneVars
    <2>2. StepsFit'
      BY <2>1
    <2>3. RoutingFits'
      BY <2>1
    <2>4. SkippedFit'
      BY <2>1
    <2> QED BY <2>2, <2>3, <2>4
  <1>4. ASSUME NEW i \in Instances, Write(i)
        PROVE  StepsFit' /\ RoutingFits' /\ SkippedFit'
    <2>1. i \notin assignees /\ pc[i] = "write" /\ assignees' \subseteq assignees \cup {i}
          /\ assignees \subseteq assignees'
          /\ pc' = [pc EXCEPT ![i] = "verify"]
          /\ UNCHANGED <<state, seen, entry, routed, ran, unsettled>>
      BY <1>4, WriteAssigns
    <2> QED BY <2>1
  <1>5. ASSUME NEW i \in Instances, ReadBack(i)
        PROVE  StepsFit' /\ RoutingFits' /\ SkippedFit'
    BY <1>5 DEF ReadBack, Adjudged, Unanswered, Won, Forbidden, Goes,
       ClaimEnds, laneVars
  <1>6. ASSUME NEW i \in Instances, StepAside(i)
        PROVE  StepsFit' /\ RoutingFits' /\ SkippedFit'
    BY <1>6 DEF StepAside, Without, Lost, ClaimEnds, laneVars
  <1>7. ASSUME NEW i \in Instances, StepAsideFails(i)
        PROVE  StepsFit' /\ RoutingFits' /\ SkippedFit'
    BY <1>7 DEF StepAsideFails, Lost, Goes, ClaimEnds, issueVars, laneVars
  <1>8. ASSUME NEW i \in Instances, Interrupted(i)
        PROVE  StepsFit' /\ RoutingFits' /\ SkippedFit'
    <2>1. /\ UNCHANGED <<assignees, state, seen, entry, routed, ran>>
          /\ pc[i] # "idle" /\ pc' = [pc EXCEPT ![i] = "idle"]
      BY <1>8 DEF Interrupted, Unanswered, ClaimEnds, laneVars
    <2>2. unsettled' = IF i \in assignees \ routed THEN unsettled \cup {i}
                       ELSE unsettled
      BY <1>8 DEF Interrupted, Unanswered
    <2>3. StepsFit'
      BY <2>1, <2>2
    <2>4. RoutingFits' /\ SkippedFit'
      BY <2>1, <2>2
    <2> QED BY <2>3, <2>4
  <1>9. ASSUME NEW i \in Instances, Ingest(i)
        PROVE  StepsFit' /\ RoutingFits' /\ SkippedFit'
    BY <1>9 DEF Ingest, issueVars
  <1>11. ASSUME NEW i \in Instances, Finish(i)
         PROVE  StepsFit' /\ RoutingFits' /\ SkippedFit'
    BY <1>11 DEF Finish, issueVars, laneVars
  <1>12. ASSUME NEW i \in Instances, Retry(i)
         PROVE  StepsFit' /\ RoutingFits' /\ SkippedFit'
    BY <1>12 DEF Retry, issueVars, laneVars
  <1>10. CASE UNCHANGED vars
    BY <1>10 DEF vars
  <1> QED BY <1>1, <1>2, <1>3, <1>4, <1>5, <1>6, <1>7, <1>8, <1>9, <1>10,
             <1>11, <1>12 DEF Next, Claiming

LEMMA Invariant == Spec => []IInv
  <1>1. Init => IInv
    BY TypesStart, StepsStart DEF IInv
  <1>2. IInv /\ [Next]_vars => IInv'
    BY TypesKept, FitKept DEF IInv
  <1> QED BY <1>1, <1>2, PTL DEF Spec

\* Every variable has its type, whatever the number of instances and the bounds.
THEOREM ClaimTypeCorrect == Spec => []TypeOK
  <1>1. IInv => TypeOK
    BY DEF IInv
  <1> QED BY <1>1, Invariant, PTL

\* client.rs step aside: a task that lost its race is not assigned to its
\* instance, unless the removal of the assignment failed.
THEOREM ClaimLoserHoldsNothing == Spec => []LoserHoldsNothing
  <1>1. IInv => LoserHoldsNothing
    BY DEF IInv, SkippedFit, LoserHoldsNothing
  <1> QED BY <1>1, Invariant, PTL

\* client.rs pre-read: an instance a person assigned never loses the task.
THEOREM ClaimRoutingIsKept == Spec => []RoutingIsKept
  <1>1. IInv => RoutingIsKept
    BY DEF IInv, TypeOK, SkippedFit, RoutingFits, RoutingIsKept
  <1> QED BY <1>1, Invariant, PTL

-----------------------------------------------------------------------------
(* One winner of those that were not early. *)

LEMMA OldestStart == Init => WinnersAreOldest
  BY DEF Init, WinnersAreOldest

\* steps that leave the issue, and who is assigned, as they are
LEMMA OldestAsBefore ==
    ASSUME WinnersAreOldest, UNCHANGED <<timeline, sealed>>,
           assignees' \subseteq assignees, aged' \subseteq aged,
           ran' \ (unsettled' \cup routed' \cup early')
             \subseteq ran \ (unsettled \cup routed \cup early)
    PROVE  WinnersAreOldest'
  BY DEF WinnersAreOldest, Old, Earlier, Events, All

LEMMA EventTypes ==
    ASSUME TypeOK
    PROVE  /\ sealed \in Nat /\ Len(timeline) \in Nat /\ sealed <= Len(timeline)
           /\ All \subseteq Nat /\ \A i : Events(i, All) \subseteq Nat
  BY LenProperties DEF TypeOK, All, Events

\* an event that comes in after the sealed ones moves none of them
LEMMA WriteKeepsOldest ==
    ASSUME IInv, WinnersAreOldest, NEW i \in Instances, Write(i)
    PROVE  WinnersAreOldest'
  <1>0. TypeOK
    BY DEF IInv
  <1>1. /\ i \notin assignees /\ pc[i] = "write"
        /\ UNCHANGED <<state, sealed, aged, early, seen, entry, routed, ran,
                       unsettled>>
    BY WriteAssigns
  <1>2. CASE UNCHANGED <<assignees, timeline>>
    BY <1>1, <1>2, OldestAsBefore
  <1>3. CASE /\ assignees' = assignees \cup {i}
             /\ \E k \in sealed..Len(timeline) : timeline' = Assigned(i, k)
    <2>1. PICK k \in sealed..Len(timeline) : timeline' = Assigned(i, k)
      BY <1>3
    <2>2. k \in 0..Len(timeline) /\ sealed \in 0..k /\ Len(timeline) \in Nat
      BY <1>0, <2>1, EventTypes
    <2>3. /\ Len(timeline') = Len(timeline) + 1 /\ timeline'[k + 1] = i
          /\ \A m \in 1..k : timeline'[m] = timeline[m]
          /\ \A m \in (k + 1)..Len(timeline) : timeline'[m + 1] = timeline[m]
      BY <1>0, <2>1, <2>2, Insertion
    <2>4. ASSUME NEW j \in Instances \ {i}, Old(j)
          PROVE  Old(j)' /\ Events(j, All)' = Events(j, All)
      <3>1. ASSUME NEW m \in Events(j, All)
            PROVE  m \in Events(j, All)' /\ m <= sealed
        BY <2>2, <2>3, <2>4, <3>1 DEF Old, Events, All
      <3>2. ASSUME NEW m \in Events(j, All)' PROVE m \in Events(j, All)
        <4>1. m \in 1..Len(timeline) + 1 /\ timeline'[m] = j
          BY <3>2, <2>3 DEF Events, All
        <4>2. CASE m <= k
          BY <2>2, <2>3, <4>1, <4>2 DEF Events, All
        <4>3. CASE m = k + 1
          BY <2>3, <4>1, <4>3
        <4>4. CASE m > k + 1
          <5>1. m - 1 \in (k + 1)..Len(timeline) /\ (m - 1) + 1 = m
            BY <2>2, <4>1, <4>4
          <5>2. timeline[m - 1] = j
            BY <2>3, <4>1, <5>1
          <5>3. m - 1 \in Events(j, All)
            BY <2>2, <5>1, <5>2 DEF Events, All
          <5>4. m - 1 <= sealed
            BY <2>4, <5>3 DEF Old
          <5> QED BY <2>2, <5>1, <5>4
        <4> QED BY <2>2, <4>1, <4>2, <4>3, <4>4
      <3>3. Events(j, All)' = Events(j, All)
        BY <3>1, <3>2
      <3>4. Old(j)'
        BY <3>1, <3>3, <1>1 DEF Old
      <3> QED BY <3>3, <3>4
    <2>5. ASSUME NEW w \in Instances \ {i}, NEW j \in Instances \ {w},
                 Old(w), j # i => Earlier(w, j, All)
          PROVE  Earlier(w, j, All)'
      <3>1. \A m \in Events(w, All)' : m <= sealed /\ m \in Nat
        BY <2>4, <2>5, <1>0, EventTypes DEF Old
      <3>2. CASE j = i
        <4>1. k + 1 \in Events(i, All)'
          BY <2>2, <2>3 DEF Events, All
        <4>2. \A m \in Events(w, All)' : m < k + 1
          BY <2>2, <3>1
        <4> QED BY <3>2, <4>1, <4>2 DEF Earlier
      <3>3. CASE j # i
        <4>1. PICK l \in Events(j, All) : \A m \in Events(w, All) : m < l
          BY <2>5, <3>3 DEF Earlier
        <4>2. l \in 1..Len(timeline) /\ timeline[l] = j
          BY <4>1 DEF Events, All
        <4>3. \E n \in Events(j, All)' : n >= l
          <5>1. CASE l <= k
            BY <2>2, <2>3, <4>2, <5>1 DEF Events, All
          <5>2. CASE l > k
            <6>1. l + 1 \in Events(j, All)'
              BY <2>2, <2>3, <4>2, <5>2 DEF Events, All
            <6> QED BY <4>2, <6>1
          <5> QED BY <2>2, <4>2, <5>1, <5>2
        <4>4. PICK n \in Events(j, All)' : n >= l
          BY <4>3
        <4>5. n \in Nat
          BY <4>4, <2>2, <2>3 DEF Events, All
        <4>6. \A m \in Events(w, All)' : m < n
          BY <2>4, <2>5, <3>1, <4>1, <4>2, <4>4, <4>5
        <4> QED BY <4>4, <4>6 DEF Earlier
      <3> QED BY <3>2, <3>3
    <2>6. ran \subseteq assignees /\ assignees \subseteq Instances /\ i \notin aged
      BY <1>0, <1>1 DEF IInv, StepsFit, TypeOK
    <2>7. \A j \in (aged \cap assignees)' : Old(j)'
      BY <1>1, <1>3, <2>4, <2>6 DEF WinnersAreOldest
    <2>8. ASSUME NEW w \in (ran \ (unsettled \cup routed \cup early))'
          PROVE  Old(w)' /\ \A j \in assignees' \ {w} : Earlier(w, j, All)'
      <3>1. w \in ran \ (unsettled \cup routed \cup early) /\ w \in Instances \ {i}
        BY <1>1, <2>6
      <3>2. Old(w) /\ \A j \in assignees \ {w} : Earlier(w, j, All)
        BY <3>1 DEF WinnersAreOldest
      <3> QED BY <1>1, <1>3, <2>4, <2>5, <2>6, <3>1, <3>2
    <2> QED BY <2>7, <2>8 DEF WinnersAreOldest
  <1> QED BY <1>2, <1>3, WriteAssigns

\* who wins after its second is over has the oldest tenure
LEMMA ReadBackKeepsOldest ==
    ASSUME IInv, WinnersAreOldest, NEW i \in Instances, ReadBack(i)
    PROVE  WinnersAreOldest'
  <1>0. TypeOK /\ StepsFit
    BY DEF IInv
  <1>1. /\ UNCHANGED <<assignees, timeline, sealed, routed>>
        /\ aged' = aged \ {i} /\ unsettled \subseteq unsettled'
        /\ early \ {i} \subseteq early' /\ (Early(i) => i \in early')
    BY DEF ReadBack, Adjudged, Unanswered, laneVars
  <1>4. i \notin ran /\ ran' \subseteq ran \cup {i}
    BY <1>0 DEF ReadBack, Adjudged, Unanswered, Won, Forbidden, Goes, StepsFit
  <1>2. CASE ran' = ran \/ Early(i)
    BY <1>1, <1>2, <1>4, OldestAsBefore
  <1>3. CASE ran' # ran /\ ~Early(i)
    <2>1. /\ i \in assignees /\ i \in aged /\ ran' = ran \cup {i}
          /\ \/ assignees = {i}
             \/ \E shown \in Shown : Wins(i, shown)
      BY <1>0, <1>3 DEF ReadBack, Early, Adjudged, Unanswered, Won, Forbidden,
         Goes, StepsFit, TypeOK
    <2>2. Old(i)
      BY <2>1 DEF WinnersAreOldest
    <2>3. ASSUME NEW j \in assignees \ {i} PROVE Earlier(i, j, All)
      <3>1. PICK shown \in Shown : Wins(i, shown)
        BY <2>1, <2>3
      <3>2. PICK l \in Events(j, shown) : \A m \in Events(i, shown) : m < l
        BY <3>1, <2>3 DEF Wins, Earlier
      <3>3. 1..sealed \subseteq shown /\ shown \subseteq All
        <4>1. \/ \E late \in SUBSET (sealed + 1..Len(timeline)) :
                   shown = 1..sealed \cup late
              \/ shown = 1..Len(timeline)
          BY <3>1 DEF Shown
        <4>2. sealed \in Nat /\ Len(timeline) \in Nat /\ sealed <= Len(timeline)
          BY <1>0, EventTypes
        <4>3. /\ 1..sealed \subseteq 1..Len(timeline)
              /\ sealed + 1..Len(timeline) \subseteq 1..Len(timeline)
          BY <4>2
        <4> QED BY <4>1, <4>3 DEF All
      <3>4. l \in Events(j, All)
        BY <3>2, <3>3 DEF Events
      <3>5. Events(i, All) \subseteq Events(i, shown)
        BY <1>0, <2>2, <3>3, EventTypes DEF Events, Old, All
      <3> QED BY <3>2, <3>4, <3>5 DEF Earlier
    <2>4. \A w : Old(w)' = Old(w)
      BY <1>1 DEF Old, Events, All
    <2>5. \A w, j : Earlier(w, j, All)' = Earlier(w, j, All)
      BY <1>1 DEF Earlier, Events, All
    <2> QED BY <1>1, <2>1, <2>2, <2>3, <2>4, <2>5 DEF WinnersAreOldest
  <1> QED BY <1>2, <1>3

LEMMA OldestKept == IInv /\ WinnersAreOldest /\ [Next]_vars => WinnersAreOldest'
  <1> SUFFICES ASSUME IInv, WinnersAreOldest, [Next]_vars
               PROVE  WinnersAreOldest'
    OBVIOUS
  <1>0. TypeOK /\ StepsFit
    BY DEF IInv
  <1>1. CASE Second
    <2>1. sealed' = Len(timeline) /\ UNCHANGED <<assignees, timeline, early, ran,
                                                 unsettled, routed>>
      BY <1>1 DEF Second, laneVars
    <2>2. \A w : Old(w)'
      BY <1>0, <2>1, EventTypes DEF Old, Events, All
    <2>3. \A w, j : Earlier(w, j, All)' = Earlier(w, j, All)
      BY <2>1 DEF Earlier, Events, All
    <2> QED BY <2>1, <2>2, <2>3 DEF WinnersAreOldest
  <1>2. CASE MoveBack
    <2>1. ran' = {} /\ aged' = aged /\ \A i \in Instances : pc[i] = "idle"
      BY <1>0, <1>2 DEF MoveBack, AtRest, TypeOK
    <2>2. aged' = {}
      BY <1>0, <2>1 DEF TypeOK
    <2> QED BY <2>1, <2>2 DEF WinnersAreOldest
  <1>3. ASSUME NEW i \in Instances, PreRead(i) PROVE WinnersAreOldest'
    <2>1. UNCHANGED <<assignees, timeline, sealed, aged, early, unsettled, routed>>
      BY <1>3 DEF PreRead, issueVars, laneVars
    <2>3. \/ ran' = ran
          \/ i \in assignees /\ pc[i] = "idle" /\ ran' = ran \cup {i}
      BY <1>3 DEF PreRead, HoldsAlready, Won, Lost, Goes
    <2>2. i \in assignees /\ pc[i] = "idle" => i \in ran \cup unsettled \cup routed
      BY <1>0 DEF StepsFit
    <2> QED BY <2>1, <2>2, <2>3, OldestAsBefore
  <1>6. ASSUME NEW i \in Instances, StepAside(i) PROVE WinnersAreOldest'
    <2>1. /\ UNCHANGED <<timeline, sealed, aged, early, routed, ran, unsettled>>
          /\ assignees' \subseteq assignees
      BY <1>6 DEF StepAside, Without, Lost, laneVars
    <2> QED BY <2>1, OldestAsBefore
  <1>7. ASSUME NEW i \in Instances, StepAsideFails(i) PROVE WinnersAreOldest'
    <2>1. /\ UNCHANGED <<assignees, timeline, sealed, aged, early, routed, ran>>
          /\ unsettled \subseteq unsettled'
      BY <1>7 DEF StepAsideFails, Lost, Goes, issueVars, laneVars
    <2> QED BY <2>1, OldestAsBefore
  <1>8. ASSUME NEW i \in Instances, Interrupted(i) PROVE WinnersAreOldest'
    <2>1. /\ UNCHANGED <<assignees, timeline, sealed, early, routed, ran>>
          /\ aged' \subseteq aged /\ unsettled \subseteq unsettled'
      BY <1>8 DEF Interrupted, Unanswered, laneVars
    <2> QED BY <2>1, OldestAsBefore
  <1>9. ASSUME NEW i \in Instances, Ingest(i) \/ Finish(i) \/ Retry(i)
        PROVE  WinnersAreOldest'
    <2>1. UNCHANGED <<assignees, timeline, sealed, aged, early, routed, ran,
                      unsettled>>
      BY <1>9 DEF Ingest, Finish, Retry, issueVars, laneVars
    <2> QED BY <2>1, OldestAsBefore
  <1>10. CASE UNCHANGED vars
    BY <1>10, OldestAsBefore DEF vars
  <1> QED BY <1>1, <1>2, <1>3, WriteKeepsOldest, ReadBackKeepsOldest, <1>6,
             <1>7, <1>8, <1>9, <1>10 DEF Next, Claiming

\* two winners would each be older than the other
LEMMA OldestIsOne ==
    ASSUME IInv, WinnersAreOldest
    PROVE  ExclusiveUnlessEarly
  <1>0. TypeOK /\ StepsFit /\ RoutingFits
    BY DEF IInv
  <1> DEFINE W == ran \ (routed \cup (unsettled \cup early))
  <1>1. ASSUME NEW v \in W, NEW w \in W, v # w PROVE FALSE
    <2>1. v \in assignees /\ w \in assignees
      BY <1>0 DEF StepsFit
    <2>2. Earlier(v, w, All) /\ Earlier(w, v, All)
      BY <1>1, <2>1 DEF WinnersAreOldest
    <2>3. PICK k \in Events(w, All), l \in Events(v, All) :
            /\ \A m \in Events(v, All) : m < k
            /\ \A m \in Events(w, All) : m < l
      BY <2>2 DEF Earlier
    <2>4. l < k /\ k < l /\ k \in Nat /\ l \in Nat
      BY <1>0, <2>3, EventTypes
    <2> QED BY <2>4
  <1>2. W = {} \/ \E w : W = {w}
    BY <1>1
  <1>3. Cardinality(W) <= 1 /\ Cardinality(W) \in Nat
    <2>1. CASE W = {}
      <3>1. Cardinality(W) = 0
        BY <2>1, FS_EmptySet
      <3> QED BY <3>1
    <2>2. CASE \E w : W = {w}
      <3>1. Cardinality(W) = 1
        BY <2>2, FS_Singleton
      <3> QED BY <3>1
    <2> QED BY <1>2, <2>1, <2>2
  <1>4. CASE routed = {}
    BY <1>3, <1>4 DEF ExclusiveUnlessEarly, Exclusive
  <1>5. CASE routed # {}
    <2>1. W = {}
      BY <1>0, <1>5 DEF StepsFit, RoutingFits
    <2>2. Cardinality(W) = 0
      BY <2>1, FS_EmptySet
    <2> QED BY <1>5, <2>2 DEF ExclusiveUnlessEarly, Exclusive
  <1> QED BY <1>4, <1>5

\* ADR-0059: of the instances that read back after the second of their write, whose
\* claim was answered, and that could step aside, one runs the task of a lane
\* entry, for every claim_verify_delay and whatever order GitHub gives to the
\* events of the current second.
THEOREM ClaimExclusive == Spec => []ExclusiveUnlessEarly
  <1>1. Init => WinnersAreOldest
    BY OldestStart
  <1>2. IInv /\ WinnersAreOldest /\ [Next]_vars => WinnersAreOldest'
    BY OldestKept
  <1>3. IInv /\ WinnersAreOldest => ExclusiveUnlessEarly
    BY OldestIsOne
  <1> QED BY <1>1, <1>2, <1>3, Invariant, PTL DEF Spec

\* claim.rs: the delay that makes the answer the same whenever an instance reads:
\* one that outlasts the second of the write.
THEOREM ClaimConvergesLate ==
    ASSUME LongDelay PROVE Spec => []ConvergesWheneverRead
  <1> DEFINE NobodyIsEarly == early = {}
  <1>1. Init => NobodyIsEarly
    BY DEF Init
  <1>2. NobodyIsEarly /\ [Next]_vars => NobodyIsEarly'
    BY DEF Next, Claiming, vars, Second, MoveBack, PreRead, Write, ReadBack,
       StepAside, StepAsideFails, Interrupted, Ingest, Finish, Retry, issueVars
  <1>3. NobodyIsEarly /\ ExclusiveUnlessEarly => ConvergesWheneverRead
    <2> SUFFICES ASSUME early = {}, Exclusive(unsettled \cup early)
                 PROVE  Exclusive(unsettled)
      BY DEF ExclusiveUnlessEarly, ConvergesWheneverRead
    <2>1. unsettled \cup early = unsettled
      OBVIOUS
    <2> QED BY <2>1 DEF Exclusive
  <1> HIDE DEF NobodyIsEarly
  <1> QED BY <1>1, <1>2, <1>3, ClaimExclusive, PTL DEF Spec
=============================================================================
