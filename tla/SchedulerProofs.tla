--------------------------- MODULE SchedulerProofs ---------------------------
(***************************************************************************)
(* Proofs about the slot ledger, for any set of tasks, repositories,       *)
(* agents, caps and requests.                                              *)
(***************************************************************************)
EXTENDS Scheduler, SlotManagerProofs, FiniteSetTheorems, TLAPS

USE DEF Pairs

-----------------------------------------------------------------------------
(***************************************************************************)
(* The ledger along every behaviour.                                       *)
(***************************************************************************)

\* what a plan is given: well-typed, and each task once
LEMMA ReadyListTyped ==
    ASSUME NEW q \in ReadyLists
    PROVE  /\ \A i \in DOMAIN q : q[i] \in ReadyTasks
           /\ \A i, j \in DOMAIN q :
                 q[i].request.task = q[j].request.task => i = j
BY DEF ReadyLists

LEMMA RequestTyped ==
    ASSUME NEW q \in Requests
    PROVE  q.task \in Tasks /\ q.repo \in Repos /\ q.agent \in Agents
BY RequestsAssumption

LEMMA ClaimsTyped ==
    ASSUME NEW Q \in SUBSET Requests
    PROVE  ClaimsOf(Q) \in [Tasks -> Pairs \cup {NoSlot}]
<1> SUFFICES ASSUME NEW t \in Tasks
             PROVE  ClaimsOf(Q)[t] \in Pairs \cup {NoSlot}
  BY DEF ClaimsOf
<1>1. CASE \E q \in Q : q.task = t
  <2> DEFINE c == CHOOSE q \in Q : q.task = t
  <2>1. c \in Requests BY <1>1
  <2>2. ClaimsOf(Q)[t] = <<c.repo, c.agent>> BY <1>1 DEF ClaimsOf
  <2>3. QED BY <2>1, <2>2, RequestTyped
<1>2. CASE ~\E q \in Q : q.task = t BY <1>2 DEF ClaimsOf
<1>3. QED BY <1>1, <1>2

(***************************************************************************)
(* The inductive invariant of the ledger: its counters agree.  Agreement   *)
(* alone is not inductive: a release needs the types of the pair it gives  *)
(* back, hence the conjunction with TypeOK.                                *)
(***************************************************************************)
LedgerInv == TypeOK /\ CountersAgree(slots)

LEMMA LedgerInit == Init => LedgerInv
<1> SUFFICES ASSUME Init PROVE LedgerInv
  OBVIOUS
<1>1. << >> \in ReadyLists
  <2>1. << >> \in [1..0 -> ReadyTasks] OBVIOUS
  <2>2. 0 \in 0..MaxReady BY RequestsAssumption
  <2>3. QED BY <2>1, <2>2 DEF ReadyLists
<1>2. QED BY <1>1, AllFreeAgrees DEF Init, LedgerInv, TypeOK

LEMMA LedgerStep == LedgerInv /\ [Next]_vars => LedgerInv'
<1> SUFFICES ASSUME LedgerInv, [Next]_vars PROVE LedgerInv'
  OBVIOUS
<1> USE DEF LedgerInv
<1>1. ASSUME NEW q \in Requests, AcquireOne(q) PROVE LedgerInv'
  BY <1>1, AcquireAgrees, RequestTyped DEF AcquireOne, TypeOK, planVars
<1>2. ASSUME NEW t \in Tasks, ReleaseOne(t) PROVE LedgerInv'
  BY <1>2, ReleaseAgrees DEF ReleaseOne, TypeOK, planVars
<1>3. ASSUME NEW Q \in SUBSET Requests, RebuildAll(Q) PROVE LedgerInv'
  BY <1>3, RebuildAgrees, ClaimsTyped DEF RebuildAll, TypeOK, planVars
<1>4. ASSUME NEW list \in ReadyLists, PlanStart(list) PROVE LedgerInv'
  BY <1>4 DEF PlanStart, TypeOK
<1>5. ASSUME PlanStep PROVE LedgerInv'
  <2>1. PICK i \in untried :
          /\ LET q == ready[i].request
             IN  /\ slots' = Acquire(slots, q.task, q.repo, q.agent)
                 /\ picked' = IF AcquireGranted(slots, q.task, q.repo, q.agent)
                                THEN picked \cup {q.task} ELSE picked
          /\ untried' = untried \ {i}
          /\ UNCHANGED <<planning, ready, initial, rebuilt>>
    BY <1>5 DEF PlanStep
  <2>2. ready[i].request \in Requests
    BY ReadyListTyped DEF TypeOK, ReadyTasks
  <2>3. QED BY <2>1, <2>2, RequestTyped, AcquireAgrees DEF TypeOK
<1>6. ASSUME PlanEnd PROVE LedgerInv'
  <2>1. << >> \in ReadyLists
    <3>1. << >> \in [1..0 -> ReadyTasks] OBVIOUS
    <3>2. 0 \in 0..MaxReady BY RequestsAssumption
    <3>3. QED BY <3>1, <3>2 DEF ReadyLists
  <2>2. QED BY <1>6, <2>1, AllFreeAgrees DEF PlanEnd, TypeOK
<1>7. CASE UNCHANGED vars BY <1>7 DEF vars, planVars, TypeOK
<1>8. QED BY <1>1, <1>2, <1>3, <1>4, <1>5, <1>6, <1>7 DEF Next

(***************************************************************************)
(* Every reachable ledger is well-formed.                                  *)
(***************************************************************************)
THEOREM SchedulerTypeCorrect == Spec => []TypeOK
<1>1. LedgerInv => TypeOK BY DEF LedgerInv
<1>2. QED BY <1>1, LedgerInit, LedgerStep, PTL DEF Spec

(***************************************************************************)
(* The counters of all three tiers always equal the number of tasks that   *)
(* hold a slot under them, whatever sequence of acquisitions, releases,    *)
(* rebuilds and plans ran (the invariant SlotManager documents).           *)
(***************************************************************************)
THEOREM SchedulerLedgerAgrees == Spec => []LedgerAgrees
<1>1. LedgerInv => LedgerAgrees BY DEF LedgerInv, LedgerAgrees
<1>2. QED BY <1>1, LedgerInit, LedgerStep, PTL DEF Spec

-----------------------------------------------------------------------------
(***************************************************************************)
(* The caps.  A tier only grows in take, which acquire reaches only below  *)
(* every cap, or in a rebuild, which becomes the new base.                 *)
(***************************************************************************)

\* acquire never carries a tier past its cap
LEMMA AcquireWithin ==
    ASSUME NEW s \in Ledgers, NEW base \in Ledgers,
           NEW t \in Tasks, NEW r \in Repos, NEW a \in Agents,
           Within(s.global, GlobalLimit, base.global),
           \A q \in Repos : Within(s.repo[q], RepoLimit[q], base.repo[q]),
           \A q \in Agents : Within(s.agent[q], AgentLimit[q], base.agent[q])
    PROVE  LET u == Acquire(s, t, r, a)
           IN  /\ Within(u.global, GlobalLimit, base.global)
               /\ \A q \in Repos : Within(u.repo[q], RepoLimit[q], base.repo[q])
               /\ \A q \in Agents : Within(u.agent[q], AgentLimit[q], base.agent[q])
<1>1. CASE ~Holds(s, t) /\ CanDispatch(s, r, a)
  <2> DEFINE u == Take(s, t, r, a)
  <2>1. Acquire(s, t, r, a) = u BY <1>1 DEF Acquire
  <2>2. u.global = s.global + 1 /\ s.global < GlobalLimit
    BY <1>1 DEF Take, CanDispatch
  <2>3. Within(u.global, GlobalLimit, base.global)
    BY <2>2, LimitsAssumption DEF Within, Below, Ledgers
  <2>4. ASSUME NEW q \in Repos
        PROVE  Within(u.repo[q], RepoLimit[q], base.repo[q])
    <3>1. CASE q = r
      <4>1. u.repo[q] = s.repo[q] + 1 /\ Below(s.repo[q], RepoLimit[q])
        BY <1>1, <3>1 DEF Take, CanDispatch, Ledgers
      <4>2. QED BY <4>1, LimitsAssumption DEF Within, Below, Ledgers
    <3>2. CASE q # r BY <3>2 DEF Take, Ledgers
    <3>3. QED BY <3>1, <3>2
  <2>5. ASSUME NEW q \in Agents
        PROVE  Within(u.agent[q], AgentLimit[q], base.agent[q])
    <3>1. CASE q = a
      <4>1. u.agent[q] = s.agent[q] + 1 /\ Below(s.agent[q], AgentLimit[q])
        BY <1>1, <3>1 DEF Take, CanDispatch, Ledgers
      <4>2. QED BY <4>1, LimitsAssumption DEF Within, Below, Ledgers
    <3>2. CASE q # a BY <3>2 DEF Take, Ledgers
    <3>3. QED BY <3>1, <3>2
  <2>6. QED BY <2>1, <2>3, <2>4, <2>5
<1>2. CASE ~(~Holds(s, t) /\ CanDispatch(s, r, a))
  <2>1. Acquire(s, t, r, a) = s BY <1>2 DEF Acquire
  <2>2. QED BY <2>1
<1>3. QED BY <1>1, <1>2

\* using less never leaves the bound
LEMMA WithinDecrement ==
    ASSUME NEW n \in Nat, NEW cap \in Nat \cup {NoCap}, NEW base \in Nat,
           Within(n, cap, base)
    PROVE  Within(Decrement(n), cap, base)
BY LimitsAssumption DEF Within, Below, Decrement

LEMMA ReleaseWithin ==
    ASSUME NEW s \in Ledgers, NEW base \in Ledgers, NEW t \in Tasks,
           Within(s.global, GlobalLimit, base.global),
           \A q \in Repos : Within(s.repo[q], RepoLimit[q], base.repo[q]),
           \A q \in Agents : Within(s.agent[q], AgentLimit[q], base.agent[q])
    PROVE  LET u == Release(s, t)
           IN  /\ Within(u.global, GlobalLimit, base.global)
               /\ \A q \in Repos : Within(u.repo[q], RepoLimit[q], base.repo[q])
               /\ \A q \in Agents : Within(u.agent[q], AgentLimit[q], base.agent[q])
<1> DEFINE u == Release(s, t)
<1>1. CASE ~Holds(s, t)
  <2>1. u = s BY <1>1 DEF Release
  <2>2. QED BY <2>1
<1>2. CASE Holds(s, t)
  <2>1. /\ u.global = Decrement(s.global)
        /\ \A q \in Repos : u.repo[q] = s.repo[q] \/ u.repo[q] = Decrement(s.repo[q])
        /\ \A q \in Agents : u.agent[q] = s.agent[q] \/ u.agent[q] = Decrement(s.agent[q])
    BY <1>2 DEF Release, Ledgers
  <2>2. /\ s.global \in Nat /\ base.global \in Nat /\ GlobalLimit \in Nat
        /\ \A q \in Repos : /\ s.repo[q] \in Nat /\ base.repo[q] \in Nat
                            /\ RepoLimit[q] \in Nat \cup {NoCap}
        /\ \A q \in Agents : /\ s.agent[q] \in Nat /\ base.agent[q] \in Nat
                             /\ AgentLimit[q] \in Nat \cup {NoCap}
    BY LimitsAssumption DEF Ledgers
  <2> HIDE DEF u
  <2>3. Within(u.global, GlobalLimit, base.global)
    BY <2>1, <2>2, WithinDecrement
  <2>4. \A q \in Repos : Within(u.repo[q], RepoLimit[q], base.repo[q])
    BY <2>1, <2>2, WithinDecrement
  <2>5. \A q \in Agents : Within(u.agent[q], AgentLimit[q], base.agent[q])
    BY <2>1, <2>2, WithinDecrement
  <2>6. QED BY <2>3, <2>4, <2>5 DEF u
<1>3. QED BY <1>1, <1>2

LEMMA CapsStep == LedgerInv /\ CapsHold /\ [Next]_vars => CapsHold'
<1> SUFFICES ASSUME LedgerInv, CapsHold, [Next]_vars PROVE CapsHold'
  OBVIOUS
<1>0. slots \in Ledgers /\ rebuilt \in Ledgers BY DEF LedgerInv, TypeOK
<1>1. ASSUME NEW q \in Requests, AcquireOne(q) PROVE CapsHold'
  BY <1>0, <1>1, AcquireWithin, RequestTyped DEF AcquireOne, CapsHold
<1>2. ASSUME NEW t \in Tasks, ReleaseOne(t) PROVE CapsHold'
  BY <1>0, <1>2, ReleaseWithin DEF ReleaseOne, CapsHold
<1>3. ASSUME NEW Q \in SUBSET Requests, RebuildAll(Q) PROVE CapsHold'
  <2>1. slots' \in Ledgers /\ rebuilt' = slots'
    BY <1>3, RebuildAgrees, ClaimsTyped DEF RebuildAll
  <2>2. QED BY <2>1, LimitsAssumption DEF CapsHold, Within, Ledgers
<1>4. ASSUME NEW list \in ReadyLists, PlanStart(list) PROVE CapsHold'
  BY <1>4 DEF PlanStart, CapsHold
<1>5. ASSUME PlanStep PROVE CapsHold'
  <2>1. PICK i \in untried :
          /\ slots' = Acquire(slots, ready[i].request.task,
                              ready[i].request.repo, ready[i].request.agent)
          /\ UNCHANGED rebuilt
    BY <1>5 DEF PlanStep
  <2>2. ready[i].request \in Requests
    BY ReadyListTyped DEF LedgerInv, TypeOK, ReadyTasks
  <2>3. QED BY <1>0, <2>1, <2>2, AcquireWithin, RequestTyped DEF CapsHold
<1>6. ASSUME PlanEnd PROVE CapsHold'
  BY <1>6 DEF PlanEnd, CapsHold
<1>7. CASE UNCHANGED vars BY <1>7 DEF vars, CapsHold
<1>8. QED BY <1>1, <1>2, <1>3, <1>4, <1>5, <1>6, <1>7 DEF Next

(***************************************************************************)
(* No tier is ever above its cap by anything but a rebuild.                *)
(***************************************************************************)
THEOREM SchedulerCapsHold == Spec => []CapsHold
<1>1. Init => CapsHold
  <2>1. AllFree \in Ledgers BY AllFreeAgrees
  <2>2. QED BY <2>1, LimitsAssumption DEF Init, CapsHold, Within, Ledgers
<1>2. QED BY <1>1, LedgerInit, LedgerStep, CapsStep, PTL DEF Spec

-----------------------------------------------------------------------------
(***************************************************************************)
(* The promise of plan_dispatch.  Inductive form: while a plan runs, the   *)
(* holders are those it started with and those it picked; what it tried    *)
(* goes before what it has yet to try; and whatever it passed over is      *)
(* blocked by tasks ahead of it.                                           *)
(***************************************************************************)
Tried == DOMAIN ready \ untried

PlanInv ==
    planning =>
        /\ Holders(slots) = Holders(initial) \cup picked
        /\ picked \subseteq {ready[k].request.task : k \in Tried}
        /\ \A k \in Tried, i \in untried : Before(ready, k, i)
        /\ \A k \in Tried : ready[k].request.task \notin picked =>
                FullWith(ready[k].request, AheadOf(k))

\* the queue order is total and strict
LEMMA BeforeOrders ==
    ASSUME NEW q \in ReadyLists, NEW i \in DOMAIN q, NEW j \in DOMAIN q
    PROVE  /\ i # j => Before(q, i, j) \/ Before(q, j, i)
           /\ ~(Before(q, i, j) /\ Before(q, j, i))
<1>1. q[i].priority \in Int /\ q[j].priority \in Int
  BY ReadyListTyped, RequestsAssumption DEF ReadyTasks
<1>2. i \in Int /\ j \in Int BY DEF ReadyLists
<1>3. QED BY <1>1, <1>2 DEF Before

LEMMA PlanStepPreserves ==
    ASSUME LedgerInv, PlanInv, PlanStep, planning
    PROVE  PlanInv'
<1>1. PICK i \in untried :
        /\ \A j \in untried \ {i} : ~Before(ready, j, i)
        /\ slots' = Acquire(slots, ready[i].request.task,
                            ready[i].request.repo, ready[i].request.agent)
        /\ picked' = IF AcquireGranted(slots, ready[i].request.task,
                            ready[i].request.repo, ready[i].request.agent)
                       THEN picked \cup {ready[i].request.task} ELSE picked
        /\ untried' = untried \ {i}
        /\ UNCHANGED <<planning, ready, initial, rebuilt>>
  BY DEF PlanStep
<1> DEFINE q == ready[i].request
           t == q.task
<1>2. /\ ready \in ReadyLists /\ untried \subseteq DOMAIN ready /\ slots \in Ledgers
      /\ q \in Requests /\ t \in Tasks /\ q.repo \in Repos /\ q.agent \in Agents
  BY ReadyListTyped, RequestTyped DEF LedgerInv, TypeOK, ReadyTasks
<1>3. Tried' = Tried \cup {i} /\ i \notin Tried
  BY <1>1, <1>2 DEF Tried
<1>4. \A k \in Tried : ready[k].request.task # t
  BY <1>2, <1>3, ReadyListTyped DEF Tried
<1>5. \A k \in Tried', j \in untried' : Before(ready', k, j)
  <2>1. ASSUME NEW j \in untried' PROVE Before(ready, i, j)
    BY <1>1, <1>2, <2>1, BeforeOrders
  <2>2. QED BY <1>1, <1>3, <2>1 DEF PlanInv
<1>6. \A v \in Holders(slots) : slots'.holder[v] = slots.holder[v]
  BY <1>1, <1>2 DEF Acquire, Take, Holders, Ledgers
<1>7. \A k \in Tried : AheadOf(k) \subseteq Holders(slots)
  BY DEF PlanInv, AheadOf, Holders
<1>8. ASSUME NEW k \in Tried PROVE AheadOf(k)' = AheadOf(k)
  <2>1. ~Before(ready, i, k)
    BY <1>2, BeforeOrders DEF PlanInv, Tried
  <2>2. \A m \in DOMAIN ready :
           ready[m].request.task \in picked' /\ ready[m].request.task \notin picked
             => m = i
    BY <1>1, <1>2, ReadyListTyped
  <2>3. picked \subseteq picked' BY <1>1
  <2>4. QED BY <1>1, <2>1, <2>2, <2>3 DEF AheadOf, Before, Holds
<1>9. ASSUME NEW k \in Tried, ready[k].request.task \notin picked'
      PROVE  FullWith(ready[k].request, AheadOf(k))'
  <2>1. FullWith(ready[k].request, AheadOf(k))
    BY <1>1, <1>9 DEF PlanInv
  <2>2. \A x \in AheadOf(k) : slots'.holder[x] = slots.holder[x]
    BY <1>6, <1>7
  <2>3. /\ {x \in AheadOf(k) : slots'.holder[x][1] = ready[k].request.repo}
              = {x \in AheadOf(k) : slots.holder[x][1] = ready[k].request.repo}
        /\ {x \in AheadOf(k) : slots'.holder[x][2] = ready[k].request.agent}
              = {x \in AheadOf(k) : slots.holder[x][2] = ready[k].request.agent}
    BY <2>2
  <2>4. QED BY <1>1, <1>8, <2>1, <2>3 DEF FullWith
<1>10. CASE AcquireGranted(slots, t, q.repo, q.agent)
  <2>1. picked' = picked \cup {t} BY <1>1, <1>10
  <2>2. Holders(slots)' = Holders(slots) \cup {t}
    <3>1. CASE Holds(slots, t)
      BY <1>1, <1>2, <3>1 DEF Acquire, Holders
    <3>2. CASE ~Holds(slots, t)
      <4>1. slots' = Take(slots, t, q.repo, q.agent)
        BY <1>1, <1>10, <3>2 DEF Acquire, AcquireGranted
      <4>2. <<q.repo, q.agent>> # NoSlot BY <1>2, NoSlotAssumption
      <4>3. QED BY <1>2, <4>1, <4>2 DEF Take, Holders, Holds, Ledgers
    <3>3. QED BY <3>1, <3>2
  <2>3. Holders(slots)' = Holders(initial)' \cup picked'
    BY <1>1, <2>1, <2>2 DEF PlanInv, Holders, Holds
  <2>4. picked' \subseteq {ready'[k].request.task : k \in Tried'}
    BY <1>1, <1>3, <2>1 DEF PlanInv
  <2>5. \A k \in Tried' : ready'[k].request.task \notin picked' =>
            FullWith(ready[k].request, AheadOf(k))'
    BY <1>1, <1>3, <1>9, <2>1
  <2>6. QED BY <1>5, <2>3, <2>4, <2>5 DEF PlanInv
<1>11. CASE ~AcquireGranted(slots, t, q.repo, q.agent)
  <2>1. picked' = picked /\ slots' = slots
    BY <1>1, <1>11 DEF Acquire, AcquireGranted
  <2>2. AheadOf(i) = Holders(slots)
    <3>1. \A m \in DOMAIN ready : ready[m].request.task \in picked
             => m \in Tried /\ Before(ready, m, i)
      BY <1>2, ReadyListTyped DEF PlanInv, Tried
    <3>2. {ready[m].request.task : m \in {k \in DOMAIN ready :
             /\ ready[k].request.task \in picked
             /\ \/ ready[k].priority > ready[i].priority
                \/ ready[k].priority = ready[i].priority /\ k < i}} = picked
      BY <3>1 DEF PlanInv, Tried, Before
    <3>3. QED BY <3>2 DEF AheadOf, PlanInv, Holders
  <2>3. AheadOf(i)' = AheadOf(i) BY <1>1, <2>1 DEF AheadOf, Holds
  <2>4. FullWith(q, AheadOf(i))
    <3>1. ~CanDispatch(slots, q.repo, q.agent) BY <1>11 DEF AcquireGranted
    <3>2. /\ {x \in AheadOf(i) : slots.holder[x][1] = q.repo} = RepoHolders(slots, q.repo)
          /\ {x \in AheadOf(i) : slots.holder[x][2] = q.agent} = AgentHolders(slots, q.agent)
      BY <2>2 DEF Holders, RepoHolders, AgentHolders
    <3>3. /\ slots.global = Cardinality(AheadOf(i))
          /\ slots.repo[q.repo] = Cardinality(RepoHolders(slots, q.repo))
          /\ slots.agent[q.agent] = Cardinality(AgentHolders(slots, q.agent))
          /\ slots.global \in Nat
      BY <1>2, <2>2 DEF LedgerInv, CountersAgree, Ledgers
    <3>4. CASE ~(slots.global < GlobalLimit)
      BY <3>3, <3>4, LimitsAssumption DEF FullWith
    <3>5. CASE ~Below(slots.repo[q.repo], RepoLimit[q.repo])
      <4>1. ~Below(Cardinality({x \in AheadOf(i) : slots.holder[x][1] = q.repo}),
                  RepoLimit[q.repo])
        BY <3>2, <3>3, <3>5
      <4>2. QED BY <4>1 DEF FullWith
    <3>6. CASE ~Below(slots.agent[q.agent], AgentLimit[q.agent])
      <4>1. ~Below(Cardinality({x \in AheadOf(i) : slots.holder[x][2] = q.agent}),
                  AgentLimit[q.agent])
        BY <3>2, <3>3, <3>6
      <4>2. QED BY <4>1 DEF FullWith
    <3>7. QED BY <3>1, <3>4, <3>5, <3>6 DEF CanDispatch
  <2>5. FullWith(ready[i].request, AheadOf(i))'
    BY <1>1, <2>1, <2>3, <2>4 DEF FullWith
  <2>6. \A k \in Tried' : ready'[k].request.task \notin picked' =>
            FullWith(ready[k].request, AheadOf(k))'
    BY <1>1, <1>3, <1>9, <2>1, <2>5
  <2>7. Holders(slots)' = Holders(initial)' \cup picked'
    BY <1>1, <2>1 DEF PlanInv, Holders, Holds
  <2>8. picked' \subseteq {ready'[k].request.task : k \in Tried'}
    BY <1>1, <1>3, <2>1 DEF PlanInv
  <2>9. QED BY <1>5, <2>6, <2>7, <2>8 DEF PlanInv
<1>12. QED BY <1>10, <1>11

LEMMA PlanInvStep == LedgerInv /\ PlanInv /\ [Next]_vars => PlanInv'
<1> SUFFICES ASSUME LedgerInv, PlanInv, [Next]_vars PROVE PlanInv'
  OBVIOUS
<1>1. ASSUME NEW q \in Requests, AcquireOne(q) PROVE PlanInv'
  BY <1>1 DEF AcquireOne, planVars, PlanInv
<1>2. ASSUME NEW t \in Tasks, ReleaseOne(t) PROVE PlanInv'
  BY <1>2 DEF ReleaseOne, planVars, PlanInv
<1>3. ASSUME NEW Q \in SUBSET Requests, RebuildAll(Q) PROVE PlanInv'
  BY <1>3 DEF RebuildAll, planVars, PlanInv
<1>4. ASSUME NEW list \in ReadyLists, PlanStart(list) PROVE PlanInv'
  <2>1. Tried' = {} BY <1>4 DEF PlanStart, Tried
  <2>2. QED BY <1>4, <2>1 DEF PlanStart, PlanInv, Holders, Holds
<1>5. ASSUME PlanStep PROVE PlanInv'
  <2>1. CASE planning BY <1>5, <2>1, PlanStepPreserves
  <2>2. CASE ~planning BY <1>5, <2>2 DEF PlanStep, PlanInv
  <2>3. QED BY <2>1, <2>2
<1>6. ASSUME PlanEnd PROVE PlanInv'
  BY <1>6 DEF PlanEnd, PlanInv
<1>7. CASE UNCHANGED vars
  <2>1. UNCHANGED <<slots, planning, ready, untried, picked, initial>>
    BY <1>7 DEF vars, planVars
  <2>2. QED
    BY <2>1 DEF PlanInv, Tried, Holders, Holds, Before, FullWith, AheadOf
<1>8. QED BY <1>1, <1>2, <1>3, <1>4, <1>5, <1>6, <1>7 DEF Next

(***************************************************************************)
(* A ready task a plan leaves out is blocked by work that goes before it:  *)
(* for any caps, any priorities and any ready list.                        *)
(***************************************************************************)
THEOREM SchedulerNoPriorityInversion == Spec => []NoPriorityInversion
<1>1. Init => PlanInv BY DEF Init, PlanInv
<1>2. LedgerInv /\ PlanInv => NoPriorityInversion
  BY DEF PlanInv, NoPriorityInversion, Tried
<1>3. QED BY <1>1, <1>2, LedgerInit, LedgerStep, PlanInvStep, PTL DEF Spec
=============================================================================
