----------------------------- MODULE Scheduler -----------------------------
(***************************************************************************)
(* The slot ledger as the engine drives it: single acquisitions (a resumed *)
(* task), releases, the rebuild after a restart, and plan_dispatch, which  *)
(* walks the ready tasks in priority order and acquires greedily.          *)
(*                                                                         *)
(* plan_dispatch borrows the ledger mutably, so nothing else happens       *)
(* between its steps; they are separate actions because the order in which *)
(* tasks are tried, and what the ledger looked like at each try, is what   *)
(* its promise is about.                                                   *)
(***************************************************************************)
EXTENDS SlotManager, Integers

CONSTANTS
    Requests,     \* bound: the [task, repo, agent] a slot is asked for under
    Priorities,   \* bound: task priorities
    MaxReady      \* bound: length of the ready list given to plan_dispatch

ASSUME RequestsAssumption ==
    /\ Requests \subseteq [task : Tasks, repo : Repos, agent : Agents]
    /\ Priorities \subseteq Int
    /\ MaxReady \in Nat

VARIABLES
    slots,     \* the SlotManager
    planning,  \* plan_dispatch is running
    ready,     \* the list plan_dispatch was given
    untried,   \* the indices of ready its loop has not come to
    picked,    \* the task ids acquired so far (dispatched in the code)
    initial,   \* ghost: the ledger plan_dispatch started from
    rebuilt    \* ghost: the ledger the last rebuild produced

planVars == <<planning, ready, untried, picked, initial>>
vars == <<slots, planVars, rebuilt>>

ReadyTasks == [request : Requests, priority : Priorities]

\* what dispatch_ready collects: each queued task at most once
ReadyLists ==
    {q \in UNION {[1..n -> ReadyTasks] : n \in 0..MaxReady} :
        \A i, j \in DOMAIN q : q[i].request.task = q[j].request.task => i = j}

\* deviation: an unstable sort, equals in any order
Before_Unstable(q, i, j) == q[i].priority > q[j].priority

(***************************************************************************)
(* order.sort_by_key(Reverse(priority)), a stable sort: a higher priority  *)
(* goes first, and the list's own order decides among equals (FIFO).       *)
(***************************************************************************)
Before(q, i, j) ==
    \/ q[i].priority > q[j].priority
    \/ q[i].priority = q[j].priority /\ i < j

-----------------------------------------------------------------------------

Init ==
    /\ slots = AllFree
    /\ planning = FALSE
    /\ ready = << >>
    /\ untried = {}
    /\ picked = {}
    /\ initial = AllFree
    /\ rebuilt = AllFree

\* acquire outside a plan: apply_agent_state, when a waiting task resumes
AcquireOne(q) ==
    /\ ~planning
    /\ slots' = Acquire(slots, q.task, q.repo, q.agent)
    /\ UNCHANGED <<planVars, rebuilt>>

ReleaseOne(t) ==
    /\ ~planning
    /\ slots' = Release(slots, t)
    /\ UNCHANGED <<planVars, rebuilt>>

\* the claims of a set of resumed tasks: one pair per task
ClaimsOf(Q) ==
    [t \in Tasks |->
        IF \E q \in Q : q.task = t
          THEN LET q == CHOOSE c \in Q : c.task = t IN <<q.repo, q.agent>>
          ELSE NoSlot]

\* recover: the claims of the resumed tasks, taken whatever the caps say
RebuildAll(Q) ==
    /\ ~planning
    /\ slots' = Rebuild(ClaimsOf(Q))
    /\ rebuilt' = slots'
    /\ UNCHANGED planVars

PlanStart(list) ==
    /\ ~planning
    /\ planning' = TRUE
    /\ ready' = list
    /\ untried' = DOMAIN list
    /\ picked' = {}
    /\ initial' = slots
    /\ UNCHANGED <<slots, rebuilt>>

\* one iteration: a blocked task is skipped, the walk goes on
PlanStep ==
    \E i \in untried :
        /\ \A j \in untried \ {i} : ~Before(ready, j, i)
        /\ LET q == ready[i].request
           IN  /\ slots' = Acquire(slots, q.task, q.repo, q.agent)
               /\ picked' = IF AcquireGranted(slots, q.task, q.repo, q.agent)
                              THEN picked \cup {q.task} ELSE picked
        /\ untried' = untried \ {i}
        /\ UNCHANGED <<planning, ready, initial, rebuilt>>

\* it returns: its locals and the ghost of its start go with it
PlanEnd ==
    /\ planning
    /\ untried = {}
    /\ planning' = FALSE
    /\ ready' = << >>
    /\ picked' = {}
    /\ initial' = AllFree
    /\ UNCHANGED <<slots, untried, rebuilt>>

Next ==
    \/ \E q \in Requests : AcquireOne(q)
    \/ \E t \in Tasks : ReleaseOne(t)
    \/ \E Q \in SUBSET Requests : RebuildAll(Q)
    \/ \E list \in ReadyLists : PlanStart(list)
    \/ PlanStep
    \/ PlanEnd

Spec == Init /\ [][Next]_vars

-----------------------------------------------------------------------------

TypeOK ==
    /\ slots \in Ledgers
    /\ planning \in BOOLEAN
    /\ ready \in ReadyLists
    /\ untried \subseteq DOMAIN ready
    /\ picked \subseteq Tasks
    /\ initial \in Ledgers
    /\ rebuilt \in Ledgers

(***************************************************************************)
(* The ledger's counters always agree with its holders.                    *)
(***************************************************************************)
LedgerAgrees == CountersAgree(slots)

(***************************************************************************)
(* Within(used, cap, base): a tier is within its cap, or above it only     *)
(* because a rebuild put it there and nothing has been added since.        *)
(***************************************************************************)
Within(used, cap, base) == Below(used, cap) \/ used = cap \/ used <= base

(***************************************************************************)
(* Nothing but a rebuild ever takes a tier over its cap: not a resumed     *)
(* task's acquisition, not a plan, not a release followed by an            *)
(* acquisition under another pair.                                         *)
(***************************************************************************)
CapsHold ==
    /\ Within(slots.global, GlobalLimit, rebuilt.global)
    /\ \A r \in Repos :
         Within(slots.repo[r], RepoLimit[r], rebuilt.repo[r])
    /\ \A a \in Agents :
         Within(slots.agent[a], AgentLimit[a], rebuilt.agent[a])

(***************************************************************************)
(* The tasks that may stand in the way of ready[i]: those that held a slot *)
(* before the plan, and those it picked that go before ready[i] - a higher *)
(* priority, or the same priority and earlier in the list (FIFO).          *)
(***************************************************************************)
AheadOf(i) ==
    {t \in Tasks : Holds(initial, t)}
        \cup {ready[j].request.task : j \in {k \in DOMAIN ready :
                 /\ ready[k].request.task \in picked
                 /\ \/ ready[k].priority > ready[i].priority
                    \/ ready[k].priority = ready[i].priority /\ k < i}}

\* a tier of request q is full with only the tasks ahead in it
FullWith(q, ahead) ==
    \/ Cardinality(ahead) >= GlobalLimit
    \/ ~Below(Cardinality({t \in ahead : slots.holder[t][1] = q.repo}),
              RepoLimit[q.repo])
    \/ ~Below(Cardinality({t \in ahead : slots.holder[t][2] = q.agent}),
              AgentLimit[q.agent])

(***************************************************************************)
(* A ready task plan_dispatch leaves out is blocked by work that was       *)
(* running already or that goes before it: never by a task of a lower      *)
(* priority or behind it in the queue, and never by a full tier it does    *)
(* not use (no head-of-line blocking, F-43).                               *)
(***************************************************************************)
NoPriorityInversion ==
    planning /\ untried = {} =>
        \A i \in DOMAIN ready :
            ready[i].request.task \notin picked
                => FullWith(ready[i].request, AheadOf(i))
=============================================================================
