------------------------------- MODULE Claim -------------------------------
(***************************************************************************)
(* The exclusion claim on a GitHub issue (#556, ADR-0059): several people  *)
(* run totsuka over one board, and the instance that assigns itself first  *)
(* runs the task.  The claim is task-source-github's (client.rs claim,     *)
(* claim.rs adjudicate), its answer is taken by the engine (run/dispatch.rs*)
(* claim_task).  An instance is named by its login; one login is one       *)
(* instance.                                                               *)
(*                                                                         *)
(* GitHub keeps the assignees and the AssignedEvents.  Events are ordered  *)
(* by (createdAt, id); createdAt has whole seconds, and where ids do not   *)
(* follow time an event may come before another of its own second.  The    *)
(* assignees a read answers are those of that moment, its events may lack  *)
(* some of the current second.  A person moves the card back to the        *)
(* trigger column when nobody works on it, and may change the assignees.   *)
(***************************************************************************)
EXTENDS Naturals, Sequences, FiniteSets

CONSTANTS
    Instances,    \* the logins that run totsuka
    Pushers,      \* those whose self-assignment GitHub does not discard
    IdsFollowTime,\* event ids order the events of one second as they came
    LongDelay,    \* claim_verify_delay outlasts the second of the write; the
                  \* default, 750 ms, and 0 do not
    LateEntries,  \* the lane entries in which events may show late
    MaxEntries,   \* bound: lane entries
    MaxRetries,   \* bound: task retry
    MaxFaults     \* bound: requests that fail, kills of an engine in a claim

ASSUME ClaimAssumption ==
    /\ IsFiniteSet(Instances) /\ Pushers \subseteq Instances
    /\ LongDelay \in BOOLEAN /\ IdsFollowTime \in BOOLEAN
    /\ MaxEntries \in Nat \ {0} /\ LateEntries \subseteq 1..MaxEntries
    /\ MaxRetries \in Nat /\ MaxFaults \in Nat

VARIABLES
    assignees,  \* the issue's current assignees
    timeline,   \* the logins of its AssignedEvents, in the order of the rule
    sealed,     \* how many of them are of earlier seconds
    state,      \* tasks.state in the instance's state DB
    pc,         \* where the instance's claim is
    aged,       \* instances whose write is of an earlier second
    early,      \* history: instances that read back within the second of the write
    seen,       \* the last lane entry an instance ingested
    entry,      \* how often the card entered the trigger column
    routed,     \* the assignees a person left when the card entered
    ran,        \* instances that won in this entry
    unsettled,  \* instances assigned by a claim that settled nothing
    retries,    \* retries so far
    faults      \* failures so far

issueVars == <<assignees, timeline, sealed, aged, early>>
laneVars == <<seen, entry, routed>>
countVars == <<retries, faults>>
vars == <<assignees, timeline, sealed, state, pc, aged, early, seen, entry,
          routed, ran, unsettled, retries, faults>>

Init ==
    /\ assignees = {} /\ timeline = <<>> /\ sealed = 0 /\ aged = {} /\ early = {}
    /\ state = [i \in Instances |-> "none"]
    /\ pc = [i \in Instances |-> "idle"]
    /\ seen = [i \in Instances |-> 0] /\ entry = 1 /\ routed = {}
    /\ ran = {} /\ unsettled = {}
    /\ retries = 0 /\ faults = 0

-----------------------------------------------------------------------------
(* The issue. *)

\* the server orders a new event among those of its own second
Assigned(i, k) ==
    [m \in 1..Len(timeline) + 1 |->
       IF m <= k THEN timeline[m] ELSE IF m = k + 1 THEN i ELSE timeline[m - 1]]

\* assigning an assignee again changes nothing
Assign(i) ==
    IF i \in assignees
    THEN UNCHANGED <<assignees, timeline>>
    ELSE /\ assignees' = assignees \cup {i}
         /\ \E k \in sealed..Len(timeline) :
              /\ IdsFollowTime => k = Len(timeline)
              /\ timeline' = Assigned(i, k)

\* the events a read may show, by their place
Shown ==
    IF entry \in LateEntries
    THEN {1..sealed \cup late : late \in SUBSET (sealed + 1..Len(timeline))}
    ELSE {1..Len(timeline)}

Events(i, shown) == {k \in shown : timeline[k] = i}

\* deviation: the first event that names a login is its effective one
Earlier_First(i, j, shown) ==
    \E k \in Events(i, shown) : \A l \in Events(j, shown) : k < l

\* i's effective event, the last that names it, is older than j's
Earlier(i, j, shown) ==
    \E l \in Events(j, shown) : \A k \in Events(i, shown) : k < l

\* an assignee whose event does not show is an error, not a forfeit
Decidable(shown) == \A i \in assignees : Events(i, shown) # {}

\* adjudicate: the oldest effective event wins
Wins(i, shown) == \A j \in assignees \ {i} : Earlier(i, j, shown)

Second ==
    /\ sealed < Len(timeline) \/ \E i \in Instances \ aged : pc[i] = "verify"
    /\ sealed' = Len(timeline)
    /\ aged' = {i \in Instances : pc[i] = "verify"}
    /\ UNCHANGED <<assignees, timeline, early, state, pc, laneVars, ran,
                   unsettled, countVars>>

-----------------------------------------------------------------------------
(* The answer, and what the engine makes of it. *)

ClaimEnds(i) == pc' = [pc EXCEPT ![i] = "idle"]

Won(i) ==
    /\ ClaimEnds(i)
    /\ state' = [state EXCEPT ![i] = "running"]
    /\ ran' = ran \cup {i}

\* Skip, with no write-back: the task is another's
Lost(i) ==
    /\ ClaimEnds(i)
    /\ state' = [state EXCEPT ![i] = "skipped"]
    /\ UNCHANGED ran

\* Fail, with no write-back: nobody holds the task
Forbidden(i) ==
    /\ ClaimEnds(i)
    /\ state' = [state EXCEPT ![i] = "failed"]
    /\ UNCHANGED ran

\* an Err, or no answer at all: the task stays queued
Unanswered(i) ==
    /\ ClaimEnds(i)
    /\ UNCHANGED <<state, ran>>
    /\ unsettled' = IF i \in assignees \ routed THEN unsettled \cup {i}
                    ELSE unsettled

Goes(i, step) ==
    /\ pc' = [pc EXCEPT ![i] = step]
    /\ UNCHANGED <<state, ran>>

-----------------------------------------------------------------------------
(* The claim. *)

\* deviation: an operator who already holds the task is adjudicated too
HoldsAlready_Adjudicated(i) == assignees = {i}

\* the fast path of the pre-read
HoldsAlready(i) == i \in assignees

PreRead(i) ==
    /\ state[i] = "queued" /\ pc[i] = "idle"
    /\ \/ HoldsAlready(i) /\ Won(i)
       \/ ~HoldsAlready(i) /\ assignees # {} /\ Lost(i)
       \/ assignees = {} /\ Goes(i, "write")
    /\ UNCHANGED <<issueVars, laneVars, unsettled, countVars>>

\* add the operator; without push access the server says yes and does nothing
Write(i) ==
    /\ pc[i] = "write"
    /\ IF i \in Pushers THEN Assign(i) ELSE UNCHANGED <<assignees, timeline>>
    /\ Goes(i, "verify")
    /\ UNCHANGED <<sealed, aged, early, laneVars, unsettled, countVars>>

\* deviation: whoever is not alone steps aside
Adjudged_Forfeits(i, shown) ==
    /\ assignees # {i}
    /\ Goes(i, "leave") /\ UNCHANGED unsettled

\* deviation: the loser is skipped before its assignment is taken back
Adjudged_SkipsFirst(i, shown) ==
    /\ assignees # {i} /\ Decidable(shown)
    /\ IF Wins(i, shown) THEN Won(i)
       ELSE /\ pc' = [pc EXCEPT ![i] = "leave"]
            /\ state' = [state EXCEPT ![i] = "skipped"]
            /\ UNCHANGED ran
    /\ UNCHANGED unsettled

\* several hold the task: the oldest tenure wins, the others step aside, and
\* an assignee without an event decides nothing
Adjudged(i, shown) ==
    /\ assignees # {i}
    /\ \/ /\ Decidable(shown) /\ Wins(i, shown)
          /\ Won(i) /\ UNCHANGED unsettled
       \/ /\ Decidable(shown) /\ ~Wins(i, shown)
          /\ Goes(i, "leave") /\ UNCHANGED unsettled
       \/ ~Decidable(shown) /\ Unanswered(i)

\* the second of the write is not over
Early(i) == pc[i] = "verify" /\ i \notin aged

ReadBack(i) ==
    /\ pc[i] \in {"verify", "reread"}
    /\ LongDelay => ~Early(i)
    /\ \/ /\ i \notin assignees /\ UNCHANGED unsettled
          /\ \/ pc[i] = "verify" /\ Goes(i, "reread")
             \/ pc[i] = "reread" /\ Forbidden(i)
       \/ assignees = {i} /\ Won(i) /\ UNCHANGED unsettled
       \/ /\ i \in assignees
          /\ \E shown \in Shown : Adjudged(i, shown)
    /\ aged' = aged \ {i}
    /\ early' = IF Early(i) THEN early \cup {i} ELSE early \ {i}
    /\ UNCHANGED <<assignees, timeline, sealed, laneVars, countVars>>

\* deviation: the loser leaves its own assignment
Without_Kept(i) == assignees

\* only the operator's own assignment is taken back
Without(i) == assignees \ {i}

StepAside(i) ==
    /\ pc[i] \in {"leave", "leave_again"}
    /\ assignees' = Without(i)
    /\ Lost(i)
    /\ UNCHANGED <<timeline, sealed, aged, early, laneVars, unsettled,
                   countVars>>

Fault == faults < MaxFaults /\ faults' = faults + 1

\* one more try; after that the assignment stays and the answer is the same
StepAsideFails(i) ==
    /\ Fault
    /\ \/ /\ pc[i] = "leave" /\ Goes(i, "leave_again")
          /\ UNCHANGED unsettled
       \/ /\ pc[i] = "leave_again" /\ Lost(i)
          /\ unsettled' = unsettled \cup {i}
    /\ UNCHANGED <<issueVars, laneVars, retries>>

\* a request fails for good, or the engine is killed: the slot is given back
\* or lost with the process, and nothing is recorded
Interrupted(i) ==
    /\ pc[i] # "idle" /\ Fault
    /\ Unanswered(i)
    /\ aged' = aged \ {i}
    /\ UNCHANGED <<assignees, timeline, sealed, early, laneVars, retries>>

-----------------------------------------------------------------------------
(* The task in an instance, and the people. *)

AtRest(i) == state[i] \notin {"queued", "running"}

\* a fetch, which may be as old as the lane entry: unassigned or mine
Ingest(i) ==
    /\ AtRest(i) /\ seen[i] < entry
    /\ routed = {} \/ i \in routed
    /\ state' = [state EXCEPT ![i] = "queued"]
    /\ seen' = [seen EXCEPT ![i] = entry]
    /\ UNCHANGED <<issueVars, pc, entry, routed, ran, unsettled, countVars>>

\* the run ends, well or not; the assignment stays either way
Finish(i) ==
    /\ state[i] = "running"
    /\ \E s \in {"done", "failed"} : state' = [state EXCEPT ![i] = s]
    /\ UNCHANGED <<issueVars, pc, laneVars, ran, unsettled, countVars>>

\* task retry
Retry(i) ==
    /\ state[i] \in {"failed", "skipped"} /\ retries < MaxRetries
    /\ retries' = retries + 1
    /\ state' = [state EXCEPT ![i] = "queued"]
    /\ UNCHANGED <<issueVars, pc, laneVars, ran, unsettled, faults>>

\* a person moves the card back and says whose it is, or leaves it open
MoveBack ==
    /\ entry < MaxEntries /\ \A i \in Instances : AtRest(i)
    /\ entry' = entry + 1
    /\ \E who \in SUBSET Instances :
         /\ assignees' = who /\ routed' = who
         /\ \E news \in [1..Cardinality(who \ assignees) -> who \ assignees] :
              /\ \A k, l \in DOMAIN news : news[k] = news[l] => k = l
              /\ timeline' = timeline \o news
              /\ sealed' = Len(timeline')
    /\ ran' = {} /\ unsettled' = {} /\ early' = {}
    /\ UNCHANGED <<state, pc, aged, seen, countVars>>

-----------------------------------------------------------------------------
Claiming(i) == PreRead(i) \/ Write(i) \/ ReadBack(i) \/ StepAside(i)

Next ==
    \/ Second \/ MoveBack
    \/ \E i \in Instances :
         \/ Claiming(i) \/ StepAsideFails(i) \/ Interrupted(i)
         \/ Ingest(i) \/ Finish(i) \/ Retry(i)

Spec == Init /\ [][Next]_vars

(***************************************************************************)
(* A queued task is tried every cycle, a request is answered, and seconds  *)
(* pass.  Nothing is asked of agents and people.                           *)
(***************************************************************************)
Fairness == WF_vars(Second) /\ \A i \in Instances : WF_vars(Claiming(i))

FairSpec == Spec /\ Fairness

-----------------------------------------------------------------------------
(* Properties. *)

\* Every variable has its type.
TypeOK ==
    /\ assignees \subseteq Instances
    /\ timeline \in Seq(Instances) /\ sealed \in 0..Len(timeline)
    /\ state \in [Instances -> {"none", "queued", "running", "done", "failed",
                                "skipped"}]
    /\ pc \in [Instances -> {"idle", "write", "verify", "reread", "leave",
                             "leave_again"}]
    /\ \A i \in Instances : pc[i] # "idle" => state[i] = "queued"
    /\ aged \subseteq {i \in Instances : pc[i] = "verify"}
    /\ early \subseteq Instances
    /\ seen \in [Instances -> 0..MaxEntries] /\ entry \in 1..MaxEntries
    /\ routed \subseteq Instances /\ ran \subseteq Instances
    /\ unsettled \subseteq assignees \ routed
    /\ retries \in 0..MaxRetries /\ faults \in 0..MaxFaults

Exclusive(excused) ==
    Cardinality(ran \ (routed \cup excused)) + (IF routed = {} THEN 0 ELSE 1)
      <= 1

\* ADR-0059: in one lane entry one instance runs the task, or those a person
\* assigned.  Besides, only an instance may run it that read its claim back within
\* the second of the write, see ConvergesWheneverRead, or whose claim ended in an
\* error after its write, or that could not take its assignment back.
ExclusiveUnlessEarly == Exclusive(unsettled \cup early)

\* client.rs: adjudication must not overrule a human's explicit routing: who
\* was assigned by a person never loses the task.
RoutingIsKept ==
    \A i \in routed : seen[i] = entry => state[i] # "skipped"

\* A loser steps aside: a skipped task is not assigned to its instance, or its
\* retry would win by the fast path and run it twice.
LoserHoldsNothing ==
    \A i \in Instances :
      state[i] = "skipped" /\ seen[i] = entry => i \notin assignees \ unsettled

\* who may win the task of this lane entry
MayWin == IF routed = {} THEN Pushers ELSE routed

\* claim.rs: the racers do not all yield: a task that someone may claim is run
\* in its lane entry.
EntryIsServed ==
    \A n \in 1..MaxEntries :
      (entry = n /\ \E i \in MayWin : state[i] = "queued")
        ~> (entry = n /\ ran # {})

\* claim.rs: a competitor whose event does not show yet is "a delay, never a
\* wrong answer".
NeverAWrongAnswer == Exclusive({})

\* claim.rs: "The ordering is server-issued, so every instance converges on the
\* same answer regardless of when it read": however soon after its write.  It
\* does not hold where the delay does not outlast the second of the write: an
\* event of that second that comes later may sort before those read.
ConvergesWheneverRead == Exclusive(unsettled)
=============================================================================
