---------------------------- MODULE SlotManager ----------------------------
(***************************************************************************)
(* The slot ledger of scheduler/mod.rs (F-40..F-45, #758) as operators     *)
(* over one value s: how many slots are used in each of the three tiers    *)
(* and which task holds each slot under which (repository, agent) pair.    *)
(*                                                                         *)
(* The repository and agent maps of the code read a missing key as 0; here *)
(* they are total functions.  A cap that is NoCap is an absent entry of    *)
(* limits.per_repo / limits.per_agent.                                     *)
(***************************************************************************)
EXTENDS Naturals, FiniteSets

CONSTANTS
    Tasks,        \* task ids
    Repos,        \* repository names
    Agents,       \* agent plugin names
    GlobalLimit,  \* limits.global
    RepoLimit,    \* limits.per_repo
    AgentLimit,   \* limits.per_agent
    NoCap,        \* no entry in a per-tier cap map
    NoSlot        \* the task is not a key of holders

ASSUME TasksAssumption == IsFiniteSet(Tasks)
ASSUME LimitsAssumption ==
    /\ GlobalLimit \in Nat
    /\ NoCap \notin Nat
    /\ RepoLimit \in [Repos -> Nat \cup {NoCap}]
    /\ AgentLimit \in [Agents -> Nat \cup {NoCap}]
ASSUME NoSlotAssumption == NoSlot \notin Repos \X Agents

Pairs == Repos \X Agents

\* the values a SlotManager can have
Ledgers ==
    [global : Nat,
     repo   : [Repos -> Nat],
     agent  : [Agents -> Nat],
     holder : [Tasks -> Pairs \cup {NoSlot}]]

\* SlotManager::new
AllFree ==
    [global |-> 0,
     repo   |-> [r \in Repos |-> 0],
     agent  |-> [a \in Agents |-> 0],
     holder |-> [t \in Tasks |-> NoSlot]]

Holds(s, t) == s.holder[t] # NoSlot

Holders(s) == {t \in Tasks : Holds(s, t)}
RepoHolders(s, r) == {t \in Tasks : Holds(s, t) /\ s.holder[t][1] = r}
AgentHolders(s, a) == {t \in Tasks : Holds(s, t) /\ s.holder[t][2] = a}

Below(used, cap) == cap = NoCap \/ used < cap

\* deviation: an off-by-one in the global tier
CanDispatch_OneMore(s, r, a) ==
    /\ s.global <= GlobalLimit
    /\ Below(s.repo[r], RepoLimit[r])
    /\ Below(s.agent[a], AgentLimit[a])

CanDispatch(s, r, a) ==
    /\ s.global < GlobalLimit
    /\ Below(s.repo[r], RepoLimit[r])
    /\ Below(s.agent[a], AgentLimit[a])

\* take: count a slot in every tier and record the holder
Take(s, t, r, a) ==
    [global |-> s.global + 1,
     repo   |-> [s.repo EXCEPT ![r] = @ + 1],
     agent  |-> [s.agent EXCEPT ![a] = @ + 1],
     holder |-> [s.holder EXCEPT ![t] = <<r, a>>]]

\* acquire answers TRUE: the task holds a slot already, or all tiers fit
AcquireGranted(s, t, r, a) == Holds(s, t) \/ CanDispatch(s, r, a)

\* deviation: a task that holds a slot already takes another
Acquire_Again(s, t, r, a) == IF CanDispatch(s, r, a) THEN Take(s, t, r, a) ELSE s

\* the ledger after acquire, whatever it answered
Acquire(s, t, r, a) ==
    IF ~Holds(s, t) /\ CanDispatch(s, r, a) THEN Take(s, t, r, a) ELSE s

Decrement(n) == IF n = 0 THEN 0 ELSE n - 1

\* deviation: the holder entry survives and the count is subtracted plainly
Release_KeepsHolder(s, t) ==
    IF ~Holds(s, t) THEN s
    ELSE [s EXCEPT !.global = @ - 1,
                   !.repo[s.holder[t][1]] = Decrement(@),
                   !.agent[s.holder[t][2]] = Decrement(@)]

\* release: by the task that holds the slot, a no-op for any other
Release(s, t) ==
    IF ~Holds(s, t) THEN s
    ELSE [global |-> Decrement(s.global),
          repo   |-> [s.repo EXCEPT ![s.holder[t][1]] = Decrement(@)],
          agent  |-> [s.agent EXCEPT ![s.holder[t][2]] = Decrement(@)],
          holder |-> [s.holder EXCEPT ![t] = NoSlot]]

\* release for each member of ts in turn
ReleaseAll(s, ts) ==
    [global |-> s.global - Cardinality(ts \cap Holders(s)),
     repo   |-> [r \in Repos |->
                   s.repo[r] - Cardinality(ts \cap RepoHolders(s, r))],
     agent  |-> [a \in Agents |->
                   s.agent[a] - Cardinality(ts \cap AgentHolders(s, a))],
     holder |-> [t \in Tasks |-> IF t \in ts THEN NoSlot ELSE s.holder[t]]]

(***************************************************************************)
(* rebuild: forget everything, then take a slot for each claim.  claims is *)
(* the holder function of the claims (NoSlot for a task without one); the  *)
(* caps are not consulted.                                                 *)
(***************************************************************************)
Rebuild(claims) ==
    LET claimants == {t \in Tasks : claims[t] # NoSlot}
    IN  [global |-> Cardinality(claimants),
         repo   |-> [r \in Repos |->
                       Cardinality({t \in claimants : claims[t][1] = r})],
         agent  |-> [a \in Agents |->
                       Cardinality({t \in claimants : claims[t][2] = a})],
         holder |-> claims]

(***************************************************************************)
(* The three counters and the ledger never disagree: each counter is the   *)
(* number of tasks that hold a slot under it.  The code keeps the four in  *)
(* step by hand in take and release, with saturating subtraction that      *)
(* would hide a drift.                                                     *)
(***************************************************************************)
CountersAgree(s) ==
    /\ s.global = Cardinality(Holders(s))
    /\ \A r \in Repos : s.repo[r] = Cardinality(RepoHolders(s, r))
    /\ \A a \in Agents : s.agent[a] = Cardinality(AgentHolders(s, a))
=============================================================================
