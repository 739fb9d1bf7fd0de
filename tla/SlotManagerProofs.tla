-------------------------- MODULE SlotManagerProofs --------------------------
(***************************************************************************)
(* What the operations of the slot ledger preserve, for any set of tasks,  *)
(* repositories, agents and caps.                                          *)
(***************************************************************************)
EXTENDS SlotManager, FiniteSetTheorems, TLAPS

USE DEF Pairs

\* the sets the counters count are finite
LEMMA HoldersFinite ==
    ASSUME NEW s
    PROVE  /\ IsFiniteSet(Holders(s))
           /\ \A r \in Repos : IsFiniteSet(RepoHolders(s, r))
           /\ \A a \in Agents : IsFiniteSet(AgentHolders(s, a))
<1>1. /\ Holders(s) \in SUBSET Tasks
      /\ \A r \in Repos : RepoHolders(s, r) \in SUBSET Tasks
      /\ \A a \in Agents : AgentHolders(s, a) \in SUBSET Tasks
  BY DEF Holders, RepoHolders, AgentHolders
<1>2. QED BY <1>1, TasksAssumption, FS_Subset

\* take yields a ledger, and one whose counters agree if they did before
LEMMA TakeAgrees ==
    ASSUME NEW s \in Ledgers, NEW t \in Tasks, NEW r \in Repos, NEW a \in Agents,
           CountersAgree(s), ~Holds(s, t)
    PROVE  Take(s, t, r, a) \in Ledgers /\ CountersAgree(Take(s, t, r, a))
<1> DEFINE u == Take(s, t, r, a)
<1>1. u \in Ledgers BY DEF Take, Ledgers
<1>2. u.holder[t] = <<r, a>> /\ \A v \in Tasks \ {t} : u.holder[v] = s.holder[v]
  BY DEF Take, Ledgers
<1>3. s.holder[t] = NoSlot BY DEF Holds
<1>4. <<r, a>> # NoSlot BY NoSlotAssumption
<1>5. u.global = Cardinality(Holders(u))
  <2>1. Holders(u) = Holders(s) \cup {t} /\ t \notin Holders(s)
    BY <1>2, <1>3, <1>4 DEF Holders, Holds
  <2>2. u.global = s.global + 1 BY DEF Take
  <2>3. QED BY <2>1, <2>2, HoldersFinite, FS_AddElement DEF CountersAgree
<1>6. ASSUME NEW q \in Repos
      PROVE  u.repo[q] = Cardinality(RepoHolders(u, q))
  <2>1. CASE q = r
    <3>1. RepoHolders(u, q) = RepoHolders(s, q) \cup {t} /\ t \notin RepoHolders(s, q)
      <4> HIDE DEF u
      <4>1. t \notin RepoHolders(s, q) BY <1>3, <1>4 DEF RepoHolders, Holds
      <4>2. t \in RepoHolders(u, q) BY <1>2, <1>4, <2>1 DEF RepoHolders, Holds
      <4>3. \A v \in Tasks \ {t} : v \in RepoHolders(u, q) <=> v \in RepoHolders(s, q)
        BY <1>2 DEF RepoHolders, Holds
      <4>4. RepoHolders(u, q) \subseteq Tasks /\ RepoHolders(s, q) \subseteq Tasks
        BY DEF RepoHolders
      <4>5. QED BY <4>1, <4>2, <4>3, <4>4
    <3>2. u.repo[q] = s.repo[q] + 1 BY <2>1 DEF Take, Ledgers
    <3>3. s.repo[q] = Cardinality(RepoHolders(s, q)) BY DEF CountersAgree
    <3>4. IsFiniteSet(RepoHolders(s, q)) BY HoldersFinite
    <3> HIDE DEF u
    <3>5. QED BY <3>1, <3>2, <3>3, <3>4, FS_AddElement
  <2>2. CASE q # r
    <3>1. RepoHolders(u, q) = RepoHolders(s, q)
      BY <2>2, <1>2, <1>3, <1>4 DEF RepoHolders, Holds
    <3>2. u.repo[q] = s.repo[q] BY <2>2 DEF Take, Ledgers
    <3>3. QED BY <3>1, <3>2 DEF CountersAgree
  <2>3. QED BY <2>1, <2>2
<1>7. ASSUME NEW q \in Agents
      PROVE  u.agent[q] = Cardinality(AgentHolders(u, q))
  <2>1. CASE q = a
    <3>1. AgentHolders(u, q) = AgentHolders(s, q) \cup {t} /\ t \notin AgentHolders(s, q)
      <4> HIDE DEF u
      <4>1. t \notin AgentHolders(s, q) BY <1>3, <1>4 DEF AgentHolders, Holds
      <4>2. t \in AgentHolders(u, q) BY <1>2, <1>4, <2>1 DEF AgentHolders, Holds
      <4>3. \A v \in Tasks \ {t} : v \in AgentHolders(u, q) <=> v \in AgentHolders(s, q)
        BY <1>2 DEF AgentHolders, Holds
      <4>4. AgentHolders(u, q) \subseteq Tasks /\ AgentHolders(s, q) \subseteq Tasks
        BY DEF AgentHolders
      <4>5. QED BY <4>1, <4>2, <4>3, <4>4
    <3>2. u.agent[q] = s.agent[q] + 1 BY <2>1 DEF Take, Ledgers
    <3>3. s.agent[q] = Cardinality(AgentHolders(s, q)) BY DEF CountersAgree
    <3>4. IsFiniteSet(AgentHolders(s, q)) BY HoldersFinite
    <3> HIDE DEF u
    <3>5. QED BY <3>1, <3>2, <3>3, <3>4, FS_AddElement
  <2>2. CASE q # a
    <3>1. AgentHolders(u, q) = AgentHolders(s, q)
      BY <2>2, <1>2, <1>3, <1>4 DEF AgentHolders, Holds
    <3>2. u.agent[q] = s.agent[q] BY <2>2 DEF Take, Ledgers
    <3>3. QED BY <3>1, <3>2 DEF CountersAgree
  <2>3. QED BY <2>1, <2>2
<1>8. QED BY <1>1, <1>5, <1>6, <1>7 DEF CountersAgree

\* acquire keeps the ledger well-formed and its counters in agreement
LEMMA AcquireAgrees ==
    ASSUME NEW s \in Ledgers, NEW t \in Tasks, NEW r \in Repos, NEW a \in Agents,
           CountersAgree(s)
    PROVE  Acquire(s, t, r, a) \in Ledgers /\ CountersAgree(Acquire(s, t, r, a))
BY TakeAgrees DEF Acquire

(***************************************************************************)
(* release keeps the ledger well-formed and its counters in agreement; the *)
(* saturating subtraction never saturates, because the task that releases  *)
(* is itself one of those counted.                                         *)
(***************************************************************************)
LEMMA ReleaseAgrees ==
    ASSUME NEW s \in Ledgers, NEW t \in Tasks, CountersAgree(s)
    PROVE  Release(s, t) \in Ledgers /\ CountersAgree(Release(s, t))
<1> DEFINE u == Release(s, t)
<1>1. CASE ~Holds(s, t) BY <1>1 DEF Release
<1>2. CASE Holds(s, t)
  <2> DEFINE r == s.holder[t][1]
             a == s.holder[t][2]
  <2>1. s.holder[t] = <<r, a>> /\ r \in Repos /\ a \in Agents
    BY <1>2 DEF Holds, Ledgers
  <2>2. u = [global |-> Decrement(s.global),
             repo   |-> [s.repo EXCEPT ![r] = Decrement(@)],
             agent  |-> [s.agent EXCEPT ![a] = Decrement(@)],
             holder |-> [s.holder EXCEPT ![t] = NoSlot]]
    BY <1>2 DEF Release
  <2> HIDE DEF u, r, a
  <2>3. u \in Ledgers BY <2>1, <2>2 DEF Ledgers, Decrement
  <2>4. u.holder[t] = NoSlot /\ \A v \in Tasks \ {t} : u.holder[v] = s.holder[v]
    BY <2>2 DEF Ledgers
  <2>5. u.global = Cardinality(Holders(u))
    <3>1. Holders(u) = Holders(s) \ {t} /\ t \in Holders(s)
      BY <1>2, <2>4 DEF Holders, Holds
    <3>2. Cardinality(Holders(u)) = s.global - 1
      BY <3>1, HoldersFinite, FS_RemoveElement DEF CountersAgree
    <3>3. s.global # 0
      BY <3>1, HoldersFinite, FS_EmptySet DEF CountersAgree
    <3>4. QED BY <3>2, <3>3, <2>2 DEF Decrement
  <2>6. ASSUME NEW q \in Repos
        PROVE  u.repo[q] = Cardinality(RepoHolders(u, q))
    <3>1. CASE q = r
      <4>1. RepoHolders(u, q) = RepoHolders(s, q) \ {t} /\ t \in RepoHolders(s, q)
        BY <1>2, <2>1, <2>4, <3>1 DEF RepoHolders, Holds
      <4>2. Cardinality(RepoHolders(u, q)) = s.repo[q] - 1
        BY <4>1, HoldersFinite, FS_RemoveElement DEF CountersAgree
      <4>3. s.repo[q] # 0
        BY <4>1, HoldersFinite, FS_EmptySet DEF CountersAgree
      <4>4. u.repo[q] = Decrement(s.repo[q]) BY <2>2, <3>1 DEF Ledgers
      <4>5. QED BY <4>2, <4>3, <4>4 DEF Decrement
    <3>2. CASE q # r
      <4>1. RepoHolders(u, q) = RepoHolders(s, q)
        BY <2>1, <2>4, <3>2 DEF RepoHolders, Holds
      <4>2. u.repo[q] = s.repo[q] BY <2>2, <3>2 DEF Ledgers
      <4>3. QED BY <4>1, <4>2 DEF CountersAgree
    <3>3. QED BY <3>1, <3>2
  <2>7. ASSUME NEW q \in Agents
        PROVE  u.agent[q] = Cardinality(AgentHolders(u, q))
    <3>1. CASE q = a
      <4>1. AgentHolders(u, q) = AgentHolders(s, q) \ {t} /\ t \in AgentHolders(s, q)
        BY <1>2, <2>1, <2>4, <3>1 DEF AgentHolders, Holds
      <4>2. Cardinality(AgentHolders(u, q)) = s.agent[q] - 1
        BY <4>1, HoldersFinite, FS_RemoveElement DEF CountersAgree
      <4>3. s.agent[q] # 0
        BY <4>1, HoldersFinite, FS_EmptySet DEF CountersAgree
      <4>4. u.agent[q] = Decrement(s.agent[q]) BY <2>2, <3>1 DEF Ledgers
      <4>5. QED BY <4>2, <4>3, <4>4 DEF Decrement
    <3>2. CASE q # a
      <4>1. AgentHolders(u, q) = AgentHolders(s, q)
        BY <2>1, <2>4, <3>2 DEF AgentHolders, Holds
      <4>2. u.agent[q] = s.agent[q] BY <2>2, <3>2 DEF Ledgers
      <4>3. QED BY <4>1, <4>2 DEF CountersAgree
    <3>3. QED BY <3>1, <3>2
  <2>8. QED BY <2>3, <2>5, <2>6, <2>7 DEF CountersAgree, u
<1>3. QED BY <1>1, <1>2

\* rebuild from any claims
LEMMA RebuildAgrees ==
    ASSUME NEW claims \in [Tasks -> Pairs \cup {NoSlot}]
    PROVE  Rebuild(claims) \in Ledgers /\ CountersAgree(Rebuild(claims))
<1> DEFINE u == Rebuild(claims)
           C == {t \in Tasks : claims[t] # NoSlot}
<1>1. u.holder = claims BY DEF Rebuild
<1>2. /\ Holders(u) = C
      /\ \A r \in Repos : RepoHolders(u, r) = {t \in C : claims[t][1] = r}
      /\ \A a \in Agents : AgentHolders(u, a) = {t \in C : claims[t][2] = a}
  BY <1>1 DEF Holders, RepoHolders, AgentHolders, Holds
<1>3. CountersAgree(u) BY <1>2 DEF CountersAgree, Rebuild
<1>4. /\ u.global \in Nat
      /\ u.repo \in [Repos -> Nat]
      /\ u.agent \in [Agents -> Nat]
  <2>1. /\ Cardinality(C) \in Nat
        /\ \A r \in Repos : Cardinality({t \in C : claims[t][1] = r}) \in Nat
        /\ \A a \in Agents : Cardinality({t \in C : claims[t][2] = a}) \in Nat
    BY <1>2, HoldersFinite, FS_CardinalityType
  <2>2. QED BY <2>1 DEF Rebuild
<1>5. QED BY <1>1, <1>3, <1>4 DEF Ledgers, Rebuild

LEMMA AllFreeAgrees == AllFree \in Ledgers /\ CountersAgree(AllFree)
<1>1. AllFree \in Ledgers BY DEF AllFree, Ledgers
<1>2. /\ Holders(AllFree) = {}
      /\ \A r \in Repos : RepoHolders(AllFree, r) = {}
      /\ \A a \in Agents : AgentHolders(AllFree, a) = {}
  BY DEF AllFree, Holders, RepoHolders, AgentHolders, Holds
<1>3. QED BY <1>1, <1>2, FS_EmptySet DEF CountersAgree, AllFree

(***************************************************************************)
(* Releasing a whole set at once keeps the counters in agreement: each     *)
(* counter loses as many as there are holders in the set.                  *)
(***************************************************************************)
LEMMA ReleaseAllAgrees ==
    ASSUME NEW s \in Ledgers, NEW ts \in SUBSET Tasks, CountersAgree(s)
    PROVE  ReleaseAll(s, ts) \in Ledgers /\ CountersAgree(ReleaseAll(s, ts))
<1> DEFINE u == ReleaseAll(s, ts)
<1>1. /\ Holders(u) = Holders(s) \ (ts \cap Holders(s))
      /\ \A r \in Repos :
            RepoHolders(u, r) = RepoHolders(s, r) \ (ts \cap RepoHolders(s, r))
      /\ \A a \in Agents :
            AgentHolders(u, a) = AgentHolders(s, a) \ (ts \cap AgentHolders(s, a))
  BY DEF ReleaseAll, Holders, RepoHolders, AgentHolders, Holds
<1>2. ASSUME NEW H, IsFiniteSet(H)
      PROVE  /\ Cardinality(H \ (ts \cap H)) = Cardinality(H) - Cardinality(ts \cap H)
             /\ Cardinality(H \ (ts \cap H)) \in Nat
  <2>1. IsFiniteSet(ts \cap H) /\ IsFiniteSet(H \ (ts \cap H))
    BY <1>2, FS_Subset
  <2>2. Cardinality(H \ (ts \cap H))
          = Cardinality(H) - Cardinality(H \cap (ts \cap H))
    BY <1>2, <2>1, FS_Difference
  <2>3. H \cap (ts \cap H) = ts \cap H
    OBVIOUS
  <2>4. QED BY <2>1, <2>2, <2>3, FS_CardinalityType
<1>3. /\ u.global = Cardinality(Holders(u)) /\ u.global \in Nat
      /\ \A r \in Repos : /\ u.repo[r] = Cardinality(RepoHolders(u, r))
                          /\ u.repo[r] \in Nat
      /\ \A a \in Agents : /\ u.agent[a] = Cardinality(AgentHolders(u, a))
                           /\ u.agent[a] \in Nat
  <2>1. /\ u.global = s.global - Cardinality(ts \cap Holders(s))
        /\ \A r \in Repos :
              u.repo[r] = s.repo[r] - Cardinality(ts \cap RepoHolders(s, r))
        /\ \A a \in Agents :
              u.agent[a] = s.agent[a] - Cardinality(ts \cap AgentHolders(s, a))
    BY DEF ReleaseAll
  <2> HIDE DEF u
  <2>2. u.global = Cardinality(Holders(u)) /\ u.global \in Nat
    <3> DEFINE H == Holders(s)
    <3>1. IsFiniteSet(H) BY HoldersFinite
    <3>2. s.global = Cardinality(H) BY DEF CountersAgree
    <3>3. Holders(u) = H \ (ts \cap H) BY <1>1
    <3>4. u.global = s.global - Cardinality(ts \cap H) BY <2>1
    <3> HIDE DEF H
    <3>5. QED BY <1>2, <3>1, <3>2, <3>3, <3>4
  <2>3. ASSUME NEW r \in Repos
        PROVE  u.repo[r] = Cardinality(RepoHolders(u, r)) /\ u.repo[r] \in Nat
    <3> DEFINE H == RepoHolders(s, r)
    <3>1. IsFiniteSet(H) BY HoldersFinite
    <3>2. s.repo[r] = Cardinality(H) BY DEF CountersAgree
    <3>3. RepoHolders(u, r) = H \ (ts \cap H) BY <1>1
    <3>4. u.repo[r] = s.repo[r] - Cardinality(ts \cap H) BY <2>1
    <3> HIDE DEF H
    <3>5. QED BY <1>2, <3>1, <3>2, <3>3, <3>4
  <2>4. ASSUME NEW a \in Agents
        PROVE  u.agent[a] = Cardinality(AgentHolders(u, a)) /\ u.agent[a] \in Nat
    <3> DEFINE H == AgentHolders(s, a)
    <3>1. IsFiniteSet(H) BY HoldersFinite
    <3>2. s.agent[a] = Cardinality(H) BY DEF CountersAgree
    <3>3. AgentHolders(u, a) = H \ (ts \cap H) BY <1>1
    <3>4. u.agent[a] = s.agent[a] - Cardinality(ts \cap H) BY <2>1
    <3> HIDE DEF H
    <3>5. QED BY <1>2, <3>1, <3>2, <3>3, <3>4
  <2>5. QED BY <2>2, <2>3, <2>4
<1>4. u \in Ledgers
  <2>1. u.holder \in [Tasks -> Pairs \cup {NoSlot}] BY DEF ReleaseAll, Ledgers
  <2>2. u = [global |-> u.global, repo |-> u.repo, agent |-> u.agent,
             holder |-> u.holder]
    BY DEF ReleaseAll
  <2>3. u.repo \in [Repos -> Nat] /\ u.agent \in [Agents -> Nat]
    BY <1>3 DEF ReleaseAll
  <2> HIDE DEF u
  <2>4. QED BY <1>3, <2>1, <2>2, <2>3 DEF Ledgers
<1>5. QED BY <1>3, <1>4 DEF CountersAgree

=============================================================================
