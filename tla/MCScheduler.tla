---------------------------- MODULE MCScheduler ----------------------------
(***************************************************************************)
(* Three tasks over two repositories and two agents.  t2 may ask under any *)
(* of three pairs (task retry --repo moves a task), so a release has to    *)
(* name the pair the slot was taken under, and each of the three tiers is  *)
(* the one that blocks it in some state.                                   *)
(***************************************************************************)
EXTENDS Scheduler

CONSTANTS t1, t2, t3, r1, r2, a1, a2

MCTasks == {t1, t2, t3}
MCRequests ==
    {[task |-> t1, repo |-> r1, agent |-> a1],
     [task |-> t2, repo |-> r1, agent |-> a2],
     [task |-> t2, repo |-> r2, agent |-> a1],
     [task |-> t2, repo |-> r2, agent |-> a2],
     [task |-> t3, repo |-> r2, agent |-> a2]}
MCRepoLimit == [r \in {r1, r2} |-> IF r = r1 THEN 1 ELSE NoCap]
MCAgentLimit == [a \in {a1, a2} |-> IF a = a1 THEN 1 ELSE NoCap]
=============================================================================
