------------------------------ MODULE MCEngine ------------------------------
(* Instances of Engine for TLC. *)
EXTENDS Engine, TLC

\* the tasks are alike: same pair, no priorities
TaskSymmetry == Permutations(Tasks)

MCPairOf == [t \in Tasks |-> CHOOSE p \in Repos \X Agents : TRUE]
MCRepoLimit == [r \in Repos |-> NoCap]
MCAgentLimit == [a \in Agents |-> NoCap]

(***************************************************************************)
(* Versions only grow, and are only compared for equality with the version *)
(* a handler holds; missed is only asked about of agents that are done.    *)
(* States that agree on all else and on those comparisons have the same    *)
(* future, so TLC tells states apart by this.                              *)
(***************************************************************************)
Fresh == IF act.task = NoTask THEN TRUE ELSE act.ver = row[act.task].version

VersionlessView ==
    <<[t \in Tasks |-> row[t].state], spent, sess, pane, inbox, streams,
      strangers, {t \in missed : pane[t].state = "Done"}, slots, routes,
      untried, plan,
      [t \in Tasks |-> IF t \in todo \/ (pc = "resume" /\ act.task = t)
                       THEN <<snapshot[t].state,
                              snapshot[t].version = row[t].version>>
                       ELSE <<"none", TRUE>>],
      todo, resumed, pc, [act EXCEPT !.ver = 0], Fresh,
      asked, crashes, cliMoved>>
=============================================================================
