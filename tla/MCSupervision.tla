--------------------------- MODULE MCSupervision ---------------------------
(***************************************************************************)
(* Instances of Supervision for TLC.                                       *)
(***************************************************************************)
EXTENDS Supervision

\* two agents share the slot; the task that goes first needs the first agent
TwoTasks == <<"t1", "t2">>
OwnAgent == [t \in {"t1", "t2"} |-> IF t = "t1" THEN "claude" ELSE "codex"]
OneSource == [t \in {"t1", "t2"} |-> "github"]

\* the stop may kill every plugin; on its own only this one dies
AgentDies == [p \in Plugins |-> IF p = "claude" THEN 2 ELSE 0]

\* one task, and its agent dies once
OneTask == <<"t1">>
ItsAgent == [t \in {"t1"} |-> "claude"]
ItsSource == [t \in {"t1"} |-> "github"]
AgentDiesOnce == [p \in Plugins |-> IF p = "claude" THEN 1 ELSE 0]
=============================================================================
