-------------------------- MODULE MCWorkflowGraph --------------------------
(* Three tasks, two planners, every batch of one or two mutations. *)
EXTENDS WorkflowGraph, TLC

CONSTANTS a, b, c, p1, p2

MCTasks == {a, b, c}
MCPlanners == {p1, p2}
MCBatches == {<<m>> : m \in Mutation}
                 \cup {<<m[1], m[2]>> : m \in Mutation \X Mutation}
Symmetry == Permutations(MCTasks) \cup Permutations(MCPlanners)
============================================================================
