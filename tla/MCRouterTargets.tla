--------------------------- MODULE MCRouterTargets ---------------------------
(* RouterTargets with a value for its function-valued constant. *)
EXTENDS RouterTargets

MCPriority == [i \in Instances |-> 0]
==============================================================================
