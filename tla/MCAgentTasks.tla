---------------------------- MODULE MCAgentTasks ----------------------------
(* Instances of AgentTasks: u, v and n are for chat 1, w for chat 2, x for  *)
(* chat 3.                                                                  *)
EXTENDS AgentTasks, TLC

CONSTANTS c1, c2, c3, u, v, w, x, n

MCTo == [m \in Messages |-> CASE m = w -> c2 [] m = x -> c3 [] OTHER -> c1]
=============================================================================
