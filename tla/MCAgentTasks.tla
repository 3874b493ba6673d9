---------------------------- MODULE MCAgentTasks ----------------------------
(* AgentTasks on a small instance: one request, which a repeated XADD can put *)
(* into the stream twice, and two replicas of one slot.                      *)
EXTENDS AgentTasks
=============================================================================
