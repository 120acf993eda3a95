-------------------------- MODULE MCAgentSupport --------------------------
(* A small instance of AgentSupport for TLC. *)
EXTENDS AgentSupport

TwoChannels == {1, 2}
=============================================================================
