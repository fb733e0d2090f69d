------------------------------ MODULE MCAgentLoop ------------------------------
(***************************************************************************)
(* AgentLoop for TLC: a debate of three turns, so that one speaker speaks  *)
(* twice, and each of the other loops once.                                *)
(***************************************************************************)
EXTENDS AgentLoop

MCScripts == {Debate(3), Stress, Handoff, Lifecycle, Interactive}
================================================================================
