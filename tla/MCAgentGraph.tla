---------------------------- MODULE MCAgentGraph ----------------------------
(***************************************************************************)
(* Instances of the workflow for TLC.  The queries are interchangeable.    *)
(***************************************************************************)
EXTENDS AgentGraph, TLC

QuerySymmetry == Permutations(Queries)
=============================================================================
