---------------------------- MODULE MCAgentLoop ----------------------------
(* Workers are interchangeable, and so are the contents of replies.        *)
EXTENDS AgentLoop, TLC

Symmetry == Permutations(Owners) \cup Permutations(Bodies)
=============================================================================
