--------------------------- MODULE MCAgentRuntimes ---------------------------
(* Requests for one session, for TLC.                                      *)
EXTENDS AgentRuntimes, TLC

CONSTANTS s1, s2   \* two starts, whose names do not matter
Interchangeable == Permutations({s1, s2})
==============================================================================
