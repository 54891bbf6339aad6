--------------------------- MODULE MCWorkflowRuns ---------------------------
(* Small graphs for TLC.                                                   *)
EXTENDS WorkflowRuns, TLC

CONSTANTS a, b, m   \* two generated clips, and what is made of them
Merge == {<<a, m>>, <<b, m>>}
Chain == {<<a, m>>}
=============================================================================
