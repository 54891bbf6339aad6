---------------------------- MODULE MCVideoJobs ----------------------------
(* Small instances of VideoJobs for TLC.                                   *)
EXTENDS VideoJobs, TLC

CONSTANT j1
OfOneJob == [f \in Files |-> j1]
=============================================================================
