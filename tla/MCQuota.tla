------------------------------ MODULE MCQuota ------------------------------
(* A small instance of Quota for TLC.                                      *)
EXTENDS Quota, TLC

Adjustments == {1, -2}
Interchangeable == Permutations(Tasks)
=============================================================================
