----------------------------- MODULE MCRecharge -----------------------------
(* A small instance of Recharge for TLC.                                   *)
EXTENDS Recharge, TLC

Interchangeable == Permutations(Notifiers) \cup Permutations(Orders) \cup Permutations(Trades)
=============================================================================
