------------------------------- MODULE Escrow -------------------------------
(***************************************************************************)
(* What a prepaid generation promises its user, whatever the medium: the   *)
(* price of an item is held until the item is delivered or the price is    *)
(* given back, and both are final.                                         *)
(***************************************************************************)
CONSTANT Items
VARIABLE stage

Stages == {"unpaid", "held", "delivered", "refunded"}

Init == stage = [i \in Items |-> "unpaid"]

Move(i, from, to) == stage[i] = from /\ stage' = [stage EXCEPT ![i] = to]

Pay(i) == Move(i, "unpaid", "held")
Deliver(i) == Move(i, "held", "delivered")
Refund(i) == Move(i, "held", "refunded")

Next == \E i \in Items : Pay(i) \/ Deliver(i) \/ Refund(i)

Spec == Init /\ [][Next]_stage

(* A payment does not stay on hold.                                        *)
Resolved == \A i \in Items : stage[i] = "held" ~> stage[i] # "held"
=============================================================================
