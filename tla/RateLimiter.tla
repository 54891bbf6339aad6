------------------------------ MODULE RateLimiter ------------------------------
(***************************************************************************)
(* The limiter in front of every public door (src/rate_limit.rs): a fixed  *)
(* window per address, and a task that forgets addresses.                  *)
(***************************************************************************)
EXTENDS Integers, Sequences

CONSTANTS
    Addresses,
    Most,       \* max_attempts
    Window,     \* in ticks of the clock
    Horizon     \* how long the model runs

ASSUME RateAssumption == Most \in Nat \ {0} /\ Window \in Nat \ {0} /\ Horizon \in Nat

VARIABLES
    clock,
    count, began,   \* the bucket of an address; 0 attempts when there is none
    let             \* ghost: when the attempts of an address were let through, in their order

rateVars == <<clock, count, began, let>>
Times == 0..Horizon

RateTypeOK ==
    /\ clock \in Times /\ count \in [Addresses -> 0..Most] /\ began \in [Addresses -> Times]
    /\ let \in [Addresses -> Seq(Times)]

RateInit ==
    /\ clock = 0 /\ count = [a \in Addresses |-> 0] /\ began = [a \in Addresses |-> 0]
    /\ let = [a \in Addresses |-> <<>>]

Tick == clock < Horizon /\ clock' = clock + 1 /\ UNCHANGED <<count, began, let>>

(* allow: a new bucket, or one whose window has elapsed, begins now.  An   *)
(* attempt over the limit still leaves the bucket begun anew.              *)
Fresh(a) == count[a] = 0 \/ clock - began[a] > Window
Allow(a) ==
    /\ Fresh(a) \/ count[a] < Most
    /\ count' = [count EXCEPT ![a] = IF Fresh(a) THEN 1 ELSE @ + 1]
    /\ began' = [began EXCEPT ![a] = IF Fresh(a) THEN clock ELSE @]
    /\ let' = [let EXCEPT ![a] = Append(@, clock)]
    /\ UNCHANGED clock

(* Mutant of Prune: the task forgets whoever was quiet for one tick.       *)
PruneSoon ==
    /\ \E a \in Addresses : count[a] > 0 /\ clock - began[a] >= 1
    /\ count' = [a \in Addresses |-> IF clock - began[a] < 1 THEN count[a] ELSE 0]
    /\ UNCHANGED <<clock, began, let>>

(* prune: buckets two windows old.                                         *)
Prune ==
    /\ \E a \in Addresses : count[a] > 0 /\ clock - began[a] >= 2 * Window
    /\ count' = [a \in Addresses |-> IF clock - began[a] < 2 * Window THEN count[a] ELSE 0]
    /\ UNCHANGED <<clock, began, let>>

RateNext == Tick \/ Prune \/ \E a \in Addresses : Allow(a)
RateSpec == RateInit /\ [][RateNext]_rateVars
-----------------------------------------------------------------------------
(* A fixed window lets a burst through on each side of its boundary, and   *)
(* no more: within the span of one window never more than twice the limit, *)
(* so that an attempt and the one that comes twice the limit later lie     *)
(* more than a window apart, whenever an address is forgotten and comes    *)
(* back (rate_limit 43-71).                                                *)
TwiceAtMost ==
    \A a \in Addresses : \A i \in 1..(Len(let[a]) - 2 * Most) :
        let[a][i + 2 * Most] - let[a][i] > Window
=============================================================================
