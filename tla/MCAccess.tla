------------------------------- MODULE MCAccess -------------------------------
(* The ways into an account: the limiter in front of them, registration,   *)
(* sessions and passwords, the command line, and a laptop that dials twice *)
(* and hosts the session.  They share no variable, so one moves and the    *)
(* others rest: the sum of the five, not the product.                      *)
EXTENDS RateLimiter, Registration, Accounts, CliLogin, Devices, TLC

CONSTANTS r1, r2, c1, c2, u1, laptop
VARIABLE part

Names == r1 :> "ann" @@ r2 :> "bob"
Settings == r1 :> {"inviter", "invitee"} @@ r2 :> {}
PollsOf == 1 :> c1 @@ 2 :> c1
MadeBy == 3 :> u1 @@ 4 :> u1
AllOnLaptop == 1 :> laptop @@ 2 :> laptop

accessVars == <<part, rateVars, regVars, accVars, cliVars, devicesVars>>
AccessInit ==
    /\ part \in {"limiter", "registration", "accounts", "command line", "devices"}
    /\ RateInit /\ RegInit /\ AccInit /\ CliInit /\ DevicesInit
    /\ part # "devices" => others = 0
AccessNext ==
    /\ UNCHANGED part
    /\ \/ part = "limiter" /\ RateNext /\ UNCHANGED <<regVars, accVars, cliVars, devicesVars>>
       \/ part = "registration" /\ RegNext /\ UNCHANGED <<rateVars, accVars, cliVars, devicesVars>>
       \/ part = "accounts" /\ AccNext /\ UNCHANGED <<rateVars, regVars, cliVars, devicesVars>>
       \/ part = "command line" /\ CliNext /\ UNCHANGED <<rateVars, regVars, accVars, devicesVars>>
       \/ part = "devices" /\ DevicesNext /\ UNCHANGED <<rateVars, regVars, accVars, cliVars>>
AccessSpec == AccessInit /\ [][AccessNext]_accessVars
=============================================================================
