------------------------------- MODULE Quota -------------------------------
(***************************************************************************)
(* One user's account (src/quota.rs): the row of user_balances, its        *)
(* balance_ledger, and the tasks that open it, charge it, credit it and    *)
(* overwrite it. Chats are admitted on a positive balance and charged by a *)
(* spawned task once their stream is dropped (src/main.rs,                 *)
(* src/channels.rs); single generations pay first and are refunded when    *)
(* they fail. One step is one statement against the database.              *)
(***************************************************************************)
EXTENDS Integers, FiniteSets

CONSTANTS
    Tasks,        \* requests and settlements that may run at the same time
    SignupGrant,  \* what a new account starts with (signup_grant)
    MaxCost,      \* the most one chat or generation costs
    Deltas,       \* what grant() is called with, by payments and by admins, who may take money away
    Settings,     \* what an admin overwrites a balance with
    Ops,          \* what tasks do: "chat", "call", "grant", "set"
    Faults,       \* what can go wrong: "db", "disconnect", "crash"
    MaxOps,       \* how many operations are started
    MaxMishaps    \* how many times something goes wrong

ASSUME QuotaAssumption ==
    /\ IsFiniteSet(Tasks) /\ Tasks # {}
    /\ SignupGrant \in Nat
    /\ MaxCost \in Nat \ {0}
    /\ Deltas \subseteq Int /\ Settings \subseteq Nat
    /\ MaxOps \in Nat /\ MaxMishaps \in Nat

VARIABLES
    opened,       \* the user has a row in user_balances
    balance, used,\* its columns balance and lifetime_used
    booked,       \* the sum of balance_ledger.delta
    signups,      \* the ledger's rows with reason "signup_grant"
    granted,      \* what grants and overwrites have added to the balance
    overwritten,  \* an admin has set the balance
    debited,      \* how far admins' negative deltas took it below zero since then
    pc, op, amt, seen,  \* the position and the locals of every task
    started, mishaps

account == <<opened, balance, used>>
ledger == <<booked, signups>>
ghosts == <<granted, overwritten, debited>>
tasks == <<pc, op, amt, seen>>
bounds == <<started, mishaps>>
quotaVars == <<account, ledger, ghosts, tasks, bounds>>

(* The first four are ensure_account, at the head of every operation.      *)
Steps == {"idle", "look", "open", "bookSignup", "reread", "serving", "deduct",
          "charge", "credit", "overwrite", "book", "generating"}
Operations == {"none", "chat", "settle", "call", "grant", "set"}

Flags == opened \in BOOLEAN /\ overwritten \in BOOLEAN
Typed ==
    /\ balance \in Int /\ booked \in Int /\ granted \in Int
    /\ used \in Nat /\ signups \in Nat /\ debited \in Nat
    /\ pc \in [Tasks -> Steps]
    /\ op \in [Tasks -> Operations]
    /\ amt \in [Tasks -> Int]
    /\ seen \in [Tasks -> Int]
    /\ started \in 0..MaxOps /\ mishaps \in 0..MaxMishaps
TypeOK == Flags /\ Typed

Init ==
    /\ opened = FALSE /\ overwritten = FALSE
    /\ balance = 0 /\ used = 0 /\ booked = 0 /\ granted = 0 /\ signups = 0 /\ debited = 0
    /\ pc = [t \in Tasks |-> "idle"]
    /\ op = [t \in Tasks |-> "none"]
    /\ amt = [t \in Tasks |-> 0]
    /\ seen = [t \in Tasks |-> 0]
    /\ started = 0 /\ mishaps = 0

Mishap(kind) ==
    /\ kind \in Faults /\ mishaps < MaxMishaps
    /\ mishaps' = mishaps + 1
    /\ UNCHANGED started
DbFails == Mishap("db")
Fine == UNCHANGED bounds

Goto(t, label) == pc' = [pc EXCEPT ![t] = label]

(* A task is done, and what it knew is gone.                               *)
Finish(t) ==
    /\ pc' = [pc EXCEPT ![t] = "idle"]
    /\ op' = [op EXCEPT ![t] = "none"]
    /\ amt' = [amt EXCEPT ![t] = 0]
    /\ seen' = [seen EXCEPT ![t] = 0]

Begin(t, o, n) ==
    /\ pc' = [pc EXCEPT ![t] = "look"]
    /\ op' = [op EXCEPT ![t] = o]
    /\ amt' = [amt EXCEPT ![t] = n]
    /\ seen' = [seen EXCEPT ![t] = 0]

(* A request enters: what it costs, adds or sets.                          *)
Request(t) ==
    /\ pc[t] = "idle" /\ started < MaxOps
    /\ started' = started + 1
    /\ \/ "chat" \in Ops /\ Begin(t, "chat", 0)
       \/ "call" \in Ops /\ \E c \in 1..MaxCost : Begin(t, "call", c)
       \/ "grant" \in Ops /\ \E d \in Deltas : Begin(t, "grant", d)
       \/ "set" \in Ops /\ \E b \in Settings : Begin(t, "set", b)
    /\ UNCHANGED <<account, ledger, ghosts, mishaps>>

-----------------------------------------------------------------------------
(* ensure_account                                                          *)

(* Mutant of Proceed: an empty account is not "already overdrawn".          *)
ProceedAtZero(t, b) ==
    /\ seen' = [seen EXCEPT ![t] = b]
    /\ \/ op[t] = "chat" /\ b >= 0 /\ Goto(t, "serving")
       \/ op[t] = "settle" /\ Goto(t, "charge")
       \/ op[t] = "call" /\ Goto(t, "deduct")
       \/ op[t] = "grant" /\ Goto(t, "credit")
       \/ op[t] = "set" /\ Goto(t, "overwrite")
    /\ UNCHANGED <<op, amt>>

(* The account is there with balance b: every operation's own first step.  *)
(* authorize_chat admits on b > 0.                                         *)
Proceed(t, b) ==
    /\ seen' = [seen EXCEPT ![t] = b]
    /\ \/ op[t] = "chat" /\ b > 0 /\ Goto(t, "serving")
       \/ op[t] = "settle" /\ Goto(t, "charge")
       \/ op[t] = "call" /\ Goto(t, "deduct")
       \/ op[t] = "grant" /\ Goto(t, "credit")
       \/ op[t] = "set" /\ Goto(t, "overwrite")
    /\ UNCHANGED <<op, amt>>

Look(t) ==
    /\ pc[t] = "look"
    /\ \/ Fine /\ opened /\ Proceed(t, balance)
       \/ Fine /\ opened /\ op[t] = "chat" /\ balance <= 0 /\ Finish(t)
       \/ Fine /\ ~opened /\ Goto(t, "open") /\ UNCHANGED <<op, amt, seen>>
       \/ DbFails /\ Finish(t)
    /\ UNCHANGED <<account, ledger, ghosts>>

(* Mutant of OpenAccount: INSERT OR REPLACE.                               *)
ReopenAccount(t) ==
    /\ pc[t] = "open" /\ Fine
    /\ opened' = TRUE /\ balance' = SignupGrant
    /\ Goto(t, "bookSignup")
    /\ UNCHANGED <<used, ledger, ghosts, op, amt, seen>>

(* INSERT ... VALUES (user_id, initial): the primary key turns a second    *)
(* one away, and the error is ignored.                                     *)
OpenAccount(t) ==
    /\ pc[t] = "open"
    /\ \/ Fine /\ ~opened /\ opened' = TRUE /\ balance' = SignupGrant
       \/ ((Fine /\ opened) \/ DbFails) /\ UNCHANGED <<opened, balance>>
    /\ Goto(t, IF SignupGrant > 0 THEN "bookSignup" ELSE "reread")
    /\ UNCHANGED <<used, ledger, ghosts, op, amt, seen>>

(* The ledger row is written whether or not this task's INSERT won.        *)
BookSignup(t) ==
    /\ pc[t] = "bookSignup"
    /\ \/ Fine /\ booked' = booked + SignupGrant /\ signups' = signups + 1
       \/ DbFails /\ UNCHANGED ledger
    /\ Goto(t, "reread")
    /\ UNCHANGED <<account, ghosts, op, amt, seen>>

Reread(t) ==
    /\ pc[t] = "reread"
    /\ \/ Fine /\ opened /\ Proceed(t, balance)
       \/ Fine /\ opened /\ op[t] = "chat" /\ balance <= 0 /\ Finish(t)
       \/ ((Fine /\ ~opened) \/ DbFails) /\ Finish(t)
    /\ UNCHANGED <<account, ledger, ghosts>>

-----------------------------------------------------------------------------
(* Chats: proxy_forward, MeteredStream, settle_chat                        *)

(* Every channel fails, or nothing was metered: there is nothing to pay.   *)
ServeForFree(t) ==
    /\ pc[t] = "serving"
    /\ Finish(t)
    /\ UNCHANGED <<account, ledger, ghosts, bounds>>

(* The stream is dropped - finished, broken or abandoned - and a task is   *)
(* spawned to charge what was metered.                                     *)
DropStream(t) ==
    /\ pc[t] = "serving"
    /\ \E c \in 1..MaxCost : Begin(t, "settle", c)
    /\ UNCHANGED <<account, ledger, ghosts, bounds>>

(* settle: the UPDATE has no condition, the balance may go below zero.     *)
Charge(t) ==
    /\ pc[t] = "charge"
    /\ \/ /\ Fine
          /\ balance' = balance - amt[t] /\ used' = used + amt[t]
          /\ amt' = [amt EXCEPT ![t] = -@] /\ Goto(t, "book")
          /\ UNCHANGED <<op, seen>>
       \/ DbFails /\ Finish(t) /\ UNCHANGED <<balance, used>>
    /\ UNCHANGED <<opened, ledger, ghosts>>

-----------------------------------------------------------------------------
(* Generations paid in advance: try_deduct and the refund by grant         *)

(* Mutant of Deduct: the ledger row is written for refusals as well.      *)
DeductBookAnyway(t) ==
    /\ pc[t] = "deduct" /\ Fine
    /\ IF balance >= amt[t] THEN balance' = balance - amt[t] /\ used' = used + amt[t]
                            ELSE UNCHANGED <<balance, used>>
    /\ amt' = [amt EXCEPT ![t] = -@] /\ Goto(t, "book")
    /\ UNCHANGED <<opened, ledger, ghosts, op, seen>>

(* UPDATE ... WHERE balance >= cost, an error counting as a refusal.       *)
Deduct(t) ==
    /\ pc[t] = "deduct"
    /\ \/ /\ Fine /\ balance >= amt[t]
          /\ balance' = balance - amt[t] /\ used' = used + amt[t]
          /\ amt' = [amt EXCEPT ![t] = -@] /\ Goto(t, "book")
          /\ UNCHANGED <<op, seen>>
       \/ /\ (Fine /\ balance < amt[t]) \/ DbFails
          /\ Finish(t) /\ UNCHANGED <<balance, used>>
    /\ UNCHANGED <<opened, ledger, ghosts>>

(* The generation succeeds, or its cost is granted back.                   *)
Generate(t) ==
    /\ pc[t] = "generating"
    /\ \/ Finish(t)
       \/ Begin(t, "grant", -amt[t])
    /\ UNCHANGED <<account, ledger, ghosts, bounds>>

-----------------------------------------------------------------------------
(* grant and set_balance                                                   *)

(* Mutant of Credit: a credit is taken back off lifetime_used.             *)
CreditUnused(t) ==
    /\ pc[t] = "credit" /\ Fine
    /\ balance' = balance + amt[t] /\ used' = used - amt[t]
    /\ Goto(t, "book")
    /\ UNCHANGED <<opened, ledger, ghosts, op, amt, seen>>

Below(b) == IF b < 0 THEN -b ELSE 0

Credit(t) ==
    /\ pc[t] = "credit"
    /\ \/ /\ Fine
          /\ balance' = balance + amt[t] /\ granted' = granted + amt[t]
          /\ debited' = IF amt[t] < 0 THEN debited + Below(balance + amt[t]) - Below(balance)
                                      ELSE debited
          /\ Goto(t, "book") /\ UNCHANGED <<op, amt, seen>>
       \/ DbFails /\ Finish(t) /\ UNCHANGED <<balance, granted, debited>>
    /\ UNCHANGED <<opened, used, ledger, overwritten>>

(* The balance becomes the admin's value; the ledger gets the difference   *)
(* from the balance that was read before.                                  *)
Overwrite(t) ==
    /\ pc[t] = "overwrite"
    /\ \/ /\ Fine
          /\ balance' = amt[t] /\ granted' = granted + amt[t] - balance
          /\ overwritten' = TRUE /\ debited' = 0
          /\ IF amt[t] # seen[t]
             THEN /\ amt' = [amt EXCEPT ![t] = @ - seen[t]] /\ Goto(t, "book")
                  /\ UNCHANGED <<op, seen>>
             ELSE Finish(t)
       \/ DbFails /\ Finish(t) /\ UNCHANGED <<balance, granted, overwritten, debited>>
    /\ UNCHANGED <<opened, used, ledger>>

(* insert_ledger, after the UPDATE and with its error ignored.             *)
Book(t) ==
    /\ pc[t] = "book"
    /\ \/ Fine /\ booked' = booked + amt[t]
       \/ DbFails /\ UNCHANGED booked
    /\ IF op[t] = "call" THEN Goto(t, "generating") /\ UNCHANGED <<op, amt, seen>>
                         ELSE Finish(t)
    /\ UNCHANGED <<account, signups, ghosts>>

-----------------------------------------------------------------------------
(* A request is dropped when its client goes away. Settlements are spawned *)
(* tasks, and a stream that is dropped is DropStream.                      *)
Disconnect(t) ==
    /\ Mishap("disconnect")
    /\ pc[t] \notin {"idle", "serving"} /\ op[t] # "settle"
    /\ Finish(t)
    /\ UNCHANGED <<account, ledger, ghosts>>

Crash ==
    /\ Mishap("crash")
    /\ pc' = [t \in Tasks |-> "idle"]
    /\ op' = [t \in Tasks |-> "none"]
    /\ amt' = [t \in Tasks |-> 0]
    /\ seen' = [t \in Tasks |-> 0]
    /\ UNCHANGED <<account, ledger, ghosts>>

EnsureStep(t) == Look(t) \/ OpenAccount(t) \/ BookSignup(t) \/ Reread(t)
MoneyStep(t) == Charge(t) \/ Deduct(t) \/ Credit(t) \/ Overwrite(t) \/ Book(t)
ServeStep(t) == ServeForFree(t) \/ DropStream(t) \/ Generate(t)
TaskStep(t) == EnsureStep(t) \/ MoneyStep(t) \/ ServeStep(t)

Next ==
    \/ \E t \in Tasks : Request(t) \/ TaskStep(t) \/ Disconnect(t)
    \/ Crash

Spec == Init /\ [][Next]_quotaVars

-----------------------------------------------------------------------------
(* Properties                                                              *)

(* However chats interleave with generations, refunds, top-ups and admins, *)
(* a balance falls below zero by less than one request per task that can   *)
(* run at the same time and what admins have themselves taken below zero   *)
(* with negative deltas (authorize_chat, settle, admin_adjust_balance).    *)
OverdraftBounded == balance + debited > -MaxCost * Cardinality(Tasks)

(* The balance is what was granted less what was used: opening an account  *)
(* twice, refusing a deduction or losing a task never moves money          *)
(* (ensure_account's "race is harmless").                                  *)
UsageAccounted ==
    /\ opened => balance = SignupGrant + granted - used
    /\ ~opened => balance = 0 /\ used = 0 /\ granted = 0

(* With nobody in the middle of an operation, nothing gone wrong and no    *)
(* admin's overwrite, the ledger's sum explains the balance, up to the     *)
(* signup rows that racing ensure_accounts wrote more than once.           *)
Quiet == \A t \in Tasks : pc[t] \in {"idle", "serving", "generating"}
LedgerExplained ==
    Quiet /\ opened /\ mishaps = 0 /\ ~overwritten =>
        booked = IF SignupGrant = 0 THEN balance
                 ELSE balance + SignupGrant * (signups - 1)

(* The books agree: balance with movements, ledger with balance (quota.rs).*)
BooksBalance == UsageAccounted /\ LedgerExplained
=============================================================================
