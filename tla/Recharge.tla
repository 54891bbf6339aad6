------------------------------ MODULE Recharge ------------------------------
(***************************************************************************)
(* Top-ups through the payment gateway (src/payments.rs): orders, the      *)
(* gateway's notifications - repeated until it reads "success", sent by    *)
(* the browser's return page as well, and processed concurrently - and the *)
(* credit that follows, which runs through the account of module Quota.    *)
(***************************************************************************)
EXTENDS Quota

CONSTANTS
    Notifiers,    \* the tasks that process notifications
    Orders,       \* orders of the account's user
    Trades,       \* trade numbers of the gateway
    None,         \* no order, no trade number
    Amount        \* the quota an order credits

ASSUME RechargeAssumption ==
    /\ Notifiers \subseteq Tasks
    /\ None \notin Orders \cup Trades
    /\ Amount \in Deltas

VARIABLES
    order,        \* payment_orders.status, "none" before the insert
    trade,        \* payment_orders.trade_no
    payment,      \* at the gateway: the trade that paid the order
    acked,        \* orders for which the gateway has read "success"
    credits,      \* how often an order was credited
    stage, about  \* where a notification is, and its order

orders == <<order, trade>>
gateway == <<payment, acked>>
notices == <<stage, about>>
orderVars == <<orders, gateway, notices, credits>>
vars == <<quotaVars, orderVars>>

NoticeSteps == {"none", "load", "check", "mark", "credit"}

RechargeTypeOK ==
    /\ TypeOK
    /\ order \in [Orders -> {"none", "pending", "paid"}]
    /\ trade \in [Orders -> Trades \cup {None}]
    /\ payment \in [Orders -> Trades \cup {None}]
    /\ acked \in SUBSET Orders
    /\ credits \in [Orders -> Nat]
    /\ stage \in [Notifiers -> NoticeSteps]
    /\ about \in [Notifiers -> Orders \cup {None}]

RechargeInit ==
    /\ Init
    /\ order = [o \in Orders |-> "none"]
    /\ trade = [o \in Orders |-> None]
    /\ payment = [o \in Orders |-> None]
    /\ acked = {}
    /\ credits = [o \in Orders |-> 0]
    /\ stage = [n \in Notifiers |-> "none"]
    /\ about = [n \in Notifiers |-> None]

CreateOrder(o) ==
    /\ order[o] = "none"
    /\ order' = [order EXCEPT ![o] = "pending"]
    /\ UNCHANGED <<quotaVars, trade, gateway, notices, credits>>

(* The user pays. The gateway may reuse a number (migration 0020).         *)
Pay(o) ==
    /\ order[o] = "pending" /\ payment[o] = None
    /\ \E t \in Trades : payment' = [payment EXCEPT ![o] = t]
    /\ UNCHANGED <<quotaVars, orders, acked, notices, credits>>

-----------------------------------------------------------------------------
(* process_notify                                                          *)

GoOn(n, s) == stage' = [stage EXCEPT ![n] = s] /\ UNCHANGED about
Close(n) ==
    /\ stage' = [stage EXCEPT ![n] = "none"]
    /\ about' = [about EXCEPT ![n] = None]
Answer(n, ok) ==
    /\ Close(n)
    /\ acked' = IF ok THEN acked \cup {about[n]} ELSE acked

(* A signed TRADE_SUCCESS with the right amount; also the return page.     *)
Notify(n, o) ==
    /\ stage[n] = "none" /\ payment[o] # None
    /\ started < MaxOps /\ started' = started + 1
    /\ stage' = [stage EXCEPT ![n] = "load"]
    /\ about' = [about EXCEPT ![n] = o]
    /\ UNCHANGED <<account, ledger, ghosts, tasks, mishaps, orders, gateway, credits>>

LoadOrder(n) ==
    /\ stage[n] = "load"
    /\ \/ Fine /\ order[about[n]] = "paid" /\ Answer(n, TRUE)
       \/ Fine /\ order[about[n]] = "pending" /\ GoOn(n, "check") /\ UNCHANGED acked
       \/ DbFails /\ Answer(n, FALSE)
    /\ UNCHANGED <<account, ledger, ghosts, tasks, orders, payment, credits>>

Settled(t, o) == \E p \in Orders \ {o} : trade[p] = t

(* The trade number must not belong to another order; an error counts as   *)
(* no such order.                                                          *)
CheckTrade(n) ==
    LET o == about[n] IN
    /\ stage[n] = "check"
    /\ \/ Fine /\ Settled(payment[o], o) /\ Answer(n, FALSE)
       \/ /\ (Fine /\ ~Settled(payment[o], o)) \/ DbFails
          /\ GoOn(n, "mark") /\ UNCHANGED acked
    /\ UNCHANGED <<account, ledger, ghosts, tasks, orders, payment, credits>>

(* Mutants of MarkPaid: without "AND status = 'pending'", without the      *)
(* unique index on trade_no, and without the credit that follows.          *)
MarkAgain(n) ==
    LET o == about[n] IN
    /\ stage[n] = "mark" /\ Fine /\ ~Settled(payment[o], o)
    /\ order' = [order EXCEPT ![o] = "paid"]
    /\ trade' = [trade EXCEPT ![o] = payment[o]]
    /\ GoOn(n, "credit") /\ Begin(n, "grant", Amount)
    /\ UNCHANGED <<account, ledger, ghosts, gateway, credits>>

MarkReused(n) ==
    LET o == about[n] IN
    /\ stage[n] = "mark" /\ Fine
    /\ \/ /\ order[o] = "pending"
          /\ order' = [order EXCEPT ![o] = "paid"]
          /\ trade' = [trade EXCEPT ![o] = payment[o]]
          /\ GoOn(n, "credit") /\ Begin(n, "grant", Amount)
          /\ UNCHANGED acked
       \/ order[o] # "pending" /\ Answer(n, TRUE) /\ UNCHANGED <<orders, tasks>>
    /\ UNCHANGED <<account, ledger, ghosts, payment, credits>>

MarkOnly(n) ==
    LET o == about[n] IN
    /\ stage[n] = "mark" /\ Fine /\ order[o] = "pending" /\ ~Settled(payment[o], o)
    /\ order' = [order EXCEPT ![o] = "paid"]
    /\ trade' = [trade EXCEPT ![o] = payment[o]]
    /\ Answer(n, TRUE)
    /\ UNCHANGED <<account, ledger, ghosts, tasks, payment, credits>>

(* UPDATE ... SET status = 'paid', trade_no WHERE status = 'pending'. No   *)
(* row, a breach of the unique index on trade_no and any other error are   *)
(* all answered with "success".                                            *)
MarkPaid(n) ==
    LET o == about[n] IN
    /\ stage[n] = "mark"
    /\ \/ /\ Fine /\ order[o] = "pending" /\ ~Settled(payment[o], o)
          /\ order' = [order EXCEPT ![o] = "paid"]
          /\ trade' = [trade EXCEPT ![o] = payment[o]]
          /\ GoOn(n, "credit") /\ Begin(n, "grant", Amount)
          /\ UNCHANGED acked
       \/ /\ (Fine /\ (order[o] # "pending" \/ Settled(payment[o], o))) \/ DbFails
          /\ Answer(n, TRUE)
          /\ UNCHANGED <<orders, tasks>>
    /\ UNCHANGED <<account, ledger, ghosts, payment, credits>>

(* grant is over, well or badly: the answer is "success" either way.       *)
Credited(n) ==
    /\ stage[n] = "credit" /\ pc[n] = "idle"
    /\ Answer(n, TRUE)
    /\ UNCHANGED <<quotaVars, orders, payment, credits>>

-----------------------------------------------------------------------------
(* A task of the account takes its step; the credit of an order counts.    *)
AccountStep(t) ==
    /\ EnsureStep(t) \/ ServeStep(t) \/ Charge(t) \/ Deduct(t) \/ Overwrite(t) \/ Book(t)
    /\ UNCHANGED orderVars

CreditAccount(t) ==
    /\ Credit(t)
    /\ credits' = IF t \in Notifiers /\ pc'[t] = "book"
                  THEN [credits EXCEPT ![about[t]] = @ + 1] ELSE credits
    /\ UNCHANGED <<orders, gateway, notices>>

(* The gateway closes the connection: the handler is dropped.              *)
DropNotice(n) ==
    /\ Mishap("disconnect")
    /\ stage[n] # "none"
    /\ Finish(n) /\ Close(n)
    /\ UNCHANGED <<account, ledger, ghosts, orders, gateway, credits>>

CrashAll ==
    /\ Crash
    /\ stage' = [n \in Notifiers |-> "none"]
    /\ about' = [n \in Notifiers |-> None]
    /\ UNCHANGED <<orders, gateway, credits>>

NoticeStep(n) == LoadOrder(n) \/ CheckTrade(n) \/ MarkPaid(n) \/ Credited(n)
RunStep(t) ==
    \/ AccountStep(t) \/ CreditAccount(t)
    \/ t \in Notifiers /\ NoticeStep(t)

RechargeNext ==
    \/ \E o \in Orders : CreateOrder(o) \/ Pay(o)
    \/ \E n \in Notifiers, o \in Orders : Notify(n, o)
    \/ \E t \in Tasks : RunStep(t)
    \/ \E t \in Tasks \ Notifiers : (Request(t) \/ Disconnect(t)) /\ UNCHANGED orderVars
    \/ \E n \in Notifiers : DropNotice(n)
    \/ CrashAll

RechargeSpec == RechargeInit /\ [][RechargeNext]_vars

(* Tokio runs every task that is ready.                                    *)
RechargeFairSpec == RechargeSpec /\ \A t \in Tasks : WF_vars(RunStep(t))

-----------------------------------------------------------------------------
(* Properties                                                              *)

(* However often and concurrently an order's payment is announced, the     *)
(* order is credited at most once (the conditional UPDATE).                *)
CreditedOnce == \A o \in Orders : credits[o] <= 1

(* One trade of the gateway pays for one order: the check before the       *)
(* UPDATE can be raced, the unique index of migration 0020 cannot.         *)
TradePaysOnce ==
    \A o, p \in Orders : order[o] = "paid" /\ trade[o] = trade[p] => o = p

(* A payment buys one credit: one per order, one order per trade           *)
(* (process_notify).                                                       *)
OneCreditPerTrade == CreditedOnce /\ TradePaysOnce

(* A paid order is credited in the end, unless the server dies or loses    *)
(* its database or its caller between the two statements.                  *)
PaidIsCredited ==
    \A o \in Orders : order[o] = "paid" ~> credits[o] = 1 \/ mishaps > 0

(* Once the gateway has been told "success" - and will not tell us again - *)
(* the order is paid (process_notify: "concurrent notify already handled   *)
(* it").                                                                   *)
SuccessMeansPaid == \A o \in acked : order[o] = "paid"
=============================================================================
