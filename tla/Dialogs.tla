-------------------------------- MODULE Dialogs --------------------------------
(***************************************************************************)
(* The questions a runtime asks and the clients that watch its session     *)
(* (agent_session.rs, agent_api.rs). A blocking question is kept as        *)
(* pending and broadcast; a client that subscribes later is shown what is  *)
(* pending; whoever answers first takes it, the runtime gets the answer    *)
(* and every client is told. A client that falls behind loses events.      *)
(***************************************************************************)
EXTENDS Integers, FiniteSets, Sequences, SequencesExt

CONSTANTS
    Questions,     \* blocking extension_ui_requests
    Clients,       \* each subscribes, and may answer
    Buffer,        \* EVENT_BUFFER
    MaxNoise,      \* other frames the runtime emits
    DialogFaults,  \* what can go wrong: "drop", "transport", "exit"
    MaxSlips       \* how many times something goes wrong

NoQuestion == "none"

ASSUME DialogAssumption ==
    /\ Buffer \in Nat \ {0} /\ {MaxNoise, MaxSlips} \subseteq Nat
    /\ NoQuestion \notin Questions

Event(k, q) == [kind |-> k, about |-> q]

VARIABLES
    stage,      \* what the pump did with a question: nothing, kept it, broadcast it
    pending,    \* LiveSession.approvals
    answers,    \* ghost: how many answers the runtime got
    watch,      \* a client's subscription
    queue,      \* what its receiver holds
    shown,      \* the questions it shows
    behind,     \* it was told to resync
    answering,  \* the question it is answering, how far it got
    ended,      \* the runtime ended
    spoiled,    \* ghost: questions taken by somebody who then failed
    noise, slips

dialogVars == <<stage, pending, answers, watch, queue, shown, behind, answering, ended, spoiled, noise, slips>>

Idle == [at |-> "idle", to |-> NoQuestion]
DialogTypeOK ==
    /\ stage \in [Questions -> {"no", "kept", "told"}] /\ pending \subseteq Questions
    /\ answers \in [Questions -> Nat]
    /\ watch \in [Clients -> {"off", "subscribed", "on", "closed"}]
    /\ \A c \in Clients : Len(queue[c]) <= Buffer
    /\ shown \in [Clients -> SUBSET Questions] /\ behind \in [Clients -> {"no", "lagged", "told"}]
    /\ answering \in [Clients -> [at : {"idle", "notify", "tell", "over"}, to : Questions \cup {NoQuestion}]]
    /\ ended \in BOOLEAN /\ spoiled \subseteq Questions
    /\ noise \in 0..MaxNoise /\ slips \in 0..MaxSlips

DialogInit ==
    /\ stage = [q \in Questions |-> "no"] /\ pending = {}
    /\ answers = [q \in Questions |-> 0]
    /\ watch = [c \in Clients |-> "off"] /\ queue = [c \in Clients |-> <<>>]
    /\ shown = [c \in Clients |-> {}] /\ behind = [c \in Clients |-> "no"]
    /\ answering = [c \in Clients |-> Idle]
    /\ ended = FALSE /\ spoiled = {} /\ noise = 0 /\ slips = 0

Slip(kind) == kind \in DialogFaults /\ slips < MaxSlips /\ slips' = slips + 1
NoSlip == UNCHANGED slips

(* broadcast::Sender::send: a receiver that is full loses its oldest event *)
(* and learns at its next recv that it did.                                *)
Broadcast(e) ==
    LET full == {c \in Clients : watch[c] \in {"subscribed", "on"} /\ Len(queue[c]) = Buffer} IN
    /\ queue' = [c \in Clients |->
                    IF watch[c] \notin {"subscribed", "on"} THEN queue[c]
                    ELSE Append(IF c \in full THEN Tail(queue[c]) ELSE queue[c], e)]
    /\ behind' = [c \in Clients |-> IF c \in full THEN "lagged" ELSE behind[c]]

-----------------------------------------------------------------------------
(* The frame pump                                                          *)

AskUser(q) ==
    /\ ~ended /\ stage[q] = "no" /\ stage' = [stage EXCEPT ![q] = "kept"]
    /\ pending' = pending \cup {q}
    /\ UNCHANGED <<answers, watch, queue, shown, behind, answering, ended, spoiled, noise>> /\ NoSlip
TellAll(q) ==
    /\ ~ended /\ stage[q] = "kept" /\ stage' = [stage EXCEPT ![q] = "told"]
    /\ Broadcast(Event("ask", q))
    /\ UNCHANGED <<pending, answers, watch, shown, answering, ended, spoiled, noise>> /\ NoSlip
EmitFrame ==
    /\ ~ended /\ noise < MaxNoise /\ noise' = noise + 1 /\ Broadcast(Event("frame", NoQuestion))
    /\ UNCHANGED <<stage, pending, answers, watch, shown, answering, ended, spoiled>> /\ NoSlip
RuntimeExits ==
    /\ ~ended /\ Slip("exit") /\ ended' = TRUE /\ Broadcast(Event("closed", NoQuestion))
    /\ UNCHANGED <<stage, pending, answers, watch, shown, answering, spoiled, noise>>

-----------------------------------------------------------------------------
(* session_events                                                          *)

OpenStream(c) ==
    /\ watch[c] = "off" /\ ~ended /\ watch' = [watch EXCEPT ![c] = "subscribed"]
    /\ UNCHANGED <<stage, pending, answers, queue, shown, behind, answering, ended, spoiled, noise>> /\ NoSlip
(* Mutant of Backlog: a stream starts with the events to come.             *)
BacklogNone == {}
(* pending_approvals                                                       *)
Backlog == pending
(* The stream starts with what was pending after it had subscribed.        *)
ReplayPending(c) ==
    /\ watch[c] = "subscribed" /\ watch' = [watch EXCEPT ![c] = "on"]
    /\ shown' = [shown EXCEPT ![c] = @ \cup Backlog]
    /\ UNCHANGED <<stage, pending, answers, queue, behind, answering, ended, spoiled, noise>> /\ NoSlip

(* recv: first that events were lost, then those that were not.            *)
HearLagged(c) ==
    /\ watch[c] = "on" /\ behind[c] = "lagged" /\ behind' = [behind EXCEPT ![c] = "told"]
    /\ UNCHANGED <<stage, pending, answers, watch, queue, shown, answering, ended, spoiled, noise>> /\ NoSlip
Hear(c) ==
    /\ watch[c] = "on" /\ behind[c] # "lagged" /\ queue[c] # <<>>
    /\ queue' = [queue EXCEPT ![c] = Tail(@)]
    /\ LET e == Head(queue[c]) IN
       /\ watch' = IF e.kind = "closed" THEN [watch EXCEPT ![c] = "closed"] ELSE watch
       /\ shown' = CASE e.kind = "ask" -> [shown EXCEPT ![c] = @ \cup {e.about}]
                     [] e.kind = "resolved" -> [shown EXCEPT ![c] = @ \ {e.about}]
                     [] OTHER -> shown
    /\ UNCHANGED <<stage, pending, answers, behind, answering, ended, spoiled, noise>> /\ NoSlip

-----------------------------------------------------------------------------
(* approve and resolve_approval                                            *)

(* Mutant of Take: the question stays pending until it is answered.        *)
TakeNothing(q) == UNCHANGED pending
Take(q) == pending' = pending \ {q}
(* Whoever removes the question may answer it; the others are told it is   *)
(* gone.                                                                   *)
Approve(c, q) ==
    /\ q \in shown[c] /\ q \in pending /\ answering[c].at \in {"idle", "over"}
    /\ Take(q) /\ answering' = [answering EXCEPT ![c] = [at |-> "notify", to |-> q]]
    /\ UNCHANGED <<stage, answers, watch, queue, shown, behind, ended, spoiled, noise>> /\ NoSlip
Leave(c) == answering' = [answering EXCEPT ![c] = [at |-> "over", to |-> NoQuestion]]
NotifyRuntime(c) ==
    LET q == answering[c].to IN
    /\ answering[c].at = "notify"
    /\ \/ /\ ~ended /\ answers' = [answers EXCEPT ![q] = @ + 1] /\ NoSlip
          /\ answering' = [answering EXCEPT ![c].at = "tell"] /\ UNCHANGED spoiled
       \/ /\ ended /\ NoSlip /\ Leave(c) /\ spoiled' = spoiled \cup {q} /\ UNCHANGED answers
       \/ /\ Slip("transport") /\ Leave(c) /\ spoiled' = spoiled \cup {q} /\ UNCHANGED answers
    /\ UNCHANGED <<stage, pending, watch, queue, shown, behind, ended, noise>>
TellResolved(c) ==
    /\ answering[c].at = "tell" /\ Leave(c) /\ Broadcast(Event("resolved", answering[c].to))
    /\ UNCHANGED <<stage, pending, answers, watch, shown, ended, spoiled, noise>> /\ NoSlip
(* The client hangs up while the answer is on its way to the runtime.      *)
DropApproval(c) ==
    /\ answering[c].at = "notify" /\ Slip("drop")
    /\ Leave(c) /\ spoiled' = spoiled \cup {answering[c].to}
    /\ UNCHANGED <<stage, pending, answers, watch, queue, shown, behind, ended, noise>>

DialogNext ==
    \/ \E q \in Questions : AskUser(q) \/ TellAll(q) \/ \E c \in Clients : Approve(c, q)
    \/ EmitFrame \/ RuntimeExits
    \/ \E c \in Clients : \/ OpenStream(c) \/ ReplayPending(c) \/ HearLagged(c) \/ Hear(c)
                          \/ NotifyRuntime(c) \/ TellResolved(c) \/ DropApproval(c)

DialogSpec == DialogInit /\ [][DialogNext]_dialogVars
-----------------------------------------------------------------------------
(* A question that waits is on the screen of every client that watches, or *)
(* on its way there, whenever the client subscribed; only a client that    *)
(* was told to resync may miss it (session_events subscribes before it     *)
(* reads what is pending).                                                 *)
EveryoneIsAsked ==
    \A q \in pending, c \in Clients :
        stage[q] = "told" /\ watch[c] = "on" /\ behind[c] = "no" =>
            q \in shown[c] \/ \E i \in DOMAIN queue[c] : queue[c][i] = Event("ask", q)

(* Two clients that answer at the same time give one answer: the runtime   *)
(* hears each question answered at most once, and one that no longer waits *)
(* was answered unless who took it failed on the way (resolve_approval).   *)
AnsweredOnce ==
    \A q \in Questions :
        /\ answers[q] <= 1
        /\ stage[q] # "no" /\ q \notin pending \cup spoiled /\ (\A c \in Clients : answering[c].to # q)
               => answers[q] = 1

(* Every question is asked of everyone and answered by one.                *)
AskedAndAnswered == EveryoneIsAsked /\ AnsweredOnce
=============================================================================
