---------------------------- MODULE MCConversation ----------------------------
(* A conversation, part by part: the channels that are routed to, the      *)
(* stream of an answer, the turns of an agent session and the questions it *)
(* asks.  They share no variable, so one moves and the others rest; the    *)
(* channels move a company at a time: its requests, on its channels, and   *)
(* so many edits.  That keeps two routers on one channel, one on two       *)
(* channels, and a router, a pruner or an import among edits small enough. *)
EXTENDS Channels, ChatStream, Turns, Dialogs, TLC
CONSTANTS k1, k2, m1, a1, r1, r2, p1, s1, ch1, ch2, q1, q2
VARIABLE part

OneTier == 1 :> 1 @@ 2 :> 1
Wires == k1 :> "openai" @@ k2 :> "openai"
WireM == m1 :> "openai"
RouteM == r1 :> m1 @@ r2 :> m1

(* Two responses: one reports its usage twice (Anthropic), one once, after *)
(* a long frame.                                                           *)
Unit(k) == [kind |-> k, use |-> NoTokens]
Opens(i, o) == [kind |-> "open", use |-> [input |-> i, output |-> o]]
TwoReports == <<Opens(3, 1), Unit("close"), Unit("blank"), Unit("lead"), Unit("trail"),
                Unit("blank"), Opens(0, 5), Unit("close")>>
OneReport == <<Unit("text"), Unit("text"), Unit("text"), Opens(2, 2), Unit("close"), Unit("blank"), Unit("text")>>
Bodies == ch1 :> TwoReports @@ ch2 :> OneReport

Company(who, has, most) == [who |-> who, has |-> has, most |-> most]
Companies == {Company({r1, r2}, {1}, 1), Company({s1, p1}, {1}, 1), Company({r1}, {1, 2}, 1),
              Company({p1}, {1, 2}, 0), Company({r1}, {1}, 2), Company({s1}, {1}, 2), Company({}, {1, 2}, 2)}
Nobody == Company({}, {}, 0)
Parts == [of : {"channels"}, team : Companies] \cup [of : {"stream", "turns", "dialogs"}, team : {Nobody}]

conversationVars == <<part, channelsVars, chatVars, turnVars, dialogVars>>

ConversationInit ==
    /\ part \in Parts /\ ChannelsInit /\ ChatInit /\ TurnsInit /\ DialogInit
    /\ there = part.team.has /\ \A c \in Channels : conn[c] = k1
    /\ part.of # "channels" => offers[k1] = Models
    /\ part.of # "stream" => sold
    /\ part.of = "turns" => what[q1] = "prompt" /\ (what[q2] = "abort") = cascade
    /\ part.of # "turns" => cascade /\ \A q \in Calls : what[q] = "prompt"

Within(t) ==
    /\ there' \subseteq t.has /\ edits' <= t.most
    /\ \A r \in Readers \ t.who : at'[r] = "idle"
    /\ \A s \in Syncs \ t.who : sync'[s] = "idle"
(* Mirror tasks are alike: the second waits for the first to start.        *)
InTurn == pass'[s1] # "idle" => pass'[p1] # "idle"
ConversationNext ==
    /\ UNCHANGED part
    /\ \/ part.of = "channels" /\ ChannelsNext /\ Within(part.team) /\ UNCHANGED <<chatVars, turnVars, dialogVars>>
       \/ part.of = "stream" /\ ChatNext /\ UNCHANGED <<channelsVars, turnVars, dialogVars>>
       \/ part.of = "turns" /\ TurnsNext /\ InTurn /\ UNCHANGED <<channelsVars, chatVars, dialogVars>>
       \/ part.of = "dialogs" /\ DialogNext /\ UNCHANGED <<channelsVars, chatVars, turnVars>>
ConversationSpec == ConversationInit /\ [][ConversationNext]_conversationVars
=============================================================================
