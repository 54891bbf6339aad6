------------------------------ MODULE ChatStream ------------------------------
(***************************************************************************)
(* A chat through the proxy (main.rs, usage.rs): the channels of its chain *)
(* are tried in turn, the first answer is streamed to the client, and the  *)
(* tokens its frames report are charged when the stream is dropped. A      *)
(* response is a sequence of units and arrives in chunks cut anywhere: a   *)
(* character may be cut in two, and so may a frame that reports usage.     *)
(***************************************************************************)
EXTENDS Integers, FiniteSets, Sequences, FiniteSetsExt

CONSTANTS
    Chats,
    Body,          \* what the upstream sends a chat
    MaxPending,    \* MAX_PENDING, in units
    ChainLength,   \* how many channels are in the chain
    StreamFaults,  \* what can go wrong: "client", "upstream", "crash", "db"
    MaxTroubles,   \* how many times something goes wrong
    MaxFlips       \* how many times an administrator opens or closes the model

Tokens == [input : Nat, output : Nat]
NoTokens == [input |-> 0, output |-> 0]
(* "lead" and "trail" are the two halves of a character, "open" and        *)
(* "close" those of a data line that reports use, "blank" ends a frame.    *)
Units == [kind : {"text", "lead", "trail", "open", "close", "blank"}, use : Tokens]

ASSUME ChatAssumption ==
    /\ Body \in [Chats -> Seq(Units)]
    /\ {MaxPending, ChainLength, MaxTroubles, MaxFlips} \subseteq Nat

VARIABLES
    talk,     \* where a chat stands
    left,     \* channels not tried yet
    sent,     \* units received, and forwarded
    from,     \* pending: the units after this one
    usage,    \* accumulator
    bill,     \* what the user was charged for
    lost,     \* ghost: why a chat may be charged for less
    sold,     \* model_pricing.enabled
    troubles, flips

chatVars == <<talk, left, sent, from, usage, bill, lost, sold, troubles, flips>>

Reasons == {"split", "big", "closed", "db", "crash"}
ChatTypeOK ==
    /\ talk \in [Chats -> {"idle", "authorize", "try", "stream", "settle", "over"}]
    /\ left \in [Chats -> 0..ChainLength]
    /\ \A c \in Chats : sent[c] \in 0..Len(Body[c]) /\ from[c] \in 0..sent[c]
    /\ usage \in [Chats -> Tokens] /\ bill \in [Chats -> Tokens]
    /\ lost \in [Chats -> SUBSET Reasons] /\ sold \in BOOLEAN
    /\ troubles \in 0..MaxTroubles /\ flips \in 0..MaxFlips

ChatInit ==
    /\ talk = [c \in Chats |-> "idle"] /\ left = [c \in Chats |-> ChainLength]
    /\ sent = [c \in Chats |-> 0] /\ from = [c \in Chats |-> 0]
    /\ usage = [c \in Chats |-> NoTokens] /\ bill = [c \in Chats |-> NoTokens]
    /\ lost = [c \in Chats |-> {}] /\ sold \in BOOLEAN
    /\ troubles = 0 /\ flips = 0

Trouble(kind) ==
    /\ kind \in StreamFaults /\ troubles < MaxTroubles /\ troubles' = troubles + 1
    /\ UNCHANGED flips
Smooth == UNCHANGED <<troubles, flips>>
Moves(c, label) == talk' = [talk EXCEPT ![c] = label]
Unread == UNCHANGED <<sent, from, usage>>
Loses(c, why) == lost' = [lost EXCEPT ![c] = @ \cup why]

-----------------------------------------------------------------------------
(* proxy_forward                                                           *)

(* Without an account only a key of one's own helps, and what it pays for  *)
(* passes through unmetered (send_chat_once).                              *)
Arrive(c) ==
    /\ talk[c] = "idle" /\ \E door \in {"authorize", "over"} : Moves(c, door)
    /\ Unread /\ UNCHANGED <<left, bill, lost, sold>> /\ Smooth
(* authorize_chat: on sale, and the account not overdrawn.                 *)
Authorize(c) ==
    /\ talk[c] = "authorize"
    /\ \/ sold /\ Moves(c, "try")
       \/ Moves(c, "over")
    /\ Unread /\ UNCHANGED <<left, bill, lost, sold>> /\ Smooth
(* A channel that cannot be reached or answers with an error is followed   *)
(* by the next one; after the last nothing was charged.                    *)
Attempt(c) ==
    /\ talk[c] = "try" /\ left[c] > 0 /\ left' = [left EXCEPT ![c] = @ - 1]
    /\ \/ Moves(c, "stream")
       \/ Moves(c, IF left[c] = 1 THEN "over" ELSE "try")
    /\ Unread /\ UNCHANGED <<bill, lost, sold>> /\ Smooth

-----------------------------------------------------------------------------
(* MeteredStream and UsageAccumulator                                      *)

(* ingest_sse_chunk on the units i..j: the data lines that are whole.      *)
Reported(c, i, j) ==
    {Body[c][k].use : k \in {k \in i..(j - 1) : Body[c][k].kind = "open" /\ Body[c][k + 1].kind = "close"}}

(* Mutant of Merge: the last report is all there is.                       *)
MergeLast(u, S) == IF S = {} THEN u ELSE CHOOSE r \in S : \A s \in S : s.output <= r.output
(* merge: the largest value of each counter.                               *)
Merge(u, S) == [input |-> Max({r.input : r \in S \cup {u}}),
                output |-> Max({r.output : r \in S \cup {u}})]

Ingest(c, i, j) == usage' = [usage EXCEPT ![c] = Merge(@, Reported(c, i, j))]

(* The chunk i..j starts or ends inside a character: it is not UTF-8.      *)
Cut(c, i, j) == Body[c][i].kind = "trail" \/ Body[c][j].kind = "lead"
(* Some part of a report is among the units i..j.                          *)
Matters(c, i, j) == \E k \in i..j : Body[c][k].kind \in {"open", "close"}

(* Mutant of LastBlank: a chunk is parsed as it comes.                     *)
LastBlankEager(c, i, j) == j
(* Frames are complete up to the last blank line.                          *)
LastBlank(c, i, j) == Max({k \in i..j : Body[c][k].kind = "blank"} \cup {i - 1})

(* observe: the next n units.                                              *)
Chunk(c, n) ==
    LET i == from[c] + 1
        j == sent[c] + n
        kept == LastBlank(c, i, j) IN
    /\ talk[c] = "stream" /\ j <= Len(Body[c]) /\ sent' = [sent EXCEPT ![c] = j]
    /\ \/ /\ Cut(c, sent[c] + 1, j)
          /\ from' = [from EXCEPT ![c] = j] /\ UNCHANGED usage
          /\ Loses(c, IF Matters(c, i, j) THEN {"split"} ELSE {})
       \/ /\ ~Cut(c, sent[c] + 1, j) /\ Ingest(c, i, kept)
          /\ from' = [from EXCEPT ![c] = IF j - kept > MaxPending THEN j ELSE kept]
          /\ Loses(c, IF j - kept > MaxPending /\ Matters(c, kept + 1, j) THEN {"big"} ELSE {})
    /\ UNCHANGED <<talk, left, bill, sold>> /\ Smooth

(* Mutant of StreamEnds: what is pending is dropped with the stream.       *)
StreamEndsUnflushed(c) ==
    /\ talk[c] = "stream"
    /\ \/ sent[c] = Len(Body[c]) /\ Smooth
       \/ Trouble("client") \/ Trouble("upstream")
    /\ UNCHANGED usage /\ Moves(c, IF usage'[c] = NoTokens THEN "over" ELSE "settle")
    /\ UNCHANGED <<left, sent, from, bill, lost, sold>>
(* The end of the body, an error in it or a client gone away: the stream   *)
(* is dropped, what is pending parsed, and a settlement spawned.           *)
StreamEnds(c) ==
    /\ talk[c] = "stream"
    /\ \/ sent[c] = Len(Body[c]) /\ Smooth
       \/ Trouble("client") \/ Trouble("upstream")
    /\ Ingest(c, from[c] + 1, sent[c])
    /\ Moves(c, IF usage'[c] = NoTokens THEN "over" ELSE "settle")
    /\ UNCHANGED <<left, sent, from, bill, lost, sold>>

(* settle_chat: at the price of now; a model closed meanwhile is free.     *)
Settle(c) ==
    /\ talk[c] = "settle" /\ Moves(c, "over")
    /\ \/ sold /\ Smooth /\ bill' = [bill EXCEPT ![c] = usage[c]] /\ UNCHANGED lost
       \/ ~sold /\ Smooth /\ Loses(c, {"closed"}) /\ UNCHANGED bill
       \/ Trouble("db") /\ Loses(c, {"db"}) /\ UNCHANGED bill
    /\ Unread /\ UNCHANGED <<left, sold>>

-----------------------------------------------------------------------------
(* upsert_price by an administrator.                                       *)
OpenOrClose ==
    /\ flips < MaxFlips /\ flips' = flips + 1 /\ sold' = ~sold
    /\ Unread /\ UNCHANGED <<talk, left, bill, lost, troubles>>

(* The process dies: streams and settlements with it.                      *)
ChatCrash ==
    /\ Trouble("crash")
    /\ talk' = [c \in Chats |-> IF talk[c] = "idle" THEN "idle" ELSE "over"]
    /\ lost' = [c \in Chats |-> IF talk[c] \in {"stream", "settle"} THEN lost[c] \cup {"crash"} ELSE lost[c]]
    /\ Unread /\ UNCHANGED <<left, bill, sold>>

ChatNext ==
    \/ \E c \in Chats : Arrive(c) \/ Authorize(c) \/ Attempt(c) \/ StreamEnds(c) \/ Settle(c)
    \/ \E c \in Chats, n \in 1..MaxPending : Chunk(c, n)
    \/ OpenOrClose \/ ChatCrash

ChatSpec == ChatInit /\ [][ChatNext]_chatVars
-----------------------------------------------------------------------------
(* Wherever the chunks are cut and however the stream ends, a chat that is *)
(* over was charged for exactly what the frames forwarded to the client    *)
(* reported - the largest value of each counter - or there is a reason:    *)
(* a character cut in two took a report with it, a frame was too big, the  *)
(* model was closed, the database failed or the server died; and it is     *)
(* never charged for more (MeteredStream, UsageAccumulator, settle_chat).  *)
Owed(c) == Merge(NoTokens, Reported(c, 1, sent[c]))
UsageIsCharged ==
    \A c \in Chats :
        /\ bill[c].input <= Owed(c).input /\ bill[c].output <= Owed(c).output
        /\ talk[c] = "over" /\ lost[c] = {} => bill[c] = Owed(c)
=============================================================================
