--------------------------- MODULE DevicesProofs ----------------------------
(***************************************************************************)
(* Computers as targets, for any number of machines, sockets and runtimes  *)
(* and whatever breaks: what is listed is served, the cap and its          *)
(* exceptions, when a stored credential is forgotten, and that sessions    *)
(* and runtimes match. The invariant DevInv has a part for the rows, one   *)
(* for the sockets, one for the messages under way, one for the managers   *)
(* of a machine's connections, what they start and what they host, and one *)
(* for who answers for a session.                                          *)
(***************************************************************************)
EXTENDS Devices, FiniteSetTheorems, SequenceTheorems, TLAPS

(* What is past bind_device, and what HelloOk has gone out of.             *)
Past == {"list", "ok", "frames", "open", "clear", "unlist", "over"}

(* A connector that reads has a socket of its own, whose task has not      *)
(* seen it leave; who signs in shows no token.                             *)
Attached ==
    /\ \A m \in Machines : client[m] = "reading" <=> link[m] # Nothing
    /\ \A m \in Machines : link[m] # Nothing =>
          Of[link[m]] = m /\ at[link[m]] \notin {"unused", "clear", "unlist"}
    /\ \A c \in Sockets : at[c] \in {"bind", "count", "insert"} => shown[c] = Nothing

(* A socket that is let in and not listed yet was, if its row is revoked,  *)
(* let in before.                                                          *)
RaceSeen == \A c \in Sockets : at[c] = "list" /\ row[Of[c]] = "revoked" => c \in raced

(* A row's token is that of a socket that has bound it.                    *)
Rows ==
    \A m \in Machines :
        /\ row[m] # "none" => rowToken[m] # Nothing
        /\ rowToken[m] # Nothing => Of[rowToken[m]] = m /\ at[rowToken[m]] \in Past

(* A token on its way or on a disk is that of a socket that has bound.     *)
GivenIn(q, c) ==
    \A i \in 1..Len(q) : q[i].is = "ok" /\ q[i].token # Nothing =>
        q[i].token = c /\ shown[c] = Nothing /\ at[c] \in Past
Given ==
    /\ \A c \in Sockets : GivenIn(down[c], c)
    /\ \A m \in Machines : disk[m] # Nothing => at[disk[m]] \in Past

(* Whoever was refused for the token that is stored was refused rightly.   *)
Lost(m) == dbMissed \/ row[m] # "live" \/ rowToken[m] # disk[m]
Refused ==
    \A m \in Machines :
        (link[m] # Nothing /\ at[link[m]] = "over" /\ disk[m] # Nothing /\ shown[link[m]] = disk[m]) => Lost(m)

(* A start is sent to the machine it is asked of.                          *)
OwnIn(q, c) == \A i \in 1..Len(q) : q[i].is = "start" => RunOf[q[i].run] = Of[c]
Own ==
    /\ \A r \in Runs : hold[r] # Nothing => Of[hold[r]] = RunOf[r]
    /\ \A c \in Sockets : OwnIn(down[c], c)

(* A start is read once, where it was sent, and its runtime is none yet.   *)
OnceIn(q) == \A i, j \in 1..Len(q) :
    q[i].is = "start" /\ q[j].is = "start" /\ q[i].run = q[j].run => i = j
WaitsAt(e, c) == e.is = "start" =>
    reader[e.run] = "none" /\ starter[e.run] \in {"sent", "done"} /\ hold[e.run] = c
Asked ==
    /\ \A c \in Sockets : OnceIn(down[c]) /\ \A i \in 1..Len(down[c]) : WaitsAt(down[c][i], c)
    /\ \A r \in Runs : reader[r] # "none" => starter[r] \in {"sent", "done"}

(* A manager has a socket's name, the one of a machine is not one that is  *)
(* being emptied, and a socket that was not dialled names nothing.         *)
Managed ==
    /\ \A m \in Machines : manager[m] # Nothing => Of[manager[m]] = m /\ manager[m] \notin leaving
    /\ \A m \in Machines : client[m] \in {"reading", "retire"} => manager[m] # Nothing
    /\ \A r \in Runs : born[r] # Nothing => Of[born[r]] = RunOf[r]
Unnamed ==
    \A c \in Sockets : at[c] = "unused" =>
        /\ hosted[c] = Nothing /\ c \notin leaving
        /\ \A m \in Machines : manager[m] # c
        /\ \A r \in Runs : born[r] # c /\ from[r] # c

(* A manager that starts a runtime hosts none and starts no other; the     *)
(* loop that waits for it is connected where the start was read.           *)
Begun ==
    /\ \A r \in Runs : reader[r] = "begin" => born[r] # Nothing /\ hosted[born[r]] = Nothing
    /\ \A q, r \in Runs : reader[q] = "begin" /\ reader[r] = "begin" /\ born[q] = born[r] => q = r
    /\ \A r \in Runs : reader[r] = "begin" /\ Current(r) =>
          client[RunOf[r]] = "reading" /\ from[r] = link[RunOf[r]]

(* What runs is hosted by its manager, which is the machine's, or one that *)
(* is being emptied, or was emptied too early.                             *)
Hosts ==
    /\ \A r \in alive : born[r] # Nothing /\ hosted[born[r]] = r
    /\ \A r \in alive : Current(r) \/ born[r] \in leaving \/ r \in orphans
    /\ \A m \in Machines : client[m] \in {"choose", "typed", "asks", "off"} => Hosted(m) = Nothing
    /\ \A g \in Sockets : hosted[g] # Nothing => born[hosted[g]] = g /\ reader[hosted[g]] = "read"

(* What a machine hosts while it is connected was started on that socket;  *)
(* a runtime reports on a socket of its own, and while that one is open    *)
(* its manager is the machine's.                                           *)
ServingAt(m) == Hosted(m) # Nothing /\ link[m] # Nothing => from[Hosted(m)] = link[m]
Serving ==
    /\ \A m \in Machines : ServingAt(m)
    /\ \A r \in Runs : from[r] # Nothing =>
          Of[from[r]] = RunOf[r] /\ (link[RunOf[r]] = from[r] => Current(r))

(* A runtime that is routed was asked for on its socket, and somebody will *)
(* answer there: a start that is under way, a notice, or a runtime whose   *)
(* end is told on that socket.                                             *)
Starting(c) == \E i \in 1..Len(down[c]) : down[c][i].is = "start"
Answering(c) == upward[c] # <<>> \/ \E q \in Runs : from[q] = c /\ reader[q] \in {"begin", "read", "tell"}
RoutedAt(c) ==
    route[c] # Nothing =>
        /\ at[c] \in {"open", "clear"} /\ starter[route[c]] \in {"routed", "sent", "done"}
        /\ route[c] \notin strayed =>
              /\ hold[route[c]] = c
              /\ starter[route[c]] # "routed" /\ Linked(c) => Starting(c) \/ Answering(c)
Routed == \A c \in Sockets : RoutedAt(c)

(* A pump runs from the end of its start.                                  *)
Pumping == \A r \in pumps : starter[r] = "done"

(* The cap: what is beyond it is explained, and what is not is counted.    *)
LiveMachines == {m \in Machines : row[m] = "live"}
Excused(m) ==
    \/ rowToken[m] # Nothing /\ since[rowToken[m]]
    \/ \E c \in Sockets : Of[c] = m /\ c # rowToken[m] /\ at[c] \in Past
InTime == \A c \in Sockets : at[c] = "insert" => since[c] \/ LiveRows < Cap
Counted ==
    /\ over \subseteq LiveMachines /\ InTime
    /\ \A m \in over : Excused(m)
    /\ others + Cardinality(LiveMachines \ over) <= Cap

LEMMA UpdateType ==
    ASSUME NEW D, NEW S, NEW f \in [D -> S], NEW x, NEW v, x \in D => v \in S
    PROVE  [f EXCEPT ![x] = v] \in [D -> S]
OBVIOUS

LEMMA PostedType ==
    ASSUME down \in [Sockets -> Seq(Messages)], NEW c, NEW msg \in Messages
    PROVE  Posted(c, msg) \in [Sockets -> Seq(Messages)]
<1> DEFINE v == IF Linked(c) /\ at[c] # "over" THEN Append(down[c], msg) ELSE down[c]
<1>1. c \in Sockets => v \in Seq(Messages)
  <2>1. c \in Sockets => down[c] \in Seq(Messages)
    OBVIOUS
  <2> QED BY <2>1, AppendProperties, Zenon
<1> HIDE DEF v
<1>2. [down EXCEPT ![c] = v] \in [Sockets -> Seq(Messages)]
  BY <1>1, UpdateType, Zenon
<1> QED BY <1>2 DEF Posted, v

LEMMA MessageTypes ==
    /\ [is |-> "error"] \in Messages /\ [is |-> "stop"] \in Messages
    /\ \A r \in Runs : [is |-> "start", run |-> r] \in Messages
    /\ \A t \in OrNothing(Sockets) : [is |-> "ok", token |-> t] \in Messages
BY DEF Messages

(* The server's variables and the client's.                                *)
ServerTypes ==
    /\ row \in [Machines -> {"none", "live", "revoked"}] /\ rowToken \in [Machines -> OrNothing(Sockets)]
    /\ others \in 0..Others
    /\ at \in [Sockets -> ServerSide] /\ shown \in [Sockets -> OrNothing(Sockets)]
    /\ since \in [Sockets -> BOOLEAN] /\ raced \subseteq Sockets /\ over \subseteq Machines
    /\ registry \in [Machines -> OrNothing(Sockets)] /\ frames \in [Machines -> OrNothing(Sockets)]
    /\ route \in [Sockets -> OrNothing(Runs)]
    /\ down \in [Sockets -> Seq(Messages)] /\ upward \in [Sockets -> Seq(Runs)]
    /\ starter \in [Runs -> {"idle", "held", "routed", "sent", "done"}]
    /\ hold \in [Runs -> OrNothing(Sockets)] /\ served \in [Machines -> OrNothing(Runs)]
    /\ pumps \subseteq Runs /\ strayed \subseteq Runs
    /\ unrouting \in [Machines -> BOOLEAN] /\ revoking \in [Machines -> BOOLEAN]
    /\ events \in 0..Events /\ dbMissed \in BOOLEAN
ConnectorTypes ==
    /\ client \in [Machines -> ClientSide] /\ link \in [Machines -> OrNothing(Sockets)]
    /\ mem \in [Machines -> OrNothing(Sockets)] /\ disk \in [Machines -> OrNothing(Sockets)]
    /\ fresh \in [Machines -> OrNothing(Sockets)] /\ manager \in [Machines -> OrNothing(Sockets)]
    /\ leaving \subseteq Sockets
RuntimeTypes ==
    /\ hosted \in [Sockets -> OrNothing(Runs)] /\ alive \subseteq Runs /\ orphans \subseteq Runs
    /\ reader \in [Runs -> {"none", "begin", "read", "tell", "over"}]
    /\ from \in [Runs -> OrNothing(Sockets)] /\ born \in [Runs -> OrNothing(Sockets)]

LEMMA TypeParts == DevicesTypeOK <=> ServerTypes /\ ConnectorTypes /\ RuntimeTypes
<1>1. ASSUME DevicesTypeOK PROVE ServerTypes /\ ConnectorTypes /\ RuntimeTypes
  BY ONLY <1>1, Zenon DEF DevicesTypeOK, ServerTypes, ConnectorTypes, RuntimeTypes
<1>2. ASSUME ServerTypes, ConnectorTypes, RuntimeTypes PROVE DevicesTypeOK
  BY ONLY <1>2, Zenon DEF DevicesTypeOK, ServerTypes, ConnectorTypes, RuntimeTypes
<1> QED BY <1>1, <1>2

LEMMA DevicesInitType == DevicesInit => DevicesTypeOK
<1> SUFFICES ASSUME DevicesInit PROVE DevicesTypeOK
  OBVIOUS
<1> USE DevicesAssumption DEF DevicesInit, OrNothing, ServerSide, ClientSide
<1>1. row \in [Machines -> {"none", "live", "revoked"}] /\ rowToken \in [Machines -> Sockets \cup {Nothing}]
  OBVIOUS
<1>2. others \in 0..Others /\ events \in 0..Events /\ dbMissed \in BOOLEAN
  <2>1. others \in 0..Others
    OBVIOUS
  <2>2. events \in 0..Events
    <3>1. events = 0 /\ Events \in Nat
      OBVIOUS
    <3> QED BY <3>1
  <2>3. dbMissed \in BOOLEAN
    OBVIOUS
  <2> QED BY <2>1, <2>2, <2>3
<1>3. at \in [Sockets -> ServerSide] /\ shown \in [Sockets -> OrNothing(Sockets)]
  OBVIOUS
<1>4. since \in [Sockets -> BOOLEAN] /\ raced \subseteq Sockets /\ over \subseteq Machines
  OBVIOUS
<1>5. registry \in [Machines -> OrNothing(Sockets)] /\ frames \in [Machines -> OrNothing(Sockets)]
  OBVIOUS
<1>6. route \in [Sockets -> OrNothing(Runs)]
  OBVIOUS
<1>7. down \in [Sockets -> Seq(Messages)]
  OBVIOUS
<1>8. upward \in [Sockets -> Seq(Runs)]
  OBVIOUS
<1>9. starter \in [Runs -> {"idle", "held", "routed", "sent", "done"}] /\ hold \in [Runs -> OrNothing(Sockets)]
  OBVIOUS
<1>10. served \in [Machines -> OrNothing(Runs)] /\ pumps \subseteq Runs /\ strayed \subseteq Runs
  OBVIOUS
<1>11. unrouting \in [Machines -> BOOLEAN] /\ revoking \in [Machines -> BOOLEAN]
  OBVIOUS
<1>12. client \in [Machines -> ClientSide] /\ link \in [Machines -> OrNothing(Sockets)]
  OBVIOUS
<1>13. mem \in [Machines -> OrNothing(Sockets)] /\ disk \in [Machines -> OrNothing(Sockets)]
  OBVIOUS
<1>14. fresh \in [Machines -> OrNothing(Sockets)] /\ manager \in [Machines -> OrNothing(Sockets)] /\ leaving \subseteq Sockets
  OBVIOUS
<1>15. hosted \in [Sockets -> OrNothing(Runs)] /\ alive \subseteq Runs /\ orphans \subseteq Runs
  OBVIOUS
<1>16. /\ reader \in [Runs -> {"none", "begin", "read", "tell", "over"}]
       /\ from \in [Runs -> OrNothing(Sockets)] /\ born \in [Runs -> OrNothing(Sockets)]
  OBVIOUS
<1> QED BY <1>1, <1>2, <1>3, <1>4, <1>5, <1>6, <1>7, <1>8, <1>9, <1>10,
        <1>11, <1>12, <1>13, <1>14, <1>15, <1>16, Zenon DEF DevicesTypeOK

LEMMA NotifyType ==
    ASSUME DevicesTypeOK, NEW r \in Runs, Notify(r)
    PROVE  upward' \in [Sockets -> Seq(Runs)]
<1>1. \A d \in Sockets : upward[d] \in Seq(Runs) /\ Append(upward[d], r) \in Seq(Runs)
  BY AppendProperties DEF DevicesTypeOK
<1>2. [upward EXCEPT ![from[r]] = Append(upward[from[r]], r)] \in [Sockets -> Seq(Runs)]
  BY <1>1, UpdateType, Zenon DEF DevicesTypeOK
<1> QED BY <1>2, Zenon DEF Notify, DevicesTypeOK

LEMMA ServerTypesStep ==
    ASSUME DevicesTypeOK, Attached, [DevicesNext]_devicesVars
    PROVE  ServerTypes'
<1> DEFINE Same == UNCHANGED <<table, socket, lists, wires, sessions, revoking, counts>>
<1>a. ServerTypes
  BY TypeParts
<1>0. ASSUME Same PROVE ServerTypes'
  <2>1. UNCHANGED <<row, rowToken, others, at, shown, since, raced, over, registry, frames, route, down, upward>>
    BY <1>0 DEF table, socket, lists, wires
  <2>2. UNCHANGED <<starter, hold, served, pumps, strayed, unrouting, revoking, events, dbMissed>>
    BY <1>0 DEF sessions, counts
  <2> QED BY ONLY <1>a, <2>1, <2>2, Zenon DEF ServerTypes
<1> USE DevicesAssumption DEF DevicesTypeOK, OrNothing, ServerSide, ClientSide,
       table, socket, lists, wires, sessions, connector, runtimesOf,
       counts
<1> USE DEF ServerTypes
<1>1. ASSUME NEW c \in Sockets, Hello(c) PROVE ServerTypes'
  BY <1>1, PostedType, MessageTypes DEF Hello, Refuse, SocketAt, Posted, Miss, Happens, Linked, Well
<1>2. ASSUME NEW c \in Sockets, SignIn(c) PROVE ServerTypes'
  BY <1>2, PostedType, MessageTypes DEF SignIn, Refuse, SocketAt, Posted, Miss, Happens, Linked, Well
<1>3. ASSUME NEW c \in Sockets, FindRow(c) PROVE ServerTypes'
  BY <1>3, PostedType, MessageTypes DEF FindRow, BecomesLive, Refuse, SocketAt, Posted, Miss, Happens,
      Linked, Well
<1>4. ASSUME NEW c \in Sockets, CountRows(c) PROVE ServerTypes'
  BY <1>4, PostedType, MessageTypes DEF CountRows, Refuse, SocketAt, Posted, Miss, Happens, Linked, Well
<1>5. ASSUME NEW c \in Sockets, InsertRow(c) PROVE ServerTypes'
  BY <1>5, PostedType, MessageTypes DEF InsertRow, BecomesLive, Refuse, SocketAt, Posted, Miss, Happens,
      Linked, Well
<1>6. ASSUME NEW c \in Sockets, List(c) PROVE ServerTypes'
  BY <1>6, PostedType, MessageTypes DEF List, SocketAt, Well
<1>7. ASSUME NEW c \in Sockets, SayOk(c) PROVE ServerTypes'
  <2>1. row' \in [Machines -> {"none", "live", "revoked"}] /\ rowToken' \in [Machines -> Sockets \cup {Nothing}]
    BY <1>7, PostedType, MessageTypes DEF SayOk, SocketAt, Well
  <2>2. others' \in 0..Others /\ events' \in 0..Events /\ dbMissed' \in BOOLEAN
    BY <1>7, PostedType, MessageTypes DEF SayOk, SocketAt, Well
  <2>3. at' \in [Sockets -> ServerSide] /\ shown' \in [Sockets -> OrNothing(Sockets)]
    BY <1>7, PostedType, MessageTypes DEF SayOk, SocketAt, Well
  <2>4. since' \in [Sockets -> BOOLEAN] /\ raced' \subseteq Sockets /\ over' \subseteq Machines
    BY <1>7, PostedType, MessageTypes DEF SayOk, SocketAt, Well
  <2>5. registry' \in [Machines -> OrNothing(Sockets)] /\ frames' \in [Machines -> OrNothing(Sockets)]
    BY <1>7, PostedType, MessageTypes, ZenonT(20) DEF SayOk, SocketAt, Well
  <2>6. route' \in [Sockets -> OrNothing(Runs)]
    BY <1>7, PostedType, MessageTypes DEF SayOk, SocketAt, Well
  <2>7. down' \in [Sockets -> Seq(Messages)]
    <3> DEFINE ok == [is |-> "ok", token |-> IF shown[c] = Nothing THEN c ELSE Nothing]
    <3>1. ok \in Messages
      BY MessageTypes
    <3>2. <<ok>> \in Seq(Messages) /\ down[c] \in Seq(Messages)
      BY <3>1
    <3>3. <<ok>> \o down[c] \in Seq(Messages)
      BY <3>2, ConcatProperties
    <3>4. [down EXCEPT ![c] = <<ok>> \o down[c]] \in [Sockets -> Seq(Messages)]
      BY <3>3, UpdateType, Zenon
    <3> QED BY <1>7, <3>4 DEF SayOk
  <2>8. upward' \in [Sockets -> Seq(Runs)]
    BY <1>7, PostedType, MessageTypes DEF SayOk, SocketAt, Well
  <2>9. starter' \in [Runs -> {"idle", "held", "routed", "sent", "done"}] /\ hold' \in [Runs -> OrNothing(Sockets)]
    BY <1>7, PostedType, MessageTypes DEF SayOk, SocketAt, Well
  <2>10. served' \in [Machines -> OrNothing(Runs)] /\ pumps' \subseteq Runs /\ strayed' \subseteq Runs
    BY <1>7, PostedType, MessageTypes DEF SayOk, SocketAt, Well
  <2>11. unrouting' \in [Machines -> BOOLEAN] /\ revoking' \in [Machines -> BOOLEAN]
    BY <1>7, PostedType, MessageTypes DEF SayOk, SocketAt, Well
  <2> QED BY <2>1, <2>2, <2>3, <2>4, <2>5, <2>6, <2>7, <2>8, <2>9, <2>10, <2>11, Zenon DEF ServerTypes
<1>8. ASSUME NEW c \in Sockets, ListFrames(c) PROVE ServerTypes'
  BY <1>8, PostedType, MessageTypes DEF ListFrames, SocketAt, Well
<1>9. ASSUME NEW c \in Sockets, ReadNotice(c) PROVE ServerTypes'
  <2>1. row' \in [Machines -> {"none", "live", "revoked"}] /\ rowToken' \in [Machines -> Sockets \cup {Nothing}]
    BY <1>9, PostedType, MessageTypes DEF ReadNotice, Well
  <2>2. others' \in 0..Others /\ events' \in 0..Events /\ dbMissed' \in BOOLEAN
    BY <1>9, PostedType, MessageTypes DEF ReadNotice, Well
  <2>3. at' \in [Sockets -> ServerSide] /\ shown' \in [Sockets -> OrNothing(Sockets)]
    BY <1>9, PostedType, MessageTypes DEF ReadNotice, Well
  <2>4. since' \in [Sockets -> BOOLEAN] /\ raced' \subseteq Sockets /\ over' \subseteq Machines
    BY <1>9, PostedType, MessageTypes DEF ReadNotice, Well
  <2>5. registry' \in [Machines -> OrNothing(Sockets)] /\ frames' \in [Machines -> OrNothing(Sockets)]
    BY <1>9, PostedType, MessageTypes DEF ReadNotice, Well
  <2>6. route' \in [Sockets -> OrNothing(Runs)]
    BY <1>9, PostedType, MessageTypes DEF ReadNotice, Well
  <2>7. down' \in [Sockets -> Seq(Messages)]
    BY <1>9, PostedType, MessageTypes DEF ReadNotice, Well
  <2>8. upward' \in [Sockets -> Seq(Runs)]
    BY <1>9, PostedType, MessageTypes DEF ReadNotice, Well
  <2>9. starter' \in [Runs -> {"idle", "held", "routed", "sent", "done"}] /\ hold' \in [Runs -> OrNothing(Sockets)]
    BY <1>9, PostedType, MessageTypes DEF ReadNotice, Well
  <2>10. served' \in [Machines -> OrNothing(Runs)] /\ pumps' \subseteq Runs /\ strayed' \subseteq Runs
    BY <1>9, PostedType, MessageTypes DEF ReadNotice, Well
  <2>11. unrouting' \in [Machines -> BOOLEAN] /\ revoking' \in [Machines -> BOOLEAN]
    BY <1>9, PostedType, MessageTypes DEF ReadNotice, Well
  <2> QED BY <2>1, <2>2, <2>3, <2>4, <2>5, <2>6, <2>7, <2>8, <2>9, <2>10, <2>11, Zenon DEF ServerTypes
<1>10. ASSUME NEW c \in Sockets, ClearRoutes(c) PROVE ServerTypes'
  BY <1>10, PostedType, MessageTypes DEF ClearRoutes, SocketAt, Well
<1>11. ASSUME NEW c \in Sockets, Unlist(c) PROVE ServerTypes'
  BY <1>11, PostedType, MessageTypes DEF Unlist, SocketAt, Well
<1>12. ASSUME NEW c \in Sockets, HangUp(c) PROVE ServerTypes'
  BY <1>12, PostedType, MessageTypes DEF HangUp, SocketAt, Well
<1>13. CASE BindElsewhere
  BY <1>13, PostedType, MessageTypes, SMTT(20) DEF BindElsewhere, Well
<1>14. ASSUME NEW r \in Runs, BeginRun(r) PROVE ServerTypes'
  BY <1>14, PostedType, MessageTypes DEF BeginRun, Well
<1>15. ASSUME NEW r \in Runs, RouteRun(r) PROVE ServerTypes'
  <2>1. row' \in [Machines -> {"none", "live", "revoked"}] /\ rowToken' \in [Machines -> Sockets \cup {Nothing}]
    BY <1>15, PostedType, MessageTypes DEF RouteRun, Well
  <2>2. others' \in 0..Others /\ events' \in 0..Events /\ dbMissed' \in BOOLEAN
    BY <1>15, PostedType, MessageTypes DEF RouteRun, Well
  <2>3. at' \in [Sockets -> ServerSide] /\ shown' \in [Sockets -> OrNothing(Sockets)]
    BY <1>15, PostedType, MessageTypes DEF RouteRun, Well
  <2>4. since' \in [Sockets -> BOOLEAN] /\ raced' \subseteq Sockets /\ over' \subseteq Machines
    BY <1>15, PostedType, MessageTypes DEF RouteRun, Well
  <2>5. registry' \in [Machines -> OrNothing(Sockets)] /\ frames' \in [Machines -> OrNothing(Sockets)]
    BY <1>15, PostedType, MessageTypes DEF RouteRun, Well
  <2>6. route' \in [Sockets -> OrNothing(Runs)]
    <3>1. \A d \in Sockets : [route EXCEPT ![d] = r] \in [Sockets -> OrNothing(Runs)]
      OBVIOUS
    <3>2. frames[RunOf[r]] \in Sockets \cup {Nothing}
      OBVIOUS
    <3>3. route' = route \/ (frames[RunOf[r]] # Nothing /\ route' = [route EXCEPT ![frames[RunOf[r]]] = r])
      BY <1>15 DEF RouteRun
    <3>4. CASE route' = route
      BY <3>4
    <3>5. CASE frames[RunOf[r]] # Nothing /\ route' = [route EXCEPT ![frames[RunOf[r]]] = r]
      <4>1. frames[RunOf[r]] \in Sockets
        BY <3>2, <3>5
      <4> QED BY <3>1, <3>5, <4>1
    <3> QED BY <3>3, <3>4, <3>5
  <2>7. down' \in [Sockets -> Seq(Messages)]
    BY <1>15, PostedType, MessageTypes DEF RouteRun, Well
  <2>8. upward' \in [Sockets -> Seq(Runs)]
    BY <1>15, PostedType, MessageTypes DEF RouteRun, Well
  <2>9. starter' \in [Runs -> {"idle", "held", "routed", "sent", "done"}] /\ hold' \in [Runs -> OrNothing(Sockets)]
    BY <1>15, PostedType, MessageTypes DEF RouteRun, Well
  <2>10. served' \in [Machines -> OrNothing(Runs)] /\ pumps' \subseteq Runs /\ strayed' \subseteq Runs
    BY <1>15, PostedType, MessageTypes, ZenonT(20) DEF RouteRun, Well
  <2>11. unrouting' \in [Machines -> BOOLEAN] /\ revoking' \in [Machines -> BOOLEAN]
    BY <1>15, PostedType, MessageTypes DEF RouteRun, Well
  <2> QED BY <2>1, <2>2, <2>3, <2>4, <2>5, <2>6, <2>7, <2>8, <2>9, <2>10, <2>11, Zenon DEF ServerTypes
<1>16. ASSUME NEW r \in Runs, SendRun(r) PROVE ServerTypes'
  BY <1>16, PostedType, MessageTypes DEF SendRun, Posted, Well
<1>17. ASSUME NEW r \in Runs, AttachRun(r) PROVE ServerTypes'
  BY <1>17, PostedType, MessageTypes DEF AttachRun, Well
<1>18. ASSUME NEW r \in Runs, PumpEnds(r) PROVE ServerTypes'
  BY <1>18, PostedType, MessageTypes DEF PumpEnds, Well
<1>19. ASSUME NEW r \in Runs, Reap(r) PROVE ServerTypes'
  BY <1>19, <1>0 DEF Reap, Well
<1>20. ASSUME NEW r \in Runs, Tell(r) \/ FailRun(r) PROVE ServerTypes'
  <2>1. UNCHANGED <<table, socket, lists, down, sessions, revoking, events, dbMissed>> /\ Notify(r)
    BY <1>20 DEF Tell, FailRun, Well
  <2> QED BY <2>1, NotifyType, Zenon DEF ServerTypes
<1>21. ASSUME NEW r \in Runs, RuntimeEnds(r) PROVE ServerTypes'
  BY <1>21, PostedType, MessageTypes DEF RuntimeEnds, Well
<1>22. ASSUME NEW m \in Machines, UnrouteRun(m) PROVE ServerTypes'
  BY <1>22, PostedType, MessageTypes DEF UnrouteRun, Well
<1>23. ASSUME NEW m \in Machines, CutOff(m) PROVE ServerTypes'
  BY <1>23, PostedType, MessageTypes DEF CutOff, Posted, Well
<1>24. ASSUME NEW m \in Machines, StopRun(m) PROVE ServerTypes'
  <2>1. row' \in [Machines -> {"none", "live", "revoked"}] /\ rowToken' \in [Machines -> Sockets \cup {Nothing}]
    BY <1>24, PostedType, MessageTypes DEF StopRun, Order, Happens, Well
  <2>2. others' \in 0..Others /\ events' \in 0..Events /\ dbMissed' \in BOOLEAN
    BY <1>24, PostedType, MessageTypes DEF StopRun, Order, Happens, Well
  <2>3. at' \in [Sockets -> ServerSide] /\ shown' \in [Sockets -> OrNothing(Sockets)]
    BY <1>24, PostedType, MessageTypes DEF StopRun, Order, Happens, Well
  <2>4. since' \in [Sockets -> BOOLEAN] /\ raced' \subseteq Sockets /\ over' \subseteq Machines
    BY <1>24, PostedType, MessageTypes DEF StopRun, Order, Happens, Well
  <2>5. registry' \in [Machines -> OrNothing(Sockets)] /\ frames' \in [Machines -> OrNothing(Sockets)]
    BY <1>24, PostedType, MessageTypes DEF StopRun, Order, Happens, Well
  <2>6. route' \in [Sockets -> OrNothing(Runs)]
    BY <1>24, PostedType, MessageTypes DEF StopRun, Order, Happens, Well
  <2>7. down' \in [Sockets -> Seq(Messages)]
    BY <1>24, PostedType, MessageTypes DEF StopRun, Order, Happens, Well
  <2>8. upward' \in [Sockets -> Seq(Runs)]
    BY <1>24, PostedType, MessageTypes DEF StopRun, Order, Happens, Well
  <2>9. starter' \in [Runs -> {"idle", "held", "routed", "sent", "done"}] /\ hold' \in [Runs -> OrNothing(Sockets)]
    BY <1>24, PostedType, MessageTypes DEF StopRun, Order, Happens, Well
  <2>10. served' \in [Machines -> OrNothing(Runs)] /\ pumps' \subseteq Runs /\ strayed' \subseteq Runs
    BY <1>24, PostedType, MessageTypes DEF StopRun, Order, Happens, Well
  <2>11. unrouting' \in [Machines -> BOOLEAN] /\ revoking' \in [Machines -> BOOLEAN]
    BY <1>24, PostedType, MessageTypes DEF StopRun, Order, Happens, Well
  <2> QED BY <2>1, <2>2, <2>3, <2>4, <2>5, <2>6, <2>7, <2>8, <2>9, <2>10, <2>11, Zenon DEF ServerTypes
<1>25. ASSUME NEW m \in Machines, RevokeRow(m) PROVE ServerTypes'
  <2>1. row' \in [Machines -> {"none", "live", "revoked"}] /\ rowToken' \in [Machines -> Sockets \cup {Nothing}]
    BY <1>25, PostedType, MessageTypes DEF RevokeRow, Order, Happens, Well
  <2>2. others' \in 0..Others /\ events' \in 0..Events /\ dbMissed' \in BOOLEAN
    BY <1>25, PostedType, MessageTypes DEF RevokeRow, Order, Happens, Well
  <2>3. at' \in [Sockets -> ServerSide] /\ shown' \in [Sockets -> OrNothing(Sockets)]
    BY <1>25, PostedType, MessageTypes DEF RevokeRow, Order, Happens, Well
  <2>4. since' \in [Sockets -> BOOLEAN] /\ raced' \subseteq Sockets /\ over' \subseteq Machines
    BY <1>25, PostedType, MessageTypes DEF RevokeRow, Order, Happens, Well
  <2>5. registry' \in [Machines -> OrNothing(Sockets)] /\ frames' \in [Machines -> OrNothing(Sockets)]
    BY <1>25, PostedType, MessageTypes DEF RevokeRow, Order, Happens, Well
  <2>6. route' \in [Sockets -> OrNothing(Runs)]
    BY <1>25, PostedType, MessageTypes DEF RevokeRow, Order, Happens, Well
  <2>7. down' \in [Sockets -> Seq(Messages)]
    BY <1>25, PostedType, MessageTypes DEF RevokeRow, Order, Happens, Well
  <2>8. upward' \in [Sockets -> Seq(Runs)]
    BY <1>25, PostedType, MessageTypes DEF RevokeRow, Order, Happens, Well
  <2>9. starter' \in [Runs -> {"idle", "held", "routed", "sent", "done"}] /\ hold' \in [Runs -> OrNothing(Sockets)]
    BY <1>25, PostedType, MessageTypes DEF RevokeRow, Order, Happens, Well
  <2>10. served' \in [Machines -> OrNothing(Runs)] /\ pumps' \subseteq Runs /\ strayed' \subseteq Runs
    BY <1>25, PostedType, MessageTypes DEF RevokeRow, Order, Happens, Well
  <2>11. unrouting' \in [Machines -> BOOLEAN] /\ revoking' \in [Machines -> BOOLEAN]
    BY <1>25, PostedType, MessageTypes DEF RevokeRow, Order, Happens, Well
  <2> QED BY <2>1, <2>2, <2>3, <2>4, <2>5, <2>6, <2>7, <2>8, <2>9, <2>10, <2>11, Zenon DEF ServerTypes
<1>26. ASSUME NEW m \in Machines, Choose(m) PROVE ServerTypes'
  <2>1. row' \in [Machines -> {"none", "live", "revoked"}] /\ rowToken' \in [Machines -> Sockets \cup {Nothing}]
    BY <1>26, PostedType, MessageTypes DEF Choose, Dial, SocketAt, Well
  <2>2. others' \in 0..Others /\ events' \in 0..Events /\ dbMissed' \in BOOLEAN
    BY <1>26, PostedType, MessageTypes DEF Choose, Dial, SocketAt, Well
  <2>3. at' \in [Sockets -> ServerSide] /\ shown' \in [Sockets -> OrNothing(Sockets)]
    BY <1>26, PostedType, MessageTypes DEF Choose, Dial, SocketAt, Well
  <2>4. since' \in [Sockets -> BOOLEAN] /\ raced' \subseteq Sockets /\ over' \subseteq Machines
    BY <1>26, PostedType, MessageTypes DEF Choose, Dial, SocketAt, Well
  <2>5. registry' \in [Machines -> OrNothing(Sockets)] /\ frames' \in [Machines -> OrNothing(Sockets)]
    BY <1>26, PostedType, MessageTypes DEF Choose, Dial, SocketAt, Well
  <2>6. route' \in [Sockets -> OrNothing(Runs)]
    BY <1>26, PostedType, MessageTypes DEF Choose, Dial, SocketAt, Well
  <2>7. down' \in [Sockets -> Seq(Messages)]
    BY <1>26, PostedType, MessageTypes DEF Choose, Dial, SocketAt, Well
  <2>8. upward' \in [Sockets -> Seq(Runs)]
    BY <1>26, PostedType, MessageTypes DEF Choose, Dial, SocketAt, Well
  <2>9. starter' \in [Runs -> {"idle", "held", "routed", "sent", "done"}] /\ hold' \in [Runs -> OrNothing(Sockets)]
    BY <1>26, PostedType, MessageTypes DEF Choose, Dial, SocketAt, Well
  <2>10. served' \in [Machines -> OrNothing(Runs)] /\ pumps' \subseteq Runs /\ strayed' \subseteq Runs
    BY <1>26, PostedType, MessageTypes DEF Choose, Dial, SocketAt, Well
  <2>11. unrouting' \in [Machines -> BOOLEAN] /\ revoking' \in [Machines -> BOOLEAN]
    BY <1>26, PostedType, MessageTypes DEF Choose, Dial, SocketAt, Well
  <2> QED BY <2>1, <2>2, <2>3, <2>4, <2>5, <2>6, <2>7, <2>8, <2>9, <2>10, <2>11, Zenon DEF ServerTypes
<1>27. ASSUME NEW m \in Machines, ReadMessage(m) PROVE ServerTypes'
  <2> DEFINE c == link[m]
             msg == Head(down[c])
  <2>0. /\ c \in Sockets /\ down[c] \in Seq(Messages) /\ down[c] # <<>>
        /\ msg \in Messages /\ Tail(down[c]) \in Seq(Messages)
    <3>1. c \in Sockets
      BY <1>27 DEF ReadMessage, Attached
    <3>2. down[c] \in Seq(Messages) /\ down[c] # <<>>
      BY <1>27, <3>1 DEF ReadMessage
    <3> QED BY <3>1, <3>2, HeadTailProperties
  <2>1. down' = [down EXCEPT ![c] = Tail(down[c])]
    BY <1>27 DEF ReadMessage
  <2>2. down' \in [Sockets -> Seq(Messages)]
    BY <2>0, <2>1, UpdateType, Zenon
  <2>3. UNCHANGED <<table, socket, lists, sessions, revoking>>
    BY <1>27 DEF ReadMessage
  <2>4. UNCHANGED upward
    BY <1>27, Zenon DEF ReadMessage, TakeOk, TakeError, TakeStart, TakeStop
  <2>5. events' \in 0..Events /\ dbMissed' \in BOOLEAN
    <3>1. Well \/ Miss("disk")
      BY <1>27, Zenon DEF ReadMessage, TakeOk, TakeError, TakeStart, TakeStop
    <3> QED BY <3>1 DEF Well, Miss, Happens
  <2> QED BY <2>2, <2>3, <2>4, <2>5, Zenon DEF ServerTypes
<1>28. ASSUME NEW m \in Machines, SeeClose(m) PROVE ServerTypes'
  BY <1>28, <1>0 DEF SeeClose, Well
<1>29. ASSUME NEW m \in Machines, Retire(m) PROVE ServerTypes'
  BY <1>29, <1>0 DEF Retire, Well
<1>30. ASSUME NEW m \in Machines, SeeBreak(m) PROVE ServerTypes'
  <2>1. events' \in 0..Events /\ dbMissed' \in BOOLEAN
    BY <1>30 DEF SeeBreak, Miss, Happens
  <2> QED BY <1>30, <2>1, Zenon DEF SeeBreak, ServerTypes
<1>31. ASSUME NEW m \in Machines, SwitchOff(m) PROVE ServerTypes'
  <2>1. events' \in 0..Events /\ dbMissed' \in BOOLEAN
    BY <1>31 DEF SwitchOff, Order, Happens
  <2> QED BY <1>31, <2>1, Zenon DEF SwitchOff, ServerTypes
<1>32. ASSUME NEW m \in Machines, SwitchOn(m) PROVE ServerTypes'
  BY <1>32, <1>0 DEF SwitchOn, Well
<1>33. ASSUME NEW r \in Runs, HostRun(r) PROVE ServerTypes'
  BY <1>33, <1>0 DEF HostRun, Well
<1>34. ASSUME NEW g \in Sockets, FinishStop(g) PROVE ServerTypes'
  BY <1>34, <1>0 DEF FinishStop, Well
<1>35. CASE UNCHANGED devicesVars
  BY <1>35, <1>0 DEF devicesVars
<1> QED
  BY <1>1, <1>2, <1>3, <1>4, <1>5, <1>6, <1>7, <1>8, <1>9, <1>10, <1>11,
     <1>12, <1>13, <1>14, <1>15, <1>16, <1>17, <1>18, <1>19, <1>20, <1>21,
     <1>22, <1>23, <1>24, <1>25, <1>26, <1>27, <1>28, <1>29, <1>30, <1>31,
     <1>32, <1>33, <1>34, <1>35, Zenon
  DEF DevicesNext, SocketStep, RunStep, ReaderStep, DeskStep, ClientStep

(* Who moves the connector and the runtimes.                               *)
ClientMoves(m) ==
    \/ Choose(m) \/ ReadMessage(m) \/ SeeClose(m) \/ Retire(m)
    \/ SeeBreak(m) \/ SwitchOff(m) \/ SwitchOn(m)
Moves(r) == HostRun(r) \/ FailRun(r) \/ Reap(r) \/ Tell(r) \/ RuntimeEnds(r)

LEMMA WhoMoves ==
    ASSUME [DevicesNext]_devicesVars
    PROVE  \/ UNCHANGED <<connector, runtimesOf>>
           \/ \E m \in Machines : ClientMoves(m)
           \/ \E r \in Runs : Moves(r)
           \/ \E g \in Sockets : FinishStop(g)
<1> DEFINE Still == UNCHANGED <<connector, runtimesOf>>
<1>1. ASSUME NEW c \in Sockets, SocketStep(c) \/ HangUp(c) PROVE Still
  BY <1>1, Zenon DEF SocketStep, Hello, SignIn, FindRow, CountRows, InsertRow, List, SayOk,
      ListFrames, ReadNotice, ClearRoutes, Unlist, HangUp
<1>2. CASE BindElsewhere
  BY <1>2, Zenon DEF BindElsewhere
<1>3. ASSUME NEW r \in Runs, BeginRun(r) \/ RouteRun(r) \/ SendRun(r) \/ AttachRun(r) \/ PumpEnds(r) PROVE Still
  BY <1>3, Zenon DEF BeginRun, RouteRun, SendRun, AttachRun, PumpEnds
<1>4. ASSUME NEW m \in Machines, DeskStep(m) \/ StopRun(m) \/ RevokeRow(m) PROVE Still
  BY <1>4, Zenon DEF DeskStep, UnrouteRun, CutOff, StopRun, RevokeRow
<1>5. CASE UNCHANGED devicesVars
  BY <1>5, Zenon DEF devicesVars
<1> QED BY <1>1, <1>2, <1>3, <1>4, <1>5, Zenon
        DEF DevicesNext, RunStep, ReaderStep, ClientStep, ClientMoves, Moves

LEMMA ConnectorTypesStep ==
    ASSUME DevicesTypeOK, Attached, [DevicesNext]_devicesVars
    PROVE  ConnectorTypes'
<1> USE DevicesAssumption DEF ConnectorTypes, OrNothing, ClientSide, connector, runtimesOf
<1>0. ConnectorTypes
  BY TypeParts
<1>1. CASE UNCHANGED <<connector, runtimesOf>>
  BY <1>0, <1>1, Zenon
<1>2. ASSUME NEW m \in Machines, Choose(m) PROVE ConnectorTypes'
  <2>1. CASE \E cred \in {mem[m], Nothing} : Dial(m, cred)
    <3>1. PICK c \in Sockets : /\ link' = [link EXCEPT ![m] = c]
                               /\ manager' = [manager EXCEPT ![m] = IF @ = Nothing THEN c ELSE @]
      BY <2>1 DEF Dial
    <3>2. /\ client' = [client EXCEPT ![m] = "reading"] /\ fresh' = [fresh EXCEPT ![m] = Nothing]
          /\ UNCHANGED <<mem, disk, leaving>>
      BY <2>1 DEF Dial
    <3>3. link' \in [Machines -> OrNothing(Sockets)] /\ manager' \in [Machines -> OrNothing(Sockets)]
      BY <1>0, <3>1
    <3>4. client' \in [Machines -> ClientSide] /\ fresh' \in [Machines -> OrNothing(Sockets)]
      BY <1>0, <3>2
    <3> QED BY <1>0, <3>2, <3>3, <3>4
  <2>2. CASE client' = [client EXCEPT ![m] = "asks"] /\ UNCHANGED <<link, mem, disk, fresh, manager, leaving>>
    BY <1>0, <2>2
  <2> QED BY <1>2, <2>1, <2>2 DEF Choose
<1>3. ASSUME NEW m \in Machines, ReadMessage(m) PROVE ConnectorTypes'
  <2> DEFINE c == link[m]
             msg == Head(down[c])
  <2>1. msg \in Messages
    <3>1. c \in Sockets /\ down[c] # <<>>
      BY <1>0, <1>3 DEF ReadMessage, Attached
    <3>2. down[c] \in Seq(Messages)
      BY <3>1 DEF DevicesTypeOK
    <3> QED BY <3>1, <3>2, HeadTailProperties
  <2> HIDE DEF msg
  <2>2. CASE msg.is = "ok" /\ TakeOk(m, msg.token)
    <3>1. msg.token \in Sockets \cup {Nothing}
      BY <2>1, <2>2 DEF Messages
    <3> QED BY <1>0, <2>2, <3>1 DEF TakeOk
  <2>3. CASE TakeError(m)
    BY <1>0, <2>3 DEF TakeError, LetGo
  <2>4. CASE UNCHANGED connector
    BY <1>0, <2>4
  <2> QED BY <1>3, <2>2, <2>3, <2>4, Zenon DEF ReadMessage, TakeStart, TakeStop, msg
<1>4. ASSUME NEW m \in Machines, SeeClose(m) PROVE ConnectorTypes'
  BY <1>0, <1>4 DEF SeeClose, LetGo
<1>5. ASSUME NEW m \in Machines, Retire(m) PROVE ConnectorTypes'
  BY <1>0, <1>5 DEF Retire
<1>6. ASSUME NEW m \in Machines, SeeBreak(m) PROVE ConnectorTypes'
  BY <1>0, <1>6 DEF SeeBreak, LetGo
<1>7. ASSUME NEW m \in Machines, SwitchOff(m) PROVE ConnectorTypes'
  <2>1. leaving' \subseteq Sockets
    <3>1. manager[m] = Nothing \/ manager[m] \in Sockets
      BY <1>0
    <3>2. leaving' = leaving \/ (manager[m] # Nothing /\ leaving' = leaving \cup {manager[m]})
      BY <1>7, Zenon DEF SwitchOff
    <3> QED BY <1>0, <3>1, <3>2
  <2>2. disk' \in [Machines -> OrNothing(Sockets)]
    BY <1>0, <1>7 DEF SwitchOff, Forgotten
  <2>3. /\ client' \in [Machines -> ClientSide] /\ link' \in [Machines -> OrNothing(Sockets)]
        /\ manager' \in [Machines -> OrNothing(Sockets)] /\ UNCHANGED <<mem, fresh>>
    BY <1>0, <1>7 DEF SwitchOff
  <2> QED BY <1>0, <2>1, <2>2, <2>3
<1>8. ASSUME NEW m \in Machines, SwitchOn(m) PROVE ConnectorTypes'
  BY <1>0, <1>8 DEF SwitchOn
<1>9. ASSUME NEW r \in Runs, Moves(r) PROVE ConnectorTypes'
  BY <1>0, <1>9, Zenon DEF Moves, HostRun, FailRun, Reap, Tell, RuntimeEnds
<1>10. ASSUME NEW g \in Sockets, FinishStop(g) PROVE ConnectorTypes'
  BY <1>0, <1>10 DEF FinishStop, Forgotten
<1> QED BY <1>1, <1>2, <1>3, <1>4, <1>5, <1>6, <1>7, <1>8, <1>9, <1>10, WhoMoves DEF ClientMoves

LEMMA RuntimeTypesStep ==
    ASSUME DevicesTypeOK, Attached, [DevicesNext]_devicesVars
    PROVE  RuntimeTypes'
<1> USE DevicesAssumption DEF RuntimeTypes, OrNothing, connector, runtimesOf
<1>0. RuntimeTypes
  BY TypeParts
<1>1. CASE UNCHANGED runtimesOf
  BY <1>0, <1>1, Zenon
<1>2. ASSUME NEW m \in Machines, ReadMessage(m) PROVE RuntimeTypes'
  <2> DEFINE c == link[m]
             msg == Head(down[c])
  <2>1. c \in Sockets /\ msg \in Messages
    <3>1. c \in Sockets /\ down[c] # <<>>
      BY <1>2 DEF ReadMessage, Attached, DevicesTypeOK
    <3>2. down[c] \in Seq(Messages)
      BY <3>1 DEF DevicesTypeOK
    <3> QED BY <3>1, <3>2, HeadTailProperties
  <2> HIDE DEF msg
  <2>2. CASE msg.is = "start" /\ TakeStart(m, msg.run)
    <3>1. msg.run \in Runs /\ manager[m] \in OrNothing(Sockets)
      BY <2>1, <2>2 DEF Messages, DevicesTypeOK
    <3> DEFINE q == msg.run
    <3>2. \/ UNCHANGED runtimesOf
          \/ /\ reader' = [reader EXCEPT ![q] = "begin"] /\ from' = [from EXCEPT ![q] = c]
             /\ born' = [born EXCEPT ![q] = manager[m]] /\ UNCHANGED <<hosted, alive, orphans>>
      BY <2>2, Zenon DEF TakeStart
    <3>3. q \in Runs
      BY <3>1
    <3> HIDE DEF q
    <3>4. CASE UNCHANGED runtimesOf
      BY <1>0, <3>4
    <3>5. CASE /\ reader' = [reader EXCEPT ![q] = "begin"] /\ from' = [from EXCEPT ![q] = c]
               /\ born' = [born EXCEPT ![q] = manager[m]] /\ UNCHANGED <<hosted, alive, orphans>>
      BY <1>0, <2>1, <3>1, <3>3, <3>5
    <3> QED BY <3>2, <3>4, <3>5
  <2>3. CASE TakeStop(m)
    BY <1>0, <2>3 DEF TakeStop, StopAll
  <2>4. CASE UNCHANGED runtimesOf
    BY <1>0, <2>4
  <2> QED BY <1>2, <2>2, <2>3, <2>4, Zenon DEF ReadMessage, TakeOk, TakeError, msg
<1>3. ASSUME NEW m \in Machines, Retire(m) PROVE RuntimeTypes'
  BY <1>0, <1>3 DEF Retire, StopAll
<1>4. ASSUME NEW r \in Runs, HostRun(r) PROVE RuntimeTypes'
  BY <1>0, <1>4 DEF HostRun
<1>5. ASSUME NEW r \in Runs, FailRun(r) \/ Tell(r) PROVE RuntimeTypes'
  BY <1>0, <1>5 DEF FailRun, Tell
<1>6. ASSUME NEW r \in Runs, Reap(r) PROVE RuntimeTypes'
  BY <1>0, <1>6 DEF Reap, StopAll
<1>7. ASSUME NEW r \in Runs, RuntimeEnds(r) PROVE RuntimeTypes'
  BY <1>0, <1>7 DEF RuntimeEnds
<1>8. ASSUME NEW g \in Sockets, FinishStop(g) PROVE RuntimeTypes'
  BY <1>0, <1>8 DEF FinishStop, StopAll
<1>9. ASSUME NEW m \in Machines, ClientMoves(m) PROVE UNCHANGED runtimesOf \/ ReadMessage(m) \/ Retire(m)
  BY <1>9, Zenon DEF ClientMoves, Choose, Dial, SeeClose, SeeBreak, SwitchOff, SwitchOn
<1> QED BY <1>1, <1>2, <1>3, <1>4, <1>5, <1>6, <1>7, <1>8, <1>9, WhoMoves, Zenon DEF Moves

LEMMA DevicesTypeStep ==
    ASSUME DevicesTypeOK, Attached, [DevicesNext]_devicesVars
    PROVE  DevicesTypeOK'
<1>1. ServerTypes' /\ ConnectorTypes' /\ RuntimeTypes'
  BY ServerTypesStep, ConnectorTypesStep, RuntimeTypesStep
<1> QED BY ONLY <1>1, Zenon DEF DevicesTypeOK, ServerTypes, ConnectorTypes, RuntimeTypes

LEMMA TailOk ==
    ASSUME NEW S, NEW q \in Seq(S), q # <<>>
    PROVE  /\ Head(q) = q[1] /\ 1 \in 1..Len(q)
           /\ \A i \in 1..Len(Tail(q)) : i + 1 \in 1..Len(q) /\ Tail(q)[i] = q[i + 1]
BY HeadTailProperties

LEMMA AppendOk ==
    ASSUME NEW S, NEW q \in Seq(S), NEW e \in S
    PROVE  \A i \in 1..Len(Append(q, e)) : Append(q, e)[i] = e \/ (i \in 1..Len(q) /\ Append(q, e)[i] = q[i])
BY AppendProperties

LEMMA ConsOk ==
    ASSUME NEW S, NEW q \in Seq(S), NEW e \in S
    PROVE  \A i \in 1..Len(<<e>> \o q) :
              (<<e>> \o q)[i] = e \/ \E j \in 1..Len(q) : (<<e>> \o q)[i] = q[j]
<1>1. <<e>> \in Seq(S) /\ Len(<<e>>) = 1 /\ <<e>>[1] = e
  OBVIOUS
<1>2. Len(<<e>> \o q) = 1 + Len(q)
  BY <1>1, ConcatProperties
<1> TAKE i \in 1..Len(<<e>> \o q)
<1>3. CASE i = 1
  BY <1>1, <1>3, ConcatProperties
<1>4. CASE i # 1
  <2>1. Len(q) \in Nat
    OBVIOUS
  <2>2. i - 1 \in 1..Len(q)
    BY <1>2, <1>4, <2>1
  <2>3. (<<e>> \o q)[i] = q[i - 1]
    BY <1>1, <1>2, <1>4, <2>1, ConcatProperties
  <2> QED BY <2>2, <2>3
<1> QED BY <1>3, <1>4

(* What a step does to the sockets and the connectors, whatever it posts.  *)
Attach(c) == Hello(c) \/ SignIn(c) \/ FindRow(c) \/ CountRows(c) \/ InsertRow(c)

LEMMA AttachMoves ==
    ASSUME NEW c \in Sockets, Attach(c)
    PROVE  /\ at[c] \in {"first", "bind", "count", "insert"}
           /\ \E l \in {"bind", "count", "insert", "list", "over"} :
                 /\ at' = [at EXCEPT ![c] = l]
                 /\ l \in {"bind", "count", "insert"} => shown[c] = Nothing \/ at[c] # "first"
           /\ UNCHANGED <<shown, raced, lists, upward, sessions, revoking, connector, runtimesOf>>
<1>1. CASE Hello(c)
  BY <1>1 DEF Hello, Refuse, SocketAt, lists, wires, socket
<1>2. CASE SignIn(c)
  BY <1>2 DEF SignIn, Refuse, SocketAt, wires
<1>3. CASE FindRow(c)
  BY <1>3 DEF FindRow, Refuse, SocketAt, wires
<1>4. CASE CountRows(c)
  BY <1>4 DEF CountRows, Refuse, SocketAt, wires
<1>5. CASE InsertRow(c)
  BY <1>5 DEF InsertRow, Refuse, SocketAt, wires
<1> QED BY <1>1, <1>2, <1>3, <1>4, <1>5 DEF Attach

LEMMA SayOkMoves ==
    ASSUME NEW c \in Sockets, SayOk(c)
    PROVE  /\ at[c] = "ok"
           /\ \/ at' = [at EXCEPT ![c] = "frames"] /\ UNCHANGED registry
              \/ /\ at' = [at EXCEPT ![c] = "over"] /\ link[Of[c]] # c
                 /\ registry' = [registry EXCEPT ![Of[c]] = Nothing]
           /\ UNCHANGED <<table, shown, raced, frames, sessions, revoking, connector, runtimesOf, counts>>
BY DEF SayOk, SocketAt, Linked, Well

LEMMA ChooseMoves ==
    ASSUME NEW m \in Machines, Choose(m)
    PROVE  /\ \/ \E c \in Sockets :
                    /\ Of[c] = m /\ at[c] = "unused" /\ at' = [at EXCEPT ![c] = "first"]
                    /\ \/ shown' = [shown EXCEPT ![c] = Nothing]
                       \/ shown' = [shown EXCEPT ![c] = mem[m]]
                    /\ link' = [link EXCEPT ![m] = c] /\ client' = [client EXCEPT ![m] = "reading"]
              \/ /\ client[m] = "choose" /\ client' = [client EXCEPT ![m] = "asks"]
                 /\ UNCHANGED <<at, shown, link>>
           /\ UNCHANGED <<table, since, raced, lists, wires, sessions, revoking, mem, disk, runtimesOf, counts>>
<1>1. CASE client[m] = "choose" /\ mem[m] # Nothing /\ Dial(m, mem[m])
  BY <1>1 DEF Choose, Dial, SocketAt, Well
<1>2. CASE Dial(m, Nothing)
  BY <1>2 DEF Choose, Dial, SocketAt, Well
<1> QED BY <1>1, <1>2 DEF Choose, Well, socket

LEMMA ReadMoves ==
    ASSUME NEW m \in Machines, ReadMessage(m)
    PROVE  /\ client[m] = "reading" /\ down[link[m]] # <<>>
           /\ \/ UNCHANGED <<client, link>>
              \/ link' = [link EXCEPT ![m] = Nothing] /\ client' = [client EXCEPT ![m] = "retire"]
           /\ down' = [down EXCEPT ![link[m]] = Tail(@)]
           /\ UNCHANGED <<table, socket, lists, sessions, revoking>>
BY DEF ReadMessage, TakeOk, TakeError, TakeStart, TakeStop, LetGo, connector

LEMMA AttachedStep ==
    ASSUME DevicesTypeOK, Attached, [DevicesNext]_devicesVars
    PROVE  Attached'
<1> USE DevicesAssumption DEF DevicesTypeOK, OrNothing,
       table, socket, lists, wires, sessions, connector, runtimesOf,
       counts, Attached
<1>1. ASSUME NEW c \in Sockets, Attach(c) PROVE Attached'
  <2>1. PICK l \in {"bind", "count", "insert", "list", "over"} :
           /\ at' = [at EXCEPT ![c] = l]
           /\ l \in {"bind", "count", "insert"} => shown[c] = Nothing \/ at[c] # "first"
    BY <1>1, AttachMoves
  <2>2. UNCHANGED <<shown, client, link>> /\ at[c] \in {"first", "bind", "count", "insert"}
    BY <1>1, AttachMoves DEF connector, lists
  <2> QED BY <2>1, <2>2
<1>2. ASSUME NEW c \in Sockets, List(c) PROVE Attached'
  BY <1>2 DEF List, SocketAt
<1>3. ASSUME NEW c \in Sockets, SayOk(c) PROVE Attached'
  <2>1. /\ at[c] = "ok"
        /\ \/ at' = [at EXCEPT ![c] = "frames"] /\ UNCHANGED registry
           \/ /\ at' = [at EXCEPT ![c] = "over"] /\ link[Of[c]] # c
              /\ registry' = [registry EXCEPT ![Of[c]] = Nothing]
    BY <1>3, SayOkMoves
  <2>2. UNCHANGED <<shown, client, link>>
    BY <1>3, SayOkMoves
  <2>3. CASE at' = [at EXCEPT ![c] = "frames"] /\ UNCHANGED registry
    BY <2>1, <2>2, <2>3
  <2>4. CASE /\ at' = [at EXCEPT ![c] = "over"] /\ link[Of[c]] # c
             /\ registry' = [registry EXCEPT ![Of[c]] = Nothing]
    BY <2>1, <2>2, <2>4
  <2> QED BY <2>1, <2>3, <2>4
<1>4. ASSUME NEW c \in Sockets, ListFrames(c) PROVE Attached'
  BY <1>4 DEF ListFrames, SocketAt
<1>5. ASSUME NEW c \in Sockets, ReadNotice(c) PROVE Attached'
  BY <1>5 DEF ReadNotice
<1>6. ASSUME NEW c \in Sockets, ClearRoutes(c) PROVE Attached'
  BY <1>6 DEF ClearRoutes, SocketAt
<1>7. ASSUME NEW c \in Sockets, Unlist(c) PROVE Attached'
  BY <1>7 DEF Unlist, SocketAt
<1>8. ASSUME NEW c \in Sockets, HangUp(c) PROVE Attached'
  BY <1>8 DEF HangUp, SocketAt, Linked
<1>9. CASE BindElsewhere
  BY <1>9 DEF BindElsewhere
<1>10. ASSUME NEW r \in Runs, BeginRun(r) PROVE Attached'
  BY <1>10 DEF BeginRun
<1>11. ASSUME NEW r \in Runs, RouteRun(r) PROVE Attached'
  BY <1>11 DEF RouteRun
<1>12. ASSUME NEW r \in Runs, SendRun(r) PROVE Attached'
  BY <1>12 DEF SendRun
<1>13. ASSUME NEW r \in Runs, AttachRun(r) PROVE Attached'
  BY <1>13 DEF AttachRun
<1>14. ASSUME NEW r \in Runs, PumpEnds(r) PROVE Attached'
  BY <1>14 DEF PumpEnds
<1>15. ASSUME NEW r \in Runs, Reap(r) PROVE Attached'
  BY <1>15 DEF Reap, StopAll
<1>16. ASSUME NEW r \in Runs, Tell(r) PROVE Attached'
  BY <1>16 DEF Tell
<1>17. ASSUME NEW r \in Runs, RuntimeEnds(r) PROVE Attached'
  BY <1>17 DEF RuntimeEnds
<1>18. ASSUME NEW m \in Machines, UnrouteRun(m) PROVE Attached'
  BY <1>18 DEF UnrouteRun
<1>19. ASSUME NEW m \in Machines, CutOff(m) PROVE Attached'
  BY <1>19 DEF CutOff
<1>20. ASSUME NEW m \in Machines, StopRun(m) PROVE Attached'
  BY <1>20 DEF StopRun
<1>21. ASSUME NEW m \in Machines, RevokeRow(m) PROVE Attached'
  BY <1>21 DEF RevokeRow
<1>22. ASSUME NEW m \in Machines, Choose(m) PROVE Attached'
  <2>1. CASE \E c \in Sockets :
                  /\ Of[c] = m /\ at[c] = "unused" /\ at' = [at EXCEPT ![c] = "first"]
                  /\ \/ shown' = [shown EXCEPT ![c] = Nothing]
                     \/ shown' = [shown EXCEPT ![c] = mem[m]]
                  /\ link' = [link EXCEPT ![m] = c] /\ client' = [client EXCEPT ![m] = "reading"]
    <3>1. PICK c \in Sockets :
                  /\ Of[c] = m /\ at[c] = "unused" /\ at' = [at EXCEPT ![c] = "first"]
                  /\ \/ shown' = [shown EXCEPT ![c] = Nothing]
                     \/ shown' = [shown EXCEPT ![c] = mem[m]]
                  /\ link' = [link EXCEPT ![m] = c] /\ client' = [client EXCEPT ![m] = "reading"]
      BY <2>1
    <3> QED BY <1>22, <3>1, ChooseMoves
  <2>2. CASE client[m] = "choose" /\ client' = [client EXCEPT ![m] = "asks"] /\ UNCHANGED <<at, shown, link>>
    <3>1. UNCHANGED <<table, registry, frames>>
      BY <1>22, ChooseMoves DEF lists
    <3> QED BY <2>2, <3>1
  <2> QED BY <1>22, <2>1, <2>2, ChooseMoves
<1>23. ASSUME NEW m \in Machines, ReadMessage(m) PROVE Attached'
  <2>1. /\ client[m] = "reading"
        /\ \/ UNCHANGED <<client, link>>
           \/ link' = [link EXCEPT ![m] = Nothing] /\ client' = [client EXCEPT ![m] = "retire"]
        /\ UNCHANGED <<at, shown>>
    BY <1>23, ReadMoves DEF socket
  <2> QED BY <2>1
<1>24. ASSUME NEW m \in Machines, SeeClose(m) PROVE Attached'
  BY <1>24 DEF SeeClose, LetGo
<1>25. ASSUME NEW m \in Machines, Retire(m) PROVE Attached'
  BY <1>25 DEF Retire, StopAll
<1>26. ASSUME NEW m \in Machines, SeeBreak(m) PROVE Attached'
  BY <1>26 DEF SeeBreak, LetGo
<1>27. ASSUME NEW m \in Machines, SwitchOff(m) PROVE Attached'
  BY <1>27 DEF SwitchOff, StopAll
<1>28. ASSUME NEW m \in Machines, SwitchOn(m) PROVE Attached'
  BY <1>28 DEF SwitchOn
<1>30. ASSUME NEW r \in Runs, HostRun(r) PROVE Attached'
  BY <1>30 DEF HostRun
<1>31. ASSUME NEW r \in Runs, FailRun(r) PROVE Attached'
  BY <1>31 DEF FailRun
<1>32. ASSUME NEW g \in Sockets, FinishStop(g) PROVE Attached'
  BY <1>32 DEF FinishStop, StopAll
<1>29. CASE UNCHANGED devicesVars
  BY <1>29 DEF devicesVars, table, socket, lists, wires, sessions, connector,
      runtimesOf, counts
<1> QED
  BY <1>1, <1>2, <1>3, <1>4, <1>5, <1>6, <1>7, <1>8, <1>9, <1>10, <1>11,
     <1>12, <1>13, <1>14, <1>15, <1>16, <1>17, <1>18, <1>19, <1>20, <1>21,
     <1>22, <1>23, <1>24, <1>25, <1>26, <1>27, <1>28, <1>29, <1>30, <1>31,
     <1>32, Zenon
  DEF DevicesNext, Attach, SocketStep, RunStep, ReaderStep, DeskStep,
      ClientStep

LEMMA DanglingStep ==
    ASSUME DevicesTypeOK, NothingDangles, [DevicesNext]_devicesVars
    PROVE  NothingDangles'
<1> USE DevicesAssumption DEF DevicesTypeOK, OrNothing,
       table, socket, lists, wires, sessions, connector, runtimesOf,
       counts, NothingDangles
<1>1. ASSUME NEW c \in Sockets, Attach(c) PROVE NothingDangles'
  <2>1. PICK l \in {"bind", "count", "insert", "list", "over"} :
           /\ at' = [at EXCEPT ![c] = l]
           /\ l \in {"bind", "count", "insert"} => shown[c] = Nothing \/ at[c] # "first"
    BY <1>1, AttachMoves
  <2>2. UNCHANGED <<registry, frames>> /\ at[c] \in {"first", "bind", "count", "insert"}
    BY <1>1, AttachMoves DEF connector, lists
  <2> QED BY <2>1, <2>2
<1>2. ASSUME NEW c \in Sockets, List(c) PROVE NothingDangles'
  BY <1>2 DEF List, SocketAt
<1>3. ASSUME NEW c \in Sockets, SayOk(c) PROVE NothingDangles'
  <2>1. /\ at[c] = "ok"
        /\ \/ at' = [at EXCEPT ![c] = "frames"] /\ UNCHANGED registry
           \/ /\ at' = [at EXCEPT ![c] = "over"] /\ link[Of[c]] # c
              /\ registry' = [registry EXCEPT ![Of[c]] = Nothing]
    BY <1>3, SayOkMoves
  <2>2. UNCHANGED frames
    BY <1>3, SayOkMoves
  <2>3. CASE at' = [at EXCEPT ![c] = "frames"] /\ UNCHANGED registry
    BY <2>1, <2>2, <2>3
  <2>4. CASE /\ at' = [at EXCEPT ![c] = "over"] /\ link[Of[c]] # c
             /\ registry' = [registry EXCEPT ![Of[c]] = Nothing]
    BY <2>1, <2>2, <2>4
  <2> QED BY <2>1, <2>3, <2>4
<1>4. ASSUME NEW c \in Sockets, ListFrames(c) PROVE NothingDangles'
  BY <1>4 DEF ListFrames, SocketAt
<1>5. ASSUME NEW c \in Sockets, ReadNotice(c) PROVE NothingDangles'
  BY <1>5 DEF ReadNotice
<1>6. ASSUME NEW c \in Sockets, ClearRoutes(c) PROVE NothingDangles'
  BY <1>6 DEF ClearRoutes, SocketAt
<1>7. ASSUME NEW c \in Sockets, Unlist(c) PROVE NothingDangles'
  BY <1>7 DEF Unlist, SocketAt
<1>8. ASSUME NEW c \in Sockets, HangUp(c) PROVE NothingDangles'
  BY <1>8 DEF HangUp, SocketAt, Linked
<1>9. CASE BindElsewhere
  BY <1>9 DEF BindElsewhere
<1>10. ASSUME NEW r \in Runs, BeginRun(r) PROVE NothingDangles'
  BY <1>10 DEF BeginRun
<1>11. ASSUME NEW r \in Runs, RouteRun(r) PROVE NothingDangles'
  BY <1>11 DEF RouteRun
<1>12. ASSUME NEW r \in Runs, SendRun(r) PROVE NothingDangles'
  BY <1>12 DEF SendRun
<1>13. ASSUME NEW r \in Runs, AttachRun(r) PROVE NothingDangles'
  BY <1>13 DEF AttachRun
<1>14. ASSUME NEW r \in Runs, PumpEnds(r) PROVE NothingDangles'
  BY <1>14 DEF PumpEnds
<1>15. ASSUME NEW r \in Runs, Reap(r) PROVE NothingDangles'
  BY <1>15 DEF Reap, StopAll
<1>16. ASSUME NEW r \in Runs, Tell(r) PROVE NothingDangles'
  BY <1>16 DEF Tell
<1>17. ASSUME NEW r \in Runs, RuntimeEnds(r) PROVE NothingDangles'
  BY <1>17 DEF RuntimeEnds
<1>18. ASSUME NEW m \in Machines, UnrouteRun(m) PROVE NothingDangles'
  BY <1>18 DEF UnrouteRun
<1>19. ASSUME NEW m \in Machines, CutOff(m) PROVE NothingDangles'
  BY <1>19 DEF CutOff
<1>20. ASSUME NEW m \in Machines, StopRun(m) PROVE NothingDangles'
  BY <1>20 DEF StopRun
<1>21. ASSUME NEW m \in Machines, RevokeRow(m) PROVE NothingDangles'
  BY <1>21 DEF RevokeRow
<1>22. ASSUME NEW m \in Machines, Choose(m) PROVE NothingDangles'
  <2>1. CASE \E c \in Sockets :
                  /\ Of[c] = m /\ at[c] = "unused" /\ at' = [at EXCEPT ![c] = "first"]
                  /\ \/ shown' = [shown EXCEPT ![c] = Nothing]
                     \/ shown' = [shown EXCEPT ![c] = mem[m]]
                  /\ link' = [link EXCEPT ![m] = c] /\ client' = [client EXCEPT ![m] = "reading"]
    <3>1. PICK c \in Sockets :
                  /\ Of[c] = m /\ at[c] = "unused" /\ at' = [at EXCEPT ![c] = "first"]
                  /\ \/ shown' = [shown EXCEPT ![c] = Nothing]
                     \/ shown' = [shown EXCEPT ![c] = mem[m]]
                  /\ link' = [link EXCEPT ![m] = c] /\ client' = [client EXCEPT ![m] = "reading"]
      BY <2>1
    <3> QED BY <1>22, <3>1, ChooseMoves
  <2>2. CASE client[m] = "choose" /\ client' = [client EXCEPT ![m] = "asks"] /\ UNCHANGED <<at, shown, link>>
    <3>1. UNCHANGED <<table, registry, frames>>
      BY <1>22, ChooseMoves DEF lists
    <3> QED BY <2>2, <3>1
  <2> QED BY <1>22, <2>1, <2>2, ChooseMoves
<1>23. ASSUME NEW m \in Machines, ReadMessage(m) PROVE NothingDangles'
  BY <1>23, ReadMoves
<1>24. ASSUME NEW m \in Machines, SeeClose(m) PROVE NothingDangles'
  BY <1>24 DEF SeeClose, LetGo
<1>25. ASSUME NEW m \in Machines, Retire(m) PROVE NothingDangles'
  BY <1>25 DEF Retire, StopAll
<1>26. ASSUME NEW m \in Machines, SeeBreak(m) PROVE NothingDangles'
  BY <1>26 DEF SeeBreak, LetGo
<1>27. ASSUME NEW m \in Machines, SwitchOff(m) PROVE NothingDangles'
  BY <1>27 DEF SwitchOff, StopAll
<1>28. ASSUME NEW m \in Machines, SwitchOn(m) PROVE NothingDangles'
  BY <1>28 DEF SwitchOn
<1>30. ASSUME NEW r \in Runs, HostRun(r) PROVE NothingDangles'
  BY <1>30 DEF HostRun
<1>31. ASSUME NEW r \in Runs, FailRun(r) PROVE NothingDangles'
  BY <1>31 DEF FailRun
<1>32. ASSUME NEW g \in Sockets, FinishStop(g) PROVE NothingDangles'
  BY <1>32 DEF FinishStop, StopAll
<1>29. CASE UNCHANGED devicesVars
  BY <1>29 DEF devicesVars, table, socket, lists, wires, sessions, connector,
      runtimesOf, counts
<1> QED
  BY <1>1, <1>2, <1>3, <1>4, <1>5, <1>6, <1>7, <1>8, <1>9, <1>10, <1>11,
     <1>12, <1>13, <1>14, <1>15, <1>16, <1>17, <1>18, <1>19, <1>20, <1>21,
     <1>22, <1>23, <1>24, <1>25, <1>26, <1>27, <1>28, <1>29, <1>30, <1>31,
     <1>32, Zenon
  DEF DevicesNext, Attach, SocketStep, RunStep, ReaderStep, DeskStep,
      ClientStep

LEMMA RaceSeenStep ==
    ASSUME DevicesTypeOK, RaceSeen, [DevicesNext]_devicesVars
    PROVE  RaceSeen'
<1> USE DevicesAssumption DEF DevicesTypeOK, OrNothing,
       table, socket, lists, wires, sessions, connector, runtimesOf,
       counts, RaceSeen
<1>1. ASSUME NEW c \in Sockets, Hello(c) PROVE RaceSeen'
  BY <1>1 DEF Hello, Refuse, SocketAt
<1>2. ASSUME NEW c \in Sockets, SignIn(c) PROVE RaceSeen'
  BY <1>2 DEF SignIn, Refuse, SocketAt
<1>3. ASSUME NEW c \in Sockets, FindRow(c) PROVE RaceSeen'
  BY <1>3 DEF FindRow, BecomesLive, Refuse, SocketAt
<1>4. ASSUME NEW c \in Sockets, CountRows(c) PROVE RaceSeen'
  BY <1>4 DEF CountRows, Refuse, SocketAt
<1>5. ASSUME NEW c \in Sockets, InsertRow(c) PROVE RaceSeen'
  BY <1>5 DEF InsertRow, BecomesLive, Refuse, SocketAt
<1>6. ASSUME NEW c \in Sockets, List(c) PROVE RaceSeen'
  BY <1>6 DEF List, SocketAt
<1>7. ASSUME NEW c \in Sockets, SayOk(c) PROVE RaceSeen'
  BY <1>7 DEF SayOk, SocketAt, Well, Linked
<1>8. ASSUME NEW c \in Sockets, ListFrames(c) PROVE RaceSeen'
  BY <1>8 DEF ListFrames, SocketAt
<1>9. ASSUME NEW c \in Sockets, ReadNotice(c) PROVE RaceSeen'
  BY <1>9 DEF ReadNotice
<1>10. ASSUME NEW c \in Sockets, ClearRoutes(c) PROVE RaceSeen'
  BY <1>10 DEF ClearRoutes, SocketAt
<1>11. ASSUME NEW c \in Sockets, Unlist(c) PROVE RaceSeen'
  BY <1>11 DEF Unlist, SocketAt
<1>12. ASSUME NEW c \in Sockets, HangUp(c) PROVE RaceSeen'
  BY <1>12 DEF HangUp, SocketAt, Well, Linked
<1>13. CASE BindElsewhere
  BY <1>13 DEF BindElsewhere
<1>14. ASSUME NEW r \in Runs, BeginRun(r) PROVE RaceSeen'
  BY <1>14 DEF BeginRun
<1>15. ASSUME NEW r \in Runs, RouteRun(r) PROVE RaceSeen'
  BY <1>15 DEF RouteRun
<1>16. ASSUME NEW r \in Runs, SendRun(r) PROVE RaceSeen'
  BY <1>16 DEF SendRun
<1>17. ASSUME NEW r \in Runs, AttachRun(r) PROVE RaceSeen'
  BY <1>17 DEF AttachRun
<1>18. ASSUME NEW r \in Runs, PumpEnds(r) PROVE RaceSeen'
  BY <1>18 DEF PumpEnds
<1>19. ASSUME NEW r \in Runs, Reap(r) PROVE RaceSeen'
  BY <1>19 DEF Reap, StopAll
<1>20. ASSUME NEW r \in Runs, Tell(r) PROVE RaceSeen'
  BY <1>20 DEF Tell
<1>21. ASSUME NEW r \in Runs, RuntimeEnds(r) PROVE RaceSeen'
  BY <1>21 DEF RuntimeEnds
<1>22. ASSUME NEW m \in Machines, UnrouteRun(m) PROVE RaceSeen'
  BY <1>22 DEF UnrouteRun
<1>23. ASSUME NEW m \in Machines, CutOff(m) PROVE RaceSeen'
  BY <1>23 DEF CutOff
<1>24. ASSUME NEW m \in Machines, StopRun(m) PROVE RaceSeen'
  BY <1>24 DEF StopRun
<1>25. ASSUME NEW m \in Machines, RevokeRow(m) PROVE RaceSeen'
  BY <1>25 DEF RevokeRow
<1>26. ASSUME NEW m \in Machines, Choose(m) PROVE RaceSeen'
  BY <1>26 DEF Choose, Dial, SocketAt
<1>27. ASSUME NEW m \in Machines, ReadMessage(m) PROVE RaceSeen'
  BY <1>27 DEF ReadMessage, TakeOk, TakeError, TakeStart, TakeStop, LetGo
<1>28. ASSUME NEW m \in Machines, SeeClose(m) PROVE RaceSeen'
  BY <1>28 DEF SeeClose, LetGo
<1>29. ASSUME NEW m \in Machines, Retire(m) PROVE RaceSeen'
  BY <1>29 DEF Retire, StopAll
<1>30. ASSUME NEW m \in Machines, SeeBreak(m) PROVE RaceSeen'
  BY <1>30 DEF SeeBreak, LetGo
<1>31. ASSUME NEW m \in Machines, SwitchOff(m) PROVE RaceSeen'
  BY <1>31 DEF SwitchOff, StopAll
<1>32. ASSUME NEW m \in Machines, SwitchOn(m) PROVE RaceSeen'
  BY <1>32 DEF SwitchOn
<1>34. ASSUME NEW r \in Runs, HostRun(r) PROVE RaceSeen'
  BY <1>34 DEF HostRun
<1>35. ASSUME NEW r \in Runs, FailRun(r) PROVE RaceSeen'
  BY <1>35 DEF FailRun
<1>36. ASSUME NEW g \in Sockets, FinishStop(g) PROVE RaceSeen'
  BY <1>36 DEF FinishStop, StopAll
<1>33. CASE UNCHANGED devicesVars
  BY <1>33 DEF devicesVars, table, socket, lists, wires, sessions, connector,
      runtimesOf, counts
<1> QED
  BY <1>1, <1>2, <1>3, <1>4, <1>5, <1>6, <1>7, <1>8, <1>9, <1>10, <1>11,
     <1>12, <1>13, <1>14, <1>15, <1>16, <1>17, <1>18, <1>19, <1>20, <1>21,
     <1>22, <1>23, <1>24, <1>25, <1>26, <1>27, <1>28, <1>29, <1>30, <1>31,
     <1>32, <1>33, <1>34, <1>35,
     <1>36, Zenon
  DEF DevicesNext, SocketStep, RunStep, ReaderStep, DeskStep, ClientStep

LEMMA RevokedStep ==
    ASSUME DevicesTypeOK, RaceSeen, NothingDangles, RevokedIsOut, [DevicesNext]_devicesVars
    PROVE  RevokedIsOut'
<1> USE DevicesAssumption DEF DevicesTypeOK, OrNothing,
       table, socket, lists, wires, sessions, connector, runtimesOf,
       counts, RaceSeen, RevokedIsOut
<1>1. ASSUME NEW c \in Sockets, Hello(c) PROVE RevokedIsOut'
  BY <1>1 DEF Hello, Refuse, SocketAt
<1>2. ASSUME NEW c \in Sockets, SignIn(c) PROVE RevokedIsOut'
  BY <1>2 DEF SignIn, Refuse, SocketAt
<1>3. ASSUME NEW c \in Sockets, FindRow(c) PROVE RevokedIsOut'
  BY <1>3 DEF FindRow, BecomesLive, Refuse, SocketAt
<1>4. ASSUME NEW c \in Sockets, CountRows(c) PROVE RevokedIsOut'
  BY <1>4 DEF CountRows, Refuse, SocketAt
<1>5. ASSUME NEW c \in Sockets, InsertRow(c) PROVE RevokedIsOut'
  BY <1>5 DEF InsertRow, BecomesLive, Refuse, SocketAt
<1>6. ASSUME NEW c \in Sockets, List(c) PROVE RevokedIsOut'
  BY <1>6 DEF List, SocketAt
<1>7. ASSUME NEW c \in Sockets, SayOk(c) PROVE RevokedIsOut'
  BY <1>7 DEF SayOk, SocketAt, Well, Linked
<1>8. ASSUME NEW c \in Sockets, ListFrames(c) PROVE RevokedIsOut'
  BY <1>8 DEF ListFrames, SocketAt
<1>9. ASSUME NEW c \in Sockets, ReadNotice(c) PROVE RevokedIsOut'
  BY <1>9 DEF ReadNotice
<1>10. ASSUME NEW c \in Sockets, ClearRoutes(c) PROVE RevokedIsOut'
  BY <1>10 DEF ClearRoutes, SocketAt
<1>11. ASSUME NEW c \in Sockets, Unlist(c) PROVE RevokedIsOut'
  BY <1>11 DEF Unlist, SocketAt
<1>12. ASSUME NEW c \in Sockets, HangUp(c) PROVE RevokedIsOut'
  BY <1>12 DEF HangUp, SocketAt, Well, Linked
<1>13. CASE BindElsewhere
  BY <1>13 DEF BindElsewhere
<1>14. ASSUME NEW r \in Runs, BeginRun(r) PROVE RevokedIsOut'
  BY <1>14 DEF BeginRun
<1>15. ASSUME NEW r \in Runs, RouteRun(r) PROVE RevokedIsOut'
  BY <1>15 DEF RouteRun
<1>16. ASSUME NEW r \in Runs, SendRun(r) PROVE RevokedIsOut'
  BY <1>16 DEF SendRun
<1>17. ASSUME NEW r \in Runs, AttachRun(r) PROVE RevokedIsOut'
  BY <1>17 DEF AttachRun
<1>18. ASSUME NEW r \in Runs, PumpEnds(r) PROVE RevokedIsOut'
  BY <1>18 DEF PumpEnds
<1>19. ASSUME NEW r \in Runs, Reap(r) PROVE RevokedIsOut'
  BY <1>19 DEF Reap, StopAll
<1>20. ASSUME NEW r \in Runs, Tell(r) PROVE RevokedIsOut'
  BY <1>20 DEF Tell
<1>21. ASSUME NEW r \in Runs, RuntimeEnds(r) PROVE RevokedIsOut'
  BY <1>21 DEF RuntimeEnds
<1>22. ASSUME NEW m \in Machines, UnrouteRun(m) PROVE RevokedIsOut'
  BY <1>22 DEF UnrouteRun
<1>23. ASSUME NEW m \in Machines, CutOff(m) PROVE RevokedIsOut'
  BY <1>23 DEF CutOff
<1>24. ASSUME NEW m \in Machines, StopRun(m) PROVE RevokedIsOut'
  BY <1>24 DEF StopRun
<1>25. ASSUME NEW m \in Machines, RevokeRow(m) PROVE RevokedIsOut'
  BY <1>25 DEF RevokeRow
<1>26. ASSUME NEW m \in Machines, Choose(m) PROVE RevokedIsOut'
  BY <1>26 DEF Choose, Dial, SocketAt
<1>27. ASSUME NEW m \in Machines, ReadMessage(m) PROVE RevokedIsOut'
  BY <1>27 DEF ReadMessage, TakeOk, TakeError, TakeStart, TakeStop, LetGo
<1>28. ASSUME NEW m \in Machines, SeeClose(m) PROVE RevokedIsOut'
  BY <1>28 DEF SeeClose, LetGo
<1>29. ASSUME NEW m \in Machines, Retire(m) PROVE RevokedIsOut'
  BY <1>29 DEF Retire, StopAll
<1>30. ASSUME NEW m \in Machines, SeeBreak(m) PROVE RevokedIsOut'
  BY <1>30 DEF SeeBreak, LetGo
<1>31. ASSUME NEW m \in Machines, SwitchOff(m) PROVE RevokedIsOut'
  BY <1>31 DEF SwitchOff, StopAll
<1>32. ASSUME NEW m \in Machines, SwitchOn(m) PROVE RevokedIsOut'
  BY <1>32 DEF SwitchOn
<1>34. ASSUME NEW r \in Runs, HostRun(r) PROVE RevokedIsOut'
  BY <1>34 DEF HostRun
<1>35. ASSUME NEW r \in Runs, FailRun(r) PROVE RevokedIsOut'
  BY <1>35 DEF FailRun
<1>36. ASSUME NEW g \in Sockets, FinishStop(g) PROVE RevokedIsOut'
  BY <1>36 DEF FinishStop, StopAll
<1>33. CASE UNCHANGED devicesVars
  BY <1>33 DEF devicesVars, table, socket, lists, wires, sessions, connector,
      runtimesOf, counts
<1> QED
  BY <1>1, <1>2, <1>3, <1>4, <1>5, <1>6, <1>7, <1>8, <1>9, <1>10, <1>11,
     <1>12, <1>13, <1>14, <1>15, <1>16, <1>17, <1>18, <1>19, <1>20, <1>21,
     <1>22, <1>23, <1>24, <1>25, <1>26, <1>27, <1>28, <1>29, <1>30, <1>31,
     <1>32, <1>33, <1>34, <1>35,
     <1>36, Zenon
  DEF DevicesNext, SocketStep, RunStep, ReaderStep, DeskStep, ClientStep

LEMMA RowsStep ==
    ASSUME DevicesTypeOK, Rows, [DevicesNext]_devicesVars
    PROVE  Rows'
<1> USE DevicesAssumption DEF DevicesTypeOK, OrNothing,
       table, socket, lists, wires, sessions, connector, runtimesOf,
       counts, Rows, Past
<1>1. ASSUME NEW c \in Sockets, Hello(c) PROVE Rows'
  <2>1. PICK l \in {"bind", "count", "insert", "list", "over"} : at' = [at EXCEPT ![c] = l]
    BY <1>1, AttachMoves DEF Attach
  <2>2. at[c] \in {"first", "bind", "count", "insert"}
    BY <1>1, AttachMoves DEF Attach
  <2>3. UNCHANGED <<row, rowToken>>
    BY <1>1 DEF Hello, BecomesLive, SocketAt, Refuse
  <2> QED BY <2>1, <2>2, <2>3
<1>2. ASSUME NEW c \in Sockets, SignIn(c) PROVE Rows'
  <2>1. PICK l \in {"bind", "count", "insert", "list", "over"} : at' = [at EXCEPT ![c] = l]
    BY <1>2, AttachMoves DEF Attach
  <2>2. at[c] \in {"first", "bind", "count", "insert"}
    BY <1>2, AttachMoves DEF Attach
  <2>3. UNCHANGED <<row, rowToken>>
    BY <1>2 DEF SignIn, BecomesLive, SocketAt, Refuse
  <2> QED BY <2>1, <2>2, <2>3
<1>3. ASSUME NEW c \in Sockets, FindRow(c) PROVE Rows'
  <2>1. PICK l \in {"bind", "count", "insert", "list", "over"} : at' = [at EXCEPT ![c] = l]
    BY <1>3, AttachMoves DEF Attach
  <2>2. at[c] \in {"first", "bind", "count", "insert"}
    BY <1>3, AttachMoves DEF Attach
  <2>3. \/ UNCHANGED <<row, rowToken>>
        \/ /\ at' = [at EXCEPT ![c] = "list"] \/ at' = [at EXCEPT ![c] = "over"]
           /\ row' = [row EXCEPT ![Of[c]] = "live"] /\ rowToken' = [rowToken EXCEPT ![Of[c]] = c]
    BY <1>3 DEF FindRow, BecomesLive, SocketAt, Refuse
  <2> QED BY <2>1, <2>2, <2>3
<1>4. ASSUME NEW c \in Sockets, CountRows(c) PROVE Rows'
  <2>1. PICK l \in {"bind", "count", "insert", "list", "over"} : at' = [at EXCEPT ![c] = l]
    BY <1>4, AttachMoves DEF Attach
  <2>2. at[c] \in {"first", "bind", "count", "insert"}
    BY <1>4, AttachMoves DEF Attach
  <2>3. UNCHANGED <<row, rowToken>>
    BY <1>4 DEF CountRows, BecomesLive, SocketAt, Refuse
  <2> QED BY <2>1, <2>2, <2>3
<1>5. ASSUME NEW c \in Sockets, InsertRow(c) PROVE Rows'
  <2>1. PICK l \in {"bind", "count", "insert", "list", "over"} : at' = [at EXCEPT ![c] = l]
    BY <1>5, AttachMoves DEF Attach
  <2>2. at[c] \in {"first", "bind", "count", "insert"}
    BY <1>5, AttachMoves DEF Attach
  <2>3. \/ UNCHANGED <<row, rowToken>>
        \/ /\ at' = [at EXCEPT ![c] = "list"] \/ at' = [at EXCEPT ![c] = "over"]
           /\ row' = [row EXCEPT ![Of[c]] = "live"] /\ rowToken' = [rowToken EXCEPT ![Of[c]] = c]
    BY <1>5 DEF InsertRow, BecomesLive, SocketAt, Refuse
  <2> QED BY <2>1, <2>2, <2>3
<1>6. ASSUME NEW c \in Sockets, List(c) PROVE Rows'
  BY <1>6 DEF List, SocketAt
<1>7. ASSUME NEW c \in Sockets, SayOk(c) PROVE Rows'
  <2>1. /\ at[c] = "ok"
        /\ \/ at' = [at EXCEPT ![c] = "frames"] /\ UNCHANGED registry
           \/ /\ at' = [at EXCEPT ![c] = "over"] /\ link[Of[c]] # c
              /\ registry' = [registry EXCEPT ![Of[c]] = Nothing]
    BY <1>7, SayOkMoves
  <2>2. UNCHANGED <<row, rowToken>>
    BY <1>7, SayOkMoves
  <2>3. CASE at' = [at EXCEPT ![c] = "frames"] /\ UNCHANGED registry
    BY <2>1, <2>2, <2>3
  <2>4. CASE /\ at' = [at EXCEPT ![c] = "over"] /\ link[Of[c]] # c
             /\ registry' = [registry EXCEPT ![Of[c]] = Nothing]
    BY <2>1, <2>2, <2>4
  <2> QED BY <2>1, <2>3, <2>4
<1>8. ASSUME NEW c \in Sockets, ListFrames(c) PROVE Rows'
  BY <1>8 DEF ListFrames, SocketAt
<1>9. ASSUME NEW c \in Sockets, ReadNotice(c) PROVE Rows'
  BY <1>9 DEF ReadNotice
<1>10. ASSUME NEW c \in Sockets, ClearRoutes(c) PROVE Rows'
  BY <1>10 DEF ClearRoutes, SocketAt
<1>11. ASSUME NEW c \in Sockets, Unlist(c) PROVE Rows'
  BY <1>11 DEF Unlist, SocketAt
<1>12. ASSUME NEW c \in Sockets, HangUp(c) PROVE Rows'
  BY <1>12 DEF HangUp, SocketAt, Well, Linked
<1>13. CASE BindElsewhere
  BY <1>13 DEF BindElsewhere
<1>14. ASSUME NEW r \in Runs, BeginRun(r) PROVE Rows'
  BY <1>14 DEF BeginRun
<1>15. ASSUME NEW r \in Runs, RouteRun(r) PROVE Rows'
  BY <1>15 DEF RouteRun
<1>16. ASSUME NEW r \in Runs, SendRun(r) PROVE Rows'
  BY <1>16 DEF SendRun
<1>17. ASSUME NEW r \in Runs, AttachRun(r) PROVE Rows'
  BY <1>17 DEF AttachRun
<1>18. ASSUME NEW r \in Runs, PumpEnds(r) PROVE Rows'
  BY <1>18 DEF PumpEnds
<1>19. ASSUME NEW r \in Runs, Reap(r) PROVE Rows'
  BY <1>19 DEF Reap, StopAll
<1>20. ASSUME NEW r \in Runs, Tell(r) PROVE Rows'
  BY <1>20 DEF Tell
<1>21. ASSUME NEW r \in Runs, RuntimeEnds(r) PROVE Rows'
  BY <1>21 DEF RuntimeEnds
<1>22. ASSUME NEW m \in Machines, UnrouteRun(m) PROVE Rows'
  BY <1>22 DEF UnrouteRun
<1>23. ASSUME NEW m \in Machines, CutOff(m) PROVE Rows'
  BY <1>23 DEF CutOff
<1>24. ASSUME NEW m \in Machines, StopRun(m) PROVE Rows'
  BY <1>24 DEF StopRun
<1>25. ASSUME NEW m \in Machines, RevokeRow(m) PROVE Rows'
  BY <1>25 DEF RevokeRow
<1>26. ASSUME NEW m \in Machines, Choose(m) PROVE Rows'
  <2>1. CASE \E c \in Sockets :
                  /\ Of[c] = m /\ at[c] = "unused" /\ at' = [at EXCEPT ![c] = "first"]
                  /\ \/ shown' = [shown EXCEPT ![c] = Nothing]
                     \/ shown' = [shown EXCEPT ![c] = mem[m]]
                  /\ link' = [link EXCEPT ![m] = c] /\ client' = [client EXCEPT ![m] = "reading"]
    <3>1. PICK c \in Sockets :
                  /\ Of[c] = m /\ at[c] = "unused" /\ at' = [at EXCEPT ![c] = "first"]
                  /\ \/ shown' = [shown EXCEPT ![c] = Nothing]
                     \/ shown' = [shown EXCEPT ![c] = mem[m]]
                  /\ link' = [link EXCEPT ![m] = c] /\ client' = [client EXCEPT ![m] = "reading"]
      BY <2>1
    <3> QED BY <1>26, <3>1, ChooseMoves
  <2>2. CASE client[m] = "choose" /\ client' = [client EXCEPT ![m] = "asks"] /\ UNCHANGED <<at, shown, link>>
    <3>1. UNCHANGED <<table, registry, frames>>
      BY <1>26, ChooseMoves DEF lists
    <3> QED BY <2>2, <3>1
  <2> QED BY <1>26, <2>1, <2>2, ChooseMoves
<1>27. ASSUME NEW m \in Machines, ReadMessage(m) PROVE Rows'
  BY <1>27 DEF ReadMessage, TakeOk, TakeError, TakeStart, TakeStop, LetGo
<1>28. ASSUME NEW m \in Machines, SeeClose(m) PROVE Rows'
  BY <1>28 DEF SeeClose, LetGo
<1>29. ASSUME NEW m \in Machines, Retire(m) PROVE Rows'
  BY <1>29 DEF Retire, StopAll
<1>30. ASSUME NEW m \in Machines, SeeBreak(m) PROVE Rows'
  BY <1>30 DEF SeeBreak, LetGo
<1>31. ASSUME NEW m \in Machines, SwitchOff(m) PROVE Rows'
  BY <1>31 DEF SwitchOff, StopAll
<1>32. ASSUME NEW m \in Machines, SwitchOn(m) PROVE Rows'
  BY <1>32 DEF SwitchOn
<1>34. ASSUME NEW r \in Runs, HostRun(r) PROVE Rows'
  BY <1>34 DEF HostRun
<1>35. ASSUME NEW r \in Runs, FailRun(r) PROVE Rows'
  BY <1>35 DEF FailRun
<1>36. ASSUME NEW g \in Sockets, FinishStop(g) PROVE Rows'
  BY <1>36 DEF FinishStop, StopAll
<1>33. CASE UNCHANGED devicesVars
  BY <1>33 DEF devicesVars, table, socket, lists, wires, sessions, connector,
      runtimesOf, counts
<1> QED
  BY <1>1, <1>2, <1>3, <1>4, <1>5, <1>6, <1>7, <1>8, <1>9, <1>10, <1>11,
     <1>12, <1>13, <1>14, <1>15, <1>16, <1>17, <1>18, <1>19, <1>20, <1>21,
     <1>22, <1>23, <1>24, <1>25, <1>26, <1>27, <1>28, <1>29, <1>30, <1>31,
     <1>32, <1>33, <1>34, <1>35,
     <1>36, Zenon
  DEF DevicesNext, SocketStep, RunStep, ReaderStep, DeskStep, ClientStep

LEMMA SocketsMoveOn ==
    ASSUME DevicesTypeOK, [DevicesNext]_devicesVars, NEW s \in Sockets
    PROVE  /\ at[s] # "unused" => shown'[s] = shown[s] /\ at'[s] # "unused"
           /\ at[s] \in Past => at'[s] \in Past
<1> DEFINE Moved == /\ at[s] # "unused" => shown'[s] = shown[s] /\ at'[s] # "unused"
                    /\ at[s] \in Past => at'[s] \in Past
<1> SUFFICES Moved
  OBVIOUS
<1> USE DevicesAssumption DEF DevicesTypeOK, OrNothing, Past,
       table, socket, lists, wires, sessions, connector, runtimesOf
<1>1. ASSUME NEW c \in Sockets, Attach(c) PROVE Moved
  <2>1. PICK l \in {"bind", "count", "insert", "list", "over"} :
           /\ at' = [at EXCEPT ![c] = l]
           /\ l \in {"bind", "count", "insert"} => shown[c] = Nothing \/ at[c] # "first"
    BY <1>1, AttachMoves
  <2>2. UNCHANGED shown /\ at[c] \in {"first", "bind", "count", "insert"}
    BY <1>1, AttachMoves DEF connector, lists
  <2> QED BY <2>1, <2>2
<1>2. ASSUME NEW c \in Sockets, List(c) PROVE Moved
  BY <1>2 DEF List, SocketAt
<1>3. ASSUME NEW c \in Sockets, SayOk(c) PROVE Moved
  <2>1. /\ at[c] = "ok"
        /\ \/ at' = [at EXCEPT ![c] = "frames"] /\ UNCHANGED registry
           \/ /\ at' = [at EXCEPT ![c] = "over"] /\ link[Of[c]] # c
              /\ registry' = [registry EXCEPT ![Of[c]] = Nothing]
    BY <1>3, SayOkMoves
  <2>2. UNCHANGED shown
    BY <1>3, SayOkMoves
  <2>3. CASE at' = [at EXCEPT ![c] = "frames"] /\ UNCHANGED registry
    BY <2>1, <2>2, <2>3
  <2>4. CASE /\ at' = [at EXCEPT ![c] = "over"] /\ link[Of[c]] # c
             /\ registry' = [registry EXCEPT ![Of[c]] = Nothing]
    BY <2>1, <2>2, <2>4
  <2> QED BY <2>1, <2>3, <2>4
<1>4. ASSUME NEW c \in Sockets, ListFrames(c) PROVE Moved
  BY <1>4 DEF ListFrames, SocketAt
<1>5. ASSUME NEW c \in Sockets, ReadNotice(c) PROVE Moved
  BY <1>5 DEF ReadNotice
<1>6. ASSUME NEW c \in Sockets, ClearRoutes(c) PROVE Moved
  BY <1>6 DEF ClearRoutes, SocketAt
<1>7. ASSUME NEW c \in Sockets, Unlist(c) PROVE Moved
  BY <1>7 DEF Unlist, SocketAt
<1>8. ASSUME NEW c \in Sockets, HangUp(c) PROVE Moved
  BY <1>8 DEF HangUp, SocketAt, Linked
<1>9. CASE BindElsewhere
  BY <1>9 DEF BindElsewhere
<1>10. ASSUME NEW r \in Runs, BeginRun(r) PROVE Moved
  BY <1>10 DEF BeginRun
<1>11. ASSUME NEW r \in Runs, RouteRun(r) PROVE Moved
  BY <1>11 DEF RouteRun
<1>12. ASSUME NEW r \in Runs, SendRun(r) PROVE Moved
  BY <1>12 DEF SendRun
<1>13. ASSUME NEW r \in Runs, AttachRun(r) PROVE Moved
  BY <1>13 DEF AttachRun
<1>14. ASSUME NEW r \in Runs, PumpEnds(r) PROVE Moved
  BY <1>14 DEF PumpEnds
<1>15. ASSUME NEW r \in Runs, Reap(r) PROVE Moved
  BY <1>15 DEF Reap, StopAll
<1>16. ASSUME NEW r \in Runs, Tell(r) PROVE Moved
  BY <1>16 DEF Tell
<1>17. ASSUME NEW r \in Runs, RuntimeEnds(r) PROVE Moved
  BY <1>17 DEF RuntimeEnds
<1>18. ASSUME NEW m \in Machines, UnrouteRun(m) PROVE Moved
  BY <1>18 DEF UnrouteRun
<1>19. ASSUME NEW m \in Machines, CutOff(m) PROVE Moved
  BY <1>19 DEF CutOff
<1>20. ASSUME NEW m \in Machines, StopRun(m) PROVE Moved
  BY <1>20 DEF StopRun
<1>21. ASSUME NEW m \in Machines, RevokeRow(m) PROVE Moved
  BY <1>21 DEF RevokeRow
<1>22. ASSUME NEW m \in Machines, Choose(m) PROVE Moved
  <2>1. CASE \E c \in Sockets :
                  /\ Of[c] = m /\ at[c] = "unused" /\ at' = [at EXCEPT ![c] = "first"]
                  /\ \/ shown' = [shown EXCEPT ![c] = Nothing]
                     \/ shown' = [shown EXCEPT ![c] = mem[m]]
                  /\ link' = [link EXCEPT ![m] = c] /\ client' = [client EXCEPT ![m] = "reading"]
    <3>1. PICK c \in Sockets :
                  /\ Of[c] = m /\ at[c] = "unused" /\ at' = [at EXCEPT ![c] = "first"]
                  /\ \/ shown' = [shown EXCEPT ![c] = Nothing]
                     \/ shown' = [shown EXCEPT ![c] = mem[m]]
                  /\ link' = [link EXCEPT ![m] = c] /\ client' = [client EXCEPT ![m] = "reading"]
      BY <2>1
    <3> QED BY <1>22, <3>1, ChooseMoves
  <2>2. CASE client[m] = "choose" /\ client' = [client EXCEPT ![m] = "asks"] /\ UNCHANGED <<at, shown, link>>
    <3>1. UNCHANGED <<table, registry, frames>>
      BY <1>22, ChooseMoves DEF lists
    <3> QED BY <2>2, <3>1
  <2> QED BY <1>22, <2>1, <2>2, ChooseMoves
<1>23. ASSUME NEW m \in Machines, ReadMessage(m) PROVE Moved
  BY <1>23 DEF ReadMessage, TakeOk, TakeError, TakeStart, TakeStop, LetGo
<1>24. ASSUME NEW m \in Machines, SeeClose(m) PROVE Moved
  BY <1>24 DEF SeeClose, LetGo
<1>25. ASSUME NEW m \in Machines, Retire(m) PROVE Moved
  BY <1>25 DEF Retire, StopAll
<1>26. ASSUME NEW m \in Machines, SeeBreak(m) PROVE Moved
  BY <1>26 DEF SeeBreak, LetGo
<1>27. ASSUME NEW m \in Machines, SwitchOff(m) PROVE Moved
  BY <1>27 DEF SwitchOff, StopAll
<1>28. ASSUME NEW m \in Machines, SwitchOn(m) PROVE Moved
  BY <1>28 DEF SwitchOn
<1>30. ASSUME NEW r \in Runs, HostRun(r) PROVE Moved
  BY <1>30 DEF HostRun
<1>31. ASSUME NEW r \in Runs, FailRun(r) PROVE Moved
  BY <1>31 DEF FailRun
<1>32. ASSUME NEW g \in Sockets, FinishStop(g) PROVE Moved
  BY <1>32 DEF FinishStop, StopAll
<1>29. CASE UNCHANGED devicesVars
  BY <1>29 DEF devicesVars, table, socket, lists, wires, sessions, connector,
      runtimesOf, counts
<1> QED
  BY <1>1, <1>2, <1>3, <1>4, <1>5, <1>6, <1>7, <1>8, <1>9, <1>10, <1>11,
     <1>12, <1>13, <1>14, <1>15, <1>16, <1>17, <1>18, <1>19, <1>20, <1>21,
     <1>22, <1>23, <1>24, <1>25, <1>26, <1>27, <1>28, <1>29, <1>30, <1>31,
     <1>32, Zenon
  DEF DevicesNext, Attach, SocketStep, RunStep, ReaderStep, DeskStep,
      ClientStep

(* The messages a step leaves on a wire were there or are of these kinds.  *)
Fresh(d, e) ==
    \/ e.is \in {"error", "stop"}
    \/ e.is = "start" /\ \E r \in Runs : e.run = r /\ hold[r] = d
    \/ e.is = "ok" /\ at[d] = "ok" /\ (e.token # Nothing => e.token = d /\ shown[d] = Nothing)
Known(d, e) == \E j \in 1..Len(down[d]) : e = down[d][j]
Incoming == \A d \in Sockets : \A i \in 1..Len(down'[d]) : Known(d, down'[d][i]) \/ Fresh(d, down'[d][i])

LEMMA PostedIn ==
    ASSUME DevicesTypeOK, NEW c, NEW msg \in Messages, c \in Sockets => Fresh(c, msg), down' = Posted(c, msg)
    PROVE  Incoming
<1> SUFFICES ASSUME NEW d \in Sockets, NEW i \in 1..Len(down'[d])
             PROVE  Known(d, down'[d][i]) \/ Fresh(d, down'[d][i])
  BY DEF Incoming
<1>1. down \in [Sockets -> Seq(Messages)]
  BY DEF DevicesTypeOK
<1>2. CASE down'[d] = down[d]
  BY <1>2 DEF Known
<1>3. CASE d = c /\ down'[d] = Append(down[d], msg)
  BY <1>1, <1>3, AppendOk DEF Known
<1> QED BY <1>1, <1>2, <1>3 DEF Posted

LEMMA KeptIn == ASSUME DevicesTypeOK, UNCHANGED down PROVE Incoming
BY DEF Known, Incoming, DevicesTypeOK

LEMMA MessagesComing ==
    ASSUME DevicesTypeOK, [DevicesNext]_devicesVars
    PROVE  Incoming
<1> USE DEF wires, Well
<1>1. ASSUME NEW c \in Sockets, Hello(c) PROVE Incoming
  <2>1. UNCHANGED down \/ down' = Posted(c, [is |-> "error"])
    BY <1>1 DEF Hello, Refuse, wires
  <2>2. Fresh(c, [is |-> "error"])
    BY DEF Fresh
  <2> QED BY <2>1, <2>2, PostedIn, KeptIn, MessageTypes, Zenon
<1>2. ASSUME NEW c \in Sockets, SignIn(c) PROVE Incoming
  <2>1. UNCHANGED down \/ down' = Posted(c, [is |-> "error"])
    BY <1>2 DEF SignIn, Refuse, wires
  <2>2. Fresh(c, [is |-> "error"])
    BY DEF Fresh
  <2> QED BY <2>1, <2>2, PostedIn, KeptIn, MessageTypes, Zenon
<1>3. ASSUME NEW c \in Sockets, FindRow(c) PROVE Incoming
  <2>1. UNCHANGED down \/ down' = Posted(c, [is |-> "error"])
    BY <1>3 DEF FindRow, Refuse, wires
  <2>2. Fresh(c, [is |-> "error"])
    BY DEF Fresh
  <2> QED BY <2>1, <2>2, PostedIn, KeptIn, MessageTypes, Zenon
<1>4. ASSUME NEW c \in Sockets, CountRows(c) PROVE Incoming
  <2>1. UNCHANGED down \/ down' = Posted(c, [is |-> "error"])
    BY <1>4 DEF CountRows, Refuse, wires
  <2>2. Fresh(c, [is |-> "error"])
    BY DEF Fresh
  <2> QED BY <2>1, <2>2, PostedIn, KeptIn, MessageTypes, Zenon
<1>5. ASSUME NEW c \in Sockets, InsertRow(c) PROVE Incoming
  <2>1. UNCHANGED down \/ down' = Posted(c, [is |-> "error"])
    BY <1>5 DEF InsertRow, Refuse, wires
  <2>2. Fresh(c, [is |-> "error"])
    BY DEF Fresh
  <2> QED BY <2>1, <2>2, PostedIn, KeptIn, MessageTypes, Zenon
<1>6. ASSUME NEW c \in Sockets, List(c) PROVE Incoming
  BY <1>6, KeptIn DEF List
<1>7. ASSUME NEW c \in Sockets, SayOk(c) PROVE Incoming
  <2> DEFINE ok == [is |-> "ok", token |-> IF shown[c] = Nothing THEN c ELSE Nothing]
  <2>1. UNCHANGED down \/ down' = [down EXCEPT ![c] = <<ok>> \o down[c]]
    BY <1>7 DEF SayOk
  <2>2. Fresh(c, ok) /\ ok \in Messages
    BY <1>7, MessageTypes DEF Fresh, SayOk, OrNothing
  <2> HIDE DEF ok
  <2>3. down \in [Sockets -> Seq(Messages)]
    BY DEF DevicesTypeOK
  <2>4. CASE down' = [down EXCEPT ![c] = <<ok>> \o down[c]]
    <3> SUFFICES ASSUME NEW d \in Sockets, NEW i \in 1..Len(down'[d])
                 PROVE  Known(d, down'[d][i]) \/ Fresh(d, down'[d][i])
      BY DEF Incoming
    <3>1. CASE d # c
      BY <2>3, <2>4, <3>1 DEF Known
    <3>2. CASE d = c
      <4>1. down[c] \in Seq(Messages) /\ down'[c] = <<ok>> \o down[c]
        BY <2>3, <2>4
      <4> QED BY <2>2, <3>2, <4>1, ConsOk DEF Known
    <3> QED BY <3>1, <3>2
  <2> QED BY <2>1, <2>4, KeptIn
<1>8. ASSUME NEW c \in Sockets, ListFrames(c) PROVE Incoming
  BY <1>8, KeptIn DEF ListFrames
<1>9. ASSUME NEW c \in Sockets, ReadNotice(c) PROVE Incoming
  BY <1>9, KeptIn DEF ReadNotice
<1>10. ASSUME NEW c \in Sockets, ClearRoutes(c) PROVE Incoming
  BY <1>10, KeptIn DEF ClearRoutes
<1>11. ASSUME NEW c \in Sockets, Unlist(c) PROVE Incoming
  BY <1>11, KeptIn DEF Unlist
<1>12. ASSUME NEW c \in Sockets, HangUp(c) PROVE Incoming
  BY <1>12, KeptIn DEF HangUp
<1>13. CASE BindElsewhere
  BY <1>13, KeptIn DEF BindElsewhere
<1>14. ASSUME NEW r \in Runs, BeginRun(r) PROVE Incoming
  BY <1>14, KeptIn DEF BeginRun
<1>15. ASSUME NEW r \in Runs, RouteRun(r) PROVE Incoming
  BY <1>15, KeptIn DEF RouteRun
<1>16. ASSUME NEW r \in Runs, SendRun(r) PROVE Incoming
  <2>1. down' = Posted(hold[r], [is |-> "start", run |-> r])
    BY <1>16 DEF SendRun
  <2>2. Fresh(hold[r], [is |-> "start", run |-> r])
    BY DEF Fresh
  <2> QED BY <2>1, <2>2, PostedIn, MessageTypes, Zenon
<1>17. ASSUME NEW r \in Runs, AttachRun(r) PROVE Incoming
  BY <1>17, KeptIn DEF AttachRun
<1>18. ASSUME NEW r \in Runs, PumpEnds(r) PROVE Incoming
  BY <1>18, KeptIn DEF PumpEnds
<1>19. ASSUME NEW r \in Runs, Reap(r) PROVE Incoming
  BY <1>19, KeptIn DEF Reap
<1>20. ASSUME NEW r \in Runs, Tell(r) PROVE Incoming
  BY <1>20, KeptIn DEF Tell
<1>21. ASSUME NEW r \in Runs, RuntimeEnds(r) PROVE Incoming
  BY <1>21, KeptIn DEF RuntimeEnds
<1>22. ASSUME NEW m \in Machines, UnrouteRun(m) PROVE Incoming
  BY <1>22, KeptIn DEF UnrouteRun
<1>23. ASSUME NEW m \in Machines, CutOff(m) PROVE Incoming
  <2>1. UNCHANGED down \/ down' = Posted(registry[m], [is |-> "error"])
    BY <1>23 DEF CutOff
  <2>2. Fresh(registry[m], [is |-> "error"])
    BY DEF Fresh
  <2> QED BY <2>1, <2>2, PostedIn, KeptIn, MessageTypes, Zenon
<1>24. ASSUME NEW m \in Machines, StopRun(m) PROVE Incoming
  <2>1. down' = Posted(hold[served[m]], [is |-> "stop"])
    BY <1>24 DEF StopRun
  <2>2. Fresh(hold[served[m]], [is |-> "stop"])
    BY DEF Fresh
  <2> QED BY <2>1, <2>2, PostedIn, MessageTypes, Zenon
<1>25. ASSUME NEW m \in Machines, RevokeRow(m) PROVE Incoming
  BY <1>25, KeptIn DEF RevokeRow
<1>26. ASSUME NEW m \in Machines, Choose(m) PROVE Incoming
  BY <1>26, ChooseMoves, KeptIn DEF wires
<1>27. ASSUME NEW m \in Machines, ReadMessage(m) PROVE Incoming
  <2>1. down' = [down EXCEPT ![link[m]] = Tail(down[link[m]])] /\ down[link[m]] # <<>>
    BY <1>27, ReadMoves
  <2>2. down \in [Sockets -> Seq(Messages)]
    BY DEF DevicesTypeOK
  <2> SUFFICES ASSUME NEW d \in Sockets, NEW i \in 1..Len(down'[d])
               PROVE  Known(d, down'[d][i]) \/ Fresh(d, down'[d][i])
    BY DEF Incoming
  <2>3. CASE d # link[m]
    BY <2>1, <2>2, <2>3 DEF Known
  <2>4. CASE d = link[m]
    BY <2>1, <2>2, <2>4, TailOk DEF Known
  <2> QED BY <2>3, <2>4
<1>28. ASSUME NEW m \in Machines, SeeClose(m) PROVE Incoming
  BY <1>28, KeptIn DEF SeeClose
<1>29. ASSUME NEW m \in Machines, Retire(m) PROVE Incoming
  BY <1>29, KeptIn DEF Retire
<1>30. ASSUME NEW m \in Machines, SeeBreak(m) PROVE Incoming
  BY <1>30, KeptIn DEF SeeBreak
<1>31. ASSUME NEW m \in Machines, SwitchOff(m) PROVE Incoming
  BY <1>31, KeptIn DEF SwitchOff
<1>32. ASSUME NEW m \in Machines, SwitchOn(m) PROVE Incoming
  BY <1>32, KeptIn DEF SwitchOn
<1>34. ASSUME NEW r \in Runs, HostRun(r) PROVE Incoming
  BY <1>34, KeptIn DEF HostRun
<1>35. ASSUME NEW r \in Runs, FailRun(r) PROVE Incoming
  BY <1>35, KeptIn DEF FailRun
<1>36. ASSUME NEW g \in Sockets, FinishStop(g) PROVE Incoming
  BY <1>36, KeptIn DEF FinishStop
<1>33. CASE UNCHANGED devicesVars
  BY <1>33, KeptIn DEF devicesVars, table, socket, lists, wires, sessions, connector,
      runtimesOf, counts
<1> QED
  BY <1>1, <1>2, <1>3, <1>4, <1>5, <1>6, <1>7, <1>8, <1>9, <1>10, <1>11,
     <1>12, <1>13, <1>14, <1>15, <1>16, <1>17, <1>18, <1>19, <1>20, <1>21,
     <1>22, <1>23, <1>24, <1>25, <1>26, <1>27, <1>28, <1>29, <1>30, <1>31,
     <1>32, <1>33, <1>34, <1>35,
     <1>36, Zenon
  DEF DevicesNext, SocketStep, RunStep, ReaderStep, DeskStep, ClientStep

(* What a step stores was given on the socket the machine reads.           *)
Stored(n) ==
    \/ disk'[n] = disk[n] \/ disk'[n] = Nothing
    \/ /\ link[n] \in Sockets /\ disk'[n] = link[n] /\ link'[n] = link[n]
       /\ shown[link[n]] = Nothing /\ at[link[n]] \in Past

LEMMA Storing ==
    ASSUME DevicesTypeOK, Attached, Given, [DevicesNext]_devicesVars, NEW n \in Machines
    PROVE  Stored(n)
<1> USE DEF DevicesTypeOK, OrNothing, connector, Stored
<1>1. ASSUME NEW c \in Sockets, Attach(c) PROVE Stored(n)
  BY <1>1, AttachMoves
<1>2. ASSUME NEW c \in Sockets, List(c) PROVE Stored(n)
  BY <1>2 DEF List
<1>3. ASSUME NEW c \in Sockets, SayOk(c) PROVE Stored(n)
  BY <1>3 DEF SayOk
<1>4. ASSUME NEW c \in Sockets, ListFrames(c) PROVE Stored(n)
  BY <1>4 DEF ListFrames
<1>5. ASSUME NEW c \in Sockets, ReadNotice(c) PROVE Stored(n)
  BY <1>5 DEF ReadNotice
<1>6. ASSUME NEW c \in Sockets, ClearRoutes(c) PROVE Stored(n)
  BY <1>6 DEF ClearRoutes
<1>7. ASSUME NEW c \in Sockets, Unlist(c) PROVE Stored(n)
  BY <1>7 DEF Unlist
<1>8. ASSUME NEW c \in Sockets, HangUp(c) PROVE Stored(n)
  BY <1>8 DEF HangUp
<1>9. CASE BindElsewhere
  BY <1>9 DEF BindElsewhere
<1>10. ASSUME NEW r \in Runs, BeginRun(r) PROVE Stored(n)
  BY <1>10 DEF BeginRun
<1>11. ASSUME NEW r \in Runs, RouteRun(r) PROVE Stored(n)
  BY <1>11 DEF RouteRun
<1>12. ASSUME NEW r \in Runs, SendRun(r) PROVE Stored(n)
  BY <1>12 DEF SendRun
<1>13. ASSUME NEW r \in Runs, AttachRun(r) PROVE Stored(n)
  BY <1>13 DEF AttachRun
<1>14. ASSUME NEW r \in Runs, PumpEnds(r) PROVE Stored(n)
  BY <1>14 DEF PumpEnds
<1>15. ASSUME NEW r \in Runs, Reap(r) PROVE Stored(n)
  BY <1>15 DEF Reap
<1>16. ASSUME NEW r \in Runs, Tell(r) PROVE Stored(n)
  BY <1>16 DEF Tell
<1>17. ASSUME NEW r \in Runs, RuntimeEnds(r) PROVE Stored(n)
  BY <1>17 DEF RuntimeEnds
<1>18. ASSUME NEW m \in Machines, UnrouteRun(m) PROVE Stored(n)
  BY <1>18 DEF UnrouteRun
<1>19. ASSUME NEW m \in Machines, CutOff(m) PROVE Stored(n)
  BY <1>19 DEF CutOff
<1>20. ASSUME NEW m \in Machines, StopRun(m) PROVE Stored(n)
  BY <1>20 DEF StopRun
<1>21. ASSUME NEW m \in Machines, RevokeRow(m) PROVE Stored(n)
  BY <1>21 DEF RevokeRow
<1>22. ASSUME NEW m \in Machines, Choose(m) PROVE Stored(n)
  BY <1>22, ChooseMoves
<1>23. ASSUME NEW m \in Machines, ReadMessage(m) PROVE Stored(n)
  <2> DEFINE c == link[m]
             msg == Head(down[c])
  <2>1. c \in Sockets /\ down[c] \in Seq(Messages) /\ down[c] # <<>>
    <3>1. c \in Sockets
      BY <1>23, ReadMoves DEF Attached
    <3> QED BY <1>23, <3>1, ReadMoves
  <2>2. msg = down[c][1] /\ 1 \in 1..Len(down[c])
    BY <2>1, TailOk
  <2>3. msg.is = "ok" /\ msg.token # Nothing => msg.token = c /\ shown[c] = Nothing /\ at[c] \in Past
    BY <2>1, <2>2 DEF Given, GivenIn
  <2> HIDE DEF msg
  <2>4. CASE msg.is = "ok" /\ TakeOk(m, msg.token)
    <3> DEFINE v == IF msg.token = Nothing THEN disk[m] ELSE msg.token
    <3>1. UNCHANGED link /\ (UNCHANGED disk \/ disk' = [disk EXCEPT ![m] = v])
      BY <2>4 DEF TakeOk
    <3>2. v = disk[m] \/ (v = msg.token /\ msg.token # Nothing)
      OBVIOUS
    <3> HIDE DEF v
    <3>3. CASE UNCHANGED disk
      BY <3>3
    <3>4. CASE disk' = [disk EXCEPT ![m] = v]
      <4>1. CASE n = m
        BY <2>1, <2>3, <2>4, <3>1, <3>2, <3>4, <4>1
      <4>2. CASE n # m
        BY <3>4, <4>2
      <4> QED BY <4>1, <4>2
    <3> QED BY <3>1, <3>3, <3>4
  <2>5. CASE msg.is = "error" /\ TakeError(m)
    BY <2>5 DEF TakeError
  <2>6. CASE UNCHANGED connector
    BY <2>6
  <2> QED BY <1>23, <2>4, <2>5, <2>6, Zenon DEF ReadMessage, TakeStart, TakeStop, msg
<1>24. ASSUME NEW m \in Machines, SeeClose(m) PROVE Stored(n)
  BY <1>24 DEF SeeClose
<1>25. ASSUME NEW m \in Machines, Retire(m) PROVE Stored(n)
  BY <1>25 DEF Retire
<1>26. ASSUME NEW m \in Machines, SeeBreak(m) PROVE Stored(n)
  BY <1>26 DEF SeeBreak
<1>27. ASSUME NEW m \in Machines, SwitchOff(m) PROVE Stored(n)
  BY <1>27 DEF SwitchOff, Forgotten
<1>28. ASSUME NEW m \in Machines, SwitchOn(m) PROVE Stored(n)
  BY <1>28 DEF SwitchOn
<1>30. ASSUME NEW r \in Runs, HostRun(r) PROVE Stored(n)
  BY <1>30 DEF HostRun
<1>31. ASSUME NEW r \in Runs, FailRun(r) PROVE Stored(n)
  BY <1>31 DEF FailRun
<1>32. ASSUME NEW g \in Sockets, FinishStop(g) PROVE Stored(n)
  BY <1>32 DEF FinishStop, Forgotten
<1>29. CASE UNCHANGED devicesVars
  BY <1>29 DEF devicesVars, table, socket, lists, wires, sessions, connector,
      runtimesOf, counts
<1> QED
  BY <1>1, <1>2, <1>3, <1>4, <1>5, <1>6, <1>7, <1>8, <1>9, <1>10, <1>11,
     <1>12, <1>13, <1>14, <1>15, <1>16, <1>17, <1>18, <1>19, <1>20, <1>21,
     <1>22, <1>23, <1>24, <1>25, <1>26, <1>27, <1>28, <1>29, <1>30, <1>31,
     <1>32, Zenon
  DEF DevicesNext, Attach, SocketStep, RunStep, ReaderStep, DeskStep,
      ClientStep

LEMMA GivenStep ==
    ASSUME DevicesTypeOK, Attached, Given, [DevicesNext]_devicesVars
    PROVE  Given'
<1>1. ASSUME NEW c \in Sockets PROVE GivenIn(down[c], c)'
  <2> SUFFICES ASSUME NEW i \in 1..Len(down'[c]), down'[c][i].is = "ok", down'[c][i].token # Nothing
               PROVE  down'[c][i].token = c /\ shown'[c] = Nothing /\ at'[c] \in Past
    BY DEF GivenIn
  <2>1. CASE Known(c, down'[c][i])
    <3>1. down'[c][i].token = c /\ shown[c] = Nothing /\ at[c] \in Past
      BY <2>1 DEF Known, Given, GivenIn
    <3> QED BY <3>1, SocketsMoveOn DEF Past
  <2>2. CASE Fresh(c, down'[c][i])
    <3>1. down'[c][i].token = c /\ shown[c] = Nothing /\ at[c] = "ok"
      BY <2>2 DEF Fresh
    <3> QED BY <3>1, SocketsMoveOn DEF Past
  <2> QED BY <2>1, <2>2, MessagesComing DEF Incoming
<1>2. ASSUME NEW n \in Machines, disk'[n] # Nothing PROVE at'[disk'[n]] \in Past
  <2>1. CASE disk'[n] = disk[n]
    <3>1. disk[n] \in Sockets /\ at[disk[n]] \in Past
      BY <1>2, <2>1 DEF DevicesTypeOK, OrNothing, Given
    <3> QED BY <2>1, <3>1, SocketsMoveOn
  <2>2. CASE disk'[n] # disk[n]
    <3>1. /\ disk'[n] \in Sockets /\ at[disk'[n]] \in Past
      BY <1>2, <2>2, Storing DEF Stored
    <3> QED BY <3>1, SocketsMoveOn
  <2> QED BY <2>1, <2>2
<1> QED BY <1>1, <1>2 DEF Given

LEMMA OwnStep ==
    ASSUME DevicesTypeOK, NothingDangles, Own, [DevicesNext]_devicesVars
    PROVE  Own'
<1>1. ASSUME NEW c \in Sockets PROVE OwnIn(down[c], c)'
  <2> SUFFICES ASSUME NEW i \in 1..Len(down'[c]), down'[c][i].is = "start"
               PROVE  RunOf[down'[c][i].run] = Of[c]
    BY DEF OwnIn
  <2>1. CASE Known(c, down'[c][i])
    BY <2>1 DEF Known, Own, OwnIn
  <2>2. CASE Fresh(c, down'[c][i])
    <3>1. PICK r \in Runs : down'[c][i].run = r /\ hold[r] = c
      BY <2>2 DEF Fresh
    <3>2. c # Nothing
      BY DevicesAssumption
    <3> QED BY <3>1, <3>2 DEF Own
  <2> QED BY <2>1, <2>2, MessagesComing DEF Incoming
<1>2. ASSUME NEW q \in Runs PROVE hold'[q] # Nothing => Of[hold'[q]] = RunOf[q]
  <2> DEFINE Holds == hold'[q] # Nothing => Of[hold'[q]] = RunOf[q]
  <2> SUFFICES Holds
    OBVIOUS
  <2> USE DevicesAssumption DEF Own, DevicesTypeOK, sessions
  <2>1. ASSUME NEW c \in Sockets, Attach(c) PROVE Holds
    BY <2>1, AttachMoves
  <2>2. ASSUME NEW c \in Sockets, List(c) PROVE Holds
    BY <2>2 DEF List
  <2>3. ASSUME NEW c \in Sockets, SayOk(c) PROVE Holds
    BY <2>3, SayOkMoves
  <2>4. ASSUME NEW c \in Sockets, ListFrames(c) PROVE Holds
    BY <2>4 DEF ListFrames
  <2>5. ASSUME NEW c \in Sockets, ReadNotice(c) PROVE Holds
    BY <2>5 DEF ReadNotice
  <2>6. ASSUME NEW c \in Sockets, ClearRoutes(c) PROVE Holds
    BY <2>6 DEF ClearRoutes
  <2>7. ASSUME NEW c \in Sockets, Unlist(c) PROVE Holds
    BY <2>7 DEF Unlist
  <2>8. ASSUME NEW c \in Sockets, HangUp(c) PROVE Holds
    BY <2>8 DEF HangUp
  <2>9. CASE BindElsewhere
    BY <2>9 DEF BindElsewhere
  <2>10. ASSUME NEW r \in Runs, BeginRun(r) PROVE Holds
    BY <2>10 DEF BeginRun, NothingDangles
  <2>11. ASSUME NEW r \in Runs, RouteRun(r) PROVE Holds
    BY <2>11 DEF RouteRun
  <2>12. ASSUME NEW r \in Runs, SendRun(r) PROVE Holds
    BY <2>12 DEF SendRun
  <2>13. ASSUME NEW r \in Runs, AttachRun(r) PROVE Holds
    BY <2>13 DEF AttachRun
  <2>14. ASSUME NEW r \in Runs, PumpEnds(r) PROVE Holds
    BY <2>14 DEF PumpEnds
  <2>15. ASSUME NEW r \in Runs, Reap(r) PROVE Holds
    BY <2>15 DEF Reap
  <2>16. ASSUME NEW r \in Runs, Tell(r) PROVE Holds
    BY <2>16 DEF Tell
  <2>17. ASSUME NEW r \in Runs, RuntimeEnds(r) PROVE Holds
    BY <2>17 DEF RuntimeEnds
  <2>18. ASSUME NEW m \in Machines, UnrouteRun(m) PROVE Holds
    BY <2>18 DEF UnrouteRun
  <2>19. ASSUME NEW m \in Machines, CutOff(m) PROVE Holds
    BY <2>19 DEF CutOff
  <2>20. ASSUME NEW m \in Machines, StopRun(m) PROVE Holds
    BY <2>20 DEF StopRun
  <2>21. ASSUME NEW m \in Machines, RevokeRow(m) PROVE Holds
    BY <2>21 DEF RevokeRow
  <2>22. ASSUME NEW m \in Machines, Choose(m) PROVE Holds
    BY <2>22, ChooseMoves
  <2>23. ASSUME NEW m \in Machines, ReadMessage(m) PROVE Holds
    BY <2>23, ReadMoves
  <2>24. ASSUME NEW m \in Machines, SeeClose(m) PROVE Holds
    BY <2>24 DEF SeeClose
  <2>25. ASSUME NEW m \in Machines, Retire(m) PROVE Holds
    BY <2>25 DEF Retire
  <2>26. ASSUME NEW m \in Machines, SeeBreak(m) PROVE Holds
    BY <2>26 DEF SeeBreak
  <2>27. ASSUME NEW m \in Machines, SwitchOff(m) PROVE Holds
    BY <2>27 DEF SwitchOff
  <2>28. ASSUME NEW m \in Machines, SwitchOn(m) PROVE Holds
    BY <2>28 DEF SwitchOn
  <2>30. ASSUME NEW r \in Runs, HostRun(r) PROVE Holds
    BY <2>30 DEF HostRun
  <2>31. ASSUME NEW r \in Runs, FailRun(r) PROVE Holds
    BY <2>31 DEF FailRun
  <2>32. ASSUME NEW g \in Sockets, FinishStop(g) PROVE Holds
    BY <2>32 DEF FinishStop
  <2>29. CASE UNCHANGED devicesVars
    BY <2>29 DEF devicesVars, table, socket, lists, wires, sessions, connector,
        runtimesOf, counts
  <2> QED
    BY <2>1, <2>2, <2>3, <2>4, <2>5, <2>6, <2>7, <2>8, <2>9, <2>10, <2>11,
       <2>12, <2>13, <2>14, <2>15, <2>16, <2>17, <2>18, <2>19, <2>20, <2>21,
       <2>22, <2>23, <2>24, <2>25, <2>26, <2>27, <2>28, <2>29, <2>30, <2>31,
       <2>32, Zenon
    DEF DevicesNext, Attach, SocketStep, RunStep, ReaderStep, DeskStep,
        ClientStep
<1> QED BY <1>1, <1>2 DEF Own

(* A start is on one wire, once, until it is read.                         *)
LEMMA DownMoves ==
    ASSUME [DevicesNext]_devicesVars
    PROVE  \/ UNCHANGED down
           \/ \E c : \E k \in {"error", "stop"} : down' = Posted(c, [is |-> k])
           \/ \E r \in Runs : SendRun(r)
           \/ \E c \in Sockets : SayOk(c)
           \/ \E m \in Machines : ReadMessage(m)
<1> DEFINE Says == \/ UNCHANGED down
                   \/ \E c : \E k \in {"error", "stop"} : down' = Posted(c, [is |-> k])
<1>1. ASSUME NEW c \in Sockets, Attach(c) PROVE Says
  BY <1>1, Zenon DEF Attach, Hello, SignIn, FindRow, CountRows, InsertRow, Refuse, wires
<1>2. ASSUME NEW c \in Sockets, List(c) \/ ListFrames(c) \/ ReadNotice(c) \/ ClearRoutes(c) \/ Unlist(c) \/ HangUp(c)
      PROVE  Says
  BY <1>2, Zenon DEF List, ListFrames, ReadNotice, ClearRoutes, Unlist, HangUp, wires
<1>3. CASE BindElsewhere
  BY <1>3, Zenon DEF BindElsewhere, wires
<1>4. ASSUME NEW r \in Runs, BeginRun(r) \/ RouteRun(r) \/ AttachRun(r) \/ PumpEnds(r) PROVE Says
  BY <1>4, Zenon DEF BeginRun, RouteRun, AttachRun, PumpEnds, wires
<1>5. ASSUME NEW m \in Machines, UnrouteRun(m) \/ RevokeRow(m) PROVE Says
  BY <1>5, Zenon DEF UnrouteRun, RevokeRow, wires
<1>6. ASSUME NEW m \in Machines, CutOff(m) PROVE Says
  BY <1>6, Zenon DEF CutOff
<1>7. ASSUME NEW m \in Machines, StopRun(m) PROVE Says
  BY <1>7, Zenon DEF StopRun
<1>8. ASSUME NEW r \in Runs, Moves(r) PROVE Says
  BY <1>8, Zenon DEF Moves, HostRun, FailRun, Reap, Tell, RuntimeEnds, wires
<1>9. ASSUME NEW m \in Machines, Choose(m) \/ SeeClose(m) \/ Retire(m) \/ SeeBreak(m) \/ SwitchOff(m) \/ SwitchOn(m)
      PROVE  Says
  BY <1>9, Zenon DEF Choose, Dial, SeeClose, Retire, SeeBreak, SwitchOff, SwitchOn, wires
<1>10. ASSUME NEW g \in Sockets, FinishStop(g) PROVE Says
  BY <1>10, Zenon DEF FinishStop, wires
<1>11. CASE UNCHANGED devicesVars
  BY <1>11, Zenon DEF devicesVars, wires
<1> QED
  BY <1>1, <1>2, <1>3, <1>4, <1>5, <1>6, <1>7, <1>8, <1>9, <1>10, <1>11, Zenon
  DEF DevicesNext, SocketStep, Attach, RunStep, ReaderStep, DeskStep, ClientStep, Moves

LEMMA StartersStay ==
    ASSUME DevicesTypeOK, [DevicesNext]_devicesVars, NEW r \in Runs, starter[r] \in {"sent", "done"}
    PROVE  starter'[r] \in {"sent", "done"} /\ hold'[r] = hold[r]
<1> DEFINE Stays == starter'[r] \in {"sent", "done"} /\ hold'[r] = hold[r]
<1> SUFFICES Stays
  OBVIOUS
<1> USE DEF DevicesTypeOK, sessions
<1>0. ASSUME UNCHANGED <<starter, hold>> PROVE Stays
  BY <1>0
<1>1. ASSUME NEW c \in Sockets, SocketStep(c) \/ HangUp(c) PROVE UNCHANGED <<starter, hold>>
  BY <1>1, Zenon DEF SocketStep, Hello, SignIn, FindRow, CountRows, InsertRow, List, SayOk,
      ListFrames, ReadNotice, ClearRoutes, Unlist, HangUp
<1>2. CASE BindElsewhere
  BY <1>0, <1>2, Zenon DEF BindElsewhere
<1>3. ASSUME NEW q \in Runs, BeginRun(q) PROVE Stays
  BY <1>3 DEF BeginRun
<1>4. ASSUME NEW q \in Runs, RouteRun(q) PROVE Stays
  BY <1>4 DEF RouteRun
<1>5. ASSUME NEW q \in Runs, SendRun(q) PROVE Stays
  BY <1>5 DEF SendRun
<1>6. ASSUME NEW q \in Runs, AttachRun(q) PROVE Stays
  BY <1>6 DEF AttachRun
<1>7. ASSUME NEW q \in Runs, PumpEnds(q) \/ Moves(q) PROVE UNCHANGED <<starter, hold>>
  BY <1>7, Zenon DEF PumpEnds, Moves, HostRun, FailRun, Reap, Tell, RuntimeEnds
<1>8. ASSUME NEW m \in Machines, DeskStep(m) \/ StopRun(m) \/ RevokeRow(m) PROVE UNCHANGED <<starter, hold>>
  BY <1>8, Zenon DEF DeskStep, UnrouteRun, CutOff, StopRun, RevokeRow
<1>9. ASSUME NEW m \in Machines, ClientMoves(m) PROVE UNCHANGED <<starter, hold>>
  BY <1>9, Zenon DEF ClientMoves, Choose, Dial, ReadMessage, SeeClose, Retire, SeeBreak, SwitchOff, SwitchOn
<1>10. ASSUME NEW g \in Sockets, FinishStop(g) PROVE UNCHANGED <<starter, hold>>
  BY <1>10, Zenon DEF FinishStop
<1>11. CASE UNCHANGED devicesVars
  BY <1>0, <1>11, Zenon DEF devicesVars
<1> QED
  BY <1>0, <1>1, <1>2, <1>3, <1>4, <1>5, <1>6, <1>7, <1>8, <1>9, <1>10, <1>11, Zenon
  DEF DevicesNext, RunStep, ReaderStep, ClientStep, ClientMoves, Moves

(* A runtime is none until its start is read.                              *)
LEMMA ReadersBegin ==
    ASSUME DevicesTypeOK, [DevicesNext]_devicesVars, NEW q \in Runs, reader[q] = "none", reader'[q] # "none"
    PROVE  \E m \in Machines : ReadMessage(m) /\ Head(down[link[m]]).is = "start" /\ Head(down[link[m]]).run = q
<1> USE DEF DevicesTypeOK, runtimesOf
<1>1. ~UNCHANGED reader
  OBVIOUS
<1>2. ASSUME NEW m \in Machines, ClientMoves(m) PROVE ReadMessage(m)
  BY <1>1, <1>2, Zenon DEF ClientMoves, Choose, Dial, SeeClose, Retire, SeeBreak, SwitchOff, SwitchOn
<1>3. ASSUME NEW r \in Runs, Moves(r) PROVE FALSE
  <2>1. reader[r] \in {"begin", "read", "tell"} /\ \E l \in {"read", "tell", "over"} : reader' = [reader EXCEPT ![r] = l]
    BY <1>1, <1>3 DEF Moves, HostRun, FailRun, Reap, Tell, RuntimeEnds
  <2> QED BY <2>1
<1>4. ASSUME NEW g \in Sockets, FinishStop(g) PROVE FALSE
  BY <1>1, <1>4, Zenon DEF FinishStop
<1>5. PICK m \in Machines : ReadMessage(m)
  BY <1>1, <1>2, <1>3, <1>4, WhoMoves, Zenon
<1>6. Head(down[link[m]]).is = "start" /\ TakeStart(m, Head(down[link[m]]).run)
  BY <1>1, <1>5, Zenon DEF ReadMessage, TakeOk, TakeError, TakeStop
<1>7. reader' = [reader EXCEPT ![Head(down[link[m]]).run] = "begin"]
  BY <1>1, <1>6, Zenon DEF TakeStart
<1>8. Head(down[link[m]]).run = q
  BY <1>7
<1> QED BY <1>5, <1>6, <1>8

LEMMA OncePosted ==
    ASSUME DevicesTypeOK, Asked, NEW c, NEW msg \in Messages, down' = Posted(c, msg), NEW d \in Sockets,
           msg.is = "start" => \A i \in 1..Len(down[d]) : down[d][i].is = "start" => down[d][i].run # msg.run
    PROVE  OnceIn(down'[d])
<1>1. down \in [Sockets -> Seq(Messages)] /\ down[d] \in Seq(Messages) /\ OnceIn(down[d])
  BY DEF DevicesTypeOK, Asked
<1>2. CASE down'[d] = down[d]
  BY <1>1, <1>2
<1>3. CASE down'[d] = Append(down[d], msg)
  <2> DEFINE a == Append(down[d], msg)
  <2>1. Len(a) = Len(down[d]) + 1 /\ Len(down[d]) \in Nat /\ a[Len(down[d]) + 1] = msg
    BY <1>1, AppendProperties, LenProperties
  <2>2. \A i \in 1..Len(down[d]) : a[i] = down[d][i]
    BY <1>1, AppendProperties
  <2> SUFFICES ASSUME NEW i \in 1..Len(a), NEW j \in 1..Len(a), a[i].is = "start", a[j].is = "start", a[i].run = a[j].run
               PROVE  i = j
    BY <1>3 DEF OnceIn
  <2> HIDE DEF a
  <2>3. i \in 1..Len(down[d]) \/ i = Len(down[d]) + 1
    BY <2>1
  <2>4. j \in 1..Len(down[d]) \/ j = Len(down[d]) + 1
    BY <2>1
  <2>5. CASE i \in 1..Len(down[d]) /\ j \in 1..Len(down[d])
    BY <1>1, <2>2, <2>5 DEF OnceIn
  <2>6. CASE i \in 1..Len(down[d]) /\ j = Len(down[d]) + 1
    BY <2>1, <2>2, <2>6
  <2>7. CASE j \in 1..Len(down[d]) /\ i = Len(down[d]) + 1
    BY <2>1, <2>2, <2>7
  <2> QED BY <2>3, <2>4, <2>5, <2>6, <2>7
<1> QED BY <1>1, <1>2, <1>3 DEF Posted

LEMMA OnceCons ==
    ASSUME NEW q \in Seq(Messages), OnceIn(q), NEW e \in Messages, e.is # "start"
    PROVE  OnceIn(<<e>> \o q)
<1> DEFINE a == <<e>> \o q
<1>1. <<e>> \in Seq(Messages) /\ Len(<<e>>) = 1 /\ <<e>>[1] = e
  OBVIOUS
<1>2. Len(a) = 1 + Len(q) /\ Len(q) \in Nat
  BY <1>1, ConcatProperties, LenProperties
<1>3. a[1] = e
  BY <1>1, <1>2, ConcatProperties
<1>4. \A i \in 1..Len(a) : i # 1 => i - 1 \in 1..Len(q) /\ a[i] = q[i - 1]
  <2> SUFFICES ASSUME NEW i \in 1..Len(a), i # 1 PROVE i - 1 \in 1..Len(q) /\ a[i] = q[i - 1]
    OBVIOUS
  <2>1. i - 1 \in 1..Len(q)
    BY <1>2
  <2> QED BY <1>1, <1>2, <2>1, ConcatProperties
<1> SUFFICES ASSUME NEW i \in 1..Len(a), NEW j \in 1..Len(a), a[i].is = "start", a[j].is = "start", a[i].run = a[j].run
             PROVE  i = j
  BY DEF OnceIn
<1> HIDE DEF a
<1>5. i # 1 /\ j # 1
  BY <1>3
<1>6. i - 1 = j - 1
  BY <1>4, <1>5 DEF OnceIn
<1> QED BY <1>2, <1>6

LEMMA OnceTail ==
    ASSUME NEW q \in Seq(Messages), q # <<>>, OnceIn(q)
    PROVE  /\ OnceIn(Tail(q))
           /\ Head(q).is = "start" => \A i \in 1..Len(Tail(q)) : Tail(q)[i].is = "start" => Tail(q)[i].run # Head(q).run
<1>1. /\ Head(q) = q[1] /\ 1 \in 1..Len(q)
      /\ \A i \in 1..Len(Tail(q)) : i + 1 \in 1..Len(q) /\ Tail(q)[i] = q[i + 1]
  BY TailOk
<1>2. \A i \in 1..Len(Tail(q)) : i + 1 # 1
  BY LenProperties, HeadTailProperties
<1>3. OnceIn(Tail(q))
  <2> SUFFICES ASSUME NEW i \in 1..Len(Tail(q)), NEW j \in 1..Len(Tail(q)),
                      Tail(q)[i].is = "start", Tail(q)[j].is = "start", Tail(q)[i].run = Tail(q)[j].run
               PROVE  i = j
    BY DEF OnceIn
  <2>1. i + 1 = j + 1
    BY <1>1 DEF OnceIn
  <2> QED BY <2>1
<1>4. ASSUME Head(q).is = "start", NEW i \in 1..Len(Tail(q)), Tail(q)[i].is = "start" PROVE Tail(q)[i].run # Head(q).run
  BY <1>1, <1>2, <1>4 DEF OnceIn
<1> QED BY <1>3, <1>4

LEMMA AskedStep ==
    ASSUME DevicesTypeOK, Attached, Asked, [DevicesNext]_devicesVars
    PROVE  Asked'
<1>0. down \in [Sockets -> Seq(Messages)] /\ starter \in [Runs -> {"idle", "held", "routed", "sent", "done"}]
  BY DEF DevicesTypeOK
<1>1. ASSUME NEW c \in Sockets, NEW i \in 1..Len(down[c]), down[c][i].is = "start"
      PROVE  /\ down[c][i].run \in Runs /\ reader[down[c][i].run] = "none"
             /\ starter[down[c][i].run] \in {"sent", "done"} /\ hold[down[c][i].run] = c
  <2>1. down[c][i] \in Messages
    BY <1>0
  <2> QED BY <1>1, <2>1 DEF Asked, WaitsAt, Messages
<1>2. ASSUME NEW r \in Runs, reader'[r] # "none" PROVE starter'[r] \in {"sent", "done"}
  <2>1. starter[r] \in {"sent", "done"}
    <3>1. CASE reader[r] # "none"
      BY <3>1 DEF Asked
    <3>2. CASE reader[r] = "none"
      <4>1. PICK m \in Machines : ReadMessage(m) /\ Head(down[link[m]]).is = "start" /\ Head(down[link[m]]).run = r
        BY <1>2, <3>2, ReadersBegin
      <4>2. link[m] \in Sockets /\ down[link[m]] # <<>>
        BY <4>1, ReadMoves DEF Attached, DevicesTypeOK, OrNothing
      <4>3. Head(down[link[m]]) = down[link[m]][1] /\ 1 \in 1..Len(down[link[m]])
        BY <1>0, <4>2, TailOk
      <4> QED BY <1>1, <4>1, <4>2, <4>3
    <3> QED BY <3>1, <3>2
  <2> QED BY <2>1, StartersStay
<1>3. ASSUME NEW r \in Runs, SendRun(r)
      PROVE  reader[r] = "none" /\ \A c \in Sockets : \A i \in 1..Len(down[c]) : down[c][i].is = "start" => down[c][i].run # r
  <2>1. starter[r] = "routed"
    BY <1>3 DEF SendRun
  <2>2. reader[r] = "none"
    BY <2>1 DEF Asked
  <2> QED BY <1>1, <2>1, <2>2
<1>4. ASSUME NEW d \in Sockets PROVE OnceIn(down'[d])
  <2>0. OnceIn(down[d]) /\ down[d] \in Seq(Messages)
    BY <1>0 DEF Asked
  <2>1. CASE UNCHANGED down
    BY <2>0, <2>1
  <2>2. ASSUME NEW c, NEW k \in {"error", "stop"}, down' = Posted(c, [is |-> k]) PROVE OnceIn(down'[d])
    <3>1. [is |-> k] \in Messages /\ [is |-> k].is # "start"
      BY MessageTypes
    <3> QED BY <2>2, <3>1, OncePosted
  <2>3. ASSUME NEW r \in Runs, SendRun(r) PROVE OnceIn(down'[d])
    <3>1. down' = Posted(hold[r], [is |-> "start", run |-> r]) /\ [is |-> "start", run |-> r] \in Messages
      BY <2>3, MessageTypes DEF SendRun
    <3>2. [is |-> "start", run |-> r].run = r
      OBVIOUS
    <3> QED BY <1>3, <2>3, <3>1, <3>2, OncePosted
  <2>4. ASSUME NEW c \in Sockets, SayOk(c) PROVE OnceIn(down'[d])
    <3> DEFINE ok == [is |-> "ok", token |-> IF shown[c] = Nothing THEN c ELSE Nothing]
    <3>1. down'[d] = down[d] \/ down'[d] = <<ok>> \o down[d]
      BY <1>0, <2>4 DEF SayOk
    <3>2. ok \in Messages /\ ok.is # "start"
      BY MessageTypes DEF OrNothing
    <3> HIDE DEF ok
    <3> QED BY <2>0, <3>1, <3>2, OnceCons
  <2>5. ASSUME NEW m \in Machines, ReadMessage(m) PROVE OnceIn(down'[d])
    <3>1. down'[d] = down[d] \/ (down'[d] = Tail(down[d]) /\ down[d] # <<>>)
      BY <1>0, <2>5, ReadMoves
    <3> QED BY <2>0, <3>1, OnceTail
  <2> QED BY <2>1, <2>2, <2>3, <2>4, <2>5, DownMoves
<1>5. ASSUME NEW d \in Sockets, NEW i \in 1..Len(down'[d]), down'[d][i].is = "start"
      PROVE  /\ reader'[down'[d][i].run] = "none"
             /\ starter'[down'[d][i].run] \in {"sent", "done"} /\ hold'[down'[d][i].run] = d
  <2> DEFINE e == down'[d][i]
  <2>1. CASE \E j \in 1..Len(down[d]) : e = down[d][j]
    <3>1. e.run \in Runs /\ reader[e.run] = "none" /\ starter[e.run] \in {"sent", "done"} /\ hold[e.run] = d
      BY <1>1, <1>5, <2>1
    <3>2. reader'[e.run] = "none"
      <4> SUFFICES ASSUME reader'[e.run] # "none" PROVE FALSE
        OBVIOUS
      <4>1. PICK m \in Machines : ReadMessage(m) /\ Head(down[link[m]]).is = "start" /\ Head(down[link[m]]).run = e.run
        BY <3>1, ReadersBegin
      <4> DEFINE c == link[m]
      <4>2. c \in Sockets /\ down[c] # <<>> /\ down[c] \in Seq(Messages) /\ down' = [down EXCEPT ![c] = Tail(down[c])]
        BY <1>0, <4>1, ReadMoves DEF Attached, DevicesTypeOK, OrNothing
      <4>3. Head(down[c]) = down[c][1] /\ 1 \in 1..Len(down[c])
        BY <4>2, TailOk
      <4>4. hold[e.run] = c
        BY <1>1, <4>1, <4>2, <4>3
      <4>5. d = c
        BY <3>1, <4>4
      <4>6. down'[d] = Tail(down[d]) /\ OnceIn(down[d])
        BY <1>0, <4>2, <4>5 DEF Asked
      <4> QED BY <1>5, <4>1, <4>2, <4>5, <4>6, OnceTail
    <3>3. starter'[e.run] \in {"sent", "done"} /\ hold'[e.run] = hold[e.run]
      BY <3>1, StartersStay
    <3> QED BY <3>1, <3>2, <3>3
  <2>2. CASE ~\E j \in 1..Len(down[d]) : e = down[d][j]
    <3>1. PICK r \in Runs : SendRun(r)
      <4>1. ~UNCHANGED down
        BY <2>2
      <4>2. ASSUME NEW c, NEW k \in {"error", "stop"}, down' = Posted(c, [is |-> k]) PROVE FALSE
        <5>1. [is |-> k] \in Messages /\ [is |-> k].is # "start"
          BY MessageTypes
        <5>2. down'[d] = down[d] \/ down'[d] = Append(down[d], [is |-> k])
          BY <1>0, <4>2 DEF Posted
        <5> QED BY <1>0, <1>5, <2>2, <5>1, <5>2, AppendOk
      <4>3. ASSUME NEW c \in Sockets, SayOk(c) PROVE FALSE
        <5> DEFINE ok == [is |-> "ok", token |-> IF shown[c] = Nothing THEN c ELSE Nothing]
        <5>1. down'[d] = down[d] \/ down'[d] = <<ok>> \o down[d]
          BY <1>0, <4>3 DEF SayOk
        <5>2. ok \in Messages /\ ok.is # "start"
          BY MessageTypes DEF OrNothing
        <5> HIDE DEF ok
        <5> QED BY <1>0, <1>5, <2>2, <5>1, <5>2, ConsOk
      <4>4. ASSUME NEW m \in Machines, ReadMessage(m) PROVE FALSE
        <5>1. down'[d] = down[d] \/ (down'[d] = Tail(down[d]) /\ down[d] # <<>>)
          BY <1>0, <4>4, ReadMoves
        <5> QED BY <1>0, <2>2, <5>1, TailOk
      <4> QED BY <4>1, <4>2, <4>3, <4>4, DownMoves
    <3>2. down' = Posted(hold[r], [is |-> "start", run |-> r]) /\ [is |-> "start", run |-> r] \in Messages
      BY <3>1, MessageTypes DEF SendRun
    <3>3. hold[r] = d /\ down'[d] = Append(down[d], [is |-> "start", run |-> r])
      BY <1>0, <2>2, <3>2 DEF Posted
    <3>4. e = [is |-> "start", run |-> r]
      <4> DEFINE msg == [is |-> "start", run |-> r]
      <4>1. down[d] \in Seq(Messages) /\ msg \in Messages /\ down'[d] = Append(down[d], msg)
        BY <1>0, <3>2, <3>3
      <4> HIDE DEF msg
      <4>2. \A j \in 1..Len(Append(down[d], msg)) :
               Append(down[d], msg)[j] = msg \/ (j \in 1..Len(down[d]) /\ Append(down[d], msg)[j] = down[d][j])
        BY <4>1, AppendOk
      <4>3. down'[d][i] = msg \/ (i \in 1..Len(down[d]) /\ down'[d][i] = down[d][i])
        BY <4>1, <4>2
      <4> QED BY <2>2, <4>3 DEF msg
    <3>5. e.run = r
      BY <3>4
    <3>6. UNCHANGED <<reader, hold>>
      BY <3>1, Zenon DEF SendRun, runtimesOf
    <3>7. starter' = [starter EXCEPT ![r] = IF at[hold[r]] = "over" THEN "done" ELSE "sent"]
      BY <3>1, Zenon DEF SendRun
    <3>8. starter'[r] \in {"sent", "done"}
      BY <1>0, <3>7
    <3> QED BY <1>3, <3>1, <3>3, <3>5, <3>6, <3>8
  <2> QED BY <2>1, <2>2
<1> QED BY <1>2, <1>4, <1>5 DEF Asked, WaitsAt

LEMMA HeadOwn ==
    ASSUME DevicesTypeOK, Attached, Own, NEW m \in Machines, ReadMessage(m), Head(down[link[m]]).is = "start"
    PROVE  Head(down[link[m]]).run \in Runs /\ RunOf[Head(down[link[m]]).run] = m
<1> DEFINE c == link[m]
           msg == Head(down[c])
<1>1. c \in Sockets /\ Of[c] = m /\ down[c] # <<>>
  BY ReadMoves DEF Attached, DevicesTypeOK, OrNothing
<1>2. down[c] \in Seq(Messages)
  BY <1>1 DEF DevicesTypeOK
<1>3. msg = down[c][1] /\ 1 \in 1..Len(down[c]) /\ msg \in Messages
  BY <1>1, <1>2, TailOk
<1>4. msg.run \in Runs
  BY <1>3 DEF Messages
<1>5. OwnIn(down[c], c)
  BY <1>1 DEF Own
<1>6. RunOf[msg.run] = m
  BY <1>1, <1>3, <1>5 DEF OwnIn
<1> QED BY <1>4, <1>6

(* What a step does to the connectors and the runtimes, whatever else it   *)
(* does.                                                                   *)
Rest == UNCHANGED <<client, link, manager, leaving, runtimesOf>>
Dials(m) ==
    /\ client[m] \in {"choose", "typed"} /\ client' = [client EXCEPT ![m] = "reading"]
    /\ \E c \in Sockets :
          /\ Of[c] = m /\ at[c] = "unused" /\ at'[c] # "unused" /\ link' = [link EXCEPT ![m] = c]
          /\ manager' = [manager EXCEPT ![m] = IF manager[m] = Nothing THEN c ELSE manager[m]]
    /\ UNCHANGED <<leaving, runtimesOf>>
Prompts(m) ==
    /\ client[m] = "choose" /\ client' = [client EXCEPT ![m] = "asks"]
    /\ UNCHANGED <<link, manager, leaving, runtimesOf>>
Drops(m) ==
    /\ client[m] = "reading" /\ ~Preparing(m) /\ client' = [client EXCEPT ![m] = "retire"]
    /\ link' = [link EXCEPT ![m] = Nothing]
    /\ UNCHANGED <<manager, leaving, runtimesOf>>
Starts(m, r) ==
    /\ client[m] = "reading" /\ ~Preparing(m) /\ Hosted(m) = Nothing
    /\ RunOf[r] = m /\ reader[r] = "none" /\ reader' = [reader EXCEPT ![r] = "begin"]
    /\ from' = [from EXCEPT ![r] = link[m]] /\ born' = [born EXCEPT ![r] = manager[m]]
    /\ UNCHANGED <<client, link, manager, leaving, hosted, alive, orphans>>
Empties(m) ==
    /\ client[m] \in {"reading", "retire"} /\ StopAll(manager[m])
    /\ \/ UNCHANGED client
       \/ client' = [client EXCEPT ![m] = "choose"] /\ client[m] = "retire"
    /\ UNCHANGED <<link, manager, leaving, reader, from, born, orphans>>
Aborts(m) ==
    /\ client' = [client EXCEPT ![m] = "off"] /\ link' = [link EXCEPT ![m] = Nothing]
    /\ manager' = [manager EXCEPT ![m] = Nothing]
    /\ leaving' = (IF manager[m] = Nothing THEN leaving ELSE leaving \cup {manager[m]})
    /\ UNCHANGED runtimesOf
Begins(m) ==
    /\ client[m] \in {"off", "asks"} /\ \E l \in {"choose", "typed"} : client' = [client EXCEPT ![m] = l]
    /\ manager' = [manager EXCEPT ![m] = Nothing]
    /\ UNCHANGED <<link, leaving, runtimesOf>>
Does(m) ==
    \/ Dials(m) \/ Prompts(m) \/ Drops(m) \/ Empties(m) \/ Aborts(m) \/ Begins(m)
    \/ \E r \in Runs : Starts(m, r)

LEMMA Doings ==
    ASSUME DevicesTypeOK, Attached, Own, Asked, [DevicesNext]_devicesVars
    PROVE  \/ Rest
           \/ \E m \in Machines : Does(m)
           \/ \E r \in Runs : Moves(r)
           \/ \E g \in Sockets : FinishStop(g)
<1>1. CASE UNCHANGED <<connector, runtimesOf>>
  BY <1>1, Zenon DEF Rest, connector
<1>2. ASSUME NEW m \in Machines, ClientMoves(m) PROVE Rest \/ Does(m)
  <2>1. CASE Choose(m)
    <3>1. ASSUME NEW cred, Dial(m, cred), client[m] \in {"choose", "typed"} PROVE Dials(m)
      <4>1. PICK c \in Sockets :
               /\ Of[c] = m /\ at[c] = "unused" /\ SocketAt(c, "first") /\ link' = [link EXCEPT ![m] = c]
               /\ manager' = [manager EXCEPT ![m] = IF @ = Nothing THEN c ELSE @]
        BY <3>1, Zenon DEF Dial
      <4>2. at'[c] # "unused"
        BY <4>1 DEF SocketAt, DevicesTypeOK
      <4>3. client' = [client EXCEPT ![m] = "reading"] /\ UNCHANGED <<leaving, runtimesOf>>
        BY <3>1, Zenon DEF Dial
      <4> QED BY <3>1, <4>1, <4>2, <4>3, Zenon DEF Dials
    <3>2. CASE client[m] = "choose" /\ client' = [client EXCEPT ![m] = "asks"] /\ UNCHANGED <<link, manager, leaving, runtimesOf>>
      BY <3>2, Zenon DEF Does, Prompts
    <3>3. client[m] = "choose" => client[m] \in {"choose", "typed"}
      OBVIOUS
    <3>4. client[m] = "typed" => client[m] \in {"choose", "typed"}
      OBVIOUS
    <3> QED BY <2>1, <3>1, <3>2, <3>3, <3>4, Zenon DEF Choose, Does
  <2>2. CASE ReadMessage(m)
    <3>1. client[m] = "reading" /\ ~Preparing(m)
      BY <2>2, Zenon DEF ReadMessage
    <3> DEFINE msg == Head(down[link[m]])
    <3>2. CASE TakeOk(m, msg.token)
      BY <3>2, Zenon DEF TakeOk, Rest
    <3>3. CASE TakeError(m)
      BY <3>1, <3>3, Zenon DEF TakeError, LetGo, Does, Drops
    <3>4. CASE msg.is = "start" /\ TakeStart(m, msg.run)
      <4>1. CASE UNCHANGED runtimesOf
        BY <3>4, <4>1, Zenon DEF TakeStart, Rest, connector
      <4>2. CASE ~UNCHANGED runtimesOf
        <5>1. link[m] \in Sockets /\ Of[link[m]] = m /\ down[link[m]] \in Seq(Messages) /\ down[link[m]] # <<>>
          BY <2>2, ReadMoves DEF Attached, DevicesTypeOK, OrNothing
        <5>2. msg = down[link[m]][1] /\ 1 \in 1..Len(down[link[m]]) /\ msg \in Messages
          BY <5>1, TailOk
        <5>3. msg.run \in Runs /\ RunOf[msg.run] = m
          BY <2>2, <3>4, HeadOwn
        <5>4. reader[msg.run] = "none"
          BY <3>4, <5>1, <5>2 DEF Asked, WaitsAt
        <5> DEFINE r == msg.run
        <5>5. /\ Hosted(m) = Nothing /\ reader' = [reader EXCEPT ![r] = "begin"]
              /\ from' = [from EXCEPT ![r] = link[m]] /\ born' = [born EXCEPT ![r] = manager[m]]
              /\ UNCHANGED <<hosted, alive, orphans>> /\ UNCHANGED <<client, link, manager, leaving>>
          BY <3>4, <4>2, Zenon DEF TakeStart, connector
        <5> QED BY <3>1, <5>3, <5>4, <5>5, Zenon DEF Starts, Does
      <4> QED BY <4>1, <4>2
    <3>5. CASE TakeStop(m)
      <4>1. client[m] \in {"reading", "retire"}
        BY <3>1
      <4> QED BY <4>1, <3>5, Zenon DEF TakeStop, Does, Empties, connector
    <3> QED BY <2>2, <3>2, <3>3, <3>4, <3>5, Zenon DEF ReadMessage
  <2>3. CASE SeeClose(m) \/ SeeBreak(m)
    BY <2>3, Zenon DEF SeeClose, SeeBreak, LetGo, Does, Drops
  <2>4. CASE Retire(m)
    <3>1. client[m] \in {"reading", "retire"}
      BY <2>4 DEF Retire
    <3> QED BY <2>4, <3>1, Zenon DEF Retire, Does, Empties
  <2>5. CASE SwitchOff(m)
    <3>1. leaving' = (IF manager[m] = Nothing THEN leaving ELSE leaving \cup {manager[m]})
      BY <2>5 DEF SwitchOff
    <3> QED BY <2>5, <3>1, Zenon DEF SwitchOff, Does, Aborts
  <2>6. CASE SwitchOn(m)
    <3>1. \E l \in {"choose", "typed"} : client' = [client EXCEPT ![m] = l]
      BY <2>6 DEF SwitchOn
    <3> QED BY <2>6, <3>1, Zenon DEF SwitchOn, Does, Begins
  <2> QED BY <1>2, <2>1, <2>2, <2>3, <2>4, <2>5, <2>6, Zenon DEF ClientMoves
<1> QED BY <1>1, <1>2, WhoMoves, Zenon

LEMMA ManagedStep ==
    ASSUME DevicesTypeOK, Attached, Own, Asked, Managed, Unnamed, [DevicesNext]_devicesVars
    PROVE  Managed'
<1> USE DevicesAssumption DEF Managed
<1>0. /\ manager \in [Machines -> Sockets \cup {Nothing}] /\ client \in [Machines -> ClientSide]
      /\ born \in [Runs -> Sockets \cup {Nothing}] /\ leaving \subseteq Sockets
      /\ Nothing \notin Sockets
  BY DEF DevicesTypeOK, OrNothing
<1>1. CASE Rest
  BY <1>1 DEF Rest, runtimesOf
<1>2. ASSUME NEW m \in Machines, Dials(m) PROVE Managed'
  <2>1. PICK c \in Sockets :
           /\ Of[c] = m /\ at[c] = "unused"
           /\ manager' = [manager EXCEPT ![m] = IF manager[m] = Nothing THEN c ELSE manager[m]]
    BY <1>2 DEF Dials
  <2>2. c \notin leaving
    BY <2>1 DEF Unnamed
  <2>3. client' = [client EXCEPT ![m] = "reading"] /\ UNCHANGED <<leaving, born>>
    BY <1>2 DEF Dials, runtimesOf
  <2> QED BY <1>0, <2>1, <2>2, <2>3
<1>3. ASSUME NEW m \in Machines, Prompts(m) \/ Drops(m) PROVE Managed'
  BY <1>0, <1>3 DEF Prompts, Drops, runtimesOf
<1>4. ASSUME NEW m \in Machines, NEW r \in Runs, Starts(m, r) PROVE Managed'
  BY <1>0, <1>4 DEF Starts
<1>5. ASSUME NEW m \in Machines, Empties(m) PROVE Managed'
  BY <1>0, <1>5 DEF Empties
<1>6. ASSUME NEW m \in Machines, Aborts(m) PROVE Managed'
  BY <1>0, <1>6 DEF Aborts, runtimesOf
<1>7. ASSUME NEW m \in Machines, Begins(m) PROVE Managed'
  BY <1>0, <1>7 DEF Begins, runtimesOf
<1>8. ASSUME NEW r \in Runs, Moves(r) PROVE Managed'
  <2>1. UNCHANGED <<client, manager, leaving, born>>
    BY <1>8, Zenon DEF Moves, HostRun, FailRun, Reap, Tell, RuntimeEnds, connector
  <2> QED BY <2>1
<1>9. ASSUME NEW g \in Sockets, FinishStop(g) PROVE Managed'
  BY <1>0, <1>9 DEF FinishStop
<1> QED BY <1>1, <1>2, <1>3, <1>4, <1>5, <1>6, <1>7, <1>8, <1>9, Doings, Zenon DEF Does

LEMMA UnnamedStep ==
    ASSUME DevicesTypeOK, Attached, Own, Asked, Managed, Unnamed, [DevicesNext]_devicesVars
    PROVE  Unnamed'
<1> SUFFICES ASSUME NEW c \in Sockets, at'[c] = "unused"
             PROVE  /\ hosted'[c] = Nothing /\ c \notin leaving'
                    /\ \A m \in Machines : manager'[m] # c
                    /\ \A r \in Runs : born'[r] # c /\ from'[r] # c
  BY DEF Unnamed
<1> DEFINE Goal == /\ hosted'[c] = Nothing /\ c \notin leaving'
                   /\ \A m \in Machines : manager'[m] # c
                   /\ \A r \in Runs : born'[r] # c /\ from'[r] # c
<1>a. at[c] = "unused"
  BY SocketsMoveOn
<1>b. /\ hosted[c] = Nothing /\ c \notin leaving
      /\ \A m \in Machines : manager[m] # c
      /\ \A r \in Runs : born[r] # c /\ from[r] # c
  BY <1>a DEF Unnamed
<1>c. /\ manager \in [Machines -> Sockets \cup {Nothing}] /\ link \in [Machines -> Sockets \cup {Nothing}]
      /\ born \in [Runs -> Sockets \cup {Nothing}] /\ from \in [Runs -> Sockets \cup {Nothing}]
      /\ hosted \in [Sockets -> Runs \cup {Nothing}]
  BY DEF DevicesTypeOK, OrNothing
<1>d. Nothing # c /\ \A m \in Machines : link[m] # c
  BY <1>a, DevicesAssumption DEF Attached
<1>1. CASE Rest
  BY <1>1, <1>b DEF Rest, runtimesOf
<1>2. ASSUME NEW m \in Machines, Dials(m) PROVE Goal
  <2>1. PICK b \in Sockets :
           /\ at'[b] # "unused"
           /\ manager' = [manager EXCEPT ![m] = IF manager[m] = Nothing THEN b ELSE manager[m]]
    BY <1>2 DEF Dials
  <2>2. b # c
    BY <2>1
  <2>3. UNCHANGED <<leaving, hosted, born, from>>
    BY <1>2 DEF Dials, runtimesOf
  <2> QED BY <1>b, <1>c, <2>1, <2>2, <2>3
<1>3. ASSUME NEW m \in Machines, Prompts(m) \/ Drops(m) PROVE Goal
  BY <1>b, <1>3 DEF Prompts, Drops, runtimesOf
<1>4. ASSUME NEW m \in Machines, NEW r \in Runs, Starts(m, r) PROVE Goal
  BY <1>b, <1>c, <1>d, <1>4 DEF Starts
<1>5. ASSUME NEW m \in Machines, Empties(m) PROVE Goal
  BY <1>b, <1>c, <1>5 DEF Empties, StopAll
<1>6. ASSUME NEW m \in Machines, Aborts(m) PROVE Goal
  BY <1>b, <1>c, <1>d, <1>6 DEF Aborts, runtimesOf
<1>7. ASSUME NEW m \in Machines, Begins(m) PROVE Goal
  BY <1>b, <1>c, <1>d, <1>7 DEF Begins, runtimesOf
<1>8. ASSUME NEW r \in Runs, Moves(r) PROVE Goal
  <2>1. UNCHANGED <<manager, leaving, born, from>>
    BY <1>8, Zenon DEF Moves, HostRun, FailRun, Reap, Tell, RuntimeEnds, connector
  <2>2. UNCHANGED hosted \/ hosted' = [hosted EXCEPT ![born[r]] = r] \/ hosted' = [hosted EXCEPT ![born[r]] = Nothing]
    BY <1>8, Zenon DEF Moves, HostRun, FailRun, Reap, Tell, RuntimeEnds, StopAll
  <2>3. hosted'[c] = Nothing
    BY <1>b, <1>c, <2>2
  <2> QED BY <1>b, <2>1, <2>3
<1>9. ASSUME NEW g \in Sockets, FinishStop(g) PROVE Goal
  BY <1>b, <1>c, <1>9 DEF FinishStop, StopAll
<1> QED BY <1>1, <1>2, <1>3, <1>4, <1>5, <1>6, <1>7, <1>8, <1>9, Doings, Zenon DEF Does

LEMMA BegunStep ==
    ASSUME DevicesTypeOK, Attached, Own, Asked, Managed, Unnamed, Begun, [DevicesNext]_devicesVars
    PROVE  Begun'
<1> USE DevicesAssumption DEF Begun
<1>0. /\ manager \in [Machines -> Sockets \cup {Nothing}] /\ link \in [Machines -> Sockets \cup {Nothing}]
      /\ client \in [Machines -> ClientSide] /\ hosted \in [Sockets -> Runs \cup {Nothing}]
      /\ born \in [Runs -> Sockets \cup {Nothing}] /\ from \in [Runs -> Sockets \cup {Nothing}]
      /\ reader \in [Runs -> {"none", "begin", "read", "tell", "over"}]
  BY DEF DevicesTypeOK, OrNothing
<1>1. CASE Rest
  BY <1>1 DEF Rest, runtimesOf, Current
<1>2. ASSUME NEW m \in Machines, Dials(m) PROVE Begun'
  <2>1. PICK c \in Sockets :
           /\ Of[c] = m /\ at[c] = "unused" /\ link' = [link EXCEPT ![m] = c]
           /\ manager' = [manager EXCEPT ![m] = IF manager[m] = Nothing THEN c ELSE manager[m]]
    BY <1>2 DEF Dials
  <2>2. UNCHANGED <<reader, born, from, hosted>> /\ client' = [client EXCEPT ![m] = "reading"]
    BY <1>2 DEF Dials, runtimesOf
  <2>3. client[m] # "reading"
    BY <1>2 DEF Dials
  <2>4. ASSUME NEW r \in Runs, reader[r] = "begin", Current(r)'
        PROVE  client'[RunOf[r]] = "reading" /\ from[r] = link'[RunOf[r]]
    <3>1. CASE RunOf[r] = m
      <4>1. born[r] # c
        BY <2>1 DEF Unnamed
      <4>2. manager'[m] = born[r]
        BY <2>2, <2>4, <3>1 DEF Current
      <4>3. manager[m] = born[r]
        BY <1>0, <2>1, <4>1, <4>2
      <4> QED BY <2>3, <2>4, <3>1, <4>3 DEF Current
    <3>2. CASE RunOf[r] # m
      <4>1. manager'[RunOf[r]] = manager[RunOf[r]] /\ link'[RunOf[r]] = link[RunOf[r]] /\ client'[RunOf[r]] = client[RunOf[r]]
        BY <1>0, <2>1, <2>2, <3>2
      <4> QED BY <2>2, <2>4, <4>1 DEF Current
    <3> QED BY <3>1, <3>2
  <2> QED BY <2>2, <2>4
<1>3. ASSUME NEW m \in Machines, Prompts(m) PROVE Begun'
  BY <1>0, <1>3 DEF Prompts, runtimesOf, Current
<1>3a. ASSUME NEW m \in Machines, Drops(m) PROVE Begun'
  BY <1>0, <1>3a DEF Drops, Preparing, runtimesOf, Current
<1>4. ASSUME NEW m \in Machines, NEW r \in Runs, Starts(m, r) PROVE Begun'
  <2>1. /\ client[m] = "reading" /\ ~Preparing(m) /\ Hosted(m) = Nothing /\ RunOf[r] = m
        /\ reader' = [reader EXCEPT ![r] = "begin"]
        /\ from' = [from EXCEPT ![r] = link[m]] /\ born' = [born EXCEPT ![r] = manager[m]]
        /\ UNCHANGED <<client, link, manager, hosted>>
    BY <1>4 DEF Starts
  <2>2. manager[m] \in Sockets /\ hosted[manager[m]] = Nothing
    BY <1>0, <2>1 DEF Managed, Hosted
  <2>3. ASSUME NEW q \in Runs, q # r, reader[q] = "begin" PROVE born[q] # manager[m]
    <3> SUFFICES ASSUME born[q] = manager[m] PROVE FALSE
      OBVIOUS
    <3>1. RunOf[q] = m
      BY <2>2 DEF Managed
    <3> QED BY <2>1, <2>3, <3>1 DEF Preparing, Current
  <2>4. \A q \in Runs : q # r => reader'[q] = reader[q] /\ born'[q] = born[q] /\ from'[q] = from[q]
    BY <1>0, <2>1
  <2>5. reader'[r] = "begin" /\ born'[r] = manager[m] /\ from'[r] = link[m]
    BY <1>0, <2>1
  <2>6. (\A q \in Runs : reader[q] = "begin" => born[q] # Nothing /\ hosted[born[q]] = Nothing)'
    BY <1>0, <2>1, <2>2, <2>4, <2>5
  <2>7. (\A p, q \in Runs : reader[p] = "begin" /\ reader[q] = "begin" /\ born[p] = born[q] => p = q)'
    BY <2>3, <2>4, <2>5
  <2>8. (\A q \in Runs : reader[q] = "begin" /\ Current(q) =>
            client[RunOf[q]] = "reading" /\ from[q] = link[RunOf[q]])'
    <3> SUFFICES ASSUME NEW q \in Runs, reader'[q] = "begin", manager'[RunOf[q]] = born'[q]
                 PROVE  client'[RunOf[q]] = "reading" /\ from'[q] = link'[RunOf[q]]
      BY DEF Current
    <3>1. CASE q = r
      BY <2>1, <2>5, <3>1
    <3>2. CASE q # r
      <4>1. reader[q] = "begin" /\ Current(q)
        BY <2>1, <2>4, <3>2 DEF Current
      <4> QED BY <2>1, <2>4, <3>2, <4>1
    <3> QED BY <3>1, <3>2
  <2> QED BY <2>6, <2>7, <2>8
<1>5. ASSUME NEW m \in Machines, Empties(m) PROVE Begun'
  <2>1. UNCHANGED <<link, manager, reader, born, from>> /\ hosted' = [hosted EXCEPT ![manager[m]] = Nothing]
    BY <1>5 DEF Empties, StopAll
  <2>2. \A n \in Machines : client'[n] = client[n] \/ client[n] = "retire"
    BY <1>0, <1>5 DEF Empties
  <2>3. \A g \in Sockets : hosted[g] = Nothing => hosted'[g] = Nothing
    BY <1>0, <2>1
  <2> QED BY <1>0, <2>1, <2>2, <2>3 DEF Current
<1>6. ASSUME NEW m \in Machines, Aborts(m) PROVE Begun'
  BY <1>0, <1>6 DEF Aborts, runtimesOf, Current
<1>7. ASSUME NEW m \in Machines, Begins(m) PROVE Begun'
  BY <1>0, <1>7 DEF Begins, runtimesOf, Current
<1>8. ASSUME NEW r \in Runs, HostRun(r) PROVE Begun'
  <2>1. /\ reader[r] = "begin" /\ hosted' = [hosted EXCEPT ![born[r]] = r] /\ reader' = [reader EXCEPT ![r] = "read"]
        /\ UNCHANGED <<client, link, manager, born, from>>
    BY <1>8 DEF HostRun, connector
  <2>2. \A q \in Runs : reader'[q] = "begin" => q # r /\ reader[q] = "begin"
    BY <1>0, <2>1
  <2>3. \A q \in Runs : reader'[q] = "begin" => born[q] # born[r]
    BY <2>1, <2>2
  <2>4. \A q \in Runs : reader'[q] = "begin" => hosted'[born[q]] = hosted[born[q]]
    BY <1>0, <2>1, <2>2, <2>3
  <2> QED BY <1>0, <2>1, <2>2, <2>4 DEF Current
<1>9. ASSUME NEW r \in Runs, Moves(r), ~HostRun(r) PROVE Begun'
  <2>1. UNCHANGED <<client, link, manager, born, from>>
    BY <1>9, Zenon DEF Moves, FailRun, Reap, Tell, RuntimeEnds, connector
  <2>2. UNCHANGED hosted \/ hosted' = [hosted EXCEPT ![born[r]] = Nothing]
    BY <1>9, Zenon DEF Moves, FailRun, Reap, Tell, RuntimeEnds, StopAll
  <2>3. UNCHANGED reader \/ \E l \in {"over", "tell"} : reader' = [reader EXCEPT ![r] = l]
    BY <1>9 DEF Moves, FailRun, Reap, Tell, RuntimeEnds
  <2>4. \A q \in Runs : reader'[q] = "begin" => reader[q] = "begin"
    BY <1>0, <2>3
  <2>5. \A g \in Sockets : hosted[g] = Nothing => hosted'[g] = Nothing
    BY <1>0, <2>2
  <2>6. \A q \in Runs : reader'[q] = "begin" => born[q] # Nothing /\ hosted'[born[q]] = Nothing
    <3> SUFFICES ASSUME NEW q \in Runs, reader'[q] = "begin" PROVE born[q] # Nothing /\ hosted'[born[q]] = Nothing
      OBVIOUS
    <3>1. born[q] # Nothing /\ hosted[born[q]] = Nothing
      BY <2>4
    <3>2. born[q] \in Sockets
      BY <1>0, <3>1
    <3> QED BY <2>5, <3>1, <3>2
  <2>7. \A p, q \in Runs : reader'[p] = "begin" /\ reader'[q] = "begin" /\ born[p] = born[q] => p = q
    BY <2>4
  <2>8. \A q \in Runs : reader'[q] = "begin" /\ Current(q) => client[RunOf[q]] = "reading" /\ from[q] = link[RunOf[q]]
    BY <2>4
  <2> QED BY <2>1, <2>6, <2>7, <2>8 DEF Current
<1>10. ASSUME NEW g \in Sockets, FinishStop(g) PROVE Begun'
  BY <1>0, <1>10 DEF FinishStop, StopAll, Current
<1> QED BY <1>1, <1>2, <1>3, <1>3a, <1>4, <1>5, <1>6, <1>7, <1>8, <1>9, <1>10, Doings, Zenon DEF Does

LEMMA HostsStep ==
    ASSUME DevicesTypeOK, Attached, Own, Asked, Managed, Unnamed, Begun, Hosts, [DevicesNext]_devicesVars
    PROVE  Hosts'
<1> USE DevicesAssumption
<1>0. /\ manager \in [Machines -> Sockets \cup {Nothing}] /\ client \in [Machines -> ClientSide]
      /\ hosted \in [Sockets -> Runs \cup {Nothing}] /\ born \in [Runs -> Sockets \cup {Nothing}]
      /\ reader \in [Runs -> {"none", "begin", "read", "tell", "over"}] /\ alive \subseteq Runs
      /\ leaving \subseteq Sockets
  BY DEF DevicesTypeOK, OrNothing
<1> DEFINE Idle == {"choose", "typed", "asks", "off"}
<1>h. /\ \A r \in alive : born[r] # Nothing /\ hosted[born[r]] = r
      /\ \A r \in alive : Current(r) \/ born[r] \in leaving \/ r \in orphans
      /\ \A m \in Machines : client[m] \in Idle => Hosted(m) = Nothing
      /\ \A g \in Sockets : hosted[g] # Nothing => born[hosted[g]] = g /\ reader[hosted[g]] = "read"
  BY DEF Hosts
<1>g. SUFFICES /\ (\A r \in alive : born[r] # Nothing /\ hosted[born[r]] = r)'
               /\ (\A r \in alive : Current(r) \/ born[r] \in leaving \/ r \in orphans)'
               /\ (\A m \in Machines : client[m] \in Idle => Hosted(m) = Nothing)'
               /\ (\A g \in Sockets : hosted[g] # Nothing => born[hosted[g]] = g /\ reader[hosted[g]] = "read")'
  BY DEF Hosts
<1> DEFINE Goal == /\ (\A r \in alive : born[r] # Nothing /\ hosted[born[r]] = r)'
                   /\ (\A r \in alive : Current(r) \/ born[r] \in leaving \/ r \in orphans)'
                   /\ (\A m \in Machines : client[m] \in Idle => Hosted(m) = Nothing)'
                   /\ (\A g \in Sockets : hosted[g] # Nothing => born[hosted[g]] = g /\ reader[hosted[g]] = "read")'
<1>1. CASE Rest
  BY <1>1, <1>h DEF Rest, runtimesOf, Current, Hosted
<1>2. ASSUME NEW m \in Machines, Dials(m) PROVE Goal
  <2>1. PICK c \in Sockets :
           manager' = [manager EXCEPT ![m] = IF manager[m] = Nothing THEN c ELSE manager[m]]
    BY <1>2 DEF Dials
  <2>2. UNCHANGED <<reader, born, alive, hosted, leaving, orphans>> /\ client' = [client EXCEPT ![m] = "reading"]
    BY <1>2 DEF Dials, runtimesOf
  <2>3. ASSUME NEW r \in alive, Current(r) PROVE Current(r)'
    <3>1. manager'[RunOf[r]] = manager[RunOf[r]]
      BY <1>0, <1>h, <2>1, <2>3 DEF Current
    <3> QED BY <2>2, <2>3, <3>1 DEF Current
  <2>4. \A n \in Machines : client'[n] \in Idle => client[n] \in Idle /\ manager'[n] = manager[n]
    BY <1>0, <2>1, <2>2
  <2>5. \A n \in Machines : client'[n] \in Idle => Hosted(n)' = Nothing
    BY <1>h, <2>2, <2>4 DEF Hosted
  <2> QED BY <1>h, <2>2, <2>3, <2>5
<1>3. ASSUME NEW m \in Machines, Prompts(m) \/ Drops(m) PROVE Goal
  <2>1. UNCHANGED <<manager, leaving, reader, born, alive, hosted, orphans>>
    BY <1>3, Zenon DEF Prompts, Drops, runtimesOf
  <2>2. \A n \in Machines : client'[n] \in Idle => client[n] \in Idle
    BY <1>0, <1>3 DEF Prompts, Drops
  <2> QED BY <1>h, <2>1, <2>2 DEF Current, Hosted
<1>4. ASSUME NEW m \in Machines, NEW r \in Runs, Starts(m, r) PROVE Goal
  <2>1. /\ reader[r] = "none" /\ reader' = [reader EXCEPT ![r] = "begin"] /\ born' = [born EXCEPT ![r] = manager[m]]
        /\ UNCHANGED <<client, manager, leaving, hosted, alive, orphans>>
    BY <1>4 DEF Starts
  <2>2. \A g \in Sockets : hosted[g] # r
    BY <1>0, <1>h, <2>1
  <2>3. r \notin alive
    <3> SUFFICES ASSUME r \in alive PROVE FALSE
      OBVIOUS
    <3>1. born[r] # Nothing /\ hosted[born[r]] = r
      BY <1>h
    <3>2. born[r] \in Sockets
      BY <1>0, <3>1
    <3> QED BY <2>2, <3>1, <3>2
  <2>4. \A q \in Runs : q # r => reader'[q] = reader[q] /\ born'[q] = born[q]
    BY <1>0, <2>1
  <2>5. (\A q \in alive : born[q] # Nothing /\ hosted[born[q]] = q)'
    BY <1>0, <1>h, <2>1, <2>3, <2>4
  <2>6. (\A q \in alive : Current(q) \/ born[q] \in leaving \/ q \in orphans)'
    BY <1>0, <1>h, <2>1, <2>3, <2>4 DEF Current
  <2>7. (\A n \in Machines : client[n] \in Idle => Hosted(n) = Nothing)'
    BY <1>h, <2>1 DEF Hosted
  <2>8. (\A g \in Sockets : hosted[g] # Nothing => born[hosted[g]] = g /\ reader[hosted[g]] = "read")'
    BY <1>0, <1>h, <2>1, <2>2, <2>4
  <2> QED BY <2>5, <2>6, <2>7, <2>8
<1>5. ASSUME NEW g \in Sockets, StopAll(g), UNCHANGED <<manager, born, reader, orphans>>, leaving' \in {leaving, leaving \ {g}},
             \A n \in Machines : client'[n] \in Idle => client[n] \in Idle \/ manager[n] = g
      PROVE  Goal
  <2>1. hosted' = [hosted EXCEPT ![g] = Nothing] /\ alive' = alive \ {hosted[g]}
    BY <1>5 DEF StopAll
  <2>2. \A r \in alive' : r \in alive /\ born[r] \in Sockets /\ born[r] # g
    BY <1>0, <1>h, <2>1
  <2>3. (\A r \in alive : born[r] # Nothing /\ hosted[born[r]] = r)'
    BY <1>0, <1>5, <1>h, <2>1, <2>2
  <2>4. (\A r \in alive : Current(r) \/ born[r] \in leaving \/ r \in orphans)'
    BY <1>5, <1>h, <2>2 DEF Current
  <2>5. \A b \in Sockets : hosted'[b] \in {hosted[b], Nothing} /\ hosted'[g] = Nothing
    BY <1>0, <2>1
  <2>6. (\A n \in Machines : client[n] \in Idle => Hosted(n) = Nothing)'
    <3> SUFFICES ASSUME NEW n \in Machines, client'[n] \in Idle, manager[n] # Nothing PROVE hosted'[manager[n]] = Nothing
      BY <1>5 DEF Hosted
    <3>1. manager[n] \in Sockets
      BY <1>0
    <3>2. CASE manager[n] = g
      BY <2>5, <3>2
    <3>3. CASE client[n] \in Idle
      <4>1. hosted[manager[n]] = Nothing
        BY <1>h, <3>3 DEF Hosted
      <4> QED BY <2>5, <3>1, <4>1
    <3> QED BY <1>5, <3>2, <3>3
  <2>7. (\A b \in Sockets : hosted[b] # Nothing => born[hosted[b]] = b /\ reader[hosted[b]] = "read")'
    BY <1>0, <1>5, <1>h, <2>5
  <2> QED BY <2>3, <2>4, <2>6, <2>7
<1>6. ASSUME NEW m \in Machines, Empties(m) PROVE Goal
  <2>1. manager[m] \in Sockets
    BY <1>0, <1>6 DEF Empties, Managed
  <2>2. \A n \in Machines : client'[n] \in Idle => client[n] \in Idle \/ manager[n] = manager[m]
    BY <1>0, <1>6 DEF Empties
  <2>3. StopAll(manager[m]) /\ UNCHANGED <<manager, born, reader, orphans, leaving>>
    BY <1>6 DEF Empties
  <2> QED BY <1>5, <2>1, <2>2, <2>3
<1>7. ASSUME NEW m \in Machines, Aborts(m) PROVE Goal
  <2>1. /\ manager' = [manager EXCEPT ![m] = Nothing] /\ client' = [client EXCEPT ![m] = "off"]
        /\ leaving' = (IF manager[m] = Nothing THEN leaving ELSE leaving \cup {manager[m]})
        /\ UNCHANGED <<born, reader, hosted, alive, orphans>>
    BY <1>7 DEF Aborts, runtimesOf
  <2>2. (\A r \in alive : Current(r) \/ born[r] \in leaving \/ r \in orphans)'
    BY <1>0, <1>h, <2>1 DEF Current
  <2>3. (\A n \in Machines : client[n] \in Idle => Hosted(n) = Nothing)'
    BY <1>0, <1>h, <2>1 DEF Hosted
  <2> QED BY <1>h, <2>1, <2>2, <2>3
<1>8. ASSUME NEW m \in Machines, Begins(m) PROVE Goal
  <2>1. /\ manager' = [manager EXCEPT ![m] = Nothing] /\ client[m] \in Idle
        /\ \A n \in Machines : n # m => client'[n] = client[n]
        /\ UNCHANGED <<leaving, born, reader, hosted, alive, orphans>>
    BY <1>0, <1>8 DEF Begins, runtimesOf
  <2>2. \A r \in alive : RunOf[r] = m => ~Current(r)
    BY <1>0, <1>h, <2>1 DEF Hosted, Current
  <2>3. (\A r \in alive : Current(r) \/ born[r] \in leaving \/ r \in orphans)'
    BY <1>0, <1>h, <2>1, <2>2 DEF Current
  <2>4. (\A n \in Machines : client[n] \in Idle => Hosted(n) = Nothing)'
    BY <1>0, <1>h, <2>1 DEF Hosted
  <2> QED BY <1>h, <2>1, <2>3, <2>4
<1>9. ASSUME NEW r \in Runs, HostRun(r) PROVE Goal
  <2>1. /\ reader[r] = "begin" /\ hosted' = [hosted EXCEPT ![born[r]] = r] /\ alive' = alive \cup {r}
        /\ reader' = [reader EXCEPT ![r] = "read"]
        /\ orphans' = (IF Current(r) \/ born[r] \in leaving THEN orphans ELSE orphans \cup {r})
        /\ UNCHANGED <<client, manager, leaving, born>>
    BY <1>9, Zenon DEF HostRun, connector
  <2>2. born[r] \in Sockets /\ hosted[born[r]] = Nothing
    BY <1>0, <2>1 DEF Begun
  <2>3. \A q \in alive : born[q] # born[r]
    BY <1>0, <1>h, <2>2
  <2>4. (\A q \in alive : born[q] # Nothing /\ hosted[born[q]] = q)'
    BY <1>0, <1>h, <2>1, <2>2, <2>3
  <2>5. (\A q \in alive : Current(q) \/ born[q] \in leaving \/ q \in orphans)'
    BY <1>h, <2>1 DEF Current
  <2>6. ASSUME NEW n \in Machines, client[n] \in Idle PROVE manager[n] # born[r]
    <3>1. CASE RunOf[r] = n
      BY <2>1, <2>6, <3>1 DEF Begun, Current
    <3>2. CASE RunOf[r] # n
      BY <1>0, <2>2, <3>2 DEF Managed
    <3> QED BY <3>1, <3>2
  <2>7. (\A n \in Machines : client[n] \in Idle => Hosted(n) = Nothing)'
    BY <1>0, <1>h, <2>1, <2>6 DEF Hosted
  <2>8. (\A g \in Sockets : hosted[g] # Nothing => born[hosted[g]] = g /\ reader[hosted[g]] = "read")'
    BY <1>0, <1>h, <2>1, <2>2
  <2> QED BY <2>4, <2>5, <2>7, <2>8
<1>10. ASSUME NEW r \in Runs, FailRun(r) \/ Tell(r) PROVE Goal
  <2>1. /\ reader[r] # "read" /\ reader' = [reader EXCEPT ![r] = "over"]
        /\ UNCHANGED <<client, manager, leaving, born, hosted, alive, orphans>>
    BY <1>10 DEF FailRun, Tell, connector
  <2>2. (\A g \in Sockets : hosted[g] # Nothing => born[hosted[g]] = g /\ reader[hosted[g]] = "read")'
    BY <1>0, <1>h, <2>1
  <2> QED BY <1>h, <2>1, <2>2 DEF Current, Hosted
<1>11. ASSUME NEW r \in Runs, Reap(r) PROVE Goal
  <2>1. /\ hosted' = [hosted EXCEPT ![born[r]] = Nothing] /\ alive' = alive \ {hosted[born[r]]}
        /\ reader' = [reader EXCEPT ![r] = "tell"] /\ r \notin alive
        /\ UNCHANGED <<client, manager, leaving, born, orphans>>
    BY <1>11 DEF Reap, StopAll, connector
  <2>2. \A q \in alive' : q \in alive /\ born[q] # born[r]
    BY <1>0, <1>h, <2>1
  <2>3. (\A q \in alive : born[q] # Nothing /\ hosted[born[q]] = q)'
    BY <1>0, <1>h, <2>1, <2>2
  <2>4. (\A q \in alive : Current(q) \/ born[q] \in leaving \/ q \in orphans)'
    BY <1>h, <2>1, <2>2 DEF Current
  <2>5. \A b \in Sockets : hosted'[b] \in {hosted[b], Nothing} /\ (b = born[r] => hosted'[b] = Nothing)
    BY <1>0, <2>1
  <2>6. (\A n \in Machines : client[n] \in Idle => Hosted(n) = Nothing)'
    BY <1>0, <1>h, <2>1, <2>5 DEF Hosted
  <2>7. (\A b \in Sockets : hosted[b] # Nothing => born[hosted[b]] = b /\ reader[hosted[b]] = "read")'
    BY <1>0, <1>h, <2>1, <2>5
  <2> QED BY <2>3, <2>4, <2>6, <2>7
<1>12. ASSUME NEW r \in Runs, RuntimeEnds(r) PROVE Goal
  <2>1. alive' = alive \ {r} /\ UNCHANGED <<client, manager, leaving, born, hosted, reader, orphans>>
    BY <1>12, Zenon DEF RuntimeEnds, connector
  <2> QED BY <1>h, <2>1 DEF Current, Hosted
<1>13. ASSUME NEW g \in Sockets, FinishStop(g) PROVE Goal
  <2>1. StopAll(g) /\ leaving' = leaving \ {g} /\ UNCHANGED <<client, manager, born, reader, orphans>>
    BY <1>13, Zenon DEF FinishStop
  <2> QED BY <1>5, <2>1
<1> QED BY <1>1, <1>2, <1>3, <1>4, <1>6, <1>7, <1>8, <1>9, <1>10, <1>11, <1>12, <1>13, Doings, Zenon DEF Does, Moves

LEMMA ServingStep ==
    ASSUME DevicesTypeOK, Attached, Own, Asked, Managed, Unnamed, Begun, Hosts, Serving, [DevicesNext]_devicesVars
    PROVE  Serving'
<1> USE DevicesAssumption
<1>0. /\ manager \in [Machines -> Sockets \cup {Nothing}] /\ client \in [Machines -> ClientSide]
      /\ link \in [Machines -> Sockets \cup {Nothing}]
      /\ hosted \in [Sockets -> Runs \cup {Nothing}] /\ born \in [Runs -> Sockets \cup {Nothing}]
      /\ from \in [Runs -> Sockets \cup {Nothing}] /\ Nothing \notin Sockets \cup Runs
  BY DEF DevicesTypeOK, OrNothing
<1> DEFINE A(n) == Hosted(n) # Nothing /\ link[n] # Nothing => from[Hosted(n)] = link[n]
           B(r) == from[r] # Nothing => Of[from[r]] = RunOf[r] /\ (link[RunOf[r]] = from[r] => Current(r))
           Goal == (\A n \in Machines : A(n))' /\ (\A r \in Runs : B(r))'
<1>s. (\A n \in Machines : A(n)) /\ (\A r \in Runs : B(r))
  BY DEF Serving, ServingAt
<1>g. SUFFICES Goal
  BY DEF Serving, ServingAt
<1>1. CASE Rest
  BY <1>1, <1>s DEF Rest, runtimesOf, Current, Hosted
<1>2. ASSUME NEW m \in Machines, Dials(m) PROVE Goal
  <2>1. PICK c \in Sockets :
           /\ Of[c] = m /\ at[c] = "unused" /\ link' = [link EXCEPT ![m] = c]
           /\ manager' = [manager EXCEPT ![m] = IF manager[m] = Nothing THEN c ELSE manager[m]]
    BY <1>2 DEF Dials
  <2>2. UNCHANGED <<born, from, hosted>> /\ client[m] \in {"choose", "typed"}
    BY <1>2 DEF Dials, runtimesOf
  <2>3. hosted[c] = Nothing /\ \A r \in Runs : from[r] # c
    BY <2>1 DEF Unnamed
  <2>4. Hosted(m)' = Nothing
    BY <1>0, <2>1, <2>2, <2>3 DEF Hosted, Hosts
  <2>5. (\A n \in Machines : A(n))'
    <3> SUFFICES ASSUME NEW n \in Machines PROVE A(n)'
      OBVIOUS
    <3>1. CASE n = m
      BY <2>4, <3>1
    <3>2. CASE n # m
      <4>1. manager'[n] = manager[n] /\ link'[n] = link[n]
        BY <1>0, <2>1, <3>2
      <4>2. A(n)
        BY <1>s
      <4> QED BY <2>2, <4>1, <4>2 DEF Hosted
    <3> QED BY <3>1, <3>2
  <2>6. (\A r \in Runs : B(r))'
    BY <1>0, <1>s, <2>1, <2>2, <2>3 DEF Current
  <2> QED BY <2>5, <2>6
<1>3. ASSUME NEW m \in Machines, Prompts(m) \/ Drops(m) PROVE Goal
  <2>1. UNCHANGED <<manager, born, from, hosted>> /\ (UNCHANGED link \/ link' = [link EXCEPT ![m] = Nothing])
    BY <1>3, Zenon DEF Prompts, Drops, runtimesOf
  <2> QED BY <1>0, <1>s, <2>1 DEF Current, Hosted
<1>4. ASSUME NEW m \in Machines, NEW r \in Runs, Starts(m, r) PROVE Goal
  <2>1. /\ client[m] = "reading" /\ RunOf[r] = m /\ reader[r] = "none"
        /\ from' = [from EXCEPT ![r] = link[m]] /\ born' = [born EXCEPT ![r] = manager[m]]
        /\ UNCHANGED <<link, manager, hosted>>
    BY <1>4 DEF Starts
  <2>2. \A g \in Sockets : hosted[g] # r
    BY <1>0, <2>1 DEF Hosts
  <2>3. link[m] \in Sockets /\ Of[link[m]] = m
    BY <1>0, <2>1 DEF Attached
  <2>4. \A q \in Runs : q # r => from'[q] = from[q] /\ born'[q] = born[q]
    BY <1>0, <2>1
  <2>5. from'[r] = link[m] /\ born'[r] = manager[m]
    BY <1>0, <2>1
  <2>6. (\A n \in Machines : A(n))'
    <3> SUFFICES ASSUME NEW n \in Machines PROVE A(n)'
      OBVIOUS
    <3>1. Hosted(n)' = Hosted(n)
      BY <2>1 DEF Hosted
    <3>2. Hosted(n) # Nothing => Hosted(n) \in Runs /\ Hosted(n) # r
      BY <1>0, <2>2 DEF Hosted
    <3>3. A(n)
      BY <1>s
    <3> QED BY <2>1, <2>4, <3>1, <3>2, <3>3
  <2>7. (\A q \in Runs : B(q))'
    BY <1>s, <2>1, <2>3, <2>4, <2>5 DEF Current
  <2> QED BY <2>6, <2>7
<1>5. ASSUME NEW g \in Sockets, hosted' = [hosted EXCEPT ![g] = Nothing], UNCHANGED <<manager, link, born, from>> PROVE Goal
  <2>1. \A b \in Sockets : hosted'[b] \in {hosted[b], Nothing}
    BY <1>0, <1>5
  <2>2. (\A n \in Machines : A(n))'
    BY <1>0, <1>5, <1>s, <2>1 DEF Hosted
  <2> QED BY <1>5, <1>s, <2>2 DEF Current
<1>6. ASSUME NEW m \in Machines, Empties(m) PROVE Goal
  <2>1. manager[m] \in Sockets
    BY <1>0, <1>6 DEF Empties, Managed
  <2>2. hosted' = [hosted EXCEPT ![manager[m]] = Nothing] /\ UNCHANGED <<manager, link, born, from>>
    BY <1>6 DEF Empties, StopAll
  <2> QED BY <1>5, <2>1, <2>2
<1>7. ASSUME NEW m \in Machines, Aborts(m) PROVE Goal
  <2>1. /\ manager' = [manager EXCEPT ![m] = Nothing] /\ link' = [link EXCEPT ![m] = Nothing]
        /\ UNCHANGED <<born, from, hosted>>
    BY <1>7 DEF Aborts, runtimesOf
  <2> QED BY <1>0, <1>s, <2>1 DEF Current, Hosted
<1>8. ASSUME NEW m \in Machines, Begins(m) PROVE Goal
  <2>1. manager' = [manager EXCEPT ![m] = Nothing] /\ client[m] # "reading" /\ UNCHANGED <<link, born, from, hosted>>
    BY <1>8 DEF Begins, runtimesOf
  <2>2. link[m] = Nothing
    BY <2>1 DEF Attached
  <2> QED BY <1>0, <1>s, <2>1, <2>2 DEF Current, Hosted
<1>9. ASSUME NEW r \in Runs, HostRun(r) PROVE Goal
  <2>1. reader[r] = "begin" /\ hosted' = [hosted EXCEPT ![born[r]] = r] /\ UNCHANGED <<manager, link, born, from>>
    BY <1>9, Zenon DEF HostRun, connector
  <2>2. born[r] \in Sockets
    BY <1>0, <2>1 DEF Begun
  <2>3. ASSUME NEW n \in Machines, manager[n] = born[r] PROVE from[r] = link[n]
    <3>1. RunOf[r] = n
      BY <1>0, <2>2, <2>3 DEF Managed
    <3> QED BY <2>1, <2>3, <3>1 DEF Begun, Current
  <2>4. (\A n \in Machines : A(n))'
    BY <1>0, <1>s, <2>1, <2>2, <2>3 DEF Hosted
  <2> QED BY <1>s, <2>1, <2>4 DEF Current
<1>10. ASSUME NEW r \in Runs, FailRun(r) \/ Tell(r) \/ RuntimeEnds(r) PROVE Goal
  <2>1. UNCHANGED <<manager, link, born, from, hosted>>
    BY <1>10, Zenon DEF FailRun, Tell, RuntimeEnds, connector
  <2> QED BY <1>s, <2>1 DEF Current, Hosted
<1>11. ASSUME NEW r \in Runs, Reap(r) PROVE Goal
  <2>1. hosted' = [hosted EXCEPT ![born[r]] = Nothing] /\ UNCHANGED <<manager, link, born, from>>
    BY <1>11, Zenon DEF Reap, StopAll, connector
  <2>2. \A b \in Sockets : hosted'[b] \in {hosted[b], Nothing}
    BY <1>0, <2>1
  <2>3. (\A n \in Machines : A(n))'
    BY <1>0, <2>1, <1>s, <2>2 DEF Hosted
  <2> QED BY <2>1, <1>s, <2>3 DEF Current
<1>12. ASSUME NEW g \in Sockets, FinishStop(g) PROVE Goal
  <2>1. hosted' = [hosted EXCEPT ![g] = Nothing] /\ UNCHANGED <<manager, link, born, from>>
    BY <1>12, Zenon DEF FinishStop, StopAll
  <2> QED BY <1>5, <2>1
<1> QED BY <1>1, <1>2, <1>3, <1>4, <1>6, <1>7, <1>8, <1>9, <1>10, <1>11, <1>12, Doings, Zenon DEF Does, Moves

LEMMA PumpingStep ==
    ASSUME DevicesTypeOK, Pumping, [DevicesNext]_devicesVars
    PROVE  Pumping'
<1> USE DEF DevicesTypeOK, Pumping, sessions
<1>1. ASSUME NEW c \in Sockets, Attach(c) PROVE Pumping'
  BY <1>1, AttachMoves
<1>2. ASSUME NEW c \in Sockets, List(c) PROVE Pumping'
  BY <1>2 DEF List
<1>3. ASSUME NEW c \in Sockets, SayOk(c) PROVE Pumping'
  BY <1>3, SayOkMoves
<1>4. ASSUME NEW c \in Sockets, ListFrames(c) PROVE Pumping'
  BY <1>4 DEF ListFrames
<1>5. ASSUME NEW c \in Sockets, ReadNotice(c) PROVE Pumping'
  BY <1>5 DEF ReadNotice
<1>6. ASSUME NEW c \in Sockets, ClearRoutes(c) PROVE Pumping'
  BY <1>6 DEF ClearRoutes
<1>7. ASSUME NEW c \in Sockets, Unlist(c) PROVE Pumping'
  BY <1>7 DEF Unlist
<1>8. ASSUME NEW c \in Sockets, HangUp(c) PROVE Pumping'
  BY <1>8 DEF HangUp
<1>9. CASE BindElsewhere
  BY <1>9 DEF BindElsewhere
<1>10. ASSUME NEW r \in Runs, BeginRun(r) PROVE Pumping'
  BY <1>10 DEF BeginRun
<1>11. ASSUME NEW r \in Runs, RouteRun(r) PROVE Pumping'
  BY <1>11 DEF RouteRun
<1>12. ASSUME NEW r \in Runs, SendRun(r) PROVE Pumping'
  BY <1>12 DEF SendRun
<1>13. ASSUME NEW r \in Runs, AttachRun(r) PROVE Pumping'
  BY <1>13 DEF AttachRun
<1>14. ASSUME NEW r \in Runs, PumpEnds(r) PROVE Pumping'
  BY <1>14 DEF PumpEnds
<1>15. ASSUME NEW r \in Runs, Reap(r) PROVE Pumping'
  BY <1>15 DEF Reap
<1>16. ASSUME NEW r \in Runs, Tell(r) PROVE Pumping'
  BY <1>16 DEF Tell
<1>17. ASSUME NEW r \in Runs, RuntimeEnds(r) PROVE Pumping'
  BY <1>17 DEF RuntimeEnds
<1>18. ASSUME NEW m \in Machines, UnrouteRun(m) PROVE Pumping'
  BY <1>18 DEF UnrouteRun
<1>19. ASSUME NEW m \in Machines, CutOff(m) PROVE Pumping'
  BY <1>19 DEF CutOff
<1>20. ASSUME NEW m \in Machines, StopRun(m) PROVE Pumping'
  BY <1>20 DEF StopRun
<1>21. ASSUME NEW m \in Machines, RevokeRow(m) PROVE Pumping'
  BY <1>21 DEF RevokeRow
<1>22. ASSUME NEW m \in Machines, Choose(m) PROVE Pumping'
  BY <1>22, ChooseMoves
<1>23. ASSUME NEW m \in Machines, ReadMessage(m) PROVE Pumping'
  BY <1>23, ReadMoves
<1>24. ASSUME NEW m \in Machines, SeeClose(m) PROVE Pumping'
  BY <1>24 DEF SeeClose
<1>25. ASSUME NEW m \in Machines, Retire(m) PROVE Pumping'
  BY <1>25 DEF Retire
<1>26. ASSUME NEW m \in Machines, SeeBreak(m) PROVE Pumping'
  BY <1>26 DEF SeeBreak
<1>27. ASSUME NEW m \in Machines, SwitchOff(m) PROVE Pumping'
  BY <1>27 DEF SwitchOff
<1>28. ASSUME NEW m \in Machines, SwitchOn(m) PROVE Pumping'
  BY <1>28 DEF SwitchOn
<1>30. ASSUME NEW r \in Runs, HostRun(r) PROVE Pumping'
  BY <1>30 DEF HostRun
<1>31. ASSUME NEW r \in Runs, FailRun(r) PROVE Pumping'
  BY <1>31 DEF FailRun
<1>32. ASSUME NEW g \in Sockets, FinishStop(g) PROVE Pumping'
  BY <1>32 DEF FinishStop
<1>29. CASE UNCHANGED devicesVars
  BY <1>29 DEF devicesVars
<1> QED
  BY <1>1, <1>2, <1>3, <1>4, <1>5, <1>6, <1>7, <1>8, <1>9, <1>10, <1>11,
     <1>12, <1>13, <1>14, <1>15, <1>16, <1>17, <1>18, <1>19, <1>20, <1>21,
     <1>22, <1>23, <1>24, <1>25, <1>26, <1>27, <1>28, <1>29, <1>30, <1>31,
     <1>32, Zenon
  DEF DevicesNext, Attach, SocketStep, RunStep, ReaderStep, DeskStep,
      ClientStep

LEMMA AppendSome == ASSUME NEW S, NEW q \in Seq(S), NEW e \in S PROVE Append(q, e) # <<>>
<1>1. Len(Append(q, e)) = Len(q) + 1 /\ Len(q) \in Nat
  BY AppendProperties, LenProperties
<1>2. Len(<<>>) = 0
  OBVIOUS
<1>3. Len(Append(q, e)) # 0
  BY <1>1
<1> QED BY <1>2, <1>3

(* A start stays on its wire, until its machine reads it.                  *)
LEMMA StartsStay ==
    ASSUME DevicesTypeOK, NEW c, NEW msg \in Messages, down' = Posted(c, msg), NEW d \in Sockets, Starting(d)
    PROVE  Starting(d)'
<1>1. down \in [Sockets -> Seq(Messages)]
  BY DEF DevicesTypeOK
<1>2. CASE down'[d] = down[d]
  BY <1>2 DEF Starting
<1>3. CASE down'[d] = Append(down[d], msg)
  <2>1. down[d] \in Seq(Messages)
    BY <1>1
  <2>2. \A i \in 1..Len(down[d]) : i \in 1..Len(Append(down[d], msg)) /\ Append(down[d], msg)[i] = down[d][i]
    BY <2>1, AppendProperties
  <2> QED BY <1>3, <2>2 DEF Starting
<1> QED BY <1>1, <1>2, <1>3 DEF Posted

LEMMA StartPosted ==
    ASSUME DevicesTypeOK, NEW d \in Sockets, NEW r \in Runs, down' = Posted(d, [is |-> "start", run |-> r]),
           Linked(d), at[d] # "over"
    PROVE  Starting(d)'
<1> DEFINE msg == [is |-> "start", run |-> r]
<1>1. down[d] \in Seq(Messages) /\ msg \in Messages
  BY MessageTypes DEF DevicesTypeOK
<1>2. down'[d] = Append(down[d], msg)
  BY DEF Posted, DevicesTypeOK
<1>3. Len(down[d]) + 1 \in 1..Len(Append(down[d], msg)) /\ Append(down[d], msg)[Len(down[d]) + 1] = msg
  BY <1>1, AppendProperties
<1>4. msg.is = "start"
  OBVIOUS
<1> QED BY <1>2, <1>3, <1>4 DEF Starting

LEMMA StartsRead ==
    ASSUME DevicesTypeOK, NEW d \in Sockets, Starting(d), Head(down[d]).is # "start",
           down' = [down EXCEPT ![d] = Tail(down[d])]
    PROVE  Starting(d)'
<1>1. down[d] \in Seq(Messages) /\ down'[d] = Tail(down[d])
  BY DEF DevicesTypeOK
<1>2. PICK i \in 1..Len(down[d]) : down[d][i].is = "start"
  BY DEF Starting
<1>3. down[d] # <<>>
  BY <1>1, <1>2, EmptySeq
<1>4. i # 1
  BY <1>1, <1>2, <1>3, TailOk
<1>5. i - 1 \in 1..Len(Tail(down[d])) /\ Tail(down[d])[i - 1] = down[d][i]
  BY <1>1, <1>2, <1>3, <1>4, HeadTailProperties
<1> QED BY <1>1, <1>2, <1>5 DEF Starting

LEMMA RoutedStep ==
    ASSUME DevicesTypeOK, NothingDangles, Attached, Own, Hosts, Serving, Routed, [DevicesNext]_devicesVars
    PROVE  Routed'
<1> SUFFICES ASSUME NEW d \in Sockets PROVE RoutedAt(d)'
  BY DEF Routed
<1>0. RoutedAt(d)
  BY DEF Routed
<1> USE DevicesAssumption DEF DevicesTypeOK, OrNothing
<1>1. ASSUME NEW c \in Sockets, Attach(c) PROVE RoutedAt(d)'
  <2>1. UNCHANGED <<route, link, from, reader, upward, starter, strayed, hold>>
    BY <1>1, AttachMoves DEF lists, sessions, connector, runtimesOf
  <2>2. route[d] # Nothing => at'[d] = at[d]
    BY <1>1, <1>0, AttachMoves DEF RoutedAt
  <2>3. Starting(d) => Starting(d)'
    <3>1. UNCHANGED down \/ down' = Posted(c, [is |-> "error"])
      BY <1>1 DEF Attach, Hello, SignIn, FindRow, CountRows, InsertRow, Refuse, wires
    <3>2. CASE UNCHANGED down
      BY <3>2 DEF Starting
    <3>3. CASE down' = Posted(c, [is |-> "error"])
      BY <3>3, StartsStay, MessageTypes
    <3> QED BY <3>1, <3>2, <3>3
  <2> QED BY <1>0, <2>1, <2>2, <2>3 DEF RoutedAt, Answering, Linked
<1>2. ASSUME NEW c \in Sockets, List(c) PROVE RoutedAt(d)'
  BY <1>2, <1>0 DEF List, SocketAt, RoutedAt, Starting, Answering, Linked, table, socket, lists, wires, sessions,
      connector, runtimesOf
<1>3. ASSUME NEW c \in Sockets, SayOk(c) PROVE RoutedAt(d)'
  <2>1. UNCHANGED <<route, link, from, reader, upward, starter, strayed, hold>>
    BY <1>3 DEF SayOk, sessions, connector, runtimesOf
  <2>2. d # c => at'[d] = at[d] /\ down'[d] = down[d]
    BY <1>3 DEF SayOk, SocketAt
  <2>3. d = c => route[d] = Nothing
    BY <1>3, <1>0 DEF SayOk, RoutedAt
  <2> QED BY <1>0, <2>1, <2>2, <2>3 DEF RoutedAt, Starting, Answering, Linked
<1>4. ASSUME NEW c \in Sockets, ListFrames(c) PROVE RoutedAt(d)'
  BY <1>4, <1>0 DEF ListFrames, SocketAt, RoutedAt, Starting, Answering, Linked, table, socket, lists, wires, sessions,
      connector, runtimesOf
<1>5. ASSUME NEW c \in Sockets, ReadNotice(c) PROVE RoutedAt(d)'
  BY <1>5, <1>0 DEF ReadNotice, SocketAt, RoutedAt, Starting, Answering, Linked, table, socket, lists, wires, sessions,
      connector, runtimesOf
<1>6. ASSUME NEW c \in Sockets, ClearRoutes(c) PROVE RoutedAt(d)'
  BY <1>6, <1>0 DEF ClearRoutes, SocketAt, RoutedAt, Starting, Answering, Linked, table, socket, lists, wires, sessions,
      connector, runtimesOf
<1>7. ASSUME NEW c \in Sockets, Unlist(c) PROVE RoutedAt(d)'
  BY <1>7, <1>0 DEF Unlist, SocketAt, RoutedAt, Starting, Answering, Linked, table, socket, lists, wires, sessions,
      connector, runtimesOf
<1>8. ASSUME NEW c \in Sockets, HangUp(c) PROVE RoutedAt(d)'
  BY <1>8, <1>0 DEF HangUp, SocketAt, RoutedAt, Starting, Answering, Linked, table, socket, lists, wires, sessions,
      connector, runtimesOf
<1>9. CASE BindElsewhere
  BY <1>9, <1>0 DEF BindElsewhere, SocketAt, RoutedAt, Starting, Answering, Linked, table, socket, lists, wires, sessions,
      connector, runtimesOf
<1>10. ASSUME NEW r \in Runs, BeginRun(r) PROVE RoutedAt(d)'
  <2>1. UNCHANGED <<at, route, link, from, reader, upward, down, strayed>>
    BY <1>10 DEF BeginRun, lists, connector, runtimesOf, socket, wires
  <2>2. /\ starter[r] = "idle"
        /\ \A q \in Runs : q # r => starter'[q] = starter[q] /\ hold'[q] = hold[q]
    BY <1>10 DEF BeginRun
  <2>3. route[d] # r
    BY <1>0, <2>2 DEF RoutedAt
  <2> QED BY <1>0, <2>1, <2>2, <2>3 DEF RoutedAt, Starting, Answering, Linked
<1>11. ASSUME NEW r \in Runs, RouteRun(r) PROVE RoutedAt(d)'
  <2>1. UNCHANGED <<at, link, from, reader, upward, down, hold>> /\ starter[r] = "held"
    BY <1>11 DEF RouteRun, connector, runtimesOf, socket, wires
  <2>2. \A q \in Runs : q # r => starter'[q] = starter[q] /\ (q \in strayed' <=> q \in strayed)
    BY <1>11 DEF RouteRun
  <2>3. route[d] # r
    BY <1>0, <2>1 DEF RoutedAt
  <2>4. CASE route'[d] = route[d]
    BY <1>0, <2>1, <2>2, <2>3, <2>4 DEF RoutedAt, Starting, Answering, Linked
  <2>5. CASE route'[d] = r /\ frames[RunOf[r]] = d /\ starter'[r] = "routed" /\ (d # hold[r] => r \in strayed')
    <3>1. at[d] = "open"
      BY <2>5 DEF NothingDangles
    <3> QED BY <2>1, <2>5, <3>1 DEF RoutedAt
  <2> QED BY <1>11, <2>4, <2>5 DEF RouteRun
<1>12. ASSUME NEW r \in Runs, SendRun(r) PROVE RoutedAt(d)'
  <2>1. UNCHANGED <<at, route, link, from, reader, upward, strayed, hold>>
    BY <1>12 DEF SendRun, lists, sessions, connector, runtimesOf, socket
  <2>2. starter[r] = "routed" /\ starter'[r] \in {"sent", "done"} /\ \A q \in Runs : q # r => starter'[q] = starter[q]
    BY <1>12 DEF SendRun
  <2>3. down' = Posted(hold[r], [is |-> "start", run |-> r])
    BY <1>12 DEF SendRun
  <2>4. Starting(d) => Starting(d)'
    BY <2>3, StartsStay, MessageTypes
  <2>5. CASE route[d] = r /\ r \notin strayed
    <3>1. hold[r] = d /\ at[d] # "over" /\ starter'[r] \in {"routed", "sent", "done"}
      BY <1>0, <2>2, <2>5 DEF RoutedAt
    <3>2. Linked(d) => Starting(d)'
      BY <2>3, <3>1, StartPosted
    <3> QED BY <1>0, <2>1, <2>5, <3>1, <3>2 DEF RoutedAt, Linked
  <2>6. CASE route[d] = r /\ r \in strayed
    BY <1>0, <2>1, <2>2, <2>6 DEF RoutedAt
  <2>7. CASE route[d] # r
    BY <1>0, <2>1, <2>2, <2>4, <2>7 DEF RoutedAt, Answering, Linked
  <2> QED BY <2>5, <2>6, <2>7
<1>13. ASSUME NEW r \in Runs, AttachRun(r) PROVE RoutedAt(d)'
  <2>1. UNCHANGED <<at, route, link, from, reader, upward, down, strayed, hold>>
    BY <1>13 DEF AttachRun, lists, connector, runtimesOf, socket, wires
  <2>2. starter[r] = "sent" /\ starter'[r] = "done" /\ \A q \in Runs : q # r => starter'[q] = starter[q]
    BY <1>13 DEF AttachRun
  <2> QED BY <1>0, <2>1, <2>2 DEF RoutedAt, Starting, Answering, Linked
<1>14. ASSUME NEW r \in Runs, PumpEnds(r) PROVE RoutedAt(d)'
  BY <1>14, <1>0 DEF PumpEnds, SocketAt, RoutedAt, Starting, Answering, Linked, table, socket, lists, wires, sessions,
      connector, runtimesOf
<1>15. ASSUME NEW r \in Runs, Reap(r) PROVE RoutedAt(d)'
  <2>1. UNCHANGED <<at, route, link, from, upward, down, starter, strayed, hold>>
    BY <1>15 DEF Reap, lists, connector, sessions, socket, wires
  <2>2. Answering(d) => Answering(d)'
    BY <1>15 DEF Reap, Answering, wires
  <2> QED BY <1>0, <2>1, <2>2 DEF RoutedAt, Starting, Linked
<1>16. ASSUME NEW r \in Runs, Tell(r) \/ FailRun(r) PROVE RoutedAt(d)'
  <2>1. UNCHANGED <<at, route, link, from, down, starter, strayed, hold>>
    BY <1>16, Zenon DEF Tell, FailRun, lists, connector, sessions, socket
  <2>2. /\ \A q \in Runs : q # r => reader'[q] = reader[q]
        /\ \/ upward' = [upward EXCEPT ![from[r]] = Append(@, r)]
           \/ ~Linked(from[r]) /\ UNCHANGED upward
    <3>1. reader' = [reader EXCEPT ![r] = "over"] /\ Notify(r)
      BY <1>16, Zenon DEF Tell, FailRun
    <3> QED BY <3>1 DEF Notify
  <2>3. \A q \in Seq(Runs) : Append(q, r) # <<>>
    BY AppendSome
  <2>4. Linked(d) /\ Answering(d) => Answering(d)'
    <3> SUFFICES ASSUME Linked(d), Answering(d) PROVE Answering(d)'
      OBVIOUS
    <3>1. CASE upward[d] # <<>>
      <4>1. upward'[d] = upward[d] \/ upward'[d] = Append(upward[d], r)
        BY <2>2
      <4> QED BY <2>3, <3>1, <4>1 DEF Answering
    <3>2. ASSUME NEW q \in Runs, from[q] = d, reader[q] \in {"begin", "read", "tell"} PROVE Answering(d)'
      <4>1. CASE q = r
        <5>1. upward'[d] = Append(upward[d], r)
          BY <2>2, <3>2, <4>1
        <5> QED BY <2>3, <5>1 DEF Answering
      <4>2. CASE q # r
        BY <2>1, <2>2, <3>2, <4>2 DEF Answering
      <4> QED BY <4>1, <4>2
    <3> QED BY <3>1, <3>2 DEF Answering
  <2> QED BY <1>0, <2>1, <2>4 DEF RoutedAt, Starting, Linked
<1>17. ASSUME NEW r \in Runs, RuntimeEnds(r) PROVE RoutedAt(d)'
  BY <1>17, <1>0 DEF RuntimeEnds, SocketAt, RoutedAt, Starting, Answering, Linked, table, socket, lists, wires, sessions,
      connector, runtimesOf
<1>18. ASSUME NEW m \in Machines, UnrouteRun(m) PROVE RoutedAt(d)'
  BY <1>18, <1>0 DEF UnrouteRun, SocketAt, RoutedAt, Starting, Answering, Linked, table, socket, lists, wires, sessions,
      connector, runtimesOf
<1>19. ASSUME NEW m \in Machines, CutOff(m) PROVE RoutedAt(d)'
  <2>1. UNCHANGED <<at, route, link, from, reader, upward, starter, strayed, hold>>
    BY <1>19 DEF CutOff, sessions, connector, runtimesOf, socket
  <2>2. Starting(d) => Starting(d)'
    <3>1. UNCHANGED down \/ down' = Posted(registry[m], [is |-> "error"])
      BY <1>19 DEF CutOff
    <3>2. CASE UNCHANGED down
      BY <3>2 DEF Starting
    <3>3. CASE down' = Posted(registry[m], [is |-> "error"])
      BY <3>3, StartsStay, MessageTypes
    <3> QED BY <3>1, <3>2, <3>3
  <2> QED BY <1>0, <2>1, <2>2 DEF RoutedAt, Answering, Linked
<1>20. ASSUME NEW m \in Machines, StopRun(m) PROVE RoutedAt(d)'
  <2>1. UNCHANGED <<at, route, link, from, reader, upward, starter, strayed, hold>>
    BY <1>20 DEF StopRun, lists, connector, runtimesOf, socket
  <2>2. Starting(d) => Starting(d)'
    BY <1>20, StartsStay, MessageTypes DEF StopRun
  <2> QED BY <1>0, <2>1, <2>2 DEF RoutedAt, Answering, Linked
<1>21. ASSUME NEW m \in Machines, RevokeRow(m) PROVE RoutedAt(d)'
  BY <1>21, <1>0 DEF RevokeRow, SocketAt, RoutedAt, Starting, Answering, Linked, table, socket, lists, wires, sessions,
      connector, runtimesOf
<1>22. ASSUME NEW m \in Machines, Choose(m) PROVE RoutedAt(d)'
  <2>1. UNCHANGED <<route, from, reader, upward, down, starter, strayed, hold>>
    BY <1>22, ChooseMoves DEF lists, wires, sessions, runtimesOf
  <2>2. route[d] # Nothing => at'[d] = at[d] /\ (Linked(d)' => Linked(d))
    BY <1>22, <1>0, ChooseMoves DEF RoutedAt, Linked
  <2> QED BY <1>0, <2>1, <2>2 DEF RoutedAt, Starting, Answering
<1>23. ASSUME NEW m \in Machines, ReadMessage(m) PROVE RoutedAt(d)'
  <2> DEFINE e == link[m]
             msg == Head(down[e])
  <2>1. UNCHANGED <<at, route, starter, strayed, hold>> /\ down' = [down EXCEPT ![e] = Tail(down[e])]
    BY <1>23, ReadMoves DEF socket, lists, sessions
  <2>2. e \in Sockets /\ Of[e] = m /\ down[e] # <<>>
    BY <1>23, ReadMoves DEF Attached
  <2>3. Linked(d)' => Linked(d)
    BY <1>23, ReadMoves DEF Linked
  <2>4. Starting(d) => Starting(d)' \/ (d = e /\ msg.is = "start")
    <3>1. CASE d = e
      BY <2>1, <3>1, StartsRead
    <3>2. CASE d # e
      BY <2>1, <3>2 DEF Starting
    <3> QED BY <3>1, <3>2
  <2>5. ASSUME msg.is = "start", Linked(d) PROVE (Answering(d) \/ d = e) => Answering(d)'
    <3>1. msg.run \in Runs /\ RunOf[msg.run] = m
      BY <1>23, <2>5, HeadOwn
    <3> DEFINE q == msg.run
    <3>2. q \in Runs /\ RunOf[q] = m /\ TakeStart(m, q)
      BY <1>23, <2>5, <3>1 DEF ReadMessage
    <3> HIDE DEF q
    <3>3. CASE Hosted(m) # Nothing /\ UNCHANGED <<runtimesOf, upward>>
      <4>1. Hosted(m) \in Runs /\ from[Hosted(m)] = e /\ reader[Hosted(m)] = "read"
        <5>1. manager[m] \in Sockets /\ hosted[manager[m]] # Nothing /\ Hosted(m) = hosted[manager[m]]
          BY <3>3 DEF Hosted
        <5>2. reader[Hosted(m)] = "read" /\ Hosted(m) \in Runs
          <6> DEFINE h == hosted[manager[m]]
          <6>1. h \in Runs
            BY <5>1
          <6>2. reader[h] = "read"
            BY <5>1 DEF Hosts
          <6> QED BY <5>1, <6>1, <6>2
        <5>3. from[Hosted(m)] = e
          BY <2>2, <3>3 DEF Serving, ServingAt
        <5> QED BY <5>2, <5>3
      <4> QED BY <3>3, <4>1 DEF Answering, runtimesOf
    <3>4. CASE /\ Hosted(m) = Nothing /\ UNCHANGED upward
               /\ reader' = [reader EXCEPT ![q] = "begin"] /\ from' = [from EXCEPT ![q] = e]
      <4>1. CASE d = e
        BY <2>2, <3>2, <3>4, <4>1 DEF Answering
      <4>2. CASE d # e
        <5>1. Of[d] # m
          BY <2>5, <4>2 DEF Linked
        <5>2. from[q] # d
          BY <3>2, <5>1 DEF Serving
        <5>3. \A p \in Runs : from[p] = d => from'[p] = d /\ reader'[p] = reader[p]
          BY <3>4, <5>2
        <5> QED BY <3>4, <4>2, <5>3 DEF Answering
      <4> QED BY <4>1, <4>2
    <3> QED BY <3>2, <3>3, <3>4, Zenon DEF TakeStart
  <2>6. ASSUME msg.is # "start" PROVE Answering(d) => Answering(d)'
    <3>1. UNCHANGED <<upward, from, reader>>
      BY <1>23, <2>6 DEF ReadMessage, TakeOk, TakeError, TakeStop, runtimesOf
    <3> QED BY <3>1 DEF Answering
  <2>7. Linked(d) /\ (Starting(d) \/ Answering(d)) => Starting(d)' \/ Answering(d)'
    BY <2>4, <2>5, <2>6
  <2> QED BY <1>0, <2>1, <2>3, <2>7 DEF RoutedAt
<1>24. ASSUME NEW m \in Machines, SeeClose(m) PROVE RoutedAt(d)'
  BY <1>24, <1>0 DEF SeeClose, LetGo, RoutedAt, Starting, Answering, Linked, table, socket, lists, wires, sessions,
      connector, runtimesOf
<1>25. ASSUME NEW m \in Machines, Retire(m) PROVE RoutedAt(d)'
  BY <1>25, <1>0 DEF Retire, SocketAt, RoutedAt, Starting, Answering, Linked, table, socket, lists, wires, sessions,
      connector, runtimesOf
<1>26. ASSUME NEW m \in Machines, SeeBreak(m) PROVE RoutedAt(d)'
  BY <1>26, <1>0 DEF SeeBreak, LetGo, RoutedAt, Starting, Answering, Linked, table, socket, lists, wires, sessions,
      connector, runtimesOf
<1>27. ASSUME NEW m \in Machines, SwitchOff(m) PROVE RoutedAt(d)'
  BY <1>27, <1>0 DEF SwitchOff, SocketAt, RoutedAt, Starting, Answering, Linked, table, socket, lists, wires, sessions,
      connector, runtimesOf
<1>28. ASSUME NEW m \in Machines, SwitchOn(m) PROVE RoutedAt(d)'
  BY <1>28, <1>0 DEF SwitchOn, SocketAt, RoutedAt, Starting, Answering, Linked, table, socket, lists, wires, sessions,
      connector, runtimesOf
<1>30. ASSUME NEW r \in Runs, HostRun(r) PROVE RoutedAt(d)'
  <2>1. UNCHANGED <<at, route, link, from, upward, down, starter, strayed, hold>> /\ reader' = [reader EXCEPT ![r] = "read"]
    BY <1>30, Zenon DEF HostRun, lists, connector, sessions, socket, wires
  <2>2. Answering(d) => Answering(d)'
    BY <2>1 DEF Answering
  <2> QED BY <1>0, <2>1, <2>2 DEF RoutedAt, Starting, Linked
<1>32. ASSUME NEW g \in Sockets, FinishStop(g) PROVE RoutedAt(d)'
  BY <1>32, <1>0 DEF FinishStop, SocketAt, RoutedAt, Starting, Answering, Linked, table, socket, lists, wires, sessions,
      connector, runtimesOf
<1>29. CASE UNCHANGED devicesVars
  BY <1>29, <1>0 DEF devicesVars, RoutedAt, Starting, Answering, Linked, table, socket, lists, wires, sessions,
      connector, runtimesOf
<1> QED
  BY <1>1, <1>2, <1>3, <1>4, <1>5, <1>6, <1>7, <1>8, <1>9, <1>10, <1>11,
     <1>12, <1>13, <1>14, <1>15, <1>16, <1>17, <1>18, <1>19, <1>20, <1>21,
     <1>22, <1>23, <1>24, <1>25, <1>26, <1>27, <1>28, <1>29, <1>30, <1>32, Zenon
  DEF DevicesNext, Attach, SocketStep, RunStep, ReaderStep, DeskStep,
      ClientStep

(* At rest nobody answers for a session but the runtime itself.            *)
LEMMA NobodyHaunts ==
    ASSUME DevicesTypeOK, Attached, Own, Hosts, Serving, Routed, Pumping
    PROVE  NoGhost
<1> SUFFICES ASSUME NEW r \in pumps \ strayed, Hosted(RunOf[r]) = Nothing, Resting
             PROVE  \E c \in Sockets : route[c] = r /\ at[c] = "open" /\ ~Linked(c)
  BY DEF NoGhost
<1>1. r \in Runs /\ starter[r] = "done" /\ r # Nothing
  BY DevicesAssumption DEF DevicesTypeOK, Pumping
<1>2. PICK c \in Sockets : route[c] = r
  BY <1>1 DEF Resting, RunBusy
<1>3. /\ at[c] = "open" /\ upward[c] = <<>>
      /\ hold[r] = c /\ (Linked(c) => Starting(c) \/ Answering(c))
  BY <1>1, <1>2 DEF Routed, RoutedAt, Resting, SocketBusy
<1>4. SUFFICES ASSUME Linked(c) PROVE FALSE
  BY <1>2, <1>3
<1> DEFINE m == Of[c]
<1>5. m \in Machines /\ link[m] = c /\ client[m] = "reading" /\ down[c] = <<>>
  <2>1. m \in Machines /\ link[m] = c /\ c # Nothing
    BY <1>4, DevicesAssumption DEF Linked
  <2>2. client[m] = "reading"
    BY <2>1 DEF Attached
  <2> QED BY <2>1, <2>2 DEF Resting, ClientBusy
<1>6. ~Starting(c)
  BY <1>5 DEF Starting
<1>7. PICK q \in Runs : from[q] = c /\ reader[q] \in {"begin", "read", "tell"}
  BY <1>3, <1>4, <1>6 DEF Answering
<1>8. q \in alive
  BY <1>7 DEF Resting, RunBusy
<1>9. Of[c] = RunOf[q] /\ Of[c] = RunOf[r]
  <2>1. from[q] # Nothing /\ hold[r] # Nothing
    BY <1>3, <1>7, DevicesAssumption
  <2> QED BY <1>1, <1>3, <1>7, <2>1 DEF Serving, Own
<1>10. manager[m] = born[q] /\ born[q] # Nothing /\ hosted[born[q]] = q
  <2>1. Current(q)
    BY <1>5, <1>7, <1>9, DevicesAssumption DEF Serving
  <2> QED BY <1>8, <1>9, <2>1 DEF Hosts, Current
<1>11. Hosted(m) = q
  BY <1>10 DEF Hosted
<1> QED BY <1>9, <1>11, DevicesAssumption

(* How rows and connections change.                                        *)
LEMMA RowMoves ==
    ASSUME DevicesTypeOK, [DevicesNext]_devicesVars, NEW n \in Machines
    PROVE  /\ \/ row'[n] = row[n] /\ rowToken'[n] = rowToken[n]
              \/ row'[n] = "revoked"
              \/ rowToken'[n] \in Sockets /\ at[rowToken'[n]] \in {"bind", "insert"}
           /\ dbMissed => dbMissed'
<1> DEFINE Moved == /\ \/ row'[n] = row[n] /\ rowToken'[n] = rowToken[n]
                       \/ row'[n] = "revoked"
                       \/ rowToken'[n] \in Sockets /\ at[rowToken'[n]] \in {"bind", "insert"}
                    /\ dbMissed => dbMissed'
<1> SUFFICES Moved
  OBVIOUS
<1> USE DEF DevicesTypeOK, Well, Miss, Order, table, counts
<1>1. ASSUME NEW c \in Sockets, Attach(c) PROVE Moved
  <2>1. at[c] \in {"first", "bind", "count", "insert"}
    BY <1>1 DEF Attach, Hello, SignIn, FindRow, CountRows, InsertRow
  <2>2. \/ UNCHANGED <<row, rowToken>>
        \/ rowToken' = [rowToken EXCEPT ![Of[c]] = c] /\ row' = [row EXCEPT ![Of[c]] = "live"] /\ at[c] \in {"bind", "insert"}
    BY <1>1, Zenon DEF Attach, Hello, SignIn, FindRow, CountRows, InsertRow, BecomesLive, Refuse, table
  <2>3. dbMissed => dbMissed'
    BY <1>1 DEF Attach, Hello, SignIn, FindRow, CountRows, InsertRow, counts
  <2> QED BY <2>1, <2>2, <2>3
<1>2. ASSUME NEW c \in Sockets, List(c) PROVE Moved
  BY <1>2 DEF List
<1>3. ASSUME NEW c \in Sockets, SayOk(c) PROVE Moved
  BY <1>3, SayOkMoves
<1>4. ASSUME NEW c \in Sockets, ListFrames(c) PROVE Moved
  BY <1>4 DEF ListFrames
<1>5. ASSUME NEW c \in Sockets, ReadNotice(c) PROVE Moved
  BY <1>5 DEF ReadNotice
<1>6. ASSUME NEW c \in Sockets, ClearRoutes(c) PROVE Moved
  BY <1>6 DEF ClearRoutes
<1>7. ASSUME NEW c \in Sockets, Unlist(c) PROVE Moved
  BY <1>7 DEF Unlist
<1>8. ASSUME NEW c \in Sockets, HangUp(c) PROVE Moved
  BY <1>8 DEF HangUp
<1>9. CASE BindElsewhere
  BY <1>9 DEF BindElsewhere
<1>10. ASSUME NEW r \in Runs, BeginRun(r) PROVE Moved
  BY <1>10 DEF BeginRun
<1>11. ASSUME NEW r \in Runs, RouteRun(r) PROVE Moved
  BY <1>11 DEF RouteRun
<1>12. ASSUME NEW r \in Runs, SendRun(r) PROVE Moved
  BY <1>12 DEF SendRun
<1>13. ASSUME NEW r \in Runs, AttachRun(r) PROVE Moved
  BY <1>13 DEF AttachRun
<1>14. ASSUME NEW r \in Runs, PumpEnds(r) PROVE Moved
  BY <1>14 DEF PumpEnds
<1>15. ASSUME NEW r \in Runs, Reap(r) PROVE Moved
  BY <1>15 DEF Reap
<1>16. ASSUME NEW r \in Runs, Tell(r) PROVE Moved
  BY <1>16 DEF Tell
<1>17. ASSUME NEW r \in Runs, RuntimeEnds(r) PROVE Moved
  BY <1>17 DEF RuntimeEnds
<1>18. ASSUME NEW m \in Machines, UnrouteRun(m) PROVE Moved
  BY <1>18 DEF UnrouteRun
<1>19. ASSUME NEW m \in Machines, CutOff(m) PROVE Moved
  BY <1>19 DEF CutOff
<1>20. ASSUME NEW m \in Machines, StopRun(m) PROVE Moved
  BY <1>20 DEF StopRun
<1>21. ASSUME NEW m \in Machines, RevokeRow(m) PROVE Moved
  BY <1>21 DEF RevokeRow
<1>22. ASSUME NEW m \in Machines, Choose(m) PROVE Moved
  BY <1>22, ChooseMoves
<1>23. ASSUME NEW m \in Machines, ReadMessage(m) PROVE Moved
  <2>1. UNCHANGED <<row, rowToken>>
    BY <1>23, ReadMoves
  <2>2. dbMissed => dbMissed'
    BY <1>23 DEF ReadMessage, TakeOk, TakeError, TakeStart, TakeStop
  <2> QED BY <2>1, <2>2
<1>24. ASSUME NEW m \in Machines, SeeClose(m) PROVE Moved
  BY <1>24 DEF SeeClose
<1>25. ASSUME NEW m \in Machines, Retire(m) PROVE Moved
  BY <1>25 DEF Retire
<1>26. ASSUME NEW m \in Machines, SeeBreak(m) PROVE Moved
  BY <1>26 DEF SeeBreak
<1>27. ASSUME NEW m \in Machines, SwitchOff(m) PROVE Moved
  BY <1>27 DEF SwitchOff
<1>28. ASSUME NEW m \in Machines, SwitchOn(m) PROVE Moved
  BY <1>28 DEF SwitchOn
<1>30. ASSUME NEW r \in Runs, HostRun(r) PROVE Moved
  BY <1>30 DEF HostRun
<1>31. ASSUME NEW r \in Runs, FailRun(r) PROVE Moved
  BY <1>31 DEF FailRun
<1>32. ASSUME NEW g \in Sockets, FinishStop(g) PROVE Moved
  BY <1>32 DEF FinishStop
<1>29. CASE UNCHANGED devicesVars
  BY <1>29 DEF devicesVars, table, socket, lists, wires, sessions, connector,
      runtimesOf, counts
<1> QED
  BY <1>1, <1>2, <1>3, <1>4, <1>5, <1>6, <1>7, <1>8, <1>9, <1>10, <1>11,
     <1>12, <1>13, <1>14, <1>15, <1>16, <1>17, <1>18, <1>19, <1>20, <1>21,
     <1>22, <1>23, <1>24, <1>25, <1>26, <1>27, <1>28, <1>29, <1>30, <1>31,
     <1>32, Zenon
  DEF DevicesNext, Attach, SocketStep, RunStep, ReaderStep, DeskStep,
      ClientStep

LEMMA LinkMoves ==
    ASSUME DevicesTypeOK, [DevicesNext]_devicesVars, NEW n \in Machines
    PROVE  link'[n] = link[n] \/ link'[n] = Nothing \/ at'[link'[n]] = "first"
<1> DEFINE Moved == link'[n] = link[n] \/ link'[n] = Nothing \/ at'[link'[n]] = "first"
<1> SUFFICES Moved
  OBVIOUS
<1> USE DEF DevicesTypeOK, OrNothing, connector, LetGo
<1>1. ASSUME NEW c \in Sockets, Attach(c) PROVE Moved
  BY <1>1, AttachMoves
<1>2. ASSUME NEW c \in Sockets, List(c) PROVE Moved
  BY <1>2 DEF List
<1>3. ASSUME NEW c \in Sockets, SayOk(c) PROVE Moved
  BY <1>3, SayOkMoves
<1>4. ASSUME NEW c \in Sockets, ListFrames(c) PROVE Moved
  BY <1>4 DEF ListFrames
<1>5. ASSUME NEW c \in Sockets, ReadNotice(c) PROVE Moved
  BY <1>5 DEF ReadNotice
<1>6. ASSUME NEW c \in Sockets, ClearRoutes(c) PROVE Moved
  BY <1>6 DEF ClearRoutes
<1>7. ASSUME NEW c \in Sockets, Unlist(c) PROVE Moved
  BY <1>7 DEF Unlist
<1>8. ASSUME NEW c \in Sockets, HangUp(c) PROVE Moved
  BY <1>8 DEF HangUp
<1>9. CASE BindElsewhere
  BY <1>9 DEF BindElsewhere
<1>10. ASSUME NEW r \in Runs, BeginRun(r) PROVE Moved
  BY <1>10 DEF BeginRun
<1>11. ASSUME NEW r \in Runs, RouteRun(r) PROVE Moved
  BY <1>11 DEF RouteRun
<1>12. ASSUME NEW r \in Runs, SendRun(r) PROVE Moved
  BY <1>12 DEF SendRun
<1>13. ASSUME NEW r \in Runs, AttachRun(r) PROVE Moved
  BY <1>13 DEF AttachRun
<1>14. ASSUME NEW r \in Runs, PumpEnds(r) PROVE Moved
  BY <1>14 DEF PumpEnds
<1>15. ASSUME NEW r \in Runs, Reap(r) PROVE Moved
  BY <1>15 DEF Reap
<1>16. ASSUME NEW r \in Runs, Tell(r) PROVE Moved
  BY <1>16 DEF Tell
<1>17. ASSUME NEW r \in Runs, RuntimeEnds(r) PROVE Moved
  BY <1>17 DEF RuntimeEnds
<1>18. ASSUME NEW m \in Machines, UnrouteRun(m) PROVE Moved
  BY <1>18 DEF UnrouteRun
<1>19. ASSUME NEW m \in Machines, CutOff(m) PROVE Moved
  BY <1>19 DEF CutOff
<1>20. ASSUME NEW m \in Machines, StopRun(m) PROVE Moved
  BY <1>20 DEF StopRun
<1>21. ASSUME NEW m \in Machines, RevokeRow(m) PROVE Moved
  BY <1>21 DEF RevokeRow
<1>22. ASSUME NEW m \in Machines, Choose(m) PROVE Moved
  <2>1. CASE \E c \in Sockets :
                  /\ Of[c] = m /\ at[c] = "unused" /\ at' = [at EXCEPT ![c] = "first"]
                  /\ \/ shown' = [shown EXCEPT ![c] = Nothing]
                     \/ shown' = [shown EXCEPT ![c] = mem[m]]
                  /\ link' = [link EXCEPT ![m] = c] /\ client' = [client EXCEPT ![m] = "reading"]
    <3>1. PICK c \in Sockets :
                  /\ Of[c] = m /\ at[c] = "unused" /\ at' = [at EXCEPT ![c] = "first"]
                  /\ \/ shown' = [shown EXCEPT ![c] = Nothing]
                     \/ shown' = [shown EXCEPT ![c] = mem[m]]
                  /\ link' = [link EXCEPT ![m] = c] /\ client' = [client EXCEPT ![m] = "reading"]
      BY <2>1
    <3> QED BY <1>22, <3>1, ChooseMoves
  <2>2. CASE client[m] = "choose" /\ client' = [client EXCEPT ![m] = "asks"] /\ UNCHANGED <<at, shown, link>>
    <3>1. UNCHANGED <<table, registry, frames>>
      BY <1>22, ChooseMoves DEF lists
    <3> QED BY <2>2, <3>1
  <2> QED BY <1>22, <2>1, <2>2, ChooseMoves
<1>23. ASSUME NEW m \in Machines, ReadMessage(m) PROVE Moved
  <2>1. /\ client[m] = "reading"
        /\ \/ UNCHANGED <<client, link>>
           \/ link' = [link EXCEPT ![m] = Nothing] /\ client' = [client EXCEPT ![m] = "retire"]
        /\ UNCHANGED <<at, shown>>
    BY <1>23, ReadMoves DEF socket
  <2> QED BY <2>1
<1>24. ASSUME NEW m \in Machines, SeeClose(m) PROVE Moved
  BY <1>24 DEF SeeClose
<1>25. ASSUME NEW m \in Machines, Retire(m) PROVE Moved
  BY <1>25 DEF Retire
<1>26. ASSUME NEW m \in Machines, SeeBreak(m) PROVE Moved
  BY <1>26 DEF SeeBreak
<1>27. ASSUME NEW m \in Machines, SwitchOff(m) PROVE Moved
  BY <1>27 DEF SwitchOff
<1>28. ASSUME NEW m \in Machines, SwitchOn(m) PROVE Moved
  BY <1>28 DEF SwitchOn
<1>30. ASSUME NEW r \in Runs, HostRun(r) PROVE Moved
  BY <1>30 DEF HostRun
<1>31. ASSUME NEW r \in Runs, FailRun(r) PROVE Moved
  BY <1>31 DEF FailRun
<1>32. ASSUME NEW g \in Sockets, FinishStop(g) PROVE Moved
  BY <1>32 DEF FinishStop
<1>29. CASE UNCHANGED devicesVars
  BY <1>29 DEF devicesVars, table, socket, lists, wires, sessions, connector,
      runtimesOf, counts
<1> QED
  BY <1>1, <1>2, <1>3, <1>4, <1>5, <1>6, <1>7, <1>8, <1>9, <1>10, <1>11,
     <1>12, <1>13, <1>14, <1>15, <1>16, <1>17, <1>18, <1>19, <1>20, <1>21,
     <1>22, <1>23, <1>24, <1>25, <1>26, <1>27, <1>28, <1>29, <1>30, <1>31,
     <1>32, Zenon
  DEF DevicesNext, Attach, SocketStep, RunStep, ReaderStep, DeskStep,
      ClientStep

LEMMA Refusing ==
    ASSUME DevicesTypeOK, Attached, [DevicesNext]_devicesVars, NEW s \in Sockets,
           at[s] # "over", at'[s] = "over", link[Of[s]] = s
    PROVE  \/ shown[s] = Nothing \/ dbMissed'
           \/ UNCHANGED <<row, rowToken>> /\ (row[Of[s]] # "live" \/ rowToken[Of[s]] # shown[s])
<1> DEFINE Rightly == \/ shown[s] = Nothing \/ dbMissed'
                      \/ UNCHANGED <<row, rowToken>> /\ (row[Of[s]] # "live" \/ rowToken[Of[s]] # shown[s])
<1> SUFFICES Rightly
  OBVIOUS
<1> USE DEF DevicesTypeOK, socket, SocketAt
<1>1. ASSUME NEW c \in Sockets, Attach(c) PROVE Rightly
  <2>1. at'[s] = at[s] \/ c = s
    BY <1>1, AttachMoves
  <2>2. CASE shown[s] = Nothing
    BY <2>2
  <2>3. CASE c = s /\ shown[s] # Nothing
    <3>1. at[s] \notin {"bind", "count", "insert"}
      BY <2>3 DEF Attached
    <3>3. Hello(s)
      BY <1>1, <2>3, <3>1 DEF Attach, SignIn, FindRow, CountRows, InsertRow
    <3>2. Refuse(s)
      BY <3>3 DEF Hello
    <3> QED BY <3>2, <3>3 DEF Hello, Refuse, Miss, table
  <2> QED BY <2>1, <2>2, <2>3
<1>2. ASSUME NEW c \in Sockets, List(c) PROVE Rightly
  BY <1>2 DEF List
<1>3. ASSUME NEW c \in Sockets, SayOk(c) PROVE Rightly
  <2>1. link[Of[c]] # c \/ at' = [at EXCEPT ![c] = "frames"]
    BY <1>3, SayOkMoves
  <2> QED BY <1>3, <2>1, SayOkMoves
<1>4. ASSUME NEW c \in Sockets, ListFrames(c) PROVE Rightly
  BY <1>4 DEF ListFrames
<1>5. ASSUME NEW c \in Sockets, ReadNotice(c) PROVE Rightly
  BY <1>5 DEF ReadNotice
<1>6. ASSUME NEW c \in Sockets, ClearRoutes(c) PROVE Rightly
  BY <1>6 DEF ClearRoutes
<1>7. ASSUME NEW c \in Sockets, Unlist(c) PROVE Rightly
  <2>1. c # s
    <3>1. Of[s] \in Machines /\ s # Nothing
      BY DevicesAssumption
    <3> QED BY <1>7, <3>1 DEF Unlist, Attached
  <2> QED BY <1>7, <2>1 DEF Unlist
<1>8. ASSUME NEW c \in Sockets, HangUp(c) PROVE Rightly
  BY <1>8 DEF HangUp
<1>9. CASE BindElsewhere
  BY <1>9 DEF BindElsewhere
<1>10. ASSUME NEW r \in Runs, BeginRun(r) PROVE Rightly
  BY <1>10 DEF BeginRun
<1>11. ASSUME NEW r \in Runs, RouteRun(r) PROVE Rightly
  BY <1>11 DEF RouteRun
<1>12. ASSUME NEW r \in Runs, SendRun(r) PROVE Rightly
  BY <1>12 DEF SendRun
<1>13. ASSUME NEW r \in Runs, AttachRun(r) PROVE Rightly
  BY <1>13 DEF AttachRun
<1>14. ASSUME NEW r \in Runs, PumpEnds(r) PROVE Rightly
  BY <1>14 DEF PumpEnds
<1>15. ASSUME NEW r \in Runs, Reap(r) PROVE Rightly
  BY <1>15 DEF Reap
<1>16. ASSUME NEW r \in Runs, Tell(r) PROVE Rightly
  BY <1>16 DEF Tell
<1>17. ASSUME NEW r \in Runs, RuntimeEnds(r) PROVE Rightly
  BY <1>17 DEF RuntimeEnds
<1>18. ASSUME NEW m \in Machines, UnrouteRun(m) PROVE Rightly
  BY <1>18 DEF UnrouteRun
<1>19. ASSUME NEW m \in Machines, CutOff(m) PROVE Rightly
  BY <1>19 DEF CutOff
<1>20. ASSUME NEW m \in Machines, StopRun(m) PROVE Rightly
  BY <1>20 DEF StopRun
<1>21. ASSUME NEW m \in Machines, RevokeRow(m) PROVE Rightly
  BY <1>21 DEF RevokeRow
<1>22. ASSUME NEW m \in Machines, Choose(m) PROVE Rightly
  <2>1. CASE \E c \in Sockets :
                  /\ Of[c] = m /\ at[c] = "unused" /\ at' = [at EXCEPT ![c] = "first"]
                  /\ \/ shown' = [shown EXCEPT ![c] = Nothing]
                     \/ shown' = [shown EXCEPT ![c] = mem[m]]
                  /\ link' = [link EXCEPT ![m] = c] /\ client' = [client EXCEPT ![m] = "reading"]
    <3>1. PICK c \in Sockets :
                  /\ Of[c] = m /\ at[c] = "unused" /\ at' = [at EXCEPT ![c] = "first"]
                  /\ \/ shown' = [shown EXCEPT ![c] = Nothing]
                     \/ shown' = [shown EXCEPT ![c] = mem[m]]
                  /\ link' = [link EXCEPT ![m] = c] /\ client' = [client EXCEPT ![m] = "reading"]
      BY <2>1
    <3> QED BY <1>22, <3>1, ChooseMoves
  <2>2. CASE client[m] = "choose" /\ client' = [client EXCEPT ![m] = "asks"] /\ UNCHANGED <<at, shown, link>>
    <3>1. UNCHANGED <<table, registry, frames>>
      BY <1>22, ChooseMoves DEF lists
    <3> QED BY <2>2, <3>1
  <2> QED BY <1>22, <2>1, <2>2, ChooseMoves
<1>23. ASSUME NEW m \in Machines, ReadMessage(m) PROVE Rightly
  BY <1>23, ReadMoves
<1>24. ASSUME NEW m \in Machines, SeeClose(m) PROVE Rightly
  BY <1>24 DEF SeeClose
<1>25. ASSUME NEW m \in Machines, Retire(m) PROVE Rightly
  BY <1>25 DEF Retire
<1>26. ASSUME NEW m \in Machines, SeeBreak(m) PROVE Rightly
  BY <1>26 DEF SeeBreak
<1>27. ASSUME NEW m \in Machines, SwitchOff(m) PROVE Rightly
  BY <1>27 DEF SwitchOff
<1>28. ASSUME NEW m \in Machines, SwitchOn(m) PROVE Rightly
  BY <1>28 DEF SwitchOn
<1>30. ASSUME NEW r \in Runs, HostRun(r) PROVE Rightly
  BY <1>30 DEF HostRun
<1>31. ASSUME NEW r \in Runs, FailRun(r) PROVE Rightly
  BY <1>31 DEF FailRun
<1>32. ASSUME NEW g \in Sockets, FinishStop(g) PROVE Rightly
  BY <1>32 DEF FinishStop
<1>29. CASE UNCHANGED devicesVars
  BY <1>29 DEF devicesVars, table, socket, lists, wires, sessions, connector,
      runtimesOf, counts
<1> QED
  BY <1>1, <1>2, <1>3, <1>4, <1>5, <1>6, <1>7, <1>8, <1>9, <1>10, <1>11,
     <1>12, <1>13, <1>14, <1>15, <1>16, <1>17, <1>18, <1>19, <1>20, <1>21,
     <1>22, <1>23, <1>24, <1>25, <1>26, <1>27, <1>28, <1>29, <1>30, <1>31,
     <1>32, Zenon
  DEF DevicesNext, Attach, SocketStep, RunStep, ReaderStep, DeskStep,
      ClientStep

LEMMA RefusedStep ==
    ASSUME DevicesTypeOK, Attached, Given, Refused, [DevicesNext]_devicesVars
    PROVE  Refused'
<1> SUFFICES ASSUME NEW n \in Machines, link'[n] # Nothing, at'[link'[n]] = "over",
                    disk'[n] # Nothing, shown'[link'[n]] = disk'[n]
             PROVE  Lost(n)'
  BY DEF Refused
<1>1. link'[n] = link[n]
  BY LinkMoves
<1>2. link[n] \in Sockets /\ Of[link[n]] = n /\ at[link[n]] # "unused"
  BY <1>1 DEF Attached, DevicesTypeOK, OrNothing
<1>3. shown'[link[n]] = shown[link[n]]
  BY <1>2, SocketsMoveOn
<1>4. disk'[n] = disk[n]
  BY <1>1, <1>2, <1>3, Storing, DevicesAssumption DEF Stored
<1>5. disk[n] \in Sockets /\ at[disk[n]] \in Past
  BY <1>4 DEF DevicesTypeOK, OrNothing, Given
<1>6. ASSUME Lost(n) PROVE Lost(n)'
  BY <1>4, <1>5, <1>6, RowMoves DEF Lost, Past
<1>7. CASE at[link[n]] = "over"
  BY <1>1, <1>3, <1>4, <1>6, <1>7 DEF Refused
<1>8. CASE at[link[n]] # "over"
  BY <1>1, <1>2, <1>3, <1>4, <1>8, Refusing DEF Lost
<1> QED BY <1>7, <1>8

LEMMA Forgetting ==
    ASSUME DevicesTypeOK, Attached, Given, Refused, [DevicesNext]_devicesVars,
           NEW n \in Machines, disk[n] # Nothing, disk'[n] = Nothing
    PROVE  \/ client'[n] = "off" \/ \E g \in leaving \ leaving' : Of[g] = n
           \/ ToldOff(n) \/ dbMissed
           \/ row[n] # "live" \/ rowToken[n] # disk[n]
           \/ shown[link[n]] # disk[n] /\ fresh[n] = Nothing
<1> DEFINE Explained == \/ client'[n] = "off" \/ \E g \in leaving \ leaving' : Of[g] = n
                        \/ ToldOff(n) \/ dbMissed
                        \/ row[n] # "live" \/ rowToken[n] # disk[n]
                        \/ shown[link[n]] # disk[n] /\ fresh[n] = Nothing
<1> SUFFICES Explained
  OBVIOUS
<1> USE DevicesAssumption DEF DevicesTypeOK, OrNothing, connector
<1>1. ASSUME NEW c \in Sockets, Attach(c) PROVE Explained
  BY <1>1, AttachMoves
<1>2. ASSUME NEW c \in Sockets, List(c) PROVE Explained
  BY <1>2 DEF List
<1>3. ASSUME NEW c \in Sockets, SayOk(c) PROVE Explained
  BY <1>3, SayOkMoves
<1>4. ASSUME NEW c \in Sockets, ListFrames(c) PROVE Explained
  BY <1>4 DEF ListFrames
<1>5. ASSUME NEW c \in Sockets, ReadNotice(c) PROVE Explained
  BY <1>5 DEF ReadNotice
<1>6. ASSUME NEW c \in Sockets, ClearRoutes(c) PROVE Explained
  BY <1>6 DEF ClearRoutes
<1>7. ASSUME NEW c \in Sockets, Unlist(c) PROVE Explained
  BY <1>7 DEF Unlist
<1>8. ASSUME NEW c \in Sockets, HangUp(c) PROVE Explained
  BY <1>8 DEF HangUp
<1>9. CASE BindElsewhere
  BY <1>9 DEF BindElsewhere
<1>10. ASSUME NEW r \in Runs, BeginRun(r) PROVE Explained
  BY <1>10 DEF BeginRun
<1>11. ASSUME NEW r \in Runs, RouteRun(r) PROVE Explained
  BY <1>11 DEF RouteRun
<1>12. ASSUME NEW r \in Runs, SendRun(r) PROVE Explained
  BY <1>12 DEF SendRun
<1>13. ASSUME NEW r \in Runs, AttachRun(r) PROVE Explained
  BY <1>13 DEF AttachRun
<1>14. ASSUME NEW r \in Runs, PumpEnds(r) PROVE Explained
  BY <1>14 DEF PumpEnds
<1>15. ASSUME NEW r \in Runs, Reap(r) PROVE Explained
  BY <1>15 DEF Reap
<1>16. ASSUME NEW r \in Runs, Tell(r) PROVE Explained
  BY <1>16 DEF Tell
<1>17. ASSUME NEW r \in Runs, RuntimeEnds(r) PROVE Explained
  BY <1>17 DEF RuntimeEnds
<1>18. ASSUME NEW m \in Machines, UnrouteRun(m) PROVE Explained
  BY <1>18 DEF UnrouteRun
<1>19. ASSUME NEW m \in Machines, CutOff(m) PROVE Explained
  BY <1>19 DEF CutOff
<1>20. ASSUME NEW m \in Machines, StopRun(m) PROVE Explained
  BY <1>20 DEF StopRun
<1>21. ASSUME NEW m \in Machines, RevokeRow(m) PROVE Explained
  BY <1>21 DEF RevokeRow
<1>22. ASSUME NEW m \in Machines, Choose(m) PROVE Explained
  BY <1>22, ChooseMoves
<1>23. ASSUME NEW m \in Machines, ReadMessage(m) PROVE Explained
  <2> DEFINE c == link[m]
             msg == Head(down[c])
  <2>1. c \in Sockets /\ down[c] \in Seq(Messages) /\ down[c] # <<>> /\ client[m] = "reading" /\ Of[c] = m
    <3>1. c \in Sockets /\ client[m] = "reading" /\ Of[c] = m
      BY <1>23, ReadMoves DEF Attached
    <3> QED BY <1>23, <3>1, ReadMoves
  <2>2. msg = down[c][1] /\ 1 \in 1..Len(down[c]) /\ msg \in Messages
    BY <2>1, TailOk
  <2>3. msg.is = "ok" /\ msg.token # Nothing => msg.token = c
    <3>1. GivenIn(down[c], c)
      BY <2>1 DEF Given
    <3> QED BY <2>2, <3>1 DEF GivenIn
  <2> HIDE DEF msg
  <2>4. CASE msg.is = "ok" /\ TakeOk(m, msg.token)
    <3>1. n = m => disk'[m] = disk[m] \/ disk'[m] # Nothing
      BY <2>4 DEF TakeOk
    <3>2. n # m => disk'[n] = disk[n]
      BY <2>4 DEF TakeOk
    <3> QED BY <3>1, <3>2
  <2>5. CASE msg.is = "error" /\ TakeError(m)
    <3>1. n = m /\ fresh[m] = Nothing
      BY <2>5 DEF TakeError
    <3>2. CASE at[c] = "over"
      BY <2>1, <3>1, <3>2 DEF Refused, Lost
    <3>3. CASE at[c] # "over"
      BY <2>1, <2>5, <3>1, <3>3 DEF ToldOff, msg
    <3> QED BY <3>2, <3>3
  <2>6. CASE UNCHANGED connector
    BY <2>6
  <2> QED BY <1>23, <2>4, <2>5, <2>6, Zenon DEF ReadMessage, TakeStart, TakeStop, msg
<1>24. ASSUME NEW m \in Machines, SeeClose(m) PROVE Explained
  BY <1>24 DEF SeeClose
<1>25. ASSUME NEW m \in Machines, Retire(m) PROVE Explained
  BY <1>25 DEF Retire
<1>26. ASSUME NEW m \in Machines, SeeBreak(m) PROVE Explained
  BY <1>26 DEF SeeBreak
<1>27. ASSUME NEW m \in Machines, SwitchOff(m) PROVE Explained
  <2>1. client' = [client EXCEPT ![m] = "off"]
    BY <1>27 DEF SwitchOff
  <2>2. n # m => disk'[n] = disk[n]
    BY <1>27 DEF SwitchOff, Forgotten
  <2> QED BY <2>1, <2>2
<1>28. ASSUME NEW m \in Machines, SwitchOn(m) PROVE Explained
  BY <1>28 DEF SwitchOn
<1>30. ASSUME NEW r \in Runs, HostRun(r) PROVE Explained
  BY <1>30 DEF HostRun
<1>31. ASSUME NEW r \in Runs, FailRun(r) PROVE Explained
  BY <1>31 DEF FailRun
<1>32. ASSUME NEW g \in Sockets, FinishStop(g) PROVE Explained
  <2>1. g \in leaving \ leaving' /\ (n # Of[g] => disk'[n] = disk[n])
    BY <1>32 DEF FinishStop, Forgotten
  <2> QED BY <2>1
<1>29. CASE UNCHANGED devicesVars
  BY <1>29 DEF devicesVars, table, socket, lists, wires, sessions, connector,
      runtimesOf, counts
<1> QED
  BY <1>1, <1>2, <1>3, <1>4, <1>5, <1>6, <1>7, <1>8, <1>9, <1>10, <1>11,
     <1>12, <1>13, <1>14, <1>15, <1>16, <1>17, <1>18, <1>19, <1>20, <1>21,
     <1>22, <1>23, <1>24, <1>25, <1>26, <1>27, <1>28, <1>29, <1>30, <1>31,
     <1>32, Zenon
  DEF DevicesNext, Attach, SocketStep, RunStep, ReaderStep, DeskStep,
      ClientStep

LEMMA LiveFinite ==
    ASSUME DevicesTypeOK
    PROVE  /\ IsFiniteSet(LiveMachines) /\ Cardinality(LiveMachines) \in Nat
           /\ \A S : /\ IsFiniteSet(LiveMachines \ S) /\ Cardinality(LiveMachines \ S) \in Nat
                     /\ Cardinality(LiveMachines \ S) <= Cardinality(LiveMachines)
           /\ LiveRows = others + Cardinality(LiveMachines) /\ LiveRows \in Nat
<1>1. LiveMachines \subseteq Machines /\ others \in Nat
  BY DevicesAssumption DEF LiveMachines, DevicesTypeOK
<1>2. IsFiniteSet(LiveMachines)
  BY <1>1, DevicesAssumption, FS_Subset
<1>3. ASSUME NEW S
      PROVE  IsFiniteSet(LiveMachines \ S) /\ Cardinality(LiveMachines \ S) <= Cardinality(LiveMachines)
  <2>1. LiveMachines \ S \subseteq LiveMachines
    OBVIOUS
  <2> QED BY <1>2, <2>1, FS_Subset
<1>4. LiveRows = others + Cardinality(LiveMachines)
  BY DEF LiveRows, LiveMachines
<1>5. Cardinality(LiveMachines) \in Nat /\ \A S : Cardinality(LiveMachines \ S) \in Nat
  BY <1>2, <1>3, FS_CardinalityType
<1>6. LiveRows \in Nat
  BY <1>1, <1>4, <1>5
<1> QED BY <1>2, <1>3, <1>4, <1>5, <1>6

LEMMA LiveGrows ==
    ASSUME DevicesTypeOK, NEW n \in Machines, row' = [row EXCEPT ![n] = "live"]
    PROVE  LiveMachines' = LiveMachines \cup {n}
BY DEF LiveMachines, DevicesTypeOK

LEMMA BoundCounts ==
    ASSUME DevicesTypeOK, Rows, Counted, [DevicesNext]_devicesVars, NEW c \in Sockets, BecomesLive(c),
           at' = [at EXCEPT ![c] = "list"] \/ at' = [at EXCEPT ![c] = "over"],
           (at[c] = "bind" /\ row[Of[c]] # "none") \/ (at[c] = "insert" /\ row[Of[c]] = "none")
    PROVE  Counted'
<1> DEFINE n == Of[c]
<1>1. /\ n \in Machines /\ c # Nothing /\ row' = [row EXCEPT ![n] = "live"]
      /\ rowToken' = [rowToken EXCEPT ![n] = c] /\ others' = others
      /\ over' = IF LiveRows >= Cap /\ row[n] # "live" THEN over \cup {n} ELSE over
      /\ since' = [b \in Sockets |-> since[b] \/ (at[b] = "insert" /\ b # c)]
  BY DevicesAssumption DEF BecomesLive
<1>2. LiveMachines' = LiveMachines \cup {n}
  BY <1>1, LiveGrows
<1>3. (n \in LiveMachines) <=> row[n] = "live"
  BY <1>1 DEF LiveMachines
<1> HIDE DEF n
<1>4. over' \subseteq LiveMachines'
  BY <1>1, <1>2 DEF Counted
<1>5. ASSUME NEW b \in Sockets, at'[b] = "insert" PROVE since'[b]
  <2>1. b # c /\ at[b] = "insert"
    BY <1>5 DEF DevicesTypeOK
  <2> QED BY <1>1, <2>1
<1>6. \A b \in Sockets : (since[b] => since'[b]) /\ (at[b] \in Past => at'[b] \in Past)
  BY <1>1, SocketsMoveOn DEF DevicesTypeOK
<1>7. ASSUME NEW m \in over' PROVE Excused(m)'
  <2>1. m \in Machines
    BY <1>1 DEF DevicesTypeOK
  <2>2. CASE m # n
    <3>1. rowToken'[m] = rowToken[m] /\ Excused(m)
      BY <1>1, <2>1, <2>2 DEF DevicesTypeOK, Counted
    <3>2. rowToken[m] # Nothing => rowToken[m] \in Sockets
      BY <2>1 DEF DevicesTypeOK, OrNothing
    <3> QED BY <1>6, <3>1, <3>2 DEF Excused
  <2>3. CASE m = n
    <3>1. rowToken'[n] = c
      BY <1>1 DEF DevicesTypeOK
    <3>2. CASE at[c] = "bind" /\ row[n] # "none"
      <4>1. /\ rowToken[n] \in Sockets /\ Of[rowToken[n]] = n
            /\ rowToken[n] # c /\ at[rowToken[n]] \in Past
        <5>1. rowToken[n] # Nothing /\ Of[rowToken[n]] = n /\ at[rowToken[n]] \in Past
          BY <1>1, <3>2 DEF Rows
        <5>2. rowToken[n] \in Sockets
          BY <1>1, <5>1 DEF DevicesTypeOK, OrNothing
        <5>3. rowToken[n] # c
          BY <3>2, <5>1 DEF Past
        <5> QED BY <5>1, <5>2, <5>3 DEF Past
      <4> QED BY <1>6, <2>3, <3>1, <4>1 DEF Excused
    <3>3. CASE at[c] = "insert" /\ row[n] = "none"
      <4>1. n \notin over
        BY <1>3, <3>3 DEF Counted
      <4>2. LiveRows >= Cap
        BY <1>1, <2>3, <4>1
      <4>3. LiveRows \in Nat /\ Cap \in Nat
        BY LiveFinite, DevicesAssumption
      <4>4. since[c]
        BY <3>3, <4>2, <4>3 DEF Counted, InTime
      <4> QED BY <1>1, <1>6, <2>3, <3>1, <4>4 DEF Excused
    <3> QED BY <3>2, <3>3 DEF n
  <2> QED BY <2>2, <2>3
<1>8. others' + Cardinality(LiveMachines' \ over') <= Cap
  <2>0. others \in Nat /\ Cap \in Nat
    BY DevicesAssumption DEF DevicesTypeOK
  <2>1. CASE row[n] = "live"
    <3>1. LiveMachines' = LiveMachines /\ over' = over
      BY <1>1, <1>2, <1>3, <2>1
    <3> QED BY <1>1, <3>1 DEF Counted
  <2>2. CASE row[n] # "live" /\ LiveRows >= Cap
    <3>1. LiveMachines' \ over' = LiveMachines \ over
      BY <1>1, <1>2, <1>3, <2>2
    <3> QED BY <1>1, <3>1 DEF Counted
  <2>3. CASE row[n] # "live" /\ ~(LiveRows >= Cap)
    <3>1. over' = over
      BY <1>1, <2>3
    <3>2. Cardinality(LiveMachines') = Cardinality(LiveMachines) + 1 /\ IsFiniteSet(LiveMachines')
      BY <1>2, <1>3, <2>3, LiveFinite, FS_AddElement
    <3>3. LiveMachines' \ over \subseteq LiveMachines'
      OBVIOUS
    <3>4. /\ Cardinality(LiveMachines' \ over) <= Cardinality(LiveMachines) + 1
          /\ Cardinality(LiveMachines' \ over) \in Nat
      BY <3>2, <3>3, FS_Subset, FS_CardinalityType
    <3>5. LiveRows = others + Cardinality(LiveMachines) /\ Cardinality(LiveMachines) \in Nat
      BY LiveFinite
    <3> QED BY <1>1, <2>0, <2>3, <3>1, <3>4, <3>5
  <2> QED BY <2>1, <2>2, <2>3
<1> QED BY <1>4, <1>5, <1>7, <1>8 DEF Counted, InTime

LEMMA BoundElsewhere ==
    ASSUME DevicesTypeOK, Counted, BindElsewhere
    PROVE  Counted'
<1>1. /\ LiveRows < Cap /\ others' = others + 1
      /\ since' = [b \in Sockets |-> since[b] \/ at[b] = "insert"]
      /\ UNCHANGED <<row, rowToken, over, at>>
  BY DEF BindElsewhere
<1>2. LiveMachines' = LiveMachines
  BY <1>1 DEF LiveMachines
<1>3. \A b \in Sockets : (since[b] => since'[b]) /\ (at'[b] = "insert" => since'[b])
  BY <1>1
<1>4. ASSUME NEW m \in over PROVE Excused(m)'
  <2>1. Excused(m) /\ (rowToken[m] # Nothing => rowToken[m] \in Sockets)
    BY DEF Counted, DevicesTypeOK, OrNothing
  <2> QED BY <1>1, <1>3, <2>1 DEF Excused
<1>5. others' + Cardinality(LiveMachines' \ over') <= Cap
  <2>1. /\ LiveRows = others + Cardinality(LiveMachines) /\ Cardinality(LiveMachines) \in Nat
        /\ Cardinality(LiveMachines \ over) \in Nat
        /\ Cardinality(LiveMachines \ over) <= Cardinality(LiveMachines)
    BY LiveFinite
  <2>2. others \in Nat /\ Cap \in Nat
    BY DevicesAssumption DEF DevicesTypeOK
  <2> QED BY <1>1, <1>2, <2>1, <2>2
<1> QED BY <1>1, <1>2, <1>3, <1>4, <1>5 DEF Counted, InTime

LEMMA RevokedCounts ==
    ASSUME DevicesTypeOK, Counted, NEW m \in Machines, RevokeRow(m)
    PROVE  Counted'
<1>1. /\ row' = [row EXCEPT ![m] = "revoked"] /\ over' = over \ {m}
      /\ UNCHANGED <<rowToken, others, at, since>>
  BY DEF RevokeRow
<1>2. LiveMachines' = LiveMachines \ {m}
  BY <1>1 DEF LiveMachines, DevicesTypeOK
<1>3. LiveMachines' \ over' \subseteq LiveMachines \ over
  BY <1>1, <1>2
<1>4. /\ Cardinality(LiveMachines') <= Cardinality(LiveMachines)
      /\ Cardinality(LiveMachines' \ over') <= Cardinality(LiveMachines \ over)
      /\ Cardinality(LiveMachines' \ over') \in Nat /\ Cardinality(LiveMachines') \in Nat
  BY <1>2, <1>3, LiveFinite, FS_Subset, FS_CardinalityType
<1>5. LiveRows' <= LiveRows /\ LiveRows' \in Nat /\ LiveRows \in Nat
  <2>1. LiveRows' = others' + Cardinality(LiveMachines')
    BY DEF LiveRows, LiveMachines
  <2>2. others \in Nat
    BY DEF DevicesTypeOK
  <2> QED BY <1>1, <1>4, <2>1, <2>2, LiveFinite
<1>6. InTime'
  BY <1>1, <1>5, DevicesAssumption DEF Counted, InTime
<1>7. others' + Cardinality(LiveMachines' \ over') <= Cap
  <2>1. others \in Nat /\ Cap \in Nat
    BY DevicesAssumption DEF DevicesTypeOK
  <2>2. Cardinality(LiveMachines \ over) \in Nat
    BY LiveFinite
  <2> QED BY <1>1, <1>4, <2>1, <2>2 DEF Counted
<1>8. \A n \in over' : Excused(n)'
  BY <1>1 DEF Counted, Excused
<1> QED BY <1>1, <1>2, <1>6, <1>7, <1>8 DEF Counted

LEMMA StillCounted ==
    ASSUME DevicesTypeOK, Counted, [DevicesNext]_devicesVars, UNCHANGED table,
           \A c \in Sockets : /\ since[c] => since'[c]
                              /\ at'[c] = "insert" => at[c] = "insert" \/ LiveRows < Cap \/ since'[c]
    PROVE  Counted'
<1>1. LiveMachines' = LiveMachines /\ LiveRows' = LiveRows
  BY DEF LiveMachines, LiveRows, table
<1>2. InTime'
  BY <1>1 DEF Counted, InTime
<1>3. ASSUME NEW m \in over PROVE Excused(m)'
  <2>1. Excused(m) /\ (rowToken[m] # Nothing => rowToken[m] \in Sockets)
    BY DEF Counted, DevicesTypeOK, OrNothing
  <2>2. \A c \in Sockets : (since[c] => since'[c]) /\ (at[c] \in Past => at'[c] \in Past)
    BY SocketsMoveOn
  <2>3. rowToken' = rowToken
    BY DEF table
  <2> QED BY <2>1, <2>2, <2>3 DEF Excused
<1> QED BY <1>1, <1>2, <1>3 DEF Counted, table

LEMMA CountedStep ==
    ASSUME DevicesTypeOK, Rows, Counted, [DevicesNext]_devicesVars
    PROVE  Counted'
<1>0. ASSUME UNCHANGED <<table, at, since>> PROVE Counted'
  BY <1>0, StillCounted
<1>1. ASSUME NEW c \in Sockets, Hello(c) PROVE Counted'
  <2>1. \E l : l # "unused" /\ l # "insert" /\ at' = [at EXCEPT ![c] = l]
    BY <1>1 DEF Hello, Refuse, SocketAt
  <2>2. UNCHANGED <<table, since>>
    BY <1>1 DEF Hello, Refuse
  <2> QED BY <2>1, <2>2, StillCounted DEF DevicesTypeOK
<1>2. ASSUME NEW c \in Sockets, SignIn(c) PROVE Counted'
  <2>1. \E l : l # "unused" /\ l # "insert" /\ at' = [at EXCEPT ![c] = l]
    BY <1>2 DEF SignIn, Refuse, SocketAt
  <2>2. UNCHANGED <<table, since>>
    BY <1>2 DEF SignIn, Refuse
  <2> QED BY <2>1, <2>2, StillCounted DEF DevicesTypeOK
<1>3. ASSUME NEW c \in Sockets, FindRow(c) PROVE Counted'
  <2>1. CASE BecomesLive(c) /\ SocketAt(c, "list") /\ row[Of[c]] # "none"
    <3>1. at[c] = "bind"
      BY <1>3 DEF FindRow
    <3>2. at' = [at EXCEPT ![c] = "list"]
      BY <2>1 DEF SocketAt
    <3> QED BY <2>1, <3>1, <3>2, BoundCounts
  <2>2. CASE UNCHANGED <<table, since>> /\ (SocketAt(c, "count") \/ SocketAt(c, "over"))
    BY <2>2, StillCounted DEF DevicesTypeOK, SocketAt
  <2> QED BY <1>3, <2>1, <2>2 DEF FindRow, Refuse
<1>4. ASSUME NEW c \in Sockets, CountRows(c) PROVE Counted'
  <2>1. CASE UNCHANGED <<table, since>> /\ SocketAt(c, "over")
    BY <2>1, StillCounted DEF DevicesTypeOK, SocketAt
  <2>2. CASE UNCHANGED <<table, since>> /\ SocketAt(c, "insert") /\ LiveRows < Cap
    BY <2>2, StillCounted DEF DevicesTypeOK, SocketAt
  <2>3. CASE UNCHANGED table /\ SocketAt(c, "insert") /\ since' = [since EXCEPT ![c] = TRUE]
    <3>1. \A b \in Sockets : since[b] => since'[b]
      BY <2>3 DEF DevicesTypeOK
    <3>2. since'[c]
      BY <2>3 DEF DevicesTypeOK
    <3> QED BY <2>3, <3>1, <3>2, StillCounted DEF DevicesTypeOK, SocketAt
  <2> QED BY <1>4, <2>1, <2>2, <2>3 DEF CountRows, Refuse
<1>5. ASSUME NEW c \in Sockets, InsertRow(c) PROVE Counted'
  <2>1. CASE BecomesLive(c) /\ (SocketAt(c, "list") \/ SocketAt(c, "over")) /\ row[Of[c]] = "none"
    BY <1>5, <2>1, BoundCounts DEF InsertRow, SocketAt
  <2>2. CASE UNCHANGED <<table, since>> /\ SocketAt(c, "over")
    BY <2>2, StillCounted DEF DevicesTypeOK, SocketAt
  <2> QED BY <1>5, <2>1, <2>2 DEF InsertRow, Refuse
<1>6. ASSUME NEW c \in Sockets, List(c) PROVE Counted'
  <2>1. \E l : l # "unused" /\ l # "insert" /\ at' = [at EXCEPT ![c] = l]
    BY <1>6 DEF List, Refuse, SocketAt
  <2>2. UNCHANGED <<table, since>>
    BY <1>6 DEF List, Refuse
  <2> QED BY <2>1, <2>2, StillCounted DEF DevicesTypeOK
<1>7. ASSUME NEW c \in Sockets, SayOk(c) PROVE Counted'
  <2>1. \E l : l # "unused" /\ l # "insert" /\ at' = [at EXCEPT ![c] = l]
    BY <1>7, SayOkMoves
  <2>2. UNCHANGED <<table, since>>
    BY <1>7 DEF SayOk
  <2> QED BY <2>1, <2>2, StillCounted DEF DevicesTypeOK
<1>8. ASSUME NEW c \in Sockets, ListFrames(c) PROVE Counted'
  <2>1. \E l : l # "unused" /\ l # "insert" /\ at' = [at EXCEPT ![c] = l]
    BY <1>8 DEF ListFrames, Refuse, SocketAt
  <2>2. UNCHANGED <<table, since>>
    BY <1>8 DEF ListFrames, Refuse
  <2> QED BY <2>1, <2>2, StillCounted DEF DevicesTypeOK
<1>9. ASSUME NEW c \in Sockets, ReadNotice(c) PROVE Counted'
  BY <1>9, <1>0 DEF ReadNotice, socket
<1>10. ASSUME NEW c \in Sockets, ClearRoutes(c) PROVE Counted'
  <2>1. \E l : l # "unused" /\ l # "insert" /\ at' = [at EXCEPT ![c] = l]
    BY <1>10 DEF ClearRoutes, Refuse, SocketAt
  <2>2. UNCHANGED <<table, since>>
    BY <1>10 DEF ClearRoutes, Refuse
  <2> QED BY <2>1, <2>2, StillCounted DEF DevicesTypeOK
<1>11. ASSUME NEW c \in Sockets, Unlist(c) PROVE Counted'
  <2>1. \E l : l # "unused" /\ l # "insert" /\ at' = [at EXCEPT ![c] = l]
    BY <1>11 DEF Unlist, Refuse, SocketAt
  <2>2. UNCHANGED <<table, since>>
    BY <1>11 DEF Unlist, Refuse
  <2> QED BY <2>1, <2>2, StillCounted DEF DevicesTypeOK
<1>12. ASSUME NEW c \in Sockets, HangUp(c) PROVE Counted'
  <2>1. \E l : l # "unused" /\ l # "insert" /\ at' = [at EXCEPT ![c] = l]
    BY <1>12 DEF HangUp, Refuse, SocketAt
  <2>2. UNCHANGED <<table, since>>
    BY <1>12 DEF HangUp, Refuse
  <2> QED BY <2>1, <2>2, StillCounted DEF DevicesTypeOK
<1>13. CASE BindElsewhere
  BY <1>13, BoundElsewhere
<1>14. ASSUME NEW r \in Runs, BeginRun(r) PROVE Counted'
  BY <1>14, <1>0 DEF BeginRun, socket
<1>15. ASSUME NEW r \in Runs, RouteRun(r) PROVE Counted'
  BY <1>15, <1>0 DEF RouteRun, socket
<1>16. ASSUME NEW r \in Runs, SendRun(r) PROVE Counted'
  BY <1>16, <1>0 DEF SendRun, socket
<1>17. ASSUME NEW r \in Runs, AttachRun(r) PROVE Counted'
  BY <1>17, <1>0 DEF AttachRun, socket
<1>18. ASSUME NEW r \in Runs, PumpEnds(r) PROVE Counted'
  BY <1>18, <1>0 DEF PumpEnds, socket
<1>19. ASSUME NEW r \in Runs, Reap(r) PROVE Counted'
  BY <1>19, <1>0 DEF Reap, socket
<1>20. ASSUME NEW r \in Runs, Tell(r) PROVE Counted'
  BY <1>20, <1>0 DEF Tell, socket
<1>21. ASSUME NEW r \in Runs, RuntimeEnds(r) PROVE Counted'
  BY <1>21, <1>0 DEF RuntimeEnds, socket
<1>22. ASSUME NEW m \in Machines, UnrouteRun(m) PROVE Counted'
  BY <1>22, <1>0 DEF UnrouteRun, socket
<1>23. ASSUME NEW m \in Machines, CutOff(m) PROVE Counted'
  BY <1>23, <1>0 DEF CutOff, socket
<1>24. ASSUME NEW m \in Machines, StopRun(m) PROVE Counted'
  BY <1>24, <1>0 DEF StopRun, socket
<1>25. ASSUME NEW m \in Machines, RevokeRow(m) PROVE Counted'
  BY <1>25, RevokedCounts
<1>26. ASSUME NEW m \in Machines, Choose(m) PROVE Counted'
  <2>1. CASE \E c \in Sockets : at' = [at EXCEPT ![c] = "first"]
    BY <1>26, <2>1, ChooseMoves, StillCounted DEF DevicesTypeOK
  <2>2. CASE UNCHANGED at
    BY <1>26, <2>2, ChooseMoves, StillCounted
  <2> QED BY <1>26, <2>1, <2>2, ChooseMoves
<1>27. ASSUME NEW m \in Machines, ReadMessage(m) PROVE Counted'
  BY <1>27, <1>0, ReadMoves DEF socket
<1>28. ASSUME NEW m \in Machines, SeeClose(m) PROVE Counted'
  BY <1>28, <1>0 DEF SeeClose, socket
<1>29. ASSUME NEW m \in Machines, Retire(m) PROVE Counted'
  BY <1>29, <1>0 DEF Retire, socket
<1>30. ASSUME NEW m \in Machines, SeeBreak(m) PROVE Counted'
  BY <1>30, <1>0 DEF SeeBreak, socket
<1>31. ASSUME NEW m \in Machines, SwitchOff(m) PROVE Counted'
  BY <1>31, <1>0 DEF SwitchOff, socket
<1>32. ASSUME NEW m \in Machines, SwitchOn(m) PROVE Counted'
  BY <1>32, <1>0 DEF SwitchOn, socket
<1>34. ASSUME NEW r \in Runs, HostRun(r) PROVE Counted'
  BY <1>34, <1>0 DEF HostRun, socket
<1>35. ASSUME NEW r \in Runs, FailRun(r) PROVE Counted'
  BY <1>35, <1>0 DEF FailRun, socket
<1>36. ASSUME NEW g \in Sockets, FinishStop(g) PROVE Counted'
  BY <1>36, <1>0 DEF FinishStop, socket
<1>33. CASE UNCHANGED devicesVars
  BY <1>33, <1>0 DEF devicesVars, table, socket, lists, wires, sessions, connector,
      runtimesOf, counts
<1> QED
  BY <1>1, <1>2, <1>3, <1>4, <1>5, <1>6, <1>7, <1>8, <1>9, <1>10, <1>11,
     <1>12, <1>13, <1>14, <1>15, <1>16, <1>17, <1>18, <1>19, <1>20, <1>21,
     <1>22, <1>23, <1>24, <1>25, <1>26, <1>27, <1>28, <1>29, <1>30, <1>31,
     <1>32, <1>33, <1>34, <1>35,
     <1>36, Zenon
  DEF DevicesNext, SocketStep, RunStep, ReaderStep, DeskStep, ClientStep

LEMMA CountsExplain == DevicesTypeOK /\ Counted => CapExplained
<1> SUFFICES ASSUME DevicesTypeOK, Counted, LiveRows > Cap, \A m \in over : ~Excused(m)
             PROVE  FALSE
  <2>1. \A c \in Sockets : at[c] \in Past => at[c] \notin {"unused", "first", "bind", "count", "insert"}
    BY DEF Past
  <2> QED BY <2>1, DevicesAssumption DEF CapExplained, Excused, Counted, DevicesTypeOK
<1>1. over = {}
  BY DEF Counted
<1>2. LiveMachines \ over = LiveMachines
  BY <1>1
<1>3. LiveRows = others + Cardinality(LiveMachines) /\ LiveRows \in Nat
  BY LiveFinite
<1>4. LiveRows <= Cap
  BY <1>2, <1>3 DEF Counted
<1> QED BY <1>3, <1>4, DevicesAssumption

DevInv ==
    /\ DevicesTypeOK /\ Attached /\ NothingDangles /\ RaceSeen /\ RevokedIsOut
    /\ Rows /\ Given /\ Refused /\ Own /\ Asked /\ Managed /\ Unnamed /\ Begun
    /\ Hosts /\ Serving /\ Routed /\ Pumping /\ Counted

LEMMA DevicesInitInv == DevicesInit => DevInv
<1> SUFFICES ASSUME DevicesInit PROVE DevInv
  OBVIOUS
<1>1. DevicesTypeOK
  BY DevicesInitType
<1>2. Attached /\ NothingDangles /\ RaceSeen /\ RevokedIsOut
  BY DEF DevicesInit, Attached, NothingDangles, RaceSeen, RevokedIsOut
<1>3. Rows /\ Refused /\ Managed /\ Begun /\ Hosts
  <2>1. Rows /\ Refused
    BY DEF DevicesInit, Rows, Refused
  <2>2. Managed /\ Begun
    BY DEF DevicesInit, Managed, Begun
  <2>3. Hosts
    BY DEF DevicesInit, Hosts, Hosted
  <2> QED BY <2>1, <2>2, <2>3
<1>3a. Unnamed
  BY DevicesAssumption DEF DevicesInit, Unnamed
<1>4. Given /\ Own /\ Asked
  <2>1. \A c \in Sockets : Len(down[c]) = 0
    BY DEF DevicesInit
  <2>2. \A c \in Sockets : 1..Len(down[c]) = {}
    BY <2>1
  <2> QED BY <2>2 DEF DevicesInit, Given, GivenIn, Own, OwnIn, Asked, OnceIn, WaitsAt
<1>5. Counted
  <2>1. LiveMachines = {} /\ over = {} /\ others \in 0..Others
    BY DEF DevicesInit, LiveMachines
  <2>2. Cardinality(LiveMachines \ over) = 0
    BY <2>1, FS_EmptySet
  <2>3. others + 0 <= Cap
    BY <2>1, DevicesAssumption
  <2>4. InTime
    BY DEF DevicesInit, InTime
  <2> QED BY <2>1, <2>2, <2>3, <2>4 DEF Counted
<1>6. Serving /\ Routed /\ Pumping
  BY DEF DevicesInit, Serving, ServingAt, Hosted, Routed, RoutedAt, Pumping
<1> QED BY <1>1, <1>2, <1>3, <1>3a, <1>4, <1>5, <1>6 DEF DevInv

LEMMA DevicesInvariant == DevicesSpec => []DevInv
<1>1. DevInv /\ [DevicesNext]_devicesVars => DevInv'
  BY DevicesTypeStep, AttachedStep, DanglingStep, RaceSeenStep, RevokedStep, RowsStep,
     GivenStep, RefusedStep, OwnStep, AskedStep, ManagedStep, UnnamedStep, BegunStep,
     HostsStep, ServingStep, RoutedStep, PumpingStep, CountedStep, Zenon DEF DevInv
<1> QED BY DevicesInitInv, <1>1, PTL DEF DevicesSpec

(* Every variable of the sockets and connectors keeps its type.            *)
THEOREM DevicesTypeCorrect == DevicesSpec => []DevicesTypeOK
<1>1. DevInv => DevicesTypeOK
  BY DEF DevInv
<1> QED BY <1>1, DevicesInvariant, PTL

(* For any number of machines, sockets and runtimes, and any faults: what  *)
(* is listed is served, although every removal is by machine; and a        *)
(* revoked machine is unreachable once revoke_device is through, unless    *)
(* it was let in before.                                                   *)
THEOREM RegistriesSound == DevicesSpec => []RegistrySound
<1>1. DevInv => RegistrySound
  BY DEF DevInv, RegistrySound
<1> QED BY <1>1, DevicesInvariant, PTL

(* For any cap and number of machines, here and elsewhere: a row beyond    *)
(* the cap was inserted after a count that was stale or failed, or is a    *)
(* machine that came back.                                                 *)
THEOREM CapsExplained == DevicesSpec => []CapExplained
<1>1. DevInv => CapExplained
  BY CountsExplain DEF DevInv
<1> QED BY <1>1, DevicesInvariant, PTL

(* Whatever breaks: a stored credential is forgotten by signing out, by a  *)
(* revocation, because it is not good any more, because the database did   *)
(* not answer, or because another one was shown and refused.               *)
THEOREM CredentialsKept == DevicesSpec => ForgetsOnlyRefused
<1>1. DevInv /\ [DevicesNext]_devicesVars =>
         [\A m \in Machines : (disk[m] # Nothing /\ disk'[m] = Nothing) =>
             \/ client'[m] = "off" \/ \E g \in leaving \ leaving' : Of[g] = m
             \/ ToldOff(m) \/ dbMissed
             \/ row[m] # "live" \/ rowToken[m] # disk[m]
             \/ shown[link[m]] # disk[m] /\ fresh[m] = Nothing]_devicesVars
  BY Forgetting, Zenon DEF DevInv
<1> QED BY <1>1, DevicesInvariant, PTL DEF DevicesSpec, ForgetsOnlyRefused

(* Whatever breaks, and whatever overtakes a stop: a machine without a     *)
(* connection hosts nothing, and what still runs there is about to be      *)
(* stopped or was inserted when stop_all had passed; and once              *)
(* the server and the connectors have nothing left to do, a session that   *)
(* is held is one its machine hosts a runtime for, unless its start went   *)
(* through another socket than its route, or the server has not heard yet  *)
(* that the machine is gone.                                               *)
THEOREM SessionsMatch == DevicesSpec => []SessionsMatchMachines
<1>1. DevInv => OfflineRunsNothing
  <2> SUFFICES ASSUME DevInv, NEW m \in Machines, client[m] \in {"choose", "typed", "asks", "off"},
                      Hosted(m) = Nothing, NEW r \in alive, RunOf[r] = m, Current(r)
               PROVE  FALSE
    BY DEF OfflineRunsNothing, DevInv, Hosts
  <2>1. r \in Runs /\ born[r] # Nothing /\ hosted[born[r]] = r /\ manager[m] = born[r]
    BY DEF DevInv, Hosts, DevicesTypeOK, Current
  <2> QED BY <2>1, DevicesAssumption DEF Hosted
<1>2. DevInv => NoGhost
  BY NobodyHaunts, Zenon DEF DevInv
<1>3. DevInv => SessionsMatchMachines
  BY <1>1, <1>2 DEF SessionsMatchMachines
<1> QED BY <1>3, DevicesInvariant, PTL
=============================================================================
