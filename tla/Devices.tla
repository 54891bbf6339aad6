------------------------------- MODULE Devices -------------------------------
(***************************************************************************)
(* Computers as execution targets: the device sockets of the server        *)
(* (src/agent_device.rs, and what agent_api.rs asks of them) with the      *)
(* connector and the runtime manager of the desktop client                 *)
(* (desktop/src/connector.rs, runtime.rs).  All machines belong to one     *)
(* account and each has one session.  A step is one query, one message or  *)
(* one change of a shared table.                                           *)
(***************************************************************************)
EXTENDS Naturals, Sequences, FiniteSets

CONSTANTS
    Machines,   \* computers of the account, by fingerprint
    Sockets,    \* connections, dialled in order; a token is named after the socket that minted it
    Of,         \* the machine that dials a socket
    Runs,       \* runtimes asked for, in order
    RunOf,      \* the machine a runtime is asked of
    Nothing,       \* neither a socket nor a runtime
    Cap,        \* MAX_DEVICES_PER_USER
    Others,     \* how many devices of the account bind elsewhere, at most
    DeviceFaults, \* "cut", "db", "disk", "wrong"
    Events      \* how many faults happen and stops, revocations and sign-outs are asked for

ASSUME DevicesAssumption ==
    /\ Sockets \subseteq Nat /\ Runs \subseteq Nat /\ Nothing \notin Sockets \cup Runs
    /\ Of \in [Sockets -> Machines] /\ RunOf \in [Runs -> Machines]
    /\ IsFiniteSet(Machines) /\ Cap \in Nat /\ Others \in 0..Cap /\ Events \in Nat

VARIABLES
    row, rowToken, others, \* agent_devices: the state of a machine's row, whose token it holds; live rows of machines elsewhere
    at, shown, since,     \* where a socket's task stands, the token it was shown, whether a row became live since it counted
    registry, frames,     \* DeviceRegistry and agent_device_frames: a machine's socket
    route,                \* the runtime whose sender a socket's map holds
    down, upward,         \* messages under way to the machine, notices of ended runtimes under way back
    starter, hold,        \* where a start stands, the socket it holds
    served, pumps,        \* SessionRegistry: the runtime of a machine's session; pumps that run
    unrouting, revoking,  \* stop_session and revoke_device between their steps
    client, link,         \* where a machine's connector stands, its socket
    mem, disk, fresh,     \* the credential it holds, the one it has stored, the one it was just given
    manager, leaving,     \* the RuntimeManager of a machine's connection; those that stop() has yet to empty
    hosted, alive,        \* what a manager holds for the session; processes
    reader, from, born,   \* where a runtime's start and its stdout task stand, the socket it reports to, its manager
    raced, over, strayed, \* ghosts: let in before a revocation, live beyond the cap, started through one socket and routed by another
    orphans,                 \* ghost: inserted into a manager that was emptied before
    events, dbMissed      \* faults and orders so far; whether one was a failing query

table == <<row, rowToken, others, over>>
socket == <<at, shown, since, raced>>
lists == <<registry, frames, route>>
wires == <<down, upward>>
sessions == <<starter, hold, served, pumps, unrouting, strayed>>
connector == <<client, link, mem, disk, fresh, manager, leaving>>
runtimesOf == <<hosted, alive, reader, from, born, orphans>>
counts == <<events, dbMissed>>
devicesVars == <<table, socket, lists, wires, sessions, revoking, connector, runtimesOf, counts>>

OrNothing(S) == S \cup {Nothing}
ServerSide == {"unused", "first", "bind", "count", "insert", "list", "ok", "frames", "open", "clear", "unlist", "over"}
ClientSide == {"choose", "typed", "reading", "retire", "asks", "off"}
Messages == [is : {"ok"}, token : OrNothing(Sockets)] \cup [is : {"start"}, run : Runs]
            \cup [is : {"error", "stop"}]

DevicesTypeOK ==
    /\ row \in [Machines -> {"none", "live", "revoked"}] /\ rowToken \in [Machines -> OrNothing(Sockets)]
    /\ others \in 0..Others
    /\ at \in [Sockets -> ServerSide] /\ shown \in [Sockets -> OrNothing(Sockets)]
    /\ since \in [Sockets -> BOOLEAN] /\ raced \subseteq Sockets /\ over \subseteq Machines
    /\ registry \in [Machines -> OrNothing(Sockets)] /\ frames \in [Machines -> OrNothing(Sockets)]
    /\ route \in [Sockets -> OrNothing(Runs)]
    /\ down \in [Sockets -> Seq(Messages)] /\ upward \in [Sockets -> Seq(Runs)]
    /\ starter \in [Runs -> {"idle", "held", "routed", "sent", "done"}]
    /\ hold \in [Runs -> OrNothing(Sockets)] /\ served \in [Machines -> OrNothing(Runs)]
    /\ pumps \subseteq Runs /\ strayed \subseteq Runs
    /\ unrouting \in [Machines -> BOOLEAN] /\ revoking \in [Machines -> BOOLEAN]
    /\ client \in [Machines -> ClientSide] /\ link \in [Machines -> OrNothing(Sockets)]
    /\ mem \in [Machines -> OrNothing(Sockets)] /\ disk \in [Machines -> OrNothing(Sockets)]
    /\ fresh \in [Machines -> OrNothing(Sockets)] /\ manager \in [Machines -> OrNothing(Sockets)]
    /\ leaving \subseteq Sockets /\ hosted \in [Sockets -> OrNothing(Runs)]
    /\ alive \subseteq Runs /\ orphans \subseteq Runs
    /\ reader \in [Runs -> {"none", "begin", "read", "tell", "over"}]
    /\ from \in [Runs -> OrNothing(Sockets)] /\ born \in [Runs -> OrNothing(Sockets)]
    /\ events \in 0..Events /\ dbMissed \in BOOLEAN

DevicesInit ==
    /\ row = [m \in Machines |-> "none"] /\ rowToken = [m \in Machines |-> Nothing]
    /\ others \in 0..Others
    /\ at = [c \in Sockets |-> "unused"] /\ shown = [c \in Sockets |-> Nothing]
    /\ since = [c \in Sockets |-> FALSE] /\ raced = {} /\ over = {}
    /\ registry = [m \in Machines |-> Nothing] /\ frames = [m \in Machines |-> Nothing]
    /\ route = [c \in Sockets |-> Nothing]
    /\ down = [c \in Sockets |-> <<>>] /\ upward = [c \in Sockets |-> <<>>]
    /\ starter = [r \in Runs |-> "idle"] /\ hold = [r \in Runs |-> Nothing]
    /\ served = [m \in Machines |-> Nothing] /\ pumps = {} /\ strayed = {}
    /\ unrouting = [m \in Machines |-> FALSE] /\ revoking = [m \in Machines |-> FALSE]
    /\ client = [m \in Machines |-> "choose"] /\ link = [m \in Machines |-> Nothing]
    /\ mem = [m \in Machines |-> Nothing] /\ disk = [m \in Machines |-> Nothing]
    /\ fresh = [m \in Machines |-> Nothing] /\ manager = [m \in Machines |-> Nothing]
    /\ leaving = {} /\ hosted = [c \in Sockets |-> Nothing]
    /\ alive = {} /\ orphans = {} /\ reader = [r \in Runs |-> "none"]
    /\ from = [r \in Runs |-> Nothing] /\ born = [r \in Runs |-> Nothing]
    /\ events = 0 /\ dbMissed = FALSE

Well == UNCHANGED counts
Happens == events < Events /\ events' = events + 1
Miss(f) == f \in DeviceFaults /\ Happens /\ dbMissed' = (dbMissed \/ f = "db")
Order == Happens /\ UNCHANGED dbMissed
SocketAt(c, label) == at' = [at EXCEPT ![c] = label]
Linked(c) == link[Of[c]] = c

(* A RuntimeManager lives from Connector::start to Connector::stop; it is  *)
(* named after the first socket dialled for it.                            *)
Hosted(m) == IF manager[m] = Nothing THEN Nothing ELSE hosted[manager[m]]
Current(r) == manager[RunOf[r]] = born[r]
Preparing(m) == \E r \in Runs : RunOf[r] = m /\ reader[r] = "begin" /\ Current(r)

(* DeviceHandle::send: what is put into the channel of a socket whose      *)
(* machine is gone is never read.                                          *)
Posted(c, msg) == [down EXCEPT ![c] = IF Linked(c) /\ at[c] # "over" THEN Append(@, msg) ELSE @]

-----------------------------------------------------------------------------
(* A socket's task: handle_socket, attach and bind_device                  *)

Refuse(c) ==
    /\ SocketAt(c, "over") /\ down' = Posted(c, [is |-> "error"])
    /\ UNCHANGED <<table, shown, since, raced, upward>>

(* device_for_token: an error of the database is no row either.            *)
Hello(c) ==
    /\ at[c] = "first" /\ shown[c] # Nothing
    /\ \/ /\ row[Of[c]] = "live" /\ rowToken[Of[c]] = shown[c] /\ Well
          /\ SocketAt(c, "list") /\ UNCHANGED <<table, shown, since, raced, wires>>
       \/ ~(row[Of[c]] = "live" /\ rowToken[Of[c]] = shown[c]) /\ Well /\ Refuse(c)
       \/ Miss("db") /\ Refuse(c)
    /\ UNCHANGED <<lists, sessions, revoking, connector, runtimesOf>>

(* Login and Attach: the limiter, and the password or the session.         *)
SignIn(c) ==
    /\ at[c] = "first" /\ shown[c] = Nothing
    /\ \/ Well /\ SocketAt(c, "bind") /\ UNCHANGED <<table, shown, since, raced, wires>>
       \/ Miss("wrong") /\ Refuse(c)
    /\ UNCHANGED <<lists, sessions, revoking, connector, runtimesOf>>

LiveRows == others + Cardinality({m \in Machines : row[m] = "live"})
BecomesLive(c) ==
    /\ row' = [row EXCEPT ![Of[c]] = "live"] /\ rowToken' = [rowToken EXCEPT ![Of[c]] = c]
    /\ over' = IF LiveRows >= Cap /\ row[Of[c]] # "live" THEN over \cup {Of[c]} ELSE over
    /\ since' = [b \in Sockets |-> since[b] \/ (at[b] = "insert" /\ b # c)]
    /\ UNCHANGED others

(* A machine elsewhere binds while one here does; those that did before    *)
(* are counted in DevicesInit.                                             *)
BindElsewhere ==
    /\ others < Others /\ LiveRows < Cap /\ Well
    /\ \E c \in Sockets : at[c] \in {"count", "insert"}
    /\ others' = others + 1
    /\ since' = [b \in Sockets |-> since[b] \/ at[b] = "insert"]
    /\ UNCHANGED <<row, rowToken, over, at, shown, raced, lists, wires, sessions, revoking, connector, runtimesOf>>

(* bind_device: a machine that is known is bound again, revoked or not and *)
(* whatever the cap; when the search fails it counts as unknown.           *)
FindRow(c) ==
    /\ at[c] = "bind"
    /\ \/ /\ row[Of[c]] # "none" /\ Well /\ BecomesLive(c) /\ SocketAt(c, "list")
          /\ UNCHANGED <<shown, raced, wires>>
       \/ row[Of[c]] # "none" /\ Miss("db") /\ Refuse(c)
       \/ /\ \/ row[Of[c]] = "none" /\ Well
             \/ Miss("db")
          /\ SocketAt(c, "count") /\ UNCHANGED <<table, shown, since, raced, wires>>
    /\ UNCHANGED <<lists, sessions, revoking, connector, runtimesOf>>

(* Mutant of CountRows: the cap is not looked at.                          *)
CountNothing(c) ==
    /\ at[c] = "count" /\ Well /\ SocketAt(c, "insert")
    /\ UNCHANGED <<table, shown, since, raced, wires>>
    /\ UNCHANGED <<lists, sessions, revoking, connector, runtimesOf>>

(* live_device_count: an error counts as zero.                             *)
CountRows(c) ==
    /\ at[c] = "count"
    /\ \/ LiveRows >= Cap /\ Well /\ Refuse(c)
       \/ /\ LiveRows < Cap /\ Well /\ SocketAt(c, "insert")
          /\ UNCHANGED <<table, shown, since, raced, wires>>
       \/ /\ Miss("db") /\ SocketAt(c, "insert") /\ since' = [since EXCEPT ![c] = TRUE]
          /\ UNCHANGED <<table, shown, raced, wires>>
    /\ UNCHANGED <<lists, sessions, revoking, connector, runtimesOf>>

(* INSERT, unique by fingerprint, and the look-up of its id.               *)
InsertRow(c) ==
    /\ at[c] = "insert"
    /\ \/ /\ row[Of[c]] = "none" /\ Well /\ BecomesLive(c) /\ SocketAt(c, "list")
          /\ UNCHANGED <<shown, raced, wires>>
       \/ row[Of[c]] # "none" /\ Well /\ Refuse(c)
       \/ row[Of[c]] = "none" /\ Miss("db") /\ Refuse(c)
       \/ /\ row[Of[c]] = "none" /\ Miss("db") /\ BecomesLive(c) /\ SocketAt(c, "over")
          /\ down' = Posted(c, [is |-> "error"]) /\ UNCHANGED <<shown, raced, upward>>
    /\ UNCHANGED <<lists, sessions, revoking, connector, runtimesOf>>

(* The row is touched and the handle listed, in place of an older one.     *)
List(c) ==
    /\ at[c] = "list" /\ SocketAt(c, "ok")
    /\ registry' = [registry EXCEPT ![Of[c]] = c] /\ Well
    /\ UNCHANGED <<table, shown, since, raced, frames, route, wires, sessions, revoking, connector, runtimesOf>>

(* Mutant of SayOk: a failed HelloOk leaves the handle listed.             *)
SayOkForgetful(c) ==
    /\ at[c] = "ok" /\ Well
    /\ \/ /\ SocketAt(c, "frames")
          /\ down' = IF Linked(c)
                     THEN [down EXCEPT ![c] = <<[is |-> "ok", token |-> IF shown[c] = Nothing THEN c ELSE Nothing]>> \o @]
                     ELSE down
       \/ ~Linked(c) /\ SocketAt(c, "over") /\ UNCHANGED down
    /\ UNCHANGED registry
    /\ UNCHANGED <<table, shown, since, raced, frames, route, upward, sessions, revoking, connector, runtimesOf>>

(* HelloOk goes out before the writer starts, so before anything queued.   *)
SayOk(c) ==
    /\ at[c] = "ok" /\ Well
    /\ \/ /\ SocketAt(c, "frames") /\ UNCHANGED registry
          /\ down' = IF Linked(c)
                     THEN [down EXCEPT ![c] = <<[is |-> "ok", token |-> IF shown[c] = Nothing THEN c ELSE Nothing]>> \o @]
                     ELSE down
       \/ /\ ~Linked(c) /\ SocketAt(c, "over")
          /\ registry' = [registry EXCEPT ![Of[c]] = Nothing] /\ UNCHANGED down
    /\ UNCHANGED <<table, shown, since, raced, frames, route, upward, sessions, revoking, connector, runtimesOf>>

ListFrames(c) ==
    /\ at[c] = "frames" /\ SocketAt(c, "open") /\ Well
    /\ frames' = [frames EXCEPT ![Of[c]] = c]
    /\ UNCHANGED <<table, shown, since, raced, registry, route, wires, sessions, revoking, connector, runtimesOf>>

(* RuntimeClosed and RuntimeError: the session's sender is dropped.        *)
ReadNotice(c) ==
    /\ at[c] = "open" /\ upward[c] # <<>> /\ Well
    /\ upward' = [upward EXCEPT ![c] = Tail(@)] /\ route' = [route EXCEPT ![c] = Nothing]
    /\ UNCHANGED <<table, socket, registry, frames, down, sessions, revoking, connector, runtimesOf>>

(* The stream ends, at once or long after the machine has gone; the maps   *)
(* are cleared by machine, whoever is listed by now.                       *)
HangUp(c) ==
    /\ at[c] = "open" /\ ~Linked(c) /\ SocketAt(c, "clear") /\ Well
    /\ frames' = [frames EXCEPT ![Of[c]] = Nothing]
    /\ UNCHANGED <<table, shown, since, raced, registry, route, wires, sessions, revoking, connector, runtimesOf>>

(* Mutant of ClearRoutes: the senders outlive their socket.                *)
KeepRoutes(c) ==
    /\ at[c] = "clear" /\ SocketAt(c, "unlist") /\ Well
    /\ UNCHANGED <<table, shown, since, raced, lists, wires, sessions, revoking, connector, runtimesOf>>

ClearRoutes(c) ==
    /\ at[c] = "clear" /\ SocketAt(c, "unlist") /\ Well
    /\ route' = [route EXCEPT ![c] = Nothing]
    /\ UNCHANGED <<table, shown, since, raced, registry, frames, wires, sessions, revoking, connector, runtimesOf>>

Unlist(c) ==
    /\ at[c] = "unlist" /\ SocketAt(c, "over") /\ Well
    /\ registry' = [registry EXCEPT ![Of[c]] = Nothing]
    /\ UNCHANGED <<table, shown, since, raced, frames, route, wires, sessions, revoking, connector, runtimesOf>>

SocketStep(c) ==
    \/ Hello(c) \/ SignIn(c) \/ FindRow(c) \/ CountRows(c) \/ InsertRow(c) \/ List(c) \/ SayOk(c)
    \/ ListFrames(c) \/ ReadNotice(c) \/ ClearRoutes(c) \/ Unlist(c)

-----------------------------------------------------------------------------
(* What the web asks of a machine                                          *)

(* One start at a time: starts that overlap are AgentRuntimes' subject.    *)
BeginRun(r) ==
    /\ starter[r] = "idle" /\ \A q \in Runs : q < r => starter[q] = "done"
    /\ served[RunOf[r]] = Nothing /\ registry[RunOf[r]] # Nothing /\ Well
    /\ starter' = [starter EXCEPT ![r] = "held"]
    /\ hold' = [hold EXCEPT ![r] = registry[RunOf[r]]]
    /\ UNCHANGED <<table, socket, lists, wires, served, pumps, unrouting, strayed, revoking, connector, runtimesOf>>

(* register_session_frames, with the map listed by now.                    *)
RouteRun(r) ==
    /\ starter[r] = "held" /\ Well
    /\ LET c == frames[RunOf[r]] IN
       \/ c = Nothing /\ starter' = [starter EXCEPT ![r] = "done"] /\ UNCHANGED <<route, strayed>>
       \/ /\ c # Nothing /\ starter' = [starter EXCEPT ![r] = "routed"]
          /\ route' = [route EXCEPT ![c] = r]
          /\ strayed' = IF c # hold[r] THEN strayed \cup {r} ELSE strayed
    /\ UNCHANGED <<table, socket, registry, frames, wires, hold, served, pumps, unrouting, revoking, connector, runtimesOf>>

(* A start that cannot be sent leaves its route behind.                    *)
SendRun(r) ==
    /\ starter[r] = "routed" /\ Well
    /\ starter' = [starter EXCEPT ![r] = IF at[hold[r]] = "over" THEN "done" ELSE "sent"]
    /\ down' = Posted(hold[r], [is |-> "start", run |-> r])
    /\ UNCHANGED <<table, socket, lists, upward, hold, served, pumps, unrouting, strayed, revoking, connector, runtimesOf>>

AttachRun(r) ==
    /\ starter[r] = "sent" /\ starter' = [starter EXCEPT ![r] = "done"] /\ Well
    /\ served' = [served EXCEPT ![RunOf[r]] = r] /\ pumps' = pumps \cup {r}
    /\ UNCHANGED <<table, socket, lists, wires, hold, unrouting, strayed, revoking, connector, runtimesOf>>

(* The pump ends with its last sender and unregisters the session.         *)
PumpEnds(r) ==
    /\ r \in pumps /\ \A c \in Sockets : route[c] # r
    /\ pumps' = pumps \ {r} /\ served' = [served EXCEPT ![RunOf[r]] = Nothing] /\ Well
    /\ UNCHANGED <<table, socket, lists, wires, starter, hold, unrouting, strayed, revoking, connector, runtimesOf>>

(* stop_session: detach, StopRuntime, and then the route.                  *)
StopRun(m) ==
    /\ served[m] # Nothing /\ Order
    /\ served' = [served EXCEPT ![m] = Nothing] /\ unrouting' = [unrouting EXCEPT ![m] = TRUE]
    /\ down' = Posted(hold[served[m]], [is |-> "stop"])
    /\ UNCHANGED <<table, socket, lists, upward, starter, hold, pumps, strayed, revoking, connector, runtimesOf>>
UnrouteRun(m) ==
    /\ unrouting[m] /\ unrouting' = [unrouting EXCEPT ![m] = FALSE] /\ Well
    /\ route' = IF frames[m] = Nothing THEN route ELSE [route EXCEPT ![frames[m]] = Nothing]
    /\ UNCHANGED <<table, socket, registry, frames, wires, starter, hold, served, pumps, strayed, revoking, connector, runtimesOf>>

(* revoke_device: the row, and then whoever is listed.                     *)
RevokeRow(m) ==
    /\ row[m] = "live" /\ Order
    /\ row' = [row EXCEPT ![m] = "revoked"] /\ over' = over \ {m}
    /\ revoking' = [revoking EXCEPT ![m] = TRUE]
    /\ raced' = raced \cup {c \in Sockets : Of[c] = m /\ at[c] = "list"}
    /\ UNCHANGED <<rowToken, others, at, shown, since, lists, wires, sessions, connector, runtimesOf>>

CutOff(m) ==
    /\ revoking[m] /\ revoking' = [revoking EXCEPT ![m] = FALSE] /\ Well
    /\ registry' = [registry EXCEPT ![m] = Nothing]
    /\ down' = IF registry[m] = Nothing THEN down ELSE Posted(registry[m], [is |-> "error"])
    /\ UNCHANGED <<table, socket, frames, route, upward, sessions, connector, runtimesOf>>

-----------------------------------------------------------------------------
(* The connector of a machine: Connector::run and run_once                 *)

Dial(m, cred) ==
    /\ \E c \in Sockets :
        /\ Of[c] = m /\ at[c] = "unused" /\ \A b \in Sockets : Of[b] = m /\ b < c => at[b] # "unused"
        /\ SocketAt(c, "first") /\ shown' = [shown EXCEPT ![c] = cred]
        /\ link' = [link EXCEPT ![m] = c]
        /\ manager' = [manager EXCEPT ![m] = IF @ = Nothing THEN c ELSE @]
    /\ client' = [client EXCEPT ![m] = "reading"] /\ fresh' = [fresh EXCEPT ![m] = Nothing]
    /\ UNCHANGED <<table, since, raced, lists, wires, sessions, revoking, mem, disk, leaving, runtimesOf>>

(* A login just typed comes first, then the token, then the window's       *)
(* session or a prompt; with neither the loop is given up.                 *)
Choose(m) ==
    /\ Well
    /\ \/ client[m] = "choose" /\ mem[m] # Nothing /\ Dial(m, mem[m])
       \/ /\ client[m] = "typed" \/ (client[m] = "choose" /\ mem[m] = Nothing)
          /\ Dial(m, Nothing)
       \/ /\ client[m] = "choose" /\ mem[m] = Nothing /\ client' = [client EXCEPT ![m] = "asks"]
          /\ UNCHANGED <<table, socket, lists, wires, sessions, revoking, link, mem, disk, fresh, manager, leaving, runtimesOf>>

LetGo(m) == link' = [link EXCEPT ![m] = Nothing] /\ client' = [client EXCEPT ![m] = "retire"]

(* HelloOk with a token: it is stored at once, if the disk lets it.        *)
TakeOk(m, t) ==
    /\ fresh' = [fresh EXCEPT ![m] = IF t = Nothing THEN @ ELSE t]
    /\ \/ Well /\ disk' = [disk EXCEPT ![m] = IF t = Nothing THEN @ ELSE t]
       \/ t # Nothing /\ Miss("disk") /\ UNCHANGED disk
    /\ UNCHANGED <<client, link, mem, manager, leaving, runtimesOf, upward>>

(* Error: a credential that was refused is forgotten; one obtained on this *)
(* socket is kept.                                                         *)
TakeError(m) ==
    /\ LetGo(m) /\ Well
    /\ mem' = [mem EXCEPT ![m] = fresh[m]]
    /\ disk' = IF fresh[m] = Nothing /\ mem[m] # Nothing THEN [disk EXCEPT ![m] = Nothing] ELSE disk
    /\ UNCHANGED <<fresh, manager, leaving, runtimesOf, upward>>

(* RuntimeManager::start up to its first await: a session that has a       *)
(* runtime keeps it.  HostRun and FailRun are the rest of it.              *)
TakeStart(m, r) ==
    /\ Well
    /\ \/ Hosted(m) # Nothing /\ UNCHANGED runtimesOf
       \/ /\ Hosted(m) = Nothing /\ reader' = [reader EXCEPT ![r] = "begin"]
          /\ from' = [from EXCEPT ![r] = link[m]] /\ born' = [born EXCEPT ![r] = manager[m]]
          /\ UNCHANGED <<hosted, alive, orphans>>
    /\ UNCHANGED <<connector, upward>>

(* stop_all, of a manager that hosts one session at most.                  *)
StopAll(g) == hosted' = [hosted EXCEPT ![g] = Nothing] /\ alive' = alive \ {hosted[g]}

(* RuntimeManager::stop waits for the process, and kills it in the end.    *)
TakeStop(m) == Well /\ StopAll(manager[m]) /\ UNCHANGED <<connector, reader, from, born, orphans, upward>>

(* The loop awaits what it does for a message before it reads on.          *)
ReadMessage(m) ==
    /\ client[m] = "reading" /\ down[link[m]] # <<>> /\ ~Preparing(m)
    /\ LET msg == Head(down[link[m]]) IN
       \/ msg.is = "ok" /\ TakeOk(m, msg.token)
       \/ msg.is = "error" /\ TakeError(m)
       \/ msg.is = "start" /\ TakeStart(m, msg.run)
       \/ msg.is = "stop" /\ TakeStop(m)
    /\ down' = [down EXCEPT ![link[m]] = Tail(@)]
    /\ UNCHANGED <<table, socket, lists, sessions, revoking>>

(* The stream ends: closed, what was given is kept; broken, it is on the   *)
(* disk only.                                                              *)
SeeClose(m) ==
    /\ client[m] = "reading" /\ at[link[m]] = "over" /\ down[link[m]] = <<>> /\ ~Preparing(m) /\ Well
    /\ LetGo(m) /\ mem' = [mem EXCEPT ![m] = IF fresh[m] = Nothing THEN @ ELSE fresh[m]]
    /\ UNCHANGED <<table, socket, lists, wires, sessions, revoking, disk, fresh, manager, leaving, runtimesOf>>

(* Mutant of SeeBreak: a broken connection costs the credential.           *)
SeeBreakForget(m) ==
    /\ client[m] = "reading" /\ ~Preparing(m) /\ Miss("cut") /\ LetGo(m)
    /\ mem' = [mem EXCEPT ![m] = Nothing] /\ disk' = [disk EXCEPT ![m] = Nothing]
    /\ UNCHANGED <<table, socket, lists, wires, sessions, revoking, fresh, manager, leaving, runtimesOf>>

SeeBreak(m) ==
    /\ client[m] = "reading" /\ ~Preparing(m) /\ Miss("cut") /\ LetGo(m)
    /\ UNCHANGED <<table, socket, lists, wires, sessions, revoking, mem, disk, fresh, manager, leaving, runtimesOf>>

(* stop_all, before the next attempt.                                      *)
Retire(m) ==
    /\ client[m] = "retire" /\ StopAll(manager[m]) /\ Well
    /\ client' = [client EXCEPT ![m] = "choose"]
    /\ UNCHANGED <<table, socket, lists, wires, sessions, revoking, link, mem, disk, fresh, manager, leaving, reader, from, born, orphans>>

(* Connector::stop aborts the loop, which takes effect when the loop next  *)
(* waits, and then empties the manager; after that sign_out forgets the    *)
(* credential.  Connector::start makes a new manager, whether stop is      *)
(* through with the old one or not.                                        *)
Forgotten(m) == {disk, [disk EXCEPT ![m] = Nothing]}
SwitchOff(m) ==
    /\ client[m] # "off" /\ Order
    /\ client' = [client EXCEPT ![m] = "off"] /\ link' = [link EXCEPT ![m] = Nothing]
    /\ manager' = [manager EXCEPT ![m] = Nothing]
    /\ \/ manager[m] = Nothing /\ disk' \in Forgotten(m) /\ UNCHANGED leaving
       \/ manager[m] # Nothing /\ leaving' = leaving \cup {manager[m]} /\ UNCHANGED disk
    /\ UNCHANGED <<table, socket, lists, wires, sessions, revoking, mem, fresh, runtimesOf>>

(* Mutant of FinishStop: the runtimes run on without their loop.           *)
StopLazily(g) ==
    /\ g \in leaving /\ leaving' = leaving \ {g} /\ Well
    /\ disk' \in Forgotten(Of[g])
    /\ UNCHANGED <<table, socket, lists, wires, sessions, revoking, client, link, mem, fresh, manager, runtimesOf>>

FinishStop(g) ==
    /\ g \in leaving /\ leaving' = leaving \ {g} /\ StopAll(g) /\ Well
    /\ disk' \in Forgotten(Of[g])
    /\ UNCHANGED <<table, socket, lists, wires, sessions, revoking, client, link, mem, fresh, manager, reader, from, born, orphans>>
SwitchOn(m) ==
    /\ client[m] \in {"off", "asks"} /\ Well
    /\ client' \in {[client EXCEPT ![m] = "choose"], [client EXCEPT ![m] = "typed"]}
    /\ mem' = [mem EXCEPT ![m] = disk[m]] /\ manager' = [manager EXCEPT ![m] = Nothing]
    /\ UNCHANGED <<table, socket, lists, wires, sessions, revoking, link, disk, fresh, leaving, runtimesOf>>

ClientStep(m) == Choose(m) \/ ReadMessage(m) \/ SeeClose(m) \/ Retire(m)

-----------------------------------------------------------------------------
(* Runtimes on the machine                                                 *)

(* The notice of a runtime goes to the connection it was started on.  One  *)
(* that was let go of has no writer; one that was aborted still has.       *)
Notify(r) ==
    LET told == [upward EXCEPT ![from[r]] = Append(@, r)] IN
    \/ Linked(from[r]) /\ upward' = told
    \/ ~Linked(from[r]) /\ UNCHANGED upward
    \/ ~Linked(from[r]) /\ ~Current(r) /\ upward' = told

(* RuntimeManager::start after its check: the configuration is written and *)
(* the process started; the last thing is the insert, into whatever has    *)
(* become of the manager.                                                  *)
HostRun(r) ==
    /\ reader[r] = "begin" /\ Well
    /\ hosted' = [hosted EXCEPT ![born[r]] = r] /\ alive' = alive \cup {r}
    /\ reader' = [reader EXCEPT ![r] = "read"]
    /\ orphans' = IF Current(r) \/ born[r] \in leaving THEN orphans ELSE orphans \cup {r}
    /\ UNCHANGED <<table, socket, lists, wires, sessions, revoking, connector, from, born>>

(* A start that is refused or fails is reported; one that is aborted ends, *)
(* and takes its process with it.                                          *)
FailRun(r) ==
    /\ reader[r] = "begin" /\ Well /\ Notify(r)
    /\ reader' = [reader EXCEPT ![r] = "over"]
    /\ UNCHANGED <<table, socket, lists, down, sessions, revoking, connector, hosted, alive, from, born, orphans>>

RuntimeEnds(r) ==
    /\ r \in alive /\ alive' = alive \ {r} /\ Well
    /\ UNCHANGED <<table, socket, lists, wires, sessions, revoking, connector, hosted, reader, from, born, orphans>>

(* At the end of stdout reap removes by session: whatever its manager      *)
(* hosts by now, which is waited for and killed.                           *)
Reap(r) ==
    /\ reader[r] = "read" /\ r \notin alive /\ Well
    /\ reader' = [reader EXCEPT ![r] = "tell"] /\ StopAll(born[r])
    /\ UNCHANGED <<table, socket, lists, wires, sessions, revoking, connector, from, born, orphans>>

Tell(r) ==
    /\ reader[r] = "tell" /\ Well /\ Notify(r)
    /\ reader' = [reader EXCEPT ![r] = "over"]
    /\ UNCHANGED <<table, socket, lists, down, sessions, revoking, connector, hosted, alive, from, born, orphans>>

ReaderStep(r) == HostRun(r) \/ FailRun(r) \/ Reap(r) \/ Tell(r)
RunStep(r) == RouteRun(r) \/ SendRun(r) \/ AttachRun(r) \/ PumpEnds(r) \/ ReaderStep(r)
DeskStep(m) == UnrouteRun(m) \/ CutOff(m)

DevicesNext ==
    \/ \E c \in Sockets : SocketStep(c) \/ HangUp(c) \/ FinishStop(c)
    \/ BindElsewhere
    \/ \E r \in Runs : BeginRun(r) \/ RunStep(r) \/ RuntimeEnds(r)
    \/ \E m \in Machines : DeskStep(m) \/ StopRun(m) \/ RevokeRow(m)
    \/ \E m \in Machines : ClientStep(m) \/ SeeBreak(m) \/ SwitchOff(m) \/ SwitchOn(m)

(* Nothing has to happen: nothing but the network tells the server that a  *)
(* machine is gone, since handle_socket has no timer.                      *)
DevicesSpec == DevicesInit /\ [][DevicesNext]_devicesVars
-----------------------------------------------------------------------------
(* What is listed is served: a socket whose task is past its last line is  *)
(* in neither table (handle_socket 1017-1019, 1213-1217, though every      *)
(* removal is by machine).                                                 *)
NothingDangles ==
    \A m \in Machines :
        /\ registry[m] # Nothing => Of[registry[m]] = m /\ at[registry[m]] \in {"ok", "frames", "open", "clear", "unlist"}
        /\ frames[m] # Nothing => Of[frames[m]] = m /\ at[frames[m]] = "open"

(* A revoked machine is unreachable once revoke_device is through, unless  *)
(* its socket had passed device_for_token before and was listed after      *)
(* (699-740 against 848-872).                                              *)
RevokedIsOut ==
    \A m \in Machines :
        (row[m] = "revoked" /\ registry[m] # Nothing) => (revoking[m] \/ registry[m] \in raced)

RegistrySound == NothingDangles /\ RevokedIsOut

(* A row beyond the cap was inserted after a count that another binding    *)
(* or an error had made false, or is a machine that came back: another     *)
(* connection of it had been through bind_device before, bound or refused  *)
(* (bind_device 518-560: the count and the insert are two statements).     *)
CapExplained ==
    LiveRows > Cap =>
        \E m \in over : \/ rowToken[m] # Nothing /\ since[rowToken[m]]
                        \/ \E c \in Sockets :
                              /\ Of[c] = m /\ c # rowToken[m]
                              /\ at[c] \notin {"unused", "first", "bind", "count", "insert"}

(* A machine without a connection runs nothing: every way out of run_once  *)
(* passes stop_all (connector.rs 296-341), and stop() does when it is      *)
(* through (225-232) - but for a start that its abort did not interrupt    *)
(* and that inserts its runtime when stop_all has passed (runtime.rs 196): *)
(* nobody stops that one.                                                  *)
OfflineRunsNothing ==
    \A m \in Machines : client[m] \in {"choose", "typed", "asks", "off"} =>
        /\ Hosted(m) = Nothing
        /\ \A r \in alive : RunOf[r] = m => born[r] \in leaving \/ r \in orphans

(* The stored credential goes only when the person signs out, the machine  *)
(* is revoked while it is attached, or the server refused what was shown:  *)
(* it is not the row's, the row is revoked, the database did not answer -  *)
(* or what was shown is not what is stored, a login just typed or the      *)
(* token before it, which costs a stored token that is good                *)
(* (connector.rs 263-333).                                                 *)
ToldOff(m) == at[link[m]] # "over" /\ down[link[m]] # <<>> /\ Head(down[link[m]]).is = "error"
ForgetsOnlyRefused ==
    [][\A m \in Machines : (disk[m] # Nothing /\ disk'[m] = Nothing) =>
        \/ client'[m] = "off" \/ \E g \in leaving \ leaving' : Of[g] = m
        \/ ToldOff(m) \/ dbMissed
        \/ row[m] # "live" \/ rowToken[m] # disk[m]
        \/ shown[link[m]] # disk[m] /\ fresh[m] = Nothing]_devicesVars

(* The guards of SocketStep, RunStep, DeskStep and ClientStep: who has      *)
(* something to do.                                                        *)
SocketBusy(c) ==
    at[c] \notin {"unused", "open", "over"} \/ (at[c] = "open" /\ upward[c] # <<>>)
RunBusy(r) ==
    \/ starter[r] \in {"held", "routed", "sent"}
    \/ r \in pumps /\ \A c \in Sockets : route[c] # r
    \/ reader[r] \in {"begin", "tell"} \/ (reader[r] = "read" /\ r \notin alive)
DeskBusy(m) == unrouting[m] \/ revoking[m]
ClientBusy(m) ==
    \/ client[m] = "retire" \/ (client[m] = "choose" /\ mem[m] = Nothing)
    \/ client[m] \in {"choose", "typed"} /\ \E c \in Sockets : Of[c] = m /\ at[c] = "unused"
    \/ client[m] = "reading" /\ (down[link[m]] # <<>> \/ at[link[m]] = "over")

(* No session is held against a machine that does not run it (agent_device *)
(* 1211): once the server and the connector have nothing left to do, the   *)
(* machine hosts a runtime for it - but for a start whose message went     *)
(* through an older socket than its route, and while the server has not    *)
(* heard that the machine is gone.                                         *)
Resting ==
    /\ \A c \in Sockets : ~SocketBusy(c)
    /\ \A r \in Runs : ~RunBusy(r)
    /\ \A m \in Machines : ~DeskBusy(m) /\ ~ClientBusy(m)
NoGhost ==
    \A r \in pumps \ strayed :
        Hosted(RunOf[r]) = Nothing /\ Resting =>
            \E c \in Sockets : route[c] = r /\ at[c] = "open" /\ ~Linked(c)

(* Sessions and runtimes match: none without the other for long.           *)
SessionsMatchMachines == OfflineRunsNothing /\ NoGhost
=============================================================================
