---------------------------- MODULE AgentRuntimes ----------------------------
(***************************************************************************)
(* The runtimes of one agent session on the cloud target (agent_api.rs,    *)
(* agent_session.rs, agent_driver.rs, agent_sandbox.rs). A start mints a   *)
(* credential, spawns a runtime, registers it and arms a lifetime ceiling; *)
(* a frame pump watches each runtime and cleans up when it ends; stop and  *)
(* delete tear the registered one down; a restart resets everything.       *)
(* There is one registry slot and one container name per session, so all   *)
(* of these tasks share them. One step runs up to the next await that      *)
(* another task can get ahead of.                                          *)
(***************************************************************************)
EXTENDS Naturals

CONSTANTS
    Starts,       \* requests to start_session; each spawns at most one runtime
    Teardowns,    \* requests to stop_session and delete_session
    Deletes,      \* those of delete_session
    None,         \* no runtime
    Sandboxed,    \* sandbox_enabled(): a container, or else a host process
    Faults,       \* what can go wrong: "start" (an error on the way), "disconnect",
                  \* "crash", "db", "docker"
    MaxMishaps    \* how many times something goes wrong

ASSUME RuntimeAssumption ==
    /\ None \notin Starts
    /\ Deletes \subseteq Teardowns
    /\ Sandboxed \in BOOLEAN
    /\ MaxMishaps \in Nat

VARIABLES
    exists,       \* the row in agent_sessions
    live,         \* SessionRegistry: the runtime registered for the session
    token,        \* agent_tokens: the credential minted by a start
    child,        \* the process a start spawned
    container,    \* which runtime holds the session's container name
    unrevoked,    \* ghost: starts whose credential a failed UPDATE left alone
    unremoved,    \* ghost: starts whose container a failed docker rm left alone
    start, teardown,  \* the request handlers: position
    held,         \* the runtime a teardown took out of the registry
    pump, ceiling,    \* the frame pump and the lifetime task of a runtime
    up, mishaps

slips == <<unrevoked, unremoved>>
runtimes == <<token, child, container, slips>>
tasks == <<start, teardown, held, pump, ceiling>>
server == <<up, mishaps>>
vars == <<exists, live, runtimes, tasks, server>>

StartSteps == {"idle", "check", "mint", "prepare", "clear", "spawn", "attach",
               "arm", "revoke", "dropped", "over"}
Detached == {"idle", "check", "mint", "prepare", "clear", "spawn", "attach"}
TeardownSteps == {"idle", "detach", "wait", "revoke", "container", "rows",
                  "dropped", "over"}
PumpSteps == {"off", "on", "revoke", "remove", "over"}
CeilingSteps == {"off", "armed", "remove", "wait", "container", "revoke", "over"}

TypeOK ==
    /\ exists \in BOOLEAN
    /\ live \in Starts \cup {None}
    /\ token \in [Starts -> {"none", "valid", "revoked"}]
    /\ child \in [Starts -> {"none", "starting", "alive", "exited"}]
    /\ container \in Starts \cup {None}
    /\ unrevoked \subseteq Starts /\ unremoved \subseteq Starts
    /\ start \in [Starts -> StartSteps]
    /\ teardown \in [Teardowns -> TeardownSteps]
    /\ held \in [Teardowns -> Starts \cup {None}]
    /\ pump \in [Starts -> PumpSteps]
    /\ ceiling \in [Starts -> CeilingSteps]
    /\ up \in BOOLEAN
    /\ mishaps \in 0..MaxMishaps

Init ==
    /\ exists = TRUE
    /\ live = None
    /\ token = [s \in Starts |-> "none"]
    /\ child = [s \in Starts |-> "none"]
    /\ container = None
    /\ unrevoked = {} /\ unremoved = {}
    /\ start = [s \in Starts |-> "idle"]
    /\ teardown = [t \in Teardowns |-> "idle"]
    /\ held = [t \in Teardowns |-> None]
    /\ pump = [s \in Starts |-> "off"]
    /\ ceiling = [s \in Starts |-> "off"]
    /\ up = TRUE
    /\ mishaps = 0

Mishap(kind) ==
    /\ kind \in Faults /\ mishaps < MaxMishaps
    /\ mishaps' = mishaps + 1
Fine == UNCHANGED mishaps

Retire(S) ==
    /\ token' = [s \in Starts |-> IF s \in S THEN "revoked" ELSE token[s]]
    /\ UNCHANGED unrevoked
LeaveValid(S) == unrevoked' = unrevoked \cup S /\ UNCHANGED token

(* revoke_by_plaintext: nobody hears that the UPDATE failed, and whoever   *)
(* asked for it goes on.                                                   *)
Revoke(s) ==
    \/ Fine /\ Retire({s})
    \/ Mishap("db") /\ LeaveValid({s})
MoveStart(s, here, next) == /\ up /\ start[s] = here
                            /\ start' = [start EXCEPT ![s] = next]
MoveTeardown(t, here, next) == /\ up /\ teardown[t] = here
                               /\ teardown' = [teardown EXCEPT ![t] = next]
MovePump(s, here, next) == /\ up /\ pump[s] = here
                           /\ pump' = [pump EXCEPT ![s] = next]
MoveCeiling(s, here, next) == /\ up /\ ceiling[s] = here
                              /\ ceiling' = [ceiling EXCEPT ![s] = next]

----------------------------------------------------------------------------
(* The runtimes themselves: processes and containers.                     *)

(* docker run has created the container, or found its name taken.         *)
ContainerUp(s) ==
    /\ child[s] = "starting"
    /\ IF container = None
       THEN /\ container' = s
            /\ child' = [child EXCEPT ![s] = "alive"]
       ELSE /\ child' = [child EXCEPT ![s] = "exited"]
            /\ UNCHANGED container
    /\ UNCHANGED <<exists, live, token, slips, tasks, server>>

(* The runtime ends, by itself or because its standard input was closed.  *)
RuntimeQuits(s) ==
    /\ child[s] = "alive" \/ container = s
    /\ child' = [child EXCEPT ![s] = "exited"]
    /\ container' = IF container = s THEN None ELSE container
    /\ UNCHANGED <<exists, live, token, slips, tasks, server>>

NameFreed ==
    /\ container' = None
    /\ child' = [s \in Starts |-> IF s = container THEN "exited" ELSE child[s]]
    /\ UNCHANGED unremoved
NameKept ==
    /\ unremoved' = unremoved \cup ({container} \ {None})
    /\ UNCHANGED <<container, child>>

(* remove_container: docker rm -f of the session's container name; whether *)
(* it worked is not looked at.                                             *)
RemoveContainer ==
    \/ Fine /\ NameFreed
    \/ Mishap("docker") /\ NameKept

(* shutdown: the process ends within five seconds, or is killed. Killing   *)
(* the docker client leaves the container.                                 *)
Shutdown(s) == child' = [child EXCEPT ![s] = "exited"]

----------------------------------------------------------------------------
(* start_session                                                           *)

BeginStart(s) ==
    /\ MoveStart(s, "idle", "check")
    /\ exists
    /\ UNCHANGED <<exists, live, runtimes, teardown, held, pump, ceiling, server>>

(* A warm runtime is reused, and the request is over.                      *)
CheckLive(s) ==
    /\ MoveStart(s, "check", IF live = None THEN "mint" ELSE "over")
    /\ UNCHANGED <<exists, live, runtimes, teardown, held, pump, ceiling, server>>

Mint(s) ==
    /\ \/ /\ MoveStart(s, "mint", "prepare")
          /\ token' = [token EXCEPT ![s] = "valid"]
          /\ Fine
       \/ /\ MoveStart(s, "mint", "over")
          /\ UNCHANGED token
          /\ Mishap("start")
    /\ UNCHANGED <<exists, live, child, container, slips, teardown, held, pump,
                   ceiling, up>>

(* Mutant of Prepare: an error path that forgets the credential.           *)
PrepareForgetful(s) ==
    /\ \/ /\ MoveStart(s, "prepare", IF Sandboxed THEN "clear" ELSE "spawn")
          /\ Fine
       \/ /\ MoveStart(s, "prepare", "over")
          /\ Mishap("start")
    /\ UNCHANGED <<exists, live, runtimes, teardown, held, pump, ceiling, up>>

(* The model list, the workspace, the agent's directory and its gate.      *)
Prepare(s) ==
    /\ \/ /\ MoveStart(s, "prepare", IF Sandboxed THEN "clear" ELSE "spawn")
          /\ Fine
       \/ /\ MoveStart(s, "prepare", "revoke")
          /\ Mishap("start")
    /\ UNCHANGED <<exists, live, runtimes, teardown, held, pump, ceiling, up>>

ClearName(s) ==
    /\ MoveStart(s, "clear", "spawn")
    /\ RemoveContainer
    /\ UNCHANGED <<exists, live, token, unrevoked, teardown, held, pump, ceiling, up>>

(* Mutant of Spawn: docker run without the session's --name.               *)
SpawnUnnamed(s) ==
    /\ MoveStart(s, "spawn", "attach")
    /\ child' = [child EXCEPT ![s] = "alive"]
    /\ UNCHANGED <<exists, live, token, container, slips, teardown, held, pump,
                   ceiling, server>>

Spawn(s) ==
    /\ \/ /\ MoveStart(s, "spawn", "attach")
          /\ child' = [child EXCEPT ![s] = IF Sandboxed THEN "starting" ELSE "alive"]
          /\ Fine
       \/ /\ MoveStart(s, "spawn", "revoke")
          /\ UNCHANGED child
          /\ Mishap("start")
    /\ UNCHANGED <<exists, live, token, container, slips, teardown, held, pump,
                   ceiling, up>>

Attach(s) ==
    /\ MoveStart(s, "attach", IF Sandboxed THEN "arm" ELSE "over")
    /\ live' = s
    /\ pump' = [pump EXCEPT ![s] = "on"]
    /\ UNCHANGED <<exists, runtimes, teardown, held, ceiling, server>>

(* The model and the thinking level are applied first, which takes awaits. *)
ArmCeiling(s) ==
    /\ MoveStart(s, "arm", "over")
    /\ ceiling' = [ceiling EXCEPT ![s] = "armed"]
    /\ UNCHANGED <<exists, live, runtimes, teardown, held, pump, server>>

RevokeUnused(s) ==
    /\ MoveStart(s, "revoke", "over")
    /\ Revoke(s)
    /\ UNCHANGED <<exists, live, child, container, unremoved, teardown, held, pump,
                   ceiling, up>>

StartStep(s) ==
    \/ CheckLive(s) \/ Mint(s) \/ Prepare(s) \/ ClearName(s) \/ Spawn(s)
    \/ Attach(s) \/ ArmCeiling(s) \/ RevokeUnused(s)

(* The client disconnects and the handler is dropped where it waits. A     *)
(* process that was not attached yet is killed with its handle.            *)
DropStart(s) ==
    /\ \E here \in {"prepare", "clear", "spawn", "attach", "arm", "revoke"} :
         /\ MoveStart(s, here, "dropped")
         /\ IF here = "attach" THEN Shutdown(s) ELSE UNCHANGED child
    /\ Mishap("disconnect")
    /\ UNCHANGED <<exists, live, token, container, slips, teardown, held, pump,
                   ceiling, up>>

----------------------------------------------------------------------------
(* The frame pump of an attached runtime: what it does when frames end.    *)

FramesEnd(s) ==
    /\ MovePump(s, "on", "revoke")
    /\ child[s] = "exited"
    /\ UNCHANGED <<exists, live, runtimes, start, teardown, held, ceiling, server>>

(* Mutant of PumpRevokes: the registry entry is left to the teardown.      *)
PumpRevokesOnly(s) ==
    /\ MovePump(s, "revoke", "over")
    /\ Revoke(s)
    /\ UNCHANGED <<exists, live, child, container, unremoved, start, teardown, held,
                   ceiling, up>>

PumpRevokes(s) ==
    /\ MovePump(s, "revoke", "remove")
    /\ Revoke(s)
    /\ UNCHANGED <<exists, live, child, container, unremoved, start, teardown, held,
                   ceiling, up>>

(* registry.remove(session_id): by session, whichever runtime is there.    *)
PumpRemoves(s) ==
    /\ MovePump(s, "remove", "over")
    /\ live' = None
    /\ UNCHANGED <<exists, runtimes, start, teardown, held, ceiling, server>>

PumpStep(s) == FramesEnd(s) \/ PumpRevokes(s) \/ PumpRemoves(s)

----------------------------------------------------------------------------
(* The lifetime ceiling of a sandbox.                                      *)

(* Mutant of CeilingReached: it only retires the credential.               *)
CeilingIgnored(s) ==
    /\ MoveCeiling(s, "armed", "revoke")
    /\ UNCHANGED <<exists, live, runtimes, start, teardown, held, pump, server>>

CeilingReached(s) ==
    /\ MoveCeiling(s, "armed", IF live = s THEN "remove" ELSE "revoke")
    /\ UNCHANGED <<exists, live, runtimes, start, teardown, held, pump, server>>

CeilingDetaches(s) ==
    /\ MoveCeiling(s, "remove", "wait")
    /\ live' = None
    /\ UNCHANGED <<exists, runtimes, start, teardown, held, pump, server>>

CeilingShutsDown(s) ==
    /\ MoveCeiling(s, "wait", "container")
    /\ Shutdown(s)
    /\ UNCHANGED <<exists, live, token, container, slips, start, teardown, held,
                   pump, server>>

CeilingRemovesContainer(s) ==
    /\ MoveCeiling(s, "container", "revoke")
    /\ RemoveContainer
    /\ UNCHANGED <<exists, live, token, unrevoked, start, teardown, held, pump, up>>

CeilingRevokes(s) ==
    /\ MoveCeiling(s, "revoke", "over")
    /\ Revoke(s)
    /\ UNCHANGED <<exists, live, child, container, unremoved, start, teardown, held,
                   pump, up>>

CeilingStep(s) ==
    \/ CeilingReached(s) \/ CeilingDetaches(s) \/ CeilingShutsDown(s)
    \/ CeilingRemovesContainer(s) \/ CeilingRevokes(s)

----------------------------------------------------------------------------
(* stop_session and delete_session: teardown_runtime, then the rows.       *)

BeginTeardown(t) ==
    /\ MoveTeardown(t, "idle", "detach")
    /\ exists
    /\ UNCHANGED <<exists, live, runtimes, start, held, pump, ceiling, server>>

Detach(t) ==
    /\ MoveTeardown(t, "detach", IF live = None THEN "container" ELSE "wait")
    /\ held' = [held EXCEPT ![t] = live]
    /\ live' = None
    /\ UNCHANGED <<exists, runtimes, start, pump, ceiling, server>>

ShutDownHeld(t) ==
    /\ MoveTeardown(t, "wait", "revoke")
    /\ Shutdown(held[t])
    /\ UNCHANGED <<exists, live, token, container, slips, start, held, pump,
                   ceiling, server>>

RevokeHeld(t) ==
    /\ MoveTeardown(t, "revoke", "container")
    /\ Revoke(held[t])
    /\ UNCHANGED <<exists, live, child, container, unremoved, start, held, pump,
                   ceiling, up>>

(* Mutant of RemoveHeld: the container is left to --rm.                    *)
LeaveContainer(t) ==
    /\ MoveTeardown(t, "container", IF t \in Deletes THEN "rows" ELSE "over")
    /\ UNCHANGED <<exists, live, runtimes, start, held, pump, ceiling, server>>

RemoveHeld(t) ==
    /\ MoveTeardown(t, "container", IF t \in Deletes THEN "rows" ELSE "over")
    /\ RemoveContainer
    /\ UNCHANGED <<exists, live, token, unrevoked, start, held, pump, ceiling, up>>

DeleteRows(t) ==
    /\ MoveTeardown(t, "rows", "over")
    /\ \/ Fine /\ exists' = FALSE
       \/ Mishap("db") /\ UNCHANGED exists
    /\ UNCHANGED <<live, runtimes, start, held, pump, ceiling, up>>

TeardownStep(t) ==
    \/ Detach(t) \/ ShutDownHeld(t) \/ RevokeHeld(t) \/ RemoveHeld(t) \/ DeleteRows(t)

(* The client of a stop or a delete goes away too: what it took out of the *)
(* registry is left to the pump and to the ceiling.                        *)
DropTeardown(t) ==
    /\ \E here \in {"detach", "wait", "revoke", "container", "rows"} :
         MoveTeardown(t, here, "dropped")
    /\ Mishap("disconnect")
    /\ UNCHANGED <<exists, live, runtimes, start, held, pump, ceiling, up>>

----------------------------------------------------------------------------
(* A restart: tasks and registry are gone; containers and rows are not.    *)

Crash ==
    /\ up /\ up' = FALSE
    /\ Mishap("crash")
    /\ live' = None
    /\ child' = [s \in Starts |-> IF child[s] = "starting" THEN "exited" ELSE child[s]]
    /\ start' = [s \in Starts |-> IF start[s] = "idle" THEN "idle" ELSE "over"]
    /\ teardown' = [t \in Teardowns |-> IF teardown[t] = "idle" THEN "idle" ELSE "over"]
    /\ pump' = [s \in Starts |-> "off"]
    /\ ceiling' = [s \in Starts |-> "off"]
    /\ UNCHANGED <<exists, token, container, slips, held>>

Valid == {s \in Starts : token[s] = "valid"}

(* reset_running_sessions and reap_orphans, before any request is served.  *)
(* A failure of either is logged at most, and the server comes up with     *)
(* what it left. It counts with the crash that made it necessary.          *)
BootServer ==
    /\ ~up /\ up' = TRUE
    /\ Retire(Valid) \/ ("db" \in Faults /\ LeaveValid(Valid))
    /\ NameFreed \/ ("docker" \in Faults /\ NameKept)
    /\ UNCHANGED <<exists, live, tasks, mishaps>>

----------------------------------------------------------------------------
Over ==
    /\ up
    /\ \A s \in Starts : /\ start[s] \in {"over", "dropped"} \/ (start[s] = "idle" /\ ~exists)
                         /\ child[s] \in {"none", "exited"}
                         /\ pump[s] \in {"off", "over"} /\ ceiling[s] \in {"off", "over"}
    /\ \A t \in Teardowns : \/ teardown[t] \in {"over", "dropped"}
                            \/ teardown[t] = "idle" /\ ~exists
    /\ UNCHANGED vars

Next ==
    \/ \E s \in Starts : \/ BeginStart(s) \/ StartStep(s) \/ DropStart(s)
                         \/ PumpStep(s) \/ CeilingStep(s)
                         \/ ContainerUp(s) \/ RuntimeQuits(s)
    \/ \E t \in Teardowns : BeginTeardown(t) \/ TeardownStep(t) \/ DropTeardown(t)
    \/ Crash \/ BootServer \/ Over

Spec == Init /\ [][Next]_vars

(* The server's own tasks are scheduled, timers expire, containers come up *)
(* and the server is restarted. No request has to come, no runtime to end. *)
Fairness ==
    /\ \A s \in Starts : /\ WF_vars(StartStep(s)) /\ WF_vars(PumpStep(s))
                         /\ WF_vars(CeilingStep(s)) /\ WF_vars(ContainerUp(s))
    /\ \A t \in Teardowns : WF_vars(TeardownStep(t))
    /\ WF_vars(BootServer)

FairSpec == Spec /\ Fairness

----------------------------------------------------------------------------
(* Properties                                                              *)

(* What the registry hands out can be used: a working runtime that is      *)
(* registered has a credential that is valid. Every task that retires a    *)
(* credential has taken the runtime out of the registry first              *)
(* (agent_api.rs 1347-1360, 1386-1393), or its runtime has ended.          *)
LiveIsPaid ==
    \A s \in Starts : live = s /\ child[s] \in {"starting", "alive"} => token[s] = "valid"

(* agent_api.rs 1067: no second runtime beside a working one, which would  *)
(* fork the transcript. The check at 1069 is not what ensures it, but the  *)
(* name all containers of the session share (agent_sandbox.rs 34).         *)
NoFork ==
    Sandboxed => \A r, s \in Starts : child[r] = "alive" /\ child[s] = "alive" => r = s

(* teardown_runtime (agent_api.rs 1375): whichever way a session is        *)
(* retired, the runtime that was registered has lost its credential and    *)
(* its container by the time the answer is sent - but for the credential   *)
(* that an UPDATE failed to revoke and the container that docker failed to *)
(* remove, of which the caller learns nothing.                             *)
StopRetires ==
    \A t \in Teardowns :
        up /\ teardown[t] = "over" /\ held[t] # None
            => /\ token[held[t]] = "revoked" \/ held[t] \in unrevoked
               /\ container # held[t] \/ held[t] \in unremoved

(* agent_session.rs 101-105: a session can end in several ways, and every  *)
(* one of them kills the credential. Here it is any credential at all that *)
(* dies, of a start that failed or was overtaken too; only a start whose   *)
(* client went away, and an UPDATE that failed, leave it to its expiry     *)
(* (SESSION_TOKEN_TTL_HOURS).                                              *)
CredentialDies ==
    \A s \in Starts :
        token[s] = "valid" ~> \/ token[s] = "revoked"
                              \/ start[s] = "dropped" \/ s \in unrevoked

(* A runtime that ended does not stay registered, where every later start  *)
(* would be told to reuse it (agent_session.rs 421).                       *)
EndedIsForgotten ==
    \A s \in Starts : live = s /\ child[s] = "exited" ~> live # s

(* Nothing outlives its use: neither a credential nor the registration of  *)
(* a runtime that ended.                                                   *)
NothingLingers == CredentialDies /\ EndedIsForgotten
============================================================================
