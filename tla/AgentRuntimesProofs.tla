------------------------- MODULE AgentRuntimesProofs -------------------------
(***************************************************************************)
(* What AgentRuntimes keeps for every number of starts, teardowns and      *)
(* faults: the registry hands out no runtime whose credential is dead, a   *)
(* teardown retires what it took, and sandboxes do not fork the session.   *)
(***************************************************************************)
EXTENDS AgentRuntimes, TLAPS

Typed ==
    /\ live \in Starts \cup {None}
    /\ token \in [Starts -> {"none", "valid", "revoked"}]
    /\ child \in [Starts -> {"none", "starting", "alive", "exited"}]
    /\ container \in Starts \cup {None}
    /\ unrevoked \subseteq Starts /\ unremoved \subseteq Starts
    /\ start \in [Starts -> StartSteps]
    /\ teardown \in [Teardowns -> TeardownSteps]
    /\ held \in [Teardowns -> Starts \cup {None}]
    /\ \A t \in Teardowns : teardown[t] \in {"wait", "revoke"} => held[t] # None
    /\ pump \in [Starts -> PumpSteps]
    /\ ceiling \in [Starts -> CeilingSteps]
    /\ mishaps \in 0..MaxMishaps
Flags == exists \in BOOLEAN /\ up \in BOOLEAN

(* A start registers its runtime once: past that, it is never registered   *)
(* again and never spawned again.                                          *)
Past(s) == start[s] \notin Detached

(* A start that is at work holds a valid credential from mint to attach; a *)
(* restart leaves none at work and nothing registered.                     *)
Launching ==
    /\ \A s \in Starts :
         /\ start[s] \in {"prepare", "clear", "spawn", "attach"} => token[s] = "valid"
         /\ live = s => start[s] \in {"arm", "over", "dropped"} /\ token[s] # "none"
         /\ ~up => start[s] \in {"idle", "over"}
    /\ ~up => live = None

(* Whoever is going to retire a credential holds a runtime that has ended, *)
(* or one that is past its registration and no longer registered.          *)
Retiring ==
    /\ \A s \in Starts :
         /\ pump[s] # "off" \/ ceiling[s] # "off" => Past(s)
         /\ pump[s] \in {"revoke", "remove", "over"} => child[s] = "exited"
         /\ ceiling[s] \in {"wait", "container", "revoke", "over"} => live # s
    /\ \A t \in Teardowns :
         /\ teardown[t] \in {"idle", "detach"} => held[t] = None
         /\ held[t] # None => /\ Past(held[t]) /\ live # held[t]
                              /\ token[held[t]] # "none"

(* What a teardown took is retired step by step, or by the next restart.   *)
Retired ==
    \A t \in Teardowns : held[t] # None =>
      /\ teardown[t] \in {"revoke", "container", "rows"} => child[held[t]] = "exited"
      /\ teardown[t] = "over" => child[held[t]] # "starting"
      /\ up /\ teardown[t] \in {"container", "rows", "over"} =>
           token[held[t]] = "revoked" \/ held[t] \in unrevoked
      /\ up /\ teardown[t] \in {"rows", "over"} =>
           container # held[t] \/ held[t] \in unremoved

(* A running sandbox holds the session's container name.                   *)
Named == Sandboxed => \A s \in Starts : child[s] = "alive" => container = s

IInv == Typed /\ Launching /\ LiveIsPaid /\ Retiring

USE RuntimeAssumption
    DEF vars, runtimes, tasks, server, StartSteps, Detached, TeardownSteps,
        PumpSteps, CeilingSteps, Mishap, Fine, slips, Retire, LeaveValid, Revoke,
        MoveStart, MoveTeardown, MovePump, MoveCeiling, NameFreed, NameKept,
        RemoveContainer, Shutdown, Valid

-----------------------------------------------------------------------------
(* Types *)

LEMMA TypedStep ==
    ASSUME Typed, [Next]_vars PROVE Typed'
<1> USE DEF Typed
<1>1. ASSUME NEW s \in Starts, BeginStart(s) PROVE Typed'
  BY <1>1 DEF BeginStart
<1>2. ASSUME NEW s \in Starts, CheckLive(s) PROVE Typed'
  BY <1>2 DEF CheckLive
<1>3. ASSUME NEW s \in Starts, Mint(s) PROVE Typed'
  BY <1>3 DEF Mint
<1>4. ASSUME NEW s \in Starts, Prepare(s) PROVE Typed'
  BY <1>4 DEF Prepare
<1>5. ASSUME NEW s \in Starts, ClearName(s) PROVE Typed'
  BY <1>5 DEF ClearName
<1>6. ASSUME NEW s \in Starts, Spawn(s) PROVE Typed'
  BY <1>6 DEF Spawn
<1>7. ASSUME NEW s \in Starts, Attach(s) PROVE Typed'
  BY <1>7 DEF Attach
<1>8. ASSUME NEW s \in Starts, ArmCeiling(s) PROVE Typed'
  BY <1>8 DEF ArmCeiling
<1>9. ASSUME NEW s \in Starts, RevokeUnused(s) PROVE Typed'
  BY <1>9 DEF RevokeUnused
<1>10. ASSUME NEW s \in Starts, DropStart(s) PROVE Typed'
  BY <1>10 DEF DropStart
<1>11. ASSUME NEW s \in Starts, FramesEnd(s) PROVE Typed'
  BY <1>11 DEF FramesEnd
<1>12. ASSUME NEW s \in Starts, PumpRevokes(s) PROVE Typed'
  BY <1>12 DEF PumpRevokes
<1>13. ASSUME NEW s \in Starts, PumpRemoves(s) PROVE Typed'
  BY <1>13 DEF PumpRemoves
<1>14. ASSUME NEW s \in Starts, CeilingReached(s) PROVE Typed'
  BY <1>14 DEF CeilingReached
<1>15. ASSUME NEW s \in Starts, CeilingDetaches(s) PROVE Typed'
  BY <1>15 DEF CeilingDetaches
<1>16. ASSUME NEW s \in Starts, CeilingShutsDown(s) PROVE Typed'
  BY <1>16 DEF CeilingShutsDown
<1>17. ASSUME NEW s \in Starts, CeilingRemovesContainer(s) PROVE Typed'
  BY <1>17 DEF CeilingRemovesContainer
<1>18. ASSUME NEW s \in Starts, CeilingRevokes(s) PROVE Typed'
  BY <1>18 DEF CeilingRevokes
<1>19. ASSUME NEW s \in Starts, ContainerUp(s) PROVE Typed'
  BY <1>19 DEF ContainerUp
<1>20. ASSUME NEW s \in Starts, RuntimeQuits(s) PROVE Typed'
  BY <1>20 DEF RuntimeQuits
<1>21. ASSUME NEW t \in Teardowns, BeginTeardown(t) PROVE Typed'
  BY <1>21 DEF BeginTeardown
<1>22. ASSUME NEW t \in Teardowns, Detach(t) PROVE Typed'
  BY <1>22 DEF Detach
<1>23. ASSUME NEW t \in Teardowns, ShutDownHeld(t) PROVE Typed'
  BY <1>23 DEF ShutDownHeld
<1>24. ASSUME NEW t \in Teardowns, RevokeHeld(t) PROVE Typed'
  BY <1>24 DEF RevokeHeld
<1>25. ASSUME NEW t \in Teardowns, RemoveHeld(t) PROVE Typed'
  BY <1>25 DEF RemoveHeld
<1>26. ASSUME NEW t \in Teardowns, DeleteRows(t) PROVE Typed'
  BY <1>26 DEF DeleteRows
<1>27. CASE Crash
  BY <1>27 DEF Crash
<1>28. CASE BootServer
  BY <1>28 DEF BootServer
<1>29. CASE Over \/ UNCHANGED vars
  BY <1>29 DEF Over
<1>30. ASSUME NEW t \in Teardowns, DropTeardown(t) PROVE Typed'
  BY <1>30 DEF DropTeardown
<1>. QED
  BY ONLY [Next]_vars, <1>1, <1>2, <1>3, <1>4, <1>5, <1>6, <1>7, <1>8, <1>9, <1>10, <1>11, <1>12, <1>13, <1>14, <1>15, <1>16, <1>17, <1>18, <1>19, <1>20, <1>21, <1>22, <1>23, <1>24, <1>25, <1>26, <1>27, <1>28,
    <1>29, <1>30 DEF Next, StartStep, PumpStep, CeilingStep, TeardownStep

LEMMA FlagsStep ==
    ASSUME Flags, [Next]_vars PROVE Flags'
<1> USE DEF Flags
<1>1. ASSUME NEW s \in Starts, BeginStart(s) PROVE Flags'
  BY <1>1 DEF BeginStart
<1>2. ASSUME NEW s \in Starts, CheckLive(s) PROVE Flags'
  BY <1>2 DEF CheckLive
<1>3. ASSUME NEW s \in Starts, Mint(s) PROVE Flags'
  BY <1>3 DEF Mint
<1>4. ASSUME NEW s \in Starts, Prepare(s) PROVE Flags'
  BY <1>4 DEF Prepare
<1>5. ASSUME NEW s \in Starts, ClearName(s) PROVE Flags'
  BY <1>5 DEF ClearName
<1>6. ASSUME NEW s \in Starts, Spawn(s) PROVE Flags'
  BY <1>6 DEF Spawn
<1>7. ASSUME NEW s \in Starts, Attach(s) PROVE Flags'
  BY <1>7 DEF Attach
<1>8. ASSUME NEW s \in Starts, ArmCeiling(s) PROVE Flags'
  BY <1>8 DEF ArmCeiling
<1>9. ASSUME NEW s \in Starts, RevokeUnused(s) PROVE Flags'
  BY <1>9 DEF RevokeUnused
<1>10. ASSUME NEW s \in Starts, DropStart(s) PROVE Flags'
  BY <1>10 DEF DropStart
<1>11. ASSUME NEW s \in Starts, FramesEnd(s) PROVE Flags'
  BY <1>11 DEF FramesEnd
<1>12. ASSUME NEW s \in Starts, PumpRevokes(s) PROVE Flags'
  BY <1>12 DEF PumpRevokes
<1>13. ASSUME NEW s \in Starts, PumpRemoves(s) PROVE Flags'
  BY <1>13 DEF PumpRemoves
<1>14. ASSUME NEW s \in Starts, CeilingReached(s) PROVE Flags'
  BY <1>14 DEF CeilingReached
<1>15. ASSUME NEW s \in Starts, CeilingDetaches(s) PROVE Flags'
  BY <1>15 DEF CeilingDetaches
<1>16. ASSUME NEW s \in Starts, CeilingShutsDown(s) PROVE Flags'
  BY <1>16 DEF CeilingShutsDown
<1>17. ASSUME NEW s \in Starts, CeilingRemovesContainer(s) PROVE Flags'
  BY <1>17 DEF CeilingRemovesContainer
<1>18. ASSUME NEW s \in Starts, CeilingRevokes(s) PROVE Flags'
  BY <1>18 DEF CeilingRevokes
<1>19. ASSUME NEW s \in Starts, ContainerUp(s) PROVE Flags'
  BY <1>19 DEF ContainerUp
<1>20. ASSUME NEW s \in Starts, RuntimeQuits(s) PROVE Flags'
  BY <1>20 DEF RuntimeQuits
<1>21. ASSUME NEW t \in Teardowns, BeginTeardown(t) PROVE Flags'
  BY <1>21 DEF BeginTeardown
<1>22. ASSUME NEW t \in Teardowns, Detach(t) PROVE Flags'
  BY <1>22 DEF Detach
<1>23. ASSUME NEW t \in Teardowns, ShutDownHeld(t) PROVE Flags'
  BY <1>23 DEF ShutDownHeld
<1>24. ASSUME NEW t \in Teardowns, RevokeHeld(t) PROVE Flags'
  BY <1>24 DEF RevokeHeld
<1>25. ASSUME NEW t \in Teardowns, RemoveHeld(t) PROVE Flags'
  BY <1>25 DEF RemoveHeld
<1>26. ASSUME NEW t \in Teardowns, DeleteRows(t) PROVE Flags'
  BY <1>26 DEF DeleteRows
<1>27. CASE Crash
  BY <1>27 DEF Crash
<1>28. CASE BootServer
  BY <1>28 DEF BootServer
<1>29. CASE Over \/ UNCHANGED vars
  BY <1>29 DEF Over
<1>30. ASSUME NEW t \in Teardowns, DropTeardown(t) PROVE Flags'
  BY <1>30 DEF DropTeardown
<1>. QED
  BY ONLY [Next]_vars, <1>1, <1>2, <1>3, <1>4, <1>5, <1>6, <1>7, <1>8, <1>9, <1>10, <1>11, <1>12, <1>13, <1>14, <1>15, <1>16, <1>17, <1>18, <1>19, <1>20, <1>21, <1>22, <1>23, <1>24, <1>25, <1>26, <1>27, <1>28,
    <1>29, <1>30 DEF Next, StartStep, PumpStep, CeilingStep, TeardownStep

(* Every variable keeps its type, whatever the requests, the runtimes and  *)
(* the restarts do (agent_sessions, agent_tokens, SessionRegistry).        *)
THEOREM TypeCorrect == Spec => []TypeOK
<1>1. Init => Typed /\ Flags
  BY DEF Init, Typed, Flags
<1>2. Typed /\ Flags /\ [Next]_vars => (Typed /\ Flags)'
  BY TypedStep, FlagsStep
<1>3. Typed /\ Flags => TypeOK
  BY DEF Typed, Flags, TypeOK
<1>. QED
  BY <1>1, <1>2, <1>3, PTL DEF Spec

-----------------------------------------------------------------------------
(* The registry *)

LEMMA LaunchingStep ==
    ASSUME IInv, [Next]_vars PROVE Launching'
<1> USE DEF IInv, Typed, Launching, Retiring, Past
<1>1. ASSUME NEW s \in Starts, BeginStart(s) PROVE Launching'
  BY <1>1 DEF BeginStart
<1>2. ASSUME NEW s \in Starts, CheckLive(s) PROVE Launching'
  BY <1>2 DEF CheckLive
<1>3. ASSUME NEW s \in Starts, Mint(s) PROVE Launching'
  BY <1>3 DEF Mint
<1>4. ASSUME NEW s \in Starts, Prepare(s) PROVE Launching'
  BY <1>4 DEF Prepare
<1>5. ASSUME NEW s \in Starts, ClearName(s) PROVE Launching'
  BY <1>5 DEF ClearName
<1>6. ASSUME NEW s \in Starts, Spawn(s) PROVE Launching'
  BY <1>6 DEF Spawn
<1>7. ASSUME NEW s \in Starts, Attach(s) PROVE Launching'
  BY <1>7 DEF Attach
<1>8. ASSUME NEW s \in Starts, ArmCeiling(s) PROVE Launching'
  BY <1>8 DEF ArmCeiling
<1>9. ASSUME NEW s \in Starts, RevokeUnused(s) PROVE Launching'
  BY <1>9 DEF RevokeUnused
<1>10. ASSUME NEW s \in Starts, DropStart(s) PROVE Launching'
  BY <1>10 DEF DropStart
<1>11. ASSUME NEW s \in Starts, FramesEnd(s) PROVE Launching'
  BY <1>11 DEF FramesEnd
<1>12. ASSUME NEW s \in Starts, PumpRevokes(s) PROVE Launching'
  BY <1>12 DEF PumpRevokes
<1>13. ASSUME NEW s \in Starts, PumpRemoves(s) PROVE Launching'
  BY <1>13 DEF PumpRemoves
<1>14. ASSUME NEW s \in Starts, CeilingReached(s) PROVE Launching'
  BY <1>14 DEF CeilingReached
<1>15. ASSUME NEW s \in Starts, CeilingDetaches(s) PROVE Launching'
  BY <1>15 DEF CeilingDetaches
<1>16. ASSUME NEW s \in Starts, CeilingShutsDown(s) PROVE Launching'
  BY <1>16 DEF CeilingShutsDown
<1>17. ASSUME NEW s \in Starts, CeilingRemovesContainer(s) PROVE Launching'
  BY <1>17 DEF CeilingRemovesContainer
<1>18. ASSUME NEW s \in Starts, CeilingRevokes(s) PROVE Launching'
  BY <1>18 DEF CeilingRevokes
<1>19. ASSUME NEW s \in Starts, ContainerUp(s) PROVE Launching'
  BY <1>19 DEF ContainerUp
<1>20. ASSUME NEW s \in Starts, RuntimeQuits(s) PROVE Launching'
  BY <1>20 DEF RuntimeQuits
<1>21. ASSUME NEW t \in Teardowns, BeginTeardown(t) PROVE Launching'
  BY <1>21 DEF BeginTeardown
<1>22. ASSUME NEW t \in Teardowns, Detach(t) PROVE Launching'
  BY <1>22 DEF Detach
<1>23. ASSUME NEW t \in Teardowns, ShutDownHeld(t) PROVE Launching'
  BY <1>23 DEF ShutDownHeld
<1>24. ASSUME NEW t \in Teardowns, RevokeHeld(t) PROVE Launching'
  BY <1>24 DEF RevokeHeld
<1>25. ASSUME NEW t \in Teardowns, RemoveHeld(t) PROVE Launching'
  BY <1>25 DEF RemoveHeld
<1>26. ASSUME NEW t \in Teardowns, DeleteRows(t) PROVE Launching'
  BY <1>26 DEF DeleteRows
<1>27. CASE Crash
  BY <1>27 DEF Crash
<1>28. CASE BootServer
  BY <1>28 DEF BootServer
<1>29. CASE Over \/ UNCHANGED vars
  BY <1>29 DEF Over
<1>30. ASSUME NEW t \in Teardowns, DropTeardown(t) PROVE Launching'
  BY <1>30 DEF DropTeardown
<1>. QED
  BY ONLY [Next]_vars, <1>1, <1>2, <1>3, <1>4, <1>5, <1>6, <1>7, <1>8, <1>9, <1>10, <1>11, <1>12, <1>13, <1>14, <1>15, <1>16, <1>17, <1>18, <1>19, <1>20, <1>21, <1>22, <1>23, <1>24, <1>25, <1>26, <1>27, <1>28,
    <1>29, <1>30 DEF Next, StartStep, PumpStep, CeilingStep, TeardownStep

LEMMA PaidStep ==
    ASSUME IInv, [Next]_vars PROVE LiveIsPaid'
<1> USE DEF IInv, Typed, Launching, LiveIsPaid, Retiring, Past
<1>1. ASSUME NEW s \in Starts, BeginStart(s) PROVE LiveIsPaid'
  BY <1>1 DEF BeginStart
<1>2. ASSUME NEW s \in Starts, CheckLive(s) PROVE LiveIsPaid'
  BY <1>2 DEF CheckLive
<1>3. ASSUME NEW s \in Starts, Mint(s) PROVE LiveIsPaid'
  BY <1>3 DEF Mint
<1>4. ASSUME NEW s \in Starts, Prepare(s) PROVE LiveIsPaid'
  BY <1>4 DEF Prepare
<1>5. ASSUME NEW s \in Starts, ClearName(s) PROVE LiveIsPaid'
  BY <1>5 DEF ClearName
<1>6. ASSUME NEW s \in Starts, Spawn(s) PROVE LiveIsPaid'
  BY <1>6 DEF Spawn
<1>7. ASSUME NEW s \in Starts, Attach(s) PROVE LiveIsPaid'
  BY <1>7 DEF Attach
<1>8. ASSUME NEW s \in Starts, ArmCeiling(s) PROVE LiveIsPaid'
  BY <1>8 DEF ArmCeiling
<1>9. ASSUME NEW s \in Starts, RevokeUnused(s) PROVE LiveIsPaid'
  BY <1>9 DEF RevokeUnused
<1>10. ASSUME NEW s \in Starts, DropStart(s) PROVE LiveIsPaid'
  BY <1>10 DEF DropStart
<1>11. ASSUME NEW s \in Starts, FramesEnd(s) PROVE LiveIsPaid'
  BY <1>11 DEF FramesEnd
<1>12. ASSUME NEW s \in Starts, PumpRevokes(s) PROVE LiveIsPaid'
  BY <1>12 DEF PumpRevokes
<1>13. ASSUME NEW s \in Starts, PumpRemoves(s) PROVE LiveIsPaid'
  BY <1>13 DEF PumpRemoves
<1>14. ASSUME NEW s \in Starts, CeilingReached(s) PROVE LiveIsPaid'
  BY <1>14 DEF CeilingReached
<1>15. ASSUME NEW s \in Starts, CeilingDetaches(s) PROVE LiveIsPaid'
  BY <1>15 DEF CeilingDetaches
<1>16. ASSUME NEW s \in Starts, CeilingShutsDown(s) PROVE LiveIsPaid'
  BY <1>16 DEF CeilingShutsDown
<1>17. ASSUME NEW s \in Starts, CeilingRemovesContainer(s) PROVE LiveIsPaid'
  BY <1>17 DEF CeilingRemovesContainer
<1>18. ASSUME NEW s \in Starts, CeilingRevokes(s) PROVE LiveIsPaid'
  BY <1>18 DEF CeilingRevokes
<1>19. ASSUME NEW s \in Starts, ContainerUp(s) PROVE LiveIsPaid'
  BY <1>19 DEF ContainerUp
<1>20. ASSUME NEW s \in Starts, RuntimeQuits(s) PROVE LiveIsPaid'
  BY <1>20 DEF RuntimeQuits
<1>21. ASSUME NEW t \in Teardowns, BeginTeardown(t) PROVE LiveIsPaid'
  BY <1>21 DEF BeginTeardown
<1>22. ASSUME NEW t \in Teardowns, Detach(t) PROVE LiveIsPaid'
  BY <1>22 DEF Detach
<1>23. ASSUME NEW t \in Teardowns, ShutDownHeld(t) PROVE LiveIsPaid'
  BY <1>23 DEF ShutDownHeld
<1>24. ASSUME NEW t \in Teardowns, RevokeHeld(t) PROVE LiveIsPaid'
  BY <1>24 DEF RevokeHeld
<1>25. ASSUME NEW t \in Teardowns, RemoveHeld(t) PROVE LiveIsPaid'
  BY <1>25 DEF RemoveHeld
<1>26. ASSUME NEW t \in Teardowns, DeleteRows(t) PROVE LiveIsPaid'
  BY <1>26 DEF DeleteRows
<1>27. CASE Crash
  BY <1>27 DEF Crash
<1>28. CASE BootServer
  BY <1>28 DEF BootServer
<1>29. CASE Over \/ UNCHANGED vars
  BY <1>29 DEF Over
<1>30. ASSUME NEW t \in Teardowns, DropTeardown(t) PROVE LiveIsPaid'
  BY <1>30 DEF DropTeardown
<1>. QED
  BY ONLY [Next]_vars, <1>1, <1>2, <1>3, <1>4, <1>5, <1>6, <1>7, <1>8, <1>9, <1>10, <1>11, <1>12, <1>13, <1>14, <1>15, <1>16, <1>17, <1>18, <1>19, <1>20, <1>21, <1>22, <1>23, <1>24, <1>25, <1>26, <1>27, <1>28,
    <1>29, <1>30 DEF Next, StartStep, PumpStep, CeilingStep, TeardownStep

LEMMA RetiringStep ==
    ASSUME IInv, [Next]_vars PROVE Retiring'
<1> USE DEF IInv, Typed, Launching, Retiring, Past
<1>1. ASSUME NEW s \in Starts, BeginStart(s) PROVE Retiring'
  BY <1>1 DEF BeginStart
<1>2. ASSUME NEW s \in Starts, CheckLive(s) PROVE Retiring'
  BY <1>2 DEF CheckLive
<1>3. ASSUME NEW s \in Starts, Mint(s) PROVE Retiring'
  BY <1>3 DEF Mint
<1>4. ASSUME NEW s \in Starts, Prepare(s) PROVE Retiring'
  BY <1>4 DEF Prepare
<1>5. ASSUME NEW s \in Starts, ClearName(s) PROVE Retiring'
  BY <1>5 DEF ClearName
<1>6. ASSUME NEW s \in Starts, Spawn(s) PROVE Retiring'
  BY <1>6 DEF Spawn
<1>7. ASSUME NEW s \in Starts, Attach(s) PROVE Retiring'
  BY <1>7 DEF Attach
<1>8. ASSUME NEW s \in Starts, ArmCeiling(s) PROVE Retiring'
  BY <1>8 DEF ArmCeiling
<1>9. ASSUME NEW s \in Starts, RevokeUnused(s) PROVE Retiring'
  BY <1>9 DEF RevokeUnused
<1>10. ASSUME NEW s \in Starts, DropStart(s) PROVE Retiring'
  BY <1>10 DEF DropStart
<1>11. ASSUME NEW s \in Starts, FramesEnd(s) PROVE Retiring'
  BY <1>11 DEF FramesEnd
<1>12. ASSUME NEW s \in Starts, PumpRevokes(s) PROVE Retiring'
  BY <1>12 DEF PumpRevokes
<1>13. ASSUME NEW s \in Starts, PumpRemoves(s) PROVE Retiring'
  BY <1>13 DEF PumpRemoves
<1>14. ASSUME NEW s \in Starts, CeilingReached(s) PROVE Retiring'
  BY <1>14 DEF CeilingReached
<1>15. ASSUME NEW s \in Starts, CeilingDetaches(s) PROVE Retiring'
  BY <1>15 DEF CeilingDetaches
<1>16. ASSUME NEW s \in Starts, CeilingShutsDown(s) PROVE Retiring'
  BY <1>16 DEF CeilingShutsDown
<1>17. ASSUME NEW s \in Starts, CeilingRemovesContainer(s) PROVE Retiring'
  BY <1>17 DEF CeilingRemovesContainer
<1>18. ASSUME NEW s \in Starts, CeilingRevokes(s) PROVE Retiring'
  BY <1>18 DEF CeilingRevokes
<1>19. ASSUME NEW s \in Starts, ContainerUp(s) PROVE Retiring'
  BY <1>19 DEF ContainerUp
<1>20. ASSUME NEW s \in Starts, RuntimeQuits(s) PROVE Retiring'
  BY <1>20 DEF RuntimeQuits
<1>21. ASSUME NEW t \in Teardowns, BeginTeardown(t) PROVE Retiring'
  BY <1>21 DEF BeginTeardown
<1>22. ASSUME NEW t \in Teardowns, Detach(t) PROVE Retiring'
  BY <1>22 DEF Detach
<1>23. ASSUME NEW t \in Teardowns, ShutDownHeld(t) PROVE Retiring'
  BY <1>23 DEF ShutDownHeld
<1>24. ASSUME NEW t \in Teardowns, RevokeHeld(t) PROVE Retiring'
  BY <1>24 DEF RevokeHeld
<1>25. ASSUME NEW t \in Teardowns, RemoveHeld(t) PROVE Retiring'
  BY <1>25 DEF RemoveHeld
<1>26. ASSUME NEW t \in Teardowns, DeleteRows(t) PROVE Retiring'
  BY <1>26 DEF DeleteRows
<1>27. CASE Crash
  BY <1>27 DEF Crash
<1>28. CASE BootServer
  BY <1>28 DEF BootServer
<1>29. CASE Over \/ UNCHANGED vars
  BY <1>29 DEF Over
<1>30. ASSUME NEW t \in Teardowns, DropTeardown(t) PROVE Retiring'
  BY <1>30 DEF DropTeardown
<1>. QED
  BY ONLY [Next]_vars, <1>1, <1>2, <1>3, <1>4, <1>5, <1>6, <1>7, <1>8, <1>9, <1>10, <1>11, <1>12, <1>13, <1>14, <1>15, <1>16, <1>17, <1>18, <1>19, <1>20, <1>21, <1>22, <1>23, <1>24, <1>25, <1>26, <1>27, <1>28,
    <1>29, <1>30 DEF Next, StartStep, PumpStep, CeilingStep, TeardownStep

LEMMA Inductive == Spec => []IInv
<1>1. Init => IInv
  BY DEF Init, IInv, Typed, Launching, LiveIsPaid, Retiring
<1>2. IInv /\ [Next]_vars => IInv'
  BY TypedStep, LaunchingStep, PaidStep, RetiringStep DEF IInv
<1>. QED
  BY <1>1, <1>2, PTL DEF Spec

(* The registry hands out no working runtime whose credential is dead, on  *)
(* whatever schedule pumps, ceilings, teardowns and starts overlap         *)
(* (agent_session.rs 421, agent_api.rs 1350, 1386).                        *)
THEOREM RegisteredIsPaid == Spec => []LiveIsPaid
<1>1. IInv => LiveIsPaid
  BY DEF IInv
<1>. QED
  BY <1>1, Inductive, PTL

-----------------------------------------------------------------------------
(* Teardowns *)

LEMMA RetiredStep ==
    ASSUME IInv, Retired, [Next]_vars PROVE Retired'
<1> USE DEF IInv, Typed, Launching, Retiring, Retired, Past
<1>1. ASSUME NEW s \in Starts, BeginStart(s) PROVE Retired'
  BY <1>1 DEF BeginStart
<1>2. ASSUME NEW s \in Starts, CheckLive(s) PROVE Retired'
  BY <1>2 DEF CheckLive
<1>3. ASSUME NEW s \in Starts, Mint(s) PROVE Retired'
  BY <1>3 DEF Mint
<1>4. ASSUME NEW s \in Starts, Prepare(s) PROVE Retired'
  BY <1>4 DEF Prepare
<1>5. ASSUME NEW s \in Starts, ClearName(s) PROVE Retired'
  BY <1>5 DEF ClearName
<1>6. ASSUME NEW s \in Starts, Spawn(s) PROVE Retired'
  BY <1>6 DEF Spawn
<1>7. ASSUME NEW s \in Starts, Attach(s) PROVE Retired'
  BY <1>7 DEF Attach
<1>8. ASSUME NEW s \in Starts, ArmCeiling(s) PROVE Retired'
  BY <1>8 DEF ArmCeiling
<1>9. ASSUME NEW s \in Starts, RevokeUnused(s) PROVE Retired'
  BY <1>9 DEF RevokeUnused
<1>10. ASSUME NEW s \in Starts, DropStart(s) PROVE Retired'
  BY <1>10 DEF DropStart
<1>11. ASSUME NEW s \in Starts, FramesEnd(s) PROVE Retired'
  BY <1>11 DEF FramesEnd
<1>12. ASSUME NEW s \in Starts, PumpRevokes(s) PROVE Retired'
  BY <1>12 DEF PumpRevokes
<1>13. ASSUME NEW s \in Starts, PumpRemoves(s) PROVE Retired'
  BY <1>13 DEF PumpRemoves
<1>14. ASSUME NEW s \in Starts, CeilingReached(s) PROVE Retired'
  BY <1>14 DEF CeilingReached
<1>15. ASSUME NEW s \in Starts, CeilingDetaches(s) PROVE Retired'
  BY <1>15 DEF CeilingDetaches
<1>16. ASSUME NEW s \in Starts, CeilingShutsDown(s) PROVE Retired'
  BY <1>16 DEF CeilingShutsDown
<1>17. ASSUME NEW s \in Starts, CeilingRemovesContainer(s) PROVE Retired'
  BY <1>17 DEF CeilingRemovesContainer
<1>18. ASSUME NEW s \in Starts, CeilingRevokes(s) PROVE Retired'
  BY <1>18 DEF CeilingRevokes
<1>19. ASSUME NEW s \in Starts, ContainerUp(s) PROVE Retired'
  BY <1>19 DEF ContainerUp
<1>20. ASSUME NEW s \in Starts, RuntimeQuits(s) PROVE Retired'
  BY <1>20 DEF RuntimeQuits
<1>21. ASSUME NEW t \in Teardowns, BeginTeardown(t) PROVE Retired'
  BY <1>21 DEF BeginTeardown
<1>22. ASSUME NEW t \in Teardowns, Detach(t) PROVE Retired'
  BY <1>22 DEF Detach
<1>23. ASSUME NEW t \in Teardowns, ShutDownHeld(t) PROVE Retired'
  BY <1>23 DEF ShutDownHeld
<1>24. ASSUME NEW t \in Teardowns, RevokeHeld(t) PROVE Retired'
  BY <1>24 DEF RevokeHeld
<1>25. ASSUME NEW t \in Teardowns, RemoveHeld(t) PROVE Retired'
  BY <1>25 DEF RemoveHeld
<1>26. ASSUME NEW t \in Teardowns, DeleteRows(t) PROVE Retired'
  BY <1>26 DEF DeleteRows
<1>27. CASE Crash
  BY <1>27 DEF Crash
<1>28. CASE BootServer
  BY <1>28 DEF BootServer
<1>29. CASE Over \/ UNCHANGED vars
  BY <1>29 DEF Over
<1>30. ASSUME NEW t \in Teardowns, DropTeardown(t) PROVE Retired'
  BY <1>30 DEF DropTeardown
<1>. QED
  BY ONLY [Next]_vars, <1>1, <1>2, <1>3, <1>4, <1>5, <1>6, <1>7, <1>8, <1>9, <1>10, <1>11, <1>12, <1>13, <1>14, <1>15, <1>16, <1>17, <1>18, <1>19, <1>20, <1>21, <1>22, <1>23, <1>24, <1>25, <1>26, <1>27, <1>28,
    <1>29, <1>30 DEF Next, StartStep, PumpStep, CeilingStep, TeardownStep

(* A finished stop or delete has retired the credential and the container  *)
(* of the runtime it found registered (teardown_runtime, agent_api.rs      *)
(* 1380), even if the server restarted in the middle of it; only what an   *)
(* UPDATE or docker itself failed to retire is left.                       *)
THEOREM TeardownRetires == Spec => []StopRetires
<1>1. Init => Retired
  BY DEF Init, Retired
<1>2. IInv /\ Retired /\ [Next]_vars => Retired'
  BY RetiredStep
<1>3. Retired => StopRetires
  BY DEF Retired, StopRetires
<1>. QED
  BY <1>1, <1>2, <1>3, Inductive, PTL DEF Spec

-----------------------------------------------------------------------------
(* Sandboxes *)

LEMMA NamedStep ==
    ASSUME Typed, Named, [Next]_vars PROVE Named'
<1> USE DEF Typed, Named
<1>1. ASSUME NEW s \in Starts, BeginStart(s) PROVE Named'
  BY <1>1 DEF BeginStart
<1>2. ASSUME NEW s \in Starts, CheckLive(s) PROVE Named'
  BY <1>2 DEF CheckLive
<1>3. ASSUME NEW s \in Starts, Mint(s) PROVE Named'
  BY <1>3 DEF Mint
<1>4. ASSUME NEW s \in Starts, Prepare(s) PROVE Named'
  BY <1>4 DEF Prepare
<1>5. ASSUME NEW s \in Starts, ClearName(s) PROVE Named'
  BY <1>5 DEF ClearName
<1>6. ASSUME NEW s \in Starts, Spawn(s) PROVE Named'
  BY <1>6 DEF Spawn
<1>7. ASSUME NEW s \in Starts, Attach(s) PROVE Named'
  BY <1>7 DEF Attach
<1>8. ASSUME NEW s \in Starts, ArmCeiling(s) PROVE Named'
  BY <1>8 DEF ArmCeiling
<1>9. ASSUME NEW s \in Starts, RevokeUnused(s) PROVE Named'
  BY <1>9 DEF RevokeUnused
<1>10. ASSUME NEW s \in Starts, DropStart(s) PROVE Named'
  BY <1>10 DEF DropStart
<1>11. ASSUME NEW s \in Starts, FramesEnd(s) PROVE Named'
  BY <1>11 DEF FramesEnd
<1>12. ASSUME NEW s \in Starts, PumpRevokes(s) PROVE Named'
  BY <1>12 DEF PumpRevokes
<1>13. ASSUME NEW s \in Starts, PumpRemoves(s) PROVE Named'
  BY <1>13 DEF PumpRemoves
<1>14. ASSUME NEW s \in Starts, CeilingReached(s) PROVE Named'
  BY <1>14 DEF CeilingReached
<1>15. ASSUME NEW s \in Starts, CeilingDetaches(s) PROVE Named'
  BY <1>15 DEF CeilingDetaches
<1>16. ASSUME NEW s \in Starts, CeilingShutsDown(s) PROVE Named'
  BY <1>16 DEF CeilingShutsDown
<1>17. ASSUME NEW s \in Starts, CeilingRemovesContainer(s) PROVE Named'
  BY <1>17 DEF CeilingRemovesContainer
<1>18. ASSUME NEW s \in Starts, CeilingRevokes(s) PROVE Named'
  BY <1>18 DEF CeilingRevokes
<1>19. ASSUME NEW s \in Starts, ContainerUp(s) PROVE Named'
  BY <1>19 DEF ContainerUp
<1>20. ASSUME NEW s \in Starts, RuntimeQuits(s) PROVE Named'
  BY <1>20 DEF RuntimeQuits
<1>21. ASSUME NEW t \in Teardowns, BeginTeardown(t) PROVE Named'
  BY <1>21 DEF BeginTeardown
<1>22. ASSUME NEW t \in Teardowns, Detach(t) PROVE Named'
  BY <1>22 DEF Detach
<1>23. ASSUME NEW t \in Teardowns, ShutDownHeld(t) PROVE Named'
  BY <1>23 DEF ShutDownHeld
<1>24. ASSUME NEW t \in Teardowns, RevokeHeld(t) PROVE Named'
  BY <1>24 DEF RevokeHeld
<1>25. ASSUME NEW t \in Teardowns, RemoveHeld(t) PROVE Named'
  BY <1>25 DEF RemoveHeld
<1>26. ASSUME NEW t \in Teardowns, DeleteRows(t) PROVE Named'
  BY <1>26 DEF DeleteRows
<1>27. CASE Crash
  BY <1>27 DEF Crash
<1>28. CASE BootServer
  BY <1>28 DEF BootServer
<1>29. CASE Over \/ UNCHANGED vars
  BY <1>29 DEF Over
<1>30. ASSUME NEW t \in Teardowns, DropTeardown(t) PROVE Named'
  BY <1>30 DEF DropTeardown
<1>. QED
  BY ONLY [Next]_vars, <1>1, <1>2, <1>3, <1>4, <1>5, <1>6, <1>7, <1>8, <1>9, <1>10, <1>11, <1>12, <1>13, <1>14, <1>15, <1>16, <1>17, <1>18, <1>19, <1>20, <1>21, <1>22, <1>23, <1>24, <1>25, <1>26, <1>27, <1>28,
    <1>29, <1>30 DEF Next, StartStep, PumpStep, CeilingStep, TeardownStep

(* However many starts pass the check at agent_api.rs 1069 together, at    *)
(* most one sandbox of the session runs, since they share a name.          *)
THEOREM OneSandbox == Spec => []NoFork
<1>1. Init => Typed /\ Named
  BY DEF Init, Typed, Named
<1>2. Typed /\ Named /\ [Next]_vars => (Typed /\ Named)'
  BY TypedStep, NamedStep
<1>3. Typed /\ Named => NoFork
  BY DEF Typed, Named, NoFork
<1>. QED
  BY <1>1, <1>2, <1>3, PTL DEF Spec
==============================================================================
