------------------------- MODULE WorkflowRunsProofs -------------------------
(***************************************************************************)
(* For every graph, any number of drivers and any faults: a node is started*)
(* once each time it waits and results stand; and for runs that are created*)
(* undisturbed and not retried, nothing runs ahead of its inputs, a cancel *)
(* stops what it finds, and what is reported of the run and its nodes is so*)
(***************************************************************************)
EXTENDS WorkflowRuns, TLAPS

TypedRows ==
    /\ run \in RunStatus
    /\ node \in [Nodes -> NodeStatus]
    /\ job \in [Nodes -> Attempts \cup {None}]
    /\ child \in [Attempts -> {"none", "working", "done", "failed"}]
    /\ deleted \subseteq Attempts
    /\ exec \in [Attempts -> ExecSteps]
    /\ tries \in [Nodes -> Nat]
    /\ requeued \in [Nodes -> Nat]

TypedTasks ==
    /\ pc \in [Actors -> DriverSteps]
    /\ create \in {"idle", "insert", "cleanup", "spawn", "over"}
    /\ cancel \in {"idle", "nodes", "over"}
    /\ retry \in {"idle", "reset", "reopen", "spawn"}
    /\ resetting \subseteq Nodes
    /\ mishaps \in 0..MaxMishaps

(* What a driver holds at each of its positions.                           *)
TypedLocals ==
    /\ todo \in [Actors -> SUBSET (Attempts \cup (Nodes \X {"block", "claim"}))]
    /\ found \in [Actors -> ((Nodes \cup {None}) \X Results) \cup {NoRow}]
    /\ \A d \in Actors :
         /\ pc[d] \in {"sync", "record"} => todo[d] \subseteq Attempts
         /\ pc[d] = "plan" => todo[d] \subseteq Nodes \X {"block", "claim"}
         /\ pc[d] \notin {"sync", "record", "plan"} => todo[d] = {}
         /\ pc[d] = "record" => found[d] \in Nodes \X Results
         /\ pc[d] = "finish" => found[d] \in {None} \X Results

(* A node that waits has been put back as often as it was started before.  *)
Claims ==
    \A n \in Nodes :
        /\ tries[n] <= 1 + requeued[n]
        /\ node[n] = "waiting" => tries[n] <= requeued[n]
        /\ node[n] = "none" /\ create \in {"idle", "insert"} => tries[n] <= requeued[n]

(* A node is put back by a retry, which counts, or once per crash.         *)
Bounded ==
    /\ \A n \in Nodes :
         /\ requeued[n] <= MaxRetries + mishaps
         /\ ~up => requeued[n] < MaxRetries + mishaps
    /\ \A n \in resetting : requeued[n] < MaxRetries
    /\ ~up => resetting = {}

Flag == up \in BOOLEAN

Typed == TypedRows /\ TypedTasks /\ TypedLocals
IInv == Typed /\ Claims

USE WorkflowAssumption DEF rows, attempts, driving, handlers, server, vars,
    Mishap, DbFails, Fine, SetNode, SetExec, Goto, Return, NextRow, Take,
    Actors, Active, Bad, Over, Results, NodeStatus, RunStatus, ExecSteps,
    DriverSteps, NoRow, Rows

-----------------------------------------------------------------------------
(* Types *)

LEMMA RowsDriver ==
    ASSUME Typed, NEW d \in Actors, DriverStep(d) PROVE TypedRows'
<1> USE DEF Typed, TypedRows, TypedTasks, TypedLocals
<1>1. CASE LoadRun(d)
  BY <1>1 DEF LoadRun
<1>2. CASE FetchNodes(d)
  BY <1>2 DEF FetchNodes
<1>3. CASE ReadChild(d)
  BY <1>3 DEF ReadChild
<1>4. CASE RecordResult(d)
  BY <1>4 DEF RecordResult, SetResult
<1>5. CASE PlanNodes(d)
  BY <1>5 DEF PlanNodes
<1>6. CASE BlockNode(d)
  BY <1>6 DEF BlockNode
<1>7. CASE ClaimNode(d)
  BY <1>7, SMTT(20) DEF ClaimNode, Start
<1>8. CASE EndPlan(d)
  BY <1>8 DEF EndPlan
<1>9. CASE JudgeRun(d)
  BY <1>9 DEF JudgeRun
<1>10. CASE FinishRun(d)
  BY <1>10 DEF FinishRun
<1>11. CASE LookAgain(d)
  BY <1>11 DEF LookAgain
<1> QED BY ONLY DriverStep(d), <1>1, <1>2, <1>3, <1>4, <1>5, <1>6, <1>7, <1>8, <1>9,
       <1>10, <1>11 DEF DriverStep

LEMMA TasksDriver ==
    ASSUME Typed, NEW d \in Actors, DriverStep(d) PROVE TypedTasks'
<1> USE DEF Typed, TypedTasks
<1>1. pc' \in [Actors -> DriverSteps]
  BY DEF DriverStep, LoadRun, FetchNodes, ReadChild, RecordResult, PlanNodes,
     BlockNode, ClaimNode, EndPlan, JudgeRun, FinishRun, LookAgain
<1>2. mishaps' \in 0..MaxMishaps
  <2>1. Fine \/ DbFails
    BY Zenon DEF DriverStep, LoadRun, FetchNodes, ReadChild, RecordResult,
       PlanNodes, BlockNode, ClaimNode, EndPlan, JudgeRun, FinishRun, LookAgain,
       SetResult
  <2> QED BY <2>1
<1>3. UNCHANGED handlers
  BY DEF DriverStep, LoadRun, FetchNodes, ReadChild, RecordResult, PlanNodes,
     BlockNode, ClaimNode, EndPlan, JudgeRun, FinishRun, LookAgain
<1> QED BY ONLY <1>1, <1>2, <1>3, Typed DEF Typed, TypedTasks, handlers

LEMMA LocalsDriver ==
    ASSUME Typed, NEW d \in Actors, DriverStep(d) PROVE TypedLocals'
<1> USE DEF Typed, TypedTasks, TypedLocals
<1>1. CASE LoadRun(d)
  BY <1>1 DEF LoadRun
<1>2. CASE FetchNodes(d)
  BY <1>2 DEF FetchNodes, TypedRows
<1>3. CASE ReadChild(d)
  BY <1>3 DEF ReadChild, Attempts
<1>4. CASE RecordResult(d)
  BY <1>4 DEF RecordResult
<1>5. CASE PlanNodes(d)
  BY <1>5 DEF PlanNodes
<1>6. CASE BlockNode(d)
  BY <1>6 DEF BlockNode
<1>7. CASE ClaimNode(d)
  BY <1>7 DEF ClaimNode
<1>8. CASE EndPlan(d)
  BY <1>8 DEF EndPlan
<1>9. CASE JudgeRun(d)
  BY <1>9 DEF JudgeRun
<1>10. CASE FinishRun(d)
  BY <1>10 DEF FinishRun
<1>11. CASE LookAgain(d)
  BY <1>11 DEF LookAgain
<1> QED BY ONLY DriverStep(d), <1>1, <1>2, <1>3, <1>4, <1>5, <1>6, <1>7, <1>8, <1>9,
       <1>10, <1>11 DEF DriverStep

LEMMA TypedExec ==
    ASSUME Typed, NEW a \in Attempts, ExecStep(a) \/ ChildEnds(a) \/ DeleteChild(a) PROVE Typed'
<1> USE DEF Typed, TypedRows, TypedTasks, TypedLocals
<1>0. a[1] \in Nodes
  BY DEF Attempts
<1>1. CASE SubmitChild(a)
  BY <1>1 DEF SubmitChild
<1>2. CASE MarkRunning(a)
  BY <1>0, <1>2 DEF MarkRunning
<1>3. CASE AcquireSlot(a)
  BY <1>3 DEF AcquireSlot
<1>4. CASE ProcessMedia(a)
  BY <1>4 DEF ProcessMedia
<1>5. CASE EndExecution(a)
  BY <1>0, <1>5 DEF EndExecution, SetResult
<1>6. CASE ChildEnds(a)
  BY <1>6 DEF ChildEnds, DeleteChild
<1>7. CASE DeleteChild(a)
  BY <1>7 DEF DeleteChild
<1> QED BY ONLY ExecStep(a) \/ ChildEnds(a) \/ DeleteChild(a), <1>1, <1>2, <1>3,
       <1>4, <1>5, <1>6, <1>7
       DEF ExecStep

LEMMA TypedHandlers ==
    ASSUME Typed,
           \/ InsertRun \/ InsertNode \/ CleanUp \/ SpawnDriver \/ SweepRuns
           \/ CancelRun \/ CancelNodes \/ ResetNode \/ ReopenRun
    PROVE  Typed'
<1> USE DEF Typed, TypedRows, TypedTasks, TypedLocals
<1>1. CASE InsertRun
  BY <1>1 DEF InsertRun
<1>2. CASE InsertNode
  BY <1>2 DEF InsertNode
<1>3. CASE CleanUp
  BY <1>3 DEF CleanUp
<1>4. CASE SpawnDriver
  BY <1>4 DEF SpawnDriver
<1>5. CASE SweepRuns
  BY <1>5 DEF SweepRuns
<1>6. CASE CancelRun
  BY <1>6 DEF CancelRun
<1>7. CASE CancelNodes
  BY <1>7 DEF CancelNodes
<1>8. CASE ResetNode
  BY <1>8 DEF ResetNode
<1>9. CASE ReopenRun
  BY <1>9 DEF ReopenRun
<1> QED BY ONLY <1>1, <1>2, <1>3, <1>4, <1>5, <1>6, <1>7, <1>8, <1>9,
      \/ InsertRun \/ InsertNode \/ CleanUp \/ SpawnDriver \/ SweepRuns
      \/ CancelRun \/ CancelNodes \/ ResetNode \/ ReopenRun

LEMMA TypedRestart ==
    ASSUME Typed, Crash \/ Recover \/ \E n \in Nodes : RetryNode(n) PROVE Typed'
<1> USE DEF Typed, TypedRows, TypedTasks, TypedLocals
<1>1. CASE Crash
  BY <1>1 DEF Crash
<1>2. CASE Recover
  <2>1. TypedRows'
    BY <1>2 DEF Recover, Requeue, Interrupted
  <2>2. TypedTasks' /\ TypedLocals'
    BY <1>2 DEF Recover
  <2> QED BY <2>1, <2>2
<1>3. ASSUME NEW n \in Nodes, RetryNode(n) PROVE Typed'
  BY <1>3 DEF RetryNode, Downstream
<1> QED BY <1>1, <1>2, <1>3

LEMMA TypedNext == ASSUME Typed, [Next]_vars PROVE Typed'
<1>1. CASE UNCHANGED vars
  BY <1>1 DEF Typed, TypedRows, TypedTasks, TypedLocals
<1>2. ASSUME NEW d \in Actors, DriverStep(d) PROVE Typed'
  BY ONLY Typed, <1>2, RowsDriver, TasksDriver, LocalsDriver DEF Typed
<1> QED BY ONLY Typed, [Next]_vars, <1>1, <1>2, TypedExec, TypedHandlers,
       TypedRestart DEF Next

LEMMA TypedInit == Init => Typed
BY DEF Init, Typed, TypedRows, TypedTasks, TypedLocals

-----------------------------------------------------------------------------
(* A node is started once each time it waits                               *)

LEMMA ClaimsNext == ASSUME Typed, Claims, [Next]_vars PROVE Claims'
<1> USE DEF Claims
<1>1. CASE UNCHANGED vars
  BY <1>1
<1>2. ASSUME NEW d \in Actors, DriverStep(d) PROVE Claims'
  <2> USE DEF Typed, TypedRows, TypedLocals
  <2>1. CASE LoadRun(d) \/ FetchNodes(d) \/ ReadChild(d) \/ PlanNodes(d)
             \/ EndPlan(d) \/ JudgeRun(d) \/ FinishRun(d) \/ LookAgain(d)
    BY <2>1 DEF LoadRun, FetchNodes, ReadChild, PlanNodes, EndPlan, JudgeRun,
       FinishRun, LookAgain
  <2>2. CASE RecordResult(d)
    BY <2>2 DEF RecordResult, SetResult
  <2>3. CASE BlockNode(d)
    BY <2>3 DEF BlockNode
  <2>4. CASE ClaimNode(d)
    BY <2>4 DEF ClaimNode, Start
  <2> QED BY ONLY <1>2, <2>1, <2>2, <2>3, <2>4 DEF DriverStep
<1>3. ASSUME NEW a \in Attempts, ExecStep(a) \/ ChildEnds(a) \/ DeleteChild(a) PROVE Claims'
  <2> USE DEF Typed, TypedRows
  <2>0. a[1] \in Nodes
    BY DEF Attempts
  <2>1. CASE SubmitChild(a) \/ AcquireSlot(a) \/ ProcessMedia(a)
             \/ ChildEnds(a) \/ DeleteChild(a)
    BY <2>1 DEF SubmitChild, AcquireSlot, ProcessMedia, ChildEnds, DeleteChild
  <2>2. CASE MarkRunning(a)
    BY <2>0, <2>2 DEF MarkRunning
  <2>3. CASE EndExecution(a)
    BY <2>0, <2>3 DEF EndExecution, SetResult
  <2> QED BY ONLY <1>3, <2>1, <2>2, <2>3 DEF ExecStep
<1>4. CASE InsertRun \/ SpawnDriver \/ SweepRuns \/ CancelRun \/ ReopenRun
  BY <1>4 DEF InsertRun, SpawnDriver, SweepRuns, CancelRun, ReopenRun
<1>5. CASE InsertNode
  BY <1>5 DEF InsertNode, Typed, TypedRows
<1>6. CASE CleanUp
  BY <1>6 DEF CleanUp, Typed, TypedRows
<1>7. CASE CancelNodes
  BY <1>7 DEF CancelNodes, Typed, TypedRows
<1>8. CASE ResetNode
  BY <1>8 DEF ResetNode, Typed, TypedRows, TypedTasks
<1>9. CASE \E n \in Nodes : RetryNode(n)
  BY <1>9 DEF RetryNode
<1>10. CASE Crash
  BY <1>10 DEF Crash
<1>11. CASE Recover
  BY <1>11 DEF Recover, Requeue, Interrupted, Typed, TypedRows
<1> QED BY ONLY [Next]_vars, <1>1, <1>2, <1>3, <1>4, <1>5, <1>6, <1>7, <1>8,
       <1>9, <1>10, <1>11 DEF Next

LEMMA Inductive == Spec => []IInv
<1>1. Init => IInv
  BY TypedInit DEF Init, Claims, IInv
<1>2. IInv /\ [Next]_vars => IInv'
  BY ONLY TypedNext, ClaimsNext DEF IInv
<1> QED BY <1>1, <1>2, PTL DEF Spec

(* However many drivers race for a node, in whatever graph: it is started  *)
(* at most once more than it was put back (drive_run_once's claim).        *)
THEOREM StartedOnce == Spec => []ClaimedOnce
<1>1. IInv => ClaimedOnce
  BY DEF IInv, Claims, ClaimedOnce
<1> QED BY <1>1, Inductive, PTL

-----------------------------------------------------------------------------
(* Results stand                                                           *)

LEMMA StandNext ==
    ASSUME Typed, [Next]_vars, NEW n \in Nodes,
           node[n] \in Results, node'[n] # node[n]
    PROVE  \/ retry = "reset" /\ node'[n] = "waiting"
           \/ run' = "deleted"
<1> USE DEF Typed, TypedRows
<1>1. CASE UNCHANGED vars
  BY <1>1
<1>2. ASSUME NEW d \in Actors, DriverStep(d) PROVE node'[n] = node[n]
  BY <1>2 DEF DriverStep, LoadRun, FetchNodes, ReadChild, RecordResult,
     SetResult, PlanNodes, BlockNode, ClaimNode, Start, EndPlan, JudgeRun,
     FinishRun, LookAgain
<1>3. ASSUME NEW a \in Attempts, ExecStep(a) \/ ChildEnds(a) \/ DeleteChild(a)
      PROVE  node'[n] = node[n]
  BY <1>3 DEF ExecStep, ChildEnds, DeleteChild, SubmitChild, MarkRunning, AcquireSlot,
     ProcessMedia, EndExecution, SetResult
<1>4. CASE \/ InsertRun \/ SpawnDriver \/ SweepRuns \/ CancelRun \/ ReopenRun
           \/ Crash \/ \E m \in Nodes : RetryNode(m)
  BY <1>4 DEF InsertRun, SpawnDriver, SweepRuns, CancelRun, ReopenRun, Crash,
     RetryNode
<1>5. CASE InsertNode \/ CancelNodes \/ Recover
  BY <1>5 DEF InsertNode, CancelNodes, Recover, Requeue, Interrupted
<1>6. CASE CleanUp
  BY <1>6 DEF CleanUp
<1>7. CASE ResetNode
  BY <1>7 DEF ResetNode
<1> QED BY ONLY [Next]_vars, node'[n] # node[n], <1>1, <1>2, <1>3, <1>4, <1>5,
       <1>6, <1>7 DEF Next

(* Whatever arrives late - an executor, a driver with an old snapshot, a   *)
(* cancel, a restart - a completed or failed node keeps its result until   *)
(* retry_node resets it.                                                   *)
THEOREM Stand == Spec => ResultsStand
<1>1. IInv /\ [Next]_vars =>
        [\A n \in Nodes :
           node[n] \in Results /\ node'[n] # node[n]
             => \/ retry = "reset" /\ node'[n] = "waiting"
                \/ run' = "deleted"]_vars
  BY ONLY StandNext DEF IInv, Results
<1> QED BY <1>1, Inductive, PTL DEF Spec, ResultsStand

-----------------------------------------------------------------------------
(* The bounds of TypeOK                                                    *)

LEMMA BoundedNext == ASSUME Typed, Bounded, [Next]_vars PROVE Bounded'
<1> USE DEF Bounded, Typed, TypedTasks
<1>1. CASE UNCHANGED vars
  BY <1>1
<1>2. ASSUME NEW d \in Actors, DriverStep(d) PROVE Bounded'
  <2>1. UNCHANGED <<requeued, resetting, up>>
    BY <1>2 DEF DriverStep, LoadRun, FetchNodes, ReadChild, RecordResult,
       PlanNodes, BlockNode, ClaimNode, EndPlan, JudgeRun, FinishRun, LookAgain
  <2>2. Fine \/ DbFails
    BY Zenon, <1>2 DEF DriverStep, LoadRun, FetchNodes, ReadChild, RecordResult,
       SetResult, PlanNodes, BlockNode, ClaimNode, EndPlan, JudgeRun, FinishRun,
       LookAgain
  <2> QED BY <2>1, <2>2 DEF TypedRows
<1>3. ASSUME NEW a \in Attempts, ExecStep(a) \/ ChildEnds(a) \/ DeleteChild(a) PROVE Bounded'
  <2>1. UNCHANGED <<requeued, resetting, up>>
    BY <1>3 DEF ExecStep, ChildEnds, DeleteChild, SubmitChild, MarkRunning, AcquireSlot,
       ProcessMedia, EndExecution
  <2>2. Fine \/ DbFails
    BY <1>3 DEF ExecStep, ChildEnds, DeleteChild, SubmitChild, MarkRunning, AcquireSlot,
       ProcessMedia, EndExecution, SetResult
  <2> QED BY <2>1, <2>2 DEF TypedRows
<1>4. CASE InsertRun \/ SpawnDriver \/ SweepRuns
  BY <1>4 DEF InsertRun, SpawnDriver, SweepRuns
<1>5. CASE InsertNode \/ CleanUp \/ CancelRun \/ CancelNodes \/ ReopenRun
  BY <1>5 DEF InsertNode, CleanUp, CancelRun, CancelNodes, ReopenRun, TypedRows
<1>6. CASE ResetNode
  BY <1>6 DEF ResetNode, TypedRows
<1>7. CASE \E n \in Nodes : RetryNode(n)
  BY <1>7 DEF RetryNode, Downstream
<1>8. CASE Crash
  BY <1>8 DEF Crash, TypedRows
<1>9. CASE Recover
  BY <1>9 DEF Recover, TypedRows
<1> QED BY ONLY [Next]_vars, <1>1, <1>2, <1>3, <1>4, <1>5, <1>6, <1>7, <1>8,
       <1>9 DEF Next

(* Every variable keeps its type, and a node is put back and started no    *)
(* oftener than retries and restarts account for.                          *)
THEOREM TypeCorrect == Spec => []TypeOK
<1>1. Init => Bounded /\ Flag
  BY DEF Init, Bounded, Flag
<1>2. IInv /\ Bounded /\ [Next]_vars => Bounded'
  BY ONLY BoundedNext DEF IInv
<1>3. Flag /\ [Next]_vars => Flag'
  BY Zenon DEF Flag, Next, InsertRun, InsertNode, CleanUp, SpawnDriver, SweepRuns,
     DriverStep, LoadRun, FetchNodes, ReadChild, RecordResult, PlanNodes,
     BlockNode, ClaimNode, EndPlan, JudgeRun, FinishRun, LookAgain, ExecStep,
     SubmitChild, MarkRunning, AcquireSlot, ProcessMedia, EndExecution,
     ChildEnds, DeleteChild, CancelRun, CancelNodes, RetryNode, ResetNode, ReopenRun, Crash,
     Recover
<1>4. IInv /\ Bounded /\ Flag => TypeOK
  <2> SUFFICES ASSUME IInv, Bounded, Flag PROVE TypeOK
    OBVIOUS
  <2>1. /\ requeued \in [Nodes -> 0..MaxRetries + MaxMishaps]
        /\ tries \in [Nodes -> 0..MaxTries]
    BY DEF IInv, Typed, TypedRows, TypedTasks, Claims, Bounded, MaxTries
  <2>2. \A d \in Actors :
         /\ todo[d] \subseteq (IF pc[d] \in {"sync", "record"} THEN Attempts
                               ELSE Nodes \X {"block", "claim"})
         /\ found[d] \in ((Nodes \cup {None}) \X Results) \cup {NoRow}
    BY DEF IInv, Typed, TypedTasks, TypedLocals
  <2> QED BY <2>1, <2>2 DEF IInv, Typed, TypedRows, TypedTasks, Flag, TypeOK
<1> QED BY <1>1, <1>2, <1>3, <1>4, Inductive, PTL DEF Spec

-----------------------------------------------------------------------------
(* Nothing runs ahead of its inputs                                        *)

(* A run whose rows are all there before anyone looks, and no retries.     *)
Undisturbed == Early = FALSE /\ "db" \notin Faults /\ "retry" \notin Requests

(* The rows come first, and what a driver means to start can start.        *)
Ordered ==
    /\ retry = "idle"
    /\ create # "cleanup"
    /\ create # "over" => cancel # "nodes" /\ \A d \in Actors : pc[d] = "off"
    /\ create \in {"idle", "insert"} => \A n \in Nodes : node[n] \in {"none", "waiting"}
    /\ create \in {"spawn", "over"} => \A n \in Nodes : node[n] # "none"
    /\ \A d \in Actors, n \in Nodes :
         pc[d] = "plan" /\ <<n, "claim">> \in todo[d]
           => \A p \in Preds(n) : node[p] = "completed"

LEMMA OrderedNext ==
    ASSUME Undisturbed, Typed, Ordered, NothingRunsAhead, [Next]_vars
    PROVE  Ordered' /\ NothingRunsAhead'
<1> USE DEF Undisturbed, Typed, TypedRows, Ordered, NothingRunsAhead, Preds
<1>1. CASE UNCHANGED vars
  BY <1>1
<1>2. ASSUME NEW d \in Actors, DriverStep(d)
      PROVE  Ordered' /\ NothingRunsAhead'
  <2>0. create = "over" /\ \A n \in Nodes : node[n] # "none"
    BY <1>2 DEF DriverStep, LoadRun, FetchNodes, ReadChild, RecordResult,
       PlanNodes, BlockNode, ClaimNode, EndPlan, JudgeRun, FinishRun, LookAgain,
       TypedTasks
  <2> USE DEF TypedTasks, TypedLocals
  <2>1. CASE LoadRun(d) \/ FetchNodes(d) \/ ReadChild(d)
             \/ EndPlan(d) \/ JudgeRun(d) \/ FinishRun(d) \/ LookAgain(d)
    BY <2>0, <2>1 DEF LoadRun, FetchNodes, ReadChild, EndPlan, JudgeRun,
       FinishRun, LookAgain
  <2>2. CASE RecordResult(d)
    BY <2>0, <2>2 DEF RecordResult, SetResult
  <2>3. CASE PlanNodes(d)
    BY <2>0, <2>3 DEF PlanNodes, Ready
  <2>4. CASE BlockNode(d)
    BY <2>0, <2>4 DEF BlockNode
  <2>5. CASE ClaimNode(d)
    BY <2>0, <2>5 DEF ClaimNode
  <2> QED BY ONLY <1>2, <2>1, <2>2, <2>3, <2>4, <2>5 DEF DriverStep
<1>3. ASSUME NEW a \in Attempts, ExecStep(a) \/ ChildEnds(a) \/ DeleteChild(a)
      PROVE  Ordered' /\ NothingRunsAhead'
  <2>0. a[1] \in Nodes
    BY DEF Attempts
  <2>1. CASE SubmitChild(a) \/ AcquireSlot(a) \/ ProcessMedia(a)
             \/ ChildEnds(a) \/ DeleteChild(a)
    BY <2>1 DEF SubmitChild, AcquireSlot, ProcessMedia, ChildEnds, DeleteChild
  <2>2. CASE MarkRunning(a)
    BY <2>0, <2>2 DEF MarkRunning, TypedTasks
  <2>3. CASE EndExecution(a)
    BY <2>0, <2>3 DEF EndExecution, SetResult, TypedTasks
  <2> QED BY ONLY <1>3, <2>1, <2>2, <2>3 DEF ExecStep
<1>4. CASE InsertRun \/ SpawnDriver \/ SweepRuns \/ CancelRun
  BY <1>4 DEF InsertRun, SpawnDriver, SweepRuns, Reachable, CancelRun, TypedTasks
<1>5. CASE InsertNode
  BY <1>5 DEF InsertNode
<1>6. CASE CleanUp \/ ResetNode \/ ReopenRun \/ \E n \in Nodes : RetryNode(n)
  BY <1>6 DEF CleanUp, ResetNode, ReopenRun, RetryNode
<1>7. CASE CancelNodes
  BY <1>7 DEF CancelNodes
<1>8. CASE Crash
  BY <1>8 DEF Crash, Reachable
<1>9. CASE Recover
  BY <1>9 DEF Recover, Requeue, Interrupted
<1> QED BY ONLY [Next]_vars, <1>1, <1>2, <1>3, <1>4, <1>5, <1>6, <1>7, <1>8,
       <1>9 DEF Next

(* In every graph, with any number of drivers and with cancels and         *)
(* restarts: a node that was started has all its inputs.                   *)
THEOREM InOrder ==
    ASSUME Undisturbed PROVE Spec => []NothingRunsAhead
<1>1. Init => Ordered /\ NothingRunsAhead
  BY DEF Init, Ordered, NothingRunsAhead
<1>2. IInv /\ Ordered /\ NothingRunsAhead /\ [Next]_vars
        => Ordered' /\ NothingRunsAhead'
  BY ONLY Undisturbed, OrderedNext DEF IInv
<1> QED BY <1>1, <1>2, Inductive, PTL DEF Spec
-----------------------------------------------------------------------------
(* A run that was cancelled starts nothing                                 *)

(* No task of the process is left: after a crash.                          *)
Halted ==
    /\ \A d \in Actors : pc[d] = "off"
    /\ \A e \in Attempts : exec[e] \in {"none", "over"}

(* The run was closed before its nodes were: so once the cancel is over,   *)
(* no node is left to be started, or nobody to start it.                   *)
Stopped ==
    /\ ~up => create = "over" /\ Halted
    /\ cancel # "idle" => create = "over" /\ run # "running"
    /\ cancel = "over" => \/ \A n \in Nodes : node[n] \notin {"waiting", "starting"}
                          \/ Halted

LEMMA StoppedNext ==
    ASSUME Undisturbed, Typed, Ordered, Stopped, [Next]_vars
    PROVE  /\ Stopped'
           /\ cancel = "over" =>
                \A n \in Nodes : node'[n] \in Active => node[n] \in Active
<1> USE DEF Undisturbed, Typed, TypedRows, Stopped
<1>1. CASE UNCHANGED vars
  BY <1>1 DEF Halted
<1>2. ASSUME NEW d \in Actors, DriverStep(d)
      PROVE  /\ Stopped'
             /\ cancel = "over" =>
                  \A n \in Nodes : node'[n] \in Active => node[n] \in Active
  <2>0. ~Halted /\ up
    BY <1>2 DEF DriverStep, LoadRun, FetchNodes, ReadChild, RecordResult,
       PlanNodes, BlockNode, ClaimNode, EndPlan, JudgeRun, FinishRun, LookAgain,
       Halted
  <2>1. CASE LoadRun(d) \/ FetchNodes(d) \/ ReadChild(d) \/ PlanNodes(d)
             \/ EndPlan(d) \/ JudgeRun(d) \/ LookAgain(d)
    BY <2>0, <2>1 DEF LoadRun, FetchNodes, ReadChild, PlanNodes, EndPlan, JudgeRun,
       LookAgain
  <2>2. CASE RecordResult(d)
    BY <2>0, <2>2 DEF RecordResult, SetResult, TypedLocals
  <2>3. CASE BlockNode(d)
    BY <2>0, <2>3 DEF BlockNode
  <2>4. CASE ClaimNode(d)
    BY <2>0, <2>4 DEF ClaimNode
  <2>5. CASE FinishRun(d)
    BY <2>0, <2>5 DEF FinishRun, TypedLocals
  <2> QED BY ONLY <1>2, <2>1, <2>2, <2>3, <2>4, <2>5 DEF DriverStep
<1>3. ASSUME NEW a \in Attempts, ExecStep(a) \/ ChildEnds(a) \/ DeleteChild(a)
      PROVE  /\ Stopped'
             /\ cancel = "over" =>
                  \A n \in Nodes : node'[n] \in Active => node[n] \in Active
  <2>0. a[1] \in Nodes
    BY DEF Attempts
  <2>1. CASE ChildEnds(a) \/ DeleteChild(a)
    BY <2>1 DEF ChildEnds, DeleteChild, Halted
  <2>2. CASE SubmitChild(a) \/ AcquireSlot(a) \/ ProcessMedia(a)
    BY <2>2 DEF SubmitChild, AcquireSlot, ProcessMedia, Halted
  <2>3. CASE MarkRunning(a)
    BY <2>0, <2>3 DEF MarkRunning, Halted
  <2>4. CASE EndExecution(a)
    BY <2>0, <2>4 DEF EndExecution, SetResult, Halted
  <2> QED BY ONLY <1>3, <2>1, <2>2, <2>3, <2>4 DEF ExecStep
<1>4. CASE InsertRun \/ SpawnDriver \/ SweepRuns
  BY <1>4 DEF InsertRun, SpawnDriver, SweepRuns, Ordered, Halted
<1>5. CASE InsertNode
  BY <1>5 DEF InsertNode, Ordered
<1>6. CASE CleanUp \/ ResetNode \/ ReopenRun \/ \E n \in Nodes : RetryNode(n)
  BY <1>6 DEF CleanUp, ResetNode, ReopenRun, RetryNode, Ordered
<1>7. CASE CancelRun
  BY <1>7 DEF CancelRun, Reachable, Halted, TypedTasks
<1>8. CASE CancelNodes
  BY <1>8 DEF CancelNodes, Halted
<1>9. CASE Crash
  <2>1. create = "over" /\ Halted'
    BY <1>9 DEF Crash, Reachable, Halted, TypedTasks
  <2> QED BY <1>9, <2>1 DEF Crash, TypedTasks
<1>10. CASE Recover
  BY <1>10 DEF Recover, Requeue, Interrupted, Halted
<1> QED BY ONLY [Next]_vars, <1>1, <1>2, <1>3, <1>4, <1>5, <1>6, <1>7, <1>8,
       <1>9, <1>10 DEF Next

(* Once cancel_run has answered, no driver in the middle of its plan, no   *)
(* executor on its way and no restart starts or revives a node.            *)
THEOREM Cancelled ==
    ASSUME Undisturbed PROVE Spec => CancelStops
<1>1. Init => Ordered /\ NothingRunsAhead /\ Stopped
  BY DEF Init, Ordered, NothingRunsAhead, Stopped
<1>2. IInv /\ Ordered /\ NothingRunsAhead /\ Stopped /\ [Next]_vars
        => Ordered' /\ NothingRunsAhead' /\ Stopped'
  BY ONLY Undisturbed, OrderedNext, StoppedNext DEF IInv
<1>3. IInv /\ Ordered /\ Stopped /\ [Next]_vars =>
        [cancel = "over" => \A n \in Nodes :
           node'[n] \in Active => node[n] \in Active]_vars
  BY ONLY Undisturbed, StoppedNext DEF IInv
<1> QED BY <1>1, <1>2, <1>3, Inductive, PTL DEF Spec, CancelStops

-----------------------------------------------------------------------------
(* What is reported is so                                                  *)

(* What a driver is about to do or to say still holds.                     *)
Judged ==
    /\ run = "none" <=> create = "idle"
    /\ \A n \in Nodes : node[n] = "cancelled" => run # "running"
    /\ \A n \in Nodes : node[n] = "blocked"
         => \E p \in Nodes : node[p] \in {"failed", "cancelled"}
    /\ \A d \in Actors, n \in Nodes :
         pc[d] = "plan" /\ <<n, "block">> \in todo[d]
           => \E p \in Preds(n) : node[p] \in Bad
    /\ \A d \in Actors : pc[d] = "finish" =>
         /\ found[d][2] = "completed" => \A n \in Nodes : node[n] = "completed"
         /\ found[d][2] = "failed" =>
              /\ \A n \in Nodes : node[n] \in Over
              /\ run = "running" => \E n \in Nodes : node[n] = "failed"

(* A node's end is final, and so is the end of the run.                    *)
LEMMA EndsStand ==
    ASSUME Undisturbed, Typed, Ordered, Judged, [Next]_vars
    PROVE  /\ \A n \in Nodes : node[n] \in Over => node'[n] = node[n]
           /\ run \notin {"none", "running"} => run' # "running"
<1> USE DEF Undisturbed, Typed, TypedRows, Ordered
<1>1. CASE UNCHANGED vars
  BY <1>1
<1>2. ASSUME NEW d \in Actors, DriverStep(d)
      PROVE  /\ \A n \in Nodes : node[n] \in Over => node'[n] = node[n]
             /\ run \notin {"none", "running"} => run' # "running"
  BY <1>2, ZenonT(20) DEF DriverStep, LoadRun, FetchNodes, ReadChild, RecordResult,
     SetResult, PlanNodes, BlockNode, ClaimNode, Start, EndPlan, JudgeRun,
     FinishRun, LookAgain
<1>3. ASSUME NEW a \in Attempts, ExecStep(a) \/ ChildEnds(a) \/ DeleteChild(a)
      PROVE  /\ \A n \in Nodes : node[n] \in Over => node'[n] = node[n]
             /\ run' = run
  BY <1>3 DEF ExecStep, ChildEnds, DeleteChild, SubmitChild, MarkRunning, AcquireSlot,
     ProcessMedia, EndExecution, SetResult
<1>4. CASE SpawnDriver \/ SweepRuns \/ CancelRun \/ Crash
  BY <1>4 DEF SpawnDriver, SweepRuns, CancelRun, Crash
<1>5. CASE InsertNode \/ CancelNodes \/ Recover
  BY <1>5 DEF InsertNode, CancelNodes, Recover, Requeue, Interrupted
<1>6. CASE CleanUp \/ ResetNode \/ ReopenRun \/ \E n \in Nodes : RetryNode(n)
  BY <1>6 DEF CleanUp, ResetNode, ReopenRun, RetryNode
<1>7. CASE InsertRun
  BY <1>7 DEF InsertRun, Judged
<1> QED BY ONLY [Next]_vars, <1>1, <1>2, <1>3, <1>4, <1>5, <1>6, <1>7 DEF Next

LEMMA JudgedKept ==
    ASSUME Judged, UNCHANGED <<run, create>>,
           \A n \in Nodes : node[n] \in Over => node'[n] = node[n],
           \A n \in Nodes : node'[n] = "blocked" => node[n] = "blocked",
           \A n \in Nodes : node'[n] = "cancelled" =>
               node[n] = "cancelled" \/ run # "running",
           \A d \in Actors :
               /\ pc'[d] = "plan" => pc[d] = "plan" /\ todo'[d] \subseteq todo[d]
               /\ pc'[d] = "finish" => pc[d] = "finish" /\ found'[d] = found[d]
    PROVE  Judged'
<1> USE DEF Judged
<1>1. \A d \in Actors, n \in Nodes :
         pc'[d] = "plan" /\ <<n, "block">> \in todo'[d]
           => \E p \in Preds(n) : node'[p] \in Bad
  BY DEF Preds
<1>2. \A n \in Nodes : node'[n] = "blocked"
         => \E p \in Nodes : node'[p] \in {"failed", "cancelled"}
  OBVIOUS
<1>3. \A d \in Actors : pc'[d] = "finish" =>
         /\ found'[d][2] = "completed" => \A n \in Nodes : node'[n] = "completed"
         /\ found'[d][2] = "failed" =>
              /\ \A n \in Nodes : node'[n] \in Over
              /\ run' = "running" => \E n \in Nodes : node'[n] = "failed"
  <2> SUFFICES ASSUME NEW d \in Actors, pc'[d] = "finish"
      PROVE  /\ found'[d][2] = "completed" => \A n \in Nodes : node'[n] = "completed"
             /\ found'[d][2] = "failed" =>
                  /\ \A n \in Nodes : node'[n] \in Over
                  /\ run' = "running" => \E n \in Nodes : node'[n] = "failed"
    OBVIOUS
  <2>1. pc[d] = "finish" /\ found'[d] = found[d]
    OBVIOUS
  <2> QED BY <2>1
<1> QED BY <1>1, <1>2, <1>3

LEMMA JudgedNext ==
    ASSUME Undisturbed, Typed, Ordered, Stopped, Judged, [Next]_vars
    PROVE  Judged'
<1>0. /\ \A n \in Nodes : node[n] \in Over => node'[n] = node[n]
      /\ run \notin {"none", "running"} => run' # "running"
  BY EndsStand
<1> USE DEF Undisturbed, Typed, TypedRows, TypedTasks, Judged
<1>1. CASE UNCHANGED vars
  BY <1>1
<1>2. ASSUME NEW d \in Actors, DriverStep(d) PROVE Judged'
  <2>0. create = "over" /\ (\A n \in Nodes : node[n] # "none") /\ UNCHANGED create
    BY <1>2 DEF DriverStep, LoadRun, FetchNodes, ReadChild, RecordResult,
       PlanNodes, BlockNode, ClaimNode, EndPlan, JudgeRun, FinishRun, LookAgain,
       Ordered
  <2> USE DEF TypedLocals
  <2>1. CASE LoadRun(d) \/ FetchNodes(d) \/ ReadChild(d) \/ EndPlan(d)
             \/ LookAgain(d)
    BY <2>0, <2>1 DEF LoadRun, FetchNodes, ReadChild, EndPlan, LookAgain
  <2>2. CASE RecordResult(d)
    BY <1>0, <2>2, JudgedKept DEF RecordResult, SetResult
  <2>3. CASE PlanNodes(d)
    BY <2>0, <2>3 DEF PlanNodes, Doomed
  <2>4. CASE BlockNode(d)
    <3>1. PICK n \in Nodes :
            /\ <<n, "block">> \in todo[d] /\ NextRow(d, <<n, "block">>)
            /\ (node[n] = "waiting" /\ SetNode(n, "blocked")) \/ UNCHANGED node
      BY <2>4 DEF BlockNode
    <3>2. CASE UNCHANGED node
      BY <2>4, <3>1, <3>2, JudgedKept DEF BlockNode
    <3>3. CASE node[n] = "waiting" /\ SetNode(n, "blocked")
      <4>1. \E p \in Nodes : node[p] \in {"failed", "cancelled"}
        <5>1. PICK p \in Preds(n) : node[p] \in Bad
          BY ONLY <2>4, <3>1, d \in Actors, Judged DEF BlockNode, Judged
        <5>2. p \in Nodes
          BY ONLY <5>1 DEF Preds
        <5> QED BY ONLY <5>1, <5>2, Judged DEF Judged, Bad
      <4>2. \A m \in Nodes : node'[m] = "blocked"
              => \E p \in Nodes : node'[p] \in {"failed", "cancelled"}
        BY <1>0, <4>1
      <4>3. \A m \in Nodes : node'[m] = "cancelled" => run' # "running"
        BY <2>4, <3>3 DEF BlockNode
      <4>4. \A e \in Actors, m \in Nodes :
              pc'[e] = "plan" /\ <<m, "block">> \in todo'[e]
                => \E p \in Preds(m) : node'[p] \in Bad
        <5> SUFFICES ASSUME NEW e \in Actors, NEW m \in Nodes,
                            pc'[e] = "plan", <<m, "block">> \in todo'[e]
            PROVE  \E p \in Preds(m) : node'[p] \in Bad
          OBVIOUS
        <5>1. pc[e] = "plan" /\ <<m, "block">> \in todo[e]
          BY <2>4, <3>1 DEF BlockNode
        <5>2. PICK p \in Preds(m) : node[p] \in Bad
          BY <5>1
        <5> QED BY <1>0, <5>2 DEF Preds
      <4>5. \A e \in Actors : pc'[e] = "finish" => \A m \in Nodes : node[m] \in Over
        BY <2>4 DEF BlockNode
      <4> QED BY <2>0, <2>4, <3>3, <4>2, <4>3, <4>4, <4>5 DEF BlockNode
    <3> QED BY <3>1, <3>2, <3>3
  <2>5. CASE ClaimNode(d)
    BY <1>0, <2>5, JudgedKept DEF ClaimNode
  <2>6. CASE JudgeRun(d)
    BY <2>0, <2>6 DEF JudgeRun
  <2>7. CASE FinishRun(d)
    BY <2>0, <2>7 DEF FinishRun
  <2> QED BY ONLY <1>2, <2>1, <2>2, <2>3, <2>4, <2>5, <2>6, <2>7 DEF DriverStep
<1>3. ASSUME NEW a \in Attempts, ExecStep(a) \/ ChildEnds(a) \/ DeleteChild(a) PROVE Judged'
  <2>0. a[1] \in Nodes
    BY DEF Attempts
  <2>1. CASE SubmitChild(a) \/ AcquireSlot(a) \/ ProcessMedia(a)
             \/ ChildEnds(a) \/ DeleteChild(a)
    BY <2>1 DEF SubmitChild, AcquireSlot, ProcessMedia, ChildEnds, DeleteChild
  <2>2. CASE MarkRunning(a)
    BY <1>0, <2>0, <2>2, JudgedKept DEF MarkRunning
  <2>3. CASE EndExecution(a)
    BY <1>0, <2>0, <2>3, JudgedKept DEF EndExecution, SetResult
  <2> QED BY ONLY <1>3, <2>1, <2>2, <2>3 DEF ExecStep
<1>4. CASE InsertRun \/ SpawnDriver \/ SweepRuns \/ CancelRun
  BY <1>4 DEF InsertRun, SpawnDriver, SweepRuns, CancelRun, Ordered
<1>5. CASE InsertNode
  BY <1>5 DEF InsertNode, Ordered
<1>6. CASE CleanUp \/ ResetNode \/ ReopenRun \/ \E n \in Nodes : RetryNode(n)
  BY <1>6 DEF CleanUp, ResetNode, ReopenRun, RetryNode, Ordered
<1>7. CASE CancelNodes
  BY <1>0, <1>7, JudgedKept DEF CancelNodes, Stopped
<1>8. CASE Crash
  BY <1>8 DEF Crash, Reachable
<1>9. CASE Recover
  <2>1. UNCHANGED <<run, create, pc, todo, found>>
    BY <1>9 DEF Recover
  <2>2. \A n \in Nodes : node'[n] \in {node[n], "waiting", "failed"}
    BY <1>9 DEF Recover
  <2> QED BY <1>0, <2>1, <2>2, JudgedKept
<1> QED BY ONLY [Next]_vars, <1>1, <1>2, <1>3, <1>4, <1>5, <1>6, <1>7, <1>8,
       <1>9 DEF Next

LEMMA VerdictNext ==
    ASSUME Undisturbed, Typed, Ordered, Judged, VerdictRight, [Next]_vars
    PROVE  VerdictRight'
<1>0. \A n \in Nodes : node[n] \in Over => node'[n] = node[n]
  BY EndsStand
<1> USE DEF Undisturbed, Ordered, VerdictRight
<1>1. ASSUME NEW d \in Actors, FinishRun(d) PROVE VerdictRight'
  BY <1>1 DEF FinishRun, Judged, Typed, TypedLocals
<1>2. ASSUME run' = run PROVE VerdictRight'
  BY <1>0, <1>2
<1>3. \/ run' = run \/ run' \in {"running", "cancelled"}
      \/ \E d \in Actors : FinishRun(d)
  BY Zenon DEF Next, InsertRun, InsertNode, CleanUp, SpawnDriver, SweepRuns,
     DriverStep, LoadRun, FetchNodes, ReadChild, RecordResult, PlanNodes,
     BlockNode, ClaimNode, EndPlan, JudgeRun, LookAgain, ExecStep,
     SubmitChild, MarkRunning, AcquireSlot, ProcessMedia, EndExecution,
     ChildEnds, DeleteChild, CancelRun, CancelNodes, RetryNode, ResetNode, ReopenRun, Crash,
     Recover
<1> QED BY <1>1, <1>2, <1>3

(* A node with a child job is started once, and who looks at a child looks *)
(* at the node's own.                                                      *)
OwnJobs ==
    /\ \A n \in Nodes \ Media :
         /\ requeued[n] = 0
         /\ job[n] # None =>
              /\ job[n] = <<n, 1>> /\ exec[<<n, 1>>] = "over"
              /\ node[n] \notin {"none", "waiting", "starting"}
    /\ \A n \in Media : job[n] = None

OwnTasks ==
    \A e \in Attempts :
        /\ exec[e] # "none" => e[2] <= tries[e[1]]
        /\ exec[e] \in {"queue", "work", "save"} => e[1] \in Media

OwnReads ==
    \A d \in Actors :
        /\ pc[d] \in {"sync", "record"} =>
             \A e \in todo[d] : e[1] \notin Media /\ job[e[1]] = e
        /\ pc[d] = "record" =>
             /\ found[d][1] \notin Media /\ job[found[d][1]] # None
             /\ found[d][2] = "completed" => child[job[found[d][1]]] = "done"
             /\ found[d][2] = "failed" =>
                  \/ child[job[found[d][1]]] = "failed"
                  \/ job[found[d][1]] \in deleted

Own == OwnJobs /\ OwnTasks /\ OwnReads

LEMMA OwnNext ==
    ASSUME Undisturbed, Typed, Claims, Ordered, Own, ResultOfOwnJob, [Next]_vars
    PROVE  Own' /\ ResultOfOwnJob'
<1> USE DEF Undisturbed, Typed, TypedRows, TypedTasks, Own, OwnJobs, OwnTasks,
      OwnReads, ResultOfOwnJob
<1>1. CASE UNCHANGED vars
  BY <1>1
<1>2. ASSUME NEW d \in Actors, DriverStep(d) PROVE Own' /\ ResultOfOwnJob'
  <2> USE DEF TypedLocals
  <2>1. CASE LoadRun(d) \/ PlanNodes(d) \/ EndPlan(d) \/ JudgeRun(d)
             \/ FinishRun(d) \/ LookAgain(d)
    BY <2>1 DEF LoadRun, PlanNodes, EndPlan, JudgeRun, FinishRun, LookAgain
  <2>2. CASE FetchNodes(d)
    <3>1. \A e \in todo'[d] : e[1] \notin Media /\ job[e[1]] = e
      <4> SUFFICES ASSUME NEW e \in todo'[d]
          PROVE  e[1] \notin Media /\ job[e[1]] = e
        OBVIOUS
      <4>1. PICK n \in Nodes : e = job[n] /\ job[n] # None
        BY <2>2 DEF FetchNodes
      <4>2. n \notin Media /\ e = <<n, 1>>
        BY <4>1
      <4>3. e[1] = n
        BY ONLY <4>2
      <4> QED BY ONLY <4>1, <4>2, <4>3
    <3>2. UNCHANGED <<node, job, exec, child, deleted, tries, requeued, found>>
      BY <2>2 DEF FetchNodes
    <3>3. OwnReads'
      BY <2>2, <3>1, <3>2 DEF FetchNodes
    <3> QED BY <3>2, <3>3
  <2>3. CASE ReadChild(d)
    BY <2>3 DEF ReadChild, StateOf, Attempts
  <2>4. CASE RecordResult(d)
    BY <2>4 DEF RecordResult, SetResult
  <2>5. CASE BlockNode(d)
    BY <2>5 DEF BlockNode
  <2>6. CASE ClaimNode(d)
    <3>1. PICK n \in Nodes :
            /\ NextRow(d, <<n, "claim">>)
            /\ \/ node[n] = "waiting" /\ SetNode(n, "starting") /\ Start(n)
               \/ UNCHANGED <<node, tries, exec>>
      BY <2>6 DEF ClaimNode
    <3>2. /\ UNCHANGED <<job, child, deleted, requeued, pc, found>> /\ pc[d] = "plan"
          /\ \A e \in Actors : e # d => todo'[e] = todo[e]
      BY <2>6, <3>1 DEF ClaimNode
    <3>3. OwnReads'
      BY <3>2
    <3>4. CASE UNCHANGED <<node, tries, exec>>
      BY <3>2, <3>3, <3>4
    <3>5. CASE node[n] = "waiting" /\ SetNode(n, "starting") /\ Start(n)
      <4>1. OwnJobs' /\ ResultOfOwnJob'
        BY <3>2, <3>5 DEF Start
      <4>2. OwnTasks'
        <5> SUFFICES ASSUME NEW e \in Attempts
            PROVE  /\ exec'[e] # "none" => e[2] <= tries'[e[1]]
                   /\ exec'[e] \in {"queue", "work", "save"} => e[1] \in Media
          OBVIOUS
        <5>1. e[1] \in Nodes /\ e[2] \in Nat
          BY DEF Attempts
        <5>2. tries' = [tries EXCEPT ![n] = tries[n] + 1]
          BY <3>5 DEF Start
        <5>3. CASE e = <<n, tries[n] + 1>>
          BY <3>5, <5>1, <5>2, <5>3 DEF Start
        <5>4. CASE e # <<n, tries[n] + 1>>
          BY <3>5, <5>1, <5>2, <5>4 DEF Start
        <5> QED BY <5>3, <5>4
      <4> QED BY <3>3, <4>1, <4>2
    <3> QED BY <3>1, <3>4, <3>5
  <2> QED BY ONLY <1>2, <2>1, <2>2, <2>3, <2>4, <2>5, <2>6 DEF DriverStep
<1>3. ASSUME NEW a \in Attempts, ExecStep(a) \/ ChildEnds(a) \/ DeleteChild(a)
      PROVE  Own' /\ ResultOfOwnJob'
  <2>0. a[1] \in Nodes /\ a[2] \in Nat /\ a = <<a[1], a[2]>> /\ a[2] > 0
    BY DEF Attempts
  <2>6. ASSUME exec[a] # "none", a[1] \notin Media PROVE a = <<a[1], 1>>
    <3>1. tries[a[1]] <= 1 + requeued[a[1]] /\ requeued[a[1]] = 0
      BY <2>0, <2>6 DEF Claims
    <3>2. a[2] <= tries[a[1]] /\ tries[a[1]] \in Nat
      BY <2>0, <2>6
    <3>3. a[2] = 1
      BY <2>0, <3>1, <3>2
    <3> QED BY <2>0, <3>3
  <2>1. CASE SubmitChild(a)
    <3>1. \A n \in Nodes \ Media : job[n] # None => job[n] # a
      <4> SUFFICES ASSUME NEW n \in Nodes \ Media, job[n] # None, job[n] = a
          PROVE  FALSE
        OBVIOUS
      <4>1. exec[a] = "over"
        <5>1. job[n] = <<n, 1>> /\ exec[<<n, 1>>] = "over"
          BY ONLY OwnJobs, n \in Nodes \ Media, job[n] # None DEF OwnJobs
        <5> QED BY ONLY <5>1, job[n] = a
      <4> QED BY <2>1, <4>1 DEF SubmitChild
    <3>2. UNCHANGED <<node, job, deleted, tries, requeued, pc, todo, found>>
      BY <2>1 DEF SubmitChild
    <3>3. \A e \in Attempts : e # a => exec'[e] = exec[e] /\ child'[e] = child[e]
      BY <2>1 DEF SubmitChild
    <3>4. exec'[a] \in {"mark", "fail"} /\ exec[a] = "submit"
      BY <2>1 DEF SubmitChild
    <3>5. OwnTasks'
      BY <2>0, <3>2, <3>3, <3>4
    <3>6. OwnJobs' /\ ResultOfOwnJob'
      BY <3>1, <3>2, <3>3
    <3>7. OwnReads'
      BY <3>1, <3>2, <3>3 DEF TypedLocals
    <3> QED BY <3>5, <3>6, <3>7
  <2>2. CASE AcquireSlot(a) \/ ProcessMedia(a)
    BY <2>0, <2>2 DEF AcquireSlot, ProcessMedia
  <2>3. CASE ChildEnds(a)
    BY <2>0, <2>3 DEF ChildEnds
  <2>7. CASE DeleteChild(a)
    BY <2>0, <2>7 DEF DeleteChild
  <2>4. CASE MarkRunning(a)
    <3>1. a[1] \notin Media => a = <<a[1], 1>>
      BY <2>4, <2>6 DEF MarkRunning
    <3>2. OwnTasks'
      BY <2>0, <2>4 DEF MarkRunning
    <3>3. CASE UNCHANGED <<node, job>>
      <4>1. OwnJobs' /\ ResultOfOwnJob'
        BY <2>4, <3>3 DEF MarkRunning
      <4>2. OwnReads'
        BY <2>4, <3>3 DEF MarkRunning
      <4> QED BY <3>2, <4>1, <4>2
    <3>4. CASE node[a[1]] = "starting"
      <4>1. OwnJobs' /\ ResultOfOwnJob'
        BY <2>0, <2>4, <3>1, <3>4 DEF MarkRunning
      <4>2. OwnReads'
        <5>1. a[1] \notin Media => job[a[1]] = None
          BY <2>0, <3>4
        <5>2. \A n \in Nodes : job[n] # None /\ n \notin Media => job'[n] = job[n]
          BY <2>0, <2>4, <5>1 DEF MarkRunning
        <5>3. UNCHANGED <<child, deleted, pc, todo, found>>
          BY <2>4 DEF MarkRunning
        <5>4. \A e \in Attempts : e[1] \in Nodes /\ e # None
          BY DEF Attempts
        <5>5. ASSUME NEW d \in Actors, pc[d] \in {"sync", "record"},
                     NEW e \in todo[d]
              PROVE  e[1] \notin Media /\ job'[e[1]] = e
          BY <5>2, <5>4, <5>5 DEF TypedLocals
        <5>6. ASSUME NEW d \in Actors, pc[d] = "record"
              PROVE  found[d][1] \notin Media /\ job'[found[d][1]] = job[found[d][1]]
          BY <5>2, <5>6 DEF TypedLocals
        <5> QED BY <5>3, <5>5, <5>6
      <4> QED BY <3>2, <4>1, <4>2
    <3> QED BY <2>4, <3>3, <3>4 DEF MarkRunning
  <2>5. CASE EndExecution(a)
    <3>1. UNCHANGED <<job, child, deleted, tries, requeued, pc, todo, found>>
      BY <2>5 DEF EndExecution
    <3>2. /\ exec' = [exec EXCEPT ![a] = "over"] /\ exec[a] \in {"save", "fail"}
          /\ exec[a] = "save" => a[1] \in Media
      BY <2>5 DEF EndExecution
    <3>3. OwnTasks' /\ OwnReads'
      BY <2>0, <3>1, <3>2
    <3>4. a[1] \notin Media => job[a[1]] = None
      <4>1. a[1] \notin Media => a = <<a[1], 1>>
        BY <2>6, <3>2
      <4> QED BY <2>0, <3>2, <4>1
    <3>5. OwnJobs'
      BY <2>0, <2>5, <3>1, <3>2, <3>4 DEF EndExecution, SetResult
    <3>6. ResultOfOwnJob'
      BY <2>0, <2>5, <3>1, <3>2, <3>4 DEF EndExecution, SetResult
    <3> QED BY <3>3, <3>5, <3>6
  <2> QED BY ONLY <1>3, <2>1, <2>2, <2>3, <2>4, <2>5, <2>7 DEF ExecStep
<1>4. CASE InsertRun \/ SpawnDriver \/ SweepRuns \/ CancelRun
  BY <1>4 DEF InsertRun, SpawnDriver, SweepRuns, CancelRun
<1>5. CASE InsertNode
  BY <1>5 DEF InsertNode
<1>6. CASE CleanUp \/ ResetNode \/ ReopenRun \/ \E n \in Nodes : RetryNode(n)
  BY <1>6 DEF CleanUp, ResetNode, ReopenRun, RetryNode, Ordered
<1>7. CASE CancelNodes
  BY <1>7 DEF CancelNodes
<1>8. CASE Crash
  BY <1>8, SMTT(20) DEF Crash
<1>9. CASE Recover
  <2>1. UNCHANGED <<job, exec, child, deleted, tries, pc, todo, found>>
    BY <1>9 DEF Recover
  <2>2. \A n \in Nodes \ Media :
           /\ requeued'[n] = requeued[n]
           /\ node'[n] = node[n] \/ (node[n] = "starting" /\ node'[n] = "failed")
    <3>1. PICK again \in {Requeue, {}}, lost \in {Interrupted, {}} :
            /\ node' = [n \in Nodes |-> IF n \in again THEN "waiting"
                                       ELSE IF n \in lost THEN "failed" ELSE node[n]]
            /\ requeued' = [n \in Nodes |-> requeued[n] + IF n \in again THEN 1 ELSE 0]
      BY ONLY <1>9 DEF Recover
    <3>2. again \subseteq Media /\ \A n \in lost : node[n] = "starting"
      BY DEF Requeue, Interrupted
    <3>3. \A n \in Nodes \ Media : requeued'[n] = requeued[n]
      BY <3>1, <3>2
    <3>4. \A n \in Nodes \ Media :
            node'[n] = node[n] \/ (node[n] = "starting" /\ node'[n] = "failed")
      BY <3>1, <3>2
    <3> QED BY <3>3, <3>4
  <2>3. OwnTasks' /\ OwnReads'
    BY <2>1
  <2>4. OwnJobs' /\ ResultOfOwnJob'
    <3>1. OwnJobs'
      <4> SUFFICES ASSUME NEW n \in Nodes \ Media
          PROVE  /\ requeued'[n] = 0
                 /\ job[n] # None =>
                      /\ job[n] = <<n, 1>> /\ exec[<<n, 1>>] = "over"
                      /\ node'[n] \notin {"none", "waiting", "starting"}
        BY <2>1
      <4>1. /\ requeued[n] = 0
            /\ job[n] # None =>
                 /\ job[n] = <<n, 1>> /\ exec[<<n, 1>>] = "over"
                 /\ node[n] \notin {"none", "waiting", "starting"}
        OBVIOUS
      <4> QED BY ONLY <2>2, <4>1, n \in Nodes \ Media
    <3>2. ResultOfOwnJob'
      BY ONLY <2>1, <2>2, OwnJobs, ResultOfOwnJob, ZenonT(20) DEF OwnJobs, ResultOfOwnJob
    <3> QED BY <3>1, <3>2
  <2> QED BY <2>3, <2>4
<1> QED BY ONLY [Next]_vars, <1>1, <1>2, <1>3, <1>4, <1>5, <1>6, <1>7, <1>8,
       <1>9 DEF Next

(* Whichever driver judges the run on whatever snapshot, and however late a*)
(* child job ends: the run's and every node's reported result is the one   *)
(* that the nodes and the node's own child job have; only a job its user   *)
(* deleted counts as failed whatever becomes of it.                        *)
THEOREM Reported ==
    ASSUME Undisturbed PROVE Spec => []ReportsRight
<1> DEFINE Right == /\ Ordered /\ NothingRunsAhead /\ Stopped /\ Judged /\ Own
                    /\ VerdictRight /\ ResultOfOwnJob
<1>1. Init => Right
  BY DEF Init, Ordered, NothingRunsAhead, Stopped, Judged, Own, OwnJobs,
     OwnTasks, OwnReads, VerdictRight, ResultOfOwnJob
<1>2. IInv /\ Right /\ [Next]_vars => Right'
  BY ONLY Undisturbed, OrderedNext, StoppedNext, JudgedNext, VerdictNext, OwnNext
     DEF IInv
<1>3. Right => ReportsRight
  BY DEF ReportsRight
<1> QED BY <1>1, <1>2, <1>3, Inductive, PTL DEF Spec
=============================================================================
