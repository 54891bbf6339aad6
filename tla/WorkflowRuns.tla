---------------------------- MODULE WorkflowRuns ----------------------------
(***************************************************************************)
(* Creative pipelines (src/workflows.rs): one run of a graph of media      *)
(* nodes. The run and its nodes are rows; a spawned driver and the periodic*)
(* sweep both read them, start the nodes whose inputs are ready and close  *)
(* the run; every started node has an executor task of its own; the user   *)
(* may cancel the run or retry a node; the server may restart.             *)
(* One step is one SQL statement or one call to another part.              *)
(***************************************************************************)
EXTENDS Integers, FiniteSets

CONSTANTS
    Nodes,        \* nodes of the graph
    Edges,        \* its edges, pairs of nodes; validate_graph rejects cycles
    Media,        \* video_trim and video_merge nodes; the others have child jobs
    Images,       \* image_generation nodes, whose jobs are studio generations
    Drivers,      \* tasks of spawn_driver
    Sweeper,      \* the task that runs sweep()
    None,         \* no job_token
    Slots,        \* YUNOVA_MEDIA_CONCURRENCY
    Requests,     \* what the user asks for: "cancel", "retry", "deleteChild"
    Retryable,    \* the status of a node the page offers a retry for
    Early,        \* may others reach the run before create_run is over
    Faults,       \* what can go wrong: "db", "crash"
    MaxMishaps,   \* how many times something goes wrong
    MaxRetries    \* how many times a node is retried

ASSUME WorkflowAssumption ==
    /\ Edges \subseteq Nodes \X Nodes
    /\ Media \subseteq Nodes /\ Images \subseteq Nodes
    /\ Sweeper \notin Drivers
    /\ None \notin Nodes \X Nat
    /\ Slots \in Nat \ {0}
    /\ Early \in BOOLEAN
    /\ MaxMishaps \in Nat /\ MaxRetries \in Nat

VARIABLES
    run,          \* workflow_runs.status
    node, job,    \* status and job_token in workflow_node_runs
    child,        \* the studio or video job an attempt has submitted
    deleted,      \* child jobs whose row the user has deleted
    exec,         \* the executor task of every attempt
    tries, requeued,  \* how often a node was claimed and put back to waiting
    pc, todo, found,  \* drivers: position, rows to handle, row in hand
    create, cancel, retry, resetting,  \* the request handlers
    up, mishaps

rows == <<run, node, job>>
attempts == <<exec, child, deleted, tries>>
driving == <<pc, todo, found>>
handlers == <<create, cancel, retry, resetting>>
server == <<up, mishaps>>
vars == <<rows, attempts, requeued, driving, handlers, server>>

Actors == Drivers \cup {Sweeper}
MaxTries == 1 + MaxRetries + MaxMishaps
Attempts == Nodes \X (1..MaxTries)

Active == {"starting", "running"}
Bad == {"failed", "blocked", "cancelled"}
Over == Bad \cup {"completed"}
NodeStatus == Over \cup Active \cup {"none", "waiting"}
RunStatus == {"none", "running", "completed", "failed", "cancelled", "deleted"}
Results == {"completed", "failed"}

Rows == {n \in Nodes : node[n] # "none"}
Preds(n) == {p \in Nodes : <<p, n>> \in Edges}

(* retry_node's closure: the nodes reachable from n, n included.           *)
Downstream(n) == {m \in Nodes :
    \A S \in SUBSET Nodes :
        (n \in S /\ \A e \in Edges : e[1] \in S => e[2] \in S) => m \in S}

(* A statement that fails has no effect; most of them drop the error.     *)
Mishap(kind) ==
    /\ kind \in Faults /\ mishaps < MaxMishaps
    /\ mishaps' = mishaps + 1
DbFails == Mishap("db")
Fine == UNCHANGED mishaps

SetNode(n, status) == node' = [node EXCEPT ![n] = status]
SetExec(a, step) == exec' = [exec EXCEPT ![a] = step]
Goto(d, step) == pc' = [pc EXCEPT ![d] = step]

(* The run's token is known to its owner, and the sweep may find the row. *)
Reachable == create = "over" \/ Early

ExecSteps == {"none", "submit", "mark", "queue", "work", "save", "fail", "over"}
DriverSteps == {"off", "load", "fetch", "sync", "record", "refetch", "plan",
                "latest", "finish", "again"}
NoRow == <<None, "none">>

TypeOK ==
    /\ run \in RunStatus
    /\ node \in [Nodes -> NodeStatus]
    /\ job \in [Nodes -> Attempts \cup {None}]
    /\ child \in [Attempts -> {"none", "working", "done", "failed"}]
    /\ deleted \subseteq Attempts
    /\ exec \in [Attempts -> ExecSteps]
    /\ tries \in [Nodes -> 0..MaxTries]
    /\ requeued \in [Nodes -> 0..MaxRetries + MaxMishaps]
    /\ pc \in [Actors -> DriverSteps]
    /\ \A d \in Actors :
         /\ todo[d] \subseteq (IF pc[d] \in {"sync", "record"} THEN Attempts
                               ELSE Nodes \X {"block", "claim"})
         /\ found[d] \in ((Nodes \cup {None}) \X Results) \cup {NoRow}
    /\ create \in {"idle", "insert", "cleanup", "spawn", "over"}
    /\ cancel \in {"idle", "nodes", "over"}
    /\ retry \in {"idle", "reset", "reopen", "spawn"}
    /\ resetting \subseteq Nodes
    /\ up \in BOOLEAN
    /\ mishaps \in 0..MaxMishaps

Init ==
    /\ run = "none"
    /\ node = [n \in Nodes |-> "none"]
    /\ job = [n \in Nodes |-> None]
    /\ child = [a \in Attempts |-> "none"] /\ deleted = {}
    /\ exec = [a \in Attempts |-> "none"]
    /\ tries = [n \in Nodes |-> 0]
    /\ requeued = [n \in Nodes |-> 0]
    /\ pc = [d \in Actors |-> "off"]
    /\ todo = [d \in Actors |-> {}]
    /\ found = [d \in Actors |-> NoRow]
    /\ create = "idle" /\ cancel = "idle" /\ retry = "idle" /\ resetting = {}
    /\ up = TRUE /\ mishaps = 0

-----------------------------------------------------------------------------
(* create_run: the run's row, then one row per node, then a driver         *)

InsertRun ==
    /\ up /\ create = "idle"
    /\ run' = "running" /\ create' = "insert"
    /\ UNCHANGED <<node, job, attempts, requeued, driving, cancel, retry,
                   resetting, server>>

InsertNode ==
    /\ create = "insert"
    /\ \/ \E n \in Nodes \ Rows :
            /\ Fine /\ SetNode(n, "waiting")
            /\ create' = IF Rows \cup {n} = Nodes THEN "spawn" ELSE "insert"
       \/ DbFails /\ create' = "cleanup" /\ UNCHANGED node
    /\ UNCHANGED <<run, job, attempts, requeued, driving, cancel, retry,
                   resetting, up>>

(* DELETE of the run, its nodes with it (ON DELETE CASCADE).              *)
CleanUp ==
    /\ create = "cleanup"
    /\ create' = "over"
    /\ \/ /\ Fine /\ run' = "deleted"
          /\ node' = [n \in Nodes |-> "none"] /\ job' = [n \in Nodes |-> None]
       \/ DbFails /\ UNCHANGED rows
    /\ UNCHANGED <<attempts, requeued, driving, cancel, retry, resetting, up>>

SpawnDriver ==
    /\ create = "spawn" \/ retry = "spawn"
    /\ \E d \in Drivers : pc[d] = "off" /\ Goto(d, "load")
    /\ create' = IF create = "spawn" THEN "over" ELSE create
    /\ retry' = IF create = "spawn" THEN retry ELSE "idle"
    /\ UNCHANGED <<rows, attempts, requeued, todo, found, cancel, resetting,
                   server>>

-----------------------------------------------------------------------------
(* drive_run_once, by a spawned driver or by the sweep                     *)

(* sweep: SELECT ... WHERE status = 'running' (at most 20 runs a round).  *)
SweepRuns ==
    /\ up /\ pc[Sweeper] = "off" /\ run = "running" /\ Reachable
    /\ Goto(Sweeper, "load")
    /\ UNCHANGED <<rows, attempts, requeued, todo, found, handlers, server>>

(* A spawned driver looks at the run once more; the sweep is done with it.*)
Return(d) == Goto(d, IF d = Sweeper THEN "off" ELSE "again")

LoadRun(d) ==
    /\ pc[d] = "load"
    /\ \/ Fine /\ run = "running" /\ Goto(d, "fetch")
       \/ ((Fine /\ run # "running") \/ DbFails) /\ Return(d)
    /\ UNCHANGED <<rows, attempts, requeued, todo, found, handlers, up>>

(* fetch_node_runs answers an empty list when the query fails.            *)
FetchNodes(d) ==
    /\ pc[d] = "fetch"
    /\ \/ /\ Fine
          /\ todo' = [todo EXCEPT ![d] =
               {job[n] : n \in {m \in Rows : node[m] = "running" /\ job[m] # None}}]
       \/ DbFails /\ UNCHANGED todo
    /\ Goto(d, "sync")
    /\ UNCHANGED <<rows, attempts, requeued, found, handlers, up>>

NextRow(d, x) == todo' = [todo EXCEPT ![d] = @ \ {x}]
Take(d, n, result) == found' = [found EXCEPT ![d] = <<n, result>>]

(* The state both queries answer; no row of that token is an error.        *)
StateOf(a) == IF a \in deleted THEN "missing" ELSE child[a]

(* Mutant of ReadChild: every state but "done" is taken for a failure.    *)
ReadChildHastily(d) ==
    /\ pc[d] = "sync" /\ Fine
    /\ \/ \E a \in todo[d] :
            /\ NextRow(d, a) /\ Goto(d, "record")
            /\ Take(d, a[1], IF StateOf(a) = "done" THEN "completed" ELSE "failed")
       \/ todo[d] = {} /\ Goto(d, "refetch") /\ UNCHANGED <<todo, found>>
    /\ UNCHANGED <<rows, attempts, requeued, handlers, up>>

(* workflow_generation_state and workflow_video_state: an error, and that  *)
(* is a failure of the node, when the user has deleted the job. The answer *)
(* is awaited, and used in a statement of its own afterwards.              *)
ReadChild(d) ==
    /\ pc[d] = "sync"
    /\ \/ \E a \in todo[d] :
            /\ NextRow(d, a)
            /\ \/ Fine /\ StateOf(a) = "working" /\ UNCHANGED <<pc, found>>
               \/ /\ Fine /\ StateOf(a) = "done"
                  /\ Take(d, a[1], "completed") /\ Goto(d, "record")
               \/ /\ (Fine /\ StateOf(a) \in {"failed", "missing"}) \/ DbFails
                  /\ Take(d, a[1], "failed") /\ Goto(d, "record")
       \/ todo[d] = {} /\ Fine /\ Goto(d, "refetch") /\ UNCHANGED <<todo, found>>
    /\ UNCHANGED <<rows, attempts, requeued, handlers, up>>

(* Mutant of SetResult: the UPDATE without a look at the status.           *)
SetResultAnyway(n, result) == Fine /\ node[n] # "none" /\ SetNode(n, result)

(* set_node_complete and set_node_failed: UPDATE ... WHERE id = ? AND      *)
(* status IN ('starting', 'running'), whichever attempt the row is about.  *)
SetResult(n, result) ==
    \/ Fine /\ node[n] \in Active /\ SetNode(n, result)
    \/ ((Fine /\ node[n] \notin Active) \/ DbFails) /\ UNCHANGED node

RecordResult(d) ==
    /\ pc[d] = "record"
    /\ SetResult(found[d][1], found[d][2])
    /\ found' = [found EXCEPT ![d] = NoRow]
    /\ Goto(d, "sync")
    /\ UNCHANGED <<run, job, attempts, requeued, todo, handlers, up>>

(* What the loop over the waiting rows will do, from the second fetch; a  *)
(* predecessor without a row is passed over.                               *)
Doomed(n) == \E p \in Preds(n) \cap Rows : node[p] \in Bad
(* Mutant of Ready: one finished input is enough.                         *)
ReadyOnFirst(n) ==
    \/ Preds(n) = {}
    \/ \E p \in Preds(n) \cap Rows : node[p] = "completed"
Ready(n) == \A p \in Preds(n) \cap Rows : node[p] = "completed"

PlanNodes(d) ==
    LET waiting == {n \in Nodes : node[n] = "waiting"} IN
    /\ pc[d] = "refetch"
    /\ \/ /\ Fine
          /\ todo' = [todo EXCEPT ![d] =
               {<<n, "block">> : n \in {m \in waiting : Doomed(m)}}
               \cup {<<n, "claim">> : n \in {m \in waiting : ~Doomed(m) /\ Ready(m)}}]
       \/ DbFails /\ UNCHANGED todo
    /\ Goto(d, "plan")
    /\ UNCHANGED <<rows, attempts, requeued, found, handlers, up>>

BlockNode(d) ==
    /\ pc[d] = "plan"
    /\ \E n \in Nodes :
         /\ <<n, "block">> \in todo[d] /\ NextRow(d, <<n, "block">>)
         /\ \/ Fine /\ node[n] = "waiting" /\ SetNode(n, "blocked")
            \/ ((Fine /\ node[n] # "waiting") \/ DbFails) /\ UNCHANGED node
    /\ UNCHANGED <<run, job, attempts, requeued, pc, found, handlers, up>>

Start(n) ==
    /\ tries' = [tries EXCEPT ![n] = @ + 1]
    /\ SetExec(<<n, tries[n] + 1>>, IF n \in Media THEN "mark" ELSE "submit")

(* Mutant of ClaimNode: the claim without "AND status = 'waiting'".        *)
ClaimShared(d) ==
    /\ pc[d] = "plan" /\ Fine
    /\ \E n \in Nodes :
         /\ <<n, "claim">> \in todo[d] /\ NextRow(d, <<n, "claim">>)
         /\ SetNode(n, "starting") /\ Start(n)
    /\ UNCHANGED <<run, job, child, deleted, requeued, pc, found, handlers, up>>

(* The claim is a conditional UPDATE; its winner spawns the executor.      *)
ClaimNode(d) ==
    /\ pc[d] = "plan"
    /\ \E n \in Nodes :
         /\ <<n, "claim">> \in todo[d] /\ NextRow(d, <<n, "claim">>)
         /\ \/ Fine /\ node[n] = "waiting" /\ SetNode(n, "starting") /\ Start(n)
            \/ /\ (Fine /\ node[n] # "waiting") \/ DbFails
               /\ UNCHANGED <<node, tries, exec>>
    /\ UNCHANGED <<run, job, child, deleted, requeued, pc, found, handlers, up>>

EndPlan(d) ==
    /\ pc[d] = "plan" /\ todo[d] = {}
    /\ Goto(d, "latest")
    /\ UNCHANGED <<rows, attempts, requeued, todo, found, handlers, server>>

(* The third fetch decides whether the run is over; of an empty list, all *)
(* nodes are completed.                                                    *)
JudgeRun(d) ==
    /\ pc[d] = "latest"
    /\ \/ /\ (Fine /\ \A n \in Rows : node[n] = "completed") \/ DbFails
          /\ Take(d, None, "completed") /\ Goto(d, "finish")
       \/ /\ Fine /\ \A n \in Rows : node[n] \in Over
          /\ \E n \in Rows : node[n] # "completed"
          /\ Take(d, None, "failed") /\ Goto(d, "finish")
       \/ /\ Fine /\ \E n \in Rows : node[n] \notin Over
          /\ Return(d) /\ UNCHANGED found
    /\ UNCHANGED <<rows, attempts, requeued, todo, handlers, up>>

(* Mutants of FinishRun: a cancelled run is closed again; the run takes    *)
(* the word its child jobs use.                                            *)
FinishAnyway(d) ==
    /\ pc[d] = "finish" /\ Fine
    /\ run' = found[d][2]
    /\ found' = [found EXCEPT ![d] = NoRow]
    /\ Return(d)
    /\ UNCHANGED <<node, job, attempts, requeued, todo, handlers, up>>

FinishAsDone(d) ==
    /\ pc[d] = "finish" /\ Fine
    /\ run' = IF run = "running" /\ found[d][2] = "completed" THEN "done" ELSE run
    /\ found' = [found EXCEPT ![d] = NoRow]
    /\ Return(d)
    /\ UNCHANGED <<node, job, attempts, requeued, todo, handlers, up>>

(* finish_run: UPDATE ... WHERE id = ? AND status = 'running'              *)
FinishRun(d) ==
    /\ pc[d] = "finish"
    /\ \/ Fine /\ run = "running" /\ run' = found[d][2]
       \/ ((Fine /\ run # "running") \/ DbFails) /\ UNCHANGED run
    /\ found' = [found EXCEPT ![d] = NoRow]
    /\ Return(d)
    /\ UNCHANGED <<node, job, attempts, requeued, todo, handlers, up>>

(* spawn_driver's loop: on while the run is running, every three seconds. *)
LookAgain(d) ==
    /\ pc[d] = "again"
    /\ \/ Fine /\ run = "running" /\ Goto(d, "load")
       \/ ((Fine /\ run # "running") \/ DbFails) /\ Goto(d, "off")
    /\ UNCHANGED <<rows, attempts, requeued, todo, found, handlers, up>>

DriverStep(d) ==
    \/ LoadRun(d) \/ FetchNodes(d) \/ ReadChild(d) \/ RecordResult(d)
    \/ PlanNodes(d) \/ BlockNode(d) \/ ClaimNode(d) \/ EndPlan(d)
    \/ JudgeRun(d) \/ FinishRun(d) \/ LookAgain(d)

-----------------------------------------------------------------------------
(* execute_node, one task per attempt                                      *)

(* studio::start_workflow_generation or videos::start_workflow_video: the  *)
(* child job exists and is billed, or an error comes back.                 *)
SubmitChild(a) ==
    /\ exec[a] = "submit"
    /\ \/ SetExec(a, "mark") /\ child' = [child EXCEPT ![a] = "working"]
       \/ SetExec(a, "fail") /\ UNCHANGED child
    /\ UNCHANGED <<rows, deleted, tries, requeued, driving, handlers, server>>

(* Mutant of MarkRunning: the UPDATE without "AND status = 'starting'".    *)
MarkAnyway(a) ==
    /\ exec[a] = "mark" /\ Fine
    /\ SetNode(a[1], "running")
    /\ job' = [job EXCEPT ![a[1]] = IF a[1] \in Media THEN None ELSE a]
    /\ SetExec(a, IF a[1] \in Media THEN "queue" ELSE "over")
    /\ UNCHANGED <<run, child, deleted, tries, requeued, driving, handlers, up>>

(* mark_node_running: guarded by 'starting', an error when nothing changed.*)
MarkRunning(a) ==
    /\ exec[a] = "mark"
    /\ \/ /\ Fine /\ node[a[1]] = "starting"
          /\ SetNode(a[1], "running")
          /\ job' = [job EXCEPT ![a[1]] = IF a[1] \in Media THEN None ELSE a]
          /\ SetExec(a, IF a[1] \in Media THEN "queue" ELSE "over")
       \/ /\ (Fine /\ node[a[1]] # "starting") \/ DbFails
          /\ SetExec(a, "fail") /\ UNCHANGED <<node, job>>
    /\ UNCHANGED <<run, child, deleted, tries, requeued, driving, handlers, up>>

AcquireSlot(a) ==
    /\ exec[a] = "queue"
    /\ Cardinality({b \in Attempts : exec[b] \in {"work", "save"}}) < Slots
    /\ SetExec(a, "work")
    /\ UNCHANGED <<rows, child, deleted, tries, requeued, driving, handlers, server>>

(* trim_video or merge_videos, which time out in the end. A failure gives  *)
(* the slot back at once, a success after the result is recorded.          *)
ProcessMedia(a) ==
    /\ exec[a] = "work"
    /\ SetExec(a, "save") \/ SetExec(a, "fail")
    /\ UNCHANGED <<rows, child, deleted, tries, requeued, driving, handlers, server>>

EndExecution(a) ==
    /\ \/ exec[a] = "save" /\ SetResult(a[1], "completed")
       \/ exec[a] = "fail" /\ SetResult(a[1], "failed")
    /\ SetExec(a, "over")
    /\ UNCHANGED <<run, job, child, deleted, tries, requeued, driving, handlers, up>>

ExecStep(a) ==
    \/ SubmitChild(a) \/ MarkRunning(a) \/ AcquireSlot(a) \/ ProcessMedia(a)
    \/ EndExecution(a)

(* Studio and video jobs end by themselves (VideoJobs shows EveryJobEnds;  *)
(* a restart fails the studio jobs it interrupts).                         *)
ChildEnds(a) ==
    /\ child[a] = "working"
    /\ \E s \in {"done", "failed"} : child' = [child EXCEPT ![a] = s]
    /\ UNCHANGED <<rows, exec, deleted, tries, requeued, driving, handlers, server>>

(* The user deletes the job's row: a studio generation in whatever status  *)
(* (its task works on), a video job only when it is over.                  *)
DeleteChild(a) ==
    /\ "deleteChild" \in Requests
    /\ up /\ child[a] # "none" /\ a \notin deleted
    /\ a[1] \in Images \/ child[a] # "working"
    /\ deleted' = deleted \cup {a}
    /\ UNCHANGED <<rows, exec, child, tries, requeued, driving, handlers, server>>

-----------------------------------------------------------------------------
(* cancel_run and retry_node                                               *)

CancelRun ==
    /\ "cancel" \in Requests
    /\ up /\ Reachable /\ cancel = "idle" /\ run \notin {"none", "deleted"}
    /\ \/ Fine /\ run' = IF run = "running" THEN "cancelled" ELSE run
       \/ DbFails /\ UNCHANGED run
    /\ cancel' = "nodes"
    /\ UNCHANGED <<node, job, attempts, requeued, driving, create, retry,
                   resetting, up>>

CancelNodes ==
    /\ cancel = "nodes"
    /\ \/ /\ Fine
          /\ node' = [n \in Nodes |-> IF node[n] \in {"waiting", "starting"}
                                      THEN "cancelled" ELSE node[n]]
       \/ DbFails /\ UNCHANGED node
    /\ cancel' = "over"
    /\ UNCHANGED <<run, job, attempts, requeued, driving, create, retry,
                   resetting, up>>

RetryNode(n) ==
    /\ "retry" \in Requests
    /\ up /\ Reachable /\ retry = "idle" /\ node[n] \in Retryable
    /\ \A m \in Downstream(n) : requeued[m] < MaxRetries
    /\ retry' = "reset" /\ resetting' = Downstream(n)
    /\ UNCHANGED <<rows, attempts, requeued, driving, create, cancel, server>>

(* One UPDATE per node, of finished rows only, in no particular order.     *)
ResetNode ==
    /\ retry = "reset"
    /\ \/ \E n \in resetting :
            /\ resetting' = resetting \ {n} /\ UNCHANGED retry
            /\ \/ /\ Fine /\ node[n] \in Over
                  /\ SetNode(n, "waiting") /\ job' = [job EXCEPT ![n] = None]
                  /\ requeued' = [requeued EXCEPT ![n] = @ + 1]
               \/ /\ (Fine /\ node[n] \notin Over) \/ DbFails
                  /\ UNCHANGED <<node, job, requeued>>
       \/ /\ resetting = {} /\ retry' = "reopen" /\ Fine
          /\ UNCHANGED <<node, job, requeued, resetting>>
    /\ UNCHANGED <<run, attempts, driving, create, cancel, up>>

(* The run is running again, whatever it was.                              *)
ReopenRun ==
    /\ retry = "reopen"
    /\ \/ /\ Fine /\ run' = IF run = "deleted" THEN run ELSE "running"
          /\ retry' = "spawn"
       \/ DbFails /\ retry' = "idle" /\ UNCHANGED run
    /\ UNCHANGED <<node, job, attempts, requeued, driving, create, cancel,
                   resetting, up>>

-----------------------------------------------------------------------------
(* Restart                                                                 *)

(* Every task of the process is gone; the rows stay.                       *)
Crash ==
    /\ up /\ Reachable /\ Mishap("crash")
    /\ up' = FALSE
    /\ exec' = [a \in Attempts |-> IF exec[a] = "none" THEN "none" ELSE "over"]
    /\ pc' = [d \in Actors |-> "off"]
    /\ todo' = [d \in Actors |-> {}]
    /\ found' = [d \in Actors |-> NoRow]
    /\ create' = IF create = "idle" THEN "idle" ELSE "over"
    /\ cancel' = IF cancel = "nodes" THEN "over" ELSE cancel
    /\ retry' = "idle" /\ resetting' = {}
    /\ UNCHANGED <<rows, child, deleted, tries, requeued>>

Interrupted == {n \in Nodes : node[n] = "starting"}
Requeue == {n \in Media : node[n] = "running"}

(* Mutant of Recover: interrupted media nodes stay 'running'.             *)
RecoverStarting ==
    /\ ~up /\ Fine /\ up' = TRUE
    /\ node' = [n \in Nodes |-> IF n \in Interrupted THEN "failed" ELSE node[n]]
    /\ UNCHANGED <<run, job, attempts, requeued, driving, handlers>>

(* recover: two statements, either of which may fail unnoticed.            *)
Recover ==
    /\ ~up /\ up' = TRUE
    /\ \E again \in {Requeue, {}}, lost \in {Interrupted, {}} :
         /\ \/ Fine /\ again = Requeue /\ lost = Interrupted
            \/ DbFails /\ (again = Requeue \/ lost = Interrupted)
         /\ node' = [n \in Nodes |-> IF n \in again THEN "waiting"
                                     ELSE IF n \in lost THEN "failed" ELSE node[n]]
         /\ requeued' = [n \in Nodes |-> requeued[n] + IF n \in again THEN 1 ELSE 0]
    /\ UNCHANGED <<run, job, attempts, driving, handlers>>

-----------------------------------------------------------------------------
Next ==
    \/ InsertRun \/ InsertNode \/ CleanUp \/ SpawnDriver \/ SweepRuns
    \/ \E d \in Actors : DriverStep(d)
    \/ \E a \in Attempts : ExecStep(a) \/ ChildEnds(a) \/ DeleteChild(a)
    \/ CancelRun \/ CancelNodes
    \/ \E n \in Nodes : RetryNode(n)
    \/ ResetNode \/ ReopenRun \/ Crash \/ Recover

Spec == Init /\ [][Next]_vars

(* Tasks that are spawned run, timers fire, child jobs end, and a server   *)
(* that went down is started again. Users need not ask for anything.       *)
Fairness ==
    /\ WF_vars(InsertNode) /\ WF_vars(CleanUp) /\ WF_vars(SpawnDriver)
    /\ WF_vars(SweepRuns)
    /\ \A d \in Actors : WF_vars(DriverStep(d))
    /\ \A a \in Attempts : WF_vars(ExecStep(a)) /\ WF_vars(ChildEnds(a))
    /\ WF_vars(CancelNodes) /\ WF_vars(ResetNode) /\ WF_vars(ReopenRun)
    /\ WF_vars(Recover)
FairSpec == Spec /\ Fairness

-----------------------------------------------------------------------------
(* Properties *)

(* However many drivers look at the run, a node is started once, and once  *)
(* more for every time a retry or a restart put it back (workflows.rs 1107-*)
(* 1124): a second start would submit and bill a second child job.         *)
ClaimedOnce == \A n \in Nodes : tries[n] <= 1 + requeued[n]

(* A late executor, a stale driver or a cancel never changes the result of *)
(* a finished node; only the user's retry does (or the run is deleted).    *)
ResultsStand ==
    [][\A n \in Nodes :
         node[n] \in Results /\ node'[n] # node[n]
           => \/ retry = "reset" /\ node'[n] = "waiting"
              \/ run' = "deleted"]_vars

(* No node runs ahead of its inputs (workflows.rs 1063-1106), over all     *)
(* interleavings of the drivers' snapshots with the executors.             *)
NothingRunsAhead ==
    \A n \in Nodes : node[n] \in Active \cup {"completed"}
        => \A p \in Preds(n) : node[p] = "completed"

(* The verdict on a run is the one its nodes give (workflows.rs 1175-1194):*)
(* a completed run has all its results, a failed one has a node that       *)
(* failed and none still to come - except while retry_node resets them.   *)
VerdictRight ==
    retry = "idle" =>
      /\ run = "completed" => \A n \in Nodes : node[n] = "completed"
      /\ run = "failed" => /\ \A n \in Nodes : node[n] \in Over
                           /\ \E n \in Nodes : node[n] = "failed"

(* README.md 202: a failed node can be retried, and what follows it with   *)
(* it. So a node that a retry has put back is going to run: it is not left *)
(* waiting in a run that is over.                                          *)
RetryIsHeard ==
    retry = "idle" /\ run \in Results => \A n \in Nodes : node[n] # "waiting"

(* A node has the result of its own child job: it is not completed before  *)
(* the job is done, and not given up while the job is still at work -      *)
(* unless its user deleted the job, which only stops the looking at it     *)
(* (studio.rs 951-966, workflows.rs 1001-1003).                            *)
ResultOfOwnJob ==
    \A n \in Nodes \ Media :
        /\ node[n] = "completed" => job[n] # None /\ child[job[n]] = "done"
        /\ node[n] = "failed" /\ job[n] # None
             => child[job[n]] = "failed" \/ job[n] \in deleted

(* What is reported is so, of the run and of each node: whichever driver   *)
(* judges on whatever snapshot, and however late a child ends.             *)
ReportsRight == VerdictRight /\ ResultOfOwnJob

(* Once cancel_run has answered, nothing starts any more: neither a driver *)
(* in the middle of its plan nor an executor that was submitting its job   *)
(* brings a node back (workflows.rs 1655-1703).                            *)
CancelStops ==
    [][cancel = "over" => \A n \in Nodes :
         node'[n] \in Active => node[n] \in Active]_vars

(* A run does not stay 'running' for ever, even across a restart, which    *)
(* the sweep resumes it from (main.rs 1537).                               *)
EveryRunEnds == run = "running" ~> run # "running"
=============================================================================
